----------------------------- MODULE BlockGraph -----------------------------
(***************************************************************************)
(* From the block devices that lsblk lists to the one disk that is         *)
(* overwritten: parseGraph, lookup, backingDisks, hasMountedDescendant and *)
(* the first half of Detect (src/internal/disk/detect.go).  Size, driver and   *)
(* identity of the disk are checked in Installation.                       *)
(***************************************************************************)
EXTENDS Naturals, FiniteSets

CONSTANTS Node,     \* block devices
          NoNode    \* no block device

ASSUME BlockGraphAssumption == IsFiniteSet(Node) /\ NoNode \notin Node

\* "sd" stands for every whole disk with a supported kernel name.  bcache and
\* others like it are whole disks to lsblk, although they lie on other devices.
Kinds == {"sd", "bcache", "part", "crypt", "lvm", "raid", "loop"}
Type(kind) == IF kind \in {"sd", "bcache"} THEN "disk" ELSE kind

SupportedKernelName(kind) == kind = "sd"

\* path: the device whose path is the SOURCE that findmnt prints for /, once links
\* are followed and a subvolume is cut off.  last: the device named as the last part
\* of SOURCE, which is another when SOURCE lists several devices or names none.
\* holds: the devices on which the file system of / does lie.  live: its type and
\* SOURCE are those of a rescue system.  fixed: neither read-only nor removable.
\* mounted: with a mount point, or used as swap.
GraphType ==
    [kind : [Node -> Kinds], parents : [Node -> SUBSET Node],
     path : Node \cup {NoNode}, last : Node \cup {NoNode}, holds : SUBSET Node,
     live : BOOLEAN, btrfs : BOOLEAN, fixed : SUBSET Node, mounted : SUBSET Node]

\* What the kernel and lsblk guarantee: a supported disk lies on no device, a
\* partition or a mapping lies on one.
WellFormed(g) ==
    /\ \A n \in Node : g.kind[n] = "sd" => g.parents[n] = {}
    /\ \A n \in Node : g.kind[n] \in {"part", "crypt", "lvm"} => g.parents[n] # {}

IsDisk(g, n) == Type(g.kind[n]) = "disk"
Disks(g) == {n \in Node : IsDisk(g, n)}
Children(g, n) == {m \in Node : n \in g.parents[m]}

\* The device of /: found by its path, or else by the last part of its name.
Lookup(g) == IF g.path # NoNode THEN g.path ELSE g.last
OnDevice(g) == Lookup(g) # NoNode

\* What a search reaches that goes from every node n to next[n].
Visited(start, next) ==
    LET after[steps \in 0..Cardinality(Node)] ==
            IF steps = 0 THEN {start}
            ELSE after[steps - 1] \cup UNION {next[n] : n \in after[steps - 1]}
    IN after[Cardinality(Node)]

\* Mutant: of several parents only one is followed.
OneParent(g, n) ==
    IF IsDisk(g, n) \/ g.parents[n] = {} THEN {} ELSE {CHOOSE m \in g.parents[n] : TRUE}

\* The search from / downwards stops at disks.
Below(g, n) == IF IsDisk(g, n) THEN {} ELSE g.parents[n]

RootStack(g) == Visited(Lookup(g), [n \in Node |-> Below(g, n)])
BackingDisks(g) == RootStack(g) \cap Disks(g)
UnsafeTypes(g) == {Type(g.kind[n]) : n \in RootStack(g)} \ {"disk", "part", "crypt", "lvm"}

\* Mutant: only the disk and its partitions are looked at.
MountedPartition(g, n) == ({n} \cup Children(g, n)) \cap g.mounted # {}

HasMountedDescendant(g, n) == Visited(n, [m \in Node |-> Children(g, m)]) \cap g.mounted # {}

\* The disks that Detect may overwrite; it goes on with exactly one.
Candidates(g) ==
    IF OnDevice(g) THEN BackingDisks(g)
    ELSE {n \in Disks(g) \cap g.fixed : ~HasMountedDescendant(g, n)}

Target(g) ==
    IF Cardinality(Candidates(g)) = 1 /\ (OnDevice(g) \/ g.live)
    THEN CHOOSE n \in Candidates(g) : TRUE
    ELSE NoNode

GraphBlockers(g) ==
    {b \in {"disk-stack", "root-device", "disk-ambiguity", "disk-driver"} :
        \/ b = "disk-stack" /\ (g.btrfs \/ (OnDevice(g) /\ UnsafeTypes(g) # {}))
        \/ b = "root-device" /\ ~OnDevice(g) /\ ~g.live
        \/ b = "disk-ambiguity" /\ Cardinality(Candidates(g)) # 1
        \/ b = "disk-driver" /\ Target(g) # NoNode /\ ~SupportedKernelName(g.kind[Target(g)])}

DetectTarget(g) == [target |-> Target(g), blockers |-> GraphBlockers(g)]

----------------------------------------------------------------------------
(* The same graph without a search: n carries the devices S when every set  *)
(* that contains S and the parents of its members contains n.               *)

Carries(g, n, S) ==
    \A C \in SUBSET Node :
        S \subseteq C /\ (\A m \in C : g.parents[m] \subseteq C) => n \in C

\* Devices that lie on no other.
Physical(g) == {n \in Node : g.parents[n] = {}}
=============================================================================
