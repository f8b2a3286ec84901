------------------------------- MODULE Writer -------------------------------
(***************************************************************************)
(* The writer: RunWriter with waitForFingerprint and ensureUnmounted       *)
(* (src/internal/install/writer_linux.go), CopyImage and HashPrefix        *)
(* (write.go), run from the initramfs (staged) or from a rescue system     *)
(* (direct).  Disks appear while it runs, in any order; the kernel names   *)
(* them by order of appearance, so a name says nothing of the disk.        *)
(* The image is a sequence of chunks; a SHA-256 of a prefix is the         *)
(* function from its chunks to what they hold.                             *)
(***************************************************************************)
EXTENDS Naturals, FiniteSets

CONSTANTS Disks,        \* the disks of the machine
          Target,       \* the disk that was authorised before the reboot
          Chunks,       \* bound: number of chunks of the image
          MaxUnplugs,   \* bound: disks that disappear while the writer runs
          Blank

ASSUME WriterAssumption ==
    Target \in Disks /\ IsFiniteSet(Disks) /\ Chunks \in Nat \ {0} /\ MaxUnplugs \in Nat

INSTANCE Fingerprint

Names == 1..Cardinality(Disks)       \* sda, sdb, ...; the device number follows the name
None == 0                            \* no name, no disk
Image == [c \in 1..Chunks |-> "img"]
Content == [1..Chunks -> {"old", "img", "bad"}]
Text(d, form) == [id |-> d, form |-> form]
Driver == Text("virtio", "plain")

VARIABLES
    mode,       \* "staged" or "direct", fixed
    expected,   \* manifest.Disk
    seen,       \* seen[d]: size and identities of a disk as this kernel reports them, fixed
    mounted,    \* disks with a mounted file system or active swap, fixed
    name,       \* name[d]: the kernel name of a visible disk, None when it is not
    unplugs,
    pc,
    late,       \* the 20 s of waitForFingerprint are over
    path,       \* targetPath: a name, not a disk
    opened,     \* the disk behind the open descriptor, None when there is none
    pos,        \* chunks handled by CopyImage or HashPrefix
    hash,       \* what the running hash has covered
    payload,    \* what the image in RAM or the work directory holds
    cache,      \* cache[d]: content as the page cache has it
    media       \* media[d]: content of the medium

fixed == <<mode, expected, seen, mounted>>
wire  == <<name, unplugs>>
data  == <<cache, media>>
vars  == <<fixed, wire, pc, late, path, opened, pos, hash, payload, data>>

Fingerprint(d, n) == [size |-> seen[d].size, wwn |-> seen[d].wwn, serial |-> seen[d].serial,
                      name |-> n, dev |-> n, driver |-> Driver]

Visible == {d \in Disks : name[d] # None}

\* SysfsDisks.
Candidates == {Fingerprint(d, name[d]) : d \in Visible}

DiskNamed(n) == IF \E d \in Visible : name[d] = n
                THEN CHOOSE d \in Visible : name[d] = n ELSE None

\* The identity of a disk is its own; a kernel may spell it differently or not
\* report it at all.
Reports(d) == [size : {1, 2},
               wwn : {Blank, Text(d, "plain"), Text(d, "prefixed")},
               serial : {Blank, Text(d, "plain")}]

Old == [c \in 1..Chunks |-> "old"]
Before(report, n) == [size |-> report.size, wwn |-> report.wwn, serial |-> report.serial,
                      name |-> n, dev |-> n, driver |-> Driver]

Init ==
    /\ mode \in {"staged", "direct"}
    /\ expected \in {Before(r, n) : r \in {x \in Reports(Target) :
                                              x.size = 1 /\ x.wwn # Text(Target, "prefixed")},
                                    n \in Names}
    /\ seen \in {s \in [Disks -> UNION {Reports(d) : d \in Disks}] :
                    /\ \A d \in Disks : s[d] \in Reports(d)
                    /\ s[Target].size = 1
                    /\ \A d \in Disks \ {Target} : s[d].serial = Blank}
    /\ mounted \in SUBSET {Target}
    /\ name = [d \in Disks |-> None] /\ unplugs = 0
    /\ pc = "hashImage" /\ late = FALSE /\ path = None /\ opened = None
    /\ pos = 0 /\ hash = Old
    /\ payload \in {Image, [Image EXCEPT ![Chunks] = "bad"]}
    /\ cache = [d \in Disks |-> Old] /\ media = [d \in Disks |-> Old]

----------------------------------------------------------------------------
(* RunWriter *)

\* Every error return: the staged writer halts, the direct one reports.
Fail == pc' = (IF mode = "staged" THEN "halted" ELSE "returned") /\ opened' = None

Step(from) == pc = from /\ UNCHANGED <<fixed, wire>>

\* ReadManifest and HashFile against the manifest.
HashImage ==
    /\ Step("hashImage")
    /\ \/ payload = Image /\ pc' = "find" /\ UNCHANGED opened
       \/ Fail
    /\ UNCHANGED <<late, path, pos, hash, payload, data>>

\* Mutant: waitForFingerprint without its deadline.
NoDeadline ==
    /\ Step("find")
    /\ \E f \in SelectAuthorized(expected, Candidates) : path' = f.name
    /\ pc' = "checkMounts"
    /\ UNCHANGED <<opened, late, pos, hash, payload, data>>

\* One turn of the loop of waitForFingerprint; it stops at the first match, and
\* looks at the clock only after a failure.
FindTarget ==
    LET found == SelectAuthorized(expected, Candidates) IN
    /\ Step("find")
    /\ \/ \E f \in found : path' = f.name /\ pc' = "checkMounts" /\ UNCHANGED opened
       \/ found = {} /\ late /\ Fail /\ UNCHANGED path
    /\ UNCHANGED <<late, pos, hash, payload, data>>

EnsureUnmounted ==
    /\ Step("checkMounts")
    /\ \/ DiskNamed(path) \notin mounted /\ pc' = "open" /\ UNCHANGED opened
       \/ Fail
    /\ UNCHANGED <<late, path, pos, hash, payload, data>>

\* The path is opened by name: whatever has the name now.
OpenTarget ==
    /\ Step("open")
    /\ \/ /\ DiskNamed(path) # None /\ opened' = DiskNamed(path) /\ pc' = "copy"
          /\ pos' = 0 /\ hash' = Old
       \/ Fail /\ UNCHANGED <<pos, hash>>
    /\ UNCHANGED <<late, path, payload, data>>

\* One turn of CopyImage's loop: the chunk is hashed as it was read, then
\* written to the page cache; a failed write may have written part of it.
CopyChunk ==
    /\ Step("copy") /\ pos < Chunks
    /\ \/ /\ opened # None
          /\ hash' = [hash EXCEPT ![pos + 1] = payload[pos + 1]]
          /\ cache' = [cache EXCEPT ![opened][pos + 1] = payload[pos + 1]]
          /\ pos' = pos + 1 /\ UNCHANGED <<pc, opened>>
       \/ /\ \/ UNCHANGED cache
             \/ opened # None /\ cache' = [cache EXCEPT ![opened][pos + 1] = "bad"]
          /\ Fail /\ UNCHANGED <<pos, hash>>
    /\ UNCHANGED <<late, path, payload, media>>

\* A disk can accept a write and hold something else.
Written(content) == {content} \cup {[content EXCEPT ![c] = "bad"] : c \in 1..Chunks}

SyncTarget ==
    /\ Step("copy") /\ pos = Chunks
    /\ \/ /\ opened # None /\ pc' = "compare" /\ UNCHANGED opened
          /\ \E m \in Written(cache[opened]) : media' = [media EXCEPT ![opened] = m]
       \/ Fail /\ UNCHANGED media
    /\ UNCHANGED <<late, path, pos, hash, payload, cache>>

CompareWritten ==
    /\ Step("compare")
    /\ \/ hash = Image /\ pc' = "reopen" /\ opened' = None
       \/ hash # Image /\ Fail
    /\ UNCHANGED <<late, path, pos, hash, payload, data>>

\* Mutant: BLKFLSBUF is not issued, the read-back is served by the page cache.
NoBufferFlush ==
    /\ Step("reopen")
    /\ \/ /\ DiskNamed(path) # None /\ opened' = DiskNamed(path) /\ pc' = "verify"
          /\ pos' = 0 /\ hash' = Old /\ UNCHANGED cache
       \/ Fail /\ UNCHANGED <<pos, hash, cache>>
    /\ UNCHANGED <<late, path, payload, media>>

\* Open again, by name, and BLKFLSBUF: what is read next comes from the medium.
ReopenAndFlush ==
    /\ Step("reopen")
    /\ \/ /\ DiskNamed(path) # None /\ opened' = DiskNamed(path) /\ pc' = "verify"
          /\ pos' = 0 /\ hash' = Old
          /\ cache' = [cache EXCEPT ![opened'] = media[opened']]
       \/ Fail /\ UNCHANGED <<pos, hash, cache>>
    /\ UNCHANGED <<late, path, payload, media>>

\* One turn of HashPrefix's loop.
ReadBackChunk ==
    /\ Step("verify") /\ pos < Chunks
    /\ \/ /\ opened # None
          /\ hash' = [hash EXCEPT ![pos + 1] = cache[opened][pos + 1]]
          /\ pos' = pos + 1 /\ UNCHANGED <<pc, opened>>
       \/ Fail /\ UNCHANGED <<pos, hash>>
    /\ UNCHANGED <<late, path, payload, data>>

\* The last comparison, then the reboot, which may fail.
VerifyAndReboot ==
    /\ Step("verify") /\ pos = Chunks
    /\ \/ hash = Image /\ pc' = "rebooted" /\ UNCHANGED opened
       \/ Fail
    /\ UNCHANGED <<late, path, pos, hash, payload, data>>

----------------------------------------------------------------------------
(* The machine *)

Rest == UNCHANGED <<fixed, pc, path, opened, pos, hash>>

\* A driver finds a disk: it gets the first free name.
Attach(d) ==
    /\ name[d] = None /\ pc \notin {"halted", "returned", "rebooted"}
    /\ LET free == {n \in Names : \A e \in Disks : name[e] # n}
       IN  name' = [name EXCEPT ![d] = CHOOSE n \in free : \A m \in free : n <= m]
    /\ Rest /\ UNCHANGED <<unplugs, late, payload, data>>

\* A disk disappears: its name is free for another one, what was not written
\* is lost and an open descriptor is dead.
Unplug(d) ==
    /\ name[d] # None /\ unplugs < MaxUnplugs /\ pc \notin {"halted", "returned", "rebooted"}
    /\ unplugs' = unplugs + 1 /\ name' = [name EXCEPT ![d] = None]
    /\ cache' = [cache EXCEPT ![d] = media[d]]
    /\ opened' = IF opened = d THEN None ELSE opened
    /\ UNCHANGED <<fixed, pc, path, pos, hash, late, payload, media>>

TimePasses ==
    /\ pc = "find" /\ ~late /\ late' = TRUE
    /\ Rest /\ UNCHANGED <<wire, payload, data>>

\* The source changes under the writer after it was hashed.
SourceChanges ==
    /\ pc \in {"find", "checkMounts", "open", "copy"} /\ payload = Image
    /\ \E c \in 1..Chunks : payload' = [payload EXCEPT ![c] = "bad"]
    /\ Rest /\ UNCHANGED <<wire, late, data>>

RunWriter ==
    \/ HashImage \/ FindTarget \/ EnsureUnmounted \/ OpenTarget \/ CopyChunk
    \/ SyncTarget \/ CompareWritten \/ ReopenAndFlush \/ ReadBackChunk \/ VerifyAndReboot

Next == \/ RunWriter
        \/ \E d \in Disks : Attach(d) \/ Unplug(d)
        \/ TimePasses \/ SourceChanges

Spec == Init /\ [][Next]_vars

\* The writer runs, the clock advances; no disk has to appear.
FairSpec == Spec /\ WF_vars(RunWriter) /\ WF_vars(TimePasses)

----------------------------------------------------------------------------
(* Properties *)

TypeOK ==
    /\ pc \in {"hashImage", "find", "checkMounts", "open", "copy", "compare", "reopen",
               "verify", "halted", "returned", "rebooted"}
    /\ name \in [Disks -> Names \cup {None}] /\ unplugs \in 0..MaxUnplugs
    /\ late \in BOOLEAN /\ path \in Names \cup {None} /\ opened \in Disks \cup {None}
    /\ pos \in 0..Chunks /\ hash \in Content /\ payload \in Content
    /\ cache \in [Disks -> Content] /\ media \in [Disks -> Content]

Touched(d) == cache[d] # Old \/ media[d] # Old

\* README "A failed read-back checksum halts the writer instead of rebooting":
\* a machine that reboots has the whole image on the medium of one disk, in
\* spite of a changing source and of writes the disk accepted but did not keep.
RebootMeansInstalled ==
    pc = "rebooted" => \E d \in Disks : media[d] = Image

\* A recorded WWN or serial decides alone which disk is overwritten, in
\* whatever order and under whatever names the disks appear, as long as none
\* disappears again.
OnlyTheStableTargetIsWritten ==
    (HasStableIdentity(expected) /\ unplugs = 0) => \A d \in Disks : Touched(d) => d = Target

\* The identity that counts, the WWN or, where none was recorded, the serial, is
\* not reported by this kernel.
IdentityLost ==
    \/ expected.wwn # Blank /\ seen[Target].wwn = Blank
    \/ expected.wwn = Blank /\ expected.serial # Blank /\ seen[Target].serial = Blank

\* fingerprint.go: a WWN, or a serial recorded without one, that this kernel does
\* not report any more is never replaced by a match of the name, nor a WWN by a
\* match of the serial: the writer stops before it writes.
LostIdentityStops == IdentityLost => \A d \in Disks : ~Touched(d)

\* The writer does not wait for ever for a disk that does not come.
WriterEnds == <>(pc \in {"halted", "returned", "rebooted"})

----------------------------------------------------------------------------
(* What the README says of a disk that disappears. *)

\* README.md:91 "A stable serial or WWN recorded before reboot may never
\* degrade to the single-disk fallback; disappearance or change halts before
\* writing."
DisappearanceHaltsBeforeWriting ==
    HasStableIdentity(expected) => \A d \in Disks : Touched(d) => d = Target
=============================================================================
