---------------------------- MODULE Calculations ----------------------------
(***************************************************************************)
(* The calculations on which the irreversible steps rest, each put next to *)
(* a definition of what its answer has to be: which disk is the target     *)
(* (BlockGraph), what the rebuilt EFI partition holds (Fat16), where the   *)
(* partitions of the image lie (ImageLayout), and the estimates of staging *)
(* (Resources).  A behaviour asks one question, or goes through one        *)
(* staging with its estimates.                                             *)
(***************************************************************************)
EXTENDS Resources, BlockGraph, Fat16, ImageLayout

CONSTANTS Graphs,   \* bound: the block device graphs considered
          Tables,   \* bound: the MBRs considered, with the size of the image
          Images    \* bound: the partition tables of images considered

ASSUME CalculationsAssumption ==
    /\ \A g \in Graphs : g \in GraphType /\ WellFormed(g)
    /\ \A t \in Tables : t.mbr \in Seq(MBREntry) /\ t.size \in Nat

VARIABLES
    task,       \* "estimates", "target", "esp", "layout", "gpt"
    question,   \* what is asked
    answer      \* what the code finds out, <<>> before

vars == <<task, question, answer, estimateVars>>

----------------------------------------------------------------------------
(* Questions *)

\* Lengths of loader and map, from nothing to more than is allowed, and whether the
\* loader has the headers of one.
BootFiles == [loader : 0..(MaxLoader + 1), map : 0..(MaxMap + 1), efi : BOOLEAN]

\* What may be read back instead of what was written: an entry of both allocation
\* tables or of one differs, a cluster is lost, or a directory entry is damaged.
DamagedEntries(entry) ==
    [cluster : {entry.cluster}, size : {0, entry.size, entry.size + 1}, isDir : BOOLEAN]
    \cup [cluster : 0..Entries - 1, size : {entry.size}, isDir : {entry.isDir}]

WithWords(esp, c, word, copied) == [esp EXCEPT !.fat[c] = word, !.copy[c] = copied]

OtherTables(esp) ==
    {WithWords(esp, c, w, w) : c \in DOMAIN esp.fat, w \in FatWords}
    \cup {WithWords(esp, c, w, esp.copy[c]) : c \in DOMAIN esp.fat, w \in FatWords}

LostClusters(esp) ==
    {[esp EXCEPT !.data[c] = [k \in 1..ClusterCells |-> Zero]] : c \in ClusterNumbers}

DamagedRoot(esp) ==
    UNION {{[esp EXCEPT !.root[name] = e] : e \in DamagedEntries(esp.root[name])} :
            name \in DOMAIN esp.root}

DamagedDirs(esp) ==
    UNION {UNION {{[esp EXCEPT !.dirs[c][name] = e] : e \in DamagedEntries(esp.dirs[c][name])} :
                    name \in DOMAIN esp.dirs[c]} : c \in ClusterNumbers}

ReadBack(esp) == OtherTables(esp) \cup LostClusters(esp) \cup DamagedRoot(esp) \cup DamagedDirs(esp)

----------------------------------------------------------------------------
(* Actions: each translates one call. *)

Asked(t) == task = t /\ answer = <<>> /\ UNCHANGED <<task, question, estimateVars>>

FindTarget == Asked("target") /\ answer' = <<DetectTarget(question)>>

\* prepareUEFIImage: buildUEFIFAT16 of the files that readUEFIBootFiles has put through
\* the same checks, and, once the partition was written, validateUEFIFAT16 of what is
\* read back from the image.
PrepareEsp ==
    /\ Asked("esp")
    /\ IF Built(question.loader, question.map, question.efi)
       THEN \E esp \in {Layout(question.loader, question.map)}
                        \cup ReadBack(Layout(question.loader, question.map)) :
                answer' = <<[built |-> TRUE, esp |-> esp,
                             valid |-> ValidEsp(esp, question.loader, question.map)]>>
       ELSE answer' = <<[built |-> FALSE]>>

Inspect == Asked("layout") /\ answer' = <<Inspected(question.mbr, question.size)>>

ValidateGPT == Asked("gpt") /\ answer' = <<OfficialGPT(question)>>

Estimate == task = "estimates" /\ EstimateNext /\ UNCHANGED <<task, question, answer>>

Init ==
    /\ answer = <<>>
    /\ \/ task = "target" /\ question \in Graphs
       \/ task = "esp" /\ question \in BootFiles
       \/ task = "layout" /\ question \in Tables
       \/ task = "gpt" /\ question \in Images
       \/ task = "estimates" /\ question = <<>>
    /\ IF task = "estimates" THEN EstimateInit
       ELSE /\ step = "refused" /\ listing = <<>> /\ compressed = 0
            /\ image = 0 /\ base = 0 /\ blocks = 0 /\ blockSize = 0 /\ memory = 0

Next == FindTarget \/ PrepareEsp \/ Inspect \/ ValidateGPT \/ Estimate

Spec == Init /\ [][Next]_vars

----------------------------------------------------------------------------
(* Properties *)

Answered(t) == task = t /\ answer # <<>>

\* A file system other than btrfs that does not lie on the device found for it alone:
\* one of several devices (bcachefs), one with a journal on another device, or one
\* whose SOURCE names no device and ends as the name of one does.  detect.go:67 asks
\* for btrfs only, and lookup takes the last part of what it cannot find.
OnOtherDevices(g) == ~g.btrfs /\ g.holds # {Lookup(g)}

\* detect.go: a target that is accepted on an installed system is the one physical
\* disk under the device that was found for /, through every layer: no stack on several
\* disks, no disk that itself lies on others.  It is the one under everything on which
\* the file system of / lies, a btrfs on several devices included, except for the file
\* systems of OnOtherDevices.
RootTargetIsWholeStack ==
    Answered("target") /\ answer[1].blockers = {} /\ OnDevice(question) =>
        LET under(S) == {n \in Physical(question) : Carries(question, n, S)}
        IN /\ under({Lookup(question)}) = {answer[1].target}
           /\ OnOtherDevices(question) \/ under(question.holds) = {answer[1].target}

\* detect.go: a target that is accepted in a rescue system is a physical disk on
\* which nothing mounted lies, however many layers are between, and every other
\* physical disk is out of the question: read-only, removable, or in use.
RescueTargetIsFree ==
    Answered("target") /\ answer[1].blockers = {} /\ ~OnDevice(question) =>
        LET free == {n \in Physical(question) \cap question.fixed \cap Disks(question) :
                        \A m \in question.mounted : ~Carries(question, n, {m})}
        IN free = {answer[1].target}

\* fat16.go: a loader and a map of any length that the checks of the two files let pass
\* are built: the allocation never runs out of clusters, and the validation that reads
\* the partition back never refuses what was laid out.
CheckedFilesAreBuilt ==
    LET maps == {n \in 1..MaxMap : \E words \in 1..MaxMap : n = words * MapUnit}
    IN Answered("esp") /\ question.efi
        /\ question.loader \in MinLoader..MaxLoader /\ question.map \in maps => answer[1].built

\* fat16.go, uefi.go: whatever is read back from the image, a partition passes only
\* when a reader that follows its table finds both files whole.
AcceptedEspIsWhole ==
    Answered("esp") /\ answer[1].built /\ answer[1].valid =>
        LET esp == answer[1].esp
            boot == esp.dirs[esp.root["EFI"].cluster]["BOOT"]
        IN /\ Holds(esp, esp.dirs[boot.cluster]["BOOTX64"], Content("loader", question.loader))
           /\ Holds(esp, esp.root["MAP"], Content("map", question.map))

\* image.go: the partitions of an accepted MBR lie within the image, none on the MBR
\* itself, and no two share a sector, in whatever order the table lists them.
AcceptedPartitionsAreApart ==
    Answered("layout") /\ answer[1] =>
        /\ Apart(question.mbr)
        /\ \A i \in Used(question.mbr) :
            Sectors(question.mbr[i].start, question.mbr[i].sectors)
                \subseteq 1..(question.size - 1)

\* gpt.go, uefi.go: the ESP is written where a firmware that reads either GPT looks for
\* it, over no other partition and over no header or table.
RewrittenPartitionIsTheEsp ==
    Answered("gpt") /\ answer[1] => EspOf(question, 1) /\ EspOf(question, BackupHeader)
=============================================================================
