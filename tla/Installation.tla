---------------------------- MODULE Installation ----------------------------
(***************************************************************************)
(* The interactive run: app.Run (src/internal/app/app.go) with             *)
(* dependencies.go, preflight.Run, the target that disk.Detect finds, and  *)
(* the acknowledgements of src/internal/ui.  The host may change at any    *)
(* moment between preflight and staging: disks come and go, kexec is       *)
(* disabled, tools are removed.  Fetching and preparing the image is one   *)
(* step here (modules Download and Image), staging is module Stage.        *)
(***************************************************************************)
EXTENDS Naturals, FiniteSets

CONSTANTS Disks,        \* the disks that may be attached
          Root,         \* the disk that backs / when the host is not a rescue system
          Blank,
          MaxChanges    \* bound: changes of the host during the run

ASSUME InstallationAssumption ==
    /\ Disks # {} /\ IsFiniteSet(Disks) /\ Root \in Disks /\ MaxChanges \in Nat
    /\ \A d \in Disks : [id |-> d, form |-> "plain"] # Blank

INSTANCE Fingerprint

Names == 1..Cardinality(Disks)
Away == 0
Tools == {"mkinitramfs", "lsinitramfs"}
Acks == {"network", "recovery", "untested", "erase", "begin"}

VARIABLES
    only,         \* --preflight, fixed
    rootBacked,   \* / is on a disk, not in memory; fixed
    stable,       \* disks that report a WWN, fixed
    grub,         \* one-shot GRUB staging is possible, fixed
    name,         \* name[d]: kernel name of an attached disk
    kexec,        \* kexec can be used now
    tools,        \* commands that are installed
    other,        \* a blocker outside disk.Detect and the tools
    changes,
    pc,
    again,        \* preflight has been run again after an installation
    report,       \* model.Preflight, Blank before the first one
    review,       \* ui.Review
    acks,         \* acknowledgements typed or chosen
    packages,     \* the package manager has been run
    consent,      \* the installation of packages was confirmed
    checked       \* history: what was attached when the target was revalidated

fixed == <<only, rootBacked, stable, grub>>
world == <<name, kexec, tools, other, changes>>
user  == <<review, acks, consent>>
vars  == <<fixed, world, pc, again, report, user, packages, checked>>

Attached == {d \in Disks : name[d] # Away}

FingerprintOf(d) == [size |-> 1, serial |-> Blank, driver |-> [id |-> "sd", form |-> "plain"],
                     wwn |-> IF d \in stable THEN [id |-> d, form |-> "plain"] ELSE Blank,
                     name |-> name[d], dev |-> name[d]]

\* Mutant: a rescue system with several disks is not refused.
EveryAttached == IF rootBacked THEN {Root} ELSE Attached

\* Detect: the disk that backs /, or the only one of a rescue system.
Target == IF rootBacked THEN {Root} ELSE IF Single(Attached) THEN Attached ELSE {}

DiskBlockers ==
    (IF Target = {} THEN {"disk-ambiguity"} ELSE {})
    \cup (IF Target \subseteq stable \/ Single(Attached) THEN {} ELSE {"disk-identity"})
    \cup (IF rootBacked THEN Tools \ tools ELSE {})
    \cup (IF rootBacked /\ ~kexec /\ ~grub THEN {"staging"} ELSE {})

\* configureStaging.
Method == IF ~rootBacked THEN "direct" ELSE IF kexec THEN "kexec" ELSE "grub"

\* What disk.Detect reports; disk and attached are history.
Detected == [target |-> {FingerprintOf(d) : d \in Target}, rootBacked |-> rootBacked,
             method |-> Method, disk |-> Target, attached |-> Attached]

NothingFound == [target |-> {}, rootBacked |-> FALSE, method |-> "direct",
                 disk |-> {}, attached |-> {}]

NoReport == [found |-> NothingFound, blockers |-> {}, tested |-> TRUE, verified |-> TRUE]

Init ==
    /\ only \in BOOLEAN /\ rootBacked \in BOOLEAN /\ grub \in BOOLEAN
    /\ stable \in SUBSET Disks
    /\ name \in {n \in [Disks -> Names \cup {Away}] :
                    /\ \A d, e \in Disks : n[d] = n[e] => (d = e \/ n[d] = Away)
                    /\ rootBacked => n[Root] # Away}
    /\ kexec \in BOOLEAN /\ tools \in SUBSET Tools /\ other \in BOOLEAN /\ changes = 0
    /\ pc = "preflight" /\ again = FALSE /\ report = NoReport
    /\ review = [verified |-> FALSE, recovery |-> FALSE]
    /\ acks = {} /\ packages = FALSE /\ consent = FALSE /\ checked = NothingFound

----------------------------------------------------------------------------
Goto(p) == pc' = p
Fail == Goto("ended")
Run(from) == pc = from /\ UNCHANGED fixed

\* preflight.Run: the host, the tools, the disk, the network, the release.
Preflight ==
    /\ Run("preflight")
    /\ \E tested, verified \in BOOLEAN :
          report' = [found |-> Detected,
                     blockers |-> DiskBlockers \cup (IF other THEN {"other"} ELSE {}),
                     tested |-> tested, verified |-> verified]
    /\ IF only THEN Fail ELSE Goto("decide")
    /\ UNCHANGED <<world, again, user, packages, checked>>

\* Mutant: tools are offered although something else blocks as well.
AnyToolMissing(blockers) == blockers \cap Tools # {}

\* dependencyInstallOffer: missing tools are all that blocks.
OnlyToolsMissing(blockers) == blockers # {} /\ blockers \subseteq Tools

Decide ==
    /\ Run("decide")
    /\ pc' = CASE OnlyToolsMissing(report.blockers) /\ ~again -> "offer"
               [] report.blockers = {} -> "review"
               [] OTHER -> "ended"
    /\ UNCHANGED <<world, again, report, user, packages, checked>>

ConfirmToolsInstall ==
    /\ Run("offer")
    /\ \/ consent' = TRUE /\ Goto("install")
       \/ Fail /\ UNCHANGED consent
    /\ UNCHANGED <<world, again, report, review, acks, packages, checked>>

\* installInitramfsTools: apt-get update and install, then the commands are
\* looked up again.  A failure may come after packages were changed.
InstallTools ==
    /\ Run("install")
    /\ \/ tools = Tools /\ UNCHANGED <<tools, packages>> /\ Goto("preflight")
       \/ tools # Tools /\ tools' = Tools /\ packages' = TRUE /\ Goto("preflight")
       \/ /\ tools # Tools /\ packages' \in BOOLEAN
          /\ tools' \in {t \in SUBSET Tools : tools \subseteq t} /\ Fail
    /\ again' = TRUE
    /\ UNCHANGED <<name, kexec, other, changes, report, user, checked>>

\* Mutant: the evidence is looked at before the edits.
EvidenceKept(before, edited) == before

\* ReviewPreflight: a plan that was edited is not verified any more.
EvidenceAfter(before, edited) == before /\ ~edited

ReviewPlan ==
    /\ Run("review")
    /\ \/ \E edited, recovery \in BOOLEAN :
             /\ review' = [verified |-> report.verified /\ ~edited, recovery |-> recovery]
             /\ acks' = (IF EvidenceAfter(report.verified, edited) THEN {} ELSE {"network"})
                        \cup (IF recovery THEN {} ELSE {"recovery"})
             /\ Goto("prepare")
       \/ Fail /\ UNCHANGED <<review, acks>>
    /\ UNCHANGED <<world, again, report, packages, consent, checked>>

\* MkdirTemp, Client.Prepare and the first memory estimate.
PrepareImage ==
    /\ Run("prepare")
    /\ Goto(IF report.tested THEN "confirm" ELSE "confirmUntested") \/ Fail
    /\ UNCHANGED <<world, again, report, user, packages, checked>>

ConfirmUntested ==
    /\ Run("confirmUntested")
    /\ \/ acks' = acks \cup {"untested"} /\ Goto("confirm")
       \/ Fail /\ UNCHANGED acks
    /\ UNCHANGED <<world, again, report, review, consent, packages, checked>>

ConfirmDestruction ==
    /\ Run("confirm")
    /\ \/ acks' = acks \cup {"erase", "begin"} /\ Goto("revalidate")
       \/ Fail /\ UNCHANGED acks
    /\ UNCHANGED <<world, again, report, review, consent, packages, checked>>

\* Mutant: the path of the target is compared.
SamePath(before, after) ==
    /\ before.rootBacked = after.rootBacked /\ before.method = after.method
    /\ \E f \in before.target, g \in after.target : f.name = g.name

SameInstallTarget(before, after) ==
    /\ before.rootBacked = after.rootBacked /\ before.method = after.method
    /\ \E f \in before.target, g \in after.target : FingerprintsMatch(f, g)

\* disk.Detect once more; the network and the release are not looked at again.
Revalidate ==
    /\ Run("revalidate")
    /\ checked' = Detected
    /\ IF DiskBlockers = {} /\ SameInstallTarget(report.found, Detected) THEN Goto("staged") ELSE Fail
    /\ UNCHANGED <<world, again, report, user, packages>>

Installer == \/ Preflight \/ Decide \/ ConfirmToolsInstall \/ InstallTools
             \/ ReviewPlan \/ PrepareImage \/ ConfirmUntested \/ ConfirmDestruction
             \/ Revalidate

----------------------------------------------------------------------------
(* The host *)

Change == /\ pc \notin {"ended", "staged"} /\ changes < MaxChanges /\ changes' = changes + 1
          /\ UNCHANGED <<fixed, pc, again, report, user, packages, checked>>

\* A disk gets the first free name.
Attach(d) ==
    LET free == {n \in Names : \A e \in Disks : name[e] # n} IN
    /\ Change /\ name[d] = Away
    /\ name' = [name EXCEPT ![d] = CHOOSE n \in free : \A m \in free : n <= m]
    /\ UNCHANGED <<kexec, tools, other>>

Detach(d) ==
    /\ Change /\ name[d] # Away /\ ~(rootBacked /\ d = Root)
    /\ name' = [name EXCEPT ![d] = Away]
    /\ UNCHANGED <<kexec, tools, other>>

HostChanges ==
    /\ Change /\ UNCHANGED name
    /\ \/ kexec' = ~kexec /\ UNCHANGED <<tools, other>>
       \/ (\E t \in Tools : tools' = tools \ {t}) /\ UNCHANGED <<kexec, other>>
       \/ other' = ~other /\ UNCHANGED <<kexec, tools>>

Next == Installer \/ (\E d \in Disks : Attach(d) \/ Detach(d)) \/ HostChanges

Spec == Init /\ [][Next]_vars

----------------------------------------------------------------------------
(* Properties *)

TypeOK ==
    /\ pc \in {"preflight", "decide", "offer", "install", "review", "prepare",
               "confirmUntested", "confirm", "revalidate", "staged", "ended"}
    /\ name \in [Disks -> Names \cup {Away}] /\ kexec \in BOOLEAN /\ other \in BOOLEAN
    /\ tools \subseteq Tools /\ changes \in 0..MaxChanges /\ again \in BOOLEAN
    /\ acks \subseteq Acks /\ packages \in BOOLEAN /\ consent \in BOOLEAN
    /\ Cardinality(report.found.target) <= 1 /\ review.verified \in BOOLEAN

\* README "its ancestry and fingerprint are rechecked after review": the disk
\* that is handed to staging is the one that was reviewed, reached by the same
\* method, however the disks came, went and were renamed meanwhile.  Without a
\* stable identity it was at least the only disk when it was looked at again.
StagedTargetWasReviewed ==
    pc = "staged" =>
        /\ checked.method = report.found.method
        /\ report.found.disk \subseteq stable => checked.disk = report.found.disk
        /\ ~(report.found.disk \subseteq stable) => Single(checked.attached)

\* Nothing is staged with a blocker in the report that was reviewed, nor
\* without each acknowledgement that applies to the plan as it was edited.
StageIsAuthorised ==
    pc = "staged" =>
        /\ report.blockers = {} /\ {"erase", "begin"} \subseteq acks
        /\ ~review.verified => "network" \in acks
        /\ ~review.recovery => "recovery" \in acks
        /\ ~report.tested => "untested" \in acks

\* README "--preflight and --version never install packages": packages are
\* installed with consent only, and when a report showed that nothing but the
\* tools they contain is missing.
PackagesOnlyWhenTheyHelp ==
    /\ packages => consent /\ ~only
    /\ (again /\ pc = "preflight") =>
          report.blockers # {} /\ report.blockers \subseteq Tools
=============================================================================
