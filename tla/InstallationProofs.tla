------------------------- MODULE InstallationProofs -------------------------
(***************************************************************************)
(* Theorems about Installation, for every number of disks and of changes   *)
(* of the host: what may be staged, with whose consent, and what packages  *)
(* are installed for.                                                      *)
(***************************************************************************)
EXTENDS Installation, FiniteSetTheorems, WellFoundedInduction, TLAPS

Accepted == {"review", "prepare", "confirmUntested", "confirm", "revalidate", "staged"}

\* No two disks have the same name, and the disk of a running system stays.
OneName ==
    /\ \A d, e \in Disks : name[d] = name[e] => (d = e \/ name[d] = Away)
    /\ rootBacked => name[Root] # Away

Identity(d) == IF d \in stable THEN [id |-> d, form |-> "plain"] ELSE Blank

\* A report is about at most one disk, and shows its identity.
FoundInv ==
    /\ pc # "preflight" => report.found.rootBacked = rootBacked
    /\ \/ report.found.target = {} /\ report.found.disk = {}
       \/ \E d \in Disks : \E f :
             /\ report.found.disk = {d} /\ (rootBacked => d = Root)
             /\ report.found.target = {f} /\ f.wwn = Identity(d) /\ f.serial = Blank

\* Packages are offered, agreed to and installed for a report that lacks
\* nothing but them.
ReportInv ==
    /\ pc = "install" => consent
    /\ pc \in {"offer", "install"} \/ (pc = "preflight" /\ again) => OnlyToolsMissing(report.blockers)
    /\ packages => consent /\ ~only
    /\ pc \notin {"preflight", "ended"} => ~only

\* What has been acknowledged when a step of the dialogue is reached.
AckInv ==
    /\ pc \in Accepted => report.blockers = {}
    /\ pc \in Accepted \ {"review"} =>
          /\ ~review.verified => "network" \in acks
          /\ ~review.recovery => "recovery" \in acks
    /\ pc \in {"confirm", "revalidate", "staged"} => (~report.tested => "untested" \in acks)
    /\ pc \in {"revalidate", "staged"} => {"erase", "begin"} \subseteq acks

FlagType ==
    /\ report.tested \in BOOLEAN /\ report.verified \in BOOLEAN
    /\ review.verified \in BOOLEAN /\ review.recovery \in BOOLEAN
    /\ rootBacked \in BOOLEAN /\ only \in BOOLEAN

IInv == TypeOK /\ FlagType /\ OneName /\ FoundInv /\ ReportInv /\ AckInv
        /\ StagedTargetWasReviewed

----------------------------------------------------------------------------
(* Names *)

LEMMA SmallestNumber ==
    ASSUME NEW T \in SUBSET Nat, T # {}
    PROVE  \E x \in T : \A y \in T : x <= y
  <1>1. PICK x \in T : \A y \in T : ~(<<y, x>> \in OpToRel(<, Nat))
    BY NatLessThanWellFounded, WFMin
  <1>2. ASSUME NEW y \in T PROVE x <= y
    <2>1. ~(<<y, x>> \in OpToRel(<, Nat))
      BY <1>1
    <2>2. y \in Nat /\ x \in Nat
      OBVIOUS
    <2>3. ~(y < x)
      BY <2>1, <2>2 DEF OpToRel
    <2> QED BY <2>2, <2>3
  <1> QED BY <1>2

Free == {n \in Names : \A e \in Disks : name[e] # n}

\* There are as many names as disks, so a disk that has none finds one.
LEMMA SomeNameIsFree ==
    ASSUME NEW d \in Disks, name[d] = Away
    PROVE  Free # {}
  <1> DEFINE N == Cardinality(Disks)
             g == [n \in Names |-> CHOOSE e \in Disks : name[e] = n]
  <1> SUFFICES ASSUME Free = {} PROVE FALSE
    OBVIOUS
  <1>1. N \in Nat /\ IsFiniteSet(Disks \ {d}) /\ Cardinality(Disks \ {d}) = N - 1
    BY InstallationAssumption, FS_CardinalityType, FS_RemoveElement
  <1>2. IsFiniteSet(Names) /\ Cardinality(Names) = N /\ N >= 1
    <2>1. N # 0
      BY InstallationAssumption, FS_EmptySet
    <2> QED BY <1>1, <2>1, FS_Interval DEF Names
  <1>3. \A n \in Names : n # Away
    BY <1>1 DEF Names, Away
  <1>4. \A n \in Names : g[n] \in Disks /\ name[g[n]] = n
    <2> TAKE n \in Names
    <2>1. \E e \in Disks : name[e] = n
      BY DEF Free
    <2> QED BY <2>1
  <1>5. g \in [Names -> Disks \ {d}]
    BY <1>3, <1>4
  <1>6. \E m, n \in Names : m # n /\ g[m] = g[n]
    <2>1. Cardinality(Disks \ {d}) < Cardinality(Names)
      BY <1>1, <1>2
    <2> HIDE DEF g
    <2> QED BY <1>1, <1>2, <1>5, <2>1, FS_PigeonHole
  <1> QED BY <1>4, <1>6

LEMMA NewNameIsFree ==
    ASSUME NEW d \in Disks, name[d] = Away
    PROVE  (CHOOSE n \in Free : \A m \in Free : n <= m) \in Free
  <1>1. Free \subseteq Nat
    <2>1. Cardinality(Disks) \in Nat
      BY InstallationAssumption, FS_CardinalityType
    <2> QED BY <2>1 DEF Free, Names
  <1>2. \E n \in Free : \A m \in Free : n <= m
    BY <1>1, SomeNameIsFree, SmallestNumber
  <1> QED BY <1>2

\* The disks that come and go keep their types and their names apart.
LEMMA NamesKept ==
    ASSUME TypeOK, OneName, NEW d \in Disks, Attach(d) \/ Detach(d)
    PROVE  name' \in [Disks -> Names \cup {Away}] /\ OneName'
  <1>0. UNCHANGED rootBacked
    BY DEF Attach, Detach, Change, fixed
  <1>1. CASE Attach(d)
    <2>0. name[d] = Away
      BY <1>1 DEF Attach
    <2>1. PICK n \in Free : name' = [name EXCEPT ![d] = n]
      BY <1>1, <2>0, NewNameIsFree DEF Attach, Free
    <2>2. n \in Names /\ \A e \in Disks : name[e] # n
      BY DEF Free
    <2>3. name \in [Disks -> Names \cup {Away}] /\ Away \notin Names /\ Root \in Disks
      BY InstallationAssumption, FS_CardinalityType DEF TypeOK, Away, Names
    <2>4. name' \in [Disks -> Names \cup {Away}]
      BY <2>1, <2>2, <2>3
    <2>5. OneName'
      BY <1>0, <2>0, <2>1, <2>2, <2>3 DEF OneName
    <2> QED BY <2>4, <2>5
  <1>2. CASE Detach(d)
    BY <1>0, <1>2, InstallationAssumption DEF TypeOK, OneName, Detach
  <1> QED BY <1>1, <1>2

----------------------------------------------------------------------------
(* What disk.Detect finds *)

LEMMA TargetIsOne ==
    ASSUME TypeOK, OneName, rootBacked \in BOOLEAN
    PROVE  Target = {} \/ \E d \in Disks : Target = {d} /\ name[d] \in Names /\ (rootBacked => d = Root)
  <1>1. CASE rootBacked
    BY <1>1, InstallationAssumption DEF Target, OneName, TypeOK
  <1>2. CASE ~rootBacked /\ Single(Attached)
    BY <1>2 DEF Target, Single, Attached, TypeOK
  <1>3. CASE ~rootBacked /\ ~Single(Attached)
    BY <1>3 DEF Target
  <1> QED BY <1>1, <1>2, <1>3

LEMMA FoundOne ==
    ASSUME TypeOK, OneName, rootBacked \in BOOLEAN, report'.found = Detected, UNCHANGED <<rootBacked, stable>>
    PROVE  FoundInv' /\ Cardinality(report'.found.target) <= 1
  <1>0. /\ report'.found.rootBacked = rootBacked /\ report'.found.disk = Target
        /\ report'.found.target = {FingerprintOf(d) : d \in Target}
    BY DEF Detected
  <1>1. CASE Target = {}
    <2>1. report'.found.target = {}
      BY <1>0, <1>1
    <2> QED BY <1>0, <1>1, <2>1, FS_EmptySet DEF FoundInv
  <1>2. CASE \E d \in Disks : Target = {d} /\ name[d] \in Names /\ (rootBacked => d = Root)
    <2>1. PICK d \in Disks : Target = {d} /\ name[d] \in Names /\ (rootBacked => d = Root)
      BY <1>2
    <2>2. report'.found.target = {FingerprintOf(d)}
      BY <1>0, <2>1
    <2>3. FingerprintOf(d).wwn = Identity(d)' /\ FingerprintOf(d).serial = Blank
      BY DEF FingerprintOf, Identity
    <2>4. Cardinality(report'.found.target) <= 1
      BY <2>2, FS_Singleton
    <2>5. FoundInv'
      BY <1>0, <2>1, <2>2, <2>3 DEF FoundInv
    <2> QED BY <2>4, <2>5
  <1> QED BY <1>1, <1>2, TargetIsOne

\* The fingerprint that was reviewed authorises the disk it was taken from, or,
\* when it shows no identity, a disk that nothing else stood beside.
LEMMA SameTargetSameDisk ==
    ASSUME TypeOK, OneName, FoundInv, rootBacked \in BOOLEAN, pc # "preflight",
           DiskBlockers = {}, SameInstallTarget(report.found, Detected)
    PROVE  /\ Detected.method = report.found.method
           /\ report.found.disk \subseteq stable => Detected.disk = report.found.disk
           /\ ~(report.found.disk \subseteq stable) => Single(Detected.attached)
  <1>1. PICK f \in report.found.target, g \in Detected.target : FingerprintsMatch(f, g)
    BY DEF SameInstallTarget
  <1>2. PICK d \in Disks : /\ report.found.disk = {d} /\ (rootBacked => d = Root)
                           /\ f.wwn = Identity(d) /\ f.serial = Blank
    BY <1>1 DEF FoundInv
  <1>3. PICK e \in Target : g = FingerprintOf(e)
    BY <1>1 DEF Detected
  <1>4. e \in Disks /\ Target = {e} /\ (rootBacked => e = Root)
    BY <1>3, TargetIsOne
  <1>5. Detected.method = report.found.method /\ Detected.disk = Target /\ Detected.attached = Attached
    BY DEF SameInstallTarget, Detected
  <1>6. CASE d \in stable
    <2>1. f.wwn = [id |-> d, form |-> "plain"] /\ f.wwn # Blank
      BY <1>2, <1>6, InstallationAssumption DEF Identity
    <2>2. SameText(f.wwn, g.wwn)
      BY <1>1, <2>1 DEF FingerprintsMatch, IdentityMatches, HasStableIdentity
    <2>3. g.wwn = [id |-> e, form |-> "plain"]
      BY <1>3, <2>2 DEF SameText, FingerprintOf
    <2>4. d = e
      BY <2>1, <2>2, <2>3 DEF SameText
    <2> QED BY <1>2, <1>4, <1>5, <1>6, <2>4
  <1>7. CASE d \notin stable
    <2>1. f.wwn = Blank
      BY <1>2, <1>7 DEF Identity
    <2>2. CASE rootBacked
      <3>1. d = e
        BY <1>2, <1>4, <2>2
      <3>2. Single(Attached)
        BY <1>4, <1>7, <3>1 DEF DiskBlockers
      <3> QED BY <1>2, <1>5, <1>7, <3>2
    <2>3. CASE ~rootBacked
      <3>1. Single(Attached)
        BY <1>4, <2>3 DEF Target
      <3> QED BY <1>2, <1>5, <1>7, <3>1
    <2> QED BY <2>2, <2>3
  <1> QED BY <1>6, <1>7

----------------------------------------------------------------------------
(* The actions *)

LEMMA InstallerTypes ==
    ASSUME IInv, Installer
    PROVE  TypeOK' /\ FlagType'
  <1> USE DEF IInv, TypeOK, FlagType, Run, Goto, Fail, fixed, world, user
  <1>1. CASE Preflight
    <2>1. report'.found = Detected /\ report'.tested \in BOOLEAN /\ report'.verified \in BOOLEAN
      BY <1>1 DEF Preflight
    <2>2. Cardinality(report'.found.target) <= 1
      BY <1>1, <2>1, FoundOne DEF Preflight
    <2> QED BY <1>1, <2>1, <2>2 DEF Preflight
  <1>2. CASE Decide
    BY <1>2 DEF Decide
  <1>3. CASE ConfirmToolsInstall
    BY <1>3, ZenonT(60) DEF ConfirmToolsInstall
  <1>4. CASE InstallTools
    BY <1>4, ZenonT(60) DEF InstallTools
  <1>5. CASE ReviewPlan
    <2>1. CASE \E edited, recovery \in BOOLEAN :
                  /\ review' = [verified |-> report.verified /\ ~edited, recovery |-> recovery]
                  /\ acks' = (IF EvidenceAfter(report.verified, edited) THEN {} ELSE {"network"})
                             \cup (IF recovery THEN {} ELSE {"recovery"})
                  /\ pc' = "prepare"
      <3>1. PICK edited \in BOOLEAN, recovery \in BOOLEAN :
                  /\ review' = [verified |-> report.verified /\ ~edited, recovery |-> recovery]
                  /\ acks' = (IF EvidenceAfter(report.verified, edited) THEN {} ELSE {"network"})
                             \cup (IF recovery THEN {} ELSE {"recovery"})
                  /\ pc' = "prepare"
        BY <2>1
      <3>2. review'.verified = (report.verified /\ ~edited) /\ review'.recovery = recovery
        BY <3>1
      <3>3. (report.verified /\ ~edited) \in BOOLEAN
        OBVIOUS
      <3>4. review'.verified \in BOOLEAN /\ review'.recovery \in BOOLEAN
        BY <3>2, <3>3, Zenon
      <3>5. acks' \subseteq Acks
        BY <3>1 DEF Acks
      <3>6. UNCHANGED <<only, rootBacked, name, kexec, tools, other, changes, again, report,
                        packages, consent>>
        BY <1>5 DEF ReviewPlan
      <3> QED BY <3>1, <3>4, <3>5, <3>6
    <2>2. CASE pc' = "ended" /\ UNCHANGED <<review, acks>>
      BY <1>5, <2>2 DEF ReviewPlan
    <2> QED BY <1>5, <2>1, <2>2 DEF ReviewPlan
  <1>6. CASE PrepareImage
    BY <1>6 DEF PrepareImage
  <1>7. CASE ConfirmUntested
    BY <1>7, ZenonT(60) DEF ConfirmUntested, Acks
  <1>8. CASE ConfirmDestruction
    BY <1>8, ZenonT(60) DEF ConfirmDestruction, Acks
  <1>9. CASE Revalidate
    BY <1>9 DEF Revalidate
  <1> QED BY <1>1, <1>2, <1>3, <1>4, <1>5, <1>6, <1>7, <1>8, <1>9 DEF Installer

LEMMA InstallerReport ==
    ASSUME IInv, Installer
    PROVE  OneName' /\ FoundInv' /\ ReportInv' /\ StagedTargetWasReviewed'
  <1> USE DEF IInv, ReportInv, Run, Goto, Fail, fixed, world, user
  <1>0. UNCHANGED <<rootBacked, stable, name>> /\ OneName'
    BY DEF Installer, Preflight, Decide, ConfirmToolsInstall, InstallTools, ReviewPlan,
           PrepareImage, ConfirmUntested, ConfirmDestruction, Revalidate, OneName
  <1>1. ASSUME UNCHANGED report, pc # "preflight" PROVE FoundInv'
    BY <1>0, <1>1 DEF FoundInv, Identity
  <1>2. ASSUME pc' # "staged" PROVE StagedTargetWasReviewed'
    BY <1>2 DEF StagedTargetWasReviewed
  <1>3. CASE Preflight
    <2>1. FoundInv'
      BY <1>0, <1>3, FoundOne DEF Preflight, FlagType
    <2> QED BY <1>0, <1>2, <1>3, <2>1 DEF Preflight, FlagType
  <1>4. CASE Decide
    BY <1>0, <1>1, <1>2, <1>4 DEF Decide
  <1>5. CASE ConfirmToolsInstall
    BY <1>0, <1>1, <1>2, <1>5 DEF ConfirmToolsInstall
  <1>6. CASE InstallTools
    BY <1>0, <1>1, <1>2, <1>6 DEF InstallTools
  <1>7. CASE ReviewPlan
    BY <1>0, <1>1, <1>2, <1>7 DEF ReviewPlan
  <1>8. CASE PrepareImage
    BY <1>0, <1>1, <1>2, <1>8 DEF PrepareImage
  <1>9. CASE ConfirmUntested
    BY <1>0, <1>1, <1>2, <1>9 DEF ConfirmUntested
  <1>10. CASE ConfirmDestruction
    BY <1>0, <1>1, <1>2, <1>10 DEF ConfirmDestruction
  <1>11. CASE Revalidate
    <2>1. ASSUME pc' = "staged" PROVE StagedTargetWasReviewed'
      <3>1. /\ DiskBlockers = {} /\ SameInstallTarget(report.found, Detected)
            /\ checked' = Detected /\ report' = report
        BY <1>11, <2>1 DEF Revalidate
      <3> QED BY <1>0, <1>11, <3>1, SameTargetSameDisk DEF Revalidate, StagedTargetWasReviewed, FlagType
    <2> QED BY <1>0, <1>1, <1>2, <1>11, <2>1 DEF Revalidate
  <1> QED BY <1>3, <1>4, <1>5, <1>6, <1>7, <1>8, <1>9, <1>10, <1>11 DEF Installer

LEMMA InstallerAcks ==
    ASSUME IInv, Installer
    PROVE  AckInv'
  <1> USE DEF IInv, AckInv, FlagType, Accepted, Run, Goto, Fail, fixed, world, user
  <1>1. CASE Preflight
    BY <1>1 DEF Preflight
  <1>2. CASE Decide
    BY <1>2 DEF Decide
  <1>3. CASE ConfirmToolsInstall
    BY <1>3 DEF ConfirmToolsInstall
  <1>4. CASE InstallTools
    BY <1>4 DEF InstallTools
  <1>5. CASE ReviewPlan
    BY <1>5 DEF ReviewPlan, EvidenceAfter
  <1>6. CASE PrepareImage
    BY <1>6 DEF PrepareImage
  <1>7. CASE ConfirmUntested
    BY <1>7 DEF ConfirmUntested
  <1>8. CASE ConfirmDestruction
    BY <1>8 DEF ConfirmDestruction
  <1>9. CASE Revalidate
    BY <1>9 DEF Revalidate
  <1> QED BY <1>1, <1>2, <1>3, <1>4, <1>5, <1>6, <1>7, <1>8, <1>9 DEF Installer

\* The host changes neither what was found nor what was agreed to.
LEMMA HostSteps ==
    ASSUME IInv, (\E d \in Disks : Attach(d) \/ Detach(d)) \/ HostChanges
    PROVE  IInv'
  <1>1. Change
    BY DEF Attach, Detach, HostChanges
  <1>2. /\ UNCHANGED <<only, rootBacked, stable, pc, again, report, review, acks, consent, packages, checked>>
        /\ changes' \in 0..MaxChanges
    BY <1>1, InstallationAssumption DEF Change, fixed, user, IInv, TypeOK
  <1>3. name' \in [Disks -> Names \cup {Away}] /\ OneName'
    <2>1. CASE \E d \in Disks : Attach(d) \/ Detach(d)
      BY <2>1, NamesKept DEF IInv
    <2>2. CASE HostChanges
      BY <1>2, <2>2 DEF HostChanges, IInv, OneName, TypeOK
    <2> QED BY <2>1, <2>2
  <1>4. kexec' \in BOOLEAN /\ tools' \subseteq Tools /\ other' \in BOOLEAN
    BY DEF Attach, Detach, HostChanges, IInv, TypeOK
  <1>5. TypeOK' /\ FlagType'
    BY <1>2, <1>3, <1>4 DEF IInv, TypeOK, FlagType
  <1>6. FoundInv' /\ ReportInv' /\ AckInv' /\ StagedTargetWasReviewed'
    BY <1>2, ZenonT(60) DEF IInv, FoundInv, Identity, ReportInv, AckInv, StagedTargetWasReviewed
  <1> QED BY <1>3, <1>5, <1>6 DEF IInv

LEMMA IInvAlways == Spec => []IInv
  <1>1. Init => IInv
    <2> SUFFICES ASSUME Init PROVE IInv
      OBVIOUS
    <2>1. TypeOK
      <3>1. Cardinality(NoReport.found.target) = 0
        BY FS_EmptySet DEF NoReport, NothingFound
      <3>2. report.found.target = NoReport.found.target
        BY DEF Init
      <3>3. Cardinality(report.found.target) <= 1
        BY <3>1, <3>2
      <3>4. review.verified \in BOOLEAN
        BY DEF Init
      <3>5. changes \in 0..MaxChanges
        BY InstallationAssumption DEF Init
      <3> QED BY <3>3, <3>4, <3>5 DEF Init, TypeOK
    <2>2. OneName
      BY DEF Init, OneName
    <2> QED BY <2>1, <2>2 DEF Init, IInv, FlagType, FoundInv, ReportInv, AckInv, Accepted,
                              StagedTargetWasReviewed, NoReport, NothingFound
  <1>2. IInv /\ [Next]_vars => IInv'
    <2> SUFFICES ASSUME IInv, [Next]_vars PROVE IInv'
      OBVIOUS
    <2>1. CASE Installer
      BY <2>1, InstallerTypes, InstallerReport, InstallerAcks DEF IInv
    <2>2. CASE (\E d \in Disks : Attach(d) \/ Detach(d)) \/ HostChanges
      BY <2>2, HostSteps
    <2>3. CASE UNCHANGED vars
      <3>1. UNCHANGED <<only, rootBacked, stable, name, kexec, tools, other, changes, pc, again,
                        report, review, acks, consent, packages, checked>>
        BY <2>3 DEF vars, fixed, world, user
      <3>2. TypeOK' /\ FlagType'
        BY <3>1 DEF IInv, TypeOK, FlagType
      <3>3. OneName' /\ FoundInv' /\ StagedTargetWasReviewed'
        BY <3>1 DEF IInv, OneName, FoundInv, Identity, StagedTargetWasReviewed
      <3>4. ReportInv' /\ AckInv'
        BY <3>1 DEF IInv, ReportInv, AckInv
      <3> QED BY <3>2, <3>3, <3>4 DEF IInv
    <2> QED BY <2>1, <2>2, <2>3 DEF Next
  <1> QED BY <1>1, <1>2, PTL DEF Spec

\* Type correctness: among others, a report is about one disk at most, and a
\* disk that attaches gets a name of its own.
THEOREM InstallationTypes == Spec => []TypeOK
  BY IInvAlways, PTL DEF IInv

\* README "its ancestry and fingerprint are rechecked after review": the disk
\* that is handed to staging is the one that was reviewed, reached by the same
\* method, however many disks came, went and were renamed meanwhile.
THEOREM ReviewedDiskIsStaged == Spec => []StagedTargetWasReviewed
  BY IInvAlways, PTL DEF IInv

\* app.go, ReviewPreflight and the confirmations: nothing is staged with a
\* blocker in the report that was reviewed, nor without each acknowledgement
\* that applies to the plan as it was edited.
THEOREM StageNeedsConsent == Spec => []StageIsAuthorised
  <1>1. IInv => StageIsAuthorised
    BY DEF IInv, AckInv, Accepted, StageIsAuthorised
  <1> QED BY <1>1, IInvAlways, PTL

\* dependencies.go, dependencyInstallOffer: packages are installed with consent
\* only, never by --preflight, and for a report that lacks nothing but them.
THEOREM PackagesNeedConsent == Spec => []PackagesOnlyWhenTheyHelp
  <1>1. IInv => PackagesOnlyWhenTheyHelp
    BY DEF IInv, ReportInv, OnlyToolsMissing, PackagesOnlyWhenTheyHelp
  <1> QED BY <1>1, IInvAlways, PTL
=============================================================================
