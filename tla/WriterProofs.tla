---------------------------- MODULE WriterProofs ----------------------------
(***************************************************************************)
(* Theorems about Writer, for every number of disks, chunks and            *)
(* disappearances.  The names of disks need an argument of their own: a    *)
(* disk that attaches finds a free name because there are as many names as *)
(* disks, and so no two disks ever have the same.                          *)
(***************************************************************************)
EXTENDS Writer, FiniteSetTheorems, WellFoundedInduction, TLAPS

\* What a kernel may report of a disk says nothing of another one.
Reported ==
    /\ expected.wwn \in {Blank, Text(Target, "plain")}
    /\ expected.serial \in {Blank, Text(Target, "plain")}
    /\ \A d \in Disks :
        /\ seen[d].wwn \in {Blank, Text(d, "plain"), Text(d, "prefixed")}
        /\ seen[d].serial \in {Blank, Text(d, "plain")}

OneName == \A d, e \in Disks : name[d] # None /\ name[d] = name[e] => d = e

\* While no disk disappears, a path that was found for a recorded identity is
\* the name of the target, and only the target is opened.
PathIsTarget ==
    (HasStableIdentity(expected) /\ unplugs = 0) =>
        /\ path # None => name[Target] = path
        /\ opened \in {None, Target}

\* Without the identity nothing is found.
NotFound ==
    IdentityLost =>
        /\ pc \in {"hashImage", "find", "halted", "returned"}
        /\ \A d \in Disks : ~Touched(d)

\* What the second hash has covered is on the medium of one disk.
Verified ==
    /\ pc = "verify" =>
        \E d \in Disks :
            /\ \A c \in 1..pos : hash[c] = media[d][c]
            /\ opened # None => opened = d /\ cache[d] = media[d]
    /\ pc = "rebooted" => \E d \in Disks : media[d] = Image

IInv == /\ TypeOK /\ Reported /\ OneName /\ PathIsTarget /\ OnlyTheStableTargetIsWritten
        /\ NotFound /\ Verified

----------------------------------------------------------------------------
(* The policy of Fingerprint *)

\* README "A stable serial or WWN recorded before reboot may never degrade to
\* the single-disk fallback": what is selected for a stable fingerprint shows
\* the same WWN, or the same serial where no WWN was recorded, and no other
\* visible disk does, whatever names the kernel gave them.
THEOREM StableNeverDegrades ==
    ASSUME NEW recorded, NEW shown, HasStableIdentity(recorded),
           NEW c \in SelectAuthorized(recorded, shown)
    PROVE  /\ c \in shown
           /\ \/ SameText(recorded.wwn, c.wwn)
              \/ recorded.wwn = Blank /\ SameText(recorded.serial, c.serial)
           /\ \A d \in shown : FingerprintsMatch(recorded, d) => d = c
  <1> DEFINE matches == {d \in shown : FingerprintsMatch(recorded, d)}
  <1>1. c \in matches /\ Single(matches)
    BY DEF SelectAuthorized
  <1>2. FingerprintsMatch(recorded, c)
    BY <1>1
  <1>3. \A d \in matches : d = c
    BY <1>1 DEF Single
  <1> QED
    BY <1>1, <1>2, <1>3 DEF FingerprintsMatch, IdentityMatches, HasStableIdentity

\* README "installation is allowed only while exactly one physical disk is
\* visible": at the moment of the selection, a disk selected without a stable
\* identity is the only one.
THEOREM FallbackIsAlone ==
    ASSUME NEW recorded, NEW shown, ~HasStableIdentity(recorded),
           NEW c \in SelectAuthorized(recorded, shown)
    PROVE  shown = {c} /\ c.name = recorded.name /\ c.dev = recorded.dev
  <1> DEFINE matches == {d \in shown : FingerprintsMatch(recorded, d)}
  <1>1. c \in matches /\ Single(shown)
    BY DEF SelectAuthorized
  <1>2. shown = {c}
    BY <1>1 DEF Single
  <1>3. FingerprintsMatch(recorded, c)
    BY <1>1
  <1> QED BY <1>2, <1>3 DEF FingerprintsMatch, IdentityMatches, HasStableIdentity

----------------------------------------------------------------------------
(* Names *)

LEMMA SmallestNumber ==
    ASSUME NEW T \in SUBSET Nat, T # {}
    PROVE  \E x \in T : \A y \in T : x <= y
  <1>1. PICK x \in T : \A y \in T : ~(<<y, x>> \in OpToRel(<, Nat))
    BY NatLessThanWellFounded, WFMin
  <1>2. ASSUME NEW y \in T PROVE x <= y
    <2>1. ~(<<y, x>> \in OpToRel(<, Nat))
      BY <1>1
    <2>2. y \in Nat /\ x \in Nat
      OBVIOUS
    <2>3. ~(y < x)
      BY <2>1, <2>2 DEF OpToRel
    <2> QED BY <2>2, <2>3
  <1> QED BY <1>2

Free == {n \in Names : \A e \in Disks : name[e] # n}

LEMMA SomeNameIsFree ==
    ASSUME NEW d \in Disks, name[d] = None
    PROVE  Free # {}
  <1> DEFINE N == Cardinality(Disks)
             g == [n \in Names |-> CHOOSE e \in Disks : name[e] = n]
  <1> SUFFICES ASSUME Free = {} PROVE FALSE
    OBVIOUS
  <1>1. N \in Nat /\ IsFiniteSet(Disks \ {d}) /\ Cardinality(Disks \ {d}) = N - 1
    BY WriterAssumption, FS_CardinalityType, FS_RemoveElement
  <1>2. IsFiniteSet(Names) /\ Cardinality(Names) = N /\ N >= 1
    <2>1. N # 0
      BY WriterAssumption, FS_EmptySet
    <2> QED BY <1>1, <2>1, FS_Interval DEF Names
  <1>3. \A n \in Names : n # None
    BY <1>1 DEF Names, None
  <1>4. \A n \in Names : g[n] \in Disks /\ name[g[n]] = n
    <2> TAKE n \in Names
    <2>1. \E e \in Disks : name[e] = n
      BY DEF Free
    <2> QED BY <2>1
  <1>5. g \in [Names -> Disks \ {d}]
    BY <1>3, <1>4
  <1>6. \E m, n \in Names : m # n /\ g[m] = g[n]
    <2>1. Cardinality(Disks \ {d}) < Cardinality(Names)
      BY <1>1, <1>2
    <2> HIDE DEF g
    <2> QED BY <1>1, <1>2, <1>5, <2>1, FS_PigeonHole
  <1> QED BY <1>4, <1>6

LEMMA NewNameIsFree ==
    ASSUME NEW d \in Disks, name[d] = None
    PROVE  (CHOOSE n \in Free : \A m \in Free : n <= m) \in Free
  <1>1. Free \subseteq Nat
    <2>1. Cardinality(Disks) \in Nat
      BY WriterAssumption, FS_CardinalityType
    <2> QED BY <2>1 DEF Free, Names
  <1>2. \E n \in Free : \A m \in Free : n <= m
    BY <1>1, SomeNameIsFree, SmallestNumber
  <1> QED BY <1>2

\* What Attach does to the names.
LEMMA AttachNames ==
    ASSUME TypeOK, NEW d \in Disks, Attach(d)
    PROVE  /\ name[d] = None
           /\ \E n \in Free : name' = [name EXCEPT ![d] = n]
  BY NewNameIsFree DEF Attach, Free

----------------------------------------------------------------------------
(* Types *)

LEMMA ContentKept ==
    ASSUME NEW f \in Content, NEW c \in 1..Chunks, NEW v \in {"old", "img", "bad"}
    PROVE  [f EXCEPT ![c] = v] \in Content
  BY DEF Content

LEMMA DiskContentKept ==
    ASSUME NEW f \in [Disks -> Content], NEW d \in Disks, NEW x \in Content
    PROVE  [f EXCEPT ![d] = x] \in [Disks -> Content]
  OBVIOUS

LEMMA Constants ==
    /\ Old \in Content /\ Image \in Content
    /\ Chunks \in Nat /\ Chunks >= 1
    /\ None \in Names \cup {None} /\ None \in Disks \cup {None}
  <1>1. Old \in Content /\ Image \in Content
    BY DEF Content, Old, Image
  <1>2. Chunks \in Nat /\ Chunks >= 1
    BY WriterAssumption
  <1> QED BY <1>1, <1>2

LEMMA NamedDisk ==
    ASSUME NEW n
    PROVE  /\ DiskNamed(n) \in Disks \cup {None}
           /\ DiskNamed(n) # None => DiskNamed(n) \in Visible /\ name[DiskNamed(n)] = n
  <1>1. CASE \E d \in Visible : name[d] = n
    <2>1. PICK d \in Visible : name[d] = n
      BY <1>1
    <2>2. DiskNamed(n) = CHOOSE e \in Visible : name[e] = n
      BY <1>1 DEF DiskNamed
    <2>3. DiskNamed(n) \in Visible /\ name[DiskNamed(n)] = n
      BY <2>1, <2>2
    <2> QED BY <2>3 DEF Visible
  <1>2. CASE ~\E d \in Visible : name[d] = n
    BY <1>2 DEF DiskNamed
  <1> QED BY <1>1, <1>2

LEMMA InitType == Init => TypeOK
  <1> SUFFICES ASSUME Init PROVE TypeOK
    OBVIOUS
  <1>1. [Image EXCEPT ![Chunks] = "bad"] \in Content
    <2>1. Chunks \in 1..Chunks
      BY WriterAssumption
    <2> QED BY <2>1, Constants, ContentKept
  <1>2. 0 \in 0..Chunks /\ 0 \in 0..MaxUnplugs
    BY WriterAssumption
  <1>3. name \in [Disks -> Names \cup {None}]
    BY DEF Init
  <1>4. cache \in [Disks -> Content] /\ media \in [Disks -> Content]
    BY Constants DEF Init
  <1>5. hash \in Content /\ payload \in Content
    BY <1>1, Constants DEF Init
  <1>6. unplugs \in 0..MaxUnplugs /\ pos \in 0..Chunks
    BY <1>2 DEF Init
  <1>7. pc = "hashImage" /\ late = FALSE /\ path = None /\ opened = None
    BY DEF Init
  <1> QED BY <1>3, <1>4, <1>5, <1>6, <1>7 DEF TypeOK

LEMMA NextType == TypeOK /\ [Next]_vars => TypeOK'
  <1> SUFFICES ASSUME TypeOK, [Next]_vars PROVE TypeOK'
    OBVIOUS
  <1> USE DEF TypeOK, wire, data, fixed
  <1>n. pos \in Nat /\ (pos < Chunks => pos + 1 \in 0..Chunks /\ pos + 1 \in 1..Chunks)
    BY Constants
  <1>1. CASE HashImage
    BY <1>1, Constants DEF HashImage, Step, Fail
  <1>2. CASE FindTarget
    <2>1. \A f \in SelectAuthorized(expected, Candidates) : f.name \in Names \cup {None}
      BY DEF SelectAuthorized, Candidates, Fingerprint, Visible
    <2> QED BY <1>2, <2>1, Constants DEF FindTarget, Step, Fail
  <1>3. CASE EnsureUnmounted
    BY <1>3, Constants DEF EnsureUnmounted, Step, Fail
  <1>4. CASE OpenTarget
    <2>1. 0 \in 0..Chunks
      BY Constants
    <2> QED BY <1>4, <2>1, Constants, NamedDisk DEF OpenTarget, Step, Fail
  <1>5. CASE CopyChunk
    <2>1. pos + 1 \in 1..Chunks /\ pos + 1 \in 0..Chunks
      BY <1>5, <1>n DEF CopyChunk
    <2>2. payload[pos + 1] \in {"old", "img", "bad"}
      BY <2>1 DEF Content
    <2>3. [hash EXCEPT ![pos + 1] = payload[pos + 1]] \in Content
      BY <2>1, <2>2, ContentKept
    <2>4. ASSUME NEW v \in {"old", "img", "bad"}, opened # None
          PROVE  [cache EXCEPT ![opened][pos + 1] = v] \in [Disks -> Content]
      <3>1. opened \in Disks
        BY <2>4
      <3>2. [cache[opened] EXCEPT ![pos + 1] = v] \in Content
        BY <2>1, <3>1, ContentKept
      <3> QED BY <3>1, <3>2, DiskContentKept
    <2>5. cache' \in [Disks -> Content]
      BY <1>5, <2>2, <2>4 DEF CopyChunk
    <2>6. hash' \in Content /\ pos' \in 0..Chunks
      BY <1>5, <2>1, <2>3 DEF CopyChunk
    <2>7. pc' \in {"copy", "halted", "returned"} /\ opened' \in Disks \cup {None}
      BY <1>5, Constants DEF CopyChunk, Step, Fail
    <2> QED BY <1>5, <2>5, <2>6, <2>7 DEF CopyChunk, Step
  <1>6. CASE SyncTarget
    <2>1. \A m \in Content : Written(m) \subseteq Content
      BY ContentKept, ZenonT(60) DEF Written
    <2>2. media' \in [Disks -> Content]
      BY <1>6, <2>1, DiskContentKept DEF SyncTarget
    <2> QED BY <1>6, <2>2, Constants DEF SyncTarget, Step, Fail
  <1>7. CASE CompareWritten
    BY <1>7, Constants DEF CompareWritten, Step, Fail
  <1>8. CASE ReopenAndFlush
    <2>1. 0 \in 0..Chunks
      BY Constants
    <2>2. cache' \in [Disks -> Content]
      BY <1>8, NamedDisk, DiskContentKept DEF ReopenAndFlush, Fail
    <2> QED BY <1>8, <2>1, <2>2, Constants, NamedDisk DEF ReopenAndFlush, Step, Fail
  <1>9. CASE ReadBackChunk
    <2>1. pos + 1 \in 1..Chunks /\ pos + 1 \in 0..Chunks
      BY <1>9, <1>n DEF ReadBackChunk
    <2>2. opened # None => cache[opened][pos + 1] \in {"old", "img", "bad"}
      BY <2>1 DEF Content
    <2>3. \/ hash' = hash
          \/ opened # None /\ hash' = [hash EXCEPT ![pos + 1] = cache[opened][pos + 1]]
      BY <1>9 DEF ReadBackChunk
    <2>4. ASSUME opened # None
          PROVE  [hash EXCEPT ![pos + 1] = cache[opened][pos + 1]] \in Content
      <3>1. hash \in Content
        OBVIOUS
      <3> QED BY <2>1, <2>2, <2>4, <3>1, ContentKept
    <2>5. hash' \in Content
      BY <2>3, <2>4
    <2> QED BY <1>9, <2>1, <2>5, Constants DEF ReadBackChunk, Step, Fail
  <1>10. CASE VerifyAndReboot
    BY <1>10, Constants DEF VerifyAndReboot, Step, Fail
  <1>11. ASSUME NEW d \in Disks, Attach(d) PROVE TypeOK'
    <2>1. name' \in [Disks -> Names \cup {None}]
      BY <1>11, AttachNames DEF Free
    <2> QED BY <1>11, <2>1 DEF Attach, Rest
  <1>12. ASSUME NEW d \in Disks, Unplug(d) PROVE TypeOK'
    <2>1. unplugs' \in 0..MaxUnplugs
      BY <1>12, WriterAssumption DEF Unplug
    <2>2. name' \in [Disks -> Names \cup {None}] /\ cache' \in [Disks -> Content]
      BY <1>12, DiskContentKept DEF Unplug
    <2>3. opened' \in Disks \cup {None}
      BY <1>12, Constants DEF Unplug
    <2> QED BY <1>12, <2>1, <2>2, <2>3 DEF Unplug
  <1>13. CASE TimePasses
    BY <1>13 DEF TimePasses, Rest
  <1>14. CASE SourceChanges
    <2>1. payload' \in Content
      BY <1>14, ContentKept DEF SourceChanges
    <2> QED BY <1>14, <2>1 DEF SourceChanges, Rest
  <1>15. CASE UNCHANGED vars
    BY <1>15 DEF vars
  <1> QED BY <1>1, <1>2, <1>3, <1>4, <1>5, <1>6, <1>7, <1>8, <1>9, <1>10, <1>11, <1>12, <1>13,
             <1>14, <1>15 DEF Next, RunWriter

----------------------------------------------------------------------------
(* The target *)

\* fingerprint.go, in the state of the writer: what is found for a recorded
\* identity is the target, and it still reports the identity that counts.
LEMMA FoundIsTarget ==
    ASSUME Reported, HasStableIdentity(expected),
           NEW f \in SelectAuthorized(expected, Candidates)
    PROVE  /\ Target \in Visible /\ f.name = name[Target]
           /\ expected.wwn # Blank => seen[Target].wwn # Blank
           /\ expected.wwn = Blank => seen[Target].serial # Blank
  <1>1. f \in Candidates
    BY StableNeverDegrades
  <1>2. PICK d \in Visible : f = Fingerprint(d, name[d])
    BY <1>1 DEF Candidates
  <1>3. f.wwn = seen[d].wwn /\ f.serial = seen[d].serial /\ f.name = name[d] /\ d \in Disks
    BY <1>2 DEF Fingerprint, Visible
  <1>4. CASE SameText(expected.wwn, f.wwn)
    BY <1>2, <1>3, <1>4 DEF SameText, Reported, Text
  <1>5. CASE expected.wwn = Blank /\ SameText(expected.serial, f.serial)
    BY <1>2, <1>3, <1>5 DEF SameText, Reported, Text
  <1> QED BY <1>4, <1>5, StableNeverDegrades

LEMMA OpenedIsTarget ==
    ASSUME OneName, PathIsTarget, HasStableIdentity(expected), unplugs = 0,
           DiskNamed(path) # None
    PROVE  DiskNamed(path) = Target
  <1>1. DiskNamed(path) \in Visible /\ name[DiskNamed(path)] = path
    BY NamedDisk
  <1>2. path # None /\ DiskNamed(path) \in Disks
    BY <1>1 DEF Visible
  <1>3. name[Target] = path /\ Target \in Disks
    BY <1>2, WriterAssumption DEF PathIsTarget
  <1> QED BY <1>1, <1>2, <1>3 DEF OneName

LEMMA InitReported == Init => Reported
  <1> SUFFICES ASSUME Init PROVE Reported
    OBVIOUS
  <1>1. PICK r \in Reports(Target), n \in Names :
            r.wwn # Text(Target, "prefixed") /\ expected = Before(r, n)
    BY DEF Init
  <1>2. \A d \in Disks : seen[d] \in Reports(d)
    BY DEF Init
  <1> QED BY <1>1, <1>2 DEF Reported, Reports, Before

LEMMA NextNames ==
    ASSUME TypeOK, OneName, [Next]_vars
    PROVE  OneName'
  <1>1. CASE RunWriter \/ TimePasses \/ SourceChanges \/ UNCHANGED vars
    <2>1. UNCHANGED name
      BY <1>1 DEF RunWriter, HashImage, FindTarget, EnsureUnmounted, OpenTarget, CopyChunk,
                  SyncTarget, CompareWritten, ReopenAndFlush, ReadBackChunk, VerifyAndReboot,
                  Step, TimePasses, SourceChanges, vars, wire
    <2> QED BY <2>1 DEF OneName
  <1>2. ASSUME NEW d \in Disks, Attach(d) PROVE OneName'
    <2>1. PICK n \in Free : name' = [name EXCEPT ![d] = n]
      BY <1>2, AttachNames
    <2> QED BY <2>1 DEF TypeOK, OneName, Free
  <1>3. ASSUME NEW d \in Disks, Unplug(d) PROVE OneName'
    BY <1>3 DEF Unplug, TypeOK, OneName
  <1> QED BY <1>1, <1>2, <1>3 DEF Next

LEMMA NextPath ==
    ASSUME TypeOK, Reported, OneName, PathIsTarget, [Next]_vars
    PROVE  PathIsTarget'
  <1> USE DEF PathIsTarget, wire, data, fixed
  <1>1. CASE HashImage \/ EnsureUnmounted \/ CopyChunk \/ SyncTarget \/ CompareWritten
             \/ ReadBackChunk \/ VerifyAndReboot
    <2>1. UNCHANGED <<expected, unplugs, path, name>> /\ opened' \in {opened, None}
      BY <1>1 DEF HashImage, EnsureUnmounted, CopyChunk, SyncTarget, CompareWritten,
                  ReadBackChunk, VerifyAndReboot, Step, Fail
    <2> QED BY <2>1 DEF HasStableIdentity
  <1>2. CASE FindTarget
    <2>1. UNCHANGED <<expected, unplugs, name>> /\ opened' \in {opened, None}
      BY <1>2 DEF FindTarget, Step, Fail
    <2>2. HasStableIdentity(expected) => path' \in {path, name[Target]}
      BY <1>2, FoundIsTarget DEF FindTarget
    <2> QED BY <2>1, <2>2 DEF HasStableIdentity
  <1>3. CASE OpenTarget \/ ReopenAndFlush
    <2>1. /\ UNCHANGED <<expected, unplugs, path, name>>
          /\ opened' = None \/ (DiskNamed(path) # None /\ opened' = DiskNamed(path))
      BY <1>3 DEF OpenTarget, ReopenAndFlush, Step, Fail
    <2> QED BY <2>1, OpenedIsTarget DEF HasStableIdentity
  <1>4. ASSUME NEW d \in Disks, Attach(d) PROVE PathIsTarget'
    <2>1. UNCHANGED <<expected, unplugs, path, opened>>
      BY <1>4 DEF Attach, Rest
    <2>2. name[Target] # None => name'[Target] = name[Target]
      BY <1>4, AttachNames, WriterAssumption DEF TypeOK
    <2> QED BY <2>1, <2>2 DEF HasStableIdentity
  <1>5. ASSUME NEW d \in Disks, Unplug(d) PROVE PathIsTarget'
    <2>1. unplugs' # 0
      BY <1>5, WriterAssumption DEF Unplug, TypeOK
    <2> QED BY <2>1
  <1>6. CASE TimePasses \/ SourceChanges \/ UNCHANGED vars
    BY <1>6 DEF TimePasses, SourceChanges, Rest, vars, HasStableIdentity
  <1> QED BY <1>1, <1>2, <1>3, <1>4, <1>5, <1>6 DEF Next, RunWriter

LEMMA NextWritten ==
    ASSUME TypeOK, OneName, PathIsTarget, OnlyTheStableTargetIsWritten, [Next]_vars
    PROVE  OnlyTheStableTargetIsWritten'
  <1> SUFFICES ASSUME HasStableIdentity(expected'), unplugs' = 0,
                      NEW d \in Disks, d # Target
               PROVE  cache'[d] = Old /\ media'[d] = Old
    BY DEF OnlyTheStableTargetIsWritten, Touched
  <1> USE DEF wire, data, fixed
  <1>1. UNCHANGED expected
    BY DEF Next, RunWriter, HashImage, FindTarget, EnsureUnmounted, OpenTarget, CopyChunk,
           SyncTarget, CompareWritten, ReopenAndFlush, ReadBackChunk, VerifyAndReboot, Step,
           Attach, Unplug, TimePasses, SourceChanges, Rest, vars
  <1>2. ASSUME NEW e \in Disks, Unplug(e) PROVE FALSE
    BY <1>2, WriterAssumption DEF Unplug, TypeOK
  <1>3. unplugs = 0
    BY <1>2 DEF Next, RunWriter, HashImage, FindTarget, EnsureUnmounted, OpenTarget, CopyChunk,
           SyncTarget, CompareWritten, ReopenAndFlush, ReadBackChunk, VerifyAndReboot, Step,
           Attach, TimePasses, SourceChanges, Rest, vars
  <1>4. cache[d] = Old /\ media[d] = Old
    BY <1>1, <1>3 DEF OnlyTheStableTargetIsWritten, Touched
  <1>5. opened # d \/ opened = None
    BY <1>1, <1>3 DEF PathIsTarget
  <1>6. CASE CopyChunk \/ SyncTarget
    BY <1>4, <1>5, <1>6 DEF CopyChunk, SyncTarget, Fail, TypeOK
  <1>7. CASE ReopenAndFlush
    BY <1>4, <1>7 DEF ReopenAndFlush, Fail, TypeOK
  <1>8. CASE HashImage \/ FindTarget \/ EnsureUnmounted \/ OpenTarget \/ CompareWritten
             \/ ReadBackChunk \/ VerifyAndReboot \/ TimePasses \/ SourceChanges \/ UNCHANGED vars
    BY <1>4, <1>8 DEF HashImage, FindTarget, EnsureUnmounted, OpenTarget, CompareWritten,
                      ReadBackChunk, VerifyAndReboot, TimePasses, SourceChanges, vars
  <1>9. ASSUME NEW e \in Disks, Attach(e) PROVE cache'[d] = Old /\ media'[d] = Old
    BY <1>4, <1>9 DEF Attach
  <1> QED BY <1>2, <1>6, <1>7, <1>8, <1>9 DEF Next, RunWriter

LEMMA NextNotFound ==
    ASSUME TypeOK, Reported, NotFound, [Next]_vars
    PROVE  NotFound'
  <1> SUFFICES ASSUME IdentityLost, UNCHANGED <<expected, seen>>
               PROVE  /\ pc' \in {"hashImage", "find", "halted", "returned"}
                      /\ \A d \in Disks : cache'[d] = Old /\ media'[d] = Old
    <2>1. UNCHANGED <<expected, seen>>
      BY DEF Next, RunWriter, HashImage, FindTarget, EnsureUnmounted, OpenTarget, CopyChunk,
             SyncTarget, CompareWritten, ReopenAndFlush, ReadBackChunk, VerifyAndReboot, Step,
             Attach, Unplug, TimePasses, SourceChanges, Rest, vars, fixed
    <2> QED BY <2>1 DEF NotFound, Touched, IdentityLost
  <1>1. /\ pc \in {"hashImage", "find", "halted", "returned"}
        /\ \A d \in Disks : cache[d] = Old /\ media[d] = Old
    BY DEF NotFound, Touched
  <1>2. CASE HashImage
    BY <1>1, <1>2 DEF HashImage, Fail, data
  <1>3. CASE FindTarget
    <2>1. SelectAuthorized(expected, Candidates) = {}
      BY FoundIsTarget DEF HasStableIdentity, IdentityLost
    <2> QED BY <1>1, <1>3, <2>1 DEF FindTarget, Fail, data
  <1>4. CASE EnsureUnmounted \/ OpenTarget \/ CopyChunk \/ SyncTarget \/ CompareWritten
             \/ ReopenAndFlush \/ ReadBackChunk \/ VerifyAndReboot
    BY <1>1, <1>4 DEF EnsureUnmounted, OpenTarget, CopyChunk, SyncTarget, CompareWritten,
                      ReopenAndFlush, ReadBackChunk, VerifyAndReboot, Step
  <1>5. ASSUME NEW d \in Disks, Attach(d) \/ Unplug(d)
        PROVE  /\ pc' \in {"hashImage", "find", "halted", "returned"}
               /\ \A e \in Disks : cache'[e] = Old /\ media'[e] = Old
    BY <1>1, <1>5 DEF Attach, Unplug, Rest, data, TypeOK
  <1>6. CASE TimePasses \/ SourceChanges \/ UNCHANGED vars
    BY <1>1, <1>6 DEF TimePasses, SourceChanges, Rest, vars, data
  <1> QED BY <1>2, <1>3, <1>4, <1>5, <1>6 DEF Next, RunWriter

----------------------------------------------------------------------------
(* The read-back *)

LEMMA WholeImage ==
    ASSUME TypeOK, pos = Chunks, hash = Image, NEW d \in Disks,
           \A c \in 1..pos : hash[c] = media[d][c]
    PROVE  media[d] = Image
  <1>1. media[d] \in [1..Chunks -> {"old", "img", "bad"}]
    BY DEF TypeOK, Content
  <1>2. \A c \in 1..Chunks : media[d][c] = "img"
    BY DEF Image
  <1>3. media[d] = [c \in 1..Chunks |-> media[d][c]]
    BY <1>1
  <1> QED BY <1>2, <1>3 DEF Image

LEMMA NextVerified ==
    ASSUME TypeOK, Verified, [Next]_vars
    PROVE  Verified'
  <1> USE DEF data, wire, fixed
  <1>1. CASE HashImage \/ FindTarget \/ EnsureUnmounted \/ OpenTarget \/ CopyChunk
             \/ SyncTarget \/ CompareWritten
    <2>1. pc' \notin {"verify", "rebooted"}
      BY <1>1 DEF HashImage, FindTarget, EnsureUnmounted, OpenTarget, CopyChunk, SyncTarget,
                  CompareWritten, Step, Fail
    <2> QED BY <2>1 DEF Verified
  <1>2. CASE ReopenAndFlush
    <2>1. CASE Fail
      BY <2>1 DEF Verified, Fail
    <2>2. CASE ~Fail
      <3>1. /\ DiskNamed(path) # None /\ opened' = DiskNamed(path) /\ pc' = "verify" /\ pos' = 0
            /\ cache' = [cache EXCEPT ![opened'] = media[opened']] /\ media' = media
        BY <1>2, <2>2 DEF ReopenAndFlush
      <3>2. opened' \in Disks
        BY <3>1, NamedDisk
      <3>3. cache'[opened'] = media'[opened'] /\ \A c \in 1..pos' : FALSE
        BY <3>1, <3>2 DEF TypeOK
      <3> QED BY <3>1, <3>2, <3>3 DEF Verified
    <2> QED BY <2>1, <2>2
  <1>3. CASE ReadBackChunk
    <2>1. CASE Fail
      BY <2>1 DEF Verified, Fail
    <2>2. CASE ~Fail
      <3>1. /\ opened # None /\ hash' = [hash EXCEPT ![pos + 1] = cache[opened][pos + 1]]
            /\ pos' = pos + 1 /\ pos < Chunks /\ UNCHANGED <<pc, opened, cache, media>>
            /\ pc = "verify"
        BY <1>3, <2>2 DEF ReadBackChunk, Step
      <3>2. PICK d \in Disks : /\ \A c \in 1..pos : hash[c] = media[d][c]
                               /\ opened = d /\ cache[d] = media[d]
        BY <3>1 DEF Verified
      <3>3. pos \in Nat /\ Chunks \in Nat
        BY Constants DEF TypeOK
      <3>4. hash \in [1..Chunks -> {"old", "img", "bad"}]
        BY DEF TypeOK, Content
      <3>5. \A c \in 1..pos' : hash'[c] = media'[d][c]
        <4> TAKE c \in 1..pos'
        <4>1. c \in 1..Chunks /\ (c = pos + 1 \/ c \in 1..pos)
          BY <3>1, <3>3
        <4>2. CASE c = pos + 1
          BY <3>1, <3>2, <3>4, <4>1, <4>2
        <4>3. CASE c # pos + 1
          BY <3>1, <3>2, <3>4, <4>1, <4>3
        <4> QED BY <4>2, <4>3
      <3> QED BY <3>1, <3>2, <3>5 DEF Verified
    <2> QED BY <2>1, <2>2
  <1>4. CASE VerifyAndReboot
    <2>1. CASE Fail
      BY <2>1 DEF Verified, Fail
    <2>2. CASE ~Fail
      <3>1. hash = Image /\ pos = Chunks /\ pc = "verify" /\ pc' = "rebooted" /\ media' = media
        BY <1>4, <2>2 DEF VerifyAndReboot, Step
      <3>2. PICK d \in Disks : \A c \in 1..pos : hash[c] = media[d][c]
        BY <3>1 DEF Verified
      <3>3. media'[d] = Image
        BY <3>1, <3>2, WholeImage
      <3> QED BY <3>1, <3>3 DEF Verified
    <2> QED BY <2>1, <2>2
  <1>5. ASSUME NEW e \in Disks, Unplug(e) PROVE Verified'
    <2>1. /\ UNCHANGED <<pc, pos, hash, media>> /\ pc # "rebooted"
          /\ opened' = IF opened = e THEN None ELSE opened
          /\ cache' = [cache EXCEPT ![e] = media[e]]
      BY <1>5 DEF Unplug
    <2>2. CASE pc # "verify"
      BY <2>1, <2>2 DEF Verified
    <2>3. CASE pc = "verify"
      <3>1. PICK d \in Disks : /\ \A c \in 1..pos : hash[c] = media[d][c]
                               /\ opened # None => opened = d /\ cache[d] = media[d]
        BY <2>3 DEF Verified
      <3>2. opened' # None => opened' = d /\ cache'[d] = media'[d]
        BY <2>1, <3>1 DEF TypeOK
      <3> QED BY <2>1, <3>1, <3>2 DEF Verified
    <2> QED BY <2>2, <2>3
  <1>6. CASE (\E e \in Disks : Attach(e)) \/ TimePasses \/ SourceChanges \/ UNCHANGED vars
    BY <1>6 DEF Attach, TimePasses, SourceChanges, Rest, vars, Verified
  <1> QED BY <1>1, <1>2, <1>3, <1>4, <1>5, <1>6 DEF Next, RunWriter

----------------------------------------------------------------------------
LEMMA InitIInv == Init => IInv
  <1> SUFFICES ASSUME Init PROVE IInv
    OBVIOUS
  <1>1. \A d \in Disks : name[d] = None /\ cache[d] = Old /\ media[d] = Old
    BY DEF Init
  <1>2. path = None /\ opened = None /\ pc = "hashImage"
    BY DEF Init
  <1>3. OneName /\ PathIsTarget /\ OnlyTheStableTargetIsWritten /\ NotFound /\ Verified
    BY <1>1, <1>2 DEF OneName, PathIsTarget, OnlyTheStableTargetIsWritten, NotFound, Verified, Touched
  <1> QED BY <1>3, InitType, InitReported DEF IInv

LEMMA NextIInv == IInv /\ [Next]_vars => IInv'
  <1> SUFFICES ASSUME IInv, [Next]_vars PROVE IInv'
    OBVIOUS
  <1>1. UNCHANGED <<expected, seen>>
    BY DEF Next, RunWriter, HashImage, FindTarget, EnsureUnmounted, OpenTarget, CopyChunk,
           SyncTarget, CompareWritten, ReopenAndFlush, ReadBackChunk, VerifyAndReboot, Step,
           Attach, Unplug, TimePasses, SourceChanges, Rest, vars, fixed
  <1>2. Reported'
    BY <1>1 DEF IInv, Reported
  <1> QED BY <1>2, NextType, NextNames, NextPath, NextWritten, NextNotFound, NextVerified DEF IInv

\* Every variable keeps its type (writer_linux.go, write.go).
THEOREM TypeCorrect == Spec => []TypeOK
  <1>1. IInv => TypeOK
    BY DEF IInv
  <1> QED BY <1>1, InitIInv, NextIInv, PTL DEF Spec

\* A recorded WWN or serial decides alone which disk is overwritten, for every
\* number of disks, in whatever order they attach and under whatever names, as
\* long as none disappears (writer_linux.go, fingerprint.go).
THEOREM StableTargetOnly == Spec => []OnlyTheStableTargetIsWritten
  <1>1. IInv => OnlyTheStableTargetIsWritten
    BY DEF IInv
  <1> QED BY <1>1, InitIInv, NextIInv, PTL DEF Spec

\* A recorded WWN, or a serial recorded without one, that the kernel of the writer
\* does not report stops it before it writes to any disk, disappearances or not
\* (fingerprint.go).
THEOREM LostIdentity == Spec => []LostIdentityStops
  <1>1. IInv => LostIdentityStops
    BY DEF IInv, NotFound, LostIdentityStops
  <1> QED BY <1>1, InitIInv, NextIInv, PTL DEF Spec

\* The machine reboots only with the whole image on the medium of one disk,
\* however the source changes and whatever writes the disk loses (write.go).
THEOREM InstalledAtReboot == Spec => []RebootMeansInstalled
  <1>1. IInv => RebootMeansInstalled
    BY DEF IInv, Verified, RebootMeansInstalled
  <1> QED BY <1>1, InitIInv, NextIInv, PTL DEF Spec
=============================================================================
