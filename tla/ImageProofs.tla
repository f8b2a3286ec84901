----------------------------- MODULE ImageProofs -----------------------------
(* Theorems about Image, for every number of partitions. *)
EXTENDS Image, TLAPS

\* The steps of InjectAutorun at a partition.
AtPartition == {"look", "passOver", "write", "unmount"}

UefiSteps == {"mountBoot", "readBoot", "unmountBoot", "writeEsp", "readBack"}

\* The loop is at a Linux partition while it works on one.
Positioned == /\ linux \subseteq Partitions
              /\ pc \in AtPartition => part \in linux

\* No more than the partition of this turn is mounted, unless an unmount has
\* failed or a cancelled mount was left; the rebuild starts with none.
Mounts ==
    /\ passedOver => stuck
    /\ (~cancelled /\ ~passedOver /\ pc = "mount") => mounted = {}
    /\ (~cancelled /\ ~passedOver /\ pc \in AtPartition) => mounted \subseteq {part}
    /\ (~passedOver /\ pc \in UefiSteps \cup {"hash", "prepared"}) => mounted = {}
    /\ (~cancelled /\ ~stuck /\ pc = "error") => mounted = {}
    /\ (~cancelled /\ ~stuck /\ pc \notin {"readBoot", "unmountBoot"}) => ~reading

HasScript(p) == content[p] \in {"autorun", "flushed"}

\* The script stays where it was written: on a UEFI host that is not the
\* partition that is rebuilt.
Scripted ==
    /\ firmware = "UEFI" => Boot \notin rw
    /\ pc \in {"write", "unmount"} => part \in rw
    /\ (pc = "unmount" /\ ~failed) => HasScript(part)
    /\ pc \in UefiSteps => firmware = "UEFI"
    /\ pc \in UefiSteps \cup {"hash", "prepared"} => \E p \in rw : HasScript(p)
    /\ (pc \in {"hash", "prepared"} /\ firmware = "UEFI" /\ ~passedOver) =>
           content[Boot] = "fat16"
    /\ (pc = "prepared" /\ ~passedOver) => content = hashed

----------------------------------------------------------------------------
LEMMA BootIsPartition == Boot \in Partitions
  BY CountAssumption DEF Boot, Partitions

LEMMA InitType == Init => TypeOK
  <1> SUFFICES ASSUME Init PROVE TypeOK
    OBVIOUS
  <1>1. 1 \in 1..(Count + 1)
    BY CountAssumption
  <1>2. [p \in Partitions |-> "official"] \in Images
    BY DEF Images, Contents
  <1> QED BY <1>1, <1>2 DEF Init, TypeOK

LEMMA NextType == TypeOK /\ Positioned /\ [Next]_vars => TypeOK'
  <1> SUFFICES ASSUME TypeOK, Positioned, [Next]_vars PROVE TypeOK'
    OBVIOUS
  <1> USE DEF TypeOK
  <1>p. part \in Partitions => part + 1 \in 1..(Count + 1)
    BY CountAssumption DEF Partitions
  <1>c. \A p, c : c \in Contents => [content EXCEPT ![p] = c] \in Images
    BY DEF Images
  <1>a. pc \in AtPartition => part \in Partitions
    BY DEF Positioned
  <1>1. CASE SkipPartition
    BY <1>1, <1>p DEF SkipPartition, NextPartition, Same, host, hist
  <1>2. CASE MountPartition
    <2>1. part \in Partitions /\ "touched" \in Contents
      BY <1>2 DEF MountPartition, Contents
    <2>2. [content EXCEPT ![part] = "touched"] \in Images
      BY <2>1, <1>c
    <2>3. part + 1 \in 1..(Count + 1)
      BY <2>1, <1>p
    <2>4. mounted \cup {part} \subseteq Partitions
      BY <2>1
    <2>5. mounted' \subseteq Partitions /\ content' \in Images
      BY <1>2, <2>2, <2>4 DEF MountPartition, MountedBy
    <2>6. part' \in 1..(Count + 1)
      BY <1>2, <2>3 DEF MountPartition, NextPartition
    <2>7. pc' \in {"mount", "look", "error"}
      BY <1>2 DEF MountPartition, NextPartition
    <2> QED BY <1>2, <2>5, <2>6, <2>7 DEF MountPartition, Same, host, hist
  <1>3. CASE LookForRw
    BY <1>3 DEF LookForRw, Same, host, hist
  <1>4. CASE PassOver
    <2>1. part \in Partitions
      BY <1>4, <1>a DEF PassOver, AtPartition
    <2>2. part' \in 1..(Count + 1) /\ pc' \in {"mount", "error"}
      BY <1>4, <1>p, <2>1 DEF PassOver, NextPartition
    <2> QED BY <1>4, <2>2 DEF PassOver, Same, host, hist
  <1>5. CASE WriteAutorun
    BY <1>5, <1>c DEF WriteAutorun, Same, host, hist, Contents
  <1>6. CASE UnmountInjected
    BY <1>6 DEF UnmountInjected, Injected, Same, host, hist
  <1>7. CASE MountBoot \/ ReadBootFiles \/ UnmountBoot
    BY <1>7 DEF MountBoot, ReadBootFiles, UnmountBoot, UefiFrame, Same, host, hist
  <1>8. CASE WriteEsp
    <2>1. {"fat16", "torn", content[Boot]} \subseteq Contents
      BY BootIsPartition DEF Images, Contents
    <2>2. PICK c \in {"fat16", "torn", content[Boot]} : content' = [content EXCEPT ![Boot] = c]
      BY <1>8 DEF WriteEsp
    <2>3. content' \in Images
      BY <1>c, <2>1, <2>2
    <2> QED BY <1>8, <2>3 DEF WriteEsp, UefiFrame, Same, host, hist
  <1>9. CASE ReadBackEsp \/ HashImage
    BY <1>9 DEF ReadBackEsp, HashImage, UefiFrame, Same, host, hist
  <1>10. CASE \E p \in Partitions : Writeback(p)
    BY <1>10, <1>c, ZenonT(60) DEF Writeback, Same, host, hist, Contents
  <1>11. CASE Cancel \/ UNCHANGED vars
    BY <1>11 DEF Cancel, vars, host, hist
  <1> QED
    BY <1>1, <1>2, <1>3, <1>4, <1>5, <1>6, <1>7, <1>8, <1>9, <1>10, <1>11 DEF Next, Prepare

LEMMA NextPositioned == TypeOK /\ Positioned /\ [Next]_vars => Positioned'
  <1> SUFFICES ASSUME Positioned, [Next]_vars PROVE Positioned'
    OBVIOUS
  <1> USE DEF Positioned, AtPartition
  <1>1. CASE SkipPartition \/ MountPartition
    BY <1>1 DEF SkipPartition, MountPartition, NextPartition, Same, host
  <1>2. CASE LookForRw \/ PassOver \/ WriteAutorun
    BY <1>2 DEF LookForRw, PassOver, WriteAutorun, NextPartition, Same, host
  <1>3. CASE UnmountInjected
    BY <1>3 DEF UnmountInjected, Injected, Same, host
  <1>4. CASE MountBoot \/ ReadBootFiles \/ UnmountBoot
    BY <1>4 DEF MountBoot, ReadBootFiles, UnmountBoot, UefiFrame, Same, host
  <1>5. CASE WriteEsp \/ ReadBackEsp \/ HashImage
    BY <1>5 DEF WriteEsp, ReadBackEsp, HashImage, UefiFrame, Same, host
  <1>6. CASE (\E p \in Partitions : Writeback(p)) \/ Cancel \/ UNCHANGED vars
    BY <1>6 DEF Writeback, Cancel, vars, Same, host
  <1> QED BY <1>1, <1>2, <1>3, <1>4, <1>5, <1>6 DEF Next, Prepare

LEMMA NextMounts == TypeOK /\ Mounts /\ [Next]_vars => Mounts'
  <1> SUFFICES ASSUME TypeOK, Mounts, [Next]_vars PROVE Mounts'
    OBVIOUS
  <1> USE DEF Mounts, AtPartition, UefiSteps
  <1>1. CASE SkipPartition
    BY <1>1 DEF SkipPartition, NextPartition, Same, host, hist
  <1>2. CASE MountPartition
    BY <1>2 DEF MountPartition, MountedBy, NextPartition, Same, host, hist
  <1>3. CASE LookForRw \/ WriteAutorun
    BY <1>3 DEF LookForRw, WriteAutorun, Same, host, hist
  <1>4. CASE PassOver
    BY <1>4 DEF PassOver, NextPartition, Same, host, hist
  <1>5. CASE UnmountInjected
    BY <1>5 DEF UnmountInjected, Injected, Same, host, hist
  <1>6. CASE MountBoot
    <2>1. pc' \in {"readBoot", "error"} /\ pc = "mountBoot"
      BY <1>6 DEF MountBoot
    <2>2. pc' = "error" /\ ~cancelled => ~reading'
      BY <1>6 DEF MountBoot, TypeOK
    <2>3. UNCHANGED <<mounted, cancelled, passedOver, stuck>>
      BY <1>6 DEF MountBoot, UefiFrame, Same, hist
    <2> QED BY <2>1, <2>2, <2>3
  <1>7. CASE ReadBootFiles \/ UnmountBoot
    BY <1>7 DEF ReadBootFiles, UnmountBoot, UefiFrame, Same, host, hist
  <1>8. CASE WriteEsp \/ ReadBackEsp \/ HashImage
    BY <1>8 DEF WriteEsp, ReadBackEsp, HashImage, UefiFrame, Same, host, hist
  <1>9. CASE (\E p \in Partitions : Writeback(p)) \/ Cancel \/ UNCHANGED vars
    BY <1>9 DEF Writeback, Cancel, vars, Same, host, hist
  <1> QED BY <1>1, <1>2, <1>3, <1>4, <1>5, <1>6, <1>7, <1>8, <1>9 DEF Next, Prepare

LEMMA NextScripted == TypeOK /\ Mounts /\ Scripted /\ [Next]_vars => Scripted'
  <1> SUFFICES ASSUME TypeOK, Mounts, Scripted, [Next]_vars PROVE Scripted'
    OBVIOUS
  <1> USE DEF Scripted, HasScript, UefiSteps
  <1>t. /\ content \in [Partitions -> Contents] /\ rw \subseteq Partitions
        /\ Boot \in Partitions
    BY BootIsPartition DEF TypeOK, Images
  <1>1. CASE SkipPartition \/ MountPartition
    BY <1>1 DEF SkipPartition, MountPartition, NextPartition, Same, host
  <1>2. CASE LookForRw \/ PassOver
    BY <1>2 DEF LookForRw, PassOver, NextPartition, Same, host
  <1>3. CASE WriteAutorun
    BY <1>3, <1>t DEF WriteAutorun, Same, host
  <1>4. CASE UnmountInjected
    BY <1>4 DEF UnmountInjected, Injected, Same, host
  <1>5. CASE MountBoot \/ ReadBootFiles \/ UnmountBoot
    BY <1>5 DEF MountBoot, ReadBootFiles, UnmountBoot, UefiFrame, Same, host
  <1>6. CASE WriteEsp
    <2>1. PICK c : content' = [content EXCEPT ![Boot] = c]
      BY <1>6 DEF WriteEsp
    <2>2. PICK p \in rw : HasScript(p) /\ p # Boot
      BY <1>6 DEF WriteEsp
    <2>3. HasScript(p)'
      BY <1>t, <2>1, <2>2
    <2>4. UNCHANGED host /\ pc' \in {"readBack", "error"} /\ firmware = "UEFI"
      BY <1>6 DEF WriteEsp, UefiFrame, Same
    <2> QED BY <2>2, <2>3, <2>4 DEF host
  <1>7. CASE ReadBackEsp \/ HashImage
    BY <1>7 DEF ReadBackEsp, HashImage, UefiFrame, Same, host, hist
  <1>8. CASE \E p \in Partitions : Writeback(p)
    <2>1. PICK p \in Partitions : Writeback(p)
      BY <1>8
    <2>2. ~passedOver => pc \notin {"hash", "prepared"}
      BY <2>1 DEF Writeback, Mounts
    <2>3. \A q \in Partitions : HasScript(q) => HasScript(q)'
      BY <1>t, <2>1 DEF Writeback
    <2> QED BY <1>t, <2>1, <2>2, <2>3 DEF Writeback, Same, host, hist
  <1>9. CASE Cancel \/ UNCHANGED vars
    BY <1>9 DEF Cancel, vars, host, hist
  <1> QED BY <1>1, <1>2, <1>3, <1>4, <1>5, <1>6, <1>7, <1>8, <1>9 DEF Next, Prepare

IInv == TypeOK /\ Positioned /\ Mounts /\ Scripted

LEMMA InitIInv == Init => IInv
  <1> SUFFICES ASSUME Init PROVE IInv
    OBVIOUS
  <1>1. Positioned /\ Mounts /\ Scripted
    BY DEF Init, Positioned, Mounts, Scripted, AtPartition, UefiSteps
  <1> QED BY <1>1, InitType DEF IInv

LEMMA NextIInv == IInv /\ [Next]_vars => IInv'
  BY NextType, NextPositioned, NextMounts, NextScripted DEF IInv

----------------------------------------------------------------------------
\* Every variable keeps its type (image.go, uefi.go).
THEOREM TypeCorrect == Spec => []TypeOK
  <1>1. IInv => TypeOK
    BY DEF IInv
  <1> QED BY <1>1, InitIInv, NextIInv, PTL DEF Spec

\* The preparation leaves nothing mounted unless it was cancelled or an
\* unmount has failed, whatever partitions the image has (image.go, uefi.go).
THEOREM MountsAreReleased == Spec => []MountsReleased
  <1>1. IInv => MountsReleased
    BY DEF IInv, Mounts, MountsReleased, Ended
  <1> QED BY <1>1, InitIInv, NextIInv, PTL DEF Spec

\* What is hashed for the manifest is a finished image (client.go, Prepare).
THEOREM AuthorisedIsFinal == Spec => []AuthorisedImageIsFinal
  <1>1. IInv => AuthorisedImageIsFinal
    BY DEF IInv, TypeOK, Scripted, HasScript, AuthorisedImageIsFinal
  <1> QED BY <1>1, InitIInv, NextIInv, PTL DEF Spec
=============================================================================
