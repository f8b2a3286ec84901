---------------------------- MODULE StageProofs ----------------------------
(***************************************************************************)
(* Theorems about module Stage, for every bound on runs, interrupts and    *)
(* failed undo operations.                                                 *)
(*                                                                         *)
(*   types     the variables stay in their domains                         *)
(*   OneShot   where an armed entry can be: on a plain file system only    *)
(*   hand-over Stage implements Handover: outside the steps that need it,  *)
(*             what is loaded or armed was found by the run, or an undoing *)
(*             of it has failed                                            *)
(*   booting   where the initrd and the menu entry are while the entry is  *)
(*             armed, hence what a reboot or a crash at any step boots     *)
(*   undoing   every object an attempt has made is accounted for until a   *)
(*             cleanup has removed it                                      *)
(***************************************************************************)
EXTENDS Stage, TLAPS

\* The parts of TypeOK that actions change together.
ProcType ==
    /\ pc \in Pcs /\ method \in {"kexec", "grub"}
    /\ after \in {"return", "exec", "decide"} /\ todo \subseteq Objects
    /\ cleanupErr \in BOOLEAN /\ fellBack \in BOOLEAN /\ cancelled \in BOOLEAN
    /\ result \in {"none", "ok", "err"}

DiskType == now \in [Objects -> BOOLEAN] /\ unsynced \subseteq Objects

BootType ==
    /\ loaded \in BOOLEAN /\ pending \in {"none", "kexec", "reboot"}
    /\ mach \in {"linux", "writer", "halted", "stuck", "chr", "dead"}
    /\ via \in {"none", "kexec", "grub"} /\ target \in {"linux", "torn", "chr"}

HistType ==
    /\ stale \subseteq Objects \cup {"loaded"}
    /\ faulted \in BOOLEAN /\ loadFailed \in BOOLEAN
    /\ since \in {"nothing", "recovery", "crash"}

CountType ==
    /\ runs \in 0..MaxRuns /\ interrupts \in 0..MaxInterrupts
    /\ faults \in 0..MaxFaults

\* TypeOK is the conjunction of its parts.
LEMMA TypeParts ==
    TypeOK <=> /\ ProcType /\ DiskType /\ BootType /\ HistType
               /\ host \in Hosts /\ CountType
  BY DEF TypeOK, ProcType, DiskType, BootType, HistType, CountType

\* The fields of a host.
LEMMA HostType ==
    \A h \in Hosts : h.method \in {"kexec", "grub"} /\ h.plain \in BOOLEAN
  BY DEF Hosts

\* What a step does to the counter of failed undo operations.
FaultsNext == \/ faults' = faults
              \/ faults < MaxFaults /\ faults' = faults + 1

\* PrepareStage touches neither the boot state nor the budgets of the environment.
LEMMA PrepareFrame ==
    ASSUME Prepare
    PROVE  UNCHANGED <<boot, host, runs, interrupts>>
  BY DEF Prepare, StatSources, MakeBuildDir, RemoveOldInitrd,
         CheckBuildSpace, MakeConfigDir, RunMkinitramfs, MeasureInitramfs,
         MakeGrubDir, CheckBootSpace, CopyToTemp, RenameInitrd, RemoveBuilt,
         ProbeBootFilesystem, WriteScriptTemp, RenameScript, MakeDir, Check,
         WriteTemporary, Commit, Committed, Rename, Quiet, env, boot

\* Nor does a cleanup.
LEMMA CleanFrame ==
    ASSUME Clean
    PROVE  UNCHANGED <<boot, host, runs, interrupts>>
  <1> USE DEF env, boot, Quiet
  <1>1. ASSUME NEW o \in Artifacts, PartialStep(o) PROVE UNCHANGED <<boot, host, runs, interrupts>>
    BY <1>1 DEF PartialStep, CleanupFrame
  <1>2. ASSUME NEW o \in Artifacts, CleanPath(o) PROVE UNCHANGED <<boot, host, runs, interrupts>>
    BY <1>2 DEF CleanPath, CleanupFrame
  <1>3. CASE PartialDone
    BY <1>3 DEF PartialDone
  <1>4. CASE Disarm
    BY <1>4 DEF Disarm, CleanCommand, CleanupFrame
  <1>5. CASE RefreshGrub
    BY <1>5 DEF RefreshGrub, CleanCommand, CleanupFrame
  <1>6. CASE CleanupDone
    BY <1>6 DEF CleanupDone, FallBack
  <1>q. QED
    BY <1>1, <1>2, <1>3, <1>4, <1>5, <1>6 DEF Clean

\* StageAndBoot leaves host and environment alone.
LEMMA BootFrame ==
    ASSUME Boot
    PROVE  UNCHANGED <<host, runs, interrupts>>
  BY DEF Boot, Sync, KexecLoad, SystemctlKexec, KexecExecute,
         KexecUnload, UpdateGrub, ValidateGrubConfiguration,
         ValidateGrubStorage, ArmEntry, VerifyNextEntry, SystemctlReboot,
         RebootCommand, GrubCheck, GrubReboot, env

\* The machine leaves the host and the count of failed undo operations alone.
LEMMA MachineFrame ==
    ASSUME Machine
    PROVE  UNCHANGED <<host, faults>>
  BY DEF Machine, Cancel, Kill, PowerLoss, Restart, WriterHalts,
         WriterStartsWriting, WriterFinishes, PowerCycle, StartRun,
         ManualRecovery, FirmwareBoot, EnterWriter, Interrupt, env, hist,
         fail

\* A step of PrepareStage counts at most one failed undo operation, within the bound.
LEMMA PrepareFaults ==
    ASSUME Prepare
    PROVE  FaultsNext
  <1> USE DEF FaultsNext, Fault, fail, hist, Quiet, DropTemporary
  <1>1. CASE StatSources
    BY <1>1 DEF StatSources
  <1>2. CASE MakeBuildDir
    BY <1>2 DEF MakeBuildDir, MakeDir
  <1>3. CASE RemoveOldInitrd
    BY <1>3 DEF RemoveOldInitrd
  <1>4. CASE CheckBuildSpace
    BY <1>4 DEF CheckBuildSpace, Check
  <1>5. CASE MakeConfigDir
    BY <1>5 DEF MakeConfigDir, WriteTemporary
  <1>6. CASE RunMkinitramfs
    BY <1>6 DEF RunMkinitramfs
  <1>7. CASE MeasureInitramfs
    BY <1>7 DEF MeasureInitramfs, Commit, Committed
  <1>8. CASE MakeGrubDir
    BY <1>8 DEF MakeGrubDir, MakeDir
  <1>9. CASE CheckBootSpace
    BY <1>9 DEF CheckBootSpace, Check
  <1>10. CASE CopyToTemp
    BY <1>10 DEF CopyToTemp, WriteTemporary
  <1>11. CASE RenameInitrd
    BY <1>11 DEF RenameInitrd, Rename
  <1>12. CASE RemoveBuilt
    BY <1>12 DEF RemoveBuilt
  <1>13. CASE ProbeBootFilesystem
    BY <1>13 DEF ProbeBootFilesystem
  <1>14. CASE WriteScriptTemp
    BY <1>14 DEF WriteScriptTemp, WriteTemporary
  <1>15. CASE RenameScript
    BY <1>15 DEF RenameScript, Rename, Commit, Committed
  <1>q. QED
    BY <1>1, <1>2, <1>3, <1>4, <1>5, <1>6, <1>7, <1>8, <1>9, <1>10,
          <1>11, <1>12, <1>13, <1>14, <1>15 DEF Prepare

\* os.Remove fails at most once.
LEMMA RemoveFaults ==
    ASSUME NEW o, RemovePath(o)
    PROVE  UNCHANGED fail \/ Fault
  BY DEF RemovePath

\* A cleanup step counts at most one failure.
LEMMA CleanFaults ==
    ASSUME Clean
    PROVE  FaultsNext
  <1> USE DEF FaultsNext, Fault, Quiet, fail, hist
  <1>1. ASSUME NEW o \in Artifacts, PartialStep(o) PROVE FaultsNext
    <2>1. UNCHANGED fail \/ Fault
      BY <1>1, RemoveFaults DEF PartialStep
    <2> QED BY <2>1
  <1>2. ASSUME NEW o \in Artifacts, CleanPath(o) PROVE FaultsNext
    <2>1. UNCHANGED fail \/ Fault
      BY <1>2, RemoveFaults DEF CleanPath
    <2> QED BY <2>1
  <1>3. CASE PartialDone
    BY <1>3 DEF PartialDone
  <1>4. CASE Disarm
    BY <1>4 DEF Disarm, CleanCommand, CleanupFrame
  <1>5. CASE RefreshGrub
    BY <1>5 DEF RefreshGrub, CleanCommand, CleanupFrame
  <1>6. CASE CleanupDone
    BY <1>6 DEF CleanupDone, FallBack
  <1>q. QED
    BY <1>1, <1>2, <1>3, <1>4, <1>5, <1>6 DEF Clean

\* A step of StageAndBoot counts at most one failure.
LEMMA BootFaults ==
    ASSUME Boot
    PROVE  FaultsNext
  <1> USE DEF FaultsNext, Fault, fail, hist
  <1>1. CASE Sync
    BY <1>1 DEF Sync
  <1>2. CASE KexecLoad
    BY <1>2 DEF KexecLoad
  <1>3. CASE SystemctlKexec
    BY <1>3 DEF SystemctlKexec
  <1>4. CASE KexecExecute
    BY <1>4 DEF KexecExecute
  <1>5. CASE KexecUnload
    BY <1>5 DEF KexecUnload
  <1>6. CASE UpdateGrub
    BY <1>6 DEF UpdateGrub
  <1>7. CASE ValidateGrubConfiguration
    BY <1>7 DEF ValidateGrubConfiguration, GrubCheck
  <1>8. CASE ValidateGrubStorage
    BY <1>8 DEF ValidateGrubStorage, GrubCheck
  <1>9. CASE ArmEntry
    BY <1>9 DEF ArmEntry, GrubReboot
  <1>10. CASE VerifyNextEntry
    BY <1>10 DEF VerifyNextEntry, GrubCheck
  <1>11. CASE SystemctlReboot
    BY <1>11 DEF SystemctlReboot
  <1>12. CASE RebootCommand
    BY <1>12 DEF RebootCommand
  <1>q. QED
    BY <1>1, <1>2, <1>3, <1>4, <1>5, <1>6, <1>7, <1>8, <1>9, <1>10,
          <1>11, <1>12 DEF Boot

\* The environment stays within its bounds.
LEMMA MachineCount ==
    ASSUME CountType, Machine
    PROVE  CountType'
  BY BoundsAssumption DEF Machine, Cancel, Kill, PowerLoss, Restart,
         WriterHalts, WriterStartsWriting, WriterFinishes, PowerCycle,
         StartRun, ManualRecovery, FirmwareBoot, EnterWriter, Interrupt,
         CountType, fail, env, hist

\* StageAndBoot keeps the types of the boot state.
LEMMA BootBoot ==
    ASSUME BootType, Boot
    PROVE  BootType'
  <1> USE DEF boot, BootType
  <1>1. CASE Sync
    BY <1>1 DEF Sync
  <1>2. CASE KexecLoad
    BY <1>2 DEF KexecLoad
  <1>3. CASE SystemctlKexec
    BY <1>3 DEF SystemctlKexec
  <1>4. CASE KexecExecute
    BY <1>4 DEF KexecExecute, EnterWriter
  <1>5. CASE KexecUnload
    BY <1>5 DEF KexecUnload
  <1>6. CASE UpdateGrub
    BY <1>6 DEF UpdateGrub
  <1>7. CASE ValidateGrubConfiguration
    BY <1>7 DEF ValidateGrubConfiguration, GrubCheck
  <1>8. CASE ValidateGrubStorage
    BY <1>8 DEF ValidateGrubStorage, GrubCheck
  <1>9. CASE ArmEntry
    BY <1>9 DEF ArmEntry, GrubReboot
  <1>10. CASE VerifyNextEntry
    BY <1>10 DEF VerifyNextEntry, GrubCheck
  <1>11. CASE SystemctlReboot
    BY <1>11 DEF SystemctlReboot
  <1>12. CASE RebootCommand
    BY <1>12 DEF RebootCommand
  <1>q. QED
    BY <1>1, <1>2, <1>3, <1>4, <1>5, <1>6, <1>7, <1>8, <1>9, <1>10,
          <1>11, <1>12 DEF Boot

\* The machine keeps the types of the boot state.
LEMMA MachineBoot ==
    ASSUME BootType, Machine
    PROVE  BootType'
  BY DEF Machine, Cancel, Kill, PowerLoss, Restart, WriterHalts,
         WriterStartsWriting, WriterFinishes, PowerCycle, StartRun,
         ManualRecovery, FirmwareBoot, EnterWriter, Interrupt, boot,
         BootType

\* PrepareStage keeps the types of the process state.
LEMMA PrepareProc ==
    ASSUME ProcType, Prepare
    PROVE  ProcType'
  <1> USE DEF ProcType, Quiet, Goto, Abort, Return, proc, Objects,
              Artifacts, PayloadFiles, Dirs, Pcs, PreparePcs, KexecPcs,
              GrubPcs
  <1>1. CASE StatSources
    BY <1>1 DEF StatSources
  <1>2. CASE MakeBuildDir
    BY <1>2 DEF MakeBuildDir, MakeDir
  <1>3. CASE RemoveOldInitrd
    BY <1>3 DEF RemoveOldInitrd
  <1>4. CASE CheckBuildSpace
    BY <1>4 DEF CheckBuildSpace, Check
  <1>5. CASE MakeConfigDir
    BY <1>5 DEF MakeConfigDir, WriteTemporary
  <1>6. CASE RunMkinitramfs
    BY <1>6 DEF RunMkinitramfs
  <1>7. CASE MeasureInitramfs
    BY <1>7 DEF MeasureInitramfs, Commit, Committed
  <1>8. CASE MakeGrubDir
    BY <1>8 DEF MakeGrubDir, MakeDir
  <1>9. CASE CheckBootSpace
    BY <1>9 DEF CheckBootSpace, Check
  <1>10. CASE CopyToTemp
    BY <1>10 DEF CopyToTemp, WriteTemporary
  <1>11. CASE RenameInitrd
    BY <1>11 DEF RenameInitrd, Rename
  <1>12. CASE RemoveBuilt
    BY <1>12 DEF RemoveBuilt
  <1>13. CASE ProbeBootFilesystem
    BY <1>13 DEF ProbeBootFilesystem
  <1>14. CASE WriteScriptTemp
    BY <1>14 DEF WriteScriptTemp, WriteTemporary
  <1>15. CASE RenameScript
    BY <1>15 DEF RenameScript, Rename, Commit, Committed
  <1>q. QED
    BY <1>1, <1>2, <1>3, <1>4, <1>5, <1>6, <1>7, <1>8, <1>9, <1>10,
          <1>11, <1>12, <1>13, <1>14, <1>15 DEF Prepare

\* A cleanup keeps the types of the process state.
LEMMA CleanProc ==
    ASSUME ProcType, Clean
    PROVE  ProcType'
  <1> USE DEF ProcType, RemovePath, Goto, Return, Quiet, proc, Pcs,
              PreparePcs, KexecPcs, GrubPcs
  <1>1. ASSUME NEW o \in Artifacts, PartialStep(o) PROVE ProcType'
    BY <1>1 DEF PartialStep, CleanupFrame
  <1>2. ASSUME NEW o \in Artifacts, CleanPath(o) PROVE ProcType'
    BY <1>2 DEF CleanPath, CleanupFrame
  <1>3. CASE PartialDone
    BY <1>3 DEF PartialDone
  <1>4. CASE Disarm
    BY <1>4 DEF Disarm, CleanCommand, CleanupFrame
  <1>5. CASE RefreshGrub
    BY <1>5 DEF RefreshGrub, CleanCommand, CleanupFrame
  <1>6. CASE CleanupDone
    BY <1>6 DEF CleanupDone, FallBack
  <1>q. QED
    BY <1>1, <1>2, <1>3, <1>4, <1>5, <1>6 DEF Clean

\* StageAndBoot keeps the types of the process state.
LEMMA BootProc ==
    ASSUME ProcType, Boot
    PROVE  ProcType'
  <1> USE DEF ProcType, Undo, BeginCleanup, StageObjects, Goto, Return, proc, Objects, Artifacts,
              PayloadFiles, Dirs, Pcs, PreparePcs, KexecPcs, GrubPcs
  <1>1. CASE Sync
    BY <1>1 DEF Sync
  <1>2. CASE KexecLoad \/ SystemctlKexec
    BY <1>2 DEF KexecLoad, SystemctlKexec
  <1>3. CASE KexecExecute \/ KexecUnload
    BY <1>3 DEF KexecExecute, KexecUnload
  <1>4. CASE UpdateGrub
    BY <1>4 DEF UpdateGrub
  <1>5. CASE ValidateGrubConfiguration \/ ValidateGrubStorage
    BY <1>5 DEF ValidateGrubConfiguration, ValidateGrubStorage, GrubCheck
  <1>6. CASE ArmEntry
    BY <1>6 DEF ArmEntry, GrubReboot
  <1>7. CASE VerifyNextEntry
    BY <1>7 DEF VerifyNextEntry, GrubCheck
  <1>8. CASE SystemctlReboot \/ RebootCommand
    BY <1>8 DEF SystemctlReboot, RebootCommand
  <1> QED BY <1>1, <1>2, <1>3, <1>4, <1>5, <1>6, <1>7, <1>8 DEF Boot

\* The machine keeps the types of the process state.
LEMMA MachineProc ==
    ASSUME ProcType, host.method \in {"kexec", "grub"}, Machine
    PROVE  ProcType'
  BY DEF Machine, Cancel, Kill, PowerLoss, Restart, WriterHalts,
         WriterStartsWriting, WriterFinishes, PowerCycle, StartRun,
         ManualRecovery, FirmwareBoot, EnterWriter, Interrupt, ProcType,
         Return, proc, Pcs, PreparePcs, KexecPcs, GrubPcs

\* PrepareStage keeps the types of the history.
LEMMA PrepareHist ==
    ASSUME HistType, Prepare
    PROVE  HistType'
  BY DEF Prepare, StatSources, MakeBuildDir, RemoveOldInitrd,
         CheckBuildSpace, MakeConfigDir, RunMkinitramfs, MeasureInitramfs,
         MakeGrubDir, CheckBootSpace, CopyToTemp, RenameInitrd, RemoveBuilt,
         ProbeBootFilesystem, WriteScriptTemp, RenameScript, MakeDir, Check,
         WriteTemporary, Commit, Committed, Rename, HistType, Fault,
         DropTemporary, fail, hist, Quiet, Objects, Temporaries

\* A cleanup keeps the types of the history.
LEMMA CleanHist ==
    ASSUME HistType, Clean
    PROVE  HistType'
  <1> USE DEF HistType, Fault, RemovePath, Quiet, fail, hist
  <1>1. ASSUME NEW o \in Artifacts, PartialStep(o) PROVE HistType'
    BY <1>1 DEF PartialStep, CleanupFrame
  <1>2. ASSUME NEW o \in Artifacts, CleanPath(o) PROVE HistType'
    BY <1>2 DEF CleanPath, CleanupFrame
  <1>3. CASE PartialDone
    BY <1>3 DEF PartialDone
  <1>4. CASE Disarm
    BY <1>4 DEF Disarm, CleanCommand, CleanupFrame
  <1>5. CASE RefreshGrub
    BY <1>5 DEF RefreshGrub, CleanCommand, CleanupFrame
  <1>6. CASE CleanupDone
    BY <1>6 DEF CleanupDone, FallBack
  <1>q. QED
    BY <1>1, <1>2, <1>3, <1>4, <1>5, <1>6 DEF Clean

\* StageAndBoot keeps the types of the history.
LEMMA BootHist ==
    ASSUME HistType, Boot
    PROVE  HistType'
  BY DEF Boot, Sync, KexecLoad, SystemctlKexec, KexecExecute,
         KexecUnload, UpdateGrub, ValidateGrubConfiguration,
         ValidateGrubStorage, ArmEntry, VerifyNextEntry, SystemctlReboot,
         RebootCommand, GrubCheck, GrubReboot, HistType, Fault, fail, hist

\* The machine keeps the types of the history.
LEMMA MachineHist ==
    ASSUME HistType, Machine
    PROVE  HistType'
  BY DEF Machine, Cancel, Kill, PowerLoss, Restart, WriterHalts,
         WriterStartsWriting, WriterFinishes, PowerCycle, StartRun,
         ManualRecovery, FirmwareBoot, EnterWriter, Interrupt, HistType,
         fail, hist

\* Change keeps the types of the disk.
LEMMA ChangeDisk ==
    ASSUME DiskType, NEW f \in [Objects -> BOOLEAN], Change(f)
    PROVE  DiskType'
  BY DEF DiskType, Change

\* Set keeps the types of the disk.
LEMMA SetDisk ==
    ASSUME DiskType, NEW o, NEW b \in BOOLEAN, Set(o, b)
    PROVE  DiskType'
  BY ChangeDisk DEF DiskType, Set

\* Updating an object to the Boolean of a membership keeps the function type.
LEMMA StaleExcept ==
    ASSUME NEW f \in [Objects -> BOOLEAN], NEW x, NEW y
    PROVE  [f EXCEPT ![y] = x \in stale] \in [Objects -> BOOLEAN]
  <1> DEFINE b == x \in stale
  <1>1. b \in BOOLEAN
    OBVIOUS
  <1> HIDE DEF b
  <1>2. [f EXCEPT ![y] = b] \in [Objects -> BOOLEAN]
    BY <1>1
  <1> QED BY <1>2 DEF b

\* A rename of a temporary keeps the types of the disk.
LEMMA RenameDisk ==
    ASSUME DiskType, NEW x, NEW y,
           Change([now EXCEPT ![x] = TRUE, ![y] = y \in stale])
    PROVE  DiskType'
  <1>1. [now EXCEPT ![x] = TRUE] \in [Objects -> BOOLEAN]
    BY DEF DiskType
  <1>2. [[now EXCEPT ![x] = TRUE] EXCEPT ![y] = y \in stale] \in [Objects -> BOOLEAN]
    BY <1>1, StaleExcept
  <1> QED BY <1>2, ChangeDisk

\* Dropping a temporary keeps the types of the disk.
LEMMA DropDisk ==
    ASSUME DiskType, NEW f \in [Objects -> BOOLEAN], NEW x, DropTemporary(x, f)
    PROVE  DiskType'
  <1>1. CASE Change([f EXCEPT ![x] = x \in stale])
    <2>1. [f EXCEPT ![x] = x \in stale] \in [Objects -> BOOLEAN]
      BY StaleExcept
    <2> QED BY <1>1, <2>1, ChangeDisk
  <1>2. CASE Change([f EXCEPT ![x] = TRUE])
    <2>1. [f EXCEPT ![x] = TRUE] \in [Objects -> BOOLEAN]
      OBVIOUS
    <2> QED BY <1>2, <2>1, ChangeDisk
  <1> QED BY <1>1, <1>2 DEF DropTemporary

\* PrepareStage keeps the types of the disk.
LEMMA PrepareDisk ==
    ASSUME DiskType, Prepare
    PROVE  DiskType'
  <1> USE SetDisk, ChangeDisk, DropDisk, RenameDisk DEF DiskType,
              Quiet, disk
  <1>1. CASE StatSources
    BY <1>1 DEF StatSources
  <1>2. CASE MakeBuildDir
    BY <1>2 DEF MakeBuildDir, MakeDir
  <1>3. CASE RemoveOldInitrd
    BY <1>3 DEF RemoveOldInitrd
  <1>4. CASE CheckBuildSpace
    BY <1>4 DEF CheckBuildSpace, Check
  <1>5. CASE MakeConfigDir
    BY <1>5 DEF MakeConfigDir, WriteTemporary
  <1>6. CASE RunMkinitramfs
    BY <1>6 DEF RunMkinitramfs
  <1>7. CASE MeasureInitramfs
    BY <1>7 DEF MeasureInitramfs, Commit, Committed
  <1>8. CASE MakeGrubDir
    BY <1>8 DEF MakeGrubDir, MakeDir
  <1>9. CASE CheckBootSpace
    BY <1>9 DEF CheckBootSpace, Check
  <1>10. CASE CopyToTemp
    BY <1>10 DEF CopyToTemp, WriteTemporary
  <1>11. CASE RenameInitrd
    BY <1>11 DEF RenameInitrd, Rename
  <1>12. CASE RemoveBuilt
    BY <1>12 DEF RemoveBuilt
  <1>13. CASE ProbeBootFilesystem
    BY <1>13 DEF ProbeBootFilesystem
  <1>14. CASE WriteScriptTemp
    BY <1>14 DEF WriteScriptTemp, WriteTemporary
  <1>15. CASE RenameScript
    BY <1>15 DEF RenameScript, Rename, Commit, Committed
  <1>q. QED
    BY <1>1, <1>2, <1>3, <1>4, <1>5, <1>6, <1>7, <1>8, <1>9, <1>10,
          <1>11, <1>12, <1>13, <1>14, <1>15 DEF Prepare

\* A cleanup keeps the types of the disk.
LEMMA CleanDisk ==
    ASSUME DiskType, Clean
    PROVE  DiskType'
  <1> USE DEF DiskType, Set, Change, SetArmed, RemovePath, disk,
              Present, Regenerated, Objects, Artifacts, PayloadFiles, Dirs,
              Temporaries
  <1>1. ASSUME NEW o \in Artifacts, PartialStep(o) PROVE DiskType'
    BY <1>1 DEF PartialStep, CleanupFrame
  <1>2. ASSUME NEW o \in Artifacts, CleanPath(o) PROVE DiskType'
    BY <1>2 DEF CleanPath, CleanupFrame
  <1>3. CASE PartialDone
    BY <1>3 DEF PartialDone
  <1>4. CASE Disarm
    BY <1>4 DEF Disarm, CleanCommand, CleanupFrame
  <1>5. CASE RefreshGrub
    BY <1>5, ZenonT(60) DEF RefreshGrub, CleanCommand, CleanupFrame
  <1>6. CASE CleanupDone
    BY <1>6 DEF CleanupDone, FallBack
  <1>q. QED
    BY <1>1, <1>2, <1>3, <1>4, <1>5, <1>6 DEF Clean

\* The outcomes of update-grub are Booleans.
LEMMA RegeneratedType ==
    ASSUME DiskType
    PROVE  Regenerated \cup {Present("cfgEntry")} \subseteq BOOLEAN
  BY DEF DiskType, Regenerated, Present, Objects, Artifacts,
         PayloadFiles, Dirs, Temporaries

\* StageAndBoot keeps the types of the disk.
LEMMA BootDisk ==
    ASSUME DiskType, Boot
    PROVE  DiskType'
  <1> USE SetDisk, RegeneratedType DEF DiskType, SetArmed, Undo,
              BeginCleanup, disk
  <1>1. CASE Sync
    BY <1>1 DEF Sync
  <1>2. CASE KexecLoad
    BY <1>2 DEF KexecLoad
  <1>3. CASE SystemctlKexec
    BY <1>3 DEF SystemctlKexec
  <1>4. CASE KexecExecute
    BY <1>4 DEF KexecExecute
  <1>5. CASE KexecUnload
    BY <1>5 DEF KexecUnload
  <1>6. CASE UpdateGrub
    BY <1>6 DEF UpdateGrub
  <1>7. CASE ValidateGrubConfiguration
    BY <1>7 DEF ValidateGrubConfiguration, GrubCheck
  <1>8. CASE ValidateGrubStorage
    BY <1>8 DEF ValidateGrubStorage, GrubCheck
  <1>9. CASE ArmEntry
    BY <1>9 DEF ArmEntry, GrubReboot, Objects, Artifacts,
          PayloadFiles, Dirs, Temporaries
  <1>10. CASE VerifyNextEntry
    BY <1>10 DEF VerifyNextEntry, GrubCheck
  <1>11. CASE SystemctlReboot
    BY <1>11 DEF SystemctlReboot
  <1>12. CASE RebootCommand
    BY <1>12 DEF RebootCommand
  <1>q. QED
    BY <1>1, <1>2, <1>3, <1>4, <1>5, <1>6, <1>7, <1>8, <1>9, <1>10,
          <1>11, <1>12 DEF Boot

\* A boot through the firmware keeps the types of the disk.
LEMMA BootedDisk ==
    ASSUME host.plain \in BOOLEAN, NEW f \in [Objects -> BOOLEAN], FirmwareBoot(f)
    PROVE  DiskType'
  BY DEF DiskType, FirmwareBoot

\* The machine keeps the types of the disk.
LEMMA MachineDisk ==
    ASSUME DiskType, host.plain \in BOOLEAN, Machine
    PROVE  DiskType'
  <1> USE BootedDisk DEF DiskType, disk, Survivors, Present
  <1>1. CASE Cancel
    BY <1>1 DEF Cancel
  <1>2. CASE Kill
    BY <1>2 DEF Kill
  <1>3. CASE PowerLoss
    BY <1>3 DEF PowerLoss
  <1>4. CASE Restart
    BY <1>4 DEF Restart
  <1>5. CASE WriterHalts
    BY <1>5 DEF WriterHalts
  <1>6. CASE WriterStartsWriting
    BY <1>6 DEF WriterStartsWriting
  <1>7. CASE WriterFinishes
    BY <1>7 DEF WriterFinishes
  <1>8. CASE PowerCycle
    BY <1>8 DEF PowerCycle
  <1>9. CASE StartRun
    BY <1>9 DEF StartRun
  <1>10. CASE ManualRecovery
    BY <1>10 DEF ManualRecovery
  <1>q. QED
    BY <1>1, <1>2, <1>3, <1>4, <1>5, <1>6, <1>7, <1>8, <1>9, <1>10 DEF
          Machine

\* A step that changes no variable but faults keeps the bounds.
LEMMA FaultsCount ==
    ASSUME CountType, FaultsNext, UNCHANGED <<runs, interrupts>>
    PROVE  CountType'
  BY BoundsAssumption DEF CountType, FaultsNext

\* Type correctness: the variables stay in their domains.
THEOREM TypeCorrect == Spec => []TypeOK
  <1>1. Init => TypeOK
    <2> SUFFICES ASSUME Init PROVE TypeOK
      OBVIOUS
    <2>1. ProcType
      BY HostType DEF Init, ProcType, Pcs
    <2>2. DiskType /\ BootType /\ HistType
      BY DEF Init, DiskType, BootType, HistType
    <2>3. host \in Hosts /\ CountType
      BY BoundsAssumption DEF Init, CountType
    <2> QED BY <2>1, <2>2, <2>3, TypeParts
  <1>2. TypeOK /\ [Next]_vars => TypeOK'
    <2> SUFFICES ASSUME TypeOK, [Next]_vars PROVE TypeOK'
      OBVIOUS
    <2>0. /\ ProcType /\ DiskType /\ BootType /\ HistType /\ CountType
          /\ host \in Hosts /\ host.method \in {"kexec", "grub"}
          /\ host.plain \in BOOLEAN
      BY TypeParts, HostType
    <2>1. CASE Prepare
      <3>1. ProcType' /\ DiskType' /\ HistType'
        BY <2>0, <2>1, PrepareProc, PrepareDisk, PrepareHist
      <3>2. BootType' /\ host' \in Hosts
        BY <2>0, <2>1, PrepareFrame DEF BootType, boot
      <3>3. CountType'
        BY <2>0, <2>1, PrepareFrame, PrepareFaults, FaultsCount
      <3> QED BY <3>1, <3>2, <3>3, TypeParts DEF TypeOK, ProcType, DiskType, BootType, HistType, CountType
    <2>2. CASE Clean
      <3>1. ProcType' /\ DiskType' /\ HistType'
        BY <2>0, <2>2, CleanProc, CleanDisk, CleanHist
      <3>2. BootType' /\ host' \in Hosts
        BY <2>0, <2>2, CleanFrame DEF BootType, boot
      <3>3. CountType'
        BY <2>0, <2>2, CleanFrame, CleanFaults, FaultsCount
      <3> QED BY <3>1, <3>2, <3>3, TypeParts DEF TypeOK, ProcType, DiskType, BootType, HistType, CountType
    <2>3. CASE Boot
      <3>1. ProcType' /\ DiskType' /\ HistType' /\ BootType'
        BY <2>0, <2>3, BootProc, BootDisk, BootHist, BootBoot
      <3>2. host' \in Hosts
        BY <2>0, <2>3, BootFrame
      <3>3. CountType'
        BY <2>0, <2>3, BootFrame, BootFaults, FaultsCount
      <3> QED BY <3>1, <3>2, <3>3, TypeParts DEF TypeOK, ProcType, DiskType, BootType, HistType, CountType
    <2>4. CASE Machine
      <3>1. ProcType' /\ DiskType' /\ HistType' /\ BootType' /\ CountType'
        BY <2>0, <2>4, MachineProc, MachineDisk, MachineHist, MachineBoot, MachineCount
      <3>2. host' \in Hosts
        BY <2>0, <2>4, MachineFrame
      <3> QED BY <3>1, <3>2, TypeParts DEF TypeOK, ProcType, DiskType, BootType, HistType, CountType
    <2>5. CASE UNCHANGED vars
      BY <2>5 DEF TypeOK, vars, proc, disk, boot, hist, fail, env
    <2> QED BY <2>1, <2>2, <2>3, <2>4, <2>5 DEF Next, Installer
  <1> QED BY <1>1, <1>2, PTL DEF Spec

----------------------------------------------------------------------------
(* OneShot.  GRUB clears next_entry before it boots the writer only where     *)
(* save_env works, so the argument is about where an armed entry can be: on   *)
(* a plain file system, in the running system's view and on the medium.       *)

ArmedPcs == {"arm", "verify", "queueReboot", "reboot"}

MaybeArmed == now["armed"] \/ "armed" \in unsynced

PlainInv ==
    /\ MaybeArmed => host.plain
    /\ pc \in ArmedPcs => host.plain
    /\ pc # "idle" => mach = "linux"

\* A step that arms nothing.
ArmsNothing == MaybeArmed' => MaybeArmed

\* A change that leaves next_entry alone arms nothing.
LEMMA ChangeArms ==
    ASSUME DiskType, NEW f \in [Objects -> BOOLEAN], f["armed"] = now["armed"], Change(f)
    PROVE  ArmsNothing
  BY DEF DiskType, Change, ArmsNothing, MaybeArmed

\* Setting another object arms nothing.
LEMMA SetArms ==
    ASSUME DiskType, NEW o, o # "armed", NEW b \in BOOLEAN, Set(o, b)
    PROVE  ArmsNothing
  BY DEF DiskType, Set, Change, ArmsNothing, MaybeArmed

\* Dropping a temporary arms nothing.
LEMMA DropArms ==
    ASSUME DiskType, NEW f \in [Objects -> BOOLEAN], f["armed"] = now["armed"],
           NEW x \in Temporaries, DropTemporary(x, f)
    PROVE  ArmsNothing
  <1>0. x # "armed" /\ "armed" \in Objects
    BY DEF Temporaries, Objects
  <1>1. CASE Change([f EXCEPT ![x] = x \in stale])
    <2>1. [f EXCEPT ![x] = x \in stale] \in [Objects -> BOOLEAN]
      BY StaleExcept
    <2>2. [f EXCEPT ![x] = x \in stale]["armed"] = now["armed"]
      BY <1>0
    <2> QED BY <1>1, <2>1, <2>2, ChangeArms
  <1>2. CASE Change([f EXCEPT ![x] = TRUE])
    <2>1. [f EXCEPT ![x] = TRUE] \in [Objects -> BOOLEAN]
      OBVIOUS
    <2>2. [f EXCEPT ![x] = TRUE]["armed"] = now["armed"]
      BY <1>0
    <2> QED BY <1>2, <2>1, <2>2, ChangeArms
  <1> QED BY <1>1, <1>2 DEF DropTemporary

\* Renaming a temporary arms nothing.
LEMMA RenameArms ==
    ASSUME DiskType, NEW x, NEW y, x # "armed", y # "armed",
           Change([now EXCEPT ![x] = TRUE, ![y] = y \in stale])
    PROVE  ArmsNothing
  <1>1. [now EXCEPT ![x] = TRUE] \in [Objects -> BOOLEAN]
    BY DEF DiskType
  <1>2. [[now EXCEPT ![x] = TRUE] EXCEPT ![y] = y \in stale] \in [Objects -> BOOLEAN]
    BY <1>1, StaleExcept
  <1>3. [[now EXCEPT ![x] = TRUE] EXCEPT ![y] = y \in stale]["armed"] = now["armed"]
    BY DEF DiskType, Objects
  <1> QED BY <1>2, <1>3, ChangeArms

\* PrepareStage arms nothing.
LEMMA PrepareArms ==
    ASSUME DiskType, Prepare
    PROVE  ArmsNothing
  <1> USE SetArms, ChangeArms, DropArms, RenameArms DEF DiskType,
              Quiet, disk, Temporaries
  <1>1. CASE StatSources
    BY <1>1 DEF StatSources, ArmsNothing, MaybeArmed
  <1>2. CASE MakeBuildDir
    BY <1>2 DEF MakeBuildDir, MakeDir, ArmsNothing, MaybeArmed
  <1>3. CASE RemoveOldInitrd
    BY <1>3 DEF RemoveOldInitrd, ArmsNothing, MaybeArmed
  <1>4. CASE CheckBuildSpace
    BY <1>4 DEF CheckBuildSpace, Check, ArmsNothing, MaybeArmed
  <1>5. CASE MakeConfigDir
    BY <1>5 DEF MakeConfigDir, WriteTemporary
  <1>6. CASE RunMkinitramfs
    BY <1>6 DEF RunMkinitramfs, Objects
  <1>7. CASE MeasureInitramfs
    BY <1>7 DEF MeasureInitramfs, Commit, Committed, ArmsNothing,
          MaybeArmed
  <1>8. CASE MakeGrubDir
    BY <1>8 DEF MakeGrubDir, MakeDir, ArmsNothing, MaybeArmed
  <1>9. CASE CheckBootSpace
    BY <1>9 DEF CheckBootSpace, Check, ArmsNothing, MaybeArmed
  <1>10. CASE CopyToTemp
    BY <1>10 DEF CopyToTemp, WriteTemporary
  <1>11. CASE RenameInitrd
    BY <1>11 DEF RenameInitrd, Rename
  <1>12. CASE RemoveBuilt
    BY <1>12 DEF RemoveBuilt, ArmsNothing, MaybeArmed
  <1>13. CASE ProbeBootFilesystem
    BY <1>13 DEF ProbeBootFilesystem, ArmsNothing, MaybeArmed
  <1>14. CASE WriteScriptTemp
    BY <1>14 DEF WriteScriptTemp, WriteTemporary
  <1>15. CASE RenameScript
    BY <1>15 DEF RenameScript, Rename, Commit, Committed
  <1>q. QED
    BY <1>1, <1>2, <1>3, <1>4, <1>5, <1>6, <1>7, <1>8, <1>9, <1>10,
          <1>11, <1>12, <1>13, <1>14, <1>15 DEF Prepare

\* A cleanup arms nothing.
LEMMA CleanArms ==
    ASSUME DiskType, Clean
    PROVE  ArmsNothing
  <1> USE SetArms, RegeneratedType DEF disk, DiskType
  <1>1. ASSUME NEW o \in Artifacts, PartialStep(o) PROVE ArmsNothing
    BY <1>1 DEF PartialStep, CleanupFrame, RemovePath, ArmsNothing,
          MaybeArmed, Objects, Artifacts, PayloadFiles, Dirs, Temporaries
  <1>2. ASSUME NEW o \in Artifacts, CleanPath(o) PROVE ArmsNothing
    BY <1>2 DEF CleanPath, CleanupFrame, RemovePath, ArmsNothing,
          MaybeArmed, Objects, Artifacts, PayloadFiles, Dirs, Temporaries
  <1>3. CASE PartialDone
    BY <1>3 DEF PartialDone, ArmsNothing, MaybeArmed
  <1>4. CASE Disarm
    BY <1>4 DEF Disarm, CleanCommand, CleanupFrame, SetArmed,
          ArmsNothing, MaybeArmed
  <1>5. CASE RefreshGrub
    BY <1>5 DEF RefreshGrub, CleanCommand, CleanupFrame, ArmsNothing,
          MaybeArmed
  <1>6. CASE CleanupDone
    BY <1>6 DEF CleanupDone, FallBack, ArmsNothing, MaybeArmed
  <1>q. QED
    BY <1>1, <1>2, <1>3, <1>4, <1>5, <1>6 DEF Clean

\* Only grub-reboot arms the entry.
LEMMA BootArms ==
    ASSUME DiskType, Boot, ~ArmEntry
    PROVE  ArmsNothing
  <1> USE SetArms, RegeneratedType DEF disk, DiskType
  <1>1. CASE Sync
    BY <1>1 DEF Sync, ArmsNothing, MaybeArmed
  <1>2. CASE KexecLoad
    BY <1>2 DEF KexecLoad, ArmsNothing, MaybeArmed
  <1>3. CASE SystemctlKexec
    BY <1>3 DEF SystemctlKexec, ArmsNothing, MaybeArmed
  <1>4. CASE KexecExecute
    BY <1>4 DEF KexecExecute, ArmsNothing, MaybeArmed
  <1>5. CASE KexecUnload
    BY <1>5 DEF KexecUnload, ArmsNothing, MaybeArmed
  <1>6. CASE UpdateGrub
    BY <1>6 DEF UpdateGrub, ArmsNothing, MaybeArmed
  <1>7. CASE ValidateGrubConfiguration
    BY <1>7 DEF ValidateGrubConfiguration, GrubCheck, ArmsNothing,
          MaybeArmed
  <1>8. CASE ValidateGrubStorage
    BY <1>8 DEF ValidateGrubStorage, GrubCheck, ArmsNothing,
          MaybeArmed
  <1>9. CASE ArmEntry
    BY <1>9 DEF ArmEntry, GrubReboot, ArmsNothing, MaybeArmed
  <1>10. CASE VerifyNextEntry
    BY <1>10 DEF VerifyNextEntry, GrubCheck, ArmsNothing, MaybeArmed
  <1>11. CASE SystemctlReboot
    BY <1>11 DEF SystemctlReboot, ArmsNothing, MaybeArmed
  <1>12. CASE RebootCommand
    BY <1>12 DEF RebootCommand, ArmsNothing, MaybeArmed
  <1>q. QED
    BY <1>1, <1>2, <1>3, <1>4, <1>5, <1>6, <1>7, <1>8, <1>9, <1>10,
          <1>11, <1>12 DEF Boot

\* PrepareStage does not lead to the steps that arm.
LEMMA PreparePc ==
    ASSUME Prepare
    PROVE  pc # "idle" /\ mach' = mach /\ pc' \notin ArmedPcs
  BY DEF Prepare, StatSources, MakeBuildDir, RemoveOldInitrd,
         CheckBuildSpace, MakeConfigDir, RunMkinitramfs, MeasureInitramfs,
         MakeGrubDir, CheckBootSpace, CopyToTemp, RenameInitrd, RemoveBuilt,
         ProbeBootFilesystem, WriteScriptTemp, RenameScript, MakeDir, Check,
         WriteTemporary, Commit, Committed, Rename, ArmedPcs, Goto, Abort,
         Return, Quiet, boot

\* A cleanup does not lead to the steps that arm.
LEMMA CleanPc ==
    ASSUME Clean
    PROVE  pc # "idle" /\ mach' = mach /\ (pc' = pc \/ pc' \notin ArmedPcs)
  <1> USE DEF ArmedPcs, Goto, Return, Quiet, boot
  <1>1. ASSUME NEW o \in Artifacts, PartialStep(o)
        PROVE pc # "idle" /\ mach' = mach /\ (pc' = pc \/ pc' \notin ArmedPcs)
    BY <1>1 DEF PartialStep, CleanupFrame
  <1>2. ASSUME NEW o \in Artifacts, CleanPath(o)
        PROVE pc # "idle" /\ mach' = mach /\ (pc' = pc \/ pc' \notin ArmedPcs)
    BY <1>2 DEF CleanPath, CleanupFrame
  <1>3. CASE PartialDone
    BY <1>3 DEF PartialDone
  <1>4. CASE Disarm
    BY <1>4 DEF Disarm, CleanCommand, CleanupFrame
  <1>5. CASE RefreshGrub
    BY <1>5 DEF RefreshGrub, CleanCommand, CleanupFrame
  <1>6. CASE CleanupDone
    BY <1>6 DEF CleanupDone, FallBack
  <1>q. QED
    BY <1>1, <1>2, <1>3, <1>4, <1>5, <1>6 DEF Clean

\* StageAndBoot reaches the steps that arm on a plain file system only.
LEMMA BootPc ==
    ASSUME Boot
    PROVE  /\ pc # "idle"
           /\ mach' = mach \/ (pc' = "idle" /\ via' = "kexec")
           /\ pc' \in ArmedPcs => (pc \in ArmedPcs \/ host.plain)
  <1> USE DEF ArmedPcs, Undo, BeginCleanup, Goto, Return, boot
  <1>1. CASE Sync
    BY <1>1 DEF Sync
  <1>2. CASE KexecLoad
    BY <1>2 DEF KexecLoad
  <1>3. CASE SystemctlKexec
    BY <1>3 DEF SystemctlKexec
  <1>4. CASE KexecExecute
    BY <1>4 DEF KexecExecute, EnterWriter
  <1>5. CASE KexecUnload
    BY <1>5 DEF KexecUnload
  <1>6. CASE UpdateGrub
    BY <1>6 DEF UpdateGrub
  <1>7. CASE ValidateGrubConfiguration
    BY <1>7 DEF ValidateGrubConfiguration, GrubCheck
  <1>8. CASE ValidateGrubStorage
    BY <1>8 DEF ValidateGrubStorage, GrubCheck
  <1>9. CASE ArmEntry
    BY <1>9 DEF ArmEntry, GrubReboot
  <1>10. CASE VerifyNextEntry
    BY <1>10 DEF VerifyNextEntry, GrubCheck
  <1>11. CASE SystemctlReboot
    BY <1>11 DEF SystemctlReboot
  <1>12. CASE RebootCommand
    BY <1>12 DEF RebootCommand
  <1>q. QED
    BY <1>1, <1>2, <1>3, <1>4, <1>5, <1>6, <1>7, <1>8, <1>9, <1>10,
          <1>11, <1>12 DEF Boot

\* GRUB leaves an armed entry behind only where it cannot clear it.
LEMMA BootedPlain ==
    ASSUME NEW f \in [Objects -> BOOLEAN], f["armed"] => host.plain,
           host.plain \in BOOLEAN, FirmwareBoot(f)
    PROVE  /\ MaybeArmed' => host.plain
           /\ via' = "grub" => ~now'["armed"]
  <1>1. unsynced' = {} /\ "armed" \in Objects
    BY DEF FirmwareBoot, Objects
  <1>2. CASE f["armed"] /\ f["cfgEntry"]
    <2>1. now' = [f EXCEPT !["armed"] = ~host.plain]
      BY <1>2 DEF FirmwareBoot
    <2>2. now'["armed"] = FALSE
      BY <1>1, <1>2, <2>1
    <2> QED BY <1>1, <2>2 DEF MaybeArmed
  <1>3. CASE ~(f["armed"] /\ f["cfgEntry"])
    <2>1. PICK b \in {FALSE, f["armed"]} : now' = [f EXCEPT !["armed"] = b]
      BY <1>3 DEF FirmwareBoot
    <2>2. now'["armed"] => host.plain
      BY <1>1, <2>1
    <2>3. via' = "none"
      BY <1>3 DEF FirmwareBoot
    <2> QED BY <1>1, <2>2, <2>3 DEF MaybeArmed
  <1> QED BY <1>2, <1>3

\* A step of the machine keeps PlainInv and OneShot.
LEMMA MachinePlain ==
    ASSUME DiskType, host.plain \in BOOLEAN, PlainInv, OneShot, Machine
    PROVE  PlainInv' /\ OneShot'
  <1>0. host' = host
    BY MachineFrame
  <1>1. ASSUME UNCHANGED disk, pc' = pc \/ pc' = "idle", UNCHANGED <<mach, via>>
        PROVE  PlainInv' /\ OneShot'
    BY <1>0, <1>1 DEF PlainInv, OneShot, MaybeArmed, Present, disk, ArmedPcs
  <1>2. ASSUME NEW f \in [Objects -> BOOLEAN], f["armed"] => MaybeArmed,
               pc' = "idle", FirmwareBoot(f)
        PROVE  PlainInv' /\ OneShot'
    <2>1. f["armed"] => host.plain
      BY <1>2 DEF PlainInv
    <2>2. (MaybeArmed' => host.plain) /\ (via' = "grub" => ~now'["armed"])
      BY <1>2, <2>1, BootedPlain
    <2> QED BY <1>0, <1>2, <2>2 DEF PlainInv, OneShot, Present, ArmedPcs
  <1>3. CASE Cancel
    BY <1>1, <1>3 DEF Cancel, boot
  <1>4. CASE Kill
    BY <1>1, <1>4 DEF Kill, Return, boot
  <1>5. CASE PowerLoss
    <2>1. PICK f \in Survivors : FirmwareBoot(f)
      BY <1>5 DEF PowerLoss
    <2>2. f \in [Objects -> BOOLEAN] /\ (f["armed"] => MaybeArmed)
      BY DEF Survivors, MaybeArmed, Objects
    <2> QED BY <1>2, <1>5, <2>1, <2>2 DEF PowerLoss
  <1>6. CASE Restart
    <2>1. CASE FirmwareBoot(now)
      BY <1>2, <1>6, <2>1 DEF Restart, DiskType, MaybeArmed
    <2>2. CASE EnterWriter("kexec") /\ now' = now /\ unsynced' = {}
      BY <1>0, <1>6, <2>2 DEF Restart, EnterWriter, PlainInv, OneShot, MaybeArmed, ArmedPcs
    <2> QED BY <1>6, <2>1, <2>2 DEF Restart
  <1>7. CASE WriterHalts
    BY <1>0, <1>7 DEF WriterHalts, PlainInv, OneShot, MaybeArmed, Present, disk, ArmedPcs
  <1>8. CASE WriterStartsWriting
    BY <1>1, <1>8 DEF WriterStartsWriting
  <1>9. CASE WriterFinishes
    BY <1>0, <1>9 DEF WriterFinishes, PlainInv, OneShot, MaybeArmed, Present, disk, ArmedPcs
  <1>10. CASE PowerCycle
    <2>0. pc = "idle" /\ pc' = pc
      BY <1>10 DEF PowerCycle, PlainInv
    <2>1. CASE FirmwareBoot(now)
      BY <1>2, <2>0, <2>1 DEF DiskType, MaybeArmed
    <2>2. CASE mach' = "dead" /\ UNCHANGED disk
      BY <1>0, <2>0, <2>2 DEF PlainInv, OneShot, MaybeArmed, disk, ArmedPcs
    <2> QED BY <1>10, <2>1, <2>2 DEF PowerCycle
  <1>11. CASE StartRun
    BY <1>0, <1>11 DEF StartRun, PlainInv, OneShot, MaybeArmed, ArmedPcs, disk, boot
  <1>12. CASE ManualRecovery
    <2>1. pc' = pc /\ pc = "idle" /\ mach' = mach /\ mach = "linux"
      BY <1>12 DEF ManualRecovery, boot
    <2>2. ~MaybeArmed'
      BY <1>12 DEF ManualRecovery, MaybeArmed, Objects, Temporaries, Dirs, Artifacts
    <2> QED BY <1>0, <2>1, <2>2 DEF PlainInv, OneShot, ArmedPcs
  <1> QED BY <1>3, <1>4, <1>5, <1>6, <1>7, <1>8, <1>9, <1>10, <1>11, <1>12 DEF Machine

\* A step of the installer keeps PlainInv and OneShot.
LEMMA InstallerPlain ==
    ASSUME DiskType, PlainInv, OneShot, Installer
    PROVE  PlainInv' /\ OneShot'
  <1>1. CASE Prepare
    <2>1. ArmsNothing /\ pc # "idle" /\ mach' = mach /\ pc' \notin ArmedPcs /\ host' = host
      BY <1>1, PrepareArms, PreparePc, PrepareFrame
    <2> QED BY <2>1 DEF PlainInv, OneShot, ArmsNothing
  <1>2. CASE Clean
    <2>1. ArmsNothing /\ pc # "idle" /\ mach' = mach /\ host' = host
      BY <1>2, CleanArms, CleanPc, CleanFrame
    <2>2. pc' = pc \/ pc' \notin ArmedPcs
      BY <1>2, CleanPc
    <2> QED BY <2>1, <2>2 DEF PlainInv, OneShot, ArmsNothing
  <1>3. CASE Boot
    <2>1. /\ pc # "idle" /\ host' = host
          /\ mach' = mach \/ (pc' = "idle" /\ via' = "kexec")
          /\ pc' \in ArmedPcs => host.plain
      BY <1>3, BootPc, BootFrame DEF PlainInv
    <2>2. MaybeArmed' => host.plain
      <3>1. CASE ArmEntry
        BY <3>1 DEF ArmEntry, GrubReboot, PlainInv, ArmedPcs
      <3>2. CASE ~ArmEntry
        BY <1>3, <3>2, BootArms DEF ArmsNothing, PlainInv
      <3> QED BY <3>1, <3>2
    <2> QED BY <2>1, <2>2 DEF PlainInv, OneShot
  <1> QED BY <1>1, <1>2, <1>3 DEF Installer

\* What OneShotHolds rests on, for later use.
LEMMA PlainAlways == Spec => [](PlainInv /\ OneShot)
  <1>1. Init => PlainInv /\ OneShot
    BY DEF Init, PlainInv, OneShot, MaybeArmed, ArmedPcs, Objects
  <1>2. TypeOK /\ PlainInv /\ OneShot /\ [Next]_vars => PlainInv' /\ OneShot'
    <2> SUFFICES ASSUME TypeOK, PlainInv, OneShot, [Next]_vars
                 PROVE  PlainInv' /\ OneShot'
      OBVIOUS
    <2>0. DiskType /\ host.plain \in BOOLEAN
      BY TypeParts, HostType
    <2>1. CASE Installer
      BY <2>0, <2>1, InstallerPlain
    <2>2. CASE Machine
      BY <2>0, <2>2, MachinePlain
    <2>3. CASE UNCHANGED vars
      BY <2>3 DEF PlainInv, OneShot, MaybeArmed, Present, vars, disk, boot, env
    <2> QED BY <2>1, <2>2, <2>3 DEF Next
  <1> QED BY <1>1, <1>2, TypeCorrect, PTL DEF Spec

\* The writer reached through GRUB is not booted a second time.
THEOREM OneShotHolds == Spec => []OneShot
  BY PlainAlways, PTL

----------------------------------------------------------------------------
(* Stage implements Handover: every step of the staging model is a step of   *)
(* the abstract specification or leaves its variables alone.                 *)

Excused == faulted \/ loadFailed

\* The steps between kexec -l and kexec -u, and those between grub-reboot and
\* the undoing of it.
InExec == pc \in {"queueKexec", "execKexec"} \/ (pc = "clean" /\ after = "exec")

InArm == pc \in {"verify", "queueReboot", "reboot"} \/ (pc = "clean" /\ "armed" \in todo)

\* grubenv is always synced, and Linux runs from an untouched disk.
Synced == "armed" \notin unsynced

Intact == mach \in {"linux", "stuck"} => target = "linux"

LoadedInv ==
    /\ InExec => loaded
    /\ (pc # "idle" /\ ~InExec /\ pc # "unload" /\ loaded) => ("loaded" \in stale \/ Excused)

ArmedInv ==
    /\ pc \in {"queueReboot", "reboot"} => Present("armed")
    /\ (pc # "idle" /\ ~InArm /\ Present("armed")) => ("armed" \in stale \/ Excused)

HandoverInv == Synced /\ Intact /\ LoadedInv /\ ArmedInv

----------------------------------------------------------------------------
(* What the small steps do to next_entry and to the history variables. *)

ArmedKept ==
    /\ Present("armed")' = Present("armed")
    /\ "armed" \in unsynced' => "armed" \in unsynced

StaleKept ==
    /\ "armed" \in stale' <=> "armed" \in stale
    /\ "loaded" \in stale' <=> "loaded" \in stale

FaultedGrows == faulted => faulted'

\* The machine goes on as it is.
MachineKept == mach' = mach /\ target' = target

LEMMA ChangeKeeps ==
    ASSUME DiskType, NEW f \in [Objects -> BOOLEAN], f["armed"] = now["armed"], Change(f)
    PROVE  ArmedKept
  BY DEF DiskType, Change, ArmedKept, Present

LEMMA SetKeeps ==
    ASSUME DiskType, NEW o, o # "armed", NEW b \in BOOLEAN, Set(o, b)
    PROVE  ArmedKept
  BY DEF DiskType, Set, Change, ArmedKept, Present

LEMMA DropKeeps ==
    ASSUME DiskType, NEW f \in [Objects -> BOOLEAN], f["armed"] = now["armed"],
           NEW x \in Temporaries, DropTemporary(x, f)
    PROVE  ArmedKept /\ StaleKept /\ FaultedGrows
  <1>0. x # "armed" /\ x # "loaded" /\ "armed" \in Objects
    BY DEF Temporaries, Objects
  <1>1. CASE Change([f EXCEPT ![x] = x \in stale]) /\ UNCHANGED <<stale, fail>>
    <2>1. [f EXCEPT ![x] = x \in stale] \in [Objects -> BOOLEAN]
      BY StaleExcept
    <2>2. [f EXCEPT ![x] = x \in stale]["armed"] = now["armed"]
      BY <1>0
    <2>3. ArmedKept
      BY <1>1, <2>1, <2>2, ChangeKeeps
    <2> QED BY <1>1, <2>3 DEF StaleKept, FaultedGrows, fail
  <1>2. CASE Change([f EXCEPT ![x] = TRUE]) /\ stale' = stale \cup {x} /\ Fault
    <2>1. [f EXCEPT ![x] = TRUE] \in [Objects -> BOOLEAN]
      OBVIOUS
    <2>2. [f EXCEPT ![x] = TRUE]["armed"] = now["armed"]
      BY <1>0
    <2>3. ArmedKept
      BY <1>2, <2>1, <2>2, ChangeKeeps
    <2>4. StaleKept
      BY <1>0, <1>2 DEF StaleKept
    <2> QED BY <1>2, <2>3, <2>4 DEF FaultedGrows, Fault
  <1> QED BY <1>1, <1>2 DEF DropTemporary

LEMMA RenameKeeps ==
    ASSUME DiskType, NEW x, NEW y, x # "armed", y # "armed",
           Change([now EXCEPT ![x] = TRUE, ![y] = y \in stale])
    PROVE  ArmedKept
  <1>1. [now EXCEPT ![x] = TRUE] \in [Objects -> BOOLEAN]
    BY DEF DiskType
  <1>2. [[now EXCEPT ![x] = TRUE] EXCEPT ![y] = y \in stale] \in [Objects -> BOOLEAN]
    BY <1>1, StaleExcept
  <1>3. [[now EXCEPT ![x] = TRUE] EXCEPT ![y] = y \in stale]["armed"] = now["armed"]
    BY DEF DiskType, Objects
  <1> QED BY <1>2, <1>3, ChangeKeeps

----------------------------------------------------------------------------
(* PrepareStage touches no grant; it goes on, or returns an error. *)

GrantsKept == ArmedKept /\ StaleKept /\ FaultedGrows /\ UNCHANGED <<loaded, loadFailed>>

LEMMA PrepareKeeps ==
    ASSUME DiskType, Prepare
    PROVE  GrantsKept /\ MachineKept
  <1> USE SetKeeps, DropKeeps
          DEF DiskType, Quiet, disk, boot, hist, fail, Temporaries, GrantsKept, MachineKept
  <1>0. ASSUME UNCHANGED hist PROVE StaleKept /\ FaultedGrows
    BY <1>0 DEF StaleKept, FaultedGrows
  <1>00. ASSUME UNCHANGED disk PROVE ArmedKept
    BY <1>00 DEF ArmedKept, Present
  <1>1. CASE StatSources
    BY <1>0, <1>00, <1>1 DEF StatSources
  <1>2. CASE MakeBuildDir
    BY <1>0, <1>00, <1>2 DEF MakeBuildDir, MakeDir
  <1>3. CASE RemoveOldInitrd
    BY <1>0, <1>00, <1>3 DEF RemoveOldInitrd
  <1>4. CASE CheckBuildSpace
    BY <1>0, <1>00, <1>4 DEF CheckBuildSpace, Check
  <1>5. CASE MakeConfigDir
    BY <1>0, <1>5 DEF MakeConfigDir, WriteTemporary
  <1>6. CASE RunMkinitramfs
    BY <1>6 DEF RunMkinitramfs, Objects
  <1>7. CASE MeasureInitramfs
    BY <1>0, <1>00, <1>7 DEF MeasureInitramfs
  <1>8. CASE MakeGrubDir
    BY <1>0, <1>00, <1>8 DEF MakeGrubDir, MakeDir
  <1>9. CASE CheckBootSpace
    BY <1>0, <1>00, <1>9 DEF CheckBootSpace, Check
  <1>10. CASE CopyToTemp
    BY <1>0, <1>10 DEF CopyToTemp, WriteTemporary
  <1>11. CASE RenameInitrd
    BY <1>0, <1>11, RenameKeeps DEF RenameInitrd, Rename
  <1>12. CASE RemoveBuilt
    BY <1>0, <1>00, <1>12 DEF RemoveBuilt
  <1>13. CASE ProbeBootFilesystem
    BY <1>0, <1>00, <1>13 DEF ProbeBootFilesystem
  <1>14. CASE WriteScriptTemp
    BY <1>0, <1>14 DEF WriteScriptTemp, WriteTemporary
  <1>15. CASE RenameScript
    BY <1>0, <1>15, RenameKeeps DEF RenameScript, Rename
  <1>q. QED
    BY <1>1, <1>2, <1>3, <1>4, <1>5, <1>6, <1>7, <1>8, <1>9, <1>10,
          <1>11, <1>12, <1>13, <1>14, <1>15 DEF Prepare

\* Where PrepareStage comes from and goes to.
PrepareMoves ==
    /\ pc \in PreparePcs
    /\ \/ pc' \in PreparePcs \cup {"partial", "sync", "updateGrub"} /\ result' = result
       \/ pc' = "idle" /\ result' = "err" /\ UNCHANGED <<faulted, loadFailed>>

LEMMA PrepareMoving ==
    ASSUME Prepare
    PROVE  PrepareMoves
  BY DEF Prepare, StatSources, MakeBuildDir, RemoveOldInitrd,
         CheckBuildSpace, MakeConfigDir, RunMkinitramfs, MeasureInitramfs,
         MakeGrubDir, CheckBootSpace, CopyToTemp, RenameInitrd, RemoveBuilt,
         ProbeBootFilesystem, WriteScriptTemp, RenameScript, MakeDir, Check,
         WriteTemporary, Commit, Committed, Rename, PreparePcs, Goto, Abort,
         Return, Quiet, hist, fail, PrepareMoves

----------------------------------------------------------------------------
(* The three things a step of the installer can be: work, an error returned,  *)
(* a success returned.                                                        *)

ExcusedGrows == Excused => Excused'

Working ==
    /\ pc # "idle" /\ pc' # "idle"
    /\ MachineKept /\ StaleKept /\ ExcusedGrows
    /\ loaded' = loaded \/ Present("armed")' = Present("armed")

Failing ==
    /\ pc # "idle" /\ pc' = "idle" /\ result' = "err"
    /\ MachineKept /\ StaleKept /\ UNCHANGED <<faulted, loadFailed, loaded>>
    /\ Present("armed")' = Present("armed")
    /\ loaded => ("loaded" \in stale \/ Excused)
    /\ Present("armed") => ("armed" \in stale \/ Excused)

Succeeding ==
    /\ pc # "idle" /\ pc' = "idle" /\ result' = "ok"
    /\ StaleKept /\ UNCHANGED <<faulted, loadFailed, target>>
    /\ Present("armed")' = Present("armed")
    /\ \/ mach' = mach /\ loaded' = loaded /\ (loaded \/ Present("armed"))
       \/ mach' = "writer" /\ loaded /\ ~loaded'

InstallerStep == HandoverInv' /\ (Working \/ Failing \/ Succeeding)

\* A step that keeps the grants and stays outside the steps that need them.
LEMMA OutsideSteps ==
    ASSUME HandoverInv, GrantsKept, MachineKept, pc # "idle", pc # "unload",
           ~InExec, ~InArm, pc' \notin {"unload", "queueReboot", "reboot"}, ~InExec'
    PROVE  HandoverInv'
  <1>1. Synced' /\ Intact'
    BY DEF HandoverInv, Synced, Intact, GrantsKept, ArmedKept, MachineKept
  <1>2. LoadedInv'
    BY DEF HandoverInv, LoadedInv, GrantsKept, StaleKept, FaultedGrows, Excused
  <1>3. ArmedInv'
    BY DEF HandoverInv, ArmedInv, GrantsKept, ArmedKept, StaleKept, FaultedGrows, Excused
  <1> QED BY <1>1, <1>2, <1>3 DEF HandoverInv

LEMMA PrepareSteps ==
    ASSUME DiskType, HandoverInv, Prepare
    PROVE  InstallerStep
  <1>1. GrantsKept /\ MachineKept /\ PrepareMoves
    BY PrepareKeeps, PrepareMoving
  <1>2. /\ pc \notin {"idle", "unload"} /\ ~InExec /\ ~InArm
        /\ pc' \notin {"unload", "queueReboot", "reboot"} /\ ~InExec'
    BY <1>1 DEF PrepareMoves, PreparePcs, InExec, InArm
  <1>3. HandoverInv'
    BY <1>1, <1>2, OutsideSteps
  <1>4. CASE pc' # "idle"
    BY <1>1, <1>2, <1>3, <1>4
       DEF InstallerStep, Working, GrantsKept, ArmedKept, ExcusedGrows, FaultedGrows, Excused
  <1>5. CASE pc' = "idle"
    <2>1. result' = "err" /\ UNCHANGED <<faulted, loadFailed>>
      BY <1>1, <1>5 DEF PrepareMoves, PreparePcs
    <2>2. /\ loaded => ("loaded" \in stale \/ Excused)
          /\ Present("armed") => ("armed" \in stale \/ Excused)
      BY <1>2 DEF HandoverInv, LoadedInv, ArmedInv
    <2> QED BY <1>1, <1>2, <1>3, <1>5, <2>1, <2>2 DEF InstallerStep, Failing, GrantsKept, ArmedKept
  <1> QED BY <1>4, <1>5

----------------------------------------------------------------------------
(* The two cleanups. *)

\* A step of a cleanup that removes o or gives it up.
RemoveFrame(o) ==
    /\ pc # "idle" /\ todo' = todo \ {o}
    /\ UNCHANGED <<pc, result, after, stale, loaded, loadFailed, mach, target>>

LEMMA RemoveKeeps ==
    ASSUME DiskType, NEW o \in Artifacts, RemovePath(o), CleanupFrame(o)
    PROVE  ArmedKept /\ FaultedGrows
  <1>1. o # "armed"
    BY DEF Artifacts, PayloadFiles, Dirs
  <1>2. FaultedGrows
    BY DEF RemovePath, FaultedGrows, fail, Fault
  <1>3. CASE UNCHANGED disk
    BY <1>2, <1>3 DEF disk, ArmedKept, Present
  <1>4. CASE Set(o, FALSE)
    BY <1>1, <1>2, <1>4, SetKeeps
  <1> QED BY <1>3, <1>4 DEF RemovePath

\* Removing anything but the armed entry keeps the invariant.
LEMMA RemoveSteps ==
    ASSUME HandoverInv, NEW o, o # "armed", RemoveFrame(o), ArmedKept, FaultedGrows
    PROVE  InstallerStep
  <1>0. StaleKept /\ MachineKept /\ ExcusedGrows
    BY DEF RemoveFrame, StaleKept, MachineKept, ExcusedGrows, Excused, FaultedGrows
  <1>1. (InExec' <=> InExec) /\ (InArm' <=> InArm)
    BY DEF RemoveFrame, InExec, InArm
  <1>2. Synced' /\ Intact'
    BY DEF HandoverInv, Synced, Intact, ArmedKept, RemoveFrame
  <1>3. LoadedInv'
    BY <1>0, <1>1 DEF HandoverInv, LoadedInv, RemoveFrame, StaleKept, ExcusedGrows
  <1>4. ArmedInv'
    BY <1>0, <1>1 DEF HandoverInv, ArmedInv, RemoveFrame, StaleKept, ExcusedGrows, ArmedKept
  <1>5. Working
    BY <1>0 DEF Working, RemoveFrame
  <1> QED BY <1>2, <1>3, <1>4, <1>5 DEF InstallerStep, HandoverInv

\* Unsetting next_entry, or failing to.
LEMMA DisarmSteps ==
    ASSUME DiskType, HandoverInv, Disarm
    PROVE  InstallerStep
  <1>0. "armed" \in Objects
    BY DEF Objects
  <1>1. pc = "clean" /\ RemoveFrame("armed")
    BY DEF Disarm, CleanCommand, CleanupFrame, RemoveFrame, boot
  <1>2. StaleKept /\ MachineKept
    BY <1>1 DEF RemoveFrame, StaleKept, MachineKept
  <1>3. (InExec' <=> InExec) /\ ~InArm'
    BY <1>1 DEF RemoveFrame, InExec, InArm
  <1>4. CASE SetArmed(FALSE)
    <2>1. ~Present("armed")' /\ Synced'
      BY <1>0, <1>4 DEF SetArmed, Present, Synced, DiskType
    <2>2. ExcusedGrows
      BY DEF Disarm, CleanCommand, CleanupFrame, Fault, fail, ExcusedGrows, Excused
    <2>3. LoadedInv'
      BY <1>1, <1>2, <1>3, <2>2 DEF HandoverInv, LoadedInv, RemoveFrame, StaleKept, ExcusedGrows
    <2>4. Intact' /\ ArmedInv'
      BY <1>1, <1>2, <2>1 DEF HandoverInv, Intact, ArmedInv, RemoveFrame, MachineKept
    <2> QED BY <1>1, <1>2, <2>1, <2>2, <2>3, <2>4 DEF InstallerStep, HandoverInv, Working, RemoveFrame
  <1>5. CASE UNCHANGED disk /\ Fault
    <2>1. Excused' /\ ExcusedGrows
      BY <1>5 DEF Fault, Excused, ExcusedGrows
    <2>2. Synced' /\ Intact'
      BY <1>1, <1>5 DEF HandoverInv, Synced, Intact, RemoveFrame, disk
    <2>3. LoadedInv' /\ ArmedInv'
      BY <1>1, <1>3, <1>5, <2>1 DEF HandoverInv, LoadedInv, ArmedInv, RemoveFrame
    <2> QED BY <1>1, <1>2, <2>1, <2>2, <2>3 DEF InstallerStep, HandoverInv, Working, RemoveFrame
  <1> QED BY <1>4, <1>5 DEF Disarm, CleanCommand

LEMMA CleanSteps ==
    ASSUME DiskType, HandoverInv, Clean
    PROVE  InstallerStep
  <1>1. ASSUME NEW o \in Artifacts, PartialStep(o) \/ CleanPath(o) PROVE InstallerStep
    <2>1. RemoveFrame(o) /\ o # "armed"
      BY <1>1 DEF PartialStep, CleanPath, CleanupFrame, RemoveFrame, boot, Artifacts, PayloadFiles, Dirs
    <2>2. ArmedKept /\ FaultedGrows
      BY <1>1, RemoveKeeps DEF PartialStep, CleanPath
    <2> QED BY <2>1, <2>2, RemoveSteps
  <1>2. CASE PartialDone
    <2>1. /\ pc = "partial" /\ pc' = "idle" /\ result' = "err"
          /\ UNCHANGED <<boot, hist, disk>>
      BY <1>2 DEF PartialDone, Return, Quiet
    <2>2. MachineKept /\ StaleKept /\ GrantsKept /\ UNCHANGED <<faulted, loadFailed, loaded>>
      BY <2>1 DEF boot, hist, fail, disk, MachineKept, StaleKept, GrantsKept, ArmedKept,
                  FaultedGrows, Present
    <2>3. ~InExec /\ ~InArm /\ ~InExec'
      BY <2>1 DEF InExec, InArm
    <2>4. HandoverInv'
      BY <2>1, <2>2, <2>3, OutsideSteps
    <2>5. Failing
      BY <2>1, <2>2, <2>3 DEF Failing, GrantsKept, ArmedKept, HandoverInv, LoadedInv, ArmedInv
    <2> QED BY <2>4, <2>5 DEF InstallerStep
  <1>3. CASE Disarm
    BY <1>3, DisarmSteps
  <1>4. CASE RefreshGrub
    <2>1. RemoveFrame("cfgEntry")
      BY <1>4 DEF RefreshGrub, CleanCommand, CleanupFrame, RemoveFrame, boot
    <2>2. ArmedKept /\ FaultedGrows
      BY <1>4, SetKeeps, RegeneratedType
         DEF RefreshGrub, CleanCommand, FaultedGrows, fail, Fault, DiskType, Present, Objects
    <2> QED BY <2>1, <2>2, RemoveSteps
  <1>5. CASE CleanupDone
    <2>1. pc = "clean" /\ todo = {} /\ UNCHANGED <<boot, hist, disk>>
      BY <1>5 DEF CleanupDone
    <2>2. MachineKept /\ StaleKept /\ ArmedKept /\ ExcusedGrows /\ UNCHANGED <<faulted, loadFailed, loaded>>
      BY <2>1 DEF boot, hist, fail, disk, MachineKept, StaleKept, ArmedKept, ExcusedGrows,
                  Excused, Present
    <2>3. Synced' /\ Intact' /\ ~InArm /\ ~InArm'
      <3>1. ~InArm /\ Synced' /\ Intact'
        BY <2>1, <2>2 DEF HandoverInv, Synced, Intact, InArm, ArmedKept, MachineKept
      <3>2. ~InArm'
        BY <1>5, <2>1 DEF CleanupDone, InArm, Return, Goto, FallBack
      <3> QED BY <3>1, <3>2
    <2>4. ArmedInv'
      BY <2>1, <2>2, <2>3 DEF HandoverInv, ArmedInv, InArm, StaleKept, ArmedKept, ExcusedGrows
    <2>5. CASE after # "exec"
      <3>1. ~InExec /\ ~InExec' /\ pc' # "unload"
        BY <1>5, <2>1, <2>5 DEF CleanupDone, InExec, Return, Goto, FallBack
      <3>2. LoadedInv'
        BY <2>1, <2>2, <3>1 DEF HandoverInv, LoadedInv, StaleKept, ExcusedGrows
      <3>3. Working \/ Failing
        <4>1. \/ pc' = "idle" /\ result' = "err"
              \/ pc' # "idle"
          BY <1>5, <2>5 DEF CleanupDone, Return, Goto, FallBack
        <4> QED BY <2>1, <2>2, <2>3, <3>1, <4>1
                DEF Working, Failing, HandoverInv, LoadedInv, ArmedInv, ArmedKept
      <3> QED BY <2>3, <2>4, <3>2, <3>3 DEF InstallerStep, HandoverInv
    <2>6. CASE after = "exec"
      <3>1. loaded /\ pc' \in {"unload", "queueKexec"}
        BY <1>5, <2>1, <2>6 DEF CleanupDone, Goto, HandoverInv, LoadedInv, InExec
      <3>2. LoadedInv' /\ Working
        BY <2>1, <2>2, <3>1 DEF LoadedInv, InExec, Working
      <3> QED BY <2>3, <2>4, <3>2 DEF InstallerStep, HandoverInv
    <2> QED BY <2>5, <2>6
  <1> QED BY <1>1, <1>2, <1>3, <1>4, <1>5 DEF Clean

----------------------------------------------------------------------------
(* StageAndBoot, executeKexec, executeGRUB. *)

\* A step of the GRUB stage before next_entry is touched, and Sync.
LEMMA QuietSteps ==
    ASSUME HandoverInv, ArmedKept, UNCHANGED <<boot, hist>>, pc # "idle", pc # "unload",
           ~InExec, ~InArm, pc' \notin {"idle", "unload", "queueReboot", "reboot"}, ~InExec'
    PROVE  InstallerStep
  <1>1. GrantsKept /\ MachineKept /\ ExcusedGrows
    BY DEF boot, hist, fail, GrantsKept, MachineKept, StaleKept, FaultedGrows, ExcusedGrows, Excused
  <1>2. HandoverInv'
    BY <1>1, OutsideSteps
  <1>3. Working
    BY <1>1 DEF Working, GrantsKept
  <1> QED BY <1>2, <1>3 DEF InstallerStep

\* A step of executeGRUB after grub-reboot, when it fails: the entry will be
\* unset.
LEMMA UndoSteps ==
    ASSUME HandoverInv, ArmedKept, UNCHANGED <<loaded, mach, target, hist>>,
           pc # "idle", pc # "unload", ~InExec, Undo({"armed", "cfgEntry"})
    PROVE  InstallerStep
  <1>1. pc' = "clean" /\ after' = "return" /\ "armed" \in todo'
    BY DEF Undo, BeginCleanup
  <1>2. MachineKept /\ StaleKept /\ ExcusedGrows
    BY DEF hist, fail, MachineKept, StaleKept, ExcusedGrows, Excused
  <1>3. Synced' /\ Intact' /\ ArmedInv'
    BY <1>1 DEF HandoverInv, Synced, Intact, ArmedInv, InArm, ArmedKept
  <1>4. LoadedInv'
    BY <1>1, <1>2 DEF HandoverInv, LoadedInv, InExec, StaleKept, ExcusedGrows
  <1>5. Working
    BY <1>1, <1>2 DEF Working
  <1> QED BY <1>3, <1>4, <1>5 DEF InstallerStep, HandoverInv

LEMMA ArmSteps ==
    ASSUME DiskType, HandoverInv, ArmEntry
    PROVE  InstallerStep
  <1>0. "armed" \in Objects
    BY DEF Objects
  <1>1. pc = "arm" /\ ~InExec /\ ~InArm /\ UNCHANGED <<boot, hist>>
    BY DEF ArmEntry, GrubReboot, InExec, InArm
  <1>2. /\ pc' = "verify" \/ (pc' = "clean" /\ after' = "return" /\ "armed" \in todo')
    BY DEF ArmEntry, GrubReboot, Goto, Undo, BeginCleanup
  <1>3. MachineKept /\ StaleKept /\ ExcusedGrows /\ loaded' = loaded
    BY <1>1 DEF boot, hist, fail, MachineKept, StaleKept, ExcusedGrows, Excused
  <1>4. Synced'
    BY <1>0 DEF ArmEntry, GrubReboot, SetArmed, disk, HandoverInv, Synced
  <1>5. Intact' /\ ArmedInv'
    BY <1>2, <1>3 DEF HandoverInv, Intact, ArmedInv, InArm, MachineKept
  <1>6. LoadedInv'
    BY <1>1, <1>2, <1>3 DEF HandoverInv, LoadedInv, InExec, StaleKept, ExcusedGrows
  <1>7. Working
    BY <1>1, <1>2, <1>3 DEF Working
  <1> QED BY <1>4, <1>5, <1>6, <1>7 DEF InstallerStep, HandoverInv

\* Verifying the entry, and asking for the reboot.
LEMMA RebootSteps ==
    ASSUME DiskType, HandoverInv, VerifyNextEntry \/ SystemctlReboot \/ RebootCommand
    PROVE  InstallerStep
  <1>1. pc \in {"verify", "queueReboot", "reboot"} /\ ~InExec
    BY DEF VerifyNextEntry, GrubCheck, SystemctlReboot, RebootCommand, InExec
  <1>2. UNCHANGED <<disk, loaded, mach, target, hist>>
    BY DEF VerifyNextEntry, GrubCheck, SystemctlReboot, RebootCommand, boot
  <1>3. ArmedKept /\ MachineKept /\ StaleKept /\ ExcusedGrows
    BY <1>2 DEF disk, hist, fail, ArmedKept, Present, MachineKept, StaleKept, ExcusedGrows, Excused
  <1>4. CASE Undo({"armed", "cfgEntry"})
    BY <1>1, <1>2, <1>3, <1>4, UndoSteps
  <1>5. CASE pc' \in {"queueReboot", "reboot"} /\ Present("armed")
    <2>1. HandoverInv'
      BY <1>1, <1>2, <1>3, <1>5
         DEF HandoverInv, Synced, Intact, LoadedInv, ArmedInv, InExec, InArm, ArmedKept,
             MachineKept, StaleKept, ExcusedGrows
    <2> QED BY <1>1, <1>2, <1>3, <1>5, <2>1 DEF InstallerStep, Working
  <1>6. CASE pc' = "idle" /\ result' = "ok" /\ Present("armed")
    <2>1. HandoverInv'
      BY <1>2, <1>3, <1>6
         DEF HandoverInv, Synced, Intact, LoadedInv, ArmedInv, InExec, InArm, ArmedKept, MachineKept
    <2> QED BY <1>1, <1>2, <1>3, <1>6, <2>1
            DEF InstallerStep, Succeeding, ArmedKept, hist, fail
  <1> QED
    BY <1>1, <1>4, <1>5, <1>6
       DEF VerifyNextEntry, GrubCheck, SystemctlReboot, RebootCommand, Goto, Return,
           HandoverInv, ArmedInv

\* Loading a kernel, starting it, and unloading it again.
LEMMA KexecSteps ==
    ASSUME DiskType, HandoverInv, PlainInv, KexecLoad \/ SystemctlKexec \/ KexecExecute \/ KexecUnload
    PROVE  InstallerStep
  <1>0. pc # "idle" /\ ~InArm /\ ~InArm' /\ pc' \notin {"queueReboot", "reboot"}
    BY DEF KexecLoad, SystemctlKexec, KexecExecute, KexecUnload, InArm, Goto, Return,
           BeginCleanup, StageObjects
  <1>1. ArmedKept /\ StaleKept /\ ExcusedGrows
    BY DEF KexecLoad, SystemctlKexec, KexecExecute, KexecUnload, ArmedKept, StaleKept,
           ExcusedGrows, Excused, disk, hist, fail, Fault, Present
  <1>2. Synced' /\ ArmedInv'
    BY <1>0, <1>1 DEF HandoverInv, Synced, ArmedInv, ArmedKept, StaleKept, ExcusedGrows
  <1>3. CASE KexecLoad
    <2>1. pc = "load" /\ pc' = "clean" /\ MachineKept
      BY <1>3 DEF KexecLoad, BeginCleanup, MachineKept
    <2>2. LoadedInv'
      BY <1>1, <1>3, <2>1
         DEF KexecLoad, BeginCleanup, HandoverInv, LoadedInv, InExec, StaleKept, ExcusedGrows, Excused
    <2> QED BY <1>1, <1>2, <2>1, <2>2
            DEF InstallerStep, Working, HandoverInv, Intact, MachineKept, ArmedKept
  <1>4. CASE SystemctlKexec
    <2>1. pc = "queueKexec" /\ loaded /\ loaded' = loaded /\ MachineKept
      BY <1>4 DEF SystemctlKexec, MachineKept, HandoverInv, LoadedInv, InExec
    <2>2. \/ pc' = "execKexec"
          \/ pc' = "idle" /\ result' = "ok" /\ UNCHANGED <<faulted, loadFailed>>
      BY <1>4 DEF SystemctlKexec, Goto, Return, hist, fail
    <2>3. LoadedInv' /\ Intact'
      BY <2>1, <2>2 DEF LoadedInv, InExec, HandoverInv, Intact, MachineKept
    <2> QED BY <1>0, <1>1, <1>2, <2>1, <2>2, <2>3
            DEF InstallerStep, Working, Succeeding, HandoverInv, ArmedKept, MachineKept
  <1>5. CASE KexecExecute
    <2>1. pc = "execKexec" /\ loaded /\ target' = target
      BY <1>5 DEF KexecExecute, boot, HandoverInv, LoadedInv, InExec
    <2>2. CASE pc' = "unload" /\ UNCHANGED boot
      BY <1>0, <1>1, <1>2, <2>1, <2>2
         DEF boot, InstallerStep, Working, HandoverInv, LoadedInv, Intact, InExec, MachineKept
    <2>3. CASE pc' = "idle" /\ result' = "ok" /\ mach' = "writer" /\ loaded' = FALSE
      <3>1. UNCHANGED <<faulted, loadFailed>>
        BY <1>5 DEF KexecExecute, hist, fail
      <3>2. LoadedInv' /\ Intact'
        BY <2>3 DEF LoadedInv, InExec, Intact
      <3> QED BY <1>0, <1>1, <1>2, <2>1, <2>3, <3>1, <3>2
              DEF InstallerStep, Succeeding, HandoverInv, ArmedKept
    <2> QED BY <1>5, <2>2, <2>3 DEF KexecExecute, Goto, Return, EnterWriter
  <1>6. CASE KexecUnload
    <2>1. pc = "unload" /\ pc' = "clean" /\ after' = "decide" /\ MachineKept
      BY <1>6 DEF KexecUnload, BeginCleanup, MachineKept
    <2>2. ~loaded' \/ Excused'
      BY <1>6 DEF KexecUnload, Fault, Excused
    <2>3. LoadedInv'
      BY <2>1, <2>2 DEF LoadedInv, InExec
    <2> QED BY <1>1, <1>2, <2>1, <2>3
            DEF InstallerStep, Working, HandoverInv, Intact, MachineKept, ArmedKept
  <1> QED BY <1>3, <1>4, <1>5, <1>6

LEMMA BootSteps ==
    ASSUME DiskType, HandoverInv, PlainInv, Boot
    PROVE  InstallerStep
  <1>0. ASSUME UNCHANGED now, unsynced' \subseteq unsynced PROVE ArmedKept
    BY <1>0 DEF ArmedKept, Present
  <1>1. CASE Sync
    <2>1. pc = "sync" /\ ArmedKept /\ UNCHANGED <<boot, hist>>
      BY <1>0, <1>1 DEF Sync, disk, DiskType
    <2>2. pc' \in {"load", "updateGrub"} \/ (pc' = "clean" /\ after' = "return")
      BY <1>1 DEF Sync, Goto, BeginCleanup
    <2> QED BY <2>1, <2>2, QuietSteps DEF InExec, InArm
  <1>2. CASE KexecLoad \/ SystemctlKexec \/ KexecExecute \/ KexecUnload
    BY <1>2, KexecSteps
  <1>3. CASE UpdateGrub
    <2>1. pc = "updateGrub" /\ UNCHANGED <<boot, hist>>
      BY <1>3 DEF UpdateGrub
    <2>2. ArmedKept
      BY <1>0, <1>3, SetKeeps, RegeneratedType DEF UpdateGrub, disk, DiskType, Present, Objects
    <2>3. pc' = "checkConfig" \/ (pc' = "clean" /\ after' = "return")
      BY <1>3 DEF UpdateGrub, Goto, Undo, BeginCleanup
    <2> QED BY <2>1, <2>2, <2>3, QuietSteps DEF InExec, InArm
  <1>4. CASE ValidateGrubConfiguration \/ ValidateGrubStorage
    <2>1. pc \in {"checkConfig", "checkStorage"} /\ ArmedKept /\ UNCHANGED <<boot, hist>>
      BY <1>0, <1>4 DEF ValidateGrubConfiguration, ValidateGrubStorage, GrubCheck, disk
    <2>2. pc' \in {"checkStorage", "arm"} \/ (pc' = "clean" /\ after' = "return")
      BY <1>4 DEF ValidateGrubConfiguration, ValidateGrubStorage, GrubCheck, Goto, Undo, BeginCleanup
    <2> QED BY <2>1, <2>2, QuietSteps DEF InExec, InArm
  <1>5. CASE ArmEntry
    BY <1>5, ArmSteps
  <1>6. CASE VerifyNextEntry \/ SystemctlReboot \/ RebootCommand
    BY <1>6, RebootSteps
  <1> QED BY <1>1, <1>2, <1>3, <1>4, <1>5, <1>6 DEF Boot

----------------------------------------------------------------------------
(* Each step of the installer is a step of Handover. *)

\* What the variables of Handover stand for here.
AbsMachine == IF mach \in {"halted", "stuck", "dead"} THEN "down" ELSE mach

AbsRun == IF pc = "idle" THEN result ELSE "on"

AbsGrants == GrantsOf(loaded, Present("armed"))

AbsInherited == GrantsOf("loaded" \in stale, "armed" \in stale)

LEMMA GrantsElements ==
    ASSUME NEW k \in BOOLEAN, NEW a \in BOOLEAN
    PROVE  /\ "kexec" \in GrantsOf(k, a) <=> k
           /\ "grub" \in GrantsOf(k, a) <=> a
           /\ GrantsOf(k, a) \subseteq {"kexec", "grub"}
  BY DEF GrantsOf

\* Grants are equal when they have the same parts.
LEMMA GrantsType ==
    ASSUME TypeOK
    PROVE  loaded \in BOOLEAN /\ Present("armed") \in BOOLEAN
  BY DEF TypeOK, Present, Objects

LEMMA WorkRefines ==
    ASSUME TypeOK, TypeOK', PlainInv, Working
    PROVE  Abstract!Work
  <1>1. /\ loaded \in BOOLEAN /\ Present("armed") \in BOOLEAN
        /\ loaded' \in BOOLEAN /\ Present("armed")' \in BOOLEAN
    BY GrantsType DEF TypeOK, Present, Objects
  <1>2. /\ "kexec" \in AbsGrants <=> loaded
        /\ "grub" \in AbsGrants <=> Present("armed")
        /\ AbsGrants \subseteq {"kexec", "grub"}
    BY <1>1, GrantsElements DEF AbsGrants
  <1>3. /\ "kexec" \in AbsGrants' <=> loaded'
        /\ "grub" \in AbsGrants' <=> Present("armed")'
        /\ AbsGrants' \subseteq {"kexec", "grub"}
    BY <1>1, GrantsElements DEF AbsGrants
  <1>4. \E g \in {"kexec", "grub"} :
            AbsGrants' \in {AbsGrants, AbsGrants \cup {g}, AbsGrants \ {g}}
    <2>1. CASE Present("armed")' = Present("armed")
      BY <1>2, <1>3, <2>1
    <2>2. CASE loaded' = loaded
      BY <1>2, <1>3, <2>2
    <2> QED BY <2>1, <2>2 DEF Working
  <1>5. AbsMachine = "linux" /\ AbsMachine' = AbsMachine /\ target' = target
    BY DEF Working, PlainInv, MachineKept, AbsMachine
  <1>6. AbsRun = "on" /\ AbsRun' = AbsRun
    BY DEF Working, AbsRun
  <1>7. AbsInherited' = AbsInherited
    BY DEF Working, StaleKept, AbsInherited, GrantsOf
  <1>8. Excused' \in {Excused, TRUE}
    BY DEF Working, ExcusedGrows, TypeOK, Excused
  <1> QED
    BY <1>4, <1>5, <1>6, <1>7, <1>8
       DEF Abstract!Work, Abstract!Grants, AbsMachine, AbsRun, AbsGrants, AbsInherited, Excused

LEMMA FailRefines ==
    ASSUME TypeOK, PlainInv, Failing
    PROVE  Abstract!Fail
  <1>1. loaded \in BOOLEAN /\ Present("armed") \in BOOLEAN
    BY GrantsType
  <1>2. AbsGrants \subseteq AbsInherited \/ Excused
    BY <1>1 DEF Failing, AbsGrants, AbsInherited, GrantsOf
  <1>3. AbsMachine = "linux" /\ AbsMachine' = AbsMachine /\ target' = target
    BY DEF Failing, PlainInv, MachineKept, AbsMachine
  <1>4. AbsRun = "on" /\ AbsRun' = "err"
    BY DEF Failing, AbsRun
  <1>5. AbsInherited' = AbsInherited /\ AbsGrants' = AbsGrants
    BY DEF Failing, StaleKept, AbsInherited, AbsGrants, GrantsOf
  <1>6. Excused' = Excused
    BY DEF Failing, Excused
  <1> QED
    BY <1>2, <1>3, <1>4, <1>5, <1>6
       DEF Abstract!Fail, AbsMachine, AbsRun, AbsGrants, AbsInherited, Excused

LEMMA SucceedRefines ==
    ASSUME TypeOK, TypeOK', PlainInv, Intact, Succeeding
    PROVE  Abstract!Succeed \/ Abstract!Redeem
  <1>1. /\ loaded \in BOOLEAN /\ Present("armed") \in BOOLEAN
        /\ loaded' \in BOOLEAN /\ Present("armed")' \in BOOLEAN
    BY GrantsType DEF TypeOK, Present, Objects
  <1>2. /\ AbsRun = "on" /\ AbsRun' = "ok" /\ AbsMachine = "linux"
        /\ target' = target /\ target = "linux"
    BY DEF Succeeding, PlainInv, Intact, AbsRun, AbsMachine
  <1>3. AbsInherited' = AbsInherited /\ Excused' = Excused
    BY DEF Succeeding, StaleKept, AbsInherited, GrantsOf, Excused
  <1>4. CASE mach' = mach /\ loaded' = loaded /\ (loaded \/ Present("armed"))
    <2>1. AbsGrants # {} /\ AbsGrants' = AbsGrants /\ AbsMachine' = AbsMachine
      BY <1>4 DEF Succeeding, AbsGrants, GrantsOf, AbsMachine
    <2> QED BY <1>2, <1>3, <2>1
            DEF Abstract!Succeed, AbsMachine, AbsRun, AbsGrants, AbsInherited, Excused
  <1>5. CASE mach' = "writer" /\ loaded /\ ~loaded'
    <2>1. AbsMachine' = "writer" /\ "kexec" \in AbsGrants /\ AbsGrants' \subseteq AbsGrants \ {"kexec"}
      BY <1>5 DEF Succeeding, AbsGrants, GrantsOf, AbsMachine
    <2> QED BY <1>2, <1>3, <2>1
            DEF Abstract!Redeem, AbsMachine, AbsRun, AbsGrants, AbsInherited, Excused
  <1> QED BY <1>4, <1>5 DEF Succeeding

----------------------------------------------------------------------------
(* The machine. *)

\* A start of the machine from f: into the writer, by the armed entry which is
\* then unset, or elsewhere.
LEMMA BootRefines ==
    ASSUME TypeOK, TypeOK', Synced, NEW f \in [Objects -> BOOLEAN], f["armed"] => Present("armed"),
           Present("armed") => host.plain, host.plain \in BOOLEAN,
           FirmwareBoot(f), pc' = "idle", mach # "chr", target = "linux",
           UNCHANGED <<stale, faulted, loadFailed>>,
           result' \in {"none", IF pc = "idle" THEN result ELSE "none"}
    PROVE  /\ Abstract!Withdraw \/ Abstract!Redeem
           /\ Synced' /\ target' = "linux"
  <1>1. /\ loaded \in BOOLEAN /\ Present("armed") \in BOOLEAN
        /\ loaded' = FALSE /\ Present("armed")' \in BOOLEAN
    BY GrantsType DEF TypeOK, Present, Objects, FirmwareBoot
  <1>2. target' = target /\ Synced'
    BY DEF FirmwareBoot, Synced
  <1>3. AbsInherited' = AbsInherited /\ Excused' = Excused
    BY DEF AbsInherited, Excused
  <1>4. AbsRun' \in {AbsRun, "none"} /\ AbsRun' # "on"
    BY DEF AbsRun, TypeOK
  <1>5. AbsMachine # "chr"
    BY DEF AbsMachine
  <1>6. CASE f["armed"] /\ f["cfgEntry"]
    <2>1. now' = [f EXCEPT !["armed"] = ~host.plain] /\ mach' \in {"writer", "stuck"}
      BY <1>6 DEF FirmwareBoot, EnterWriter
    <2>2. Present("armed") /\ ~Present("armed")'
      BY <1>6, <2>1 DEF Present, Objects
    <2>3. "grub" \in AbsGrants /\ AbsGrants' \subseteq AbsGrants \ {"grub"}
      BY <1>1, <2>2 DEF AbsGrants, GrantsOf
    <2>4. AbsMachine' \in {"writer", "down"}
      BY <2>1 DEF AbsMachine
    <2> QED BY <1>2, <1>3, <1>4, <1>5, <2>3, <2>4
            DEF Abstract!Withdraw, Abstract!Redeem, Abstract!Interrupted,
                AbsMachine, AbsRun, AbsGrants, AbsInherited, Excused
  <1>7. CASE ~(f["armed"] /\ f["cfgEntry"])
    <2>1. PICK b \in {FALSE, f["armed"]} : now' = [f EXCEPT !["armed"] = b]
      BY <1>7 DEF FirmwareBoot
    <2>2. Present("armed")' => Present("armed")
      BY <2>1 DEF Present, Objects
    <2>3. AbsGrants' \subseteq AbsGrants
      BY <1>1, <2>2 DEF AbsGrants, GrantsOf
    <2>4. AbsMachine' = "linux"
      BY <1>7 DEF FirmwareBoot, AbsMachine
    <2> QED BY <1>2, <1>3, <1>4, <1>5, <2>3, <2>4
            DEF Abstract!Withdraw, Abstract!Interrupted,
                AbsMachine, AbsRun, AbsGrants, AbsInherited, Excused
  <1> QED BY <1>6, <1>7

\* Steps of the machine that leave the installer's grants alone.
LEMMA OtherRefines ==
    ASSUME TypeOK, TypeOK', PlainInv, HandoverInv,
           Cancel \/ Kill \/ WriterHalts \/ WriterStartsWriting \/ WriterFinishes \/ StartRun
    PROVE  HandoverInv' /\ [Abstract!Next]_Abstract!vars
  <1>0. Synced /\ Intact
    BY DEF HandoverInv
  <1>1. CASE Cancel
    <2>1. UNCHANGED <<pc, todo, result, after, now, unsynced, loaded, mach, target,
                      stale, faulted, loadFailed>>
      BY <1>1 DEF Cancel, disk, boot, hist, fail
    <2>2. HandoverInv'
      BY <2>1 DEF HandoverInv, Synced, Intact, LoadedInv, ArmedInv, InExec, InArm, Present, Excused
    <2>3. UNCHANGED Abstract!vars
      BY <2>1 DEF Abstract!vars, Present
    <2> QED BY <2>2, <2>3
  <1>2. CASE Kill
    <2>1. /\ pc # "idle" /\ pc' = "idle" /\ result' = "none" /\ mach = "linux"
          /\ UNCHANGED <<now, unsynced, loaded, mach, target, stale, faulted, loadFailed>>
      BY <1>2 DEF Kill, Return, disk, boot, hist, fail, PlainInv
    <2>2. HandoverInv'
      BY <1>0, <2>1 DEF HandoverInv, Synced, Intact, LoadedInv, ArmedInv, InExec, InArm
    <2>3. Abstract!Withdraw
      BY <1>0, <2>1 DEF Intact, Abstract!Withdraw, Abstract!Interrupted, Present
    <2> QED BY <2>2, <2>3 DEF Abstract!Next
  <1>3. CASE WriterHalts \/ WriterStartsWriting \/ WriterFinishes
    <2>1. /\ mach = "writer" /\ mach' \notin {"linux", "stuck"}
          /\ UNCHANGED <<pc, result, now, unsynced, loaded, stale, faulted, loadFailed>>
      BY <1>3 DEF WriterHalts, WriterStartsWriting, WriterFinishes, disk, hist, fail
    <2>2. pc = "idle"
      BY <2>1 DEF PlainInv
    <2>3. HandoverInv'
      BY <1>0, <2>1, <2>2 DEF HandoverInv, Synced, Intact, LoadedInv, ArmedInv, InExec, InArm
    <2>4. Abstract!Stop \/ Abstract!Overwrite \/ Abstract!Finish
      BY <1>3, <2>1 DEF WriterHalts, WriterStartsWriting, WriterFinishes,
                        Abstract!Stop, Abstract!Overwrite, Abstract!Finish, Present
    <2> QED BY <2>3, <2>4 DEF Abstract!Next
  <1>4. CASE StartRun
    <2>1. /\ mach = "linux" /\ pc = "idle" /\ pc' = "stat"
          /\ faulted' = FALSE /\ loadFailed' = FALSE
          /\ UNCHANGED <<now, unsynced, loaded, mach, target>>
      BY <1>4 DEF StartRun, disk, boot
    <2>2. /\ "loaded" \in stale' <=> loaded
          /\ "armed" \in stale' <=> Present("armed")
      BY <1>4 DEF StartRun, Objects, Artifacts, PayloadFiles, Dirs, Temporaries, Present
    <2>3. HandoverInv'
      BY <1>0, <2>1, <2>2
         DEF HandoverInv, Synced, Intact, LoadedInv, ArmedInv, InExec, InArm, Present
    <2>4. AbsInherited' = AbsGrants /\ AbsGrants' = AbsGrants
      BY <2>1, <2>2 DEF AbsInherited, AbsGrants, GrantsOf, Present
    <2>5. Excused' = FALSE
      BY <2>1 DEF Excused
    <2>6. Abstract!Begin
      BY <2>1, <2>4, <2>5 DEF Abstract!Begin, AbsInherited, AbsGrants, Excused, TypeOK
    <2> QED BY <2>3, <2>6 DEF Abstract!Next
  <1> QED BY <1>1, <1>2, <1>3, <1>4

\* A power loss, an orderly restart, a reset.
LEMMA StartRefines ==
    ASSUME TypeOK, TypeOK', PlainInv, HandoverInv, PowerLoss \/ Restart \/ PowerCycle
    PROVE  HandoverInv' /\ [Abstract!Next]_Abstract!vars
  <1>0. Synced /\ Intact /\ (Present("armed") => host.plain) /\ host.plain \in BOOLEAN
    <2>1. host.plain \in BOOLEAN
      BY HostType, TypeParts
    <2> QED BY <2>1 DEF HandoverInv, PlainInv, MaybeArmed, Present
  <1>1. pc' = "idle" /\ UNCHANGED <<stale, faulted, loadFailed>>
    BY DEF PowerLoss, Restart, PowerCycle, hist, fail, PlainInv
  <1>2. result' \in {"none", IF pc = "idle" THEN result ELSE "none"}
    BY DEF PowerLoss, Restart, PowerCycle, PlainInv
  <1>3. ASSUME NEW f \in [Objects -> BOOLEAN], f["armed"] => Present("armed"), FirmwareBoot(f),
               mach # "chr", target = "linux"
        PROVE  HandoverInv' /\ [Abstract!Next]_Abstract!vars
    <2>1. (Abstract!Withdraw \/ Abstract!Redeem) /\ Synced' /\ target' = "linux"
      BY <1>0, <1>1, <1>2, <1>3, BootRefines
    <2>2. HandoverInv'
      BY <1>1, <2>1 DEF HandoverInv, Intact, LoadedInv, ArmedInv, InExec, InArm
    <2> QED BY <2>1, <2>2 DEF Abstract!Next
  <1>4. CASE PowerLoss
    <2>1. PICK f \in Survivors : FirmwareBoot(f)
      BY <1>4 DEF PowerLoss
    <2>2. f \in [Objects -> BOOLEAN] /\ (f["armed"] => Present("armed"))
      BY <1>0 DEF Survivors, Synced, Objects, Present
    <2>3. mach # "chr" /\ target = "linux"
      BY <1>0, <1>4 DEF PowerLoss, Intact
    <2> QED BY <1>3, <2>1, <2>2, <2>3
  <1>5. CASE Restart
    <2>0. mach = "linux" /\ target = "linux" /\ now \in [Objects -> BOOLEAN]
      BY <1>0, <1>5 DEF Restart, Intact, TypeOK
    <2>1. CASE FirmwareBoot(now)
      BY <1>3, <2>0, <2>1 DEF Present
    <2>2. CASE /\ loaded /\ EnterWriter("kexec") /\ now' = now /\ unsynced' = {}
               /\ loaded' = FALSE /\ UNCHANGED target
      <3>1. mach' = "writer" /\ target' = target /\ Synced'
        BY <2>2 DEF EnterWriter, Synced
      <3>2. HandoverInv'
        BY <1>1, <3>1 DEF HandoverInv, Intact, LoadedInv, ArmedInv, InExec, InArm
      <3>3. "kexec" \in AbsGrants /\ AbsGrants' \subseteq AbsGrants \ {"kexec"}
        BY <2>2 DEF AbsGrants, GrantsOf, Present
      <3>4. AbsRun' \in {AbsRun, "none"} /\ AbsRun' # "on"
        BY <1>1, <1>2 DEF AbsRun, TypeOK
      <3>5. Abstract!Redeem
        BY <1>1, <2>0, <3>1, <3>3, <3>4
           DEF Abstract!Redeem, Abstract!Interrupted, AbsGrants, AbsRun
      <3> QED BY <3>2, <3>5 DEF Abstract!Next
    <2> QED BY <1>5, <2>1, <2>2 DEF Restart
  <1>6. CASE PowerCycle
    <2>0. /\ mach \in {"writer", "halted", "stuck"} /\ pc = "idle" /\ result' = result
          /\ now \in [Objects -> BOOLEAN]
      BY <1>6 DEF PowerCycle, PlainInv, TypeOK
    <2>1. CASE target = "linux" /\ FirmwareBoot(now)
      BY <1>3, <2>0, <2>1 DEF Present
    <2>2. CASE mach' = "dead" /\ UNCHANGED <<disk, loaded, target>>
      <3>1. HandoverInv'
        BY <1>0, <1>1, <2>2 DEF disk, HandoverInv, Synced, Intact, LoadedInv, ArmedInv, InExec, InArm
      <3>2. Abstract!Stop
        BY <1>1, <2>0, <2>2 DEF disk, Abstract!Stop, Present
      <3> QED BY <3>1, <3>2 DEF Abstract!Next
    <2> QED BY <1>6, <2>1, <2>2 DEF PowerCycle
  <1> QED BY <1>4, <1>5, <1>6

LEMMA RecoveryRefines ==
    ASSUME TypeOK, TypeOK', HandoverInv, ManualRecovery
    PROVE  HandoverInv' /\ [Abstract!Next]_Abstract!vars
  <1>1. /\ mach = "linux" /\ pc = "idle"
        /\ UNCHANGED <<pc, result, loaded, mach, target, stale, faulted, loadFailed>>
    BY DEF ManualRecovery, boot, fail
  <1>2. ~Present("armed")' /\ Synced'
    BY DEF ManualRecovery, Present, Synced, Objects, Temporaries, Dirs, Artifacts
  <1>3. HandoverInv'
    BY <1>1, <1>2 DEF HandoverInv, Intact, LoadedInv, ArmedInv, InExec, InArm
  <1>4. AbsGrants' \subseteq AbsGrants
    BY <1>1, <1>2 DEF AbsGrants, GrantsOf
  <1>5. Abstract!Withdraw
    BY <1>1, <1>4 DEF Abstract!Withdraw, Abstract!Interrupted, AbsGrants, HandoverInv, Intact, TypeOK
  <1> QED BY <1>3, <1>5 DEF Abstract!Next

----------------------------------------------------------------------------
LEMMA HandoverStep ==
    TypeOK /\ TypeOK' /\ PlainInv /\ HandoverInv /\ [Next]_vars
        => HandoverInv' /\ [Abstract!Next]_Abstract!vars
  <1> SUFFICES ASSUME TypeOK, TypeOK', PlainInv, HandoverInv, [Next]_vars
               PROVE  HandoverInv' /\ [Abstract!Next]_Abstract!vars
    OBVIOUS
  <1>0. DiskType
    BY TypeParts
  <1>1. CASE Installer
    <2>1. InstallerStep
      BY <1>0, <1>1, PrepareSteps, CleanSteps, BootSteps DEF Installer
    <2>2. Abstract!Work \/ Abstract!Fail \/ Abstract!Succeed \/ Abstract!Redeem
      BY <2>1, WorkRefines, FailRefines, SucceedRefines DEF InstallerStep, HandoverInv
    <2> QED BY <2>1, <2>2 DEF InstallerStep, Abstract!Next
  <1>2. CASE Machine
    BY <1>2, OtherRefines, StartRefines, RecoveryRefines DEF Machine
  <1>3. CASE UNCHANGED vars
    <2>1. UNCHANGED <<pc, todo, result, after, now, unsynced, loaded, mach, target,
                      stale, faulted, loadFailed>>
      BY <1>3 DEF vars, proc, disk, boot, hist, fail
    <2>2. HandoverInv'
      BY <2>1 DEF HandoverInv, Synced, Intact, LoadedInv, ArmedInv, InExec, InArm, Present, Excused
    <2>3. UNCHANGED Abstract!vars
      BY <2>1 DEF Abstract!vars, Present
    <2> QED BY <2>2, <2>3
  <1> QED BY <1>1, <1>2, <1>3 DEF Next

\* Staging gives and withdraws the right to overwrite the disk as Handover
\* says, for any number of runs, kills, power losses and failing undo
\* operations.
THEOREM StageImplementsHandover == Spec => ImplementsHandover
  <1>1. Init => HandoverInv /\ Abstract!Init
    BY DEF Init, HandoverInv, Synced, Intact, LoadedInv, ArmedInv, InExec, InArm, Present,
           Abstract!Init, GrantsOf, Objects
  <1>2. TypeOK /\ TypeOK' /\ PlainInv /\ HandoverInv /\ [Next]_vars
            => HandoverInv' /\ [Abstract!Next]_Abstract!vars
    BY HandoverStep
  <1> QED BY <1>1, <1>2, TypeCorrect, PlainAlways, PTL DEF Spec, ImplementsHandover, Abstract!Spec

\* What an error of a run without excuse and without inherited grants leaves.
ErrorKeepsNothing ==
    (AbsRun = "err" /\ ~Excused /\ AbsInherited = {}) => (AbsGrants = {} /\ AbsMachine # "writer")

\* An installation that reported an error never turns into a disk write: a
\* consequence of the abstract specification alone.
THEOREM NoWriterAfterErrorHolds == Spec => []NoWriterAfterError
  <1>1. Abstract!Init => ErrorKeepsNothing
    BY DEF Abstract!Init, ErrorKeepsNothing, AbsRun
  <1>2. ErrorKeepsNothing /\ [Abstract!Next]_Abstract!vars => ErrorKeepsNothing'
    <2> SUFFICES ASSUME ErrorKeepsNothing, [Abstract!Next]_Abstract!vars
                 PROVE  ErrorKeepsNothing'
      OBVIOUS
    <2> USE DEF ErrorKeepsNothing, AbsRun, AbsMachine, AbsGrants, AbsInherited, Excused
    <2>1. CASE Abstract!Begin
      BY <2>1 DEF Abstract!Begin
    <2>2. CASE Abstract!Work
      BY <2>2 DEF Abstract!Work
    <2>3. CASE Abstract!Succeed
      BY <2>3 DEF Abstract!Succeed
    <2>4. CASE Abstract!Fail
      BY <2>4 DEF Abstract!Fail
    <2>5. CASE Abstract!Withdraw
      BY <2>5 DEF Abstract!Withdraw, Abstract!Interrupted
    <2>6. CASE Abstract!Redeem
      BY <2>6 DEF Abstract!Redeem, Abstract!Interrupted
    <2>7. CASE Abstract!Overwrite \/ Abstract!Finish \/ Abstract!Stop
      BY <2>7 DEF Abstract!Overwrite, Abstract!Finish, Abstract!Stop
    <2>8. CASE UNCHANGED Abstract!vars
      BY <2>8 DEF Abstract!vars
    <2> QED BY <2>1, <2>2, <2>3, <2>4, <2>5, <2>6, <2>7, <2>8 DEF Abstract!Next
  <1>3. PlainInv /\ ErrorKeepsNothing => NoWriterAfterError
    BY DEF PlainInv, ErrorKeepsNothing, NoWriterAfterError, AbsRun, AbsMachine, AbsInherited,
           Excused, GrantsOf
  <1> QED BY <1>1, <1>2, <1>3, StageImplementsHandover, PlainAlways, PTL
          DEF ImplementsHandover, Abstract!Spec

----------------------------------------------------------------------------
(* What an armed entry boots.  From the renaming of the initrd to the undoing *)
(* that begins with next_entry, the initrd is in place; only between          *)
(* grub-reboot and that undoing is the entry armed by this run.  Without the  *)
(* fallback the initrd is also synced, which is what a power loss needs.      *)

AfterRename == {"rmBuilt", "probe", "writeScript", "renameScript"} \cup GrubPcs

HasInitrd ==
    \/ pc \in AfterRename \/ (pc = "sync" /\ method = "grub")
    \/ pc = "clean" /\ "armed" \in todo

InitrdInv ==
    /\ fellBack => method = "grub"
    /\ HasInitrd => now["grubInitrd"]
    /\ (~fellBack /\ (pc \in GrubPcs \/ (pc = "clean" /\ "armed" \in todo))) =>
           "grubInitrd" \notin unsynced

\* What a crash finds: the initrd, or no menu entry.
Durable ==
    \/ now["grubInitrd"] /\ "grubInitrd" \notin unsynced
    \/ ~now["cfgEntry"] /\ "cfgEntry" \notin unsynced

Excepted == faulted \/ "armed" \in stale

EntryInv ==
    /\ (pc # "idle" /\ ~InArm /\ now["armed"]) => Excepted
    /\ (pc = "idle" /\ mach = "linux" /\ now["armed"] /\ ~Excepted) =>
           /\ now["cfgEntry"] => now["grubInitrd"]
           /\ ~fellBack => Durable

\* A run has no result before it ends; the menu entry has been seen before
\* grub-reboot.
CommitInv ==
    /\ pc # "idle" => result = "none"
    /\ pc \in {"checkStorage", "arm", "verify", "queueReboot", "reboot"} => now["cfgEntry"]

BootsInv == InitrdInv /\ EntryInv /\ CommitInv

\* Setting one object leaves the others alone.
LEMMA SetOther ==
    ASSUME DiskType, NEW o, NEW x \in Objects, o # x, NEW b \in BOOLEAN, Set(o, b)
    PROVE  now'[x] = now[x] /\ (x \in unsynced' => x \in unsynced)
  BY DEF DiskType, Set, Change

LEMMA SomeObjects == {"grubInitrd", "cfgEntry", "armed", "buildInitrd", "scriptTmp"} \subseteq Objects
  BY DEF Objects, Artifacts, PayloadFiles, Temporaries

\* The steps of PrepareStage before the renaming of the initrd do not get past it.
LEMMA PrepareInitrd ==
    ASSUME DiskType, InitrdInv, method \in {"kexec", "grub"}, Prepare
    PROVE  /\ pc' = "updateGrub" => fellBack
           /\ HasInitrd' => now'["grubInitrd"]
           /\ UNCHANGED <<method, fellBack>>
  <1>0. UNCHANGED <<method, fellBack>> /\ pc' # "clean"
    BY PrepareMoving, PrepareFrame
       DEF Prepare, StatSources, MakeBuildDir, RemoveOldInitrd, CheckBuildSpace, MakeConfigDir,
           RunMkinitramfs, MeasureInitramfs, MakeGrubDir, CheckBootSpace, CopyToTemp, RenameInitrd,
           RemoveBuilt, ProbeBootFilesystem, WriteScriptTemp, RenameScript, MakeDir, Check,
           WriteTemporary, Rename, Quiet, proc, PrepareMoves, PreparePcs
  <1>1. CASE StatSources \/ MakeBuildDir \/ RemoveOldInitrd \/ CheckBuildSpace \/ MakeConfigDir
             \/ RunMkinitramfs \/ MakeGrubDir \/ CheckBootSpace \/ CopyToTemp
    <2>1. pc' \in {"mkBuild", "idle", "rmOld", "buildSpace", "mkConf", "mkinitramfs", "measure",
                   "bootSpace", "copy", "rename", "partial"}
      BY <1>1 DEF StatSources, MakeBuildDir, RemoveOldInitrd, CheckBuildSpace, MakeConfigDir,
                  RunMkinitramfs, MakeGrubDir, CheckBootSpace, CopyToTemp, MakeDir, Check,
                  WriteTemporary, Goto, Abort, Return
    <2> QED BY <1>0, <2>1 DEF HasInitrd, AfterRename, GrubPcs
  <1>2. CASE MeasureInitramfs
    <2>1. pc' \in {"mkGrub", "partial"} \/ (pc' = "sync" /\ method = "kexec")
      BY <1>2 DEF MeasureInitramfs, Commit, Committed, InitrdInv, Goto, Abort
    <2> QED BY <1>0, <2>1 DEF HasInitrd, AfterRename, GrubPcs
  <1>3. CASE RenameInitrd
    <2>1. pc' = "partial" \/ (pc' = "rmBuilt" /\ now' = [now EXCEPT !["grubInitrd"] = TRUE,
                                                         !["grubTmp"] = "grubTmp" \in stale])
      BY <1>3 DEF RenameInitrd, Rename, Change, Goto, Abort
    <2>2. pc' = "rmBuilt" => now'["grubInitrd"]
      BY <2>1, SomeObjects DEF DiskType
    <2> QED BY <1>0, <2>1, <2>2 DEF HasInitrd, AfterRename, GrubPcs
  <1>4. CASE RemoveBuilt
    <2>1. pc = "rmBuilt" /\ (pc' = "partial" \/ (pc' = "probe" /\ Set("buildInitrd", FALSE)))
      BY <1>4 DEF RemoveBuilt, Goto, Abort
    <2>2. pc' = "probe" => now'["grubInitrd"] = now["grubInitrd"]
      BY <2>1, SetOther, SomeObjects
    <2> QED BY <1>0, <2>1, <2>2 DEF InitrdInv, HasInitrd, AfterRename, GrubPcs
  <1>5. CASE ProbeBootFilesystem
    <2>1. pc = "probe" /\ pc' \in {"partial", "writeScript"} /\ now' = now
      BY <1>5 DEF ProbeBootFilesystem, Goto, Abort, disk
    <2> QED BY <1>0, <2>1 DEF InitrdInv, HasInitrd, AfterRename, GrubPcs
  <1>6. CASE WriteScriptTemp
    <2>1. /\ pc = "writeScript"
          /\ pc' = "partial" \/ (pc' = "renameScript" /\ Set("scriptTmp", TRUE))
      BY <1>6 DEF WriteScriptTemp, WriteTemporary, Goto, Abort
    <2>2. pc' = "renameScript" => now'["grubInitrd"] = now["grubInitrd"]
      BY <2>1, SetOther, SomeObjects
    <2> QED BY <1>0, <2>1, <2>2 DEF InitrdInv, HasInitrd, AfterRename, GrubPcs
  <1>7. CASE RenameScript
    <2>1. /\ pc = "renameScript"
          /\ \/ pc' = "partial"
             \/ /\ pc' = Committed
                /\ now' = [now EXCEPT !["script"] = TRUE, !["scriptTmp"] = "scriptTmp" \in stale]
      BY <1>7 DEF RenameScript, Rename, Change, Commit, Goto, Abort
    <2>2. pc' # "partial" => now'["grubInitrd"] = now["grubInitrd"]
      BY <2>1, SomeObjects DEF DiskType
    <2>3. pc' = "updateGrub" => fellBack
      BY <2>1 DEF Committed
    <2> QED BY <1>0, <2>1, <2>2, <2>3 DEF InitrdInv, HasInitrd, AfterRename, GrubPcs
  <1> QED BY <1>0, <1>1, <1>2, <1>3, <1>4, <1>5, <1>6, <1>7 DEF Prepare

LEMMA PrepareBoots ==
    ASSUME DiskType, method \in {"kexec", "grub"}, BootsInv, Prepare
    PROVE  BootsInv'
  <1>1. GrantsKept /\ MachineKept /\ PrepareMoves
    BY PrepareKeeps, PrepareMoving
  <1>2. /\ pc' = "updateGrub" => fellBack
        /\ HasInitrd' => now'["grubInitrd"]
        /\ UNCHANGED <<method, fellBack>>
    BY PrepareInitrd DEF BootsInv
  <1>3. InitrdInv'
    BY <1>1, <1>2 DEF BootsInv, InitrdInv, PrepareMoves, PreparePcs, GrubPcs
  <1>4. pc # "idle" /\ ~InArm
    BY <1>1 DEF PrepareMoves, PreparePcs, InArm
  <1>5. now'["armed"] => Excepted'
    BY <1>1, <1>4
       DEF BootsInv, EntryInv, Excepted, GrantsKept, ArmedKept, StaleKept, FaultedGrows, Present
  <1>6. EntryInv'
    BY <1>5 DEF EntryInv
  <1>7. CommitInv'
    BY <1>1, <1>4 DEF BootsInv, CommitInv, PrepareMoves, PreparePcs
  <1> QED BY <1>3, <1>6, <1>7 DEF BootsInv

\* A step of a cleanup after the entry has been dealt with.
LEMMA OutOfArm ==
    ASSUME BootsInv, ArmedKept, FaultedGrows, "armed" \in stale => "armed" \in stale',
           pc # "idle", ~InArm, ~HasInitrd', result' = "none" \/ pc' = "idle",
           pc' \notin GrubPcs, UNCHANGED <<method, fellBack>>
    PROVE  BootsInv'
  <1>1. InitrdInv'
    BY DEF BootsInv, InitrdInv, HasInitrd
  <1>2. now'["armed"] => Excepted'
    BY DEF BootsInv, EntryInv, Excepted, ArmedKept, FaultedGrows, Present
  <1>3. EntryInv'
    BY <1>2 DEF EntryInv
  <1>4. CommitInv'
    BY DEF CommitInv, GrubPcs
  <1> QED BY <1>1, <1>3, <1>4 DEF BootsInv

LEMMA CleanBoots ==
    ASSUME DiskType, BootsInv, Clean
    PROVE  BootsInv'
  <1> USE DEF HasInitrd, AfterRename, GrubPcs
  <1>0. ASSUME pc # "idle" PROVE result = "none"
    BY <1>0 DEF BootsInv, CommitInv
  <1>1. ASSUME NEW o \in Artifacts, PartialStep(o) \/ CleanPath(o) PROVE BootsInv'
    <2>1. ArmedKept /\ FaultedGrows
      BY <1>1, RemoveKeeps DEF PartialStep, CleanPath
    <2>2. /\ pc \in {"partial", "clean"} /\ todo' = todo \ {o}
          /\ UNCHANGED <<pc, result, method, fellBack, stale>>
      BY <1>1 DEF PartialStep, CleanPath, CleanupFrame
    <2>3. pc = "clean" => "armed" \notin todo
      <3>1. SUFFICES ASSUME CleanPath(o), "armed" \in todo PROVE FALSE
        BY <1>1 DEF PartialStep
      <3>2. CleanRank[o] <= CleanRank["armed"]
        BY <3>1 DEF CleanPath, Earliest
      <3> QED BY <3>2 DEF CleanRank, Artifacts, PayloadFiles, Dirs
    <2>4. ~InArm /\ ~HasInitrd'
      BY <2>2, <2>3 DEF InArm
    <2> QED BY <1>0, <2>1, <2>2, <2>4, OutOfArm
  <1>2. CASE PartialDone
    <2>1. /\ pc = "partial" /\ pc' = "idle"
          /\ ArmedKept /\ FaultedGrows /\ UNCHANGED <<stale, method, fellBack>>
      BY <1>2 DEF PartialDone, Return, Quiet, proc, hist, fail, disk, ArmedKept, Present, FaultedGrows
    <2> QED BY <2>1, OutOfArm DEF InArm
  <1>3. CASE Disarm
    <2>1. /\ pc = "clean" /\ "armed" \notin todo'
          /\ UNCHANGED <<pc, result, method, fellBack, stale>>
      BY <1>3 DEF Disarm, CleanCommand, CleanupFrame
    <2>2. SetArmed(FALSE) \/ faulted'
      BY <1>3 DEF Disarm, CleanCommand, Fault
    <2>3. now'["armed"] => Excepted'
      BY <2>2, SomeObjects DEF SetArmed, DiskType, Excepted
    <2>4. InitrdInv' /\ EntryInv' /\ CommitInv'
      BY <1>0, <2>1, <2>3 DEF BootsInv, InitrdInv, EntryInv, CommitInv
    <2> QED BY <2>4 DEF BootsInv
  <1>4. CASE RefreshGrub
    <2>1. /\ pc = "clean" /\ todo' = todo \ {"cfgEntry"} /\ Earliest("cfgEntry", CleanRank)
          /\ UNCHANGED <<pc, result, method, fellBack, stale>>
      BY <1>4 DEF RefreshGrub, CleanCommand, CleanupFrame
    <2>2. "armed" \notin todo
      <3>1. "armed" \in todo => CleanRank["cfgEntry"] <= CleanRank["armed"]
        BY <2>1 DEF Earliest
      <3> QED BY <3>1 DEF CleanRank
    <2>3. ArmedKept
      BY <1>4, SetKeeps, RegeneratedType DEF RefreshGrub, CleanCommand
    <2>4. FaultedGrows
      BY <1>4 DEF RefreshGrub, CleanCommand, Fault, fail, FaultedGrows
    <2> QED BY <1>0, <2>1, <2>2, <2>3, <2>4, OutOfArm DEF InArm
  <1>5. CASE CleanupDone
    <2>1. pc = "clean" /\ ~InArm /\ ArmedKept /\ FaultedGrows /\ UNCHANGED stale
      BY <1>5 DEF CleanupDone, InArm, disk, hist, fail, ArmedKept, Present, FaultedGrows
    <2>2. pc' \in {"idle", "unload", "queueKexec", "stat"} /\ (pc' # "idle" => result' = result)
      BY <1>5 DEF CleanupDone, Return, Goto, FallBack
    <2>3. UNCHANGED <<method, fellBack>> \/ method' = "grub"
      BY <1>5 DEF CleanupDone, FallBack, proc
    <2>4. InitrdInv'
      BY <2>2, <2>3 DEF BootsInv, InitrdInv
    <2>5. now'["armed"] => Excepted'
      BY <2>1 DEF BootsInv, EntryInv, Excepted, ArmedKept, FaultedGrows, Present
    <2>6. EntryInv' /\ CommitInv'
      BY <1>0, <2>1, <2>2, <2>5 DEF EntryInv, CommitInv
    <2> QED BY <2>4, <2>6 DEF BootsInv
  <1> QED BY <1>1, <1>2, <1>3, <1>4, <1>5 DEF Clean

\* A step of executeGRUB that leaves the disk alone.
LEMMA GrubBoots ==
    ASSUME BootsInv, pc \in GrubPcs, UNCHANGED <<disk, hist, method, fellBack>>,
           \/ /\ pc' \in GrubPcs /\ result' = result
              /\ (InArm => InArm')
              /\ pc' \in {"checkStorage", "arm", "verify", "queueReboot", "reboot"} => now["cfgEntry"]
           \/ pc' = "clean" /\ result' = result /\ (InArm => "armed" \in todo')
           \/ pc' = "idle"
    PROVE  BootsInv'
  <1> USE DEF HasInitrd, AfterRename
  <1>1. now["grubInitrd"] /\ (~fellBack => "grubInitrd" \notin unsynced)
        /\ UNCHANGED <<now, unsynced, faulted, stale>> /\ pc # "idle"
    BY DEF BootsInv, InitrdInv, disk, hist, fail, GrubPcs
  <1>2. InitrdInv'
    BY <1>1 DEF BootsInv, InitrdInv
  <1>3. EntryInv'
    BY <1>1 DEF BootsInv, EntryInv, Excepted, Durable, InArm
  <1>4. CommitInv'
    BY <1>1 DEF BootsInv, CommitInv
  <1> QED BY <1>2, <1>3, <1>4 DEF BootsInv

LEMMA BootBoots ==
    ASSUME DiskType, method \in {"kexec", "grub"}, HandoverInv, BootsInv, Boot
    PROVE  BootsInv'
  <1>0. ASSUME pc # "idle" PROVE result = "none"
    BY <1>0 DEF BootsInv, CommitInv
  <1>1. CASE Sync
    <2>1. /\ pc = "sync" /\ UNCHANGED <<now, hist, method, fellBack, result>>
          /\ unsynced' \in {{}, unsynced}
          /\ \/ pc' = "load" \/ (pc' = "updateGrub" /\ method = "grub" /\ unsynced' = {})
             \/ pc' = "clean" /\ "armed" \notin todo'
      BY <1>1 DEF Sync, Goto, BeginCleanup, StageObjects, proc, disk
    <2>2. pc' = "updateGrub" => now["grubInitrd"]
      BY <2>1 DEF BootsInv, InitrdInv, HasInitrd
    <2>3. InitrdInv'
      BY <2>1, <2>2 DEF BootsInv, InitrdInv, HasInitrd, AfterRename, GrubPcs
    <2>4. EntryInv'
      BY <2>1 DEF BootsInv, EntryInv, InArm, Excepted, hist, fail
    <2>5. CommitInv'
      BY <1>0, <2>1 DEF CommitInv
    <2> QED BY <2>3, <2>4, <2>5 DEF BootsInv
  <1>2. CASE KexecLoad \/ SystemctlKexec \/ KexecExecute \/ KexecUnload
    <2>1. /\ pc \in KexecPcs /\ ~InArm
          /\ pc' \in {"clean", "execKexec", "idle", "unload"} /\ (pc' = "clean" => "armed" \notin todo')
          /\ UNCHANGED <<method, fellBack, stale>> /\ (pc' = "idle" \/ result' = result)
      BY <1>2 DEF KexecLoad, SystemctlKexec, KexecExecute, KexecUnload, KexecPcs, InArm, Goto,
                  Return, BeginCleanup, StageObjects, proc, hist
    <2>2. ArmedKept /\ FaultedGrows
      BY <1>2 DEF KexecLoad, SystemctlKexec, KexecExecute, KexecUnload, ArmedKept, FaultedGrows,
                  disk, hist, fail, Fault, Present
    <2>3. ~HasInitrd' /\ pc # "idle" /\ pc' \notin GrubPcs
      BY <2>1 DEF HasInitrd, AfterRename, GrubPcs, KexecPcs
    <2> QED BY <1>0, <2>1, <2>2, <2>3, OutOfArm
  <1>3. CASE UpdateGrub
    <2>1. /\ pc = "updateGrub" /\ UNCHANGED <<hist, method, fellBack, result>>
          /\ pc' = "checkConfig" \/ (pc' = "clean" /\ "armed" \notin todo')
      BY <1>3 DEF UpdateGrub, Goto, Undo, BeginCleanup, StageObjects, proc
    <2>2. UNCHANGED disk \/ \E b \in BOOLEAN : Set("cfgEntry", b)
      BY <1>3, RegeneratedType DEF UpdateGrub
    <2>3. /\ now'["grubInitrd"] = now["grubInitrd"] /\ now'["armed"] = now["armed"]
          /\ "grubInitrd" \in unsynced' => "grubInitrd" \in unsynced
      BY <2>2, SetOther, SomeObjects DEF disk
    <2>4. InitrdInv'
      BY <2>1, <2>3 DEF BootsInv, InitrdInv, HasInitrd, AfterRename, GrubPcs
    <2>5. EntryInv'
      BY <2>1, <2>3 DEF BootsInv, EntryInv, InArm, Excepted, hist, fail
    <2>6. CommitInv'
      BY <1>0, <2>1 DEF CommitInv
    <2> QED BY <2>4, <2>5, <2>6 DEF BootsInv
  <1>4. CASE ValidateGrubConfiguration \/ ValidateGrubStorage
    <2>1. /\ pc \in {"checkConfig", "checkStorage"} /\ UNCHANGED <<disk, hist, method, fellBack, result>>
          /\ \/ pc' = "checkStorage" /\ now["cfgEntry"]
             \/ pc' = "arm" /\ pc = "checkStorage"
             \/ pc' = "clean"
      BY <1>4 DEF ValidateGrubConfiguration, ValidateGrubStorage, GrubCheck, Goto, Undo,
                  BeginCleanup, Present, proc
    <2>2. ~InArm
      BY <2>1 DEF InArm
    <2> QED BY <2>1, <2>2, GrubBoots DEF GrubPcs, BootsInv, CommitInv
  <1>5. CASE ArmEntry
    <2>1. /\ pc = "arm" /\ UNCHANGED <<hist, method, fellBack, result>>
          /\ pc' = "verify" \/ (pc' = "clean" /\ "armed" \in todo')
      BY <1>5 DEF ArmEntry, GrubReboot, Goto, Undo, BeginCleanup, proc
    <2>2. UNCHANGED disk \/ SetArmed(TRUE)
      BY <1>5 DEF ArmEntry, GrubReboot
    <2>3. /\ now'["grubInitrd"] = now["grubInitrd"] /\ now'["cfgEntry"] = now["cfgEntry"]
          /\ unsynced' \subseteq unsynced
      BY <2>2, SomeObjects DEF SetArmed, DiskType, disk
    <2>4. InitrdInv'
      BY <2>1, <2>3 DEF BootsInv, InitrdInv, HasInitrd, AfterRename, GrubPcs
    <2>5. EntryInv'
      BY <2>1 DEF EntryInv, InArm
    <2>6. CommitInv'
      BY <1>0, <2>1, <2>3 DEF BootsInv, CommitInv
    <2> QED BY <2>4, <2>5, <2>6 DEF BootsInv
  <1>6. CASE VerifyNextEntry \/ SystemctlReboot \/ RebootCommand
    <2>1. /\ pc \in {"verify", "queueReboot", "reboot"} /\ UNCHANGED <<disk, hist, method, fellBack>>
          /\ \/ pc' \in {"queueReboot", "reboot"} /\ result' = result
             \/ pc' = "clean" /\ result' = result /\ "armed" \in todo'
             \/ pc' = "idle"
      BY <1>6 DEF VerifyNextEntry, GrubCheck, SystemctlReboot, RebootCommand, Goto, Return, Undo,
                  BeginCleanup, proc
    <2>2. now["cfgEntry"]
      BY <2>1 DEF BootsInv, CommitInv
    <2> QED BY <2>1, <2>2, GrubBoots DEF GrubPcs, InArm
  <1> QED BY <1>1, <1>2, <1>3, <1>4, <1>5, <1>6 DEF Boot

\* Linux started by GRUB with next_entry set has no menu entry for it.
LEMMA FirmwareBoots ==
    ASSUME InitrdInv, NEW f \in [Objects -> BOOLEAN], FirmwareBoot(f), pc' = "idle",
           UNCHANGED <<method, fellBack>>
    PROVE  BootsInv'
  <1>1. (mach' = "linux" /\ now'["armed"]) => (~now'["cfgEntry"] /\ unsynced' = {})
    <2> SUFFICES ASSUME mach' = "linux", now'["armed"]
                 PROVE  ~now'["cfgEntry"] /\ unsynced' = {}
      OBVIOUS
    <2>1. PICK b \in {FALSE, f["armed"]} : now' = [f EXCEPT !["armed"] = b]
      BY DEF FirmwareBoot, EnterWriter
    <2>2. ~(f["armed"] /\ f["cfgEntry"])
      BY DEF FirmwareBoot, EnterWriter
    <2>3. now'["armed"] = b /\ now'["cfgEntry"] = f["cfgEntry"]
      BY <2>1, SomeObjects
    <2> QED BY <2>2, <2>3 DEF FirmwareBoot
  <1>2. InitrdInv'
    BY DEF InitrdInv, HasInitrd, AfterRename, GrubPcs
  <1>3. EntryInv'
    BY <1>1 DEF EntryInv, Durable
  <1>4. CommitInv'
    BY DEF CommitInv
  <1> QED BY <1>2, <1>3, <1>4 DEF BootsInv

LEMMA MachineBoots ==
    ASSUME DiskType, PlainInv, BootsInv, Machine
    PROVE  BootsInv'
  <1> USE DEF HasInitrd, AfterRename, GrubPcs
  <1>1. CASE Cancel
    <2>1. UNCHANGED <<pc, todo, result, method, fellBack, now, unsynced, mach, stale, faulted>>
      BY <1>1 DEF Cancel, disk, boot, hist, fail
    <2> QED BY <2>1 DEF BootsInv, InitrdInv, EntryInv, CommitInv, InArm, Durable, Excepted
  <1>2. CASE Kill
    <2>1. /\ pc # "idle" /\ pc' = "idle"
          /\ UNCHANGED <<method, fellBack, now, unsynced, mach, stale, faulted>>
      BY <1>2 DEF Kill, Return, proc, disk, boot, hist, fail
    <2>2. (now["armed"] /\ ~Excepted) => now["grubInitrd"] /\ (~fellBack => Durable)
      BY <2>1 DEF BootsInv, InitrdInv, EntryInv, InArm, Durable
    <2>3. InitrdInv' /\ EntryInv' /\ CommitInv'
      BY <2>1, <2>2 DEF BootsInv, InitrdInv, EntryInv, CommitInv, Durable, Excepted
    <2> QED BY <2>3 DEF BootsInv
  <1>3. CASE PowerLoss
    <2>1. PICK f \in Survivors : FirmwareBoot(f)
      BY <1>3 DEF PowerLoss
    <2>2. f \in [Objects -> BOOLEAN] /\ pc' = "idle" /\ UNCHANGED <<method, fellBack>>
      BY <1>3 DEF Survivors, PowerLoss, proc
    <2> QED BY <2>1, <2>2, FirmwareBoots DEF BootsInv
  <1>4. CASE Restart
    <2>1. pc' = "idle" /\ UNCHANGED <<method, fellBack>>
      BY <1>4 DEF Restart, proc
    <2>2. CASE FirmwareBoot(now)
      BY <2>1, <2>2, FirmwareBoots DEF BootsInv, DiskType
    <2>3. CASE mach' = "writer"
      BY <2>1, <2>3 DEF BootsInv, InitrdInv, EntryInv, CommitInv
    <2> QED BY <1>4, <2>2, <2>3 DEF Restart, EnterWriter
  <1>5. CASE WriterHalts \/ WriterStartsWriting \/ WriterFinishes
    <2>1. mach = "writer" /\ mach' # "linux" /\ pc' = pc /\ UNCHANGED <<method, fellBack>>
      BY <1>5 DEF WriterHalts, WriterStartsWriting, WriterFinishes, proc
    <2>2. pc = "idle"
      BY <2>1 DEF PlainInv
    <2> QED BY <2>1, <2>2 DEF BootsInv, InitrdInv, EntryInv, CommitInv
  <1>6. CASE PowerCycle
    <2>1. pc = "idle" /\ pc' = "idle" /\ UNCHANGED <<method, fellBack>>
      BY <1>6 DEF PowerCycle, PlainInv, proc
    <2>2. CASE FirmwareBoot(now)
      BY <2>1, <2>2, FirmwareBoots DEF BootsInv, DiskType
    <2>3. CASE mach' = "dead"
      BY <2>1, <2>3 DEF BootsInv, InitrdInv, EntryInv, CommitInv
    <2> QED BY <1>6, <2>2, <2>3 DEF PowerCycle
  <1>7. CASE StartRun
    <2>1. pc' = "stat" /\ result' = "none" /\ fellBack' = FALSE /\ UNCHANGED <<now, unsynced>>
      BY <1>7 DEF StartRun, disk
    <2>2. now'["armed"] => "armed" \in stale'
      BY <1>7, <2>1, SomeObjects DEF StartRun, Present
    <2>3. InitrdInv' /\ EntryInv' /\ CommitInv'
      BY <2>1, <2>2 DEF InitrdInv, EntryInv, CommitInv, Excepted
    <2> QED BY <2>3 DEF BootsInv
  <1>8. CASE ManualRecovery
    <2>1. pc = "idle" /\ pc' = "idle" /\ UNCHANGED <<method, fellBack>>
      BY <1>8 DEF ManualRecovery, proc
    <2>2. ~now'["armed"]
      BY <1>8 DEF ManualRecovery, Objects, Temporaries, Dirs
    <2> QED BY <2>1, <2>2 DEF BootsInv, InitrdInv, EntryInv, CommitInv
  <1> QED BY <1>1, <1>2, <1>3, <1>4, <1>5, <1>6, <1>7, <1>8 DEF Machine

\* A success is reported only by the four steps that hand the machine over.
LEMMA CommitStep ==
    ASSUME TypeOK, PlainInv, HandoverInv, BootsInv, BootsInv', CommitIsComplete, [Next]_vars
    PROVE  CommitIsComplete'
  <1>1. CASE pc' # "idle"
    BY <1>1 DEF BootsInv, CommitInv, CommitIsComplete
  <1>2. CASE pc' = "idle" /\ (Prepare \/ Clean)
    <2>1. ASSUME Prepare PROVE result' = "err"
      BY <1>2, <2>1, PrepareMoving DEF PrepareMoves, PreparePcs
    <2>2. ASSUME Clean PROVE result' = "err"
      <3>1. pc # "idle"
        BY <2>2, CleanPc
      <3> QED BY <1>2, <2>2, <3>1 DEF Clean, PartialStep, CleanPath, CleanupFrame, PartialDone,
                    Disarm, RefreshGrub, CleanCommand, CleanupDone, FallBack, Goto, Return
    <2> QED BY <1>2, <2>1, <2>2 DEF CommitIsComplete
  <1>3. CASE pc' = "idle" /\ Boot
    <2>1. pc # "idle"
      BY <1>3, BootPc
    <2>2. SystemctlKexec \/ KexecExecute \/ SystemctlReboot \/ RebootCommand
      BY <1>3, <2>1 DEF Boot, Sync, KexecLoad, KexecUnload, UpdateGrub, ValidateGrubConfiguration,
           ValidateGrubStorage, ArmEntry, GrubReboot, VerifyNextEntry, GrubCheck, Goto, Undo,
           BeginCleanup
    <2>3. CASE SystemctlKexec
      <3>1. pc = "queueKexec" /\ loaded' = loaded /\ pending' = "kexec"
        BY <1>3, <2>3 DEF SystemctlKexec, Goto
      <3> QED BY <3>1 DEF HandoverInv, LoadedInv, InExec, CommitIsComplete
    <2>4. CASE KexecExecute
      BY <1>3, <2>4 DEF KexecExecute, Goto, EnterWriter, CommitIsComplete
    <2>5. CASE SystemctlReboot \/ RebootCommand
      <3>1. pc \in {"queueReboot", "reboot"} /\ UNCHANGED disk /\ pending' = "reboot"
        BY <1>3, <2>5 DEF SystemctlReboot, RebootCommand, Goto, Undo, BeginCleanup
      <3>2. Present("armed") /\ now["cfgEntry"] /\ now["grubInitrd"]
        BY <3>1 DEF HandoverInv, ArmedInv, BootsInv, CommitInv, InitrdInv, HasInitrd, AfterRename,
                    GrubPcs
      <3> QED BY <3>1, <3>2 DEF CommitIsComplete, Present, disk
    <2> QED BY <2>2, <2>3, <2>4, <2>5
  <1>4. CASE pc' = "idle" /\ Machine
    <2>1. CASE Cancel \/ Kill \/ StartRun
      BY <1>4, <2>1 DEF Cancel, Kill, StartRun, Return, CommitIsComplete
    <2>2. CASE PowerLoss
      BY <2>2 DEF PowerLoss, FirmwareBoot, CommitIsComplete
    <2>3. CASE Restart
      BY <2>3 DEF Restart, FirmwareBoot, CommitIsComplete
    <2>4. CASE PowerCycle
      BY <2>4 DEF PowerCycle, FirmwareBoot, CommitIsComplete
    <2>5. CASE WriterHalts \/ WriterStartsWriting \/ WriterFinishes
      BY <2>5 DEF WriterHalts, WriterStartsWriting, WriterFinishes, CommitIsComplete
    <2>6. CASE ManualRecovery
      BY <2>6 DEF ManualRecovery, boot, CommitIsComplete
    <2> QED BY <1>4, <2>1, <2>2, <2>3, <2>4, <2>5, <2>6 DEF Machine
  <1>5. CASE UNCHANGED vars
    BY <1>5 DEF vars, disk, boot, CommitIsComplete, Present
  <1> QED BY <1>1, <1>2, <1>3, <1>4, <1>5 DEF Next, Installer

LEMMA BootsAlways == Spec => [](BootsInv /\ HandoverInv /\ CommitIsComplete)
  <1>1. Init => BootsInv /\ HandoverInv /\ CommitIsComplete
    <2> SUFFICES ASSUME Init PROVE BootsInv /\ HandoverInv /\ CommitIsComplete
      OBVIOUS
    <2>1. pc = "idle" /\ fellBack = FALSE /\ result = "none" /\ ~now["armed"]
      BY SomeObjects DEF Init
    <2>2. InitrdInv /\ EntryInv /\ CommitInv /\ CommitIsComplete
      BY <2>1 DEF InitrdInv, HasInitrd, AfterRename, GrubPcs, EntryInv, CommitInv, CommitIsComplete
    <2> QED BY <2>2 DEF BootsInv, Init, HandoverInv, Synced, Intact, LoadedInv, ArmedInv, InExec,
                        InArm, Present, Objects
  <1>2. TypeOK /\ TypeOK' /\ PlainInv /\ BootsInv /\ HandoverInv /\ CommitIsComplete /\ [Next]_vars
            => BootsInv' /\ HandoverInv' /\ CommitIsComplete'
    <2> SUFFICES ASSUME TypeOK, TypeOK', PlainInv, BootsInv, HandoverInv, CommitIsComplete,
                        [Next]_vars
                 PROVE  BootsInv' /\ HandoverInv' /\ CommitIsComplete'
      OBVIOUS
    <2>1. DiskType /\ method \in {"kexec", "grub"}
      BY TypeParts DEF TypeOK
    <2>2. HandoverInv'
      BY HandoverStep
    <2>3. BootsInv'
      <3>1. CASE Installer
        BY <2>1, <3>1, PrepareBoots, CleanBoots, BootBoots DEF Installer
      <3>2. CASE Machine
        BY <2>1, <3>2, MachineBoots
      <3>3. CASE UNCHANGED vars
        <4>1. UNCHANGED <<pc, todo, result, method, fellBack, now, unsynced, mach, stale, faulted>>
          BY <3>3 DEF vars, proc, disk, boot, hist, fail
        <4> QED BY <4>1 DEF BootsInv, InitrdInv, HasInitrd, EntryInv, CommitInv, InArm, Durable,
                            Excepted
      <3> QED BY <3>1, <3>2, <3>3 DEF Next
    <2>4. CommitIsComplete'
      BY <2>3, CommitStep
    <2> QED BY <2>2, <2>3, <2>4
  <1> QED BY <1>1, <1>2, TypeCorrect, PlainAlways, PTL DEF Spec

\* A reboot at any step of a run or of its undoing finds an armed entry
\* bootable (stage.go, executeGRUB and cleanupStage).
THEOREM ArmedEntryBootsHolds == Spec => []ArmedEntryBoots
  <1>1. BootsInv => ArmedEntryBoots
    BY DEF BootsInv, InitrdInv, HasInitrd, AfterRename, GrubPcs, EntryInv, InArm, Excepted,
           ArmedEntryBoots, Present
  <1> QED BY <1>1, BootsAlways, PTL

\* A power loss at any step finds it so too, as long as the run is not the
\* fallback of a failed kexec (stage.go, the sync of StageAndBoot).
THEOREM CrashFindsPayload == Spec => []CrashBootsCompletePayload
  <1>1. BootsInv /\ HandoverInv => CrashBootsCompletePayload
    <2> SUFFICES ASSUME BootsInv, HandoverInv, mach = "linux", ~Excepted, ~fellBack,
                        NEW f \in Survivors, f["armed"], f["cfgEntry"]
                 PROVE  f["grubInitrd"]
      BY DEF CrashBootsCompletePayload, Excepted
    <2>1. \A o \in Objects \ unsynced : f[o] = now[o]
      BY DEF Survivors
    <2>2. now["armed"]
      BY <2>1, SomeObjects DEF HandoverInv, Synced
    <2>3. Durable
      BY <2>2 DEF BootsInv, InitrdInv, HasInitrd, AfterRename, GrubPcs, EntryInv, InArm, Durable
    <2> QED BY <2>1, <2>3, SomeObjects DEF Durable
  <1> QED BY <1>1, BootsAlways, PTL

\* A run that reported success has left everything the writer's boot needs
\* (stage.go, executeKexec and executeGRUB).
THEOREM CommitCompletes == Spec => []CommitIsComplete
  BY BootsAlways, PTL

----------------------------------------------------------------------------
(* What an error leaves behind.  While it runs, an attempt accounts for every *)
(* object it has made: the object is in the list the next cleanup works       *)
(* through, or is the temporary of the step in progress, or is a directory    *)
(* that a cleanup left because it is not empty.  A cleanup that returns has   *)
(* an empty list.                                                             *)

\* What the attempt in progress has made and has to take back.
Own(o) == Present(o) /\ o \notin stale

BuildObjects == {"buildDir", "buildInitrd"}
GrubObjects == {"grubDir", "grubInitrd"}

BuildPcs == {"rmOld", "buildSpace", "mkConf", "mkinitramfs", "measure", "mkGrub"}
ScriptPcs == {"writeScript", "renameScript"}
CopyPcs == {"bootSpace", "copy", "rename", "rmBuilt", "probe"}

\* What PrepareStage has registered for its cleanup.
Registered ==
    CASE pc \in {"stat", "mkBuild"} -> {}
      [] pc \in BuildPcs            -> BuildObjects
      [] pc \in CopyPcs             -> BuildObjects \cup GrubObjects
      [] pc \in ScriptPcs           -> BuildObjects \cup GrubObjects \cup {"script"}

\* The temporary that exists between two steps of PrepareStage.
Temporary == CASE pc = "mkinitramfs"  -> {"buildTmp"}
               [] pc = "rename"       -> {"grubTmp"}
               [] pc = "renameScript" -> {"scriptTmp"}
               [] OTHER               -> {}

\* What the next cleanup is going to undo, whether it has begun or not.
Undone ==
    IF pc \in {"clean", "partial", "idle"} \cup PreparePcs THEN todo
    ELSE StageObjects(method)
         \cup (IF pc \in GrubPcs THEN {"cfgEntry"} ELSE {})
         \cup (IF pc \in {"verify", "queueReboot", "reboot"} THEN {"armed"} ELSE {})

\* A directory that a cleanup left because it is not empty.
GivenUp(d) == d \in Dirs /\ Busy(d) /\ Inside(d) \cap Undone = {}

Account(o) == o \in Undone \cup Temporary \/ GivenUp(o)

\* A directory is still to be removed when one of its files is.
DirsLast(U) == \A d \in Dirs : d \in U \/ Inside(d) \cap U = {}

\* Where the process is: what is registered, and for which method.
ProgressInv ==
    /\ pc \in PreparePcs => todo = Registered
    /\ pc = "idle" => todo = {}
    /\ pc = "partial" => todo \subseteq Artifacts
    /\ pc = "clean" => todo \subseteq StageObjects(method) \cup {"armed", "cfgEntry"}
    /\ pc \in GrubPcs \cup CopyPcs \cup ScriptPcs \cup {"mkGrub"} => method = "grub"
    /\ pc \in KexecPcs \/ (pc = "clean" /\ after # "return") => method = "kexec"
    /\ pc \in {"partial", "clean"} => DirsLast(todo)
    /\ (pc = "clean" /\ ("armed" \in todo \/ "cfgEntry" \in todo)) => method = "grub"
    /\ fellBack => method = "grub"
    /\ pc # "idle" => since = "nothing"

Running == pc # "idle" \/ (result = "err" /\ since = "nothing")

\* A run that has not ended, or ended with an error, still accounts for
\* everything it has made.
AccountInv ==
    /\ pc \in {"probe"} \cup ScriptPcs => ~Present("buildInitrd")
    /\ (pc = "clean" /\ "cfgEntry" \in todo /\ "script" \notin todo) => ~Present("script")
    /\ Running => \A o \in Objects : Own(o) => Account(o)

UndoneInv == ~faulted => AccountInv

----------------------------------------------------------------------------
\* Where PrepareStage goes and what it registers.
LEMMA PrepareProgress ==
    ASSUME ProgressInv, method \in {"kexec", "grub"}, Prepare
    PROVE  ProgressInv'
  <1> USE DEF ProgressInv, Registered, BuildPcs, CopyPcs, ScriptPcs, BuildObjects, GrubObjects,
              PreparePcs, KexecPcs, GrubPcs, Goto, Abort, Return, Quiet, proc, hist,
              Artifacts, PayloadFiles, Dirs, DirsLast, Inside
  <1>1. CASE StatSources
    BY <1>1 DEF StatSources
  <1>2. CASE MakeBuildDir
    BY <1>2 DEF MakeBuildDir, MakeDir
  <1>3. CASE RemoveOldInitrd
    BY <1>3 DEF RemoveOldInitrd
  <1>4. CASE CheckBuildSpace
    BY <1>4 DEF CheckBuildSpace, Check
  <1>5. CASE MakeConfigDir
    BY <1>5 DEF MakeConfigDir, WriteTemporary
  <1>6. CASE RunMkinitramfs
    BY <1>6 DEF RunMkinitramfs
  <1>7. CASE MeasureInitramfs
    BY <1>7 DEF MeasureInitramfs, Commit, Committed
  <1>8. CASE MakeGrubDir
    BY <1>8 DEF MakeGrubDir, MakeDir
  <1>9. CASE CheckBootSpace
    BY <1>9 DEF CheckBootSpace, Check
  <1>10. CASE CopyToTemp
    BY <1>10 DEF CopyToTemp, WriteTemporary
  <1>11. CASE RenameInitrd
    BY <1>11 DEF RenameInitrd, Rename
  <1>12. CASE RemoveBuilt
    BY <1>12 DEF RemoveBuilt
  <1>13. CASE ProbeBootFilesystem
    BY <1>13 DEF ProbeBootFilesystem
  <1>14. CASE WriteScriptTemp
    BY <1>14 DEF WriteScriptTemp, WriteTemporary
  <1>15. CASE RenameScript
    BY <1>15 DEF RenameScript, Rename, Commit, Committed
  <1>q. QED
    BY <1>1, <1>2, <1>3, <1>4, <1>5, <1>6, <1>7, <1>8, <1>9, <1>10,
          <1>11, <1>12, <1>13, <1>14, <1>15 DEF Prepare

\* The ranks put the files of a directory before it.
LEMMA EarliestLast ==
    ASSUME ProgressInv, NEW o,
           \/ pc = "partial" /\ Earliest(o, PartialRank)
           \/ pc = "clean" /\ Earliest(o, CleanRank)
    PROVE  /\ DirsLast(todo \ {o})
           /\ o \in Dirs => Inside(o) \cap todo = {}
  <1>1. CASE pc = "partial" /\ Earliest(o, PartialRank)
    <2>1. o \in Dirs => Inside(o) \cap todo = {}
      BY <1>1 DEF Earliest, PartialRank, Dirs, Inside, ProgressInv, Artifacts, PayloadFiles
    <2> QED BY <1>1, <2>1 DEF ProgressInv, DirsLast, Dirs
  <1>2. CASE pc = "clean" /\ Earliest(o, CleanRank)
    <2>1. o \in Dirs => Inside(o) \cap todo = {}
      BY <1>2 DEF Earliest, CleanRank, Dirs, Inside, ProgressInv, StageObjects
    <2> QED BY <1>2, <2>1 DEF ProgressInv, DirsLast, Dirs
  <1> QED BY <1>1, <1>2

LEMMA CleanProgress ==
    ASSUME ProgressInv, Clean
    PROVE  ProgressInv'
  <1> USE DEF ProgressInv, Registered, BuildPcs, CopyPcs, ScriptPcs, 
              PreparePcs, KexecPcs, GrubPcs, Goto, Return, Quiet, proc, hist, CleanupFrame
  <1>1. ASSUME NEW o \in Artifacts, PartialStep(o) \/ CleanPath(o) PROVE ProgressInv'
    BY <1>1, EarliestLast DEF PartialStep, CleanPath
  <1>2. CASE PartialDone
    BY <1>2 DEF PartialDone
  <1>3. CASE Disarm \/ RefreshGrub
    <2>1. /\ pc = "clean" /\ pc' = pc /\ todo' \subseteq todo /\ DirsLast(todo')
          /\ UNCHANGED <<method, after, fellBack, since>>
      BY <1>3, EarliestLast DEF Disarm, RefreshGrub, CleanCommand
    <2> QED BY <2>1
  <1>4. CASE CleanupDone
    BY <1>4 DEF CleanupDone, FallBack
  <1> QED BY <1>1, <1>2, <1>3, <1>4 DEF Clean

LEMMA BootProgress ==
    ASSUME ProgressInv, method \in {"kexec", "grub"}, Boot
    PROVE  ProgressInv'
  <1> USE DEF ProgressInv, Registered, BuildPcs, CopyPcs, ScriptPcs, 
              PreparePcs, KexecPcs, GrubPcs, Goto, Return, proc, hist, Undo, BeginCleanup,
              StageObjects, DirsLast, Inside, Dirs
  <1>1. CASE Sync
    BY <1>1 DEF Sync
  <1>2. CASE KexecLoad
    BY <1>2 DEF KexecLoad
  <1>3. CASE SystemctlKexec \/ KexecExecute
    BY <1>3 DEF SystemctlKexec, KexecExecute
  <1>5. CASE KexecUnload
    BY <1>5 DEF KexecUnload
  <1>6. CASE UpdateGrub
    BY <1>6 DEF UpdateGrub
  <1>7. CASE ValidateGrubConfiguration \/ ValidateGrubStorage \/ VerifyNextEntry
    BY <1>7 DEF ValidateGrubConfiguration, ValidateGrubStorage, VerifyNextEntry, GrubCheck
  <1>9. CASE ArmEntry
    BY <1>9 DEF ArmEntry, GrubReboot
  <1>11. CASE SystemctlReboot \/ RebootCommand
    BY <1>11 DEF SystemctlReboot, RebootCommand
  <1>q. QED
    BY <1>1, <1>2, <1>3, <1>5, <1>6, <1>7, <1>9, <1>11 DEF Boot

LEMMA MachineProgress ==
    ASSUME ProgressInv, PlainInv, Machine
    PROVE  ProgressInv'
  <1> USE DEF ProgressInv, Registered, BuildPcs, CopyPcs, ScriptPcs, 
              PreparePcs, KexecPcs, GrubPcs, Return, proc, hist
  <1>1. CASE Cancel \/ Kill
    BY <1>1 DEF Cancel, Kill
  <1>2. CASE PowerLoss
    BY <1>2 DEF PowerLoss
  <1>3. CASE Restart
    BY <1>3 DEF Restart
  <1>4. CASE WriterHalts \/ WriterStartsWriting \/ WriterFinishes \/ PowerCycle
    BY <1>4 DEF WriterHalts, WriterStartsWriting, WriterFinishes, PowerCycle
  <1>5. CASE StartRun
    BY <1>5 DEF StartRun
  <1>6. CASE ManualRecovery
    BY <1>6 DEF ManualRecovery
  <1> QED BY <1>1, <1>2, <1>3, <1>4, <1>5, <1>6 DEF Machine
----------------------------------------------------------------------------
\* Nothing but the objects of S changes.
Others(S) == \A o \in Objects \ S : Present(o)' = Present(o)

Accounted == \A o \in Objects : Own(o) => Account(o)

LEMMA ObjectSets ==
    /\ Artifacts \subseteq Objects /\ Temporaries \subseteq Objects /\ Dirs \subseteq Objects
    /\ \A d \in Dirs : Inside(d) \subseteq Objects
  BY DEF Objects, Artifacts, PayloadFiles, Dirs, Temporaries, Inside

\* A step that changes the objects of S stays accountable when what it leaves
\* of them, and of what it had to undo, is still to be undone, and when the
\* files of a directory that is no longer to be removed stay as they are.
LEMMA AccountKept ==
    ASSUME Accounted, stale' = stale, NEW S, Others(S),
           \A o \in Objects : (o \in S \cup Undone \cup Temporary /\ Own(o)') => Account(o)',
           \A d \in Dirs : d \in Undone' \/ Inside(d) \cap (S \cup Undone') = {}
    PROVE  Accounted'
  <1> SUFFICES ASSUME NEW o \in Objects, Own(o)' PROVE Account(o)'
    BY DEF Accounted
  <1>1. CASE o \in S \cup Undone \cup Temporary
    BY <1>1
  <1>2. CASE o \notin S \cup Undone \cup Temporary
    <2>1. Own(o)
      BY <1>2 DEF Others, Own
    <2>2. GivenUp(o)
      BY <1>2, <2>1 DEF Accounted, Account
    <2>3. CASE o \in Undone'
      BY <2>3 DEF Account
    <2>4. CASE o \notin Undone'
      <3>1. o \in Dirs /\ Inside(o) \cap (S \cup Undone') = {} /\ Busy(o)
        BY <2>2, <2>4 DEF GivenUp
      <3>2. PICK f \in Inside(o) : Present(f)
        BY <3>1 DEF Busy
      <3>3. Present(f)'
        BY <3>1, <3>2, ObjectSets DEF Others
      <3>4. Busy(o)'
        BY <3>1, <3>2, <3>3 DEF Busy
      <3> QED BY <3>1, <3>4 DEF GivenUp, Account
    <2> QED BY <2>3, <2>4
  <1> QED BY <1>1, <1>2

\* The state of an object after a change.
LEMMA SetPoint ==
    ASSUME DiskType, NEW o \in Objects, NEW b \in BOOLEAN, Set(o, b)
    PROVE  Others({o}) /\ Present(o)' = b
  BY DEF DiskType, Set, Change, Others, Present

LEMMA SamePoint ==
    ASSUME UNCHANGED disk, NEW S
    PROVE  Others(S)
  BY DEF disk, Others, Present

LEMMA DropPoint ==
    ASSUME NEW f \in [Objects -> BOOLEAN], NEW t \in Temporaries, DropTemporary(t, f), ~faulted'
    PROVE  /\ UNCHANGED <<stale, fail>>
           /\ Present(t)' => t \in stale
           /\ \A o \in Objects \ {t} : Present(o)' = f[o]
  <1>1. UNCHANGED <<stale, fail>> /\ now' = [f EXCEPT ![t] = t \in stale]
    BY DEF DropTemporary, Fault, Change
  <1>2. t \in Objects
    BY ObjectSets
  <1>3. now'[t] = (t \in stale)
    BY <1>1, <1>2
  <1>4. \A o \in Objects \ {t} : now'[o] = f[o]
    BY <1>1
  <1> QED BY <1>1, <1>3, <1>4 DEF Present

LEMMA WritePoint ==
    ASSUME DiskType, NEW from, NEW to, NEW t \in Temporaries, WriteTemporary(from, to, t), ~faulted'
    PROVE  /\ pc = from /\ Others({t}) /\ UNCHANGED <<todo, result, method, stale, since>>
           /\ pc' = to \/ (pc' = "partial" /\ ~Own(t)')
  <1>1. pc = from /\ UNCHANGED <<todo, result, method, since>>
    BY DEF WriteTemporary, Goto, Abort, proc, hist
  <1>2. CASE pc' = to /\ Set(t, TRUE) /\ UNCHANGED hist
    BY <1>1, <1>2, SetPoint, ObjectSets DEF hist
  <1>3. CASE pc' = "partial" /\ DropTemporary(t, now)
    BY <1>1, <1>3, DropPoint DEF DiskType, Others, Present, Own
  <1> QED BY <1>2, <1>3 DEF WriteTemporary, Goto, Abort

LEMMA RenamePoint ==
    ASSUME DiskType, NEW from, NEW Done, NEW t \in Temporaries, NEW f \in PayloadFiles,
           Rename(from, Done, t, f), ~faulted'
    PROVE  /\ pc = from /\ UNCHANGED <<method, stale, since>> /\ ~Own(t)'
           /\ \/ Done /\ Others({t, f})
              \/ pc' = "partial" /\ UNCHANGED <<todo, result>> /\ Others({t})
  <1>1. pc = from /\ UNCHANGED <<method, since>>
    BY DEF Rename, proc, hist
  <1>2. CASE Done /\ Change([now EXCEPT ![f] = TRUE, ![t] = t \in stale]) /\ UNCHANGED hist
    <2>1. t # f /\ t \in Objects
      BY ObjectSets DEF Temporaries, PayloadFiles
    <2>2. now' = [[now EXCEPT ![f] = TRUE] EXCEPT ![t] = t \in stale]
      BY <1>2 DEF Change
    <2>3. now'[t] = (t \in stale)
      BY <2>1, <2>2 DEF DiskType
    <2>4. \A o \in Objects \ {t, f} : now'[o] = now[o]
      BY <2>1, <2>2 DEF DiskType
    <2> QED BY <1>1, <1>2, <2>3, <2>4 DEF hist, Others, Present, Own
  <1>3. CASE pc' = "partial" /\ UNCHANGED <<todo, result>> /\ DropTemporary(t, now)
    BY <1>1, <1>3, DropPoint DEF DiskType, Others, Present, Own
  <1> QED BY <1>2, <1>3 DEF Rename, Goto, Abort
\* What an action of PrepareStage leaves to be undone.
LEMMA PrepareAccount ==
    ASSUME DiskType, ProgressInv, AccountInv, method \in {"kexec", "grub"}, Prepare, ~faulted'
    PROVE  AccountInv'
  <1>0. /\ pc \in PreparePcs /\ Undone = Registered /\ Accounted
        /\ (pc \in {"probe"} \cup ScriptPcs => ~Present("buildInitrd"))
    BY PrepareMoving DEF PrepareMoves, PreparePcs, ProgressInv, AccountInv, Running, Undone, Accounted
  <1>00. pc' # "clean"
    BY PrepareMoving DEF PrepareMoves, PreparePcs
  <1> SUFFICES /\ pc' \in {"probe"} \cup ScriptPcs => ~Present("buildInitrd")'
               /\ Accounted'
    BY <1>00 DEF AccountInv, Accounted
  <1> USE AccountKept DEF Registered, BuildPcs, CopyPcs, ScriptPcs,
          PreparePcs, Temporary, BuildObjects, GrubObjects,
       Account, Inside, Dirs
  <1>1. CASE StatSources
    <2>1. pc = "stat" /\ pc' \in {"mkBuild", "idle"} /\ Others({}) /\ stale' = stale
      BY <1>1, SamePoint DEF StatSources, Goto, Return, Quiet, hist
    <2>2. Undone' = {}
      BY <1>0, <1>1 DEF StatSources, Goto, Return, Undone
    <2> QED BY <1>0, <2>1, <2>2
  <1>2. CASE MakeBuildDir
    <2>1. /\ pc = "mkBuild" /\ stale' = stale
          /\ \/ pc' = "rmOld" /\ Others({"buildDir"})
             \/ pc' = "partial" /\ Others({})
      BY <1>2, SetPoint, SamePoint, ObjectSets DEF MakeBuildDir, MakeDir, Goto, Abort, Quiet, hist, Dirs
    <2>2. Undone' = IF pc' = "rmOld" THEN Registered \cup {"buildDir", "buildInitrd"} ELSE Registered
      BY <1>0, <1>2, <2>1 DEF MakeBuildDir, MakeDir, Goto, Abort, Undone
    <2> QED BY <1>0, <2>1, <2>2
  <1>3. CASE RemoveOldInitrd
    <2>1. /\ pc = "rmOld" /\ stale' = stale
          /\ Others({"buildInitrd"})
          /\ pc' = "partial" \/ (pc' = "buildSpace" /\ ~Present("buildInitrd")')
      BY <1>3, SetPoint, SamePoint, ObjectSets DEF RemoveOldInitrd, Goto, Abort, Quiet, hist,
         Objects, Artifacts, PayloadFiles
    <2>2. Undone' = Registered
      BY <1>0, <1>3, <2>1 DEF RemoveOldInitrd, Goto, Abort, Undone
    <2> QED BY <1>0, <2>1, <2>2
  <1>4. CASE CheckBuildSpace
    <2>1. pc = "buildSpace" /\ stale' = stale /\ Others({}) /\ pc' \in {"mkConf", "partial"}
      BY <1>4, SamePoint DEF CheckBuildSpace, Check, Goto, Abort, Quiet, hist
    <2>2. Undone' = Registered
      BY <1>0, <1>4, <2>1 DEF CheckBuildSpace, Check, Goto, Abort, Undone
    <2> QED BY <1>0, <2>1, <2>2
  <1>5. CASE MakeConfigDir
    <2>1. /\ pc = "mkConf" /\ stale' = stale /\ todo' = todo /\ Others({"buildTmp"})
          /\ pc' = "mkinitramfs" \/ (pc' = "partial" /\ ~Own("buildTmp")')
      BY <1>5, WritePoint DEF MakeConfigDir, Temporaries
    <2>2. Undone' = Registered
      BY <1>0, <1>5, <2>1 DEF MakeConfigDir, Goto, Abort, Undone
    <2> QED BY <1>0, <2>1, <2>2
  <1>6. CASE RunMkinitramfs
    <2>0. PICK built \in BOOLEAN : DropTemporary("buildTmp", [now EXCEPT !["buildInitrd"] = built])
      BY <1>6 DEF RunMkinitramfs
    <2>1. [now EXCEPT !["buildInitrd"] = built] \in [Objects -> BOOLEAN]
      BY DEF DiskType
    <2>2. /\ UNCHANGED <<stale, fail>> /\ ~Own("buildTmp")'
          /\ \A o \in Objects \ {"buildTmp"} : Present(o)' = [now EXCEPT !["buildInitrd"] = built][o]
      BY <2>0, <2>1, DropPoint DEF Temporaries, Own
    <2>3. Others({"buildInitrd", "buildTmp"})
      BY <2>2 DEF Others, DiskType, Present
    <2>4. pc = "mkinitramfs" /\ pc' \in {"measure", "partial"} /\ Undone' = Registered
      BY <1>0, <1>6 DEF RunMkinitramfs, Goto, Abort, Undone
    <2> QED BY <1>0, <2>2, <2>3, <2>4
  <1>7. CASE MeasureInitramfs
    <2>1. /\ pc = "measure" /\ stale' = stale /\ Others({})
          /\ pc' \in {"mkGrub", "partial"} \/ (pc' = "sync" /\ method = "kexec")
      BY <1>7, SamePoint DEF MeasureInitramfs, Goto, Abort, Commit, Committed, Quiet, hist, ProgressInv
    <2>3. method' = method /\ (pc' # "sync" => todo' = todo)
      BY <1>7, <2>1 DEF MeasureInitramfs, Goto, Abort, Commit, Committed, Quiet, proc, ProgressInv
    <2>2. Undone' = Registered
      <3>1. CASE pc' = "sync"
        <4>1. Undone' = StageObjects("kexec")
          BY <2>1, <2>3, <3>1 DEF Undone, GrubPcs
        <4> QED BY <2>1, <3>1, <4>1 DEF StageObjects
      <3>2. CASE pc' # "sync"
        BY <1>0, <2>1, <2>3, <3>2 DEF Undone
      <3> QED BY <3>1, <3>2
    <2> QED BY <1>0, <2>1, <2>2
  <1>8. CASE MakeGrubDir
    <2>1. /\ pc = "mkGrub" /\ stale' = stale
          /\ \/ pc' = "bootSpace" /\ Others({"grubDir"})
             \/ pc' = "partial" /\ Others({})
      BY <1>8, SetPoint, SamePoint, ObjectSets DEF MakeGrubDir, MakeDir, Goto, Abort, Quiet, hist, Dirs
    <2>2. Undone' = IF pc' = "bootSpace" THEN Registered \cup {"grubDir", "grubInitrd"} ELSE Registered
      BY <1>0, <1>8, <2>1 DEF MakeGrubDir, MakeDir, Goto, Abort, Undone
    <2> QED BY <1>0, <2>1, <2>2
  <1>9. CASE CheckBootSpace
    <2>1. pc = "bootSpace" /\ stale' = stale /\ Others({}) /\ pc' \in {"copy", "partial"}
      BY <1>9, SamePoint DEF CheckBootSpace, Check, Goto, Abort, Quiet, hist
    <2>2. Undone' = Registered
      BY <1>0, <1>9, <2>1 DEF CheckBootSpace, Check, Goto, Abort, Undone
    <2> QED BY <1>0, <2>1, <2>2
  <1>10. CASE CopyToTemp
    <2>1. /\ pc = "copy" /\ stale' = stale /\ todo' = todo /\ Others({"grubTmp"})
          /\ pc' = "rename" \/ (pc' = "partial" /\ ~Own("grubTmp")')
      BY <1>10, WritePoint DEF CopyToTemp, Temporaries
    <2>2. Undone' = Registered
      BY <1>0, <1>10, <2>1 DEF CopyToTemp, Goto, Abort, Undone
    <2> QED BY <1>0, <2>1, <2>2
  <1>11. CASE RenameInitrd
    <2>1. /\ pc = "rename" /\ stale' = stale /\ ~Own("grubTmp")' /\ todo' = todo
          /\ pc' \in {"rmBuilt", "partial"} /\ Others({"grubTmp", "grubInitrd"})
      BY <1>11, RenamePoint DEF RenameInitrd, Goto, Temporaries, PayloadFiles, Others
    <2>2. Undone' = Registered
      BY <1>0, <1>11, <2>1 DEF Undone
    <2> QED BY <1>0, <2>1, <2>2
  <1>12. CASE RemoveBuilt
    <2>1. /\ pc = "rmBuilt" /\ stale' = stale
          /\ Others({"buildInitrd"})
          /\ pc' = "partial" \/ (pc' = "probe" /\ ~Present("buildInitrd")')
      BY <1>12, SetPoint, SamePoint, ObjectSets DEF RemoveBuilt, Goto, Abort, Quiet, hist,
         Objects, Artifacts, PayloadFiles
    <2>2. Undone' = Registered
      BY <1>0, <1>12, <2>1 DEF RemoveBuilt, Goto, Abort, Undone
    <2> QED BY <1>0, <2>1, <2>2
  <1>13. CASE ProbeBootFilesystem
    <2>1. pc = "probe" /\ stale' = stale /\ Others({}) /\ pc' \in {"writeScript", "partial"}
      BY <1>13, SamePoint DEF ProbeBootFilesystem, Goto, Abort, Quiet, hist
    <2>2. Registered \subseteq Undone' /\ Undone' \subseteq Registered \cup {"script"}
      BY <1>0, <1>13, <2>1 DEF ProbeBootFilesystem, Goto, Abort, Undone
    <2>3. ~Present("buildInitrd")'
      BY <1>0, <2>1 DEF Others, Objects, Artifacts, PayloadFiles
    <2> QED BY <1>0, <2>1, <2>2, <2>3
  <1>14. CASE WriteScriptTemp
    <2>1. /\ pc = "writeScript" /\ stale' = stale /\ todo' = todo /\ Others({"scriptTmp"})
          /\ pc' = "renameScript" \/ (pc' = "partial" /\ ~Own("scriptTmp")')
      BY <1>14, WritePoint DEF WriteScriptTemp, Temporaries
    <2>2. Undone' = Registered
      BY <1>0, <1>14, <2>1 DEF Undone
    <2>3. ~Present("buildInitrd")'
      BY <1>0, <2>1 DEF Others, Objects, Artifacts, PayloadFiles
    <2> QED BY <1>0, <2>1, <2>2, <2>3
  <1>15. CASE RenameScript
    <2>1. /\ pc = "renameScript" /\ stale' = stale /\ ~Own("scriptTmp")' /\ method' = method
          /\ Others({"scriptTmp", "script"})
          /\ pc' \in {"sync", "updateGrub"} \/ (pc' = "partial" /\ todo' = todo)
      BY <1>15, RenamePoint DEF RenameScript, Commit, Committed, Temporaries, PayloadFiles, Others
    <2>2. /\ Undone' \cup {"buildInitrd", "cfgEntry"} = Registered \cup {"cfgEntry"}
          /\ {"script", "buildDir", "grubDir", "grubInitrd"} \subseteq Undone'
      BY <1>0, <2>1 DEF Undone, ProgressInv, StageObjects, GrubPcs
    <2>3. ~Present("buildInitrd")'
      BY <1>0, <2>1 DEF Others, Objects, Artifacts, PayloadFiles
    <2> QED BY <1>0, <2>1, <2>2, <2>3 DEF Own
  <1> QED
    BY <1>1, <1>2, <1>3, <1>4, <1>5, <1>6, <1>7, <1>8, <1>9, <1>10,
       <1>11, <1>12, <1>13, <1>14, <1>15 DEF Prepare
----------------------------------------------------------------------------
\* The two cleanups.
LEMMA RemoveAccount ==
    ASSUME DiskType, ProgressInv, AccountInv, NEW o \in Artifacts, PartialStep(o) \/ CleanPath(o),
           ~faulted'
    PROVE  AccountInv'
  <1>1. /\ pc \in {"partial", "clean"} /\ pc' = pc /\ stale' = stale /\ todo' = todo \ {o}
        /\ o \in todo /\ since' = since /\ RemovePath(o)
    BY DEF PartialStep, CleanPath, CleanupFrame, Earliest
  <1>2. o \in Objects /\ o \notin {"armed", "cfgEntry"}
    BY ObjectSets DEF Artifacts, PayloadFiles, Dirs
  <1>3. DirsLast(todo) /\ DirsLast(todo \ {o}) /\ (o \in Dirs => Inside(o) \cap todo = {})
    BY <1>1, EarliestLast DEF PartialStep, CleanPath, ProgressInv
  <1>4. Accounted /\ Undone = todo /\ Undone' = todo \ {o} /\ Temporary = {}
    BY <1>1 DEF AccountInv, Accounted, Undone, Running, Temporary
  <1>5. CASE UNCHANGED disk /\ ~Present(o)
    <2>1. Others({}) /\ ~Own(o)'
      BY <1>5, SamePoint DEF disk, Present, Own
    <2>2. Accounted'
      BY <1>1, <1>3, <1>4, <2>1, AccountKept DEF DirsLast, Account
    <2> QED BY <1>1, <1>2, <1>5, <2>1, <2>2 DEF AccountInv, Accounted,
         Others, Running, ScriptPcs, disk, Present
  <1>6. CASE UNCHANGED disk /\ Busy(o)
    <2>1. Others({})
      BY <1>6, SamePoint
    <2>2. GivenUp(o)'
      BY <1>3, <1>4, <1>6 DEF GivenUp, Busy, disk, Present
    <2>3. Accounted'
      BY <1>1, <1>3, <1>4, <2>1, <2>2, AccountKept DEF DirsLast, Account
    <2>4. o # "script"
      BY <1>6 DEF Busy, Dirs
    <2> QED BY <1>1, <1>2, <1>6, <2>3, <2>4 DEF AccountInv, Accounted, Running, ScriptPcs, disk, Present
  <1>7. CASE Set(o, FALSE)
    <2>1. Others({o}) /\ ~Present(o)'
      BY <1>2, <1>7, SetPoint
    <2>2. \A d \in Dirs : d \in Undone' \/ Inside(d) \cap ({o} \cup Undone') = {}
      BY <1>1, <1>3, <1>4 DEF DirsLast, Dirs, Inside
    <2>3. Accounted'
      BY <1>1, <1>4, <2>1, <2>2, AccountKept DEF Account, Own
    <2> QED BY <1>1, <1>2, <2>1, <2>3
            DEF AccountInv, Accounted, Others, Running, ScriptPcs, Objects, Artifacts, PayloadFiles
  <1>8. faulted' = TRUE \/ UNCHANGED fail
    BY <1>1 DEF RemovePath, Fault
  <1> QED BY <1>1, <1>5, <1>6, <1>7 DEF RemovePath, Fault

LEMMA CleanAccount ==
    ASSUME DiskType, ProgressInv, AccountInv, Clean, ~faulted'
    PROVE  AccountInv'
  <1>1. ASSUME NEW o \in Artifacts, PartialStep(o) \/ CleanPath(o) PROVE AccountInv'
    BY <1>1, RemoveAccount
  <1>2. CASE PartialDone
    <2>1. /\ pc = "partial" /\ pc' = "idle" /\ todo = {} /\ todo' = {} /\ stale' = stale /\ Others({})
      BY <1>2, SamePoint DEF PartialDone, Return, Quiet, hist
    <2>2. Accounted /\ Undone = {} /\ Undone' = {} /\ Temporary = {}
      BY <2>1 DEF AccountInv, Accounted, Undone, Running, Temporary
    <2>3. Accounted'
      BY <2>1, <2>2, AccountKept
    <2> QED BY <2>1, <2>3 DEF AccountInv, Accounted, ScriptPcs
  <1>3. CASE Disarm
    <2>1. /\ pc = "clean" /\ pc' = pc /\ stale' = stale /\ todo' = todo \ {"armed"}
          /\ SetArmed(FALSE) /\ Earliest("armed", CleanRank)
      BY <1>3 DEF Disarm, CleanCommand, CleanupFrame, Fault
    <2>2. Others({"armed"}) /\ ~Present("armed")'
      BY <2>1 DEF SetArmed, Others, Present, DiskType, Objects
    <2>3. Accounted /\ Undone = todo /\ Undone' = todo' /\ Temporary = {}
      BY <2>1 DEF AccountInv, Accounted, Undone, Running, Temporary
    <2>4. DirsLast(todo')
      BY <2>1, EarliestLast
    <2>5. Accounted'
      BY <2>1, <2>2, <2>3, <2>4, AccountKept DEF DirsLast, Account, Own, Inside
    <2> QED BY <2>1, <2>2, <2>5
            DEF AccountInv, Accounted, Others, Running, ScriptPcs, Objects, Artifacts, PayloadFiles
  <1>4. CASE RefreshGrub
    <2>1. /\ pc = "clean" /\ pc' = pc /\ stale' = stale /\ todo' = todo \ {"cfgEntry"}
          /\ Earliest("cfgEntry", CleanRank)
          /\ \E b \in Regenerated : Set("cfgEntry", b)
      BY <1>4 DEF RefreshGrub, CleanCommand, CleanupFrame, Fault
    <2>2. "script" \notin todo /\ "cfgEntry" \in todo
      BY <2>1 DEF Earliest, CleanRank
    <2>3. now["script"] = FALSE
      BY <2>1, <2>2 DEF AccountInv, Present, DiskType, Objects, Artifacts, PayloadFiles
    <2>8. Set("cfgEntry", FALSE)
      BY <2>1, <2>3 DEF Regenerated, Present
    <2>4. Others({"cfgEntry"}) /\ ~Present("cfgEntry")'
      BY <2>8, SetPoint DEF Objects
    <2>5. Accounted /\ Undone = todo /\ Undone' = todo' /\ Temporary = {}
      BY <2>1 DEF AccountInv, Accounted, Undone, Running, Temporary
    <2>6. DirsLast(todo')
      BY <2>1, EarliestLast
    <2>7. Accounted'
      BY <2>1, <2>4, <2>5, <2>6, AccountKept DEF DirsLast, Account, Own, Inside
    <2> QED BY <2>1, <2>7 DEF AccountInv, Accounted, ScriptPcs
  <1>5. CASE CleanupDone
    <2>1. /\ pc = "clean" /\ pc' \in {"idle", "unload", "queueKexec", "stat"}
          /\ todo = {} /\ todo' = {} /\ stale' = stale /\ Others({})
          /\ pc' \in {"unload", "queueKexec"} => method' = "kexec"
      BY <1>5, SamePoint DEF CleanupDone, FallBack, Goto, Return, hist, proc, ProgressInv
    <2>2. /\ Accounted /\ Undone = {} /\ Temporary = {}
          /\ Undone' = IF pc' \in {"idle", "stat"} THEN {} ELSE StageObjects("kexec")
      BY <2>1 DEF AccountInv, Accounted, Undone, Running, Temporary, PreparePcs, GrubPcs
    <2>3. Accounted'
      BY <2>1, <2>2, AccountKept DEF StageObjects, Dirs, Inside
    <2> QED BY <2>1, <2>3 DEF AccountInv, Accounted, ScriptPcs
  <1> QED BY <1>1, <1>2, <1>3, <1>4, <1>5 DEF Clean

----------------------------------------------------------------------------
\* StageAndBoot: what it does joins what is undone.
LEMMA BootAccounted ==
    ASSUME Accounted, stale' = stale, pc \in KexecPcs \cup GrubPcs \cup {"sync"},
           NEW S \in SUBSET {"cfgEntry", "armed"}, Others(S), S \subseteq Undone',
           NEW T \in SUBSET {"cfgEntry", "armed"}, Undone' = StageObjects(method) \cup T,
           Undone \subseteq Undone'
    PROVE  Accounted'
  <1>1. Temporary = {}
    BY DEF Temporary, KexecPcs, GrubPcs
  <1>2. \A d \in Dirs : d \in Undone' \/ Inside(d) \cap (S \cup Undone') = {}
    BY DEF StageObjects, Dirs, Inside
  <1> QED BY <1>1, <1>2, AccountKept DEF Account

LEMMA BootAccount ==
    ASSUME DiskType, ProgressInv, AccountInv, Boot, method \in {"kexec", "grub"}, ~faulted'
    PROVE  AccountInv'
  <1>0. Accounted /\ pc # "idle"
    BY DEF AccountInv, Accounted, Running, Boot, Sync, KexecLoad, SystemctlKexec, KexecExecute,
           KexecUnload, UpdateGrub, ValidateGrubConfiguration, ValidateGrubStorage, ArmEntry,
           VerifyNextEntry, SystemctlReboot, RebootCommand, GrubCheck, GrubReboot
  <1>1. ASSUME Accounted', pc' \notin PreparePcs,
               pc' = "clean" => \/ todo' = StageObjects(method)
                                \/ method = "grub" /\ StageObjects(method) \subseteq todo'
        PROVE  AccountInv'
    BY <1>1 DEF AccountInv, Accounted, ScriptPcs, PreparePcs, StageObjects
  <1>2. ASSUME pc' = "idle", result' = "ok" PROVE AccountInv'
    BY <1>2 DEF AccountInv, Running, ScriptPcs
  <1> USE DEF Goto, Return, BeginCleanup, Undo, Undone, ProgressInv, KexecPcs, GrubPcs, PreparePcs
  <1>3. CASE Sync
    <2>1. Others({}) /\ stale' = stale
      BY <1>3 DEF Sync, disk, hist, Others, Present
    <2>2. /\ Undone = StageObjects(method)
          /\ Undone' = StageObjects(method) \cup (IF pc' = "updateGrub" THEN {"cfgEntry"} ELSE {})
      BY <1>3 DEF Sync, proc
    <2>3. Accounted'
      BY <1>0, <1>3, <2>1, <2>2, BootAccounted, ZenonT(60) DEF Sync
    <2> QED BY <1>1, <1>3, <2>3 DEF Sync
  <1>4. CASE KexecLoad \/ SystemctlKexec \/ KexecExecute \/ KexecUnload
    <2>1. Others({}) /\ stale' = stale /\ pc \in KexecPcs
      BY <1>4, SamePoint DEF KexecLoad, SystemctlKexec, KexecExecute, KexecUnload, hist, disk, Others, Present
    <2>2. CASE pc' # "idle"
      <3>1. Undone = StageObjects(method) /\ Undone' = StageObjects(method)
        BY <1>4, <2>2 DEF KexecLoad, SystemctlKexec, KexecExecute, KexecUnload, proc
      <3>2. Accounted'
        BY <1>0, <2>1, <3>1, BootAccounted
      <3> QED BY <1>1, <1>4, <3>2 DEF KexecLoad, SystemctlKexec, KexecExecute, KexecUnload
    <2> QED BY <1>2, <1>4, <2>2 DEF KexecLoad, SystemctlKexec, KexecExecute, KexecUnload
  <1>5. CASE UpdateGrub
    <2>1. Others({"cfgEntry"})
      <3>1. UNCHANGED disk \/ \E b \in BOOLEAN : Set("cfgEntry", b)
        BY <1>5, RegeneratedType DEF UpdateGrub
      <3> QED BY <3>1, SetPoint, SamePoint DEF Objects
    <2>2. /\ pc = "updateGrub" /\ stale' = stale /\ method' = method
          /\ pc' = "checkConfig" \/ (pc' = "clean" /\ todo' = StageObjects(method) \cup {"cfgEntry"})
      BY <1>5 DEF UpdateGrub, hist, proc
    <2>3. Undone = StageObjects(method) \cup {"cfgEntry"} /\ Undone' = StageObjects(method) \cup {"cfgEntry"}
      BY <2>2
    <2>4. Accounted'
      BY <1>0, <2>1, <2>2, <2>3, BootAccounted
    <2> QED BY <1>1, <2>2, <2>4
  <1>6. CASE ValidateGrubConfiguration \/ ValidateGrubStorage
    <2>1. Others({})
      BY <1>6, SamePoint DEF ValidateGrubConfiguration, ValidateGrubStorage, GrubCheck
    <2>2. /\ pc \in {"checkConfig", "checkStorage"} /\ stale' = stale /\ method' = method
          /\ pc' \in {"checkStorage", "arm"} \/ (pc' = "clean" /\ todo' = StageObjects(method) \cup {"cfgEntry"})
      BY <1>6 DEF ValidateGrubConfiguration, ValidateGrubStorage, GrubCheck, hist, proc
    <2>3. Undone = StageObjects(method) \cup {"cfgEntry"} /\ Undone' = StageObjects(method) \cup {"cfgEntry"}
      BY <2>2
    <2>4. Accounted'
      BY <1>0, <2>1, <2>2, <2>3, BootAccounted
    <2> QED BY <1>1, <2>2, <2>4
  <1>7. CASE ArmEntry \/ VerifyNextEntry
    <2>1. Others({"armed"})
      BY <1>7, SamePoint
         DEF ArmEntry, GrubReboot, VerifyNextEntry, GrubCheck, SetArmed, Others, Present, DiskType
    <2>2. /\ pc \in {"arm", "verify"} /\ stale' = stale /\ method' = method
          /\ \/ pc' \in {"verify", "queueReboot"}
             \/ (pc' = "clean" /\ todo' = StageObjects(method) \cup {"armed", "cfgEntry"})
      BY <1>7 DEF ArmEntry, GrubReboot, VerifyNextEntry, GrubCheck, hist, proc
    <2>3. Undone \subseteq Undone' /\ Undone' = StageObjects(method) \cup {"armed", "cfgEntry"}
      BY <2>2
    <2>4. Accounted'
      BY <1>0, <2>1, <2>2, <2>3, BootAccounted
    <2> QED BY <1>1, <2>2, <2>4
  <1>8. CASE SystemctlReboot \/ RebootCommand
    <2>1. Others({}) /\ stale' = stale
      BY <1>8, SamePoint DEF SystemctlReboot, RebootCommand, hist
    <2>2. /\ pc \in {"queueReboot", "reboot"} /\ method' = method
          /\ \/ pc' = "reboot"
             \/ (pc' = "idle" /\ result' = "ok")
             \/ (pc' = "clean" /\ todo' = StageObjects(method) \cup {"armed", "cfgEntry"})
      BY <1>8 DEF SystemctlReboot, RebootCommand, proc
    <2>3. CASE pc' # "idle"
      <3>1. Undone = Undone' /\ Undone' = StageObjects(method) \cup {"armed", "cfgEntry"}
        BY <2>2, <2>3
      <3>2. Accounted'
        BY <1>0, <2>1, <2>2, <3>1, BootAccounted
      <3> QED BY <1>1, <2>2, <2>3, <3>2
    <2> QED BY <1>2, <2>2, <2>3
  <1> QED BY <1>3, <1>4, <1>5, <1>6, <1>7, <1>8 DEF Boot
----------------------------------------------------------------------------
\* The firmware changes nothing but next_entry, and does not set it.
LEMMA BootedPoint ==
    ASSUME DiskType, host.plain \in BOOLEAN, FirmwareBoot(now)
    PROVE  /\ Others({"armed"}) /\ (Present("armed")' => Present("armed"))
           /\ ~loaded'
  BY DEF DiskType, FirmwareBoot, Others, Present, Objects

LEMMA MachineAccount ==
    ASSUME DiskType, host.plain \in BOOLEAN, ProgressInv, UndoneInv, PlainInv, Machine
    PROVE  UndoneInv'
  <1> USE DEF UndoneInv, PlainInv
  <1>1. ASSUME ~Running', pc' = "idle" PROVE UndoneInv'
    BY <1>1 DEF AccountInv, ScriptPcs
  <1>2. ASSUME UNCHANGED <<pc, todo, method, result, since, stale, faulted>>, UNCHANGED now
        PROVE  UndoneInv'
    <2>1. Accounted => Accounted'
      BY <1>2 DEF Accounted, Own, Account, Undone, Temporary, GivenUp, Busy, Present
    <2> QED BY <1>2, <2>1 DEF AccountInv, Accounted, Running, Present
  <1>3. ASSUME pc = "idle", pc' = "idle", UNCHANGED <<result, since, stale, faulted>>,
               FirmwareBoot(now), todo' = {}
        PROVE  UndoneInv'
    <2>1. SUFFICES ASSUME ~faulted, Running PROVE Accounted'
      BY <1>3 DEF AccountInv, Accounted, ScriptPcs, Running
    <2>2. Accounted /\ Undone = {} /\ Undone' = {} /\ Temporary = {}
      BY <1>3, <2>1 DEF AccountInv, Accounted, Undone, Temporary, ProgressInv
    <2>3. Own("armed")' => Own("armed")
      BY <1>3, BootedPoint DEF Own
    <2>4. ~Own("armed")
      BY <2>2 DEF Accounted, Account, GivenUp, Dirs, Objects
    <2> QED BY <1>3, <2>2, <2>3, <2>4, BootedPoint, AccountKept DEF Inside
  <1>4. CASE Cancel
    BY <1>2, <1>4 DEF Cancel, hist, fail, disk
  <1>5. CASE Kill
    BY <1>1, <1>5 DEF Kill, Return, Running
  <1>6. CASE PowerLoss
    BY <1>1, <1>6 DEF PowerLoss, Running
  <1>7. CASE Restart
    <2>1. CASE pc # "idle"
      BY <1>1, <1>7, <2>1 DEF Restart, Running
    <2>2. CASE pc = "idle" /\ FirmwareBoot(now)
      BY <1>3, <1>7, <2>2 DEF Restart, hist, fail
    <2>3. CASE pc = "idle" /\ now' = now
      BY <1>2, <1>7, <2>3 DEF Restart, hist, fail, proc, ProgressInv
    <2> QED BY <1>7, <2>1, <2>2, <2>3 DEF Restart
  <1>8. CASE WriterHalts \/ WriterStartsWriting \/ WriterFinishes
    BY <1>2, <1>8 DEF WriterHalts, WriterStartsWriting, WriterFinishes, hist, fail, proc, disk
  <1>9. CASE PowerCycle
    <2>1. CASE FirmwareBoot(now)
      BY <1>3, <1>9, <2>1 DEF PowerCycle, hist, fail, ProgressInv
    <2>2. CASE UNCHANGED disk
      BY <1>2, <1>9, <2>2 DEF PowerCycle, hist, fail, proc, disk
    <2> QED BY <1>9, <2>1, <2>2 DEF PowerCycle
  <1>10. CASE StartRun
    <2>1. Accounted'
      BY <1>10 DEF StartRun, Accounted, Own, disk, Present
    <2> QED BY <1>10, <2>1 DEF StartRun, AccountInv, Accounted, ScriptPcs
  <1>11. CASE ManualRecovery
    BY <1>1, <1>11 DEF ManualRecovery, Running
  <1> QED BY <1>4, <1>5, <1>6, <1>7, <1>8, <1>9, <1>10, <1>11 DEF Machine

\* The installer does not forget that an undo operation failed.
LEMMA InstallerFaults ==
    ASSUME DiskType, Installer
    PROVE  FaultedGrows
  <1> USE DEF FaultedGrows, fail, hist, Fault, Quiet
  <1>1. CASE Prepare
    BY <1>1, PrepareKeeps DEF GrantsKept
  <1>2. ASSUME NEW o \in Artifacts, PartialStep(o) \/ CleanPath(o) PROVE FaultedGrows
    BY <1>2 DEF PartialStep, CleanPath, RemovePath
  <1>3. CASE PartialDone \/ CleanupDone
    BY <1>3 DEF PartialDone, CleanupDone
  <1>4. CASE Disarm
    BY <1>4 DEF Disarm, CleanCommand
  <1>5. CASE RefreshGrub
    BY <1>5 DEF RefreshGrub, CleanCommand
  <1>6. CASE Boot
    BY <1>6 DEF Boot, Sync, KexecLoad, SystemctlKexec, KexecExecute, KexecUnload, UpdateGrub,
                ValidateGrubConfiguration, ValidateGrubStorage, ArmEntry, VerifyNextEntry,
                SystemctlReboot, RebootCommand, GrubCheck, GrubReboot
  <1> QED BY <1>1, <1>2, <1>3, <1>4, <1>5, <1>6 DEF Installer, Clean

\* A kernel image that is still loaded after an error was there before, or
\* kexec -l reported an error and yet loaded it.
LoadedAfterError ==
    (pc = "idle" /\ result = "err" /\ since = "nothing" /\ loaded) =>
        ("loaded" \in stale \/ Excused)

LEMMA ErrorUnloads ==
    ASSUME TypeOK, PlainInv, HandoverInv, ProgressInv, LoadedAfterError, [Next]_vars
    PROVE  LoadedAfterError'
  <1>0. DiskType /\ host.plain \in BOOLEAN
    BY TypeParts, HostType
  <1>1. CASE Installer
    <2>1. InstallerStep
      BY <1>0, <1>1, PrepareSteps, CleanSteps, BootSteps DEF Installer
    <2>2. Working \/ Failing \/ Succeeding
      BY <2>1 DEF InstallerStep
    <2>3. CASE Working
      BY <2>3 DEF Working, LoadedAfterError
    <2>4. CASE Failing
      <3>1. /\ loaded' = loaded /\ (loaded => ("loaded" \in stale \/ Excused))
            /\ UNCHANGED <<faulted, loadFailed>> /\ ("loaded" \in stale' <=> "loaded" \in stale)
        BY <2>4 DEF Failing, StaleKept
      <3> QED BY <3>1 DEF LoadedAfterError, Excused
    <2>5. CASE Succeeding
      BY <2>5 DEF Succeeding, LoadedAfterError
    <2> QED BY <2>2, <2>3, <2>4, <2>5
  <1>2. CASE Machine
    <2> USE DEF LoadedAfterError, Excused
    <2>1. CASE Cancel \/ Kill
      BY <1>2, <2>1 DEF Cancel, Kill, Return, hist, fail, boot
    <2>2. CASE PowerLoss \/ StartRun \/ ManualRecovery
      BY <1>2, <2>2 DEF PowerLoss, StartRun, ManualRecovery
    <2>3. CASE Restart
      BY <1>0, <2>3, BootedPoint DEF Restart, hist, fail
    <2>4. CASE WriterHalts \/ WriterStartsWriting \/ WriterFinishes
      BY <1>2, <2>4 DEF WriterHalts, WriterStartsWriting, WriterFinishes, hist, fail, proc, disk
    <2>5. CASE PowerCycle
      BY <1>0, <2>5, BootedPoint DEF PowerCycle, hist, fail
    <2> QED BY <1>2, <2>1, <2>2, <2>3, <2>4, <2>5 DEF Machine
  <1>3. CASE UNCHANGED vars
    BY <1>3 DEF vars, boot, hist, fail, LoadedAfterError, Excused
  <1> QED BY <1>1, <1>2, <1>3 DEF Next

\* README "Returned staging errors automatically unload a pending kexec image,
\* clear an armed GRUB entry, remove installer-owned files, and regenerate
\* grub.cfg": whatever signals, kills and power losses came before, a run that
\* returns an error and had no undo operation fail leaves nothing of its own
\* but directories that are not empty.
THEOREM ErrorUndoesThisRunHolds == Spec => []ErrorUndoesThisRun
  <1>1. Init => ProgressInv /\ UndoneInv /\ LoadedAfterError
    BY DEF Init, ProgressInv, UndoneInv, AccountInv, Running, LoadedAfterError, PreparePcs, KexecPcs,
           GrubPcs, CopyPcs, ScriptPcs
  <1>2. TypeOK /\ PlainInv /\ HandoverInv /\ ProgressInv /\ UndoneInv /\ LoadedAfterError /\ [Next]_vars
            => ProgressInv' /\ UndoneInv' /\ LoadedAfterError'
    <2> SUFFICES ASSUME TypeOK, PlainInv, HandoverInv, ProgressInv, UndoneInv, LoadedAfterError,
                        [Next]_vars
                 PROVE  ProgressInv' /\ UndoneInv'
      BY ErrorUnloads
    <2>0. DiskType /\ host.plain \in BOOLEAN /\ method \in {"kexec", "grub"}
      BY TypeParts, HostType DEF TypeOK
    <2>1. ASSUME Installer, ~faulted' PROVE AccountInv
      <3>1. FaultedGrows
        BY <2>0, <2>1, InstallerFaults
      <3> QED BY <2>1, <3>1 DEF UndoneInv, FaultedGrows
    <2>2. CASE Prepare
      BY <2>0, <2>1, <2>2, PrepareProgress, PrepareAccount DEF UndoneInv, Installer
    <2>3. CASE Clean
      BY <2>0, <2>1, <2>3, CleanProgress, CleanAccount DEF UndoneInv, Installer
    <2>4. CASE Boot
      BY <2>0, <2>1, <2>4, BootProgress, BootAccount DEF UndoneInv, Installer
    <2>5. CASE Machine
      BY <2>0, <2>5, MachineProgress, MachineAccount
    <2>6. CASE UNCHANGED vars
      <3>1. UNCHANGED <<pc, todo, method, after, fellBack, result, since, stale, faulted, now>>
        BY <2>6 DEF vars, proc, disk, hist, fail
      <3>2. ProgressInv'
        BY <3>1 DEF ProgressInv, Registered
      <3>3. Accounted => Accounted'
        BY <3>1 DEF Accounted, Own, Account, Undone, Temporary, GivenUp, Busy, Present
      <3> QED BY <3>1, <3>2, <3>3 DEF UndoneInv, AccountInv, Accounted, Running, Present
    <2> QED BY <2>2, <2>3, <2>4, <2>5, <2>6 DEF Next, Installer
  <1>3. ProgressInv /\ UndoneInv /\ LoadedAfterError => ErrorUndoesThisRun
    BY DEF ProgressInv, UndoneInv, AccountInv, LoadedAfterError, ErrorUndoesThisRun, Running, Own,
           Account, Undone, Temporary, GivenUp, Excused
  <1> QED BY <1>1, <1>2, <1>3, TypeCorrect, PlainAlways, BootsAlways, PTL DEF Spec

=============================================================================
