------------------------------- MODULE Stage -------------------------------
(***************************************************************************)
(* Staging of the RAM writer and the hand-over of the machine to it:       *)
(* src/internal/install/stage.go, with the parts of initramfs.go that      *)
(* touch the staging directories.  One action per step between which the   *)
(* installer can be interrupted, killed or lose power.                     *)
(*                                                                         *)
(* Objects are the things an installation leaves on the host: files,       *)
(* directories, the menu entry in grub.cfg and the next_entry of grubenv.  *)
(* Their contents are abstracted to presence.  Files of the installer's    *)
(* own are written to a temporary, synced and renamed; the output of       *)
(* mkinitramfs is not, and is present from the moment it is built until    *)
(* the sync before the commit makes it durable.                            *)
(***************************************************************************)
EXTENDS Naturals

CONSTANTS MaxRuns,        \* bound: how often the administrator starts the installer
          MaxInterrupts,  \* bound: signals, forced kills and power losses, together
          MaxFaults       \* bound: undo operations that fail

ASSUME BoundsAssumption ==
    MaxRuns \in Nat /\ MaxInterrupts \in Nat /\ MaxFaults \in Nat

Temporaries == {"buildTmp", "grubTmp", "scriptTmp"}
PayloadFiles == {"buildInitrd", "grubInitrd", "script"}
Dirs == {"buildDir", "grubDir"}
Artifacts == PayloadFiles \cup Dirs
Objects == Artifacts \cup Temporaries \cup {"cfgEntry", "armed"}

\* The files that live in a directory and keep rmdir from removing it.
Inside(d) == IF d = "buildDir" THEN {"buildInitrd", "buildTmp"}
                               ELSE {"grubInitrd", "grubTmp"}

PreparePcs == {"stat", "mkBuild", "rmOld", "buildSpace", "mkConf", "mkinitramfs",
               "measure", "mkGrub", "bootSpace", "copy", "rename", "rmBuilt",
               "probe", "writeScript", "renameScript"}
KexecPcs == {"load", "queueKexec", "execKexec", "unload"}
GrubPcs == {"updateGrub", "checkConfig", "checkStorage", "arm", "verify",
            "queueReboot", "reboot"}
Pcs == PreparePcs \cup KexecPcs \cup GrubPcs \cup {"idle", "sync", "clean", "partial"}

\* What the host offers: the method preflight selected, whether GRUB is the
\* fallback, whether grubenv is on a plain ext2/3/4 file system.
Hosts == {h \in [method : {"kexec", "grub"}, grub : BOOLEAN, plain : BOOLEAN] :
             h.method = "grub" => h.grub}

VARIABLES
    host,        \* what preflight found, fixed
    pc,          \* next step of the installer process, "idle" when there is none
    method,      \* disk.Method of the attempt being made
    after,       \* where cleanupStage returns to
    todo,        \* PrepareStage: partialFiles and partialDirs; in a cleanup: what it has left to do
    cleanupErr,  \* cleanupStage collected an error
    fellBack,    \* the GRUB fallback of a failed kexec is in progress
    result,      \* what StageAndBoot returned: "none" while it runs or when it was killed
    cancelled,   \* the context of the run is cancelled (SIGINT, SIGTERM)
    now,         \* which objects exist, as the running system sees it
    unsynced,    \* objects whose state on the medium may differ from now
    loaded,      \* the kernel holds an image loaded by kexec -l
    pending,     \* the shutdown job systemd has accepted
    mach,        \* what runs on the machine
    via,         \* how the writer was reached
    target,      \* what the target disk holds
    stale,       \* objects (and "loaded") the current attempt found and does not own
    faulted,     \* history: an undo operation of this run failed
    loadFailed,  \* history: kexec -l reported an error and yet loaded the image
    since,       \* history: what happened to the host after this run began
    runs, interrupts, faults

proc == <<method, after, cleanupErr, fellBack, cancelled>>
disk == <<now, unsynced>>
boot == <<loaded, pending, mach, via, target>>
fail == <<faulted, faults>>
hist == <<stale, fail, loadFailed, since>>
env  == <<host, runs, interrupts>>
vars == <<pc, todo, result, proc, disk, boot, hist, env>>

Init ==
    /\ host \in Hosts
    /\ pc = "idle" /\ method = host.method /\ after = "return"
    /\ todo = {} /\ cleanupErr = FALSE /\ fellBack = FALSE
    /\ result = "none" /\ cancelled = FALSE
    /\ now = [o \in Objects |-> FALSE] /\ unsynced = {}
    /\ loaded = FALSE /\ pending = "none" /\ mach = "linux" /\ via = "none"
    /\ target = "linux"
    /\ stale = {} /\ faulted = FALSE /\ loadFailed = FALSE /\ since = "nothing"
    /\ runs = 0 /\ interrupts = 0 /\ faults = 0

----------------------------------------------------------------------------
(* Small steps shared by the actions. *)

Present(o) == now[o]

\* The running system changes the state of some objects.
Change(f) == /\ now' = f
             /\ unsynced' = unsynced \cup {o \in Objects : f[o] # now[o]}

Set(o, b) == Change([now EXCEPT ![o] = b])

\* grub-editenv syncs the environment block it writes.
SetArmed(b) == /\ now' = [now EXCEPT !["armed"] = b]
               /\ unsynced' = unsynced \ {"armed"}

Goto(p) == pc' = p /\ UNCHANGED <<result, todo>>

\* A return of StageAndBoot.
Return(r) == pc' = "idle" /\ result' = r /\ todo' = {}

\* An error return inside PrepareStage: the deferred cleanupPartialStage runs.
Abort == Goto("partial")

Quiet == UNCHANGED <<proc, boot, hist, env>>

\* Mutant: without the guard for the paths a kexec stage leaves empty.
EmptyPathObjects(m) == IF m = "kexec" THEN {"", "buildInitrd", "buildDir"}
                       ELSE {"script", "grubInitrd", "grubDir", "buildDir"}

\* cleanupStage(stage, clearNextEntry, refreshGRUB); the paths of the stage
\* depend on its method, undo holds "armed" and "cfgEntry" when asked for.
StageObjects(m) == IF m = "kexec" THEN {"buildInitrd", "buildDir"}
                   ELSE {"script", "grubInitrd", "grubDir", "buildDir"}

BeginCleanup(a, undo) ==
    /\ pc' = "clean" /\ after' = a /\ cleanupErr' = FALSE
    /\ todo' = StageObjects(method) \cup undo
    /\ UNCHANGED <<result, method, fellBack, cancelled>>

\* An undo operation fails.
Fault == faults < MaxFaults /\ faults' = faults + 1 /\ faulted' = TRUE

\* A deferred removal of a temporary whose error the code drops: a temporary
\* of an earlier run has another name and stays, one that could not be removed
\* belongs to nobody afterwards.
DropTemporary(t, f) ==
    \/ Change([f EXCEPT ![t] = t \in stale]) /\ UNCHANGED <<stale, fail>>
    \/ Change([f EXCEPT ![t] = TRUE]) /\ stale' = stale \cup {t} /\ Fault

----------------------------------------------------------------------------
(* PrepareStage: the forms its steps have, and the steps *)

\* A check that changes nothing.
Check(from, to) ==
    /\ pc = from
    /\ Goto(to) \/ Abort
    /\ Quiet /\ UNCHANGED disk

\* MkdirAll, then the directory and the file it will hold join the partial lists.
MakeDir(from, to, d, f) ==
    /\ pc = from
    /\ \/ /\ pc' = to /\ todo' = todo \cup {d, f}
          /\ Set(d, TRUE) /\ UNCHANGED result
       \/ Abort /\ UNCHANGED disk
    /\ Quiet

WriteTemporary(from, to, t) ==
    /\ pc = from
    /\ \/ Goto(to) /\ Set(t, TRUE) /\ UNCHANGED hist
       \/ Abort /\ DropTemporary(t, now) /\ UNCHANGED <<loadFailed, since>>
    /\ UNCHANGED <<proc, boot, env>>

\* os.Rename of a temporary over its destination.
Rename(from, Done, t, f) ==
    /\ pc = from
    /\ \/ /\ Done /\ Change([now EXCEPT ![f] = TRUE, ![t] = t \in stale])
          /\ UNCHANGED hist
       \/ Abort /\ DropTemporary(t, now) /\ UNCHANGED <<loadFailed, since>>
    /\ UNCHANGED <<proc, boot, env>>

\* The sources are looked at before the deferred cleanup is registered.
StatSources ==
    /\ pc = "stat"
    /\ Goto("mkBuild") \/ Return("err")
    /\ Quiet /\ UNCHANGED disk

\* Mutant: the output path joins partialFiles only once it has been built.
LateRegistration == MakeDir("mkBuild", "rmOld", "buildDir", "buildDir")

MakeBuildDir == MakeDir("mkBuild", "rmOld", "buildDir", "buildInitrd")

RemoveOldInitrd ==
    /\ pc = "rmOld"
    /\ \/ Goto("buildSpace") /\ Set("buildInitrd", FALSE)
       \/ Present("buildInitrd") /\ Abort /\ UNCHANGED disk
    /\ Quiet

\* Image and base initramfs sizes, free space, and the checks BuildInitramfs
\* makes before it creates anything.
CheckBuildSpace == Check("buildSpace", "mkConf")

MakeConfigDir == WriteTemporary("mkConf", "mkinitramfs", "buildTmp")

\* A failed mkinitramfs may leave its output when the removal of it fails too.
RunMkinitramfs ==
    /\ pc = "mkinitramfs"
    /\ \E built \in BOOLEAN :
          /\ \/ ~cancelled /\ built /\ Goto("measure")
             \/ Abort
          /\ DropTemporary("buildTmp", [now EXCEPT !["buildInitrd"] = built])
    /\ UNCHANGED <<proc, boot, env, loadFailed, since>>

\* The first attempt is synced, the fallback goes straight on to GRUB.
Committed == IF fellBack THEN "updateGrub" ELSE "sync"

Commit == pc' = Committed /\ todo' = {} /\ UNCHANGED result

\* lsinitramfs and the memory estimate; a kexec stage is complete here.
MeasureInitramfs ==
    /\ pc = "measure"
    /\ \/ ~cancelled /\ method = "kexec" /\ Commit
       \/ ~cancelled /\ method = "grub" /\ Goto("mkGrub")
       \/ Abort
    /\ Quiet /\ UNCHANGED disk

MakeGrubDir == MakeDir("mkGrub", "bootSpace", "grubDir", "grubInitrd")

CheckBootSpace == Check("bootSpace", "copy")

\* copyFileAtomic: write and sync a temporary, rename it.
CopyToTemp == WriteTemporary("copy", "rename", "grubTmp")

RenameInitrd == Rename("rename", Goto("rmBuilt"), "grubTmp", "grubInitrd")

RemoveBuilt ==
    /\ pc = "rmBuilt"
    /\ \/ Goto("probe") /\ Set("buildInitrd", FALSE)
       \/ Abort /\ UNCHANGED disk
    /\ Quiet

\* grubScript: grub-probe and findmnt; the script path joins partialFiles.
ProbeBootFilesystem ==
    /\ pc = "probe"
    /\ \/ /\ ~cancelled
          /\ pc' = "writeScript" /\ todo' = todo \cup {"script"} /\ UNCHANGED result
       \/ Abort
    /\ Quiet /\ UNCHANGED disk

\* writeFileAtomic.
WriteScriptTemp == WriteTemporary("writeScript", "renameScript", "scriptTmp")

RenameScript == Rename("renameScript", Commit, "scriptTmp", "script")

----------------------------------------------------------------------------
(* cleanupPartialStage and cleanupStage *)

\* The order in which each cleanup works: rank in the loop that removes.
PartialRank == [buildInitrd |-> 1, grubInitrd |-> 2, script |-> 3,
                grubDir |-> 4, buildDir |-> 5]
\* Mutant: the files are removed before next_entry is unset.
LateDisarmRank == [script |-> 1, grubInitrd |-> 2, buildInitrd |-> 2,
                   grubDir |-> 3, buildDir |-> 4, armed |-> 5, cfgEntry |-> 6]

CleanRank == [armed |-> 1, script |-> 2, grubInitrd |-> 3, buildInitrd |-> 3,
              grubDir |-> 4, buildDir |-> 5, cfgEntry |-> 6]

Earliest(o, rank) == o \in todo /\ \A p \in todo : rank[o] <= rank[p]

\* os.Remove of a file or directory: a missing one and a directory that is
\* not empty are no errors.
Busy(o) == o \in Dirs /\ \E f \in Inside(o) : Present(f)

RemovePath(o) ==
    \/ (~Present(o) \/ Busy(o)) /\ UNCHANGED <<disk, cleanupErr, fail>>
    \/ Present(o) /\ ~Busy(o) /\ Set(o, FALSE) /\ UNCHANGED <<cleanupErr, fail>>
    \/ Present(o) /\ cleanupErr' = TRUE /\ Fault /\ UNCHANGED disk

CleanupFrame(o) ==
    /\ todo' = todo \ {o}
    /\ UNCHANGED <<pc, result, method, after, fellBack, cancelled, boot, env,
                   stale, loadFailed, since>>

PartialStep(o) ==
    /\ pc = "partial" /\ Earliest(o, PartialRank)
    /\ RemovePath(o) /\ CleanupFrame(o)

PartialDone ==
    /\ pc = "partial" /\ todo = {}
    /\ Return("err")
    /\ Quiet /\ UNCHANGED disk

CleanPath(o) ==
    /\ pc = "clean" /\ Earliest(o, CleanRank)
    /\ RemovePath(o) /\ CleanupFrame(o)

\* Outcomes of update-grub: grub.cfg offers the entry only if the script is
\* there, and a failed run may or may not have replaced grub.cfg.
Regenerated == {FALSE, Present("script")}

CleanCommand(o, Succeeds, Fails) ==
    /\ pc = "clean" /\ Earliest(o, CleanRank)
    /\ \/ Succeeds /\ UNCHANGED <<cleanupErr, fail>>
       \/ Fails /\ cleanupErr' = TRUE /\ Fault
    /\ CleanupFrame(o)

Disarm == CleanCommand("armed", SetArmed(FALSE), UNCHANGED disk \/ SetArmed(FALSE))

RefreshGrub ==
    CleanCommand("cfgEntry",
                 \E b \in Regenerated : Set("cfgEntry", b),
                 \E b \in Regenerated \cup {Present("cfgEntry")} : Set("cfgEntry", b))

\* Mutant: the fallback calls StageAndBoot again and forgets to set disk.Method.
FallBackRepeats == Goto("stat") /\ UNCHANGED proc

\* StageAndBoot prepares a second stage, for GRUB.
FallBack ==
    /\ Goto("stat") /\ method' = "grub" /\ fellBack' = TRUE
    /\ UNCHANGED <<after, cleanupErr, cancelled>>

CleanupDone ==
    LET mayFallBack == ~cleanupErr /\ host.grub IN
    /\ pc = "clean" /\ todo = {}
    /\ \/ /\ after = "return" \/ (after = "decide" /\ ~mayFallBack)
          /\ Return("err") /\ UNCHANGED proc
       \/ /\ after = "exec"
          /\ Goto(IF cleanupErr THEN "unload" ELSE "queueKexec")
          /\ UNCHANGED proc
       \/ after = "decide" /\ mayFallBack /\ FallBack
    /\ UNCHANGED <<disk, boot, hist, env>>

----------------------------------------------------------------------------
(* StageAndBoot, executeKexec, executeGRUB *)

\* Mutant: the staged writer is not synced.
NoSync ==
    /\ pc = "sync"
    /\ Goto(IF method = "kexec" THEN "load" ELSE "updateGrub")
    /\ UNCHANGED <<proc, disk, boot, hist, env>>

Sync ==
    /\ pc = "sync"
    /\ \/ /\ ~cancelled /\ Goto(IF method = "kexec" THEN "load" ELSE "updateGrub")
          /\ unsynced' = {} /\ UNCHANGED <<now, proc>>
       \/ BeginCleanup("return", {}) /\ UNCHANGED disk
    /\ UNCHANGED <<boot, hist, env>>

\* The command may be interrupted after the kernel has taken the image.
KexecLoad ==
    /\ pc = "load"
    /\ \/ /\ ~cancelled /\ loaded' = TRUE /\ UNCHANGED loadFailed
          /\ BeginCleanup("exec", {})
       \/ /\ UNCHANGED <<loaded, loadFailed>> /\ BeginCleanup("decide", {})
       \/ /\ ~cancelled /\ loaded' = TRUE /\ loadFailed' = TRUE
          /\ BeginCleanup("decide", {})
    /\ UNCHANGED <<disk, pending, mach, via, target, stale, fail, since, env>>

SystemctlKexec ==
    /\ pc = "queueKexec"
    /\ \/ ~cancelled /\ pending' = "kexec" /\ Return("ok")
       \/ ~cancelled /\ pending' = "kexec" /\ Goto("execKexec")
       \/ UNCHANGED pending /\ Goto("execKexec")
    /\ UNCHANGED <<disk, loaded, mach, via, target, proc, hist, env>>

EnterWriter(how) == mach' = "writer" /\ via' = how

KexecExecute ==
    /\ pc = "execKexec"
    /\ \/ /\ ~cancelled /\ EnterWriter("kexec") /\ Return("ok")
          /\ loaded' = FALSE /\ pending' = "none" /\ unsynced' = {}
          /\ UNCHANGED <<now, target>>
       \/ Goto("unload") /\ UNCHANGED <<disk, boot>>
    /\ UNCHANGED <<proc, hist, env>>

\* The deferred kexec -u has a context of its own.
KexecUnload ==
    /\ pc = "unload"
    /\ \/ loaded' = FALSE /\ UNCHANGED fail
       \/ Fault /\ UNCHANGED loaded
    /\ BeginCleanup("decide", {})
    /\ UNCHANGED <<disk, pending, mach, via, target, stale, loadFailed, since, env>>

\* A step of executeGRUB fails: undo what has been attempted so far.
Undo(attempted) == BeginCleanup("return", attempted)

UpdateGrub ==
    /\ pc = "updateGrub"
    /\ \/ /\ ~cancelled /\ \E b \in Regenerated : Set("cfgEntry", b)
          /\ Goto("checkConfig") /\ UNCHANGED proc
       \/ /\ ~cancelled /\ \E b \in Regenerated \cup {Present("cfgEntry")} : Set("cfgEntry", b)
          /\ Undo({"cfgEntry"})
       \/ cancelled /\ UNCHANGED disk /\ Undo({"cfgEntry"})
    /\ UNCHANGED <<boot, hist, env>>

\* A check of executeGRUB.
GrubCheck(from, to, possible, attempted) ==
    /\ pc = from
    /\ \/ possible /\ Goto(to) /\ UNCHANGED proc
       \/ Undo(attempted)
    /\ UNCHANGED <<disk, boot, hist, env>>

ValidateGrubConfiguration ==
    GrubCheck("checkConfig", "checkStorage", Present("cfgEntry"), {"cfgEntry"})

\* Mutant: validateGRUBStorage accepts any file system and abstraction.
AnyGrubStorage == GrubCheck("checkStorage", "arm", ~cancelled, {"cfgEntry"})

ValidateGrubStorage ==
    GrubCheck("checkStorage", "arm", host.plain /\ ~cancelled, {"cfgEntry"})

GrubReboot(undo) ==
    /\ pc = "arm"
    /\ (~cancelled /\ SetArmed(TRUE)) \/ UNCHANGED disk
    /\ \/ ~cancelled /\ Goto("verify") /\ UNCHANGED proc
       \/ Undo(undo)
    /\ UNCHANGED <<boot, hist, env>>

\* Mutant: armAttempted is set after grub-reboot instead of before it.
ArmedTooLate == GrubReboot({"cfgEntry"})

\* grub-reboot: neither a success nor a failure says whether next_entry is set.
ArmEntry == GrubReboot({"armed", "cfgEntry"})

\* Mutant: the armed entry is not read back.
TrustGrubReboot == GrubCheck("verify", "queueReboot", ~cancelled, {"armed", "cfgEntry"})

VerifyNextEntry ==
    GrubCheck("verify", "queueReboot", Present("armed") /\ ~cancelled, {"armed", "cfgEntry"})

SystemctlReboot ==
    /\ pc = "queueReboot"
    /\ \/ ~cancelled /\ pending' = "reboot" /\ Return("ok")
       \/ ~cancelled /\ pending' = "reboot" /\ Goto("reboot")
       \/ UNCHANGED pending /\ Goto("reboot")
    /\ UNCHANGED <<disk, loaded, mach, via, target, proc, hist, env>>

RebootCommand ==
    /\ pc = "reboot"
    /\ \/ ~cancelled /\ pending' = "reboot" /\ Return("ok") /\ UNCHANGED proc
       \/ ~cancelled /\ pending' = "reboot" /\ Undo({"armed", "cfgEntry"})
       \/ UNCHANGED pending /\ Undo({"armed", "cfgEntry"})
    /\ UNCHANGED <<disk, loaded, mach, via, target, hist, env>>

----------------------------------------------------------------------------
(* The machine: signals, crashes, restarts, the writer, the administrator *)

Interrupt == interrupts < MaxInterrupts /\ interrupts' = interrupts + 1

\* main: SIGINT and SIGTERM cancel the context.
Cancel ==
    /\ pc # "idle" /\ ~cancelled /\ Interrupt
    /\ cancelled' = TRUE
    /\ UNCHANGED <<pc, todo, result, method, after, cleanupErr, fellBack, disk,
                   boot, hist, host, runs>>

\* SIGKILL, or the SIGHUP of a lost terminal that main does not handle.
Kill ==
    /\ pc # "idle" /\ Interrupt
    /\ Return("none")
    /\ UNCHANGED <<proc, disk, boot, hist, host, runs>>

\* GRUB starts from what the medium holds.  The one-shot block clears
\* next_entry before it boots the entry; save_env can only write to a plain
\* file system.  Without the menu entry the stock header may clear it.
FirmwareBoot(f) ==
    LET oneShot == f["armed"] /\ f["cfgEntry"] IN
    /\ \/ /\ oneShot /\ now' = [f EXCEPT !["armed"] = ~host.plain]
          /\ IF f["grubInitrd"] THEN EnterWriter("grub")
                                ELSE mach' = "stuck" /\ via' = "none"
       \/ /\ ~oneShot /\ mach' = "linux" /\ via' = "none"
          /\ \E b \in {FALSE, f["armed"]} : now' = [f EXCEPT !["armed"] = b]
    /\ unsynced' = {} /\ loaded' = FALSE /\ pending' = "none"
    /\ UNCHANGED target

\* What a crash can leave: an unsynced object may be in either state.
Survivors == {f \in [Objects -> BOOLEAN] :
                 /\ \A o \in Objects \ unsynced : f[o] = now[o]
                 /\ \A d \in Dirs : (\E o \in Inside(d) : f[o]) => f[d]}

PowerLoss ==
    /\ mach = "linux" /\ Interrupt
    /\ \E f \in Survivors : FirmwareBoot(f)
    /\ pc' = "idle" /\ todo' = {}
    /\ result' = IF pc = "idle" /\ pending = "none" THEN result ELSE "none"
    /\ since' = "crash"
    /\ UNCHANGED <<proc, stale, fail, loadFailed, host, runs>>

\* An orderly shutdown: the queued job, or the administrator's own reboot.
\* A kernel loaded with kexec -l is what systemctl kexec starts and what
\* systemctl reboot may start.
Restart ==
    /\ mach = "linux" /\ (pending # "none" \/ pc = "idle")
    /\ \/ /\ loaded /\ EnterWriter("kexec")
          /\ now' = now /\ unsynced' = {} /\ loaded' = FALSE /\ pending' = "none"
          /\ UNCHANGED target
       \/ /\ ~(loaded /\ pending = "kexec")
          /\ FirmwareBoot(now)
    /\ pc' = "idle" /\ todo' = {}
    /\ result' = IF pc = "idle" THEN result ELSE "none"
    /\ UNCHANGED <<proc, hist, env>>

\* RunWriter, seen from outside (module Writer has its steps).
WriterHalts ==
    /\ mach = "writer" /\ mach' = "halted"
    /\ UNCHANGED <<pc, todo, result, proc, disk, loaded, pending, via, target, hist, env>>

WriterStartsWriting ==
    /\ mach = "writer" /\ target = "linux" /\ target' = "torn"
    /\ UNCHANGED <<pc, todo, result, proc, disk, loaded, pending, mach, via, hist, env>>

WriterFinishes ==
    /\ mach = "writer" /\ target = "torn" /\ target' = "chr" /\ mach' = "chr"
    /\ UNCHANGED <<pc, todo, result, proc, disk, loaded, pending, via, hist, env>>

\* The administrator, or a power loss, resets a machine that is not in Linux.
PowerCycle ==
    /\ mach \in {"writer", "halted", "stuck"}
    /\ \/ target = "linux" /\ FirmwareBoot(now)
       \/ /\ target = "torn" /\ mach' = "dead"
          /\ UNCHANGED <<disk, loaded, pending, via, target>>
    /\ UNCHANGED <<pc, todo, result, proc, hist, env>>

\* The installer is started (again) and reaches StageAndBoot.
StartRun ==
    /\ mach = "linux" /\ pc = "idle" /\ pending = "none" /\ runs < MaxRuns
    /\ runs' = runs + 1
    /\ pc' = "stat" /\ method' = host.method /\ result' = "none" /\ todo' = {}
    /\ after' = "return" /\ cleanupErr' = FALSE /\ fellBack' = FALSE /\ cancelled' = FALSE
    /\ stale' = {o \in Objects : Present(o)} \cup (IF loaded THEN {"loaded"} ELSE {})
    /\ faulted' = FALSE /\ loadFailed' = FALSE /\ since' = "nothing"
    /\ UNCHANGED <<disk, boot, host, interrupts, faults>>

\* "Recovery after interrupted staging": unset next_entry, rm -f the three
\* files, rmdir the directories that are empty, update-grub.
ManualRecovery ==
    LET kept == {d \in Dirs : Present(d) /\ \E t \in Inside(d) \cap Temporaries : Present(t)} IN
    /\ mach = "linux" /\ pc = "idle" /\ pending = "none" /\ runs > 0
    /\ since # "recovery"
    /\ now' = [o \in Objects |-> Present(o) /\ (o \in Temporaries \cup kept)]
    /\ unsynced' = (unsynced \cup {o \in Objects : now'[o] # now[o]}) \ {"armed"}
    /\ since' = "recovery"
    /\ UNCHANGED <<pc, todo, result, proc, boot, stale, fail, loadFailed, env>>

----------------------------------------------------------------------------
Prepare == \/ StatSources \/ MakeBuildDir \/ RemoveOldInitrd \/ CheckBuildSpace
           \/ MakeConfigDir \/ RunMkinitramfs \/ MeasureInitramfs
           \/ MakeGrubDir \/ CheckBootSpace \/ CopyToTemp \/ RenameInitrd
           \/ RemoveBuilt \/ ProbeBootFilesystem \/ WriteScriptTemp \/ RenameScript

Clean == \/ \E o \in Artifacts : PartialStep(o) \/ CleanPath(o)
         \/ PartialDone \/ Disarm \/ RefreshGrub \/ CleanupDone

Boot == \/ Sync \/ KexecLoad \/ SystemctlKexec \/ KexecExecute \/ KexecUnload
        \/ UpdateGrub \/ ValidateGrubConfiguration \/ ValidateGrubStorage
        \/ ArmEntry \/ VerifyNextEntry \/ SystemctlReboot \/ RebootCommand

Installer == Prepare \/ Clean \/ Boot

Machine == \/ Cancel \/ Kill \/ PowerLoss \/ Restart
           \/ WriterHalts \/ WriterStartsWriting \/ WriterFinishes
           \/ PowerCycle \/ StartRun \/ ManualRecovery

Next == Installer \/ Machine

Spec == Init /\ [][Next]_vars

\* The installer process is scheduled and its commands end; systemd carries
\* out a shutdown it has accepted.  Nothing is assumed of the administrator,
\* of the writer or of what a command returns.
FairSpec == /\ Spec
            /\ WF_vars(Installer)
            /\ WF_vars(pending # "none" /\ Restart)
----------------------------------------------------------------------------
(* Properties *)

TypeOK ==
    /\ host \in Hosts /\ pc \in Pcs /\ method \in {"kexec", "grub"}
    /\ after \in {"return", "exec", "decide"} /\ todo \subseteq Objects
    /\ cleanupErr \in BOOLEAN /\ fellBack \in BOOLEAN /\ cancelled \in BOOLEAN
    /\ result \in {"none", "ok", "err"}
    /\ now \in [Objects -> BOOLEAN] /\ unsynced \subseteq Objects
    /\ loaded \in BOOLEAN /\ pending \in {"none", "kexec", "reboot"}
    /\ mach \in {"linux", "writer", "halted", "stuck", "chr", "dead"}
    /\ via \in {"none", "kexec", "grub"} /\ target \in {"linux", "torn", "chr"}
    /\ stale \subseteq Objects \cup {"loaded"}
    /\ faulted \in BOOLEAN /\ loadFailed \in BOOLEAN /\ since \in {"nothing", "recovery", "crash"}
    /\ runs \in 0..MaxRuns /\ interrupts \in 0..MaxInterrupts /\ faults \in 0..MaxFaults

\* README "Returned staging errors automatically unload a pending kexec image,
\* clear an armed GRUB entry, remove installer-owned files, and regenerate
\* grub.cfg", for the run that returns: when no undo operation failed, what is
\* left was there before, or is a directory that is not empty.
ErrorUndoesThisRun ==
    (mach = "linux" /\ pc = "idle" /\ result = "err" /\ ~faulted
     /\ since = "nothing") =>
        /\ \A o \in Objects : Present(o) => (o \in stale \/ Busy(o))
        /\ loaded => ("loaded" \in stale \/ loadFailed)

\* A run never leaves next_entry naming a menu entry whose initrd it has not
\* put in place or has removed: a reboot at any step of the installation or of
\* its undoing finds the entry bootable.  Two exceptions are in the code: an
\* undo operation failed, or next_entry was left armed by an earlier run.
ArmedEntryBoots ==
    (mach = "linux" /\ ~faulted /\ "armed" \notin stale) =>
        (Present("armed") /\ Present("cfgEntry") => Present("grubInitrd"))

\* What a power loss can find on the medium: the sync before the commit makes
\* the payload durable before next_entry can be.  The fallback after a failed
\* kexec has no such sync, so it is excluded.
CrashBootsCompletePayload ==
    (mach = "linux" /\ ~faulted /\ ~fellBack /\ "armed" \notin stale) =>
        \A f \in Survivors : f["armed"] /\ f["cfgEntry"] => f["grubInitrd"]

\* The writer reached through GRUB has used up its authorisation: whatever
\* becomes of it, the next boot from this disk is not the writer again.
OneShot ==
    (via = "grub" /\ mach \in {"writer", "halted"}) =>
        ~(Present("armed") /\ Present("cfgEntry"))

\* An installation that reported an error never turns into a disk write: not
\* by the administrator's next reboot, nor by a crash.
NoWriterAfterError ==
    (/\ result = "err" /\ ~faulted /\ ~loadFailed
     /\ {"armed", "loaded"} \cap stale = {}) => mach # "writer"

\* A run that reported success and waits for the shutdown has left everything
\* the writer's boot needs.
CommitIsComplete ==
    (result = "ok" /\ pending # "none" /\ mach = "linux") =>
        \/ pending = "kexec" /\ loaded
        \/ /\ pending = "reboot"
           /\ Present("armed") /\ Present("cfgEntry") /\ Present("grubInitrd")

\* A run always ends, the fallback is tried at most once.
EveryRunEnds == (pc # "idle") ~> (pc = "idle")

\* A reported success reaches the writer, unless power is lost first.
CommitReachesWriter == (result = "ok" /\ pending # "none") ~>
                           (mach = "writer" \/ result # "ok")

----------------------------------------------------------------------------
(* Refinement *)

\* What stands for a grant: a loaded kexec image, next_entry.
GrantsOf(kexec, armed) == (IF kexec THEN {"kexec"} ELSE {}) \cup (IF armed THEN {"grub"} ELSE {})

Abstract == INSTANCE Handover WITH
    machine   <- IF mach \in {"halted", "stuck", "dead"} THEN "down" ELSE mach,
    target    <- target,
    run       <- IF pc = "idle" THEN result ELSE "on",
    grants    <- GrantsOf(loaded, Present("armed")),
    inherited <- GrantsOf("loaded" \in stale, "armed" \in stale),
    excused   <- faulted \/ loadFailed

\* Staging gives and withdraws the right to overwrite the disk as Handover
\* says: the writer starts only by a grant that it uses up, a success has one
\* to show, and a run that returns an error leaves none that it has given.
ImplementsHandover == Abstract!Spec

----------------------------------------------------------------------------
(* What the README says of its recovery recipe. *)

\* README.md:105 the recipe is what to do "Before a later normal reboot" after
\* a power loss or forced kill: a host that followed it reboots into Linux.
RecoveredHostStaysInLinux == since = "recovery" => mach # "writer"
=============================================================================
