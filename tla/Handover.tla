------------------------------ MODULE Handover ------------------------------
(***************************************************************************)
(* What staging promises about the right to overwrite the disk, without    *)
(* files, commands or boot loaders (src/internal/install/stage.go).        *)
(*                                                                         *)
(* A grant is one way in which the next start of the machine may be the    *)
(* writer: a kexec image the kernel holds, or the one-shot GRUB entry.     *)
(* Only a run gives grants, a success has one to show, an error leaves     *)
(* none of its own, and the writer starts only by using one up.  Module    *)
(* Stage implements this specification.                                    *)
(***************************************************************************)

Grants == {"kexec", "grub"}

VARIABLES
    machine,    \* who has it: "linux", "writer", "down", "chr"
    target,     \* what the target disk holds: "linux", "torn", "chr"
    run,        \* "on" while StageAndBoot runs, then what it returned; "none" when killed
    grants,     \* the ways open to the writer
    inherited,  \* the grants this run has found
    excused     \* an undoing of this run failed, or a command failed after its effect

vars == <<machine, target, run, grants, inherited, excused>>

Init ==
    /\ machine = "linux" /\ target = "linux" /\ run = "none"
    /\ grants = {} /\ inherited = {} /\ excused = FALSE

\* The administrator starts a run.
Begin ==
    /\ machine = "linux" /\ run # "on" /\ run' = "on"
    /\ inherited' = grants /\ excused' = FALSE
    /\ UNCHANGED <<machine, target, grants>>

\* The run gives a grant, takes one back, or fails to do so.
Work ==
    /\ machine = "linux" /\ run = "on"
    /\ \E g \in Grants : grants' \in {grants, grants \cup {g}, grants \ {g}}
    /\ excused' \in {excused, TRUE}
    /\ UNCHANGED <<machine, target, run, inherited>>

Succeed ==
    /\ machine = "linux" /\ run = "on" /\ grants # {}
    /\ run' = "ok"
    /\ UNCHANGED <<machine, target, grants, inherited, excused>>

Fail ==
    /\ machine = "linux" /\ run = "on" /\ (grants \subseteq inherited \/ excused)
    /\ run' = "err"
    /\ UNCHANGED <<machine, target, grants, inherited, excused>>

\* A run ends when its process is killed or its machine is restarted.
Interrupted == run' \in {run, "none"} /\ run' # "on"

\* A kill, a restart, or a recovery by hand: grants may be lost, none appear.
Withdraw ==
    /\ machine # "chr" /\ target = "linux" /\ machine' \in {"linux", "down"}
    /\ grants' \subseteq grants /\ Interrupted
    /\ UNCHANGED <<target, inherited, excused>>

\* The writer starts by a grant, which is used up.
Redeem ==
    /\ machine # "chr" /\ target = "linux" /\ machine' = "writer"
    /\ \E g \in grants : grants' \subseteq grants \ {g}
    /\ Interrupted \/ (run = "on" /\ run' = "ok")
    /\ UNCHANGED <<target, inherited, excused>>

Overwrite ==
    /\ machine = "writer" /\ target = "linux" /\ target' = "torn"
    /\ UNCHANGED <<machine, run, grants, inherited, excused>>

Finish ==
    /\ machine = "writer" /\ target = "torn"
    /\ target' = "chr" /\ machine' = "chr"
    /\ UNCHANGED <<run, grants, inherited, excused>>

\* The writer halts, or a machine whose disk is torn does not start again.
Stop ==
    /\ machine \in {"writer", "down"} /\ machine' = "down"
    /\ UNCHANGED <<target, run, grants, inherited, excused>>

Next ==
    \/ Begin \/ Work \/ Succeed \/ Fail \/ Withdraw
    \/ Redeem \/ Overwrite \/ Finish \/ Stop

Spec == Init /\ [][Next]_vars
=============================================================================
