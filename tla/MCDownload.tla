----------------------------- MODULE MCDownload -----------------------------
(* Module Download with four builds: two of the same length, of which one  *)
(* has been validated for UEFI, a longer one, and one beyond the limit.    *)
EXTENDS Download

CONSTANTS old, new, longer, huge

MCBuilds == {old, new, longer, huge}
MCLength == [b \in MCBuilds |-> CASE b = longer -> 3 [] b = huge -> 5 [] OTHER -> 2]
MCValidated == {old}
=============================================================================
