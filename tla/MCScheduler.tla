----------------------------- MODULE MCScheduler -----------------------------
(* Model checking of Scheduler: the tasks other than the boot task are        *)
(* interchangeable, so every run of safety properties may identify them.      *)
EXTENDS Scheduler, TLC

Interchangeable == Permutations(Task \ {Boot})

=============================================================================
