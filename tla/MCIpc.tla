-------------------------------- MODULE MCIpc --------------------------------
(* Model checking of Ipc; the tasks made by ckprocA are interchangeable.      *)
EXTENDS Ipc, TLC

Interchangeable == Permutations(Task \ {Boot})

=============================================================================
