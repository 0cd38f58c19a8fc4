---------------------------- MODULE MCDescriptors ----------------------------
(* Model checking of Descriptors; the programs are interchangeable, and so    *)
(* are the tasks they run in.                                                 *)
EXTENDS Descriptors, TLC

Interchangeable == Permutations(Task \ {Boot})

=============================================================================
