-------------------------------- MODULE MCPages --------------------------------
(* Model checking of Pages: a bitmap of words of eight bits, of which the boot  *)
(* takes the first; pool and tables of a few entries.                          *)
EXTENDS Pages, TLC

\* The boot pages are in the upper half of their word, as those of P_ALLOC3_SETUP are.
UpperBootPool == (6 :> 7) @@ (7 :> 4) @@ (8 :> 5) @@ (9 :> 6)

=============================================================================
