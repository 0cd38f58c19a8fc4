------------------------------- MODULE MCMalloc -------------------------------
(* Model checking of Malloc.  The masks keep the proportion of the code: a    *)
(* bitmap is twice as wide as an int.                                         *)
EXTENDS Malloc

ASSUME ProportionAssumption == Width = 2 * IntWidth

===============================================================================
