------------------------------- MODULE MCFloppy -------------------------------
(* Model checking of Floppy: a small medium, with the first sectors of the    *)
(* file system on both sides of a track boundary.                             *)
EXTENDS Floppy

ASSUME TwoTracks ==
    \E lba \in Lbas : lba + 1 \in Lbas /\ (Base + lba) \div PerTrack # (Base + lba + 1) \div PerTrack

===============================================================================
