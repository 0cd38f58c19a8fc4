------------------------------- MODULE ByteQueue -------------------------------
(***************************************************************************)
(* What a pipe between two programs promises: the bytes that are taken out *)
(* are the bytes that were put in, each once and in the order of putting.  *)
(***************************************************************************)
EXTENDS Naturals, Sequences

VARIABLES
    sent,        \* the bytes put in, in order
    received     \* the bytes taken out, in order

Init == sent = <<>> /\ received = <<>>

Put ==
    /\ Len(sent') > Len(sent)
    /\ SubSeq(sent', 1, Len(sent)) = sent
    /\ UNCHANGED received

Take ==
    /\ \E n \in (Len(received) + 1)..Len(sent) : received' = SubSeq(sent, 1, n)
    /\ UNCHANGED sent

Next == Put \/ Take

Spec == Init /\ [][Next]_<<sent, received>>

================================================================================
