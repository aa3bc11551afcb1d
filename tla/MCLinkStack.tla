----------------------------- MODULE MCLinkStack -----------------------------
(* The PDU ids are interchangeable: the pool hands out any free one. *)
EXTENDS LinkStack, TLC

Symmetry == Permutations(Pdu)

NoPeerFrame == {}
(* The frames of a PDU of two frames, and those of another PDU of one. *)
OnePdu == {[seq |-> 1, fidx |-> 0, fnum |-> 2], [seq |-> 1, fidx |-> 1, fnum |-> 2]}
TwoPdus == OnePdu \cup {[seq |-> 0, fidx |-> 0, fnum |-> 1]}
=============================================================================
