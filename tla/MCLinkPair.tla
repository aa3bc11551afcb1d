----------------------------- MODULE MCLinkPair -----------------------------
(* The PDU ids are interchangeable: the pool hands out any free one. *)
EXTENDS LinkPair, TLC

Symmetry == Permutations(Pdu)

NoPeerFrame == {}
=============================================================================
