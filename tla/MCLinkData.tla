----------------------------- MODULE MCLinkData -----------------------------
(***************************************************************************)
(* The two containers of the link stack, the pool of PDUs and the fifo of  *)
(* PDU ids.  They share nothing: a behaviour is one of either, whichever   *)
(* is `used_one`.                                                          *)
(***************************************************************************)
EXTENDS PduPool, Fifo

VARIABLE used_one

EitherInit == PoolInit /\ FifoInit /\ used_one \in {"pool", "fifo"}
EitherNext ==
  /\ \/ used_one = "pool" /\ PoolNext /\ UNCHANGED fifoVars
     \/ used_one = "fifo" /\ FifoNext /\ UNCHANGED poolVars
  /\ UNCHANGED used_one
EitherSpec == EitherInit /\ [][EitherNext]_<<poolVars, fifoVars, used_one>>
=============================================================================
