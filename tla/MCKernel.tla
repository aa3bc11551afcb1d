------------------------------ MODULE MCKernel ------------------------------
(***************************************************************************)
(* Three parts of the active kernel (ak/): the timer service, the list     *)
(* behind a mailbox and the start of the process.  They share nothing: a   *)
(* behaviour is one of the three, whichever is `used_one`.                 *)
(***************************************************************************)
EXTENDS Timer, MsgList, Boot, TLC

VARIABLE used_one

Symmetry == Permutations(Node)

AnyInit == Init /\ BootInit /\ MsgListInit /\ used_one \in {"timer", "list", "boot"}

(* The start is over when every task waits for messages: it may stop nowhere else. *)
AtRest == \A t \in BootTask : at[t] \in {"asleep", "forgotten", "done"}

AnyNext ==
  /\ \/ used_one = "timer" /\ Next /\ UNCHANGED <<bootVars, listOfMessages>>
     \/ used_one = "boot" /\ (BootNext \/ (AtRest /\ UNCHANGED bootVars)) /\ UNCHANGED <<vars, listOfMessages>>
     \/ used_one = "list" /\ MsgListNext /\ UNCHANGED <<vars, bootVars>>
  /\ UNCHANGED used_one
AnySpec == AnyInit /\ [][AnyNext]_<<vars, bootVars, listOfMessages, used_one>>
=============================================================================
