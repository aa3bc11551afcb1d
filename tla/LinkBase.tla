------------------------------ MODULE LinkBase ------------------------------
(***************************************************************************)
(* What the three tasks of the link stack share: their mailboxes, the      *)
(* timers they set, the PDU pool and the process they all die with.  A     *)
(* handler runs on its task's thread and touches only its own layer's      *)
(* state, the pool, its own timers and the tails of other mailboxes, so it *)
(* is one step.  The mailboxes are the channels that Mailbox implements,   *)
(* the timers the service that Timer implements and the pool the one that  *)
(* PduPool implements.                                                     *)
(***************************************************************************)
EXTENDS Integers, Sequences, FiniteSets

CONSTANTS Pdu,              \* the ids of link_pdu_pool
          None,             \* no PDU
          MaxFrames,        \* the frames of the longest PDU
          MacSeqMod,        \* the width of the MAC sequence number
          PhySeqMod,        \* the width of the PHY sequence number
          MaxRetry,         \* link_phy_max_retry_val
          PhyTo,            \* LINK_PHY_FRAME_SEND_TO_INTERVAL, in ticks
          LineMax           \* frames on their way to the peer, older ones are lost

ASSUME NoneIsNoPdu == None \notin Pdu
ASSUME PduIsFinite == IsFiniteSet(Pdu)
ASSUME BoundsAreNat == /\ MaxFrames \in Nat \ {0} /\ MacSeqMod \in Nat \ {0}
                       /\ PhySeqMod \in Nat \ {0}
                       /\ PhyTo \in Nat \ {0} /\ LineMax \in Nat \ {0}
(* LINK_PHY_MAX_RETRY_SET_DEFAULT is 2.  A uint8_t could be 255, which
   retry_counter_send, another one, never exceeds.                         *)
ASSUME MaxRetryIsSmall == MaxRetry \in 0..254

Task == {"LINK", "LINK_MAC", "LINK_PHY"}

(* The timers of the stack: the task that gets the signal, and the signal. *)
PhySendTo == <<"LINK_PHY", "FRAME_SEND_TO">>
MacSendTo == <<"LINK_MAC", "FRAME_SEND_TO">>
MacRevTo == <<"LINK_MAC", "FRAME_REV_TO">>
TimerKey == {PhySendTo, MacSendTo, MacRevTo}

(* Mutant of MacTo: link_phy_get_send_frame_to is not doubled. *)
MacToOnce == (MaxRetry + 1) * PhyTo

(* link_phy_get_send_frame_to, doubled by the MAC layer *)
MacTo == 2 * (MaxRetry + 1) * PhyTo

VARIABLES
  mbox,             \* mbox[t]: the mailbox of task t
  fsm,              \* fsm[t]: the state function fsm_dispatch calls for task t
  pool,             \* pool[p]: the length in frames of a PDU in use, 0 if it is free
  timer,            \* timer[k]: ticks until the timer expires, 0 if it is not set
  due,              \* expired in the running timer_handler, not yet posted
  line,             \* the PHY frames written to the serial port, on their way
  fatal             \* the FATAL that ended the process

baseVars == <<mbox, fsm, pool, timer, due, line, fatal>>

BaseInit ==
  /\ mbox = [t \in Task |-> IF t = "LINK" THEN <<[sig |-> "INIT"]>> ELSE <<>>]
  /\ fsm = [t \in Task |-> "init"]
  /\ pool = [p \in Pdu |-> 0]
  /\ timer = [k \in TimerKey |-> 0] /\ due = {}
  /\ line = <<>>
  /\ fatal = "none"

(* retry_counter_send and link_mac_pdu_sending_retry_counter are uint8_t. *)
Counter == 0..255
Increment(counter) == (counter + 1) % 256

(* A MAC frame: that of an own PDU, and any the peer may send. *)
Frame == [seq : 0 .. MacSeqMod - 1, fidx : Nat, fnum : 0..MaxFrames]
AnyFrame == [seq : 0 .. MacSeqMod - 1, fidx : Nat, fnum : Nat]

-----------------------------------------------------------------------------
(* The messages a handler posts, by the mailbox they go to. *)
NoPost == [t \in Task |-> <<>>]
Post(t, msg) == [NoPost EXCEPT ![t] = <<msg>>]

(* The message a task is handling: ak_msg_rev has returned it. *)
Handling(t, state, sig) ==
  /\ fatal = "none" /\ fsm[t] = state
  /\ mbox[t] # <<>> /\ Head(mbox[t]).sig = sig

Finish(t, posts) ==
  mbox' = [u \in Task |-> (IF u = t THEN Tail(mbox[u]) ELSE mbox[u]) \o posts[u]]

Fatal(code) == fatal' = code /\ UNCHANGED <<mbox, fsm, pool, timer, due, line>>

(* A call of the timer service waits until timer_handler is done. *)
TimerFree == due = {}
timer_set(k, interval) == TimerFree /\ timer' = [timer EXCEPT ![k] = interval]
timer_remove_attr(k) == TimerFree /\ timer' = [timer EXCEPT ![k] = 0]

(* A message of no interest to the start-up state is dropped. *)
Drop(t, sigs) ==
  /\ fatal = "none" /\ fsm[t] = "init"
  /\ mbox[t] # <<>> /\ Head(mbox[t]).sig \notin sigs
  /\ Finish(t, NoPost)
  /\ UNCHANGED <<fsm, pool, timer, due, line, fatal>>

FreePdu == {p \in Pdu : pool[p] = 0}

(* The serial line keeps the last frames that were written. *)
Written(frame) ==
  LET all == Append(line, frame) IN
  IF Len(all) > LineMax THEN Tail(all) ELSE all
=============================================================================
