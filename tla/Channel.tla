------------------------------ MODULE Channel ------------------------------
(***************************************************************************)
(* What a task's mailbox promises the rest of the program: an unbounded    *)
(* channel that hands every posted message to the task exactly once, in    *)
(* the order in which the posts took effect.                               *)
(***************************************************************************)
EXTENDS Naturals, Sequences

CONSTANT Message          \* everything that can be posted

VARIABLES sent,           \* the messages posted so far, oldest first
          rcvd            \* the messages the task has been handed, oldest first

chanVars == <<sent, rcvd>>

ChanInit == sent = <<>> /\ rcvd = <<>>

(* A post takes effect. *)
Send(m) == sent' = Append(sent, m) /\ UNCHANGED rcvd

(* The task is handed the oldest message it has not been handed yet. *)
Receive == /\ Len(rcvd) < Len(sent)
           /\ rcvd' = Append(rcvd, sent[Len(rcvd) + 1])
           /\ UNCHANGED sent

ChanNext == Receive \/ \E m \in Message : Send(m)

ChanSpec == ChanInit /\ [][ChanNext]_chanVars

(* The channel also delivers: a message that waits is eventually handed over. *)
ChanDelivers == WF_chanVars(Receive)
=============================================================================
