------------------------------ MODULE LinkStack ------------------------------
(***************************************************************************)
(* The link stack of one board: the tasks LINK, LINK_MAC and LINK_PHY, the *)
(* timer thread, the CPU serial task that sends through the stack and the  *)
(* peer at the other end of the serial line, which may answer a frame,     *)
(* answer it late, garble it or not answer at all, and which sends frames  *)
(* of its own.                                                             *)
(***************************************************************************)
EXTENDS LinkPhy, LinkMac, Link

CONSTANTS MaxLate,          \* how often the timer thread and the tasks overtake each other
          MaxBacklog,       \* messages of the CPU serial task in progress
          PeerFrame,        \* the MAC frames the peer sends
          PeerGarbles,      \* frames of the peer arrive with a wrong checksum
          MaxArrived        \* frames of the peer waiting in a mailbox

ASSUME LimitsAreNat == MaxLate \in Nat /\ MaxBacklog \in Nat /\ MaxArrived \in Nat
ASSUME GarblesIsBoolean == PeerGarbles \in BOOLEAN
ASSUME PeerFrameIsFrame == PeerFrame \subseteq AnyFrame

VARIABLE late               \* history: how often that has happened

vars == <<baseVars, phy, macVars, late>>

Init == BaseInit /\ PhyInit /\ MacInit /\ late = 0

OneIf(b) == IF b THEN 1 ELSE 0

(* With MaxLate = 0 a tick finds the tasks idle and is posted before anything
   else arrives, as when the tasks are fast; each exception is counted.    *)
CountLate(overtaken) ==
  /\ overtaken => late < MaxLate
  /\ late' = late + OneIf(overtaken)

Arrives(t, msg) ==
  /\ fatal = "none" /\ CountLate(~TimerFree)
  /\ mbox' = [mbox EXCEPT ![t] = Append(@, msg)]
  /\ UNCHANGED <<fsm, pool, timer, due, fatal, phy, macVars>>

-----------------------------------------------------------------------------
(* The CPU serial task forwards a message. *)
InMailbox(t, sigs) == {i \in DOMAIN mbox[t] : mbox[t][i].sig \in sigs}
Backlog == Cardinality(InMailbox("LINK", {"SEND_MSG"})) + Cardinality(Pdu \ FreePdu)

ClientSends ==
  /\ Backlog < MaxBacklog
  /\ \E n \in 1..MaxFrames : Arrives("LINK", [sig |-> "SEND_MSG", frames |-> n])
  /\ UNCHANGED line

(* The peer meets the next frame on the line: a request is answered or lost. *)
PeerHears ==
  /\ line # <<>> /\ fatal = "none"
  /\ line' = Tail(line)
  /\ \/ /\ Head(line).type = "REQ"
        /\ \E type \in {"ACK", "NACK"} :
             Arrives("LINK_PHY", [sig |-> "FRAME_REV", frame |-> Answer(type, Head(line).seq)])
     \/ UNCHANGED <<mbox, fsm, pool, timer, due, fatal, phy, macVars, late>>

(* The receive thread posts a frame the peer sent, or a garbled one. *)
Arrived == Cardinality(InMailbox("LINK_PHY", {"FRAME_REV", "FRAME_REV_CS_ERR"}))
           + Cardinality(InMailbox("LINK_MAC", {"FRAME_REV"}))

PeerSends ==
  /\ Arrived < MaxArrived
  /\ \E f \in PeerFrame :
       Arrives("LINK_PHY", [sig |-> "FRAME_REV", frame |-> [type |-> "REQ", seq |-> 0, mac |-> f]])
  /\ UNCHANGED line

PeerGarbled ==
  /\ PeerGarbles /\ Arrived < MaxArrived
  /\ Arrives("LINK_PHY", [sig |-> "FRAME_REV_CS_ERR", frame |-> Answer("NACK", 0)])
  /\ UNCHANGED line

-----------------------------------------------------------------------------
(* timer_handler counts all the timers down at once, then posts to the tasks
   one by one, while the tasks run but cannot use the timer service.       *)
Tick ==
  /\ fatal = "none" /\ due = {}
  /\ \E k \in TimerKey : timer[k] # 0
  /\ CountLate(\E t \in Task : mbox[t] # <<>>)
  /\ timer' = [k \in TimerKey |-> IF timer[k] = 0 THEN 0 ELSE timer[k] - 1]
  /\ due' = {k \in TimerKey : timer[k] = 1}
  /\ UNCHANGED <<mbox, fsm, pool, line, fatal, phy, macVars>>

Expire(k) ==
  /\ fatal = "none" /\ k \in due
  /\ due' = due \ {k}
  /\ mbox' = [mbox EXCEPT ![k[1]] = Append(@, [sig |-> k[2]])]
  /\ UNCHANGED <<fsm, pool, timer, line, fatal, phy, macVars, late>>

PhyStep == PhyNext /\ UNCHANGED <<macVars, late>>
MacStep == MacNext /\ UNCHANGED <<phy, late>>
LinkStep == LinkNext /\ UNCHANGED <<phy, macVars, late>>

Next == \/ PhyStep \/ MacStep \/ LinkStep
        \/ ClientSends \/ PeerHears \/ PeerSends \/ PeerGarbled
        \/ Tick \/ \E k \in TimerKey : Expire(k)

Spec == Init /\ [][Next]_vars

(* The tasks, the timer threads and the serial line keep running. *)
FairSpec ==
  /\ Spec
  /\ WF_vars(PhyStep) /\ WF_vars(MacStep) /\ WF_vars(LinkStep)
  /\ SF_vars(Tick) /\ \A k \in TimerKey : WF_vars(Expire(k))

-----------------------------------------------------------------------------
PhyState == [send : {"IDLE", "SENDING"}, retry : Counter, seq : 0 .. PhySeqMod - 1, frame : Frame]
MacSender == [state : {"IDLE", "SENDING"}, pdu : Pdu \cup {None}, retry : Counter,
              seq : 0 .. MacSeqMod - 1, frame : Frame]
MacReceiver == [state : {"IDLE", "RECEIVING"}, pdu : Pdu \cup {None}, seq : 0 .. MacSeqMod - 1]

TypeOK ==
  /\ fsm \in [Task -> {"init", "handle"}]
  /\ pool \in [Pdu -> 0..MaxFrames]
  /\ timer \in [TimerKey -> 0..MacTo] /\ due \subseteq TimerKey
  /\ Len(line) <= LineMax /\ late \in 0..MaxLate
  /\ phy \in PhyState /\ macSend \in MacSender /\ macRev \in MacReceiver
  /\ pduFifo \in Seq(Pdu) /\ Len(pduFifo) <= FifoSize

Count(t, sigs) == Cardinality(InMailbox(t, sigs))

(* The sender holds a PDU from GW_LINK_MAC_FRAME_SEND_START to the report. *)
SenderHolds == macSend.state = "SENDING" /\ Count("LINK_MAC", {"FRAME_SEND_START"}) = 0

(* Every PDU of the pool that is in use has exactly one owner that will pass
   it on or free it, a message, the fifo, the sender or the receiver, and a
   free one has none: no PDU leaks and none is freed twice.                *)
PduSigs == {"FRAME_SEND_REQ", "FRAME_SEND_START", "SEND_DONE", "SEND_ERR", "REV_MSG"}
Carrying(t, p) == {i \in InMailbox(t, PduSigs) : mbox[t][i].pdu = p}
OneOwner ==
  \A p \in Pdu :
    Cardinality(Carrying("LINK", p)) + Cardinality(Carrying("LINK_MAC", p))
      + Cardinality({i \in DOMAIN pduFifo : pduFifo[i] = p})
      + OneIf(SenderHolds /\ macSend.pdu = p) + OneIf(macRev.pdu = p)
    = OneIf(pool[p] # 0)

(* The MAC and the PHY layer agree on the frame in flight: while the MAC layer
   has a PDU there is one request, one transmission or one result of it, and
   otherwise none (link_mac_frame_send_req, link_phy_frame_send_max_retry). *)
OneFrameInFlight ==
  Count("LINK_PHY", {"FRAME_SEND_REQ"}) + OneIf(phy.send = "SENDING")
    + Count("LINK_MAC", {"FRAME_SEND_DONE", "FRAME_SEND_ERR"})
  = OneIf(SenderHolds)

Coming(k) == timer[k] # 0 \/ k \in due \/ Count(k[1], {k[2]}) # 0

(* A transmission always has its timeout to come: whatever order the answers
   and the timeouts are handled in, the PHY layer is never left waiting for
   an answer that was lost.                                                *)
PhyArmed == phy.send = "SENDING" => Coming(PhySendTo)

(* A PDU that is received in part always has its timeout to come. *)
RevArmed == macRev.state = "RECEIVING" => Coming(MacRevTo)

(* In the start-up handshake (LINK to MAC to PHY and back) nothing that the
   layers send each other is dropped by a state function that does not
   handle it yet: only what the client or the peer sent too early is.      *)
Outside == [t \in Task |-> CASE t = "LINK" -> {"SEND_MSG"}
                             [] t = "LINK_MAC" -> {}
                             [] t = "LINK_PHY" -> {"FRAME_REV", "FRAME_REV_CS_ERR"}]
StartupLossless ==
  \A t \in Task : fsm[t] = "init" /\ mbox[t] # <<>>
    => Head(mbox[t]).sig \in Outside[t] \cup {"INIT", "PHY_LAYER_STARTED", "MAC_LAYER_STARTED"}

(* The process never stops but for want of a free PDU. *)
OnlyExhaustion == fatal \in {"none", "LINK_PDU 01"}

(* The three together, for a run in which PDUs also wait in the fifo. *)
StackSafe == OneOwner /\ OneFrameInFlight /\ OnlyExhaustion

(* The timeout of the MAC layer outlasts everything the PHY layer may do with
   a frame, so that it never fires (MacTo against the PHY retries).        *)
MacBackstop == MacSendTo \notin due

(* FATAL("LK_PHY", 0x02) of link_phy.cpp asserts that the MAC layer never asks
   for a frame while one is being sent.                                    *)
PhyIdleOnRequest == fatal # "LK_PHY 02"

(* Every PDU that is taken from the pool is given back. *)
PduReturned == \A p \in Pdu : pool[p] # 0 ~> pool[p] = 0 \/ fatal # "none"
=============================================================================
