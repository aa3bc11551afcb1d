------------------------------- MODULE LinkMac -------------------------------
(***************************************************************************)
(* link_mac.cpp: a PDU is cut into numbered frames, sent through the PHY   *)
(* layer one at a time and, when the PHY layer gives a frame up, once more *)
(* from the first; the frames received are put together to a PDU.          *)
(***************************************************************************)
EXTENDS LinkBase

VARIABLES macSend,          \* the sender: state, PDU, retries, next seq, frame header
          pduFifo,          \* link_pdu_id_fifo: what Fifo implements
          macRev            \* the receiver: state, PDU and sequence number

macVars == <<macSend, pduFifo, macRev>>

(* LINK_PDU_ID_BUF_SIZE: the fifo holds as many ids as there are PDUs *)
FifoSize == Cardinality(Pdu)
(* Mutant of MacMaxRetry: one repetition fewer. *)
MacMaxRetryFewer == 0
MacMaxRetry == 1            \* LINK_MAC_PDU_SENDING_RETRY_COUNTER_MAX

MacInit ==
  /\ macSend = [state |-> "IDLE", pdu |-> None, retry |-> 0, seq |-> 0,
                frame |-> [seq |-> 0, fidx |-> 0, fnum |-> 0]]
  /\ pduFifo = <<>>
  /\ macRev = [state |-> "IDLE", pdu |-> None, seq |-> 0]

MacHandling(sig) == Handling("LINK_MAC", "handle", sig)
MacMsg == Head(mbox["LINK_MAC"])
PduMsg(sig, p) == [sig |-> sig, pdu |-> p]

(* Mutant of MacInitLower: the upper layer is told to start at once. *)
MacInitEarly ==
  /\ Handling("LINK_MAC", "init", "INIT")
  /\ Finish("LINK_MAC", [Post("LINK_PHY", [sig |-> "INIT"]) EXCEPT
                           !["LINK"] = <<[sig |-> "MAC_LAYER_STARTED"]>>])
  /\ UNCHANGED <<fsm, pool, timer, due, line, fatal, macVars>>

MacInitLower ==
  /\ Handling("LINK_MAC", "init", "INIT")
  /\ Finish("LINK_MAC", Post("LINK_PHY", [sig |-> "INIT"]))
  /\ UNCHANGED <<fsm, pool, timer, due, line, fatal, macVars>>

(* rand() gives both sequence numbers; only the peer compares the sender's. *)
MacStart ==
  /\ Handling("LINK_MAC", "init", "PHY_LAYER_STARTED")
  /\ pduFifo' = <<>>
  /\ macSend' = [macSend EXCEPT !.state = "IDLE", !.seq = 0]
  /\ \E s \in 0 .. MacSeqMod - 1 : macRev' = [macRev EXCEPT !.state = "IDLE", !.seq = s]
  /\ fsm' = [fsm EXCEPT !["LINK_MAC"] = "handle"]
  /\ Finish("LINK_MAC", Post("LINK", [sig |-> "MAC_LAYER_STARTED"]))
  /\ UNCHANGED <<pool, timer, due, line, fatal>>

MacDrop == Drop("LINK_MAC", {"INIT", "PHY_LAYER_STARTED"}) /\ UNCHANGED macVars

-----------------------------------------------------------------------------
(* link_mac_frame_send_req, for the sender state s *)
link_mac_frame_send_req(s) ==
  \/ /\ s.state = "SENDING"
     /\ macSend' = s
     /\ Finish("LINK_MAC", Post("LINK_PHY", [sig |-> "FRAME_SEND_REQ", frame |-> s.frame]))
     /\ timer_set(MacSendTo, MacTo)
     /\ UNCHANGED <<fsm, pool, due, line, fatal, pduFifo>>
  \/ /\ s.state = "IDLE"
     /\ Fatal("LINK_MAC 01") /\ UNCHANGED <<macSend, pduFifo>>

(* Mutants of link_mac_frame_send_end: the PDU that is started stays in the
   fifo, or the one that ended is not reported.                            *)
link_mac_frame_send_endKeeps(s, report) ==
  /\ macSend' = IF pduFifo = <<>> THEN [s EXCEPT !.state = "IDLE"] ELSE s
  /\ Finish("LINK_MAC", [Post("LINK", PduMsg(report, s.pdu)) EXCEPT
       !["LINK_MAC"] = IF pduFifo = <<>> THEN <<>>
                       ELSE <<PduMsg("FRAME_SEND_START", Head(pduFifo))>>])
  /\ UNCHANGED <<fsm, pool, due, line, fatal, pduFifo>>

link_mac_frame_send_endSilent(s, report) ==
  /\ \/ /\ pduFifo # <<>>
        /\ pduFifo' = Tail(pduFifo)
        /\ macSend' = s
        /\ Finish("LINK_MAC", Post("LINK_MAC", PduMsg("FRAME_SEND_START", Head(pduFifo))))
     \/ /\ pduFifo = <<>>
        /\ macSend' = [s EXCEPT !.state = "IDLE"]
        /\ Finish("LINK_MAC", NoPost)
        /\ UNCHANGED pduFifo
  /\ UNCHANGED <<fsm, pool, due, line, fatal>>

(* link_mac_frame_send_end and the report to the LINK task: the next PDU that
   waits is started before the one that ended is reported.                 *)
link_mac_frame_send_end(s, report) ==
  /\ LET told == Post("LINK", PduMsg(report, s.pdu)) IN
     \/ /\ pduFifo # <<>>
        /\ pduFifo' = Tail(pduFifo)
        /\ macSend' = s
        /\ Finish("LINK_MAC", [told EXCEPT !["LINK_MAC"] =
                                 <<PduMsg("FRAME_SEND_START", Head(pduFifo))>>])
     \/ /\ pduFifo = <<>>
        /\ macSend' = [s EXCEPT !.state = "IDLE"]
        /\ Finish("LINK_MAC", told)
        /\ UNCHANGED pduFifo
  /\ UNCHANGED <<fsm, pool, due, line, fatal>>

MacSendReq ==
  /\ MacHandling("FRAME_SEND_REQ")
  /\ \/ /\ macSend.state = "IDLE"
        /\ macSend' = [macSend EXCEPT !.state = "SENDING"]
        /\ Finish("LINK_MAC", Post("LINK_MAC", PduMsg("FRAME_SEND_START", MacMsg.pdu)))
        /\ UNCHANGED <<fsm, pool, timer, due, line, fatal, pduFifo>>
     \/ /\ macSend.state = "SENDING" /\ Len(pduFifo) < FifoSize
        /\ pduFifo' = Append(pduFifo, MacMsg.pdu)
        /\ Finish("LINK_MAC", NoPost)
        /\ UNCHANGED <<fsm, pool, timer, due, line, fatal, macSend>>
     \/ /\ macSend.state = "SENDING" /\ Len(pduFifo) = FifoSize
        /\ Fatal("LINK_MAC 03") /\ UNCHANGED <<macSend, pduFifo>>
  /\ UNCHANGED macRev

(* Mutant of MacSendStart: the sequence number is wider than its field. *)
MacSendStartWide ==
  /\ MacHandling("FRAME_SEND_START")
  /\ link_mac_frame_send_req(
       [macSend EXCEPT !.retry = 0, !.pdu = MacMsg.pdu, !.seq = @ + 1,
                       !.frame = [seq |-> macSend.seq, fidx |-> 0, fnum |-> pool[MacMsg.pdu]]])
  /\ UNCHANGED macRev

MacSendStart ==
  /\ MacHandling("FRAME_SEND_START")
  /\ \/ /\ macSend.state = "SENDING" /\ pool[MacMsg.pdu] # 0
        /\ link_mac_frame_send_req(
             [macSend EXCEPT !.retry = 0, !.pdu = MacMsg.pdu, !.seq = (@ + 1) % MacSeqMod,
                             !.frame = [seq |-> macSend.seq, fidx |-> 0,
                                        fnum |-> pool[MacMsg.pdu]]])
     \/ /\ macSend.state = "SENDING" /\ pool[MacMsg.pdu] = 0
        /\ Fatal("LINK_PDU 03") /\ UNCHANGED <<macSend, pduFifo>>
     \/ /\ macSend.state = "IDLE"
        /\ Fatal("LINK_MAC 04") /\ UNCHANGED <<macSend, pduFifo>>
  /\ UNCHANGED macRev

MacSendDone ==
  /\ MacHandling("FRAME_SEND_DONE")
  /\ LET advanced == [macSend EXCEPT !.frame.fidx = @ + 1] IN
     \/ /\ macSend.state = "SENDING" /\ advanced.frame.fidx < macSend.frame.fnum
        /\ link_mac_frame_send_req(advanced)
     \/ /\ macSend.state = "SENDING" /\ advanced.frame.fidx >= macSend.frame.fnum
        /\ timer_remove_attr(MacSendTo)
        /\ link_mac_frame_send_end(advanced, "SEND_DONE")
     \/ /\ macSend.state = "IDLE"
        /\ timer_remove_attr(MacSendTo)
        /\ Finish("LINK_MAC", NoPost)
        /\ UNCHANGED <<fsm, pool, due, line, fatal, macSend, pduFifo>>
  /\ UNCHANGED macRev

(* A frame fails because the PHY layer gives up or because the timer of the
   MAC layer expires: neither handler looks at the send state.             *)
Resend ==
  /\ macSend.retry < MacMaxRetry
  /\ link_mac_frame_send_req([macSend EXCEPT !.retry = Increment(@), !.frame.fidx = 0])
Abandon ==
  /\ macSend.retry >= MacMaxRetry
  /\ link_mac_frame_send_end([macSend EXCEPT !.retry = Increment(@)], "SEND_ERR")

MacSendErr ==
  /\ MacHandling("FRAME_SEND_ERR")
  /\ Resend \/ (timer_remove_attr(MacSendTo) /\ Abandon)
  /\ UNCHANGED macRev

MacSendTimeout ==
  /\ MacHandling("FRAME_SEND_TO")
  /\ Resend \/ (Abandon /\ UNCHANGED timer)
  /\ UNCHANGED macRev

-----------------------------------------------------------------------------
(* Mutant of Accept: the timer is not set. *)
AcceptUntimed(r) ==
  /\ \/ /\ MacMsg.frame.fidx = MacMsg.frame.fnum - 1
        /\ macRev' = [r EXCEPT !.state = "IDLE", !.pdu = None]
        /\ Finish("LINK_MAC", Post("LINK", PduMsg("REV_MSG", r.pdu)))
     \/ /\ MacMsg.frame.fidx # MacMsg.frame.fnum - 1
        /\ macRev' = r
        /\ Finish("LINK_MAC", NoPost)
  /\ UNCHANGED timer

(* A frame of the PDU being received, in the state r of the receiver: the last
   one hands the PDU over, any other restarts the timer.                   *)
Accept(r) ==
  \/ /\ MacMsg.frame.fidx = MacMsg.frame.fnum - 1
     /\ macRev' = [r EXCEPT !.state = "IDLE", !.pdu = None]
     /\ timer_remove_attr(MacRevTo)
     /\ Finish("LINK_MAC", Post("LINK", PduMsg("REV_MSG", r.pdu)))
  \/ /\ MacMsg.frame.fidx # MacMsg.frame.fnum - 1
     /\ macRev' = r
     /\ timer_set(MacRevTo, MacTo)
     /\ Finish("LINK_MAC", NoPost)

(* Mutants of Opens and Continues: the sequence number is not compared. *)
OpensAgain == macRev.state = "IDLE"
ContinuesAny == macRev.state = "RECEIVING"

(* The first frame to arrive of another sequence number opens a PDU. *)
Opens == macRev.state = "IDLE" /\ macRev.seq # MacMsg.frame.seq
Continues == macRev.state = "RECEIVING" /\ macRev.seq = MacMsg.frame.seq

MacFrameRev ==
  /\ MacHandling("FRAME_REV")
  /\ \/ /\ Opens
        /\ \/ /\ FreePdu = {} /\ Fatal("LINK_PDU 01") /\ UNCHANGED macRev
           \/ \E p \in FreePdu :
                /\ pool' = [pool EXCEPT ![p] = 1]
                /\ Accept([state |-> "RECEIVING", pdu |-> p, seq |-> MacMsg.frame.seq])
                /\ UNCHANGED <<fsm, due, line, fatal>>
     \/ /\ Continues
        /\ Accept(macRev)
        /\ UNCHANGED <<fsm, pool, due, line, fatal>>
     \/ /\ ~Opens /\ ~Continues
        /\ Finish("LINK_MAC", NoPost)
        /\ UNCHANGED <<fsm, pool, timer, due, line, fatal, macRev>>
  /\ UNCHANGED <<macSend, pduFifo>>

(* Mutant of MacRevTimeout: the PDU is not freed. *)
MacRevTimeoutLeaks ==
  /\ MacHandling("FRAME_REV_TO")
  /\ macRev' = [macRev EXCEPT !.state = "IDLE", !.pdu = None]
  /\ Finish("LINK_MAC", NoPost)
  /\ UNCHANGED <<fsm, pool, timer, due, line, fatal, macSend, pduFifo>>

MacRevTimeout ==
  /\ MacHandling("FRAME_REV_TO")
  /\ \/ /\ macRev.state = "RECEIVING" /\ pool[macRev.pdu] # 0
        /\ pool' = [pool EXCEPT ![macRev.pdu] = 0]
        /\ macRev' = [macRev EXCEPT !.state = "IDLE", !.pdu = None]
        /\ Finish("LINK_MAC", NoPost)
        /\ UNCHANGED <<fsm, timer, due, line, fatal>>
     \/ /\ macRev.state = "RECEIVING" /\ pool[macRev.pdu] = 0
        /\ Fatal("LINK_PDU 02") /\ UNCHANGED macRev
     \/ /\ macRev.state = "IDLE"
        /\ Finish("LINK_MAC", NoPost)
        /\ UNCHANGED <<fsm, pool, timer, due, line, fatal, macRev>>
  /\ UNCHANGED <<macSend, pduFifo>>

MacNext == \/ MacInitLower \/ MacStart \/ MacDrop
           \/ MacSendReq \/ MacSendStart \/ MacSendDone \/ MacSendErr \/ MacSendTimeout
           \/ MacFrameRev \/ MacRevTimeout
=============================================================================
