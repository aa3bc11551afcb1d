------------------------------- MODULE LinkPhy -------------------------------
(***************************************************************************)
(* link_phy.cpp: one request at a time is written to the serial port and   *)
(* repeated until its ACK comes or the retries run out; a received request *)
(* is acknowledged and handed to the MAC layer.  The frames that arrive    *)
(* are whole: the byte parser posts them as FRAME_REV or, when the         *)
(* checksum fails, as FRAME_REV_CS_ERR.  link_phy_rev_seq_num is only ever *)
(* assigned and left out.                                                  *)
(***************************************************************************)
EXTENDS LinkBase

VARIABLE phy                \* the send state, its retries, sequence number and frame

NoFrame == [seq |-> 0, fidx |-> 0, fnum |-> 0]
PhyInit == phy = [send |-> "IDLE", retry |-> 0, seq |-> 0, frame |-> NoFrame]

Request(p) == [type |-> "REQ", seq |-> p.seq, mac |-> p.frame]
Answer(type, seq) == [type |-> type, seq |-> seq, mac |-> NoFrame]

PhyHandling(sig) == Handling("LINK_PHY", "handle", sig)

(* Mutant of link_phy_frame_send: the timer is not set. *)
link_phy_frame_sendUntimed(p) ==
  /\ phy' = p
  /\ line' = IF p.send = "SENDING" THEN Written(Request(p)) ELSE line
  /\ UNCHANGED timer

(* link_phy_frame_send, for the sender state p: the timer restarts if it sends *)
link_phy_frame_send(p) ==
  /\ phy' = p
  /\ \/ /\ p.send = "SENDING"
        /\ line' = Written(Request(p))
        /\ timer_set(PhySendTo, PhyTo)
     \/ /\ p.send = "IDLE"
        /\ UNCHANGED <<line, timer>>

PhyStart ==
  /\ Handling("LINK_PHY", "init", "INIT")
  /\ phy' = [phy EXCEPT !.send = "IDLE", !.retry = 0]
  /\ fsm' = [fsm EXCEPT !["LINK_PHY"] = "handle"]
  /\ Finish("LINK_PHY", Post("LINK_MAC", [sig |-> "PHY_LAYER_STARTED"]))
  /\ UNCHANGED <<pool, timer, due, line, fatal>>

PhyDrop == Drop("LINK_PHY", {"INIT"}) /\ UNCHANGED phy

PhySendReq ==
  /\ PhyHandling("FRAME_SEND_REQ")
  /\ \/ /\ phy.send = "IDLE"
        /\ link_phy_frame_send([send |-> "SENDING", retry |-> 0,
                                seq |-> (phy.seq + 1) % PhySeqMod,
                                frame |-> Head(mbox["LINK_PHY"]).frame])
        /\ Finish("LINK_PHY", NoPost)
        /\ UNCHANGED <<fsm, pool, due, fatal>>
     \/ phy.send = "SENDING" /\ Fatal("LK_PHY 02") /\ UNCHANGED phy

(* link_phy_frame_send_max_retry *)
GiveUp(p) ==
  /\ phy' = [p EXCEPT !.send = "IDLE"]
  /\ Finish("LINK_PHY", Post("LINK_MAC", [sig |-> "FRAME_SEND_ERR"]))

(* The handler looks at the retry counter and not at the send state. *)
PhySendTimeout ==
  /\ PhyHandling("FRAME_SEND_TO")
  /\ LET counted == [phy EXCEPT !.retry = Increment(@)] IN
     \/ phy.retry >= MaxRetry /\ GiveUp(counted) /\ UNCHANGED <<line, timer>>
     \/ /\ phy.retry < MaxRetry
        /\ link_phy_frame_send(counted)
        /\ Finish("LINK_PHY", NoPost)
  /\ UNCHANGED <<fsm, pool, due, fatal>>

-----------------------------------------------------------------------------
Received == Head(mbox["LINK_PHY"]).frame
IsAnswer(type) ==
  /\ PhyHandling("FRAME_REV") /\ Received.type = type
  /\ phy.send = "SENDING" /\ phy.seq = Received.seq

PhyRevReq ==
  /\ PhyHandling("FRAME_REV") /\ Received.type = "REQ"
  /\ line' = Written(Answer("ACK", Received.seq))
  /\ Finish("LINK_PHY", Post("LINK_MAC", [sig |-> "FRAME_REV", frame |-> Received.mac]))
  /\ UNCHANGED <<fsm, pool, timer, due, fatal, phy>>

(* Mutants of PhyRevAck: the timer is left running, or the state SENDING. *)
PhyRevAckTimed ==
  /\ IsAnswer("ACK")
  /\ phy' = [phy EXCEPT !.send = "IDLE"]
  /\ Finish("LINK_PHY", Post("LINK_MAC", [sig |-> "FRAME_SEND_DONE"]))
  /\ UNCHANGED <<fsm, pool, timer, due, line, fatal>>

PhyRevAckSending ==
  /\ IsAnswer("ACK")
  /\ timer_remove_attr(PhySendTo)
  /\ Finish("LINK_PHY", Post("LINK_MAC", [sig |-> "FRAME_SEND_DONE"]))
  /\ UNCHANGED <<fsm, pool, due, line, fatal, phy>>

PhyRevAck ==
  /\ IsAnswer("ACK")
  /\ timer_remove_attr(PhySendTo)
  /\ phy' = [phy EXCEPT !.send = "IDLE"]
  /\ Finish("LINK_PHY", Post("LINK_MAC", [sig |-> "FRAME_SEND_DONE"]))
  /\ UNCHANGED <<fsm, pool, due, line, fatal>>

PhyRevNack ==
  /\ IsAnswer("NACK")
  /\ LET counted == [phy EXCEPT !.retry = Increment(@)] IN
     \/ /\ phy.retry > MaxRetry
        /\ timer_remove_attr(PhySendTo)
        /\ GiveUp(counted)
        /\ UNCHANGED line
     \/ /\ phy.retry <= MaxRetry
        /\ link_phy_frame_send(counted)
        /\ Finish("LINK_PHY", NoPost)
  /\ UNCHANGED <<fsm, pool, due, fatal>>

(* An answer to no request in progress *)
PhyRevStale ==
  /\ PhyHandling("FRAME_REV") /\ Received.type \in {"ACK", "NACK"}
  /\ ~(phy.send = "SENDING" /\ phy.seq = Received.seq)
  /\ Finish("LINK_PHY", NoPost)
  /\ UNCHANGED <<fsm, pool, timer, due, line, fatal, phy>>

PhyRevChecksumError ==
  /\ PhyHandling("FRAME_REV_CS_ERR")
  /\ line' = Written(Answer("NACK", Received.seq))
  /\ Finish("LINK_PHY", NoPost)
  /\ UNCHANGED <<fsm, pool, timer, due, fatal, phy>>

PhyNext == \/ PhyStart \/ PhyDrop \/ PhySendReq \/ PhySendTimeout
           \/ PhyRevReq \/ PhyRevAck \/ PhyRevNack \/ PhyRevStale \/ PhyRevChecksumError
=============================================================================
