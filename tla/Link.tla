-------------------------------- MODULE Link --------------------------------
(***************************************************************************)
(* link.cpp: a message for the other board becomes a PDU of the pool that  *)
(* is handed to the MAC layer and freed when the MAC layer reports its     *)
(* end; a received PDU is turned into a message for the CPU serial task,   *)
(* which is outside the stack, and freed.                                  *)
(***************************************************************************)
EXTENDS LinkBase

LinkHandling(sig) == Handling("LINK", "handle", sig)
LinkMsg == Head(mbox["LINK"])

LinkInit ==
  /\ Handling("LINK", "init", "INIT")
  /\ pool' = [p \in Pdu |-> 0]
  /\ Finish("LINK", Post("LINK_MAC", [sig |-> "INIT"]))
  /\ UNCHANGED <<fsm, timer, due, line, fatal>>

LinkStart ==
  /\ Handling("LINK", "init", "MAC_LAYER_STARTED")
  /\ fsm' = [fsm EXCEPT !["LINK"] = "handle"]
  /\ Finish("LINK", NoPost)
  /\ UNCHANGED <<pool, timer, due, line, fatal>>

LinkDrop == Drop("LINK", {"INIT", "MAC_LAYER_STARTED"})

(* GW_LINK_SEND_PURE_MSG, _COMMON_MSG, _DYNAMIC_MSG and _DATA, which differ in
   the payload they write and in its length.                               *)
LinkSendMsg ==
  /\ LinkHandling("SEND_MSG")
  /\ \/ FreePdu = {} /\ Fatal("LINK_PDU 01")
     \/ \E p \in FreePdu :
          /\ pool' = [pool EXCEPT ![p] = LinkMsg.frames]
          /\ Finish("LINK", Post("LINK_MAC", [sig |-> "FRAME_SEND_REQ", pdu |-> p]))
          /\ UNCHANGED <<fsm, timer, due, line, fatal>>

(* link_pdu_free; GW_LINK_REV_MSG looks the PDU up before *)
link_pdu_free(p, code) ==
  \/ /\ pool[p] # 0
     /\ pool' = [pool EXCEPT ![p] = 0]
     /\ Finish("LINK", NoPost)
     /\ UNCHANGED <<fsm, timer, due, line, fatal>>
  \/ pool[p] = 0 /\ Fatal(code)

LinkSendDone == LinkHandling("SEND_DONE") /\ link_pdu_free(LinkMsg.pdu, "LINK_PDU 02")
LinkSendErr == LinkHandling("SEND_ERR") /\ link_pdu_free(LinkMsg.pdu, "LINK_PDU 02")
LinkRevMsg == LinkHandling("REV_MSG") /\ link_pdu_free(LinkMsg.pdu, "LINK_PDU 03")

LinkNext == \/ LinkInit \/ LinkStart \/ LinkDrop
            \/ LinkSendMsg \/ LinkSendDone \/ LinkSendErr \/ LinkRevMsg
=============================================================================
