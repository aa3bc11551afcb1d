----------------------------- MODULE PhyParser -----------------------------
(***************************************************************************)
(* The byte parser of the link PHY layer (networks/net/link/link_phy.cpp). *)
(* The receive thread feeds it byte by byte: each byte reads the parser's  *)
(* state, acts on it, and stores the next state.  The PHY task stores the  *)
(* first state into it when the frame timeout comes.  A mutex is held for  *)
(* each read and each store, not from the one to the other.                *)
(*                                                                         *)
(* A byte is known by its frame and its place in it.  The checksum is      *)
(* correct exactly when the parser saw all bytes of one frame in order;    *)
(* what it reads out of place may have any value.                          *)
(***************************************************************************)
EXTENDS Naturals, Sequences

CONSTANTS AddrLast,     \* 3: index of the first byte received of an address
          DataLen,      \* the longest data field of a frame
          MaxFaults,    \* bound: bytes lost or garbled, and events out of time
          MaxBacklog    \* bound: frames begin only while fewer messages wait

ASSUME AddrLastIsNat == AddrLast \in Nat
ASSUME DataLenIsNat == DataLen \in Nat
ASSUME ParserBounds == MaxFaults \in Nat /\ MaxBacklog \in Nat \ {0}

VARIABLES
  state,       \* link_phy_frame_parser_state_revc
  rx,          \* the receive thread: pc, the state it read, the byte it handles
  index, len,  \* link_phy_util_index and rev_link_phy_frame.header.len
  revTimer,    \* the timer GW_LINK_PHY_FRAME_REV_TO is set
  mailbox,     \* what the PHY task is to handle, of the signals that matter here
  fsm,         \* the state of fsm_link_phy
  peer,        \* the frame on the line: its parity, data length and next byte
  run,         \* history: what the bytes since the start of frame are
  accepted,    \* history: the frame whose checksum was correct last
  overwrote,   \* history: in this frame a byte stored its state over the timeout's
  faults, dead

vars == <<state, rx, index, len, revTimer, mailbox, fsm, peer, run, accepted,
          overwrote, faults, dead>>

State == {"SOF", "DES_ADDR", "SRC_ADDR", "TYPE", "SUB_TYPE", "SEQ_NUM", "LEN", "FCS", "DATA"}
Signal == {"INIT", "FRAME_REV_TO", "FRAME_REV", "FRAME_REV_CS_ERR"}

(* Places in a frame: SOF, two addresses, TYPE, SUB_TYPE, SEQ_NUM, LEN, FCS,
   data.                                                                   *)
LenPlace == 2 * (AddrLast + 1) + 5
Places(l) == LenPlace + 1 + l
Byte == [frame : 0..1, len : 0..DataLen, place : 1..Places(DataLen), ok : BOOLEAN]
Mixed == [frame |-> 0, place |-> 0]

TypeOK ==
  /\ state \in State
  /\ rx \in [pc : {"read", "act", "start_to", "clear_to", "post", "reset"}, cur : State, byte : Byte]
  /\ index \in 0..(IF AddrLast > DataLen THEN AddrLast ELSE DataLen)
  /\ len \in 0..DataLen
  /\ revTimer \in BOOLEAN /\ fsm \in {"init", "handle"}
  /\ mailbox \in Seq(Signal)
  /\ peer \in [frame : 0..1, len : 0..DataLen, next : 0..Places(DataLen)]
  /\ run \in [frame : 0..1, place : 0..Places(DataLen)]
  /\ accepted \in 0..1 /\ overwrote \in BOOLEAN
  /\ faults \in 0..MaxFaults /\ dead \in BOOLEAN

Init ==
  /\ state = "SOF" /\ index = 0 /\ len = 0
  /\ rx = [pc |-> "read", cur |-> "SOF", byte |-> [frame |-> 0, len |-> 0, place |-> 1, ok |-> TRUE]]
  /\ revTimer = FALSE /\ mailbox = <<"INIT">> /\ fsm = "init"
  /\ peer = [frame |-> 0, len |-> 0, next |-> 0]
  /\ run = Mixed /\ accepted = 0 /\ overwrote = FALSE
  /\ faults = 0 /\ dead = FALSE

(* An event that a fault of the line or of the timing stands behind. *)
Fault(bad) == IF bad THEN faults < MaxFaults /\ faults' = faults + 1 ELSE UNCHANGED faults

-----------------------------------------------------------------------------
(* gw_link_phy_frame_rev_byte, in the receive thread.                      *)
OnLine == IF peer.next = Places(peer.len) THEN 0 ELSE peer.next + 1

(* A byte arrives and the state is read, under the mutex. *)
RxGet ==
  /\ rx.pc = "read" /\ peer.next # 0
  /\ \E ok \in BOOLEAN :
       /\ Fault(~ok)
       /\ rx' = [pc |-> "act", cur |-> state,
                 byte |-> [frame |-> peer.frame, len |-> peer.len, place |-> peer.next, ok |-> ok]]
  /\ peer' = [peer EXCEPT !.next = OnLine]
  /\ UNCHANGED <<state, index, len, revTimer, mailbox, fsm, run, accepted, overwrote, dead>>

RxGoto(pc) == rx' = [rx EXCEPT !.pc = pc]

(* The next state is stored, under the mutex, whatever is there by now. *)
Store(next) ==
  /\ state' = next
  /\ overwrote' = (next # "SOF" /\ (overwrote \/ state # rx.cur))

Keep == UNCHANGED <<state, overwrote>>

Acts(cur) == rx.pc = "act" /\ rx.cur = cur
rxFrame == <<revTimer, mailbox, fsm, peer, accepted, faults>>

(* The place in a frame of the byte that is stored where this one goes. *)
PlaceOf(cur) ==
  CASE cur = "DES_ADDR" -> 2 + AddrLast - index
    [] cur = "SRC_ADDR" -> 3 + 2 * AddrLast - index
    [] cur = "TYPE"     -> LenPlace - 3
    [] cur = "SUB_TYPE" -> LenPlace - 2
    [] cur = "SEQ_NUM"  -> LenPlace - 1
    [] cur = "LEN"      -> LenPlace
    [] cur = "FCS"      -> LenPlace + 1
    [] cur = "DATA"     -> LenPlace + 2 + index

(* The byte continues the frame received so far, in its own field, or spoils it. *)
Continue ==
  run' = IF /\ run # Mixed /\ rx.byte.ok
            /\ run = [frame |-> rx.byte.frame, place |-> rx.byte.place - 1]
            /\ rx.byte.place = PlaceOf(rx.cur)
         THEN [frame |-> rx.byte.frame, place |-> rx.byte.place]
         ELSE Mixed

IsSof == rx.byte.place = 1 /\ rx.byte.ok

RxSof ==
  /\ Acts("SOF")
  /\ \/ /\ index' = AddrLast
        /\ Store("DES_ADDR")
        /\ RxGoto("start_to")
        /\ run' = IF IsSof THEN [frame |-> rx.byte.frame, place |-> 1] ELSE Mixed
     \/ /\ ~IsSof
        /\ RxGoto("read") /\ Keep
        /\ UNCHANGED <<index, run>>
  /\ UNCHANGED <<rxFrame, len, dead>>

RxStartTo ==
  /\ rx.pc = "start_to"
  /\ revTimer' = TRUE
  /\ RxGoto("read") /\ Keep
  /\ UNCHANGED <<index, len, mailbox, fsm, peer, run, accepted, faults, dead>>

(* Mutant of RxAddr: the index is decremented before it is tested. *)
RxAddrShort ==
  /\ Acts("DES_ADDR") \/ Acts("SRC_ADDR")
  /\ IF index <= 1
     THEN /\ index' = IF rx.cur = "DES_ADDR" THEN AddrLast ELSE index
          /\ Store(IF rx.cur = "DES_ADDR" THEN "SRC_ADDR" ELSE "TYPE")
     ELSE index' = index - 1 /\ Keep
  /\ Continue /\ RxGoto("read")
  /\ UNCHANGED <<rxFrame, len, dead>>

RxAddr ==
  /\ Acts("DES_ADDR") \/ Acts("SRC_ADDR")
  /\ IF index = 0
     THEN /\ index' = IF rx.cur = "DES_ADDR" THEN AddrLast ELSE index
          /\ Store(IF rx.cur = "DES_ADDR" THEN "SRC_ADDR" ELSE "TYPE")
     ELSE index' = index - 1 /\ Keep
  /\ Continue /\ RxGoto("read")
  /\ UNCHANGED <<rxFrame, len, dead>>

Following == [TYPE |-> "SUB_TYPE", SUB_TYPE |-> "SEQ_NUM", SEQ_NUM |-> "LEN"]

RxField ==
  /\ \E f \in DOMAIN Following : Acts(f) /\ Store(Following[f])
  /\ Continue /\ RxGoto("read")
  /\ UNCHANGED <<rxFrame, index, len, dead>>

(* A length that cannot be is FATAL. *)
RxLen ==
  /\ Acts("LEN")
  /\ Continue /\ RxGoto("read")
  /\ \/ /\ \E l \in 0..DataLen :
             /\ run' # Mixed => l = rx.byte.len
             /\ len' = l
        /\ Store("FCS")
        /\ UNCHANGED dead
     \/ /\ run' = Mixed
        /\ Store("SOF")
        /\ dead' = TRUE
        /\ UNCHANGED len
  /\ UNCHANGED <<rxFrame, index>>

(* Mutant of RxFcs: the timer is removed before the data is waited for. *)
RxFcsClears ==
  /\ Acts("FCS")
  /\ Continue
  /\ revTimer' = FALSE
  /\ IF len > 0 THEN index' = 0 /\ Store("DATA") /\ RxGoto("read")
                ELSE UNCHANGED index /\ Keep /\ RxGoto("clear_to")
  /\ UNCHANGED <<len, mailbox, fsm, peer, accepted, faults, dead>>

RxFcs ==
  /\ Acts("FCS")
  /\ Continue
  /\ IF len > 0 THEN index' = 0 /\ Store("DATA") /\ RxGoto("read")
                ELSE UNCHANGED index /\ Keep /\ RxGoto("clear_to")
  /\ UNCHANGED <<rxFrame, len, dead>>

RxData ==
  /\ Acts("DATA")
  /\ Continue
  /\ index' = index + 1
  /\ RxGoto(IF index' = len THEN "clear_to" ELSE "read")
  /\ Keep
  /\ UNCHANGED <<rxFrame, len, dead>>

(* Mutant of RxClearTo: the timer is left running. *)
RxClearToNot ==
  /\ rx.pc = "clear_to"
  /\ RxGoto("post") /\ Keep
  /\ UNCHANGED <<revTimer, index, len, mailbox, fsm, peer, run, accepted, faults, dead>>

RxClearTo ==
  /\ rx.pc = "clear_to"
  /\ revTimer' = FALSE
  /\ RxGoto("post") /\ Keep
  /\ UNCHANGED <<index, len, mailbox, fsm, peer, run, accepted, faults, dead>>

(* The checksum, which counts the SOF byte that GW_LINK_PHY_INIT stored. *)
RxPost ==
  /\ rx.pc = "post"
  /\ IF run # Mixed /\ fsm = "handle"
     THEN mailbox' = Append(mailbox, "FRAME_REV") /\ accepted' = run.frame
     ELSE mailbox' = Append(mailbox, "FRAME_REV_CS_ERR") /\ UNCHANGED accepted
  /\ RxGoto("reset") /\ Keep
  /\ UNCHANGED <<index, len, revTimer, fsm, peer, run, faults, dead>>

RxReset ==
  /\ rx.pc = "reset"
  /\ Store("SOF")
  /\ run' = Mixed
  /\ RxGoto("read")
  /\ UNCHANGED <<rxFrame, index, len, dead>>

Rx == \/ RxGet \/ RxSof \/ RxStartTo \/ RxAddr \/ RxField \/ RxLen \/ RxFcs
      \/ RxData \/ RxClearTo \/ RxPost \/ RxReset

-----------------------------------------------------------------------------
(* The PHY task.  Frames are answered in module LinkPhy; here they only leave
   the mailbox.  In fsm_link_phy_state_init all but INIT is dropped.       *)
PhyInit ==
  /\ mailbox # <<>> /\ Head(mailbox) = "INIT" /\ fsm = "init"
  /\ mailbox' = Tail(mailbox)
  /\ fsm' = "handle"
  /\ state' = "SOF"
  /\ overwrote' = FALSE
  /\ UNCHANGED <<rx, index, len, revTimer, peer, run, accepted, faults, dead>>

(* Mutant of PhyRevTo: the timeout resets nothing. *)
PhyRevToNothing ==
  /\ mailbox # <<>> /\ Head(mailbox) = "FRAME_REV_TO" /\ fsm = "handle"
  /\ mailbox' = Tail(mailbox)
  /\ UNCHANGED <<state, rx, index, len, revTimer, fsm, peer, run, accepted, overwrote, faults, dead>>

PhyRevTo ==
  /\ mailbox # <<>> /\ Head(mailbox) = "FRAME_REV_TO" /\ fsm = "handle"
  /\ mailbox' = Tail(mailbox)
  /\ state' = "SOF"
  /\ overwrote' = FALSE
  /\ UNCHANGED <<rx, index, len, revTimer, fsm, peer, run, accepted, faults, dead>>

PhyOther ==
  /\ mailbox # <<>>
  /\ Head(mailbox) \notin IF fsm = "init" THEN {"INIT"} ELSE {"FRAME_REV_TO"}
  /\ mailbox' = Tail(mailbox)
  /\ UNCHANGED <<state, rx, index, len, revTimer, fsm, peer, run, accepted, overwrote, faults, dead>>

Phy == PhyInit \/ PhyRevTo \/ PhyOther

-----------------------------------------------------------------------------
(* The timer and the line.                                                 *)

(* 25 ms are many frames' time: the timer expires while the line is silent,
   or else the receive thread is held up.                                  *)
Expire ==
  /\ revTimer /\ revTimer' = FALSE
  /\ Fault(peer.next # 0 \/ rx.pc # "read")
  /\ mailbox' = Append(mailbox, "FRAME_REV_TO")
  /\ UNCHANGED <<state, rx, index, len, fsm, peer, run, accepted, overwrote, dead>>

(* The peer waits longer for an answer than the parser for the rest of a
   frame: it begins while the parser is in its first state, or no timeout is
   to come that could still bring it there.                                *)
ToWaits == \E i \in 1..Len(mailbox) : mailbox[i] = "FRAME_REV_TO"

InTime ==
  /\ fsm = "handle" /\ rx.pc = "read"
  /\ state = "SOF" \/ (~revTimer /\ ~ToWaits)

StartFrame ==
  /\ peer.next = 0 /\ Len(mailbox) < MaxBacklog
  /\ Fault(~InTime)
  /\ \E l \in 0..DataLen : peer' = [frame |-> 1 - peer.frame, len |-> l, next |-> 1]
  /\ UNCHANGED <<state, rx, index, len, revTimer, mailbox, fsm, run, accepted, overwrote, dead>>

LoseByte ==
  /\ peer.next # 0 /\ Fault(TRUE)
  /\ peer' = [peer EXCEPT !.next = OnLine]
  /\ UNCHANGED <<state, rx, index, len, revTimer, mailbox, fsm, run, accepted, overwrote, dead>>

Next == ~dead /\ (Rx \/ Phy \/ Expire \/ StartFrame \/ LoseByte)

Spec == Init /\ [][Next]_vars

(* Both threads and the timer thread run. *)
Fairness == WF_vars(~dead /\ Rx) /\ WF_vars(~dead /\ Phy) /\ WF_vars(~dead /\ Expire)

FairSpec == Spec /\ Fairness

-----------------------------------------------------------------------------
(* Inside a frame a timeout is to come, so that the parser does not wait for
   bytes of a frame that are lost, unless one thing happened in it: a byte
   stored its state over that of the timeout, between whose read and store the PHY
   task reset the parser (FRAME_REV_TO, link_phy_frame_parser_state_revc_set). *)
MidFrameTimed ==
  state # "SOF" =>
    \/ revTimer \/ ToWaits \/ fsm = "init"
    \/ rx.pc \in {"start_to", "post", "reset"}
    \/ overwrote

(* On a line that loses nothing, and with all in time, every frame is accepted
   and none is garbled by a timeout of an earlier one
   (link_phy_rev_frame_clear_to, gw_link_phy_frame_rev_byte).              *)
Lossless ==
  faults = 0 =>
    /\ ~dead
    /\ \A i \in 1..Len(mailbox) : mailbox[i] # "FRAME_REV_CS_ERR"
    /\ peer.next = 0 /\ rx.pc = "read" => state = "SOF" /\ accepted = peer.frame

(* Whatever was lost, garbled or out of time, a peer that keeps sending is
   heard again, unless a misread length has ended the process; the peer must
   not go on for ever to begin frames just between the expiry of a timeout and
   its handling, which would reset every one of them (FRAME_REV_TO).       *)
Heard == \E i \in 1..Len(mailbox) : mailbox[i] = "FRAME_REV"

Resync ==
  []<><<StartFrame>>_vars /\ <>[][StartFrame => ~ToWaits]_vars => []<>Heard \/ <>dead
=============================================================================
