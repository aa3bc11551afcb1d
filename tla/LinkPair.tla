------------------------------ MODULE LinkPair ------------------------------
(***************************************************************************)
(* Two boards and the serial line between them: the stack of LinkStack     *)
(* sends, a second one, B, receives and answers, and the line loses,       *)
(* garbles or delays what each writes.  PDUs travel one way; both boards   *)
(* have started.                                                           *)
(*                                                                         *)
(* The PDUs are numbered as they are sent, from 0, like their sequence     *)
(* numbers: MaxSends stays below MacSeqMod.                                *)
(***************************************************************************)
EXTENDS LinkStack

CONSTANTS MaxSends,         \* bound: PDUs sent
          MaxFaults         \* bound: frames lost, garbled or late

ASSUME PairBounds == MaxSends \in 1 .. MacSeqMod - 1 /\ MaxFaults \in Nat

VARIABLES
  mboxB, fsmB, poolB, timerB, dueB, lineB, fatalB, phyB, macSendB, pduFifoB, macRevB,
  first,            \* the sequence number board B starts from
  faults,           \* history: the faults of the line
  size,             \* history: the frames of every PDU that was sent
  reports,          \* history: what the LINK task was told of every PDU, in order
  slots,            \* history: slots[p]: what has been written into PDU p of board B
  given             \* history: what the LINK task of board B was given, in order

boardA == <<baseVars, phy, macVars>>
boardB == <<mboxB, fsmB, poolB, timerB, dueB, lineB, fatalB, phyB, macSendB, pduFifoB, macRevB>>
pairVars == <<boardA, boardB, late, first, faults, size, reports, slots, given>>

B == INSTANCE LinkStack WITH
       mbox <- mboxB, fsm <- fsmB, pool <- poolB, timer <- timerB, due <- dueB,
       line <- lineB, fatal <- fatalB, phy <- phyB, macSend <- macSendB,
       pduFifo <- pduFifoB, macRev <- macRevB

(* Both boards have gone through the handshake of LinkStack. *)
PairInit ==
  /\ mbox = [t \in Task |-> <<>>] /\ fsm = [t \in Task |-> "handle"]
  /\ pool = [p \in Pdu |-> 0] /\ timer = [k \in TimerKey |-> 0] /\ due = {}
  /\ line = <<>> /\ fatal = "none" /\ PhyInit /\ MacInit
  /\ mboxB = mbox /\ fsmB = fsm /\ poolB = pool /\ timerB = timer /\ dueB = due
  /\ lineB = line /\ fatalB = fatal /\ B!PhyInit
  /\ macSendB = macSend /\ pduFifoB = pduFifo
  /\ first \in 0 .. MacSeqMod - 1 /\ macRevB = [macRev EXCEPT !.seq = first]
  /\ late = 0 /\ faults = 0
  /\ size = <<>> /\ reports = <<>> /\ given = <<>>
  /\ slots = [p \in Pdu |-> {}]

-----------------------------------------------------------------------------
(* Board A: the CPU serial task sends, the tasks of the stack work. *)
Sends ==
  /\ Len(size) < MaxSends /\ Backlog < MaxBacklog
  /\ \E n \in 1..MaxFrames :
       /\ Arrives("LINK", [sig |-> "SEND_MSG", frames |-> n])
       /\ size' = Append(size, n)
  /\ UNCHANGED <<line, boardB, first, faults, reports, slots, given>>

(* The LINK task learns how the sending of a PDU ended. *)
IsTold(handler, report) ==
  handler /\ reports' = Append(reports, report) /\ UNCHANGED <<phy, macVars, late>>

StepA ==
  /\ \/ (PhyStep \/ MacStep) /\ UNCHANGED reports
     \/ LinkSendMsg /\ UNCHANGED <<reports, phy, macVars, late>>
     \/ IsTold(LinkSendDone, "DONE") \/ IsTold(LinkSendErr, "ERR")
  /\ UNCHANGED <<boardB, first, faults, size, slots, given>>

(* Board B: the PHY layer answers; the MAC layer writes a frame into the PDU
   that it receives or that the frame opens; the LINK task is given the PDU. *)
Heard == Head(mboxB["LINK_MAC"]).frame
Writes(p) ==
  /\ B!MacHandling("FRAME_REV")
  /\ \/ poolB[p] = 0 /\ poolB'[p] # 0
     \/ macRevB.pdu = p /\ macRevB.seq = Heard.seq

StepB ==
  /\ \/ B!PhyStep /\ UNCHANGED <<slots, given>>
     \/ /\ B!MacStep
        /\ slots' = [p \in Pdu |-> IF poolB'[p] = 0 THEN {}
                                   ELSE IF Writes(p) THEN slots[p] \cup {Heard} ELSE slots[p]]
        /\ UNCHANGED given
     \/ /\ B!LinkStep
        /\ given' = Append(given, slots[B!LinkMsg.pdu])
        /\ slots' = [slots EXCEPT ![B!LinkMsg.pdu] = {}]
  /\ UNCHANGED <<boardA, first, faults, size, reports>>

-----------------------------------------------------------------------------
(* What arrives of the frame f: its parser posts the frame or, when a byte of
   it was changed, the failure of its checksum; a frame may also be lost.   *)
Fault == faults < MaxFaults /\ faults' = faults + 1
Carried(box, f) ==
  \/ box' = [box EXCEPT !["LINK_PHY"] = Append(@, [sig |-> "FRAME_REV", frame |-> f])]
     /\ UNCHANGED faults
  \/ box' = [box EXCEPT !["LINK_PHY"] = Append(@, [sig |-> "FRAME_REV_CS_ERR", frame |-> f])]
     /\ Fault
  \/ UNCHANGED box /\ Fault

CarryToB ==
  /\ line # <<>> /\ line' = Tail(line)
  /\ Carried(mboxB, Head(line))
  /\ UNCHANGED <<mbox, fsm, pool, timer, due, fatal, phy, macVars>>
  /\ UNCHANGED <<fsmB, poolB, timerB, dueB, lineB, fatalB, phyB, macSendB, pduFifoB, macRevB>>

CarryToA ==
  /\ lineB # <<>> /\ lineB' = Tail(lineB)
  /\ Carried(mbox, Head(lineB))
  /\ UNCHANGED <<line, fsm, pool, timer, due, fatal, phy, macVars>>
  /\ UNCHANGED <<mboxB, fsmB, poolB, timerB, dueB, fatalB, phyB, macSendB, pduFifoB, macRevB>>

Carry == due = {} /\ dueB = {} /\ (CarryToB \/ CarryToA) /\ UNCHANGED <<late, first, size, reports, slots, given>>

(* Both boards count time alike.  The tasks are done with their messages when
   a tick comes; a frame that is still on its way then is a fault.          *)
Idle(box) == \A t \in Task : box[t] = <<>>
PairTick ==
  /\ Idle(mbox) /\ Idle(mboxB) /\ due = {} /\ dueB = {}
  /\ \E k \in TimerKey : timer[k] # 0 \/ timerB[k] # 0
  /\ IF line = <<>> /\ lineB = <<>> THEN UNCHANGED faults ELSE Fault
  /\ due' = {k \in TimerKey : timer[k] = 1} /\ dueB' = {k \in TimerKey : timerB[k] = 1}
  /\ timer' = [k \in TimerKey |-> IF timer[k] = 0 THEN 0 ELSE timer[k] - 1]
  /\ timerB' = [k \in TimerKey |-> IF timerB[k] = 0 THEN 0 ELSE timerB[k] - 1]
  /\ UNCHANGED <<mbox, fsm, pool, line, fatal, phy, macVars>>
  /\ UNCHANGED <<mboxB, fsmB, poolB, lineB, fatalB, phyB, macSendB, pduFifoB, macRevB>>
  /\ UNCHANGED <<late, first, size, reports, slots, given>>

ExpireA == \E k \in TimerKey : Expire(k) /\ UNCHANGED boardB
ExpireB == \E k \in TimerKey : B!Expire(k) /\ UNCHANGED boardA
PairExpire == (ExpireA \/ ExpireB) /\ UNCHANGED <<first, faults, size, reports, slots, given>>

PairNext == Sends \/ StepA \/ StepB \/ Carry \/ PairTick \/ PairExpire
PairSpec == PairInit /\ [][PairNext]_pairVars

-----------------------------------------------------------------------------
FramesOf(s) == {[seq |-> s, fidx |-> i, fnum |-> size[s + 1]] : i \in 0 .. size[s + 1] - 1}
Sent == 0 .. Len(size) - 1

(* A receiver that starts from the sequence number of the first PDU takes it
   for one that it has had (rand() gives both, and nothing seeds it).       *)
TakenForOld(s) == s = 0 /\ first = 0

(* Every PDU that the other board is given is one that was sent, with all of its
   frames (they are told apart by their index, the PDUs by their sequence number:
   neither a repetition nor the rest of another PDU gets in).  It takes as many
   faults as both layers have repetitions to make the sender give a PDU up, and one
   more for the receiver, which still waits for its rest, to acknowledge and ignore
   the beginning of the next one and then take what follows for a PDU.      *)
Whole ==
  faults <= 2 * (MaxRetry + 1)
    => \A i \in DOMAIN given : \E s \in Sent : given[i] = FramesOf(s)

(* No PDU is given twice, and none before an earlier one: the repetitions of
   both layers are recognised.                                              *)
InOrderOnce ==
  \A i, j \in DOMAIN given : i < j => \A f \in given[i], g \in given[j] : f.seq < g.seq

(* With fewer faults than both layers have repetitions, every PDU that is
   reported has arrived: DONE is true, and there is no ERR.                 *)
Arrived_B(s) == \E i \in DOMAIN given : given[i] = FramesOf(s)
ReportedArrived ==
  faults < 2 * (MaxRetry + 1) /\ Idle(mboxB)
    => \A s \in Sent : s < Len(reports) /\ ~TakenForOld(s) => reports[s + 1] = "DONE" /\ Arrived_B(s)
=============================================================================
