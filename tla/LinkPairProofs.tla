--------------------------- MODULE LinkPairProofs ---------------------------
(***************************************************************************)
(* Two boards and a line, for every number of PDUs and faults: whatever    *)
(* the line loses, garbles or delays, the PDUs that board B is given come  *)
(* in the order they were sent in, and none comes twice.  The second half  *)
(* is the account that LinkWholeProofs needs: that a frame is given up     *)
(* only for as many faults as it has attempts, and that what is on its way *)
(* then still belongs to the last frames that were sent.                   *)
(***************************************************************************)
EXTENDS LinkPair, LinkProofs

-----------------------------------------------------------------------------
(* The frames of a stage between the two receivers' and senders' tasks, and the
   sequence number that each carries: the frames the MAC layer of A asks for
   ("asked"), the requests on the line ("line") and in the mailbox of B's PHY
   layer ("wire") and the frames in that of its MAC layer ("heard").        *)
IsFrame(stage, m) ==
  \/ stage = "asked" /\ m.sig = "FRAME_SEND_REQ"
  \/ stage = "line" /\ m.type = "REQ"
  \/ stage = "wire" /\ m.sig = "FRAME_REV" /\ m.frame.type = "REQ"
  \/ stage = "heard" /\ m.sig = "FRAME_REV"
SeqOf(stage, m) ==
  IF stage = "line" THEN m.mac.seq ELSE IF stage = "wire" THEN m.frame.mac.seq ELSE m.frame.seq

SeqNo == 0 .. MacSeqMod - 1

(* The sequence numbers of a stage never fall and lie between lo and hi. *)
Rising(stage, s, lo, hi) ==
  /\ lo <= hi
  /\ \A i \in 1..Len(s) : IsFrame(stage, s[i]) => SeqOf(stage, s[i]) \in lo..hi
  /\ \A i, j \in 1..Len(s) :
       i < j /\ IsFrame(stage, s[i]) /\ IsFrame(stage, s[j]) => SeqOf(stage, s[i]) <= SeqOf(stage, s[j])

(* From the sender of A to the receiver of B they never fall. *)
Upper(b) ==
  /\ Rising("line", line, b, phy.frame.seq)
  /\ Rising("asked", mbox["LINK_PHY"], phy.frame.seq, macSend.frame.seq)
  /\ macSend.frame.seq <= macSend.seq
Lower(b0, b1, b2) ==
  /\ Rising("heard", mboxB["LINK_MAC"], b0, b1)
  /\ Rising("wire", mboxB["LINK_PHY"], b1, b2)

(* A numbers only what it was asked to send, so that no number wraps. *)
Agenda ==
  /\ fsm = [t \in Task |-> "handle"]
  /\ size \in Seq(1..MaxFrames) /\ Len(size) <= MaxSends
  /\ macSend.seq + Cnt(mbox["LINK"], {"SEND_MSG"})
       + Cnt(mbox["LINK_MAC"], {"FRAME_SEND_REQ", "FRAME_SEND_START"}) + Len(pduFifo)
     <= Len(size)

(* Board B only answers and receives. *)
RevMsgs == [sig : {"REV_MSG"}, pdu : Pdu]
HeardMsgs == [sig : {"FRAME_REV"}, frame : AnyFrame] \cup [sig : {"FRAME_REV_TO"}]
WireMsgs == [sig : {"FRAME_REV", "FRAME_REV_CS_ERR"}, frame : PhyFrame]
BMsgs == RevMsgs \cup HeardMsgs \cup WireMsgs
Receives ==
  /\ mboxB \in [Task -> Seq(BMsgs)]
  /\ mboxB["LINK"] \in Seq(RevMsgs) /\ mboxB["LINK_MAC"] \in Seq(HeardMsgs)
  /\ mboxB["LINK_PHY"] \in Seq(WireMsgs)
  /\ fsmB = [t \in Task |-> "handle"]
  /\ poolB \in [Pdu -> Nat] /\ timerB \in [TimerKey -> Nat]
  /\ timerB[PhySendTo] = 0 /\ timerB[MacSendTo] = 0 /\ dueB \subseteq {MacRevTo}
  /\ lineB \in Seq(PhyFrame) /\ phyB.send = "IDLE"
  /\ macRevB \in MacReceiver /\ (macRevB.state = "IDLE" <=> macRevB.pdu = None)
  /\ slots \in [Pdu -> SUBSET AnyFrame] /\ given \in Seq(SUBSET AnyFrame)

(* A PDU of B has one owner, and a free one is empty. *)
Told(j) == mboxB["LINK"][j].pdu
Owns ==
  /\ \A p \in Pdu : poolB[p] = 0 => slots[p] = {}
  /\ \A j \in 1..Len(mboxB["LINK"]) : poolB[Told(j)] # 0 /\ Told(j) # macRevB.pdu
  /\ \A i, j \in 1..Len(mboxB["LINK"]) : i < j => Told(i) # Told(j)
  /\ macRevB.pdu # None => poolB[macRevB.pdu] # 0

Before(F, G) == \A f \in F, g \in G : f.seq < g.seq

(* What the LINK task was given, then what waits for it. *)
InTurn ==
  /\ \A i, j \in 1..Len(given) : i < j => Before(given[i], given[j])
  /\ \A i \in 1..Len(given) : \A j \in 1..Len(mboxB["LINK"]) : Before(given[i], slots[Told(j)])
  /\ \A i, j \in 1..Len(mboxB["LINK"]) : i < j => Before(slots[Told(i)], slots[Told(j)])

(* A complete PDU is not newer than the receiver, and older than what it receives;
   no frame to come is older than the receiver.                             *)
Past(F, b) ==
  /\ macRevB.seq <= b
  /\ \A f \in F : f.seq <= macRevB.seq /\ (macRevB.state = "RECEIVING" => f.seq < macRevB.seq)
Newest(b) ==
  /\ \A i \in 1..Len(given) : Past(given[i], b)
  /\ \A j \in 1..Len(mboxB["LINK"]) : Past(slots[Told(j)], b)
  /\ macRevB.state = "RECEIVING" =>
       macRevB.seq <= b /\ \A f \in slots[macRevB.pdu] : f.seq = macRevB.seq

Passing ==
  \E b0, b1, b2 \in SeqNo : Upper(b2) /\ Lower(b0, b1, b2) /\ Newest(b0)

PairInv == IInv /\ Agenda /\ Receives /\ Owns /\ InTurn /\ Passing
-----------------------------------------------------------------------------
LEMMA Stages ==
  /\ \A m : IsFrame("asked", m) <=> m.sig = "FRAME_SEND_REQ"
  /\ \A m : IsFrame("line", m) <=> m.type = "REQ"
  /\ \A m : IsFrame("wire", m) <=> m.sig = "FRAME_REV" /\ m.frame.type = "REQ"
  /\ \A m : IsFrame("heard", m) <=> m.sig = "FRAME_REV"
  /\ \A m : SeqOf("asked", m) = m.frame.seq /\ SeqOf("heard", m) = m.frame.seq
  /\ \A m : SeqOf("line", m) = m.mac.seq /\ SeqOf("wire", m) = m.frame.mac.seq
  BY DEF IsFrame, SeqOf

LEMMA RisingWiden ==
  ASSUME NEW stage, NEW S, NEW s \in Seq(S), NEW lo \in SeqNo, NEW hi \in SeqNo, Rising(stage, s, lo, hi),
         NEW low \in SeqNo, NEW high \in SeqNo, low <= lo, hi <= high
  PROVE  Rising(stage, s, low, high)
<1>1. lo..hi \subseteq low..high /\ low <= high
  BY BoundsAreNat DEF Rising, SeqNo
<1>. QED  BY <1>1 DEF Rising

LEMMA RisingTail ==
  ASSUME NEW stage, NEW S, NEW s \in Seq(S), s # <<>>, NEW lo \in SeqNo, NEW hi \in SeqNo, Rising(stage, s, lo, hi)
  PROVE  /\ Rising(stage, Tail(s), lo, hi)
         /\ IsFrame(stage, Head(s)) =>
              /\ SeqOf(stage, Head(s)) \in SeqNo /\ lo <= SeqOf(stage, Head(s))
              /\ Rising(stage, Tail(s), SeqOf(stage, Head(s)), hi)
<1> DEFINE k == SeqOf(stage, Head(s))
<1>1. /\ Len(s) \in Nat /\ Len(s) # 0 /\ Len(Tail(s)) = Len(s) - 1 /\ Head(s) = s[1]
      /\ \A i \in 1..Len(Tail(s)) : Tail(s)[i] = s[i + 1] /\ i + 1 \in 1..Len(s)
      /\ 1 \in 1..Len(s)
  OBVIOUS
<1>2. \A i \in 1..Len(Tail(s)) : IsFrame(stage, Tail(s)[i]) => SeqOf(stage, Tail(s)[i]) \in lo..hi
  BY <1>1 DEF Rising
<1>3. \A i, j \in 1..Len(Tail(s)) :
        i < j /\ IsFrame(stage, Tail(s)[i]) /\ IsFrame(stage, Tail(s)[j])
          => SeqOf(stage, Tail(s)[i]) <= SeqOf(stage, Tail(s)[j])
  <2> TAKE i, j \in 1..Len(Tail(s))
  <2>1. i < j => i + 1 < j + 1
    BY <1>1
  <2>. QED  BY <1>1, <2>1 DEF Rising
<1>4. Rising(stage, Tail(s), lo, hi)
  BY <1>2, <1>3 DEF Rising
<1>5. ASSUME IsFrame(stage, Head(s))
      PROVE  k \in SeqNo /\ lo <= k /\ Rising(stage, Tail(s), k, hi)
  <2>1. k \in lo..hi
    BY <1>1, <1>5 DEF Rising
  <2>2. k \in SeqNo /\ lo <= k /\ k <= hi
    BY <2>1, BoundsAreNat DEF SeqNo
  <2>3. ASSUME NEW i \in 1..Len(Tail(s)), IsFrame(stage, Tail(s)[i])
        PROVE  SeqOf(stage, Tail(s)[i]) \in k..hi
    <3>1. SeqOf(stage, Tail(s)[i]) \in lo..hi
      BY <1>2, <2>3
    <3>2. PICK j \in 1..Len(s) : j = i + 1 /\ 1 < j
      BY <1>1
    <3>3. IsFrame(stage, s[1]) /\ IsFrame(stage, s[j]) /\ Tail(s)[i] = s[j]
      BY <1>1, <1>5, <2>3, <3>2
    <3>4. k <= SeqOf(stage, s[j])
      BY <1>1, <3>2, <3>3 DEF Rising
    <3> HIDE DEF k
    <3>. QED  BY <2>2, <3>1, <3>3, <3>4, BoundsAreNat DEF SeqNo
  <2>. QED  BY <1>3, <2>2, <2>3 DEF Rising
<1>. QED  BY <1>4, <1>5

LEMMA RisingAppend ==
  ASSUME NEW stage, NEW S, NEW s \in Seq(S), NEW m \in S,
         NEW lo \in SeqNo, NEW hi \in SeqNo, Rising(stage, s, lo, hi)
  PROVE  /\ ~IsFrame(stage, m) => Rising(stage, Append(s, m), lo, hi)
         /\ \A k \in SeqNo : SeqOf(stage, m) = k /\ hi <= k => Rising(stage, Append(s, m), lo, k)
<1> DEFINE t == Append(s, m)
           n == Len(s) + 1
<1>1. /\ Len(s) \in Nat /\ Len(t) = n /\ t[n] = m
      /\ \A i \in 1..Len(s) : t[i] = s[i]
      /\ \A i \in 1..Len(t) : i \in 1..Len(s) \/ i = n
  OBVIOUS
<1>0. lo \in Nat /\ hi \in Nat /\ lo <= hi
  BY BoundsAreNat DEF SeqNo, Rising
<1> HIDE DEF t
<1>2. ASSUME ~IsFrame(stage, m) PROVE Rising(stage, t, lo, hi)
  <2>1. \A i \in 1..Len(t) : IsFrame(stage, t[i]) => i \in 1..Len(s) /\ t[i] = s[i]
    BY <1>1, <1>2
  <2>. QED  BY <2>1 DEF Rising
<1>3. ASSUME NEW k \in SeqNo, SeqOf(stage, m) = k, hi <= k PROVE Rising(stage, t, lo, k)
  <2>1. Rising(stage, s, lo, k) /\ lo <= k /\ k \in lo..k /\ k \in Nat
    <3>1. lo <= lo /\ lo <= k /\ k \in lo..k /\ k \in Nat
      BY <1>0, <1>3, BoundsAreNat DEF SeqNo
    <3>. QED  BY <1>3, <3>1, RisingWiden
  <2>2. \A i \in 1..Len(t) : IsFrame(stage, t[i]) => SeqOf(stage, t[i]) \in lo..k
    BY <1>1, <1>3, <2>1 DEF Rising
  <2>3. ASSUME NEW i \in 1..Len(t), NEW j \in 1..Len(t), i < j,
               IsFrame(stage, t[i]), IsFrame(stage, t[j])
        PROVE  SeqOf(stage, t[i]) <= SeqOf(stage, t[j])
    <3>1. i \in 1..Len(s)
      BY <1>1, <2>3
    <3>2. CASE j \in 1..Len(s)
      BY <1>1, <2>3, <3>1, <3>2 DEF Rising
    <3>3. CASE j = n
      <4>1. SeqOf(stage, t[i]) \in lo..k /\ SeqOf(stage, t[j]) = k
        BY <1>1, <1>3, <2>2, <2>3, <3>3
      <4>. QED  BY <4>1, <1>0, <2>1
    <3>. QED  BY <1>1, <3>2, <3>3
  <2>. QED  BY <2>1, <2>2, <2>3 DEF Rising
<1>. QED  BY <1>2, <1>3 DEF t

-----------------------------------------------------------------------------
(* Board A. *)
LEMMA Upstream ==
  ASSUME IInv
  PROVE  /\ phy \in PhyState /\ phy.frame.seq \in SeqNo
         /\ macSend \in MacSender /\ macSend.frame.seq \in SeqNo /\ macSend.seq \in SeqNo
         /\ line \in Seq(PhyFrame) /\ \A t \in Task : mbox[t] \in Seq(AllMsgs)
         /\ Boxes /\ macSend.seq \in Nat /\ pduFifo \in Seq(Pdu)
<1>1. TypeOK /\ Boxes /\ line \in Seq(PhyFrame)
  BY DEF IInv, Types
<1>2. phy \in PhyState /\ macSend \in MacSender /\ pduFifo \in Seq(Pdu)
  BY <1>1 DEF TypeOK
<1>3. phy.frame.seq \in SeqNo /\ macSend.frame.seq \in SeqNo /\ macSend.seq \in SeqNo
  BY <1>2 DEF PhyState, MacSender, Frame, SeqNo
<1>. QED  BY <1>1, <1>2, <1>3, BoxFacts, BoundsAreNat DEF SeqNo

(* The line keeps its order when a frame is written: the oldest may be lost. *)
LEMMA WrittenRising ==
  ASSUME line \in Seq(PhyFrame), NEW lo \in SeqNo, NEW hi \in SeqNo,
         Rising("line", line, lo, hi), NEW f \in PhyFrame
  PROVE  /\ f.type # "REQ" => Rising("line", Written(f), lo, hi)
         /\ f.type = "REQ" /\ hi <= f.mac.seq => Rising("line", Written(f), lo, f.mac.seq)
<1> DEFINE all == Append(line, f)
<1>1. all \in Seq(PhyFrame) /\ all # <<>> /\ Written(f) \in {all, Tail(all)}
  BY DEF Written
<1>2. f.mac.seq \in SeqNo
  BY DEF PhyFrame, AnyFrame, SeqNo
<1>3. ASSUME NEW k \in SeqNo, Rising("line", all, lo, k) PROVE Rising("line", Written(f), lo, k)
  BY <1>1, <1>3, RisingTail
<1>4. /\ ~IsFrame("line", f) => Rising("line", all, lo, hi)
      /\ SeqOf("line", f) = f.mac.seq /\ hi <= f.mac.seq => Rising("line", all, lo, f.mac.seq)
  BY <1>2, RisingAppend
<1> HIDE DEF all
<1>. QED  BY <1>2, <1>3, <1>4, Stages

LEMMA AgendaKept ==
  ASSUME Agenda, UNCHANGED <<size, macSend, pduFifo, fsm>>,
         Cnt(mbox'["LINK"], {"SEND_MSG"}) = Cnt(mbox["LINK"], {"SEND_MSG"}),
         Cnt(mbox'["LINK_MAC"], {"FRAME_SEND_REQ", "FRAME_SEND_START"})
           = Cnt(mbox["LINK_MAC"], {"FRAME_SEND_REQ", "FRAME_SEND_START"})
  PROVE  Agenda'
  BY DEF Agenda

(* The PHY layer handles a message: what it writes and what it is left to send. *)
LEMMA PhyTakes ==
  ASSUME IInv, Agenda, NEW b \in SeqNo, Upper(b), mbox["LINK_PHY"] # <<>>,
         Head(mbox["LINK_PHY"]).sig # "FRAME_SEND_REQ", mbox'["LINK_PHY"] = Tail(mbox["LINK_PHY"]),
         phy'.frame = phy.frame, UNCHANGED macSend,
         \/ line' = line
         \/ line' = Written(Request([phy EXCEPT !.retry = Increment(@)]))
         \/ \E t \in {"ACK", "NACK"} : \E q \in 0 .. PhySeqMod - 1 : line' = Written(Answer(t, q))
  PROVE  Upper(b)'
<1>a. /\ phy \in PhyState /\ phy.frame.seq \in SeqNo /\ macSend.frame.seq \in SeqNo
      /\ line \in Seq(PhyFrame) /\ mbox["LINK_PHY"] \in Seq(AllMsgs)
  BY Upstream, Tasks
<1>1. Rising("asked", Tail(mbox["LINK_PHY"]), phy.frame.seq, macSend.frame.seq)
  BY <1>a, RisingTail DEF Upper
<1>2. Rising("line", line, b, phy.frame.seq)
  BY DEF Upper
<1>3. CASE line' = Written(Request([phy EXCEPT !.retry = Increment(@)]))
  <2> DEFINE f == Request([phy EXCEPT !.retry = Increment(@)])
  <2>1. f \in PhyFrame /\ f.type = "REQ" /\ f.mac.seq = phy.frame.seq
    BY <1>a DEF Request, PhyFrame, PhyState, Frame, AnyFrame
  <2>2. phy.frame.seq <= phy.frame.seq
    BY <1>a, BoundsAreNat DEF SeqNo
  <2>3. line' = Written(f)
    BY <1>3
  <2> HIDE DEF f
  <2>4. Rising("line", Written(f), b, phy.frame.seq)
    BY <1>a, <1>2, <2>1, <2>2, WrittenRising
  <2>. QED  BY <1>1, <2>3, <2>4 DEF Upper
<1>4. ASSUME NEW t \in {"ACK", "NACK"}, NEW q \in 0 .. PhySeqMod - 1, line' = Written(Answer(t, q))
      PROVE  Upper(b)'
  <2>1. Answer(t, q) \in PhyFrame /\ Answer(t, q).type # "REQ"
    <3>1. Answer(t, q).type = t
      BY DEF Answer
    <3>. QED  BY <1>a, <3>1, AnswerType DEF Upper, IInv, Types, TypeOK
  <2>2. Rising("line", Written(Answer(t, q)), b, phy.frame.seq)
    BY <1>a, <1>2, <2>1, WrittenRising
  <2>. QED  BY <1>1, <1>4, <2>2 DEF Upper
<1>5. CASE line' = line
  BY <1>1, <1>2, <1>5 DEF Upper
<1>. QED  BY <1>3, <1>4, <1>5

LEMMA PhyUpper ==
  ASSUME IInv, Agenda, NEW b \in SeqNo, Upper(b), PhyStep, UNCHANGED size
  PROVE  Agenda' /\ Upper(b)'
<1> DEFINE box == mbox["LINK_PHY"]
<1>a. /\ phy \in PhyState /\ phy.frame.seq \in SeqNo /\ macSend.frame.seq \in SeqNo
      /\ line \in Seq(PhyFrame) /\ box \in Seq(AllMsgs) /\ Boxes
  BY Upstream, Tasks
<1>b. UNCHANGED <<macSend, pduFifo, size>>
  BY DEF PhyStep, macVars
<1>c. fsm["LINK_PHY"] = "handle"
  BY Tasks DEF Agenda
<1>d. /\ Cnt(mbox["LINK_MAC"], {"FRAME_SEND_REQ", "FRAME_SEND_START"}) \in Nat
      /\ Cnt(mbox["LINK"], {"SEND_MSG"}) \in Nat
  BY <1>a, BoxFacts, Tasks
(* A handler that posts nothing, and one that tells the MAC layer something. *)
<1>1. ASSUME NEW sig, PhyHandling(sig), sig \notin Openers, fsm' = fsm, Finish("LINK_PHY", NoPost)
      PROVE  /\ Agenda' /\ box # <<>> /\ Head(box).sig = sig /\ mbox'["LINK_PHY"] = Tail(box)
  <2>1. /\ mbox'["LINK"] = mbox["LINK"] /\ mbox'["LINK_MAC"] = mbox["LINK_MAC"]
        /\ mbox'["LINK_PHY"] = Tail(box)
    BY <1>1, PhyFinishes
  <2>2. Agenda'
    BY <1>1, <1>b, <2>1, AgendaKept
  <2>. QED  BY <1>1, <2>1, <2>2 DEF PhyHandling, Handling
<1>2. ASSUME NEW sig, PhyHandling(sig), sig \notin Openers, fsm' = fsm,
             NEW m \in MacMsgs, m.sig \in {"FRAME_SEND_DONE", "FRAME_SEND_ERR", "FRAME_REV"},
             Finish("LINK_PHY", Post("LINK_MAC", m))
      PROVE  /\ Agenda' /\ box # <<>> /\ Head(box).sig = sig /\ mbox'["LINK_PHY"] = Tail(box)
  <2>0. m.sig \notin Openers
    BY <1>2 DEF Openers
  <2>1. /\ mbox'["LINK"] = mbox["LINK"] /\ mbox'["LINK_PHY"] = Tail(box)
        /\ Gains(mbox'["LINK_MAC"], mbox["LINK_MAC"], m)
    BY <1>2, <2>0, PhyTells
  <2>2. Cnt(mbox'["LINK_MAC"], {"FRAME_SEND_REQ", "FRAME_SEND_START"})
          = Cnt(mbox["LINK_MAC"], {"FRAME_SEND_REQ", "FRAME_SEND_START"})
    BY <1>2, <1>d, <2>1 DEF Gains, One
  <2>3. Agenda'
    BY <1>2, <1>b, <2>1, <2>2, AgendaKept
  <2>. QED  BY <1>2, <2>1, <2>3 DEF PhyHandling, Handling
<1>3. CASE PhyStart
  BY <1>3, <1>c DEF PhyStart, Handling
<1>4. CASE PhyDrop
  BY <1>4, <1>c DEF PhyDrop, Drop
<1>5. CASE PhySendReq
  <2>0. PhyHandling("FRAME_SEND_REQ") /\ "FRAME_SEND_REQ" \notin Openers
    BY <1>5 DEF PhySendReq, Openers
  <2>1. CASE phy.send = "IDLE"
    <3> DEFINE p == [send |-> "SENDING", retry |-> 0, seq |-> (phy.seq + 1) % PhySeqMod,
                     frame |-> Head(box).frame]
    <3>1. /\ Finish("LINK_PHY", NoPost) /\ phy' = p /\ line' = Written(Request(p))
          /\ UNCHANGED <<fsm, pool, due, fatal>>
      BY <1>5, <2>1 DEF PhySendReq, link_phy_frame_send
    <3>2. Agenda' /\ box # <<>> /\ Head(box).sig = "FRAME_SEND_REQ" /\ mbox'["LINK_PHY"] = Tail(box)
      BY <1>1, <2>0, <3>1
    <3>3. Head(box).frame \in Frame
      BY <1>a, <3>2, HeadIsMsg, MsgFields, Tasks
    <3>4. p \in PhyState /\ p.frame = Head(box).frame
      <4>1. phy.seq + 1 \in Nat
        BY <1>a, BoundsAreNat DEF PhyState
      <4>2. (phy.seq + 1) % PhySeqMod \in 0 .. PhySeqMod - 1
        BY <4>1, Numbers
      <4>3. 0 \in Counter
        BY DEF Counter
      <4>. QED  BY <3>3, <4>2, <4>3 DEF PhyState
    <3> HIDE DEF p
    <3> DEFINE k == p.frame.seq
    <3>5. /\ k \in SeqNo /\ phy.frame.seq <= k
          /\ Rising("asked", Tail(box), k, macSend.frame.seq)
      <4>1. IsFrame("asked", Head(box)) /\ SeqOf("asked", Head(box)) = k
        BY <3>2, <3>4, Stages
      <4>. QED  BY <1>a, <3>2, <4>1, RisingTail DEF Upper
    <3>6. Request(p) \in PhyFrame /\ Request(p).type = "REQ" /\ Request(p).mac.seq = k
      BY <3>4 DEF Request, PhyFrame, PhyState, Frame, AnyFrame
    <3>7. Rising("line", Written(Request(p)), b, k)
      BY <1>a, <3>5, <3>6, WrittenRising DEF Upper
    <3>. QED  BY <1>b, <3>1, <3>2, <3>5, <3>7 DEF Upper
  <2>2. CASE phy.send = "SENDING"
    <3>1. UNCHANGED <<mbox, fsm, line, phy>>
      BY <1>5, <2>2 DEF PhySendReq, Fatal
    <3>. QED  BY <1>b, <3>1 DEF Agenda, Upper
  <2>. QED  BY <1>a, <2>1, <2>2 DEF PhyState
<1>6. CASE PhySendTimeout
  <2> DEFINE counted == [phy EXCEPT !.retry = Increment(@)]
  <2>0. PhyHandling("FRAME_SEND_TO") /\ "FRAME_SEND_TO" \notin Openers /\ fsm' = fsm
    BY <1>6 DEF PhySendTimeout, Openers
  <2>1. CASE GiveUp(counted) /\ UNCHANGED line
    <3>1. Finish("LINK_PHY", Post("LINK_MAC", [sig |-> "FRAME_SEND_ERR"])) /\ phy'.frame = phy.frame
      BY <1>a, <2>1 DEF GiveUp, PhyState
    <3>2. Agenda' /\ box # <<>> /\ Head(box).sig = "FRAME_SEND_TO" /\ mbox'["LINK_PHY"] = Tail(box)
      BY <1>2, <2>0, <3>1, Posted
    <3>. QED  BY <1>b, <2>1, <3>1, <3>2, PhyTakes
  <2>2. CASE link_phy_frame_send(counted) /\ Finish("LINK_PHY", NoPost)
    <3>1. phy'.frame = phy.frame /\ line' \in {line, Written(Request(counted))}
      BY <1>a, <2>2 DEF link_phy_frame_send, PhyState
    <3>2. Agenda' /\ box # <<>> /\ Head(box).sig = "FRAME_SEND_TO" /\ mbox'["LINK_PHY"] = Tail(box)
      BY <1>1, <2>0, <2>2
    <3>. QED  BY <1>b, <3>1, <3>2, PhyTakes
  <2>. QED  BY <1>6, <2>1, <2>2 DEF PhySendTimeout
<1>7. ASSUME PhyHandling("FRAME_REV")
      PROVE  Received \in PhyFrame /\ "FRAME_REV" \notin Openers
  <2>1. box # <<>> /\ Head(box).sig = "FRAME_REV"
    BY <1>7 DEF PhyHandling, Handling
  <2>. QED  BY <1>a, <2>1, HeadIsMsg, MsgFields, Tasks DEF Received, Openers
<1>8. CASE PhyRevReq
  <2>1. /\ PhyHandling("FRAME_REV") /\ line' = Written(Answer("ACK", Received.seq))
        /\ Finish("LINK_PHY", Post("LINK_MAC", [sig |-> "FRAME_REV", frame |-> Received.mac]))
        /\ fsm' = fsm /\ phy' = phy
    BY <1>8 DEF PhyRevReq
  <2>2. Received.seq \in 0 .. PhySeqMod - 1 /\ Received.mac \in AnyFrame
    BY <1>7, <2>1 DEF PhyFrame
  <2>3. Agenda' /\ box # <<>> /\ Head(box).sig = "FRAME_REV" /\ mbox'["LINK_PHY"] = Tail(box)
    BY <1>2, <1>7, <2>1, <2>2, Posted
  <2>. QED  BY <1>b, <2>1, <2>2, <2>3, PhyTakes
<1>9. CASE PhyRevAck
  <2>1. /\ PhyHandling("FRAME_REV") /\ phy' = [phy EXCEPT !.send = "IDLE"]
        /\ Finish("LINK_PHY", Post("LINK_MAC", [sig |-> "FRAME_SEND_DONE"]))
        /\ fsm' = fsm /\ line' = line
    BY <1>9 DEF PhyRevAck, IsAnswer
  <2>2. phy'.frame = phy.frame
    BY <1>a, <2>1 DEF PhyState
  <2>3. Agenda' /\ box # <<>> /\ Head(box).sig = "FRAME_REV" /\ mbox'["LINK_PHY"] = Tail(box)
    BY <1>2, <1>7, <2>1, Posted
  <2>. QED  BY <1>b, <2>1, <2>2, <2>3, PhyTakes
<1>10. CASE PhyRevNack
  <2> DEFINE counted == [phy EXCEPT !.retry = Increment(@)]
  <2>0. PhyHandling("FRAME_REV") /\ fsm' = fsm
    BY <1>10 DEF PhyRevNack, IsAnswer
  <2>1. CASE GiveUp(counted) /\ UNCHANGED line
    <3>1. Finish("LINK_PHY", Post("LINK_MAC", [sig |-> "FRAME_SEND_ERR"])) /\ phy'.frame = phy.frame
      BY <1>a, <2>1 DEF GiveUp, PhyState
    <3>2. Agenda' /\ box # <<>> /\ Head(box).sig = "FRAME_REV" /\ mbox'["LINK_PHY"] = Tail(box)
      BY <1>2, <1>7, <2>0, <3>1, Posted
    <3>. QED  BY <1>b, <2>1, <3>1, <3>2, PhyTakes
  <2>2. CASE link_phy_frame_send(counted) /\ Finish("LINK_PHY", NoPost)
    <3>1. phy'.frame = phy.frame /\ line' \in {line, Written(Request(counted))}
      BY <1>a, <2>2 DEF link_phy_frame_send, PhyState
    <3>2. Agenda' /\ box # <<>> /\ Head(box).sig = "FRAME_REV" /\ mbox'["LINK_PHY"] = Tail(box)
      BY <1>1, <1>7, <2>0, <2>2
    <3>. QED  BY <1>b, <3>1, <3>2, PhyTakes
  <2>. QED  BY <1>10, <2>1, <2>2 DEF PhyRevNack
<1>11. CASE PhyRevStale
  <2>1. PhyHandling("FRAME_REV") /\ Finish("LINK_PHY", NoPost) /\ UNCHANGED <<fsm, line, phy>>
    BY <1>11 DEF PhyRevStale
  <2>2. Agenda' /\ box # <<>> /\ Head(box).sig = "FRAME_REV" /\ mbox'["LINK_PHY"] = Tail(box)
    BY <1>1, <1>7, <2>1
  <2>. QED  BY <1>b, <2>1, <2>2, PhyTakes
<1>12. CASE PhyRevChecksumError
  <2>1. /\ PhyHandling("FRAME_REV_CS_ERR") /\ line' = Written(Answer("NACK", Received.seq))
        /\ Finish("LINK_PHY", NoPost) /\ UNCHANGED <<fsm, phy>>
    BY <1>12 DEF PhyRevChecksumError
  <2>2. Agenda' /\ box # <<>> /\ Head(box).sig = "FRAME_REV_CS_ERR" /\ mbox'["LINK_PHY"] = Tail(box)
    BY <1>1, <2>1 DEF Openers
  <2>3. Received.seq \in 0 .. PhySeqMod - 1
    BY <1>a, <2>2, HeadIsMsg, MsgFields, Tasks DEF Received, PhyFrame
  <2>. QED  BY <1>b, <2>1, <2>2, <2>3, PhyTakes
<1>. QED  BY <1>3, <1>4, <1>5, <1>6, <1>8, <1>9, <1>10, <1>11, <1>12 DEF PhyStep, PhyNext

(* The MAC layer: what is left to be started, and what is asked for. *)
Starts == {"FRAME_SEND_REQ", "FRAME_SEND_START"}

LEMMA AgendaFacts ==
  ASSUME IInv, Agenda
  PROVE  /\ Cnt(mbox["LINK"], {"SEND_MSG"}) \in Nat /\ Cnt(mbox["LINK_MAC"], Starts) \in Nat
         /\ Len(pduFifo) \in Nat /\ Len(size) \in Nat /\ macSend.seq \in Nat
         /\ macSend.seq + Cnt(mbox["LINK"], {"SEND_MSG"}) + Cnt(mbox["LINK_MAC"], Starts)
              + Len(pduFifo) <= Len(size)
         /\ Len(size) < MacSeqMod /\ fsm["LINK_MAC"] = "handle" /\ fsm["LINK"] = "handle"
<1>1. Boxes /\ macSend.seq \in Nat /\ Len(pduFifo) \in Nat
  BY Upstream
<1>2. Len(size) \in Nat /\ Len(size) < MacSeqMod
  <2>1. Len(size) \in Nat /\ Len(size) <= MaxSends
    BY DEF Agenda
  <2>2. MaxSends \in Nat /\ MaxSends < MacSeqMod /\ MacSeqMod \in Nat
    BY PairBounds, BoundsAreNat
  <2>. QED  BY <2>1, <2>2
<1>3. Cnt(mbox["LINK"], {"SEND_MSG"}) \in Nat /\ Cnt(mbox["LINK_MAC"], Starts) \in Nat
  BY <1>1, BoxFacts, Tasks
<1>. QED  BY <1>1, <1>2, <1>3, Tasks DEF Agenda, Starts

(* The agenda after a step that trades places on it. *)
LEMMA AgendaMoved ==
  ASSUME IInv, Agenda, UNCHANGED <<size, fsm>>,
         macSend'.seq + Cnt(mbox'["LINK"], {"SEND_MSG"}) + Cnt(mbox'["LINK_MAC"], Starts) + Len(pduFifo')
           = macSend.seq + Cnt(mbox["LINK"], {"SEND_MSG"}) + Cnt(mbox["LINK_MAC"], Starts) + Len(pduFifo)
  PROVE  Agenda'
<1>1. macSend'.seq + Cnt(mbox'["LINK"], {"SEND_MSG"}) + Cnt(mbox'["LINK_MAC"], Starts) + Len(pduFifo')
        <= Len(size)
  BY AgendaFacts
<1>. QED  BY <1>1 DEF Agenda, Starts

LEMMA StayUpper ==
  ASSUME NEW b, Upper(b), UNCHANGED <<line, phy, macSend>>, mbox'["LINK_PHY"] = mbox["LINK_PHY"]
  PROVE  Upper(b)'
  BY DEF Upper

LEMMA FatalUpper ==
  ASSUME NEW b, Upper(b), Agenda, UNCHANGED <<mbox, fsm, line, phy, macSend, pduFifo, size>>
  PROVE  Agenda' /\ Upper(b)'
  BY DEF Upper, Agenda

LEMMA MacTransmitsUpper ==
  ASSUME IInv, Agenda, NEW b \in SeqNo, Upper(b),
         NEW sig \in {"FRAME_SEND_START", "FRAME_SEND_DONE", "FRAME_SEND_ERR", "FRAME_SEND_TO"},
         MacHandling(sig), NEW s \in MacSender, link_mac_frame_send_req(s),
         macSend.frame.seq <= s.frame.seq, s.frame.seq <= s.seq,
         s.seq = macSend.seq + One(sig = "FRAME_SEND_START"), UNCHANGED <<phy, size>>
  PROVE  Agenda' /\ Upper(b)'
<1>1. CASE s.state = "SENDING"
  <2> DEFINE m == [sig |-> "FRAME_SEND_REQ", frame |-> s.frame]
  <2>1. /\ macSend' = s /\ Finish("LINK_MAC", Post("LINK_PHY", m))
        /\ UNCHANGED <<fsm, line, pduFifo>>
    BY <1>1 DEF link_mac_frame_send_req
  <2>2. m \in PhyMsgs /\ m.sig = "FRAME_SEND_REQ" /\ m.frame = s.frame
    BY Posted DEF MacSender
  <2> HIDE DEF m
  <2>3. /\ mbox'["LINK"] = mbox["LINK"] /\ mbox'["LINK_PHY"] = Append(mbox["LINK_PHY"], m)
        /\ \A S : Cnt(mbox'["LINK_MAC"], S) = Cnt(mbox["LINK_MAC"], S) - One(sig \in S)
    BY <2>1, <2>2, MacAsks DEF Openers
  <2>4. Cnt(mbox'["LINK_MAC"], Starts)
          = Cnt(mbox["LINK_MAC"], Starts) - One(sig = "FRAME_SEND_START")
    <3>1. One(sig \in Starts) = One(sig = "FRAME_SEND_START") /\ One(sig \in Starts) \in Int
      BY DEF One, Starts
    <3>2. Cnt(mbox'["LINK_MAC"], Starts) = Cnt(mbox["LINK_MAC"], Starts) - One(sig \in Starts)
      BY <2>3
    <3>. QED  BY <3>1, <3>2, AgendaFacts
  <2>5. Agenda'
    <3>1. One(sig = "FRAME_SEND_START") \in Int
      BY DEF One
    <3>2. macSend'.seq = macSend.seq + One(sig = "FRAME_SEND_START")
      BY <2>1
    <3>3. macSend'.seq + Cnt(mbox'["LINK"], {"SEND_MSG"}) + Cnt(mbox'["LINK_MAC"], Starts) + Len(pduFifo')
            = macSend.seq + Cnt(mbox["LINK"], {"SEND_MSG"}) + Cnt(mbox["LINK_MAC"], Starts) + Len(pduFifo)
      BY <2>1, <2>3, <2>4, <3>1, <3>2, AgendaFacts
    <3>. QED  BY <2>1, <3>3, AgendaMoved
  <2>6. Upper(b)'
    <3>1. /\ mbox["LINK_PHY"] \in Seq(AllMsgs) /\ phy.frame.seq \in SeqNo
          /\ macSend.frame.seq \in SeqNo
      BY Upstream, Tasks
    <3>2. m \in AllMsgs /\ SeqOf("asked", m) = s.frame.seq /\ s.frame.seq \in SeqNo
      <4>1. s.frame.seq \in SeqNo
        BY DEF MacSender, Frame, SeqNo
      <4>. QED  BY <2>2, <4>1, Stages DEF AllMsgs
    <3>3. Rising("asked", mbox["LINK_PHY"], phy.frame.seq, macSend.frame.seq)
      BY DEF Upper
    <3>4. Rising("asked", Append(mbox["LINK_PHY"], m), phy.frame.seq, s.frame.seq)
      BY <3>1, <3>2, <3>3, RisingAppend
    <3>. QED  BY <2>1, <2>3, <3>4 DEF Upper
  <2>. QED  BY <2>5, <2>6
<1>2. CASE s.state = "IDLE"
  BY <1>2, FatalUpper DEF link_mac_frame_send_req, Fatal
<1>. QED  BY <1>1, <1>2 DEF MacSender

LEMMA MacEndsUpper ==
  ASSUME IInv, Agenda, NEW b \in SeqNo, Upper(b),
         NEW sig \in {"FRAME_SEND_DONE", "FRAME_SEND_ERR", "FRAME_SEND_TO"},
         MacHandling(sig), NEW s \in MacSender, s.pdu # None,
         NEW report \in {"SEND_DONE", "SEND_ERR"}, link_mac_frame_send_end(s, report),
         s.frame.seq = macSend.frame.seq, s.seq = macSend.seq, UNCHANGED <<phy, size>>
  PROVE  Agenda' /\ Upper(b)'
<1> DEFINE m == PduMsg(report, s.pdu)
<1>1. m \in LinkMsgs /\ m.sig = report /\ UNCHANGED <<fsm, pool, due, line, fatal>>
  BY Posted DEF MacSender, PduMsg, link_mac_frame_send_end
<1>2. mbox["LINK"] \in Seq(AllMsgs) /\ sig \notin Starts
  BY Upstream, Tasks DEF Starts
<1>3. CASE pduFifo # <<>>
  <2> DEFINE n == PduMsg("FRAME_SEND_START", Head(pduFifo))
  <2>1. /\ pduFifo' = Tail(pduFifo) /\ macSend' = s
        /\ Finish("LINK_MAC", [Post("LINK", m) EXCEPT !["LINK_MAC"] = <<n>>])
    BY <1>3 DEF link_mac_frame_send_end
  <2>2. n \in MacMsgs /\ n.sig = "FRAME_SEND_START" /\ Len(pduFifo') = Len(pduFifo) - 1
    <3>1. pduFifo \in Seq(Pdu)
      BY Upstream
    <3>2. Head(pduFifo) \in Pdu /\ Len(Tail(pduFifo)) = Len(pduFifo) - 1
      BY <1>3, <3>1
    <3>. QED  BY <2>1, <3>2, Posted DEF PduMsg
  <2> HIDE DEF m, n
  <2>3. /\ mbox'["LINK_PHY"] = mbox["LINK_PHY"] /\ Gains(mbox'["LINK"], mbox["LINK"], m)
        /\ \A S : Cnt(mbox'["LINK_MAC"], S)
                    = Cnt(mbox["LINK_MAC"], S) - One(sig \in S) + One(n.sig \in S)
    BY <1>1, <2>1, <2>2, MacReportsStarts DEF Openers
  <2>4. /\ Cnt(mbox'["LINK_MAC"], Starts) = Cnt(mbox["LINK_MAC"], Starts) + 1
        /\ Cnt(mbox'["LINK"], {"SEND_MSG"}) = Cnt(mbox["LINK"], {"SEND_MSG"})
    <3>1. /\ Cnt(mbox'["LINK_MAC"], Starts)
               = Cnt(mbox["LINK_MAC"], Starts) - One(sig \in Starts) + One(n.sig \in Starts)
          /\ Cnt(mbox'["LINK"], {"SEND_MSG"})
               = Cnt(mbox["LINK"], {"SEND_MSG"}) + One(m.sig \in {"SEND_MSG"})
      BY <2>3 DEF Gains
    <3>2. One(sig \in Starts) = 0 /\ One(n.sig \in Starts) = 1 /\ One(m.sig \in {"SEND_MSG"}) = 0
      BY <1>1, <1>2, <2>2 DEF One, Starts
    <3>. QED  BY <3>1, <3>2, AgendaFacts
  <2>5. macSend'.seq = macSend.seq
    BY <2>1
  <2>6. macSend'.seq + Cnt(mbox'["LINK"], {"SEND_MSG"}) + Cnt(mbox'["LINK_MAC"], Starts) + Len(pduFifo')
          = macSend.seq + Cnt(mbox["LINK"], {"SEND_MSG"}) + Cnt(mbox["LINK_MAC"], Starts) + Len(pduFifo)
    <3>1. /\ Cnt(mbox["LINK_MAC"], Starts) \in Nat /\ Len(pduFifo) \in Nat
          /\ macSend.seq + Cnt(mbox["LINK"], {"SEND_MSG"}) \in Nat
      BY AgendaFacts
    <3>2. PICK a \in Nat, e \in Nat, c \in Nat :
            /\ a = macSend.seq + Cnt(mbox["LINK"], {"SEND_MSG"})
            /\ e = Cnt(mbox["LINK_MAC"], Starts) /\ c = Len(pduFifo)
      BY <3>1
    <3>3. /\ macSend'.seq + Cnt(mbox'["LINK"], {"SEND_MSG"}) = a
          /\ Cnt(mbox'["LINK_MAC"], Starts) = e + 1 /\ Len(pduFifo') = c - 1
      BY <2>2, <2>4, <2>5, <3>2
    <3>4. a + (e + 1) + (c - 1) = a + e + c
      BY <3>2
    <3>. QED  BY <3>2, <3>3, <3>4
  <2>7. Agenda'
    BY <1>1, <2>6, AgendaMoved
  <2>. QED  BY <1>1, <2>1, <2>3, <2>7 DEF Upper
<1>4. CASE pduFifo = <<>>
  <2>1. /\ pduFifo' = pduFifo /\ macSend' = [s EXCEPT !.state = "IDLE"]
        /\ Finish("LINK_MAC", Post("LINK", m))
    BY <1>4 DEF link_mac_frame_send_end
  <2> HIDE DEF m
  <2>3. /\ mbox'["LINK_PHY"] = mbox["LINK_PHY"] /\ Gains(mbox'["LINK"], mbox["LINK"], m)
        /\ \A S : Cnt(mbox'["LINK_MAC"], S) = Cnt(mbox["LINK_MAC"], S) - One(sig \in S)
    BY <1>1, <2>1, MacReports DEF Openers
  <2>4. /\ Cnt(mbox'["LINK_MAC"], Starts) = Cnt(mbox["LINK_MAC"], Starts)
        /\ Cnt(mbox'["LINK"], {"SEND_MSG"}) = Cnt(mbox["LINK"], {"SEND_MSG"})
    <3>1. /\ Cnt(mbox'["LINK_MAC"], Starts) = Cnt(mbox["LINK_MAC"], Starts) - One(sig \in Starts)
          /\ Cnt(mbox'["LINK"], {"SEND_MSG"})
               = Cnt(mbox["LINK"], {"SEND_MSG"}) + One(m.sig \in {"SEND_MSG"})
      BY <2>3 DEF Gains
    <3>2. One(sig \in Starts) = 0 /\ One(m.sig \in {"SEND_MSG"}) = 0
      BY <1>1, <1>2 DEF One
    <3>. QED  BY <3>1, <3>2, AgendaFacts
  <2>5. macSend'.seq = macSend.seq /\ macSend'.frame = s.frame
    BY <2>1 DEF MacSender
  <2>7. Agenda'
    BY <1>1, <2>1, <2>4, <2>5, AgendaMoved
  <2>. QED  BY <1>1, <2>3, <2>5, <2>7 DEF Upper
<1>. QED  BY <1>3, <1>4

(* A handler that neither starts nor asks for anything. *)
LEMMA MacIdlesUpper ==
  ASSUME IInv, Agenda, NEW b \in SeqNo, Upper(b), NEW sig, sig \notin Starts \cup Openers,
         MacHandling(sig), UNCHANGED <<fsm, line, phy, macSend, pduFifo, size>>,
         \/ Finish("LINK_MAC", NoPost)
         \/ \E m \in LinkMsgs : m.sig = "REV_MSG" /\ Finish("LINK_MAC", Post("LINK", m))
  PROVE  Agenda' /\ Upper(b)'
<1>1. ASSUME mbox'["LINK_PHY"] = mbox["LINK_PHY"],
             Cnt(mbox'["LINK_MAC"], Starts) = Cnt(mbox["LINK_MAC"], Starts) - One(sig \in Starts),
             Cnt(mbox'["LINK"], {"SEND_MSG"}) = Cnt(mbox["LINK"], {"SEND_MSG"})
      PROVE  Agenda' /\ Upper(b)'
  <2>1. Cnt(mbox'["LINK_MAC"], Starts) = Cnt(mbox["LINK_MAC"], Starts)
    BY <1>1, AgendaFacts DEF One
  <2>. QED  BY <1>1, <2>1, AgendaKept, StayUpper DEF Starts
<1>2. CASE Finish("LINK_MAC", NoPost)
  BY <1>1, <1>2, MacFinishes
<1>3. ASSUME NEW m \in LinkMsgs, m.sig = "REV_MSG", Finish("LINK_MAC", Post("LINK", m))
      PROVE  Agenda' /\ Upper(b)'
  <2>0. m.sig \notin Openers
    BY <1>3 DEF Openers
  <2>1. /\ mbox'["LINK_PHY"] = mbox["LINK_PHY"] /\ Gains(mbox'["LINK"], mbox["LINK"], m)
        /\ Cnt(mbox'["LINK_MAC"], Starts) = Cnt(mbox["LINK_MAC"], Starts) - One(sig \in Starts)
    BY <1>3, <2>0, MacReports
  <2>2. Cnt(mbox'["LINK"], {"SEND_MSG"}) = Cnt(mbox["LINK"], {"SEND_MSG"})
    <3>1. Cnt(mbox'["LINK"], {"SEND_MSG"}) = Cnt(mbox["LINK"], {"SEND_MSG"}) + One(m.sig \in {"SEND_MSG"})
      BY <2>1 DEF Gains
    <3>. QED  BY <1>3, <3>1, AgendaFacts DEF One
  <2>. QED  BY <1>1, <2>1, <2>2
<1>. QED  BY <1>2, <1>3

LEMMA MacUpper ==
  ASSUME IInv, Agenda, NEW b \in SeqNo, Upper(b), MacStep, UNCHANGED size
  PROVE  Agenda' /\ Upper(b)'
<1> DEFINE box == mbox["LINK_MAC"]
<1>a. /\ macSend \in MacSender /\ macSend.frame.seq \in SeqNo /\ macSend.seq \in SeqNo
      /\ box \in Seq(AllMsgs) /\ Boxes /\ pduFifo \in Seq(Pdu)
      /\ macSend.frame.seq <= macSend.seq
  BY Upstream, Tasks DEF Upper
<1>b. phy' = phy
  BY DEF MacStep
<1>c. fsm["LINK_MAC"] = "handle"
  BY AgendaFacts
<1>1. CASE MacInitLower \/ MacStart \/ MacDrop
  BY <1>1, <1>c DEF MacInitLower, MacStart, MacDrop, Handling, Drop
<1>2. CASE MacSendReq
  <2>0. MacHandling("FRAME_SEND_REQ") /\ "FRAME_SEND_REQ" \notin Openers
    BY <1>2 DEF MacSendReq, Openers
  <2>1. MacMsg.pdu \in Pdu
    BY <1>a, <2>0, HeadIsMsg, MsgFields, Tasks DEF MacMsg, MacHandling, Handling
  <2>2. CASE macSend.state = "IDLE"
    <3> DEFINE n == PduMsg("FRAME_SEND_START", MacMsg.pdu)
    <3>1. /\ macSend' = [macSend EXCEPT !.state = "SENDING"]
          /\ Finish("LINK_MAC", Post("LINK_MAC", n)) /\ UNCHANGED <<fsm, line, pduFifo>>
      BY <1>2, <2>2 DEF MacSendReq
    <3>2. n \in MacMsgs /\ n.sig = "FRAME_SEND_START"
      BY <2>1, Posted DEF PduMsg
    <3> HIDE DEF n
    <3>3. /\ mbox'["LINK"] = mbox["LINK"] /\ mbox'["LINK_PHY"] = mbox["LINK_PHY"]
          /\ Cnt(mbox'["LINK_MAC"], Starts) = Cnt(mbox["LINK_MAC"], Starts)
                                               - One("FRAME_SEND_REQ" \in Starts) + One(n.sig \in Starts)
      BY <2>0, <3>1, <3>2, MacStarts DEF Openers
    <3>4. Cnt(mbox'["LINK_MAC"], Starts) = Cnt(mbox["LINK_MAC"], Starts)
      BY <3>2, <3>3, AgendaFacts DEF One, Starts
    <3>5. macSend'.seq = macSend.seq /\ macSend'.frame = macSend.frame
      BY <1>a, <3>1 DEF MacSender
    <3>7. Agenda'
      BY <3>1, <3>3, <3>4, <3>5, AgendaMoved
    <3>. QED  BY <1>b, <3>1, <3>3, <3>5, <3>7 DEF Upper
  <2>3. CASE macSend.state = "SENDING" /\ Len(pduFifo) < FifoSize
    <3>1. /\ pduFifo' = Append(pduFifo, MacMsg.pdu) /\ Finish("LINK_MAC", NoPost)
          /\ UNCHANGED <<fsm, line, macSend>>
      <4>1. ~(Len(pduFifo) = FifoSize)
        BY <2>3, Numbers
      <4>. QED  BY <1>2, <2>3, <4>1 DEF MacSendReq
    <3>2. /\ mbox'["LINK"] = mbox["LINK"] /\ mbox'["LINK_PHY"] = mbox["LINK_PHY"]
          /\ Cnt(mbox'["LINK_MAC"], Starts) = Cnt(mbox["LINK_MAC"], Starts) - One("FRAME_SEND_REQ" \in Starts)
      BY <2>0, <3>1, MacFinishes
    <3>3. Len(pduFifo') = Len(pduFifo) + 1
      BY <1>a, <2>1, <3>1
    <3>4. Cnt(mbox'["LINK_MAC"], Starts) = Cnt(mbox["LINK_MAC"], Starts) - 1
      BY <3>2, AgendaFacts DEF One, Starts
    <3>5. Agenda'
      <4>1. macSend'.seq + Cnt(mbox'["LINK"], {"SEND_MSG"}) + Cnt(mbox'["LINK_MAC"], Starts) + Len(pduFifo')
              = macSend.seq + Cnt(mbox["LINK"], {"SEND_MSG"}) + Cnt(mbox["LINK_MAC"], Starts) + Len(pduFifo)
        BY <3>1, <3>2, <3>3, <3>4, AgendaFacts
      <4>. QED  BY <3>1, <4>1, AgendaMoved
    <3>. QED  BY <1>b, <3>1, <3>2, <3>5, StayUpper
  <2>4. CASE macSend.state = "SENDING" /\ Len(pduFifo) = FifoSize
    <3>1. ~(Len(pduFifo) < FifoSize)
      BY <2>4, Numbers
    <3>. QED  BY <1>2, <1>b, <2>4, <3>1, FatalUpper DEF MacSendReq, Fatal
  <2>. QED  BY <1>2, <2>2, <2>3, <2>4 DEF MacSendReq
<1>3. CASE MacSendStart
  <2> DEFINE s == [macSend EXCEPT !.retry = 0, !.pdu = MacMsg.pdu, !.seq = (@ + 1) % MacSeqMod,
                                  !.frame = [seq |-> macSend.seq, fidx |-> 0,
                                             fnum |-> pool[MacMsg.pdu]]]
  <2>0. MacHandling("FRAME_SEND_START")
    BY <1>3 DEF MacSendStart
  <2>1. box # <<>> /\ Head(box).sig = "FRAME_SEND_START" /\ MacMsg.pdu \in Pdu
    BY <1>a, <2>0, HeadIsMsg, MsgFields, Tasks DEF MacMsg, MacHandling, Handling
  <2>2. (macSend.seq + 1) % MacSeqMod = macSend.seq + 1 /\ macSend.seq + 1 \in 0 .. MacSeqMod - 1
    <3>1. Cnt(box, Starts) # 0
      BY <1>a, <2>1, HeadCounts DEF Starts
    <3>2. macSend.seq + 1 < MacSeqMod /\ macSend.seq \in Nat
      BY <3>1, AgendaFacts, BoundsAreNat
    <3>. QED  BY <3>2, BoundsAreNat
  <2>3. CASE link_mac_frame_send_req(s)
    <3>1. s \in MacSender
      <4>1. pool[MacMsg.pdu] \in 0..MaxFrames
        BY <2>1 DEF IInv, Types, TypeOK
      <4>2. [seq |-> macSend.seq, fidx |-> 0, fnum |-> pool[MacMsg.pdu]] \in Frame
        BY <1>a, <4>1 DEF Frame, SeqNo
      <4>3. 0 \in Counter
        BY DEF Counter
      <4>. QED  BY <1>a, <2>1, <2>2, <4>2, <4>3 DEF MacSender
    <3>2. s.seq = macSend.seq + 1 /\ s.frame.seq = macSend.seq
      BY <1>a, <2>2 DEF MacSender
    <3> HIDE DEF s
    <3>3. /\ macSend.frame.seq <= s.frame.seq /\ s.frame.seq <= s.seq
          /\ s.seq = macSend.seq + One("FRAME_SEND_START" = "FRAME_SEND_START")
      BY <1>a, <3>2, AgendaFacts DEF One
    <3>. QED  BY <1>b, <2>0, <2>3, <3>1, <3>3, MacTransmitsUpper
  <2>4. CASE ~link_mac_frame_send_req(s)
    BY <1>3, <1>b, <2>4, FatalUpper DEF MacSendStart, Fatal
  <2>. QED  BY <2>3, <2>4
<1>4. CASE MacSendDone
  <2> DEFINE s == [macSend EXCEPT !.frame.fidx = @ + 1]
  <2>0. MacHandling("FRAME_SEND_DONE")
    BY <1>4 DEF MacSendDone
  <2>1. macSend.pdu # None
    BY <2>0, MacHadPdu
  <2>2. s \in MacSender /\ s.pdu # None /\ s.frame.seq = macSend.frame.seq /\ s.seq = macSend.seq
    <3> DEFINE f == [macSend.frame EXCEPT !.fidx = @ + 1]
    <3>1. f \in Frame /\ f.seq = macSend.frame.seq
      <4>1. macSend.frame \in Frame
        BY <1>a DEF MacSender
      <4>2. \A g \in Frame : [g EXCEPT !.fidx = @ + 1] \in Frame /\ [g EXCEPT !.fidx = @ + 1].seq = g.seq
        BY DEF Frame
      <4>. QED  BY <4>1, <4>2
    <3>2. s = [macSend EXCEPT !.frame = f]
      BY <1>a
    <3> HIDE DEF f, s
    <3>. QED  BY <1>a, <2>1, <3>1, <3>2 DEF MacSender
  <2>3. \/ link_mac_frame_send_req(s)
        \/ link_mac_frame_send_end(s, "SEND_DONE")
        \/ Finish("LINK_MAC", NoPost) /\ UNCHANGED <<fsm, line, macSend, pduFifo>>
    BY <1>4 DEF MacSendDone
  <2> HIDE DEF s
  <2>4. CASE link_mac_frame_send_req(s)
    <3>1. s.seq = macSend.seq + One("FRAME_SEND_DONE" = "FRAME_SEND_START")
      BY <2>2, AgendaFacts DEF One
    <3>2. macSend.frame.seq <= s.frame.seq /\ s.frame.seq <= s.seq
      BY <1>a, <2>2, BoundsAreNat DEF SeqNo
    <3>. QED  BY <1>b, <2>0, <2>2, <2>4, <3>1, <3>2, MacTransmitsUpper
  <2>5. CASE link_mac_frame_send_end(s, "SEND_DONE")
    BY <1>b, <2>0, <2>2, <2>5, MacEndsUpper
  <2>6. CASE Finish("LINK_MAC", NoPost) /\ UNCHANGED <<fsm, line, macSend, pduFifo>>
    BY <1>b, <2>0, <2>6, MacIdlesUpper DEF Starts, Openers
  <2>. QED  BY <2>3, <2>4, <2>5, <2>6
<1>5. ASSUME NEW sig \in {"FRAME_SEND_ERR", "FRAME_SEND_TO"}, MacHandling(sig), Resend \/ Abandon
      PROVE  Agenda' /\ Upper(b)'
  <2> DEFINE again == [macSend EXCEPT !.retry = Increment(@), !.frame.fidx = 0]
             ended == [macSend EXCEPT !.retry = Increment(@)]
  <2>1. macSend.pdu # None
    BY <1>5, MacHadPdu
  <2>2. Increment(macSend.retry) \in Counter
    BY <1>a, Numbers DEF MacSender
  <2>3. /\ again \in MacSender /\ again.frame.seq = macSend.frame.seq /\ again.seq = macSend.seq
        /\ ended \in MacSender /\ ended.frame.seq = macSend.frame.seq /\ ended.seq = macSend.seq
        /\ ended.pdu # None
    BY <1>a, <2>1, <2>2 DEF MacSender, Frame
  <2>4. CASE Resend
    <3>1. link_mac_frame_send_req(again)
      BY <2>4 DEF Resend
    <3> HIDE DEF again, ended
    <3>2. again.seq = macSend.seq + One(sig = "FRAME_SEND_START")
      BY <1>5, <2>3, AgendaFacts DEF One
    <3>3. macSend.frame.seq <= again.frame.seq /\ again.frame.seq <= again.seq
      BY <1>a, <2>3, BoundsAreNat DEF SeqNo
    <3>. QED  BY <1>5, <1>b, <2>3, <3>1, <3>2, <3>3, MacTransmitsUpper
  <2>5. CASE Abandon
    <3>1. link_mac_frame_send_end(ended, "SEND_ERR")
      BY <2>5 DEF Abandon
    <3> HIDE DEF again, ended
    <3>. QED  BY <1>5, <1>b, <2>3, <3>1, MacEndsUpper
  <2>. QED  BY <1>5, <2>4, <2>5
<1>6. CASE MacSendErr
  BY <1>5, <1>6 DEF MacSendErr
<1>7. CASE MacSendTimeout
  BY <1>5, <1>7 DEF MacSendTimeout
<1>8. CASE MacFrameRev
  <2>0. MacHandling("FRAME_REV") /\ UNCHANGED <<macSend, pduFifo>>
    BY <1>8 DEF MacFrameRev
  <2>1. ASSUME NEW r, r.pdu \in Pdu, Accept(r)
        PROVE  \/ Finish("LINK_MAC", NoPost)
               \/ \E m \in LinkMsgs : m.sig = "REV_MSG" /\ Finish("LINK_MAC", Post("LINK", m))
    <3>1. PduMsg("REV_MSG", r.pdu) \in LinkMsgs /\ PduMsg("REV_MSG", r.pdu).sig = "REV_MSG"
      BY <2>1, Posted DEF PduMsg
    <3>. QED  BY <2>1, <3>1 DEF Accept
  <2>2. ASSUME NEW p \in FreePdu, Accept([state |-> "RECEIVING", pdu |-> p, seq |-> MacMsg.frame.seq]),
               UNCHANGED <<fsm, line>>
        PROVE  Agenda' /\ Upper(b)'
    <3> DEFINE r == [state |-> "RECEIVING", pdu |-> p, seq |-> MacMsg.frame.seq]
    <3>1. r.pdu \in Pdu /\ Accept(r)
      BY <2>2 DEF FreePdu
    <3> HIDE DEF r
    <3>. QED  BY <1>b, <2>0, <2>1, <2>2, <3>1, MacIdlesUpper DEF Starts, Openers
  <2>3. CASE Continues /\ Accept(macRev) /\ UNCHANGED <<fsm, line>>
    <3>1. macRev.pdu \in Pdu
      BY <2>3 DEF Continues, IInv, Types
    <3>. QED  BY <1>b, <2>0, <2>1, <2>3, <3>1, MacIdlesUpper DEF Starts, Openers
  <2>4. CASE Finish("LINK_MAC", NoPost) /\ UNCHANGED <<fsm, line>>
    BY <1>b, <2>0, <2>4, MacIdlesUpper DEF Starts, Openers
  <2>5. CASE Fatal("LINK_PDU 01")
    BY <1>b, <2>0, <2>5, FatalUpper DEF Fatal
  <2>. QED  BY <1>8, <2>2, <2>3, <2>4, <2>5 DEF MacFrameRev
<1>9. CASE MacRevTimeout
  <2>0. MacHandling("FRAME_REV_TO") /\ UNCHANGED <<macSend, pduFifo>>
    BY <1>9 DEF MacRevTimeout
  <2>1. CASE Finish("LINK_MAC", NoPost) /\ UNCHANGED <<fsm, line>>
    BY <1>b, <2>0, <2>1, MacIdlesUpper DEF Starts, Openers
  <2>2. CASE Fatal("LINK_PDU 02")
    BY <1>b, <2>0, <2>2, FatalUpper DEF Fatal
  <2>. QED  BY <1>9, <2>1, <2>2 DEF MacRevTimeout
<1>. QED  BY <1>1, <1>2, <1>3, <1>4, <1>6, <1>7, <1>8, <1>9 DEF MacStep, MacNext

(* The LINK task of board A, and the CPU serial task that sends. *)
LEMMA LinkUpper ==
  ASSUME IInv, Agenda, NEW b \in SeqNo, Upper(b), LinkSendMsg \/ LinkSendDone \/ LinkSendErr,
         UNCHANGED <<phy, macSend, pduFifo, size>>
  PROVE  Agenda' /\ Upper(b)'
<1> DEFINE box == mbox["LINK"]
<1>a. Boxes /\ box \in Seq(AllMsgs)
  BY Upstream, Tasks
<1>1. CASE Fatal("LINK_PDU 01") \/ Fatal("LINK_PDU 02")
  BY <1>1, FatalUpper DEF Fatal
<1>2. CASE LinkSendMsg /\ ~Fatal("LINK_PDU 01")
  <2>1. PICK p \in FreePdu :
          /\ LinkHandling("SEND_MSG")
          /\ Finish("LINK", Post("LINK_MAC", [sig |-> "FRAME_SEND_REQ", pdu |-> p]))
          /\ UNCHANGED <<fsm, line>>
    BY <1>2 DEF LinkSendMsg
  <2> DEFINE m == [sig |-> "FRAME_SEND_REQ", pdu |-> p]
  <2>2. m \in MacMsgs /\ m.sig = "FRAME_SEND_REQ"
    BY DEF FreePdu, MacMsgs
  <2>3. LinkHandling("SEND_MSG") /\ Finish("LINK", Post("LINK_MAC", m)) /\ UNCHANGED <<fsm, line>>
    BY <2>1
  <2> HIDE DEF m
  <2>4. /\ mbox'["LINK_PHY"] = mbox["LINK_PHY"] /\ Gains(mbox'["LINK_MAC"], mbox["LINK_MAC"], m)
        /\ \A S : Cnt(mbox'["LINK"], S) = Cnt(mbox["LINK"], S) - One("SEND_MSG" \in S)
    BY <2>2, <2>3, LinkSends DEF Openers
  <2>5. /\ Cnt(mbox'["LINK"], {"SEND_MSG"}) = Cnt(mbox["LINK"], {"SEND_MSG"}) - 1
        /\ Cnt(mbox'["LINK_MAC"], Starts) = Cnt(mbox["LINK_MAC"], Starts) + 1
    <3>1. /\ Cnt(mbox'["LINK"], {"SEND_MSG"}) = Cnt(mbox["LINK"], {"SEND_MSG"}) - One("SEND_MSG" \in {"SEND_MSG"})
          /\ Cnt(mbox'["LINK_MAC"], Starts) = Cnt(mbox["LINK_MAC"], Starts) + One(m.sig \in Starts)
      BY <2>4 DEF Gains
    <3>. QED  BY <2>2, <3>1 DEF One, Starts
  <2>6. macSend'.seq + Cnt(mbox'["LINK"], {"SEND_MSG"}) + Cnt(mbox'["LINK_MAC"], Starts) + Len(pduFifo')
          = macSend.seq + Cnt(mbox["LINK"], {"SEND_MSG"}) + Cnt(mbox["LINK_MAC"], Starts) + Len(pduFifo)
    BY <2>5, AgendaFacts
  <2>. QED  BY <2>3, <2>4, <2>6, AgendaMoved, StayUpper
<1>3. ASSUME NEW sig \in {"SEND_DONE", "SEND_ERR"}, LinkHandling(sig),
             Finish("LINK", NoPost), UNCHANGED <<fsm, line>>
      PROVE  Agenda' /\ Upper(b)'
  <2>1. /\ mbox'["LINK_PHY"] = mbox["LINK_PHY"] /\ mbox'["LINK_MAC"] = mbox["LINK_MAC"]
        /\ Cnt(mbox'["LINK"], {"SEND_MSG"}) = Cnt(mbox["LINK"], {"SEND_MSG"}) - One(sig \in {"SEND_MSG"})
    BY <1>3, LinkFinishes DEF Openers
  <2>2. Cnt(mbox'["LINK"], {"SEND_MSG"}) = Cnt(mbox["LINK"], {"SEND_MSG"})
    BY <1>3, <2>1, AgendaFacts DEF One
  <2>. QED  BY <1>3, <2>1, <2>2, AgendaKept, StayUpper
<1>. QED  BY <1>1, <1>2, <1>3 DEF LinkSendDone, LinkSendErr, link_pdu_free

LEMMA SendsUpper ==
  ASSUME IInv, Agenda, NEW b \in SeqNo, Upper(b), Sends
  PROVE  IInv' /\ Agenda' /\ Upper(b)'
<1>1. PICK n \in 1..MaxFrames :
        Arrives("LINK", [sig |-> "SEND_MSG", frames |-> n]) /\ size' = Append(size, n)
  BY DEF Sends
<1> DEFINE m == [sig |-> "SEND_MSG", frames |-> n]
<1>2. m \in LinkMsgs /\ m.sig = "SEND_MSG" /\ Arrives("LINK", m) /\ line' = line /\ Len(size) < MaxSends
  BY <1>1, Posted DEF Sends
<1> HIDE DEF m
<1>3. IInv'
  BY <1>2, ArrivesIInv, Tasks DEF IInv, Types, TypeOK
<1>4. /\ mbox' = [mbox EXCEPT !["LINK"] = Append(@, m)]
      /\ UNCHANGED <<fsm, phy, macSend, pduFifo>>
  BY <1>2 DEF Arrives, macVars
<1>5. /\ mbox'["LINK_PHY"] = mbox["LINK_PHY"] /\ mbox'["LINK_MAC"] = mbox["LINK_MAC"]
      /\ Gains(mbox'["LINK"], mbox["LINK"], m)
  <2>1. Boxes
    BY Upstream
  <2>. QED  BY <1>2, <1>4, <2>1, BoxAppend, Tasks
<1>6. Cnt(mbox'["LINK"], {"SEND_MSG"}) = Cnt(mbox["LINK"], {"SEND_MSG"}) + 1
  BY <1>2, <1>5 DEF Gains, One
<1>7. size' \in Seq(1..MaxFrames) /\ Len(size') = Len(size) + 1 /\ Len(size') <= MaxSends
  <2>1. size \in Seq(1..MaxFrames) /\ MaxSends \in Nat
    BY PairBounds, BoundsAreNat DEF Agenda
  <2>. QED  BY <1>1, <1>2, <2>1
<1>8. macSend'.seq + Cnt(mbox'["LINK"], {"SEND_MSG"}) + Cnt(mbox'["LINK_MAC"], Starts) + Len(pduFifo')
        <= Len(size')
  BY <1>4, <1>5, <1>6, <1>7, AgendaFacts
<1>9. Agenda'
  BY <1>4, <1>7, <1>8 DEF Agenda, Starts
<1>. QED  BY <1>2, <1>3, <1>4, <1>5, <1>9, StayUpper

(* A message other than a request to send comes into a mailbox of board A. *)
LEMMA ComesUpper ==
  ASSUME IInv, Agenda, NEW b, b \in SeqNo, Upper(b), NEW t \in Task, NEW m \in MsgsOf(t),
         m.sig \notin {"SEND_MSG", "FRAME_SEND_REQ", "FRAME_SEND_START"},
         mbox' = [mbox EXCEPT ![t] = Append(@, m)],
         UNCHANGED <<fsm, line, phy, macSend, pduFifo, size>>
  PROVE  Agenda' /\ Upper(b)'
<1>0. /\ Boxes /\ mbox["LINK_PHY"] \in Seq(AllMsgs) /\ m \in AllMsgs
      /\ phy.frame.seq \in SeqNo /\ macSend.frame.seq \in SeqNo
  BY Upstream, Tasks, MsgsAreMsgs
<1>1. /\ mbox'[t] = Append(mbox[t], m) /\ Gains(mbox'[t], mbox[t], m)
      /\ \A u \in Task \ {t} : mbox'[u] = mbox[u]
  BY <1>0, BoxAppend
<1>2. ASSUME NEW u \in Task, NEW S \in {{"SEND_MSG"}, Starts}
      PROVE  Cnt(mbox'[u], S) = Cnt(mbox[u], S)
  <2>1. CASE u = t
    <3>1. Cnt(mbox'[t], S) = Cnt(mbox[t], S) + One(m.sig \in S) /\ Cnt(mbox[t], S) \in Nat
      BY <1>0, <1>1, BoxFacts DEF Gains
    <3>2. One(m.sig \in S) = 0
      BY DEF One, Starts
    <3>. QED  BY <2>1, <3>1, <3>2
  <2>2. CASE u # t
    BY <1>1, <2>2
  <2>. QED  BY <2>1, <2>2
<1>3. Agenda'
  BY <1>2, AgendaKept, Tasks DEF Starts
<1>4. Rising("asked", mbox'["LINK_PHY"], phy.frame.seq, macSend.frame.seq)
  <2>1. CASE t = "LINK_PHY"
    <3>1. ~IsFrame("asked", m)
      BY Stages
    <3>. QED  BY <1>0, <1>1, <2>1, <3>1, RisingAppend DEF Upper
  <2>2. CASE t # "LINK_PHY"
    BY <1>1, <2>2, Tasks DEF Upper
  <2>. QED  BY <2>1, <2>2
<1>. QED  BY <1>3, <1>4 DEF Upper

LEMMA ExpireUpper ==
  ASSUME IInv, Agenda, NEW b \in SeqNo, Upper(b), NEW k \in TimerKey, Expire(k), UNCHANGED size
  PROVE  IInv' /\ Agenda' /\ Upper(b)'
<1> DEFINE m == [sig |-> k[2]]
           t == k[1]
<1>1. /\ mbox' = [mbox EXCEPT ![t] = Append(@, m)]
      /\ UNCHANGED <<fsm, line, phy, macSend, pduFifo>>
  BY DEF Expire, macVars
<1>2. t \in Task /\ m \in MsgsOf(t) /\ m.sig \in {"FRAME_SEND_TO", "FRAME_REV_TO"}
  BY Posted, Tasks DEF TimerKey, PhySendTo, MacSendTo, MacRevTo
<1> HIDE DEF m, t
<1>3. Agenda' /\ Upper(b)'
  BY <1>1, <1>2, ComesUpper
<1>. QED  BY <1>3, ExpireIInv

-----------------------------------------------------------------------------
(* Board B. *)
LEMMA BNames ==
  /\ B!Task = Task /\ B!TimerKey = TimerKey /\ B!MacTo = MacTo
  /\ B!PhySendTo = PhySendTo /\ B!MacSendTo = MacSendTo /\ B!MacRevTo = MacRevTo
  /\ B!NoPost = [t \in Task |-> <<>>]
  /\ \A t, m : B!Post(t, m) = [[u \in Task |-> <<>>] EXCEPT ![t] = <<m>>]
  /\ \A t, q : B!Answer(t, q) = Answer(t, q)
  /\ \A q, p : B!PduMsg(q, p) = PduMsg(q, p)
  BY DEF B!Task, Task, B!TimerKey, TimerKey, B!MacTo, MacTo, B!PhySendTo, PhySendTo,
         B!MacSendTo, MacSendTo, B!MacRevTo, MacRevTo, B!NoPost, B!Post, B!Answer, Answer,
         B!NoFrame, NoFrame, B!PduMsg, PduMsg

LEMMA BFields ==
  /\ \A m \in RevMsgs : m.sig = "REV_MSG" /\ m.pdu \in Pdu
  /\ \A m \in HeardMsgs : /\ m.sig \in {"FRAME_REV", "FRAME_REV_TO"}
                          /\ m.sig = "FRAME_REV" => m.frame \in AnyFrame
  /\ \A m \in WireMsgs : m.sig \in {"FRAME_REV", "FRAME_REV_CS_ERR"} /\ m.frame \in PhyFrame
  /\ \A p \in Pdu : PduMsg("REV_MSG", p) \in RevMsgs /\ PduMsg("REV_MSG", p).pdu = p
  /\ \A f \in AnyFrame : [sig |-> "FRAME_REV", frame |-> f] \in HeardMsgs
  /\ [sig |-> "FRAME_REV_TO"] \in HeardMsgs
  /\ \A f \in PhyFrame, q \in {"FRAME_REV", "FRAME_REV_CS_ERR"} : [sig |-> q, frame |-> f] \in WireMsgs
  /\ RevMsgs \subseteq BMsgs /\ HeardMsgs \subseteq BMsgs /\ WireMsgs \subseteq BMsgs
  BY DEF RevMsgs, HeardMsgs, WireMsgs, BMsgs, PduMsg

LEMMA BFinishes ==
  ASSUME Receives, NEW t \in Task, mboxB[t] # <<>>, B!Finish(t, B!NoPost)
  PROVE  /\ mboxB' \in [Task -> Seq(BMsgs)] /\ mboxB'[t] = Tail(mboxB[t])
         /\ \A u \in Task \ {t} : mboxB'[u] = mboxB[u]
<1>1. mboxB' = [u \in Task |-> (IF u = t THEN Tail(mboxB[u]) ELSE mboxB[u]) \o <<>>]
  BY BNames DEF B!Finish
<1>2. \A u \in Task : mboxB[u] \in Seq(BMsgs) /\ mboxB[u] \o <<>> = mboxB[u]
  BY DEF Receives
<1>3. Tail(mboxB[t]) \in Seq(BMsgs) /\ Tail(mboxB[t]) \o <<>> = Tail(mboxB[t])
  BY <1>2
<1>4. mboxB'[t] = Tail(mboxB[t]) /\ \A u \in Task \ {t} : mboxB'[u] = mboxB[u]
  BY <1>1, <1>2, <1>3
<1>5. mboxB' \in [Task -> Seq(BMsgs)]
  <2>1. \A u \in Task : mboxB'[u] \in Seq(BMsgs)
    BY <1>2, <1>3, <1>4
  <2>. QED  BY <1>1, <2>1
<1>. QED  BY <1>4, <1>5

LEMMA BPosts ==
  ASSUME Receives, NEW t \in Task, mboxB[t] # <<>>, NEW v \in Task \ {t}, NEW m \in BMsgs,
         B!Finish(t, B!Post(v, m))
  PROVE  /\ mboxB' \in [Task -> Seq(BMsgs)] /\ mboxB'[t] = Tail(mboxB[t])
         /\ mboxB'[v] = Append(mboxB[v], m)
         /\ \A u \in Task \ {t, v} : mboxB'[u] = mboxB[u]
<1> DEFINE posts == [[u \in Task |-> <<>>] EXCEPT ![v] = <<m>>]
<1>1. mboxB' = [u \in Task |-> (IF u = t THEN Tail(mboxB[u]) ELSE mboxB[u]) \o posts[u]]
  BY BNames DEF B!Finish
<1>2. posts[v] = <<m>> /\ \A u \in Task \ {v} : posts[u] = <<>>
  OBVIOUS
<1> HIDE DEF posts
<1>3. \A u \in Task : mboxB[u] \in Seq(BMsgs) /\ mboxB[u] \o <<>> = mboxB[u]
  BY DEF Receives
<1>4. Tail(mboxB[t]) \in Seq(BMsgs) /\ Tail(mboxB[t]) \o <<>> = Tail(mboxB[t])
  BY <1>3
<1>5. mboxB[v] \o <<m>> = Append(mboxB[v], m) /\ Append(mboxB[v], m) \in Seq(BMsgs)
  <2>1. mboxB[v] \in Seq(BMsgs)
    BY <1>3
  <2>. QED  BY <2>1, ShortSeqs
<1>6. /\ mboxB'[t] = Tail(mboxB[t]) /\ mboxB'[v] = Append(mboxB[v], m)
      /\ \A u \in Task \ {t, v} : mboxB'[u] = mboxB[u]
  <2>1. mboxB'[t] = Tail(mboxB[t]) \o posts[t] /\ mboxB'[v] = mboxB[v] \o posts[v]
    BY <1>1
  <2>2. \A u \in Task \ {t, v} : mboxB'[u] = mboxB[u] \o posts[u]
    BY <1>1
  <2>. QED  BY <1>2, <1>3, <1>4, <1>5, <2>1, <2>2
<1>7. mboxB' \in [Task -> Seq(BMsgs)]
  <2>1. \A u \in Task : mboxB'[u] \in Seq(BMsgs)
    BY <1>3, <1>4, <1>5, <1>6
  <2>. QED  BY <1>1, <2>1
<1>. QED  BY <1>6, <1>7

LEMMA BWritten ==
  ASSUME lineB \in Seq(PhyFrame), NEW f \in PhyFrame
  PROVE  B!Written(f) \in Seq(PhyFrame)
<1> DEFINE all == Append(lineB, f)
<1>1. all \in Seq(PhyFrame) /\ all # <<>>
  <2>1. all \in Seq(PhyFrame) /\ Len(all) = Len(lineB) + 1 /\ Len(lineB) \in Nat
    OBVIOUS
  <2>. QED  BY <2>1
<1>2. Tail(all) \in Seq(PhyFrame)
  BY <1>1
<1>3. B!Written(f) = IF Len(all) > LineMax THEN Tail(all) ELSE all
  BY DEF B!Written
<1> HIDE DEF all
<1>. QED  BY <1>1, <1>2, <1>3

(* The PHY layer of B answers a request and hands its frame on, and drops the rest. *)
LEMMA BPhyEffect ==
  ASSUME Receives, B!PhyStep
  PROVE  LET m == Head(mboxB["LINK_PHY"]) IN
         /\ mboxB["LINK_PHY"] # <<>> /\ m \in WireMsgs
         /\ mboxB' \in [Task -> Seq(BMsgs)]
         /\ mboxB'["LINK_PHY"] = Tail(mboxB["LINK_PHY"]) /\ mboxB'["LINK"] = mboxB["LINK"]
         /\ \/ /\ m.sig = "FRAME_REV" /\ m.frame.type = "REQ"
               /\ mboxB'["LINK_MAC"]
                    = Append(mboxB["LINK_MAC"], [sig |-> "FRAME_REV", frame |-> m.frame.mac])
            \/ /\ ~(m.sig = "FRAME_REV" /\ m.frame.type = "REQ")
               /\ mboxB'["LINK_MAC"] = mboxB["LINK_MAC"]
         /\ lineB' \in Seq(PhyFrame)
         /\ UNCHANGED <<fsmB, poolB, timerB, dueB, phyB, macSendB, pduFifoB, macRevB>>
<1> DEFINE box == mboxB["LINK_PHY"]
           m == Head(box)
<1>a. /\ box \in Seq(WireMsgs) /\ lineB \in Seq(PhyFrame) /\ phyB.send = "IDLE"
      /\ fsmB["LINK_PHY"] = "handle"
  BY Tasks DEF Receives
<1>b. UNCHANGED <<macSendB, pduFifoB, macRevB>>
  BY DEF B!PhyStep, B!macVars
<1>c. box # <<>>
  BY DEF B!PhyStep, B!PhyNext, B!PhyStart, B!PhyDrop, B!PhySendReq, B!PhySendTimeout, B!PhyRevReq,
         B!PhyRevAck, B!PhyRevNack, B!PhyRevStale, B!PhyRevChecksumError, B!Drop, B!IsAnswer,
         B!PhyHandling, B!Handling
<1>d. m \in WireMsgs /\ m.sig \in {"FRAME_REV", "FRAME_REV_CS_ERR"} /\ m.frame \in PhyFrame
  BY <1>a, <1>c, BFields
<1>e. m.frame.seq \in 0 .. PhySeqMod - 1 /\ m.frame.mac \in AnyFrame
  BY <1>d DEF PhyFrame
<1>f. "LINK_PHY" \in Task /\ "LINK_MAC" \in Task \ {"LINK_PHY"} /\ "LINK" \in Task \ {"LINK_PHY"}
      /\ "LINK" \in Task \ {"LINK_PHY", "LINK_MAC"}
  BY Tasks
<1>g. \A t \in {"ACK", "NACK"}, q \in 0 .. PhySeqMod - 1 : Answer(t, q) \in PhyFrame
  BY BoundsAreNat DEF Answer, NoFrame, PhyFrame, AnyFrame
<1>1. CASE B!PhyRevReq
  <2> DEFINE n == [sig |-> "FRAME_REV", frame |-> m.frame.mac]
  <2>1. /\ m.sig = "FRAME_REV" /\ m.frame.type = "REQ"
        /\ lineB' = B!Written(B!Answer("ACK", m.frame.seq))
        /\ B!Finish("LINK_PHY", B!Post("LINK_MAC", n))
        /\ UNCHANGED <<fsmB, poolB, timerB, dueB, phyB>>
    BY <1>1 DEF B!PhyRevReq, B!PhyHandling, B!Handling, B!Received
  <2>2. n \in BMsgs
    BY <1>e, BFields
  <2> HIDE DEF n
  <2>3. /\ mboxB' \in [Task -> Seq(BMsgs)] /\ mboxB'["LINK_PHY"] = Tail(box)
        /\ mboxB'["LINK_MAC"] = Append(mboxB["LINK_MAC"], n) /\ mboxB'["LINK"] = mboxB["LINK"]
    BY <1>c, <1>f, <2>1, <2>2, BPosts
  <2>4. lineB' \in Seq(PhyFrame)
    <3>1. lineB' = B!Written(Answer("ACK", m.frame.seq)) /\ Answer("ACK", m.frame.seq) \in PhyFrame
      BY <1>e, <1>g, <2>1, BNames
    <3>. QED  BY <1>a, <3>1, BWritten
  <2>. QED  BY <1>b, <1>c, <1>d, <2>1, <2>3, <2>4 DEF n
<1>2. CASE B!PhyRevStale \/ B!PhyRevChecksumError
  <2>1. /\ ~(m.sig = "FRAME_REV" /\ m.frame.type = "REQ") /\ B!Finish("LINK_PHY", B!NoPost)
        /\ UNCHANGED <<fsmB, poolB, timerB, dueB, phyB>>
        /\ lineB' = lineB \/ lineB' = B!Written(B!Answer("NACK", m.frame.seq))
    BY <1>2 DEF B!PhyRevStale, B!PhyRevChecksumError, B!PhyHandling, B!Handling, B!Received
  <2>2. /\ mboxB' \in [Task -> Seq(BMsgs)] /\ mboxB'["LINK_PHY"] = Tail(box)
        /\ mboxB'["LINK_MAC"] = mboxB["LINK_MAC"] /\ mboxB'["LINK"] = mboxB["LINK"]
    BY <1>c, <1>f, <2>1, BFinishes
  <2>3. lineB' \in Seq(PhyFrame)
    <3>1. lineB' = lineB \/ lineB' = B!Written(Answer("NACK", m.frame.seq))
      BY <2>1, BNames
    <3>2. Answer("NACK", m.frame.seq) \in PhyFrame
      BY <1>e, <1>g
    <3>. QED  BY <1>a, <3>1, <3>2, BWritten
  <2>. QED  BY <1>b, <1>c, <1>d, <2>1, <2>2, <2>3
<1>3. ASSUME B!PhyStart \/ B!PhyDrop \/ B!PhySendReq \/ B!PhySendTimeout \/ B!PhyRevAck \/ B!PhyRevNack
      PROVE  FALSE
  BY <1>3, <1>a, <1>d DEF B!PhyStart, B!PhyDrop, B!PhySendReq, B!PhySendTimeout, B!PhyRevAck,
     B!PhyRevNack, B!Drop, B!IsAnswer, B!PhyHandling, B!Handling
<1> HIDE DEF m, box
<1>4. B!PhyRevReq \/ B!PhyRevStale \/ B!PhyRevChecksumError
  BY <1>3 DEF B!PhyStep, B!PhyNext
<1>. QED  BY <1>1, <1>2, <1>4 DEF m, box

(* What the LINK task of B owns and was given is left alone. *)
LEMMA Settled ==
  ASSUME Owns, InTurn, NEW b, Newest(b), UNCHANGED <<poolB, macRevB, slots, given>>,
         mboxB'["LINK"] = mboxB["LINK"]
  PROVE  Owns' /\ InTurn' /\ Newest(b)'
<1>1. \A j : Told(j)' = Told(j)
  BY DEF Told
<1>2. Owns'
  BY <1>1 DEF Owns
<1>3. InTurn'
  BY <1>1 DEF InTurn, Before
<1>4. Newest(b)'
  BY <1>1 DEF Newest, Past
<1>. QED  BY <1>2, <1>3, <1>4

LEMMA BFrames ==
  ASSUME Receives
  PROVE  /\ \A f \in AnyFrame : f.seq \in SeqNo
         /\ \A n \in SeqNo : n \in Nat
         /\ \A i \in 1..Len(given) : given[i] \subseteq AnyFrame
         /\ \A p \in Pdu : slots[p] \subseteq AnyFrame
         /\ \A j \in 1..Len(mboxB["LINK"]) :
              mboxB["LINK"][j] \in RevMsgs /\ Told(j) \in Pdu /\ slots[Told(j)] \subseteq AnyFrame
         /\ macRevB.seq \in SeqNo /\ macRevB.state \in {"IDLE", "RECEIVING"}
         /\ macRevB.state = "IDLE" <=> macRevB.pdu = None
         /\ macRevB.state = "RECEIVING" => macRevB.pdu \in Pdu /\ slots[macRevB.pdu] \subseteq AnyFrame
         /\ Len(given) \in Nat /\ Len(mboxB["LINK"]) \in Nat
<1>1. \A f \in AnyFrame : f.seq \in SeqNo
  BY DEF AnyFrame, SeqNo
<1>2. \A n \in SeqNo : n \in Nat
  BY BoundsAreNat DEF SeqNo
<1>3. given \in Seq(SUBSET AnyFrame) /\ slots \in [Pdu -> SUBSET AnyFrame] /\ mboxB["LINK"] \in Seq(RevMsgs)
  BY DEF Receives
<1>4. \A j \in 1..Len(mboxB["LINK"]) : mboxB["LINK"][j] \in RevMsgs /\ Told(j) \in Pdu
  BY <1>3, BFields DEF Told
<1>5. /\ macRevB.seq \in SeqNo /\ macRevB.state \in {"IDLE", "RECEIVING"}
      /\ macRevB.state = "IDLE" <=> macRevB.pdu = None
      /\ macRevB.pdu \in Pdu \cup {None}
  BY DEF Receives, MacReceiver, SeqNo
<1>. QED  BY <1>1, <1>2, <1>3, <1>4, <1>5

(* A frame that the receiver takes is newer than every complete PDU. *)
LEMMA BOlder ==
  ASSUME Receives, NEW b \in SeqNo, Newest(b), NEW x \in SeqNo, b <= x,
         \/ macRevB.state = "IDLE" /\ macRevB.seq # x
         \/ macRevB.state = "RECEIVING" /\ macRevB.seq = x
  PROVE  /\ \A i \in 1..Len(given) : \A f \in given[i] : f.seq < x
         /\ \A j \in 1..Len(mboxB["LINK"]) : \A f \in slots[Told(j)] : f.seq < x
<1>1. b \in Nat /\ x \in Nat /\ macRevB.seq \in Nat
  BY BFrames
<1>2. ASSUME NEW F, F \subseteq AnyFrame, Past(F, b)
      PROVE  \A f \in F : f.seq < x
  <2> TAKE f \in F
  <2>1. f.seq \in Nat
    BY <1>2, BFrames
  <2>2. /\ macRevB.seq <= b /\ f.seq <= macRevB.seq
        /\ macRevB.state = "RECEIVING" => f.seq < macRevB.seq
    BY <1>2 DEF Past
  <2>. QED  BY <1>1, <2>1, <2>2
<1>3. \A i \in 1..Len(given) : given[i] \subseteq AnyFrame /\ Past(given[i], b)
  BY BFrames DEF Newest
<1>4. \A j \in 1..Len(mboxB["LINK"]) : slots[Told(j)] \subseteq AnyFrame /\ Past(slots[Told(j)], b)
  BY BFrames DEF Newest
<1>. QED  BY <1>2, <1>3, <1>4

(* The receiver takes a frame of PDU q and goes on receiving it. *)
LEMMA BGoesOn ==
  ASSUME Receives, Owns, InTurn, NEW b \in SeqNo, Newest(b), NEW q \in Pdu, NEW h \in AnyFrame, b <= h.seq,
         \/ macRevB.state = "IDLE" /\ macRevB.seq # h.seq /\ poolB[q] = 0
         \/ macRevB.state = "RECEIVING" /\ macRevB.seq = h.seq /\ macRevB.pdu = q,
         slots' = [slots EXCEPT ![q] = @ \cup {h}], UNCHANGED given,
         \A p \in Pdu \ {q} : poolB'[p] = poolB[p], poolB'[q] # 0,
         macRevB' = [state |-> "RECEIVING", pdu |-> q, seq |-> h.seq],
         mboxB'["LINK"] = mboxB["LINK"]
  PROVE  Owns' /\ InTurn' /\ Newest(h.seq)'
<1> DEFINE x == h.seq
           n == Len(mboxB["LINK"])
<1>0. x \in SeqNo /\ x \in Nat /\ b \in Nat /\ slots \in [Pdu -> SUBSET AnyFrame]
  BY BFrames DEF Receives
<1>1. \A j : Told(j)' = Told(j)
  BY DEF Told
<1>2. \A j \in 1..n : Told(j) \in Pdu \ {q}
  BY BFrames DEF Owns
<1>3. /\ slots'[q] = slots[q] \cup {h}
      /\ \A p \in Pdu \ {q} : slots'[p] = slots[p]
      /\ \A j \in 1..n : slots'[Told(j)] = slots[Told(j)]
  BY <1>0, <1>2
<1>4. macRevB'.state = "RECEIVING" /\ macRevB'.pdu = q /\ macRevB'.seq = x
  OBVIOUS
<1>5. /\ \A i \in 1..Len(given) : \A f \in given[i] : f.seq < x
      /\ \A j \in 1..n : \A f \in slots[Told(j)] : f.seq < x
  BY <1>0, BOlder
<1>6. Owns'
  <2>1. \A p \in Pdu : poolB'[p] = 0 => slots'[p] = {}
    BY <1>3 DEF Owns
  <2>2. \A j \in 1..n : poolB'[Told(j)] # 0 /\ Told(j) # macRevB'.pdu
    BY <1>2, <1>4 DEF Owns
  <2>3. \A i, j \in 1..n : i < j => Told(i) # Told(j)
    BY DEF Owns
  <2>. QED  BY <1>1, <1>4, <2>1, <2>2, <2>3 DEF Owns
<1>7. InTurn'
  BY <1>1, <1>3 DEF InTurn, Before
<1>8. \A f \in slots'[q] : f.seq = x
  <2>1. CASE macRevB.state = "IDLE"
    BY <1>3, <2>1 DEF Owns
  <2>2. CASE macRevB.state = "RECEIVING"
    BY <1>3, <2>2 DEF Newest
  <2>. QED  BY <2>1, <2>2
<1>9. Newest(x)'
  <2>1. ASSUME NEW F, F \subseteq AnyFrame, \A f \in F : f.seq < x
        PROVE  macRevB'.seq <= x /\ \A f \in F : f.seq <= macRevB'.seq /\ f.seq < macRevB'.seq
    <3>1. \A f \in F : f.seq \in Nat
      BY <2>1, BFrames
    <3>. QED  BY <1>0, <1>4, <2>1, <3>1
  <2>2. \A i \in 1..Len(given') : Past(given[i], x)'
    <3> TAKE i \in 1..Len(given')
    <3>1. given'[i] = given[i] /\ given[i] \subseteq AnyFrame /\ i \in 1..Len(given)
      BY BFrames
    <3>. QED  BY <1>5, <2>1, <3>1 DEF Past
  <2>3. \A j \in 1..n : Past(slots[Told(j)], x)'
    <3> TAKE j \in 1..n
    <3>1. slots'[Told(j)] = slots[Told(j)] /\ slots[Told(j)] \subseteq AnyFrame
      BY <1>3, BFrames
    <3>. QED  BY <1>1, <1>5, <2>1, <3>1 DEF Past
  <2>4. macRevB'.seq <= x /\ \A f \in slots'[macRevB'.pdu] : f.seq = macRevB'.seq
    BY <1>0, <1>4, <1>8
  <2>. QED  BY <1>1, <2>2, <2>3, <2>4 DEF Newest
<1>. QED  BY <1>6, <1>7, <1>9

(* The receiver takes the last frame of PDU q, which then waits for the LINK task. *)
LEMMA BHandsOver ==
  ASSUME Receives, Owns, InTurn, NEW b \in SeqNo, Newest(b), NEW q \in Pdu, NEW h \in AnyFrame, b <= h.seq,
         \/ macRevB.state = "IDLE" /\ macRevB.seq # h.seq /\ poolB[q] = 0
         \/ macRevB.state = "RECEIVING" /\ macRevB.seq = h.seq /\ macRevB.pdu = q,
         slots' = [slots EXCEPT ![q] = @ \cup {h}], UNCHANGED given,
         \A p \in Pdu \ {q} : poolB'[p] = poolB[p], poolB'[q] # 0,
         macRevB' = [state |-> "IDLE", pdu |-> None, seq |-> h.seq],
         mboxB'["LINK"] = Append(mboxB["LINK"], PduMsg("REV_MSG", q))
  PROVE  Owns' /\ InTurn' /\ Newest(h.seq)'
<1> DEFINE x == h.seq
           n == Len(mboxB["LINK"])
<1>0. x \in SeqNo /\ x \in Nat /\ b \in Nat /\ slots \in [Pdu -> SUBSET AnyFrame] /\ n \in Nat
  BY BFrames DEF Receives
<1>k. PICK k \in Nat : k = n + 1
  BY <1>0
<1>1. Len(mboxB'["LINK"]) = k /\ (\A j \in 1..n : Told(j)' = Told(j)) /\ Told(k)' = q
  <2>1. mboxB["LINK"] \in Seq(RevMsgs) /\ PduMsg("REV_MSG", q).pdu = q
    BY BFields DEF Receives
  <2>2. /\ Len(mboxB'["LINK"]) = k /\ mboxB'["LINK"][k] = PduMsg("REV_MSG", q)
        /\ \A j \in 1..n : mboxB'["LINK"][j] = mboxB["LINK"][j]
    BY <1>k, <2>1
  <2>. QED  BY <2>1, <2>2 DEF Told
<1>2. \A j \in 1..n : Told(j) \in Pdu \ {q}
  BY BFrames DEF Owns
<1>3. /\ slots'[q] = slots[q] \cup {h}
      /\ \A p \in Pdu \ {q} : slots'[p] = slots[p]
      /\ \A j \in 1..n : slots'[Told(j)] = slots[Told(j)]
  BY <1>0, <1>2
<1>4. macRevB'.state = "IDLE" /\ macRevB'.pdu = None /\ macRevB'.seq = x
  OBVIOUS
<1>5. /\ \A i \in 1..Len(given) : \A f \in given[i] : f.seq < x
      /\ \A j \in 1..n : \A f \in slots[Told(j)] : f.seq < x
  BY <1>0, BOlder
<1>6. \A f \in slots'[q] : f.seq = x
  <2>1. CASE macRevB.state = "IDLE"
    BY <1>3, <2>1 DEF Owns
  <2>2. CASE macRevB.state = "RECEIVING"
    BY <1>3, <2>2 DEF Newest
  <2>. QED  BY <2>1, <2>2
<1>7. \A j \in 1..k : j = k \/ j \in 1..n
  BY <1>0, <1>k
<1> HIDE DEF x
<1>8. Owns'
  <2>1. \A p \in Pdu : poolB'[p] = 0 => slots'[p] = {}
    BY <1>3 DEF Owns
  <2>2. \A j \in 1..k : poolB'[Told(j)'] # 0 /\ Told(j)' # macRevB'.pdu
    <3>1. \A j \in 1..n : poolB'[Told(j)'] # 0 /\ Told(j)' # macRevB'.pdu
      BY <1>1, <1>2, <1>4, NoneIsNoPdu DEF Owns
    <3>2. poolB'[Told(k)'] # 0 /\ Told(k)' # macRevB'.pdu
      BY <1>1, <1>4, NoneIsNoPdu
    <3>. QED  BY <1>7, <3>1, <3>2
  <2>3. ASSUME NEW i \in 1..k, NEW j \in 1..k, i < j PROVE Told(i)' # Told(j)'
    <3>1. i \in 1..n /\ (j = k \/ j \in 1..n)
      BY <1>0, <1>k, <1>7, <2>3
    <3>. QED  BY <1>1, <1>2, <2>3, <3>1 DEF Owns
  <2>. QED  BY <1>1, <1>4, <2>1, <2>2, <2>3 DEF Owns
<1>9. InTurn'
  <2>1. ASSUME NEW F, \A f \in F : f.seq < x PROVE Before(F, slots'[q])
    BY <1>6, <2>1 DEF Before
  <2>2. \A i \in 1..Len(given) : \A j \in 1..k : Before(given[i], slots'[Told(j)'])
    <3> TAKE i \in 1..Len(given)
    <3>1. \A j \in 1..n : Before(given[i], slots'[Told(j)'])
      BY <1>1, <1>3 DEF InTurn
    <3>2. Before(given[i], slots'[Told(k)'])
      BY <1>1, <1>5, <2>1
    <3>. QED  BY <1>7, <3>1, <3>2
  <2>3. ASSUME NEW i \in 1..k, NEW j \in 1..k, i < j PROVE Before(slots'[Told(i)'], slots'[Told(j)'])
    <3>1. i \in 1..n /\ (j = k \/ j \in 1..n)
      BY <1>0, <1>k, <1>7, <2>3
    <3>2. Told(i)' = Told(i) /\ slots'[Told(i)'] = slots[Told(i)]
      BY <1>1, <1>3, <3>1
    <3>3. CASE j = k
      <4>1. Before(slots[Told(i)], slots'[q])
        BY <1>5, <2>1, <3>1
      <4>. QED  BY <1>1, <3>2, <3>3, <4>1
    <3>4. CASE j \in 1..n
      <4>1. Before(slots[Told(i)], slots[Told(j)])
        BY <2>3, <3>1, <3>4 DEF InTurn
      <4>2. slots'[Told(j)'] = slots[Told(j)]
        BY <1>1, <1>3, <3>4
      <4>. QED  BY <3>2, <4>1, <4>2
    <3>. QED  BY <3>1, <3>3, <3>4
  <2>4. \A F, G : Before(F, G)' <=> Before(F, G)
    BY DEF Before
  <2>. QED  BY <1>1, <2>2, <2>3 DEF InTurn, Before
<1>10. Newest(x)'
  <2>1. ASSUME NEW F, F \subseteq AnyFrame, \A f \in F : f.seq <= x
        PROVE  macRevB'.seq <= x /\ \A f \in F : f.seq <= macRevB'.seq
    BY <1>0, <1>4, <2>1
  <2>2. ASSUME NEW F, F \subseteq AnyFrame, \A f \in F : f.seq < x
        PROVE  \A f \in F : f.seq <= x
    <3>1. \A f \in F : f.seq \in Nat
      BY <2>2, BFrames
    <3>. QED  BY <1>0, <2>2, <3>1
  <2>3. \A i \in 1..Len(given') : Past(given[i], x)'
    <3> TAKE i \in 1..Len(given')
    <3>1. given'[i] = given[i] /\ given[i] \subseteq AnyFrame /\ i \in 1..Len(given)
      BY BFrames
    <3>2. \A f \in given[i] : f.seq <= x
      BY <1>5, <2>2, <3>1
    <3>. QED  BY <1>4, <2>1, <3>1, <3>2 DEF Past
  <2>4. \A j \in 1..k : Past(slots[Told(j)], x)'
    <3>1. ASSUME NEW j \in 1..n PROVE Past(slots[Told(j)], x)'
      <4>1. slots'[Told(j)'] = slots[Told(j)] /\ slots[Told(j)] \subseteq AnyFrame
        BY <1>1, <1>3, BFrames
      <4>2. \A f \in slots[Told(j)] : f.seq <= x
        BY <1>5, <2>2, <4>1
      <4>. QED  BY <1>4, <2>1, <4>1, <4>2 DEF Past
    <3>2. Past(slots[Told(k)], x)'
      <4>1. slots'[Told(k)'] = slots'[q] /\ slots'[q] \subseteq AnyFrame
        BY <1>0, <1>1, <1>3
      <4>2. \A f \in slots'[q] : f.seq <= x
        BY <1>0, <1>6
      <4>. QED  BY <1>4, <2>1, <4>1, <4>2 DEF Past
    <3>. QED  BY <1>7, <3>1, <3>2
  <2>. QED  BY <1>1, <1>4, <2>3, <2>4 DEF Newest
<1>. QED  BY <1>8, <1>9, <1>10 DEF x

(* The receiver gives up a PDU. *)
LEMMA BGivesUp ==
  ASSUME Receives, Owns, InTurn, NEW b, Newest(b), macRevB.state = "RECEIVING",
         slots' = [slots EXCEPT ![macRevB.pdu] = {}], UNCHANGED given,
         poolB' = [poolB EXCEPT ![macRevB.pdu] = 0],
         macRevB' = [macRevB EXCEPT !.state = "IDLE", !.pdu = None],
         mboxB'["LINK"] = mboxB["LINK"]
  PROVE  Owns' /\ InTurn' /\ Newest(b)'
<1> DEFINE q == macRevB.pdu
           n == Len(mboxB["LINK"])
<1>0. slots \in [Pdu -> SUBSET AnyFrame] /\ poolB \in [Pdu -> Nat] /\ q \in Pdu
  BY BFrames DEF Receives
<1>1. \A j : Told(j)' = Told(j)
  BY DEF Told
<1>2. \A j \in 1..n : Told(j) \in Pdu \ {q}
  BY BFrames DEF Owns
<1>3. /\ slots'[q] = {} /\ poolB'[q] = 0
      /\ \A p \in Pdu \ {q} : slots'[p] = slots[p] /\ poolB'[p] = poolB[p]
      /\ \A j \in 1..n : slots'[Told(j)] = slots[Told(j)] /\ poolB'[Told(j)] = poolB[Told(j)]
  BY <1>0, <1>2
<1>4. macRevB'.state = "IDLE" /\ macRevB'.pdu = None /\ macRevB'.seq = macRevB.seq
  BY DEF Receives, MacReceiver
<1>5. Owns'
  <2>1. \A p \in Pdu : poolB'[p] = 0 => slots'[p] = {}
    BY <1>3 DEF Owns
  <2>2. \A j \in 1..n : poolB'[Told(j)] # 0 /\ Told(j) # macRevB'.pdu
    BY <1>2, <1>3, <1>4, NoneIsNoPdu DEF Owns
  <2>3. \A i, j \in 1..n : i < j => Told(i) # Told(j)
    BY DEF Owns
  <2>. QED  BY <1>1, <1>4, <2>1, <2>2, <2>3 DEF Owns
<1>6. InTurn'
  BY <1>1, <1>3 DEF InTurn, Before
<1>7. Newest(b)'
  <2>1. \A i \in 1..Len(given') : Past(given[i], b)'
    BY <1>4 DEF Newest, Past
  <2>2. \A j \in 1..n : Past(slots[Told(j)], b)'
    BY <1>1, <1>3, <1>4 DEF Newest, Past
  <2>. QED  BY <1>1, <1>4, <2>1, <2>2 DEF Newest
<1>. QED  BY <1>5, <1>6, <1>7

(* The LINK task is given the PDU that has waited longest. *)
LEMMA BGives ==
  ASSUME Receives, Owns, InTurn, NEW b, Newest(b), mboxB["LINK"] # <<>>,
         given' = Append(given, slots[Told(1)]), slots' = [slots EXCEPT ![Told(1)] = {}],
         poolB' = [poolB EXCEPT ![Told(1)] = 0], UNCHANGED macRevB,
         mboxB'["LINK"] = Tail(mboxB["LINK"])
  PROVE  Owns' /\ InTurn' /\ Newest(b)'
<1> DEFINE q == Told(1)
           n == Len(mboxB["LINK"])
           k == Len(given)
           l == n - 1
<1>0. /\ slots \in [Pdu -> SUBSET AnyFrame] /\ poolB \in [Pdu -> Nat] /\ q \in Pdu
      /\ n \in Nat /\ n # 0 /\ k \in Nat /\ 1 \in 1..n
  <2>1. n \in Nat /\ n # 0 /\ k \in Nat
    BY DEF Receives
  <2>2. 1 \in 1..n
    BY <2>1
  <2>. QED  BY <2>1, <2>2, BFrames DEF Receives
<1>1. Len(mboxB'["LINK"]) = l /\ \A j \in 1..l : \E i \in 1..n : i = j + 1 /\ Told(j)' = Told(i)
  <2>1. mboxB["LINK"] \in Seq(RevMsgs)
    BY DEF Receives
  <2>2. Len(mboxB'["LINK"]) = l /\ \A j \in 1..l : mboxB'["LINK"][j] = mboxB["LINK"][j + 1] /\ j + 1 \in 1..n
    BY <2>1
  <2>. QED  BY <2>2 DEF Told
<1>2. Len(given') = k + 1 /\ given'[k + 1] = slots[q] /\ \A i \in 1..k : given'[i] = given[i]
  BY DEF Receives
<1>3. \A i \in 1..(k + 1) : i = k + 1 \/ i \in 1..k
  BY <1>0
<1>4. \A i \in 1..n : i # 1 => Told(i) \in Pdu \ {q} /\ Told(i) # macRevB.pdu
  <2> TAKE i \in 1..n
  <2>1. i # 1 => 1 < i
    BY <1>0
  <2>. QED  BY <1>0, <2>1, BFrames DEF Owns
<1>5. /\ slots'[q] = {} /\ poolB'[q] = 0
      /\ \A p \in Pdu \ {q} : slots'[p] = slots[p] /\ poolB'[p] = poolB[p]
  BY <1>0
<1>6. \A j \in 1..l : \E i \in 1..n : /\ i = j + 1 /\ 1 < i /\ Told(j)' = Told(i) /\ Told(i) \in Pdu \ {q}
                                      /\ slots'[Told(j)'] = slots[Told(i)]
                                      /\ poolB'[Told(j)'] = poolB[Told(i)]
  <2> TAKE j \in 1..l
  <2>1. PICK i \in 1..n : i = j + 1 /\ Told(j)' = Told(i)
    BY <1>1
  <2>2. i # 1 /\ 1 < i
    BY <1>0, <2>1
  <2>. QED  BY <1>4, <1>5, <2>1, <2>2
<1> HIDE DEF l, k
<1>7. Owns'
  <2>1. \A p \in Pdu : poolB'[p] = 0 => slots'[p] = {}
    BY <1>5 DEF Owns
  <2>2. \A j \in 1..l : poolB'[Told(j)'] # 0 /\ Told(j)' # macRevB'.pdu
    BY <1>6 DEF Owns
  <2>3. ASSUME NEW i \in 1..l, NEW j \in 1..l, i < j PROVE Told(i)' # Told(j)'
    <3>1. PICK u \in 1..n : u = i + 1 /\ Told(i)' = Told(u)
      BY <1>6
    <3>2. PICK v \in 1..n : v = j + 1 /\ Told(j)' = Told(v)
      BY <1>6
    <3>3. u < v
      BY <2>3, <3>1, <3>2
    <3>. QED  BY <3>1, <3>2, <3>3 DEF Owns
  <2>4. macRevB'.pdu # None => poolB'[macRevB'.pdu] # 0
    <3>1. macRevB.pdu # q
      BY <1>0 DEF Owns
    <3>2. macRevB.pdu # None => macRevB.pdu \in Pdu
      BY DEF Receives, MacReceiver
    <3>. QED  BY <1>5, <3>1, <3>2 DEF Owns
  <2>. QED  BY <1>1, <2>1, <2>2, <2>3, <2>4 DEF Owns
<1>8. \A F, G : Before(F, G)' <=> Before(F, G)
  BY DEF Before
<1>9. InTurn'
  <2>1. ASSUME NEW i \in 1..(k + 1), NEW j \in 1..(k + 1), i < j PROVE Before(given'[i], given'[j])
    <3>1. i \in 1..k /\ (j = k + 1 \/ j \in 1..k)
      BY <1>0, <1>3, <2>1 DEF k
    <3>2. CASE j = k + 1
      BY <1>0, <1>2, <3>1, <3>2 DEF InTurn, k
    <3>3. CASE j \in 1..k
      BY <1>2, <2>1, <3>1, <3>3 DEF InTurn, k
    <3>. QED  BY <3>1, <3>2, <3>3
  <2>2. ASSUME NEW i \in 1..(k + 1), NEW j \in 1..l PROVE Before(given'[i], slots'[Told(j)'])
    <3>1. PICK v \in 1..n : 1 < v /\ slots'[Told(j)'] = slots[Told(v)]
      BY <1>6
    <3>2. CASE i = k + 1
      BY <1>0, <1>2, <3>1, <3>2 DEF InTurn
    <3>3. CASE i \in 1..k
      BY <1>2, <3>1, <3>3 DEF InTurn, k
    <3>. QED  BY <1>3, <3>2, <3>3
  <2>3. ASSUME NEW i \in 1..l, NEW j \in 1..l, i < j PROVE Before(slots'[Told(i)'], slots'[Told(j)'])
    <3>1. PICK u \in 1..n : u = i + 1 /\ slots'[Told(i)'] = slots[Told(u)]
      BY <1>6
    <3>2. PICK v \in 1..n : v = j + 1 /\ slots'[Told(j)'] = slots[Told(v)]
      BY <1>6
    <3>3. u < v
      BY <2>3, <3>1, <3>2
    <3>. QED  BY <3>1, <3>2, <3>3 DEF InTurn
  <2>. QED  BY <1>1, <1>2, <2>1, <2>2, <2>3 DEF InTurn, Before
<1>10. Newest(b)'
  <2>1. ASSUME NEW F, Past(F, b) PROVE Past(F, b)'
    BY <2>1 DEF Past
  <2>2. ASSUME NEW i \in 1..(k + 1) PROVE Past(given[i], b)'
    <3>1. CASE i = k + 1
      BY <1>0, <1>2, <3>1 DEF Newest, Past
    <3>2. CASE i \in 1..k
      BY <1>2, <3>2 DEF Newest, Past, k
    <3>. QED  BY <1>3, <3>1, <3>2
  <2>3. ASSUME NEW j \in 1..l PROVE Past(slots[Told(j)], b)'
    <3>1. PICK v \in 1..n : slots'[Told(j)'] = slots[Told(v)]
      BY <1>6
    <3>. QED  BY <3>1 DEF Newest, Past
  <2>4. macRevB'.state = "RECEIVING" =>
          macRevB'.seq <= b /\ \A f \in slots'[macRevB'.pdu] : f.seq = macRevB'.seq
    <3>1. macRevB.pdu # q
      BY <1>0 DEF Owns
    <3>2. macRevB.state = "RECEIVING" => macRevB.pdu \in Pdu
      BY BFrames
    <3>. QED  BY <1>5, <3>1, <3>2 DEF Newest
  <2>. QED  BY <1>1, <1>2, <2>2, <2>3, <2>4 DEF Newest
<1>. QED  BY <1>7, <1>9, <1>10

(* What the MAC layer of B makes of a message. *)
Takes(q, h) ==
  \/ macRevB.state = "IDLE" /\ macRevB.seq # h.seq /\ poolB[q] = 0 /\ poolB' = [poolB EXCEPT ![q] = 1]
  \/ macRevB.state = "RECEIVING" /\ macRevB.seq = h.seq /\ macRevB.pdu = q /\ poolB' = poolB
Ignores(m) ==
  /\ m.sig = "FRAME_REV" => ~(macRevB.state = "RECEIVING" /\ macRevB.seq = m.frame.seq)
  /\ UNCHANGED <<poolB, macRevB>>
GivesUp(m) ==
  /\ m.sig = "FRAME_REV_TO" /\ macRevB.state = "RECEIVING"
  /\ poolB' = [poolB EXCEPT ![macRevB.pdu] = 0]
  /\ macRevB' = [macRevB EXCEPT !.state = "IDLE", !.pdu = None]

LEMMA BMacHandles ==
  ASSUME Receives, B!MacStep
  PROVE  LET m == Head(mboxB["LINK_MAC"]) IN
         /\ mboxB["LINK_MAC"] # <<>> /\ m \in HeardMsgs /\ m.sig \in {"FRAME_REV", "FRAME_REV_TO"}
         /\ B!MacHandling(m.sig) /\ (B!MacFrameRev \/ B!MacRevTimeout)
<1> DEFINE box == mboxB["LINK_MAC"]
           m == Head(box)
<1>1. box \in Seq(HeardMsgs) /\ fsmB["LINK_MAC"] = "handle"
  BY Tasks DEF Receives
<1>2. box # <<>>
  BY DEF B!MacStep, B!MacNext, B!MacInitLower, B!MacStart, B!MacDrop, B!MacSendReq, B!MacSendStart,
         B!MacSendDone, B!MacSendErr, B!MacSendTimeout, B!MacFrameRev, B!MacRevTimeout,
         B!Drop, B!MacHandling, B!Handling
<1>3. m \in HeardMsgs /\ m.sig \in {"FRAME_REV", "FRAME_REV_TO"}
  BY <1>1, <1>2, BFields
<1>4. ASSUME \/ B!MacInitLower \/ B!MacStart \/ B!MacDrop \/ B!MacSendReq \/ B!MacSendStart
             \/ B!MacSendDone \/ B!MacSendErr \/ B!MacSendTimeout
      PROVE  FALSE
  BY <1>4, <1>1, <1>3 DEF B!MacInitLower, B!MacStart, B!MacDrop, B!MacSendReq, B!MacSendStart,
         B!MacSendDone, B!MacSendErr, B!MacSendTimeout, B!Drop, B!MacHandling, B!Handling
<1>5. (B!MacFrameRev \/ B!MacRevTimeout) => B!MacHandling(m.sig)
  BY DEF B!MacFrameRev, B!MacRevTimeout, B!MacHandling, B!Handling
<1> HIDE DEF m, box
<1>6. B!MacFrameRev \/ B!MacRevTimeout
  BY <1>4 DEF B!MacStep, B!MacNext
<1>. QED  BY <1>2, <1>3, <1>5, <1>6 DEF m, box

LEMMA BMacEffect ==
  ASSUME Receives, Owns, B!MacStep
  PROVE  LET m == Head(mboxB["LINK_MAC"]) IN
         /\ mboxB["LINK_MAC"] # <<>> /\ m \in HeardMsgs
         /\ UNCHANGED <<fsmB, dueB, lineB, phyB>>
         /\ \/ timerB' = timerB
            \/ \E n \in {0, MacTo} : timerB' = [timerB EXCEPT ![MacRevTo] = n]
         /\ \/ UNCHANGED mboxB /\ Ignores(m)
            \/ B!Finish("LINK_MAC", B!NoPost) /\ (Ignores(m) \/ GivesUp(m))
            \/ /\ m.sig = "FRAME_REV"
               /\ \E q \in Pdu :
                    /\ Takes(q, m.frame)
                    /\ \/ /\ B!Finish("LINK_MAC", B!NoPost)
                          /\ macRevB' = [state |-> "RECEIVING", pdu |-> q, seq |-> m.frame.seq]
                       \/ /\ B!Finish("LINK_MAC", B!Post("LINK", PduMsg("REV_MSG", q)))
                          /\ macRevB' = [state |-> "IDLE", pdu |-> None, seq |-> m.frame.seq]
<1> DEFINE box == mboxB["LINK_MAC"]
           m == Head(box)
<1>a. box \in Seq(HeardMsgs) /\ fsmB["LINK_MAC"] = "handle" /\ macRevB \in MacReceiver
  BY Tasks DEF Receives
<1>b. UNCHANGED phyB
  BY DEF B!MacStep
<1>c. box # <<>> /\ m \in HeardMsgs /\ m.sig \in {"FRAME_REV", "FRAME_REV_TO"}
  BY BMacHandles
<1>d. B!MacFrameRev \/ B!MacRevTimeout
  BY BMacHandles
<1>e. B!MacRevTo = MacRevTo /\ B!MacTo = MacTo
  BY BNames
<1>2. ASSUME NEW r, B!Accept(r), r.state = "RECEIVING", r.seq = m.frame.seq,
             r = [state |-> r.state, pdu |-> r.pdu, seq |-> r.seq]
      PROVE  /\ \E n \in {0, MacTo} : timerB' = [timerB EXCEPT ![MacRevTo] = n]
             /\ \/ /\ B!Finish("LINK_MAC", B!NoPost)
                   /\ macRevB' = [state |-> "RECEIVING", pdu |-> r.pdu, seq |-> m.frame.seq]
                \/ /\ B!Finish("LINK_MAC", B!Post("LINK", PduMsg("REV_MSG", r.pdu)))
                   /\ macRevB' = [state |-> "IDLE", pdu |-> None, seq |-> m.frame.seq]
  <2>1. CASE B!Finish("LINK_MAC", B!NoPost) /\ macRevB' = r /\ B!timer_set(MacRevTo, MacTo)
    BY <1>2, <2>1 DEF B!timer_set
  <2>2. CASE /\ B!Finish("LINK_MAC", B!Post("LINK", PduMsg("REV_MSG", r.pdu)))
             /\ macRevB' = [r EXCEPT !.state = "IDLE", !.pdu = None]
             /\ B!timer_remove_attr(MacRevTo)
    BY <1>2, <2>2 DEF B!timer_remove_attr
  <2>3. B!PduMsg("REV_MSG", r.pdu) = PduMsg("REV_MSG", r.pdu)
    BY BNames
  <2>. QED  BY <1>2, <1>e, <2>1, <2>2, <2>3 DEF B!Accept
<1>3. CASE B!MacFrameRev
  <2>0. m.sig = "FRAME_REV" /\ B!MacMsg = m
    BY <1>3 DEF B!MacFrameRev, B!MacHandling, B!Handling, B!MacMsg
  <2> HIDE DEF m, box
  <2>1. CASE B!Opens /\ B!Fatal("LINK_PDU 01") /\ UNCHANGED macRevB
    BY <1>a, <1>b, <1>c, <2>0, <2>1 DEF B!Opens, B!Fatal, Ignores, m, box
  <2>2. ASSUME B!Opens, NEW q \in B!FreePdu, poolB' = [poolB EXCEPT ![q] = 1],
               B!Accept([state |-> "RECEIVING", pdu |-> q, seq |-> B!MacMsg.frame.seq]),
               UNCHANGED <<fsmB, dueB, lineB>>
        PROVE  /\ \E n \in {0, MacTo} : timerB' = [timerB EXCEPT ![MacRevTo] = n]
               /\ q \in Pdu /\ Takes(q, m.frame)
               /\ \/ /\ B!Finish("LINK_MAC", B!NoPost)
                     /\ macRevB' = [state |-> "RECEIVING", pdu |-> q, seq |-> m.frame.seq]
                  \/ /\ B!Finish("LINK_MAC", B!Post("LINK", PduMsg("REV_MSG", q)))
                     /\ macRevB' = [state |-> "IDLE", pdu |-> None, seq |-> m.frame.seq]
    <3> DEFINE r == [state |-> "RECEIVING", pdu |-> q, seq |-> m.frame.seq]
    <3>1. /\ r.state = "RECEIVING" /\ r.seq = m.frame.seq /\ r.pdu = q
          /\ r = [state |-> r.state, pdu |-> r.pdu, seq |-> r.seq] /\ B!Accept(r)
      BY <2>0, <2>2
    <3>2. q \in Pdu /\ Takes(q, m.frame)
      BY <2>0, <2>2 DEF B!FreePdu, B!Opens, Takes
    <3> HIDE DEF r
    <3>. QED  BY <1>2, <3>1, <3>2 DEF m, box
  <2>3. CASE B!Continues /\ B!Accept(macRevB) /\ UNCHANGED <<fsmB, poolB, dueB, lineB>>
    <3>1. /\ macRevB.state = "RECEIVING" /\ macRevB.seq = m.frame.seq /\ Takes(macRevB.pdu, m.frame)
      BY <2>0, <2>3 DEF B!Continues, Takes
    <3>2. macRevB = [state |-> macRevB.state, pdu |-> macRevB.pdu, seq |-> macRevB.seq]
      BY <1>a DEF MacReceiver
    <3>3. macRevB.pdu \in Pdu
      BY <3>1, BFrames
    <3>4. /\ \E n \in {0, MacTo} : timerB' = [timerB EXCEPT ![MacRevTo] = n]
          /\ \/ /\ B!Finish("LINK_MAC", B!NoPost)
                /\ macRevB' = [state |-> "RECEIVING", pdu |-> macRevB.pdu, seq |-> m.frame.seq]
             \/ /\ B!Finish("LINK_MAC", B!Post("LINK", PduMsg("REV_MSG", macRevB.pdu)))
                /\ macRevB' = [state |-> "IDLE", pdu |-> None, seq |-> m.frame.seq]
      BY <1>2, <2>3, <3>1, <3>2 DEF m, box
    <3>. QED  BY <1>b, <1>c, <2>0, <2>3, <3>1, <3>3, <3>4 DEF m, box
  <2>4. CASE /\ ~B!Opens /\ ~B!Continues /\ B!Finish("LINK_MAC", B!NoPost)
             /\ UNCHANGED <<fsmB, poolB, timerB, dueB, lineB, fatalB, macRevB>>
    BY <1>b, <1>c, <2>0, <2>4 DEF B!Opens, B!Continues, Ignores, m, box
  <2>5. CASE B!Opens /\ \E q \in B!FreePdu :
               /\ poolB' = [poolB EXCEPT ![q] = 1]
               /\ B!Accept([state |-> "RECEIVING", pdu |-> q, seq |-> B!MacMsg.frame.seq])
               /\ UNCHANGED <<fsmB, dueB, lineB>>
    BY <1>b, <1>c, <2>0, <2>2, <2>5 DEF m, box
  <2>. QED  BY <1>3, <2>1, <2>3, <2>4, <2>5 DEF B!MacFrameRev
<1>4. CASE B!MacRevTimeout
  <2>0. m.sig = "FRAME_REV_TO"
    BY <1>4 DEF B!MacRevTimeout, B!MacHandling, B!Handling
  <2>1. CASE /\ macRevB.state = "RECEIVING" /\ poolB[macRevB.pdu] # 0
             /\ poolB' = [poolB EXCEPT ![macRevB.pdu] = 0]
             /\ macRevB' = [macRevB EXCEPT !.state = "IDLE", !.pdu = None]
             /\ B!Finish("LINK_MAC", B!NoPost)
             /\ UNCHANGED <<fsmB, timerB, dueB, lineB>>
    BY <1>b, <1>c, <2>0, <2>1 DEF GivesUp
  <2>2. macRevB.state = "RECEIVING" => poolB[macRevB.pdu] # 0
    BY DEF Owns, Receives
  <2>3. CASE /\ macRevB.state = "IDLE" /\ B!Finish("LINK_MAC", B!NoPost)
             /\ UNCHANGED <<fsmB, poolB, timerB, dueB, lineB, macRevB>>
    BY <1>b, <1>c, <2>0, <2>3 DEF Ignores
  <2>. QED  BY <1>4, <2>1, <2>2, <2>3 DEF B!MacRevTimeout
<1>. QED  BY <1>d, <1>3, <1>4

(* The history of what a PDU of B holds follows its MAC layer. *)
SlotsFollow ==
  slots' = [p \in Pdu |-> IF poolB'[p] = 0 THEN {}
                          ELSE IF Writes(p) THEN slots[p] \cup {Heard} ELSE slots[p]]

LEMMA BSlotsStay ==
  ASSUME Receives, Owns, SlotsFollow, Ignores(Head(mboxB["LINK_MAC"]))
  PROVE  slots' = slots
<1>1. ASSUME NEW p \in Pdu, Writes(p) PROVE FALSE
  <2>1. Head(mboxB["LINK_MAC"]).sig = "FRAME_REV" /\ macRevB.pdu = p /\ macRevB.seq = Heard.seq
    BY <1>1 DEF Writes, Ignores, B!MacHandling, B!Handling
  <2>2. macRevB.state = "RECEIVING"
    BY <2>1, BFrames, NoneIsNoPdu
  <2>. QED  BY <2>1, <2>2 DEF Ignores, Heard
<1>2. slots \in [Pdu -> SUBSET AnyFrame] /\ slots' = [p \in Pdu |-> slots'[p]]
  BY DEF Receives, SlotsFollow
<1>3. \A p \in Pdu : slots'[p] = slots[p]
  BY <1>1 DEF SlotsFollow, Ignores, Owns
<1>. QED  BY <1>2, <1>3

LEMMA BSlotsGivesUp ==
  ASSUME Receives, Owns, SlotsFollow, GivesUp(Head(mboxB["LINK_MAC"]))
  PROVE  slots' = [slots EXCEPT ![macRevB.pdu] = {}]
<1>1. ASSUME NEW p \in Pdu, Writes(p) PROVE FALSE
  BY <1>1 DEF Writes, GivesUp, B!MacHandling, B!Handling
<1>2. slots \in [Pdu -> SUBSET AnyFrame] /\ slots' = [p \in Pdu |-> slots'[p]]
  BY DEF Receives, SlotsFollow
<1>3. poolB \in [Pdu -> Nat] /\ poolB' = [poolB EXCEPT ![macRevB.pdu] = 0] /\ macRevB.pdu \in Pdu
  BY BFrames DEF Receives, GivesUp
<1>4. poolB'[macRevB.pdu] = 0 /\ \A p \in Pdu \ {macRevB.pdu} : poolB'[p] = poolB[p]
  BY <1>3
<1>5. \A p \in Pdu \ {macRevB.pdu} : slots'[p] = slots[p]
  BY <1>1, <1>4 DEF SlotsFollow, Owns
<1>6. slots'[macRevB.pdu] = {}
  BY <1>3, <1>4 DEF SlotsFollow
<1>. QED  BY <1>2, <1>3, <1>5, <1>6

LEMMA BSlotsTake ==
  ASSUME Receives, Owns, SlotsFollow, NEW q \in Pdu, NEW h, h = Heard, Takes(q, h),
         B!MacHandling("FRAME_REV")
  PROVE  /\ slots' = [slots EXCEPT ![q] = @ \cup {h}] /\ poolB' \in [Pdu -> Nat]
         /\ poolB'[q] # 0 /\ \A p \in Pdu \ {q} : poolB'[p] = poolB[p]
<1>1. slots \in [Pdu -> SUBSET AnyFrame] /\ slots' = [p \in Pdu |-> slots'[p]] /\ poolB \in [Pdu -> Nat]
  BY DEF Receives, SlotsFollow
<1>2. poolB' \in [Pdu -> Nat] /\ poolB'[q] # 0 /\ \A p \in Pdu \ {q} : poolB'[p] = poolB[p]
  <2>1. CASE poolB' = [poolB EXCEPT ![q] = 1]
    BY <1>1, <2>1
  <2>2. CASE poolB' = poolB /\ macRevB.pdu = q
    BY <1>1, <2>2, NoneIsNoPdu DEF Owns
  <2>. QED  BY <2>1, <2>2 DEF Takes
<1>3. Writes(q)
  BY <1>2 DEF Takes, Writes
<1>4. ASSUME NEW p \in Pdu \ {q} PROVE ~Writes(p)
  <2>1. poolB'[p] = poolB[p]
    BY <1>2
  <2>2. macRevB.pdu # p
    BY BFrames, NoneIsNoPdu DEF Takes
  <2>. QED  BY <2>1, <2>2 DEF Writes
<1>5. slots'[q] = slots[q] \cup {h}
  BY <1>2, <1>3 DEF SlotsFollow
<1>6. \A p \in Pdu \ {q} : slots'[p] = slots[p]
  BY <1>2, <1>4 DEF SlotsFollow, Owns
<1>. QED  BY <1>1, <1>2, <1>5, <1>6

(* The timers, the state function and the line of B, whatever its MAC layer does. *)
LEMMA BStaysReceiver ==
  ASSUME Receives, UNCHANGED <<fsmB, dueB, lineB, phyB, given>>,
         \/ timerB' = timerB
         \/ \E n \in {0, MacTo} : timerB' = [timerB EXCEPT ![MacRevTo] = n],
         mboxB' \in [Task -> Seq(BMsgs)], mboxB'["LINK"] \in Seq(RevMsgs),
         mboxB'["LINK_MAC"] \in Seq(HeardMsgs), mboxB'["LINK_PHY"] = mboxB["LINK_PHY"],
         poolB' \in [Pdu -> Nat], slots' \in [Pdu -> SUBSET AnyFrame],
         macRevB' \in MacReceiver, macRevB'.state = "IDLE" <=> macRevB'.pdu = None
  PROVE  Receives'
<1>1. timerB' \in [TimerKey -> Nat] /\ timerB'[PhySendTo] = 0 /\ timerB'[MacSendTo] = 0
  <2>1. timerB \in [TimerKey -> Nat] /\ timerB[PhySendTo] = 0 /\ timerB[MacSendTo] = 0
    BY DEF Receives
  <2>2. ASSUME NEW n \in {0, MacTo}, timerB' = [timerB EXCEPT ![MacRevTo] = n]
        PROVE  timerB' \in [TimerKey -> Nat] /\ timerB'[PhySendTo] = 0 /\ timerB'[MacSendTo] = 0
    <3>1. n \in Nat
      BY Numbers
    <3>. QED  BY <2>1, <2>2, <3>1, Tasks
  <2>. QED  BY <2>1, <2>2
<1>. QED  BY <1>1 DEF Receives

LEMMA BMacLower ==
  ASSUME Receives, Owns, InTurn, NEW b0 \in SeqNo, NEW b1 \in SeqNo, NEW b2 \in SeqNo,
         Lower(b0, b1, b2), Newest(b0), B!MacStep, SlotsFollow, UNCHANGED given
  PROVE  /\ Receives' /\ Owns' /\ InTurn'
         /\ \E c0 \in SeqNo : Lower(c0, b1, b2)' /\ Newest(c0)'
<1> DEFINE box == mboxB["LINK_MAC"]
           m == Head(box)
<1>0. /\ box # <<>> /\ m \in HeardMsgs /\ UNCHANGED <<fsmB, dueB, lineB, phyB>>
      /\ \/ timerB' = timerB
         \/ \E n \in {0, MacTo} : timerB' = [timerB EXCEPT ![MacRevTo] = n]
      /\ \/ UNCHANGED mboxB /\ Ignores(m)
         \/ B!Finish("LINK_MAC", B!NoPost) /\ (Ignores(m) \/ GivesUp(m))
         \/ /\ m.sig = "FRAME_REV"
            /\ \E q \in Pdu :
                 /\ Takes(q, m.frame)
                 /\ \/ /\ B!Finish("LINK_MAC", B!NoPost)
                       /\ macRevB' = [state |-> "RECEIVING", pdu |-> q, seq |-> m.frame.seq]
                    \/ /\ B!Finish("LINK_MAC", B!Post("LINK", PduMsg("REV_MSG", q)))
                       /\ macRevB' = [state |-> "IDLE", pdu |-> None, seq |-> m.frame.seq]
  BY BMacEffect
<1>a. /\ box \in Seq(HeardMsgs) /\ Tail(box) \in Seq(HeardMsgs) /\ mboxB["LINK"] \in Seq(RevMsgs)
      /\ poolB \in [Pdu -> Nat] /\ slots \in [Pdu -> SUBSET AnyFrame] /\ macRevB \in MacReceiver
      /\ (macRevB.state = "IDLE" <=> macRevB.pdu = None)
  BY <1>0 DEF Receives
<1>b. mboxB["LINK"] \in Seq(RevMsgs) /\ mboxB \in [Task -> Seq(BMsgs)]
  BY DEF Receives
<1> HIDE DEF m, box
<1>h. PICK h : h = m.frame
  OBVIOUS
(* The message that is handled leaves the mailbox. *)
<1>1. ASSUME mboxB'["LINK_MAC"] = Tail(box), mboxB'["LINK_PHY"] = mboxB["LINK_PHY"]
      PROVE  /\ Lower(b0, b1, b2)'
             /\ m.sig = "FRAME_REV" =>
                  h \in AnyFrame /\ h.seq \in SeqNo /\ b0 <= h.seq /\ Lower(h.seq, b1, b2)'
  <2>1. /\ Rising("heard", Tail(box), b0, b1)
        /\ m.sig = "FRAME_REV" => b0 <= h.seq /\ Rising("heard", Tail(box), h.seq, b1)
    <3>1. Rising("heard", box, b0, b1)
      BY DEF Lower, box
    <3>2. m.sig = "FRAME_REV" => IsFrame("heard", Head(box)) /\ SeqOf("heard", Head(box)) = h.seq
      BY <1>h, Stages DEF m
    <3>. QED  BY <1>0, <1>a, <3>1, <3>2, RisingTail
  <2>2. m.sig = "FRAME_REV" => h \in AnyFrame /\ h.seq \in SeqNo
    BY <1>0, <1>h, BFields, BFrames
  <2>. QED  BY <1>1, <2>1, <2>2 DEF Lower
<1>2. ASSUME B!Finish("LINK_MAC", B!NoPost)
      PROVE  /\ mboxB' \in [Task -> Seq(BMsgs)] /\ mboxB'["LINK_MAC"] = Tail(box)
             /\ mboxB'["LINK"] = mboxB["LINK"] /\ mboxB'["LINK_PHY"] = mboxB["LINK_PHY"]
  BY <1>0, <1>2, BFinishes, Tasks DEF box
<1>3. ASSUME Ignores(m) PROVE slots' = slots
  BY <1>3, BSlotsStay DEF m, box
<1>4. CASE UNCHANGED mboxB /\ Ignores(m)
  <2>1. UNCHANGED <<poolB, macRevB, slots>> /\ mboxB' = mboxB
    BY <1>3, <1>4 DEF Ignores
  <2>2. Receives'
    BY <1>0, <1>a, <1>b, <2>1, BStaysReceiver DEF box
  <2>3. Lower(b0, b1, b2)'
    BY <2>1 DEF Lower
  <2>. QED  BY <2>1, <2>2, <2>3, Settled
<1>5. CASE B!Finish("LINK_MAC", B!NoPost) /\ Ignores(m)
  <2>1. UNCHANGED <<poolB, macRevB, slots>>
    BY <1>3, <1>5 DEF Ignores
  <2>2. Receives'
    BY <1>0, <1>2, <1>5, <1>a, <1>b, <2>1, BStaysReceiver
  <2>3. Lower(b0, b1, b2)' /\ mboxB'["LINK"] = mboxB["LINK"]
    BY <1>1, <1>2, <1>5
  <2>. QED  BY <2>1, <2>2, <2>3, Settled
<1>6. CASE B!Finish("LINK_MAC", B!NoPost) /\ GivesUp(m)
  <2>1. slots' = [slots EXCEPT ![macRevB.pdu] = {}]
    BY <1>6, BSlotsGivesUp DEF m, box
  <2>2. /\ macRevB.state = "RECEIVING" /\ poolB' = [poolB EXCEPT ![macRevB.pdu] = 0]
        /\ macRevB' = [macRevB EXCEPT !.state = "IDLE", !.pdu = None]
    BY <1>6 DEF GivesUp
  <2>3. Lower(b0, b1, b2)' /\ mboxB'["LINK"] = mboxB["LINK"]
    BY <1>1, <1>2, <1>6
  <2>4. macRevB' \in MacReceiver /\ macRevB'.state = "IDLE" /\ macRevB'.pdu = None
    BY <1>a, <2>2 DEF MacReceiver
  <2>5. poolB' \in [Pdu -> Nat] /\ slots' \in [Pdu -> SUBSET AnyFrame]
    BY <1>a, <2>1, <2>2
  <2>6. Receives'
    BY <1>0, <1>2, <1>6, <1>a, <1>b, <2>4, <2>5, BStaysReceiver
  <2>. QED  BY <2>1, <2>2, <2>3, <2>6, BGivesUp
<1>7. ASSUME m.sig = "FRAME_REV", NEW q \in Pdu, Takes(q, h)
      PROVE  /\ slots' = [slots EXCEPT ![q] = @ \cup {h}] /\ poolB' \in [Pdu -> Nat]
             /\ poolB'[q] # 0 /\ \A p \in Pdu \ {q} : poolB'[p] = poolB[p]
             /\ slots' \in [Pdu -> SUBSET AnyFrame]
             /\ \/ macRevB.state = "IDLE" /\ macRevB.seq # h.seq /\ poolB[q] = 0
                \/ macRevB.state = "RECEIVING" /\ macRevB.seq = h.seq /\ macRevB.pdu = q
  <2>1. h = Heard /\ h \in AnyFrame
    BY <1>0, <1>7, <1>h, BFields DEF Heard, m, box
  <2>2. B!MacHandling("FRAME_REV")
    BY <1>7, BMacHandles DEF m, box
  <2>3. /\ slots' = [slots EXCEPT ![q] = @ \cup {h}] /\ poolB' \in [Pdu -> Nat]
        /\ poolB'[q] # 0 /\ \A p \in Pdu \ {q} : poolB'[p] = poolB[p]
    BY <1>7, <2>1, <2>2, BSlotsTake
  <2>4. slots' \in [Pdu -> SUBSET AnyFrame]
    BY <1>a, <2>1, <2>3
  <2>. QED  BY <1>7, <2>3, <2>4 DEF Takes
<1>8. ASSUME m.sig = "FRAME_REV", NEW q \in Pdu, Takes(q, h), B!Finish("LINK_MAC", B!NoPost),
             macRevB' = [state |-> "RECEIVING", pdu |-> q, seq |-> h.seq]
      PROVE  Receives' /\ Owns' /\ InTurn' /\ \E c0 \in SeqNo : Lower(c0, b1, b2)' /\ Newest(c0)'
  <2>1. /\ h \in AnyFrame /\ h.seq \in SeqNo /\ b0 <= h.seq
        /\ Lower(h.seq, b1, b2)' /\ mboxB'["LINK"] = mboxB["LINK"]
    BY <1>1, <1>2, <1>8
  <2>2. macRevB' \in MacReceiver /\ macRevB'.state # "IDLE" /\ macRevB'.pdu # None
    BY <1>8, <2>1, NoneIsNoPdu DEF MacReceiver, SeqNo
  <2>3. Receives'
    BY <1>0, <1>2, <1>7, <1>8, <1>a, <1>b, <2>2, BStaysReceiver
  <2>4. Owns' /\ InTurn' /\ Newest(h.seq)'
    BY <1>7, <1>8, <2>1, BGoesOn
  <2>. QED  BY <2>1, <2>3, <2>4
<1>9. ASSUME m.sig = "FRAME_REV", NEW q \in Pdu, Takes(q, h),
             B!Finish("LINK_MAC", B!Post("LINK", PduMsg("REV_MSG", q))),
             macRevB' = [state |-> "IDLE", pdu |-> None, seq |-> h.seq]
      PROVE  Receives' /\ Owns' /\ InTurn' /\ \E c0 \in SeqNo : Lower(c0, b1, b2)' /\ Newest(c0)'
  <2>0. PduMsg("REV_MSG", q) \in RevMsgs /\ PduMsg("REV_MSG", q) \in BMsgs
    BY BFields
  <2>1. /\ mboxB' \in [Task -> Seq(BMsgs)] /\ mboxB'["LINK_MAC"] = Tail(box)
        /\ mboxB'["LINK"] = Append(mboxB["LINK"], PduMsg("REV_MSG", q))
        /\ mboxB'["LINK_PHY"] = mboxB["LINK_PHY"]
    BY <1>0, <1>9, <2>0, BPosts, Tasks DEF box
  <2>2. /\ h \in AnyFrame /\ h.seq \in SeqNo /\ b0 <= h.seq
        /\ Lower(h.seq, b1, b2)'
    BY <1>1, <1>9, <2>1
  <2>3. macRevB' \in MacReceiver /\ macRevB'.state = "IDLE" /\ macRevB'.pdu = None
    BY <1>9, <2>2 DEF MacReceiver, SeqNo
  <2>4. mboxB'["LINK"] \in Seq(RevMsgs)
    BY <1>b, <2>0, <2>1
  <2>5. Receives'
    BY <1>0, <1>7, <1>9, <1>a, <2>1, <2>3, <2>4, BStaysReceiver
  <2>6. Owns' /\ InTurn' /\ Newest(h.seq)'
    BY <1>7, <1>9, <2>1, <2>2, BHandsOver
  <2>. QED  BY <2>2, <2>5, <2>6
<1>. QED  BY <1>0, <1>h, <1>4, <1>5, <1>6, <1>8, <1>9

LEMMA BLinkLower ==
  ASSUME Receives, Owns, InTurn, NEW b0 \in SeqNo, NEW b1 \in SeqNo, NEW b2 \in SeqNo,
         Lower(b0, b1, b2), Newest(b0), B!LinkStep,
         given' = Append(given, slots[B!LinkMsg.pdu]),
         slots' = [slots EXCEPT ![B!LinkMsg.pdu] = {}]
  PROVE  Receives' /\ Owns' /\ InTurn' /\ Lower(b0, b1, b2)' /\ Newest(b0)'
<1> DEFINE box == mboxB["LINK"]
<1>a. /\ box \in Seq(RevMsgs) /\ fsmB["LINK"] = "handle" /\ mboxB \in [Task -> Seq(BMsgs)]
      /\ poolB \in [Pdu -> Nat] /\ slots \in [Pdu -> SUBSET AnyFrame] /\ given \in Seq(SUBSET AnyFrame)
  BY Tasks DEF Receives
<1>b. UNCHANGED <<phyB, macSendB, pduFifoB, macRevB>>
  BY DEF B!LinkStep, B!macVars
<1>c. box # <<>>
  BY DEF B!LinkStep, B!LinkNext, B!LinkInit, B!LinkStart, B!LinkDrop, B!LinkSendMsg, B!LinkSendDone,
         B!LinkSendErr, B!LinkRevMsg, B!Drop, B!LinkHandling, B!Handling
<1>d. Head(box).sig = "REV_MSG" /\ Head(box).pdu = Told(1) /\ 1 \in 1..Len(box) /\ Told(1) \in Pdu
      /\ Head(box) \in RevMsgs
  <2>1. Head(box) \in RevMsgs /\ 1 \in 1..Len(box) /\ Head(box) = box[1]
    BY <1>a, <1>c
  <2>. QED  BY <2>1, BFields DEF Told
<1>e. poolB[Told(1)] # 0 /\ Told(1) # macRevB.pdu
  BY <1>d DEF Owns
<1>1. ASSUME \/ B!LinkInit \/ B!LinkStart \/ B!LinkDrop \/ B!LinkSendMsg \/ B!LinkSendDone \/ B!LinkSendErr
      PROVE  FALSE
  BY <1>1, <1>a, <1>d DEF B!LinkInit, B!LinkStart, B!LinkDrop, B!LinkSendMsg, B!LinkSendDone,
         B!LinkSendErr, B!Drop, B!LinkHandling, B!Handling
<1>2. B!LinkMsg.pdu = Told(1)
  BY <1>d DEF B!LinkMsg
<1>3. B!link_pdu_free(Told(1), "LINK_PDU 03")
  <2>1. B!LinkRevMsg
    BY <1>1 DEF B!LinkStep, B!LinkNext
  <2>. QED  BY <1>2, <2>1 DEF B!LinkRevMsg
<1>4. /\ poolB' = [poolB EXCEPT ![Told(1)] = 0] /\ B!Finish("LINK", B!NoPost)
      /\ UNCHANGED <<fsmB, timerB, dueB, lineB>>
  BY <1>3, <1>e DEF B!link_pdu_free
<1>5. /\ mboxB' \in [Task -> Seq(BMsgs)] /\ mboxB'["LINK"] = Tail(box)
      /\ mboxB'["LINK_MAC"] = mboxB["LINK_MAC"] /\ mboxB'["LINK_PHY"] = mboxB["LINK_PHY"]
  BY <1>4, <1>c, BFinishes, Tasks
<1>6. /\ given' = Append(given, slots[Told(1)]) /\ slots' = [slots EXCEPT ![Told(1)] = {}]
  BY <1>2
<1>7. Owns' /\ InTurn' /\ Newest(b0)'
  BY <1>b, <1>c, <1>4, <1>5, <1>6, BGives
<1>8. /\ Tail(box) \in Seq(RevMsgs) /\ poolB' \in [Pdu -> Nat] /\ slots' \in [Pdu -> SUBSET AnyFrame]
      /\ given' \in Seq(SUBSET AnyFrame)
  <2>1. Tail(box) \in Seq(RevMsgs)
    BY <1>a, <1>c
  <2>2. poolB' \in [Pdu -> Nat] /\ slots' \in [Pdu -> SUBSET AnyFrame]
    BY <1>a, <1>4, <1>6
  <2>3. slots[Told(1)] \in SUBSET AnyFrame
    BY <1>a, <1>d
  <2>4. given' \in Seq(SUBSET AnyFrame)
    BY <1>a, <1>6, <2>3
  <2>. QED  BY <2>1, <2>2, <2>4
<1>9. Receives'
  BY <1>b, <1>4, <1>5, <1>8 DEF Receives
<1>10. Lower(b0, b1, b2)'
  BY <1>5 DEF Lower
<1>. QED  BY <1>7, <1>9, <1>10

LEMMA BPhyLower ==
  ASSUME Receives, Owns, InTurn, NEW b0 \in SeqNo, NEW b1 \in SeqNo, NEW b2 \in SeqNo,
         Lower(b0, b1, b2), Newest(b0), B!PhyStep, UNCHANGED <<slots, given>>
  PROVE  /\ Receives' /\ Owns' /\ InTurn' /\ Newest(b0)'
         /\ \E c1 \in SeqNo : Lower(b0, c1, b2)'
<1> DEFINE box == mboxB["LINK_PHY"]
           heard == mboxB["LINK_MAC"]
           m == Head(box)
<1>0. /\ box # <<>> /\ m \in WireMsgs
      /\ mboxB' \in [Task -> Seq(BMsgs)]
      /\ mboxB'["LINK_PHY"] = Tail(box) /\ mboxB'["LINK"] = mboxB["LINK"]
      /\ \/ /\ m.sig = "FRAME_REV" /\ m.frame.type = "REQ"
            /\ mboxB'["LINK_MAC"] = Append(heard, [sig |-> "FRAME_REV", frame |-> m.frame.mac])
         \/ /\ ~(m.sig = "FRAME_REV" /\ m.frame.type = "REQ")
            /\ mboxB'["LINK_MAC"] = heard
      /\ lineB' \in Seq(PhyFrame)
      /\ UNCHANGED <<fsmB, poolB, timerB, dueB, phyB, macSendB, pduFifoB, macRevB>>
  BY BPhyEffect
<1>a. box \in Seq(WireMsgs) /\ heard \in Seq(HeardMsgs) /\ Tail(box) \in Seq(WireMsgs)
  BY <1>0 DEF Receives
<1>b. m.frame \in PhyFrame
  BY <1>0, BFields
<1> HIDE DEF m, box, heard
<1>c. Rising("heard", heard, b0, b1) /\ Rising("wire", box, b1, b2)
  BY DEF Lower, heard, box
<1>1. Owns' /\ InTurn' /\ Newest(b0)'
  BY <1>0, Settled
<1>h. PICK f : f = [sig |-> "FRAME_REV", frame |-> m.frame.mac]
  OBVIOUS
<1>x. m.frame.mac \in AnyFrame /\ f \in HeardMsgs /\ f.frame = m.frame.mac
  <2>1. m.frame.mac \in AnyFrame
    BY <1>b DEF PhyFrame
  <2>. QED  BY <1>h, <2>1, BFields
<1>2. mboxB'["LINK_MAC"] \in Seq(HeardMsgs)
  <2>1. mboxB'["LINK_MAC"] = heard \/ mboxB'["LINK_MAC"] = Append(heard, f)
    BY <1>0, <1>h
  <2>2. Append(heard, f) \in Seq(HeardMsgs)
    BY <1>a, <1>x
  <2>. QED  BY <1>a, <2>1, <2>2
<1>3. Receives'
  BY <1>0, <1>2, <1>a DEF Receives
<1>4. CASE m.sig = "FRAME_REV" /\ m.frame.type = "REQ"
  <2>1. PICK x \in SeqNo : x = f.frame.seq
    BY <1>x, BFrames
  <2>2. IsFrame("wire", Head(box)) /\ SeqOf("wire", Head(box)) = x
    BY <1>4, <1>x, <2>1, Stages DEF m
  <2>3. b1 <= x /\ Rising("wire", Tail(box), x, b2)
    BY <1>0, <1>a, <1>c, <2>2, RisingTail
  <2>4. SeqOf("heard", f) = x
    BY <2>1, Stages
  <2>5. Rising("heard", Append(heard, f), b0, x)
    BY <1>a, <1>c, <1>x, <2>3, <2>4, RisingAppend
  <2>6. Lower(b0, x, b2)'
    BY <1>0, <1>4, <1>h, <2>3, <2>5 DEF Lower
  <2>. QED  BY <1>1, <1>3, <2>6
<1>5. CASE ~(m.sig = "FRAME_REV" /\ m.frame.type = "REQ")
  <2>1. Rising("wire", Tail(box), b1, b2)
    BY <1>0, <1>a, <1>c, RisingTail
  <2>2. Lower(b0, b1, b2)'
    BY <1>0, <1>5, <1>c, <2>1 DEF Lower
  <2>. QED  BY <1>1, <1>3, <2>2
<1>. QED  BY <1>4, <1>5

LEMMA StepBLower ==
  ASSUME Receives, Owns, InTurn, NEW b0 \in SeqNo, NEW b1 \in SeqNo, NEW b2 \in SeqNo,
         Lower(b0, b1, b2), Newest(b0), StepB
  PROVE  /\ Receives' /\ Owns' /\ InTurn'
         /\ \E c0, c1 \in SeqNo : Lower(c0, c1, b2)' /\ Newest(c0)'
<1>1. CASE B!PhyStep /\ UNCHANGED <<slots, given>>
  <2>1. /\ Receives' /\ Owns' /\ InTurn' /\ Newest(b0)'
        /\ \E c1 \in SeqNo : Lower(b0, c1, b2)'
    BY <1>1, BPhyLower
  <2>. QED  BY <2>1
<1>2. CASE B!MacStep /\ SlotsFollow /\ UNCHANGED given
  <2>1. /\ Receives' /\ Owns' /\ InTurn'
        /\ \E c0 \in SeqNo : Lower(c0, b1, b2)' /\ Newest(c0)'
    BY <1>2, BMacLower
  <2>. QED  BY <2>1
<1>3. CASE B!LinkStep /\ given' = Append(given, slots[B!LinkMsg.pdu])
           /\ slots' = [slots EXCEPT ![B!LinkMsg.pdu] = {}]
  <2>1. Receives' /\ Owns' /\ InTurn' /\ Lower(b0, b1, b2)' /\ Newest(b0)'
    BY <1>3, BLinkLower
  <2>. QED  BY <2>1
<1>. QED  BY <1>1, <1>2, <1>3 DEF StepB, SlotsFollow

(* The line takes the oldest request to B, as it is, damaged or not at all. *)
LEMMA CarryToBPasses ==
  ASSUME IInv, Agenda, Receives, Owns, InTurn, NEW b0 \in SeqNo, NEW b1 \in SeqNo, NEW b2 \in SeqNo,
         Upper(b2), Lower(b0, b1, b2), Newest(b0), CarryToB, UNCHANGED <<slots, given>>
  PROVE  /\ Receives' /\ Owns' /\ InTurn' /\ Newest(b0)'
         /\ \E c2 \in SeqNo : Upper(c2)' /\ Lower(b0, b1, c2)'
<1> DEFINE box == mboxB["LINK_PHY"]
<1>0. /\ line # <<>> /\ line' = Tail(line) /\ Carried(mboxB, Head(line))
      /\ UNCHANGED <<mbox, phy, macSend, fsmB, poolB, timerB, dueB, lineB, phyB, macRevB>>
  BY DEF CarryToB, macVars
<1>h. PICK f : f = Head(line)
  OBVIOUS
<1>a. /\ line \in Seq(PhyFrame) /\ phy.frame.seq \in SeqNo /\ f \in PhyFrame /\ box \in Seq(WireMsgs)
      /\ mboxB \in [Task -> Seq(BMsgs)]
  BY <1>0, <1>h, Upstream DEF Receives
<1>c. Rising("line", line, b2, phy.frame.seq) /\ Rising("wire", box, b1, b2)
  BY DEF Lower, Upper
<1> DEFINE Up(c) == Rising("line", Tail(line), c, phy.frame.seq)
<1>d. /\ Up(b2)
      /\ f.type = "REQ" => f.mac.seq \in SeqNo /\ b2 <= f.mac.seq /\ Up(f.mac.seq)
  <2>1. f.type = "REQ" => IsFrame("line", Head(line)) /\ SeqOf("line", Head(line)) = f.mac.seq
    BY <1>h, Stages
  <2>. QED  BY <1>0, <1>a, <1>c, <2>1, RisingTail
<1>e. \A c : Up(c) => Upper(c)'
  BY <1>0 DEF Upper
<1> HIDE DEF Up
<1>1. \/ UNCHANGED mboxB
      \/ \E q \in {"FRAME_REV", "FRAME_REV_CS_ERR"} :
           mboxB' = [mboxB EXCEPT !["LINK_PHY"] = Append(@, [sig |-> q, frame |-> f])]
  BY <1>0, <1>h DEF Carried
<1>2. CASE UNCHANGED mboxB
  <2>1. Receives'
    BY <1>0, <1>2 DEF Receives
  <2>2. Owns' /\ InTurn' /\ Newest(b0)'
    BY <1>0, <1>2, Settled
  <2>3. Upper(b2)' /\ Lower(b0, b1, b2)'
    BY <1>2, <1>d, <1>e DEF Lower
  <2>. QED  BY <2>1, <2>2, <2>3
<1>3. ASSUME NEW q \in {"FRAME_REV", "FRAME_REV_CS_ERR"},
             mboxB' = [mboxB EXCEPT !["LINK_PHY"] = Append(@, [sig |-> q, frame |-> f])]
      PROVE  /\ Receives' /\ Owns' /\ InTurn' /\ Newest(b0)'
             /\ \E c2 \in SeqNo : Upper(c2)' /\ Lower(b0, b1, c2)'
  <2>h. PICK m : m = [sig |-> q, frame |-> f]
    OBVIOUS
  <2>0. m \in WireMsgs /\ m \in BMsgs
    BY <1>a, <2>h, BFields
  <2>1. /\ mboxB'["LINK_PHY"] = Append(box, m) /\ mboxB'["LINK"] = mboxB["LINK"]
        /\ mboxB'["LINK_MAC"] = mboxB["LINK_MAC"] /\ mboxB' \in [Task -> Seq(BMsgs)]
    BY <1>3, <1>a, <2>h, <2>0, Tasks
  <2>2. Receives'
    BY <1>0, <1>a, <2>0, <2>1 DEF Receives
  <2>3. Owns' /\ InTurn' /\ Newest(b0)'
    BY <1>0, <2>1, Settled
  <2>4. /\ ~IsFrame("wire", m) => Rising("wire", Append(box, m), b1, b2)
        /\ \A k \in SeqNo : SeqOf("wire", m) = k /\ b2 <= k => Rising("wire", Append(box, m), b1, k)
    BY <1>a, <1>c, <2>0, RisingAppend
  <2>5. CASE f.type = "REQ"
    <3>1. SeqOf("wire", m) = f.mac.seq
      BY <2>h, Stages
    <3>2. Rising("wire", Append(box, m), b1, f.mac.seq)
      BY <1>d, <2>4, <2>5, <3>1
    <3>3. Upper(f.mac.seq)' /\ Lower(b0, b1, f.mac.seq)'
      BY <1>d, <1>e, <2>1, <2>5, <3>2 DEF Lower
    <3>. QED  BY <1>d, <2>2, <2>3, <2>5, <3>3
  <2>6. CASE f.type # "REQ"
    <3>1. ~IsFrame("wire", m)
      BY <2>h, <2>6, Stages
    <3>2. Upper(b2)' /\ Lower(b0, b1, b2)'
      BY <1>d, <1>e, <2>1, <2>4, <3>1 DEF Lower
    <3>. QED  BY <2>2, <2>3, <3>2
  <2>. QED  BY <2>5, <2>6
<1>. QED  BY <1>1, <1>2, <1>3

(* An answer of B, or what is left of one, comes to A. *)
LEMMA CarryToAPasses ==
  ASSUME IInv, Agenda, Receives, NEW b \in SeqNo, Upper(b), CarryToA, UNCHANGED <<late, size, slots, given>>
  PROVE  IInv' /\ Agenda' /\ Upper(b)' /\ Receives'
<1>0. /\ lineB # <<>> /\ lineB' = Tail(lineB) /\ Carried(mbox, Head(lineB))
      /\ UNCHANGED <<line, fsm, pool, timer, due, fatal, phy, macSend, pduFifo, macRev>>
      /\ UNCHANGED <<mboxB, fsmB, poolB, timerB, dueB, phyB, macRevB>>
  BY DEF CarryToA, macVars
<1>1. lineB' \in Seq(PhyFrame) /\ Head(lineB) \in PhyFrame
  BY <1>0 DEF Receives
<1>2. Receives'
  BY <1>0, <1>1 DEF Receives
<1>3. /\ late' \in 0..MaxLate /\ line' \in Seq(PhyFrame) /\ Len(line') <= LineMax
  BY <1>0 DEF IInv, Types, TypeOK
<1>4. CASE UNCHANGED mbox
  <2>1. IInv'
    BY <1>0, <1>4, FatalKeeps
  <2>2. Agenda' /\ Upper(b)'
    BY <1>0, <1>4 DEF Agenda, Upper
  <2>. QED  BY <1>2, <2>1, <2>2
<1>5. ASSUME NEW q \in {"FRAME_REV", "FRAME_REV_CS_ERR"},
             mbox' = [mbox EXCEPT !["LINK_PHY"] = Append(@, [sig |-> q, frame |-> Head(lineB)])]
      PROVE  IInv' /\ Agenda' /\ Upper(b)'
  <2>h. PICK m : m = [sig |-> q, frame |-> Head(lineB)]
    OBVIOUS
  <2>1. /\ m \in MsgsOf("LINK_PHY") /\ m.sig = q
        /\ mbox' = [mbox EXCEPT !["LINK_PHY"] = Append(@, m)]
    BY <1>1, <1>5, <2>h, Posted, Tasks
  <2>2. IInv'
    BY <1>0, <1>3, <2>1, ComesIInv
  <2>3. Agenda' /\ Upper(b)'
    BY <1>0, <2>1, ComesUpper, Tasks
  <2>. QED  BY <2>2, <2>3
<1>. QED  BY <1>0, <1>2, <1>4, <1>5 DEF Carried

LEMMA PairTickPasses ==
  ASSUME IInv, Agenda, Receives, Owns, InTurn, NEW b0 \in SeqNo, NEW b1 \in SeqNo, NEW b2 \in SeqNo,
         Upper(b2), Lower(b0, b1, b2), Newest(b0), PairTick
  PROVE  /\ IInv' /\ Agenda' /\ Receives' /\ Owns' /\ InTurn'
         /\ Upper(b2)' /\ Lower(b0, b1, b2)' /\ Newest(b0)'
<1>0. /\ due = {} /\ dueB = {} /\ due' = {k \in TimerKey : timer[k] = 1}
      /\ dueB' = {k \in TimerKey : timerB[k] = 1}
      /\ timer' = [k \in TimerKey |-> IF timer[k] = 0 THEN 0 ELSE timer[k] - 1]
      /\ timerB' = [k \in TimerKey |-> IF timerB[k] = 0 THEN 0 ELSE timerB[k] - 1]
      /\ UNCHANGED <<mbox, fsm, pool, line, phy, macSend, pduFifo, macRev, late, size>>
      /\ UNCHANGED <<mboxB, fsmB, poolB, lineB, phyB, macRevB, slots, given>>
  BY DEF PairTick, macVars
<1>1. IInv'
  <2>1. late' \in 0..MaxLate
    BY <1>0 DEF IInv, Types, TypeOK
  <2>. QED  BY <1>0, <2>1, TickedIInv
<1>2. Agenda' /\ Upper(b2)' /\ Lower(b0, b1, b2)'
  BY <1>0 DEF Agenda, Upper, Lower
<1>3. Owns' /\ InTurn' /\ Newest(b0)'
  BY <1>0, Settled
<1>4. timerB' \in [TimerKey -> Nat] /\ timerB'[PhySendTo] = 0 /\ timerB'[MacSendTo] = 0
  <2>1. timerB \in [TimerKey -> Nat] /\ timerB[PhySendTo] = 0 /\ timerB[MacSendTo] = 0
    BY DEF Receives
  <2>2. \A k \in TimerKey : timerB[k] \in Nat /\ (timerB[k] # 0 => timerB[k] - 1 \in Nat)
    BY <2>1
  <2>3. \A k \in TimerKey : timerB'[k] \in Nat /\ (timerB[k] = 0 => timerB'[k] = 0)
    BY <1>0, <2>2
  <2>. QED  BY <1>0, <2>1, <2>3, Tasks
<1>5. dueB' \subseteq {MacRevTo}
  <2>1. \A k \in TimerKey : timerB[k] = 1 => k = MacRevTo
    BY DEF Receives, TimerKey
  <2>. QED  BY <1>0, <2>1
<1>6. Receives'
  BY <1>0, <1>4, <1>5 DEF Receives
<1>. QED  BY <1>1, <1>2, <1>3, <1>6

(* The timer of B that expires is that of its receiver. *)
LEMMA ExpireBLower ==
  ASSUME Receives, Owns, InTurn, NEW b0 \in SeqNo, NEW b1 \in SeqNo, NEW b2 \in SeqNo,
         Lower(b0, b1, b2), Newest(b0), NEW k \in TimerKey, B!Expire(k), UNCHANGED <<slots, given>>
  PROVE  Receives' /\ Owns' /\ InTurn' /\ Lower(b0, b1, b2)' /\ Newest(b0)'
<1>0. /\ k = MacRevTo /\ dueB' = dueB \ {k}
      /\ mboxB' = [mboxB EXCEPT ![k[1]] = Append(@, [sig |-> k[2]])]
      /\ UNCHANGED <<fsmB, poolB, timerB, lineB, phyB, macRevB>>
  BY DEF B!Expire, B!macVars, Receives
<1>h. PICK m : m = [sig |-> "FRAME_REV_TO"]
  OBVIOUS
<1>1. m \in HeardMsgs /\ m \in BMsgs /\ m.sig = "FRAME_REV_TO"
  BY <1>h, BFields
<1>2. mboxB' = [mboxB EXCEPT !["LINK_MAC"] = Append(@, m)]
  BY <1>0, <1>h DEF MacRevTo
<1>a. mboxB["LINK_MAC"] \in Seq(HeardMsgs) /\ mboxB \in [Task -> Seq(BMsgs)]
  BY DEF Receives
<1>3. /\ mboxB'["LINK_MAC"] = Append(mboxB["LINK_MAC"], m) /\ mboxB'["LINK"] = mboxB["LINK"]
      /\ mboxB'["LINK_PHY"] = mboxB["LINK_PHY"] /\ mboxB' \in [Task -> Seq(BMsgs)]
      /\ mboxB'["LINK_MAC"] \in Seq(HeardMsgs)
  BY <1>a, <1>1, <1>2, Tasks
<1>4. Receives'
  BY <1>0, <1>3 DEF Receives
<1>5. Owns' /\ InTurn' /\ Newest(b0)'
  BY <1>0, <1>3, Settled
<1>6. Rising("heard", Append(mboxB["LINK_MAC"], m), b0, b1)
  <2>1. ~IsFrame("heard", m)
    BY <1>1, Stages
  <2>2. Rising("heard", mboxB["LINK_MAC"], b0, b1)
    BY DEF Lower
  <2>. QED  BY <1>a, <1>1, <2>1, <2>2, RisingAppend
<1>. QED  BY <1>3, <1>4, <1>5, <1>6 DEF Lower


-----------------------------------------------------------------------------
LEMMA PairInitIInv == PairInit => IInv
<1> SUFFICES ASSUME PairInit PROVE IInv
  OBVIOUS
<1> USE DEF PairInit, PhyInit, MacInit
<1>1. /\ \A t \in Task : mbox[t] = <<>> /\ fsm[t] = "handle"
      /\ mbox["LINK"] = <<>> /\ mbox["LINK_MAC"] = <<>> /\ mbox["LINK_PHY"] = <<>>
      /\ fsm["LINK"] = "handle" /\ fsm["LINK_MAC"] = "handle" /\ fsm["LINK_PHY"] = "handle"
  BY DEF Task
<1>2. Boxes
  BY <1>1 DEF Boxes
<1>3. TypeOK
  <2>1. 0 \in 0 .. MacSeqMod - 1 /\ 0 \in 0 .. PhySeqMod - 1 /\ 0 \in 0..MaxFrames
        /\ 0 \in 0..MacTo /\ 0 \in 0..MaxLate /\ 0 \in Counter /\ 0 <= LineMax
    BY Zeros
  <2>2. fsm \in [Task -> {"init", "handle"}] /\ pool \in [Pdu -> 0..MaxFrames]
        /\ timer \in [TimerKey -> 0..MacTo] /\ due \subseteq TimerKey
    BY <2>1
  <2>3. NoFrame \in Frame
    BY <2>1 DEF NoFrame, Frame
  <2>4. phy \in PhyState
    BY <2>1, <2>3 DEF PhyState
  <2>5. macSend \in MacSender
    BY <2>1, <2>3 DEF MacSender, NoFrame
  <2>6. macRev \in MacReceiver
    BY <2>1 DEF MacReceiver
  <2>7. Len(line) <= LineMax /\ late \in 0..MaxLate /\ pduFifo \in Seq(Pdu)
        /\ Len(pduFifo) <= FifoSize
    BY <2>1, Numbers
  <2>. QED  BY <2>2, <2>4, <2>5, <2>6, <2>7 DEF TypeOK
<1>4. Types
  BY <1>2, <1>3 DEF Types
<1>5. \A S : Cnt(<<>>, S) = 0
  BY CntEmpty
<1>6. Unsent /\ Dormant /\ Armed /\ InOrder
  <2>1. /\ phy.send = "IDLE" /\ macSend.state = "IDLE" /\ macRev.state = "IDLE"
        /\ timer[PhySendTo] = 0 /\ timer[MacSendTo] = 0 /\ due = {}
    BY Tasks
  <2> HIDE DEF PairInit, PhyInit, MacInit
  <2>2. Dormant /\ Armed /\ InOrder
    BY <1>1, <2>1 DEF Dormant, Armed, InOrder
  <2>3. Unsent
    BY <1>1, <1>5, <2>1 DEF Unsent
  <2>. QED  BY <2>2, <2>3
<1>7. Handshake
  <2> HIDE DEF PairInit, PhyInit, MacInit
  <2>. QED  BY <1>1, <1>5 DEF Handshake, Inits, One
<1>. QED  BY <1>4, <1>6, <1>7 DEF IInv

LEMMA RisingEmpty == \A stage : \A b \in SeqNo : Rising(stage, <<>>, b, b)
  BY BoundsAreNat DEF Rising, SeqNo

LEMMA PairInitInv == PairInit => PairInv
<1> SUFFICES ASSUME PairInit PROVE PairInv
  OBVIOUS
<1>1. IInv
  BY PairInitIInv
<1>2. /\ mbox["LINK"] = <<>> /\ mbox["LINK_MAC"] = <<>> /\ mbox["LINK_PHY"] = <<>> /\ mboxB = mbox
      /\ line = <<>> /\ lineB = <<>> /\ size = <<>> /\ given = <<>> /\ pduFifo = <<>>
      /\ fsm = [t \in Task |-> "handle"] /\ fsmB = [t \in Task |-> "handle"]
      /\ macSend.seq = 0 /\ macSend.frame.seq = 0 /\ phy.frame.seq = 0 /\ phyB.send = "IDLE"
      /\ macRevB = [state |-> "IDLE", pdu |-> None, seq |-> first] /\ first \in 0 .. MacSeqMod - 1
  BY DEF PairInit, PhyInit, MacInit, B!PhyInit, NoFrame, Task
<1>3. Agenda
  <2>1. MaxSends \in Nat /\ size \in Seq(1..MaxFrames) /\ Len(size) = 0 /\ Len(pduFifo) = 0
    BY <1>2, PairBounds, BoundsAreNat
  <2>. QED  BY <1>2, <2>1, CntEmpty DEF Agenda
<1>4. 0 \in SeqNo
  BY BoundsAreNat DEF SeqNo
<1>5. Receives
  <2>1. mboxB \in [Task -> Seq(BMsgs)] /\ poolB \in [Pdu -> Nat] /\ timerB \in [TimerKey -> Nat]
        /\ timerB[PhySendTo] = 0 /\ timerB[MacSendTo] = 0 /\ dueB = {} /\ slots \in [Pdu -> SUBSET AnyFrame]
    BY Tasks DEF PairInit
  <2>2. macRevB \in MacReceiver /\ macRevB.state = "IDLE" /\ macRevB.pdu = None
    BY <1>2 DEF MacReceiver
  <2>3. mboxB["LINK"] = <<>> /\ mboxB["LINK_MAC"] = <<>> /\ mboxB["LINK_PHY"] = <<>>
    BY <1>2
  <2>4. given \in Seq(SUBSET AnyFrame) /\ lineB \in Seq(PhyFrame) /\ mboxB["LINK"] \in Seq(RevMsgs)
        /\ mboxB["LINK_MAC"] \in Seq(HeardMsgs) /\ mboxB["LINK_PHY"] \in Seq(WireMsgs)
    <3>1. \A S : <<>> \in Seq(S)
      OBVIOUS
    <3>. QED  BY <1>2, <2>3, <3>1, Zenon
  <2>. QED  BY <1>2, <2>1, <2>2, <2>4 DEF Receives
<1>6. Owns /\ InTurn
  BY <1>2 DEF Owns, InTurn, PairInit
<1>7. Upper(0) /\ Lower(0, 0, 0)
  BY <1>2, <1>4, RisingEmpty DEF Upper, Lower
<1>8. Newest(0)
  BY <1>2 DEF Newest
<1>9. Passing
  BY <1>4, <1>7, <1>8 DEF Passing
<1>. QED  BY <1>1, <1>3, <1>5, <1>6, <1>9 DEF PairInv

LEMMA StayLower ==
  ASSUME Receives, Owns, InTurn, UNCHANGED <<boardB, slots, given>>, NEW b0, NEW b1, NEW b2,
         Lower(b0, b1, b2), Newest(b0)
  PROVE  Receives' /\ Owns' /\ InTurn' /\ Lower(b0, b1, b2)' /\ Newest(b0)'
<1>1. UNCHANGED <<mboxB, fsmB, poolB, timerB, dueB, lineB, phyB, macRevB, slots, given>>
  BY DEF boardB
<1>2. Owns' /\ InTurn' /\ Newest(b0)'
  BY <1>1, Settled
<1>. QED  BY <1>1, <1>2 DEF Receives, Lower

LEMMA StayUpstream ==
  ASSUME IInv, Agenda, UNCHANGED <<boardA, late, size>>, NEW b, Upper(b)
  PROVE  IInv' /\ Agenda' /\ Upper(b)'
<1>1. UNCHANGED <<mbox, fsm, pool, timer, due, line, fatal, phy, macSend, pduFifo, macRev, late, size>>
  BY DEF boardA, baseVars, macVars
<1>2. IInv'
  BY <1>1, FatalKeeps
<1>. QED  BY <1>1, <1>2 DEF Agenda, Upper

LEMMA StepAUpper ==
  ASSUME IInv, Agenda, NEW b \in SeqNo, Upper(b), StepA
  PROVE  IInv' /\ Agenda' /\ Upper(b)'
<1>0. UNCHANGED size
  BY DEF StepA
<1>1. CASE PhyStep
  BY <1>0, <1>1, PhyIInv, PhyUpper
<1>2. CASE MacStep
  BY <1>0, <1>2, MacIInv, MacUpper
<1>3. CASE (LinkSendMsg \/ LinkSendDone \/ LinkSendErr) /\ UNCHANGED <<phy, macVars, late>>
  <2>1. LinkStep
    BY <1>3 DEF LinkStep, LinkNext
  <2>2. UNCHANGED <<phy, macSend, pduFifo, size>>
    BY <1>0, <1>3 DEF macVars
  <2>. QED  BY <1>3, <2>1, <2>2, LinkIInv, LinkUpper
<1>. QED  BY <1>1, <1>2, <1>3 DEF StepA, IsTold

LEMMA PairNextInv ==
  ASSUME PairInv, [PairNext]_pairVars
  PROVE  PairInv'
<1>a. IInv /\ Agenda /\ Receives /\ Owns /\ InTurn
  BY DEF PairInv
<1>b. PICK b0 \in SeqNo : \E b1, b2 \in SeqNo : Upper(b2) /\ Lower(b0, b1, b2) /\ Newest(b0)
  BY DEF PairInv, Passing
<1>c. PICK b1 \in SeqNo : \E b2 \in SeqNo : Upper(b2) /\ Lower(b0, b1, b2) /\ Newest(b0)
  BY <1>b
<1>d. PICK b2 \in SeqNo : Upper(b2) /\ Lower(b0, b1, b2) /\ Newest(b0)
  BY <1>c
<1> DEFINE Goal == /\ IInv' /\ Agenda' /\ Receives' /\ Owns' /\ InTurn'
                   /\ \E c0, c1, c2 \in SeqNo : Upper(c2)' /\ Lower(c0, c1, c2)' /\ Newest(c0)'
<1> SUFFICES Goal
  BY DEF PairInv, Passing
<1>1. ASSUME IInv' /\ Agenda' /\ Upper(b2)', UNCHANGED <<boardB, slots, given>>
      PROVE  Goal
  <2>1. Receives' /\ Owns' /\ InTurn' /\ Lower(b0, b1, b2)' /\ Newest(b0)'
    BY <1>1, <1>a, <1>d, StayLower
  <2>. QED  BY <1>1, <2>1
<1>2. CASE Sends
  <2>1. IInv' /\ Agenda' /\ Upper(b2)'
    BY <1>2, <1>a, <1>d, SendsUpper
  <2>2. UNCHANGED <<boardB, slots, given>>
    BY <1>2 DEF Sends
  <2>. QED  BY <1>1, <2>1, <2>2
<1>3. CASE StepA
  <2>1. IInv' /\ Agenda' /\ Upper(b2)'
    BY <1>3, <1>a, <1>d, StepAUpper
  <2>2. UNCHANGED <<boardB, slots, given>>
    BY <1>3 DEF StepA
  <2>. QED  BY <1>1, <2>1, <2>2
<1>4. CASE StepB
  <2>1. UNCHANGED <<boardA, late, size>>
    BY <1>4 DEF StepB, B!PhyStep, B!MacStep, B!LinkStep
  <2>2. IInv' /\ Agenda' /\ Upper(b2)'
    BY <1>a, <1>d, <2>1, StayUpstream
  <2>3. /\ Receives' /\ Owns' /\ InTurn'
        /\ \E c0, c1 \in SeqNo : Lower(c0, c1, b2)' /\ Newest(c0)'
    BY <1>4, <1>a, <1>d, StepBLower
  <2>. QED  BY <2>2, <2>3
<1>5. CASE Carry
  <2>0. UNCHANGED <<late, size, slots, given>>
    BY <1>5 DEF Carry
  <2>1. CASE CarryToB
    <3>1. UNCHANGED <<mbox, fsm, pool, timer, due, phy, macSend, pduFifo, macRev, late, size>>
      BY <2>0, <2>1 DEF CarryToB, macVars
    <3>2. /\ Receives' /\ Owns' /\ InTurn' /\ Newest(b0)'
          /\ \E c2 \in SeqNo : Upper(c2)' /\ Lower(b0, b1, c2)'
      BY <1>a, <1>d, <2>0, <2>1, CarryToBPasses
    <3>3. line # <<>> /\ line' = Tail(line)
      BY <2>1 DEF CarryToB
    <3>4. line' \in Seq(PhyFrame) /\ Len(line') <= LineMax
      <4>1. line \in Seq(PhyFrame) /\ Len(line) <= LineMax
        BY <1>a DEF IInv, Types, TypeOK
      <4>2. line' \in Seq(PhyFrame) /\ Len(line') = Len(line) - 1 /\ Len(line) \in Nat
        BY <3>3, <4>1
      <4>. QED  BY <4>1, <4>2, BoundsAreNat
    <3>5. IInv'
      BY <1>a, <3>1, <3>4 DEF IInv, Types, TypeOK, Boxes, Unsent, Handshake, Inits, InOrder, Dormant, Armed
    <3>6. Agenda'
      BY <1>a, <3>1 DEF Agenda
    <3>. QED  BY <3>2, <3>5, <3>6
  <2>2. CASE CarryToA
    <3>1. IInv' /\ Agenda' /\ Upper(b2)' /\ Receives'
      BY <1>a, <1>d, <2>0, <2>2, CarryToAPasses
    <3>2. mboxB' = mboxB /\ UNCHANGED <<poolB, macRevB, slots, given>>
      BY <2>0, <2>2 DEF CarryToA
    <3>3. Owns' /\ InTurn' /\ Newest(b0)'
      BY <1>a, <1>d, <3>2, Settled
    <3>4. Lower(b0, b1, b2)'
      BY <1>d, <3>2 DEF Lower
    <3>. QED  BY <3>1, <3>3, <3>4
  <2>. QED  BY <1>5, <2>1, <2>2 DEF Carry
<1>6. CASE PairTick
  <2>1. /\ IInv' /\ Agenda' /\ Receives' /\ Owns' /\ InTurn'
        /\ Upper(b2)' /\ Lower(b0, b1, b2)' /\ Newest(b0)'
    BY <1>6, <1>a, <1>d, PairTickPasses
  <2>. QED  BY <2>1
<1>7. CASE PairExpire
  <2>0. UNCHANGED <<size, slots, given>>
    BY <1>7 DEF PairExpire
  <2>1. ASSUME NEW k \in TimerKey, Expire(k), UNCHANGED boardB
        PROVE  Goal
    <3>1. IInv' /\ Agenda' /\ Upper(b2)'
      BY <1>a, <1>d, <2>0, <2>1, ExpireUpper
    <3>. QED  BY <1>1, <2>0, <2>1, <3>1
  <2>2. ASSUME NEW k \in TimerKey, B!Expire(k), UNCHANGED boardA
        PROVE  Goal
    <3>1. Receives' /\ Owns' /\ InTurn' /\ Lower(b0, b1, b2)' /\ Newest(b0)'
      BY <1>a, <1>d, <2>0, <2>2, ExpireBLower
    <3>2. UNCHANGED <<boardA, late, size>>
      BY <2>0, <2>2 DEF B!Expire
    <3>3. IInv' /\ Agenda' /\ Upper(b2)'
      BY <1>a, <1>d, <3>2, StayUpstream
    <3>. QED  BY <3>1, <3>3
  <2> HIDE DEF Goal
  <2>. QED  BY <1>7, <2>1, <2>2 DEF PairExpire, ExpireA, ExpireB
<1>8. CASE UNCHANGED pairVars
  <2>1. UNCHANGED <<boardA, late, size>> /\ UNCHANGED <<boardB, slots, given>>
    BY <1>8 DEF pairVars
  <2>2. IInv' /\ Agenda' /\ Upper(b2)'
    BY <1>a, <1>d, <2>1, StayUpstream
  <2>. QED  BY <1>1, <2>1, <2>2
<1> HIDE DEF Goal
<1>. QED  BY <1>2, <1>3, <1>4, <1>5, <1>6, <1>7, <1>8 DEF PairNext

(* No PDU is given to the LINK task of B twice, and none before an earlier one: for
   every number of PDUs and of faults of the line and every start of the receiver,
   as long as no sequence number comes round again.                              *)
THEOREM PairInOrderOnce == PairSpec => []InOrderOnce
<1>1. PairInit => PairInv
  BY PairInitInv
<1>2. PairInv /\ [PairNext]_pairVars => PairInv'
  BY PairNextInv
<1>3. PairInv => InOrderOnce
  <2>1. PairInv => DOMAIN given = 1..Len(given)
    BY DEF PairInv, Receives
  <2>. QED  BY <2>1 DEF PairInv, InTurn, Before, InOrderOnce
<1>. QED  BY <1>1, <1>2, <1>3, PTL DEF PairSpec

-----------------------------------------------------------------------------
(* Nothing is written into a PDU of B but frames of one and the same PDU of A. *)
OfOne(F) == \A f, g \in F : f.seq = g.seq
Alike == (\A p \in Pdu : OfOne(slots[p])) /\ \A i \in 1..Len(given) : OfOne(given[i])

LEMMA MacAlike ==
  ASSUME PairInv, Alike, SlotsFollow, UNCHANGED given
  PROVE  Alike'
<1>1. Receives /\ Owns
  BY DEF PairInv
<1>2. PICK b \in SeqNo : Newest(b)
  BY DEF PairInv, Passing
<1>3. ASSUME NEW p \in Pdu, Writes(p) PROVE OfOne(slots[p] \cup {Heard})
  <2>1. CASE poolB[p] = 0
    BY <1>1, <2>1 DEF Owns, OfOne
  <2>2. CASE macRevB.pdu = p /\ macRevB.seq = Heard.seq
    <3>1. macRevB.state = "RECEIVING"
      BY <1>1, <2>2, BFrames, NoneIsNoPdu
    <3>2. \A f \in slots[p] : f.seq = Heard.seq
      BY <1>2, <2>2, <3>1 DEF Newest
    <3>. QED  BY <3>2 DEF OfOne
  <2>. QED  BY <1>3, <2>1, <2>2 DEF Writes
<1>4. \A p \in Pdu : slots'[p] \in {{}, slots[p]} \/ (Writes(p) /\ slots'[p] = slots[p] \cup {Heard})
  BY DEF SlotsFollow
<1>5. \A p \in Pdu : OfOne(slots'[p])
  BY <1>3, <1>4 DEF Alike, OfOne
<1>. QED  BY <1>5 DEF Alike, OfOne

LEMMA LinkAlike ==
  ASSUME PairInv, Alike, B!LinkStep,
         given' = Append(given, slots[B!LinkMsg.pdu]),
         slots' = [slots EXCEPT ![B!LinkMsg.pdu] = {}]
  PROVE  Alike'
<1>1. Receives /\ mboxB["LINK"] \in Seq(RevMsgs) /\ slots \in [Pdu -> SUBSET AnyFrame]
      /\ given \in Seq(SUBSET AnyFrame)
  BY DEF PairInv, Receives
<1>2. B!LinkMsg.pdu \in Pdu
  <2>1. mboxB["LINK"] # <<>>
    BY DEF B!LinkStep, B!LinkNext, B!LinkInit, B!LinkStart, B!LinkDrop, B!LinkSendMsg, B!LinkSendDone,
           B!LinkSendErr, B!LinkRevMsg, B!Drop, B!LinkHandling, B!Handling
  <2>2. Head(mboxB["LINK"]) \in RevMsgs
    BY <1>1, <2>1
  <2>. QED  BY <2>2, BFields DEF B!LinkMsg
<1>h. PICK p \in Pdu : p = B!LinkMsg.pdu
  BY <1>2
<1>3. \A u \in Pdu : slots'[u] \in {{}, slots[u]}
  BY <1>1, <1>h
<1>4. \A u \in Pdu : OfOne(slots'[u])
  BY <1>3 DEF Alike, OfOne
<1>5. /\ \A i \in 1..Len(given') : i \in 1..Len(given) \/ i = Len(given) + 1
      /\ \A i \in 1..Len(given) : given'[i] = given[i]
      /\ given'[Len(given) + 1] = slots[p]
  <2>1. slots[p] \in SUBSET AnyFrame /\ given' = Append(given, slots[p])
    BY <1>1, <1>h
  <2>. QED  BY <1>1, <2>1
<1>6. \A i \in 1..Len(given') : OfOne(given'[i])
  BY <1>5 DEF Alike
<1>. QED  BY <1>4, <1>6 DEF Alike, OfOne

LEMMA NextAlike ==
  ASSUME PairInv, Alike, [PairNext]_pairVars
  PROVE  Alike'
<1>1. CASE StepB
  <2>1. CASE UNCHANGED <<slots, given>>
    BY <2>1 DEF Alike, OfOne
  <2>. QED  BY <1>1, <2>1, MacAlike, LinkAlike DEF StepB, SlotsFollow
<1>2. CASE UNCHANGED <<slots, given>>
  BY <1>2 DEF Alike, OfOne
<1>3. [PairNext]_pairVars /\ ~StepB => UNCHANGED <<slots, given>>
  BY DEF PairNext, pairVars, Sends, StepA, Carry, PairTick, PairExpire
<1>. QED  BY <1>1, <1>2, <1>3

(* No PDU that the LINK task of B is given is mixed from two, whatever the line
   does and however many faults it has: the part of Whole that needs no limit.  *)
Unmixed == \A i \in DOMAIN given : \A f, g \in given[i] : f.seq = g.seq

THEOREM PairUnmixed == PairSpec => []Unmixed
<1>1. PairInit => PairInv /\ Alike
  BY PairInitInv DEF PairInit, Alike, OfOne
<1>2. PairInv /\ Alike /\ [PairNext]_pairVars => PairInv' /\ Alike'
  BY PairNextInv, NextAlike
<1>3. PairInv /\ Alike => Unmixed
  <2>1. PairInv => DOMAIN given = 1..Len(given)
    BY DEF PairInv, Receives
  <2>. QED  BY <2>1 DEF Alike, OfOne, Unmixed
<1>. QED  BY <1>1, <1>2, <1>3, PTL DEF PairSpec

-----------------------------------------------------------------------------
(* What is on its way, by kind.  A request that waits to be answered, an answer
   that says yes, an answer that says no, and what arrived broken.          *)
Broken == {m \in WireMsgs : m.sig = "FRAME_REV_CS_ERR"}
Asks == {m \in WireMsgs : m.sig = "FRAME_REV" /\ m.frame.type = "REQ"}
Grants == {m \in WireMsgs : m.sig = "FRAME_REV" /\ m.frame.type = "ACK"}
Refusals == {m \in WireMsgs : m.sig = "FRAME_REV" /\ m.frame.type = "NACK"}
OfType(type) == {f \in PhyFrame : f.type = type}
Current(M) == {m \in M : m.frame.seq = phy.seq}
CurrentOf(type) == {f \in OfType(type) : f.seq = phy.seq}

(* Board B only answers, and board A receives no frame. *)
Answers ==
  /\ \A i \in 1..Len(lineB) : lineB[i].type # "REQ"
  /\ \A i \in 1..Len(mbox["LINK_PHY"]) : mbox["LINK_PHY"][i] \notin Asks
  /\ Cnt(mbox["LINK_MAC"], {"FRAME_REV", "FRAME_REV_TO"}) = 0
  /\ macRev.state = "IDLE" /\ timer[MacRevTo] = 0 /\ MacRevTo \notin due

(* The timeout of B comes when it has nothing else to do. *)
Punctual ==
  /\ dueB # {} => mboxB["LINK_MAC"] = <<>> /\ mboxB["LINK_PHY"] = <<>>
  /\ \A i \in 1..Len(mboxB["LINK_MAC"]) : mboxB["LINK_MAC"][i].sig = "FRAME_REV_TO" => i = 1

(* A frame waits for its answer; the timer has run out and its timeout is about to
   be handled.                                                              *)
Sending == phy.send = "SENDING"
TimedOut == Sending /\ timer[PhySendTo] = 0

(* No more frames are on their way than one and the faults that made others be
   sent: that is why the buffers of the line do not overflow.               *)
Flying == Len(line) + Len(lineB) + Len(mboxB["LINK_PHY"]) + Occ(mbox["LINK_PHY"], WireMsgs)
Room == Flying + One(TimedOut) <= faults + One(Sending)

(* The ledger.  Each frame that was given up cost a fault per attempt; the frame
   that is being sent, one per attempt that failed, or is bound to fail: no
   request or good answer of it is left (Hope).  A refusal that nobody waits
   for any more (Negative) is a fault that has not yet been paid with.      *)
Negative == Occ(mboxB["LINK_PHY"], Broken) + Occ(lineB, OfType("NACK"))
            + Occ(mbox["LINK_PHY"], Refusals)
Hope == Occ(line, CurrentOf("REQ")) + Occ(mboxB["LINK_PHY"], Current(Asks))
        + Occ(lineB, CurrentOf("ACK")) + Occ(mbox["LINK_PHY"], Current(Grants))
Cost == IF Hope = 0 /\ Negative = 0 THEN 1 ELSE Negative
Owed == IF ~Sending THEN Negative
        ELSE IF TimedOut THEN phy.retry + 1 + Negative
        ELSE phy.retry + Cost
Paid(G) == (MaxRetry + 1) * G + Owed <= faults
(* The faults that give two frames up.  The theorem is about a line whose buffer
   holds the frames that so many faults keep on it, and numbers that do not come
   round among them; in the code 6 faults, 64 frames and 256 numbers.      *)
Enough == 2 * (MaxRetry + 1)
Fits == LineMax > Enough /\ PhySeqMod > 3

(* How many frames ago a number was given.  Along the way from A to B and back the
   frames get older, and none is older than the frames given up.            *)
Age(q) == IF q <= phy.seq THEN phy.seq - q ELSE phy.seq - q + PhySeqMod
Ages(M) == [m \in M |-> Age(m.frame.seq)]
AgesOf(type) == [f \in OfType(type) |-> Age(f.seq)]
Down(key, s, lo, hi) ==
  /\ lo <= hi
  /\ \A i \in 1..Len(s) : s[i] \in DOMAIN key => key[s[i]] \in lo..hi
  /\ \A i, j \in 1..Len(s) :
       i < j /\ s[i] \in DOMAIN key /\ s[j] \in DOMAIN key => key[s[j]] <= key[s[i]]
Window(a1, a2, a3, w) ==
  /\ Down(Ages(Grants), mbox["LINK_PHY"], a1, w)
  /\ Down(AgesOf("ACK"), lineB, a2, a1)
  /\ Down(Ages(Asks), mboxB["LINK_PHY"], a3, a2)
  /\ Down(AgesOf("REQ"), line, 0, a3)
Windowed(G) == \E a1, a2, a3 \in Nat : Window(a1, a2, a3, G + One(Sending))
(* What bears the number of the frame being sent carries that frame. *)
Carries ==
  /\ \A i \in 1..Len(line) : line[i] \in CurrentOf("REQ") => line[i].mac = phy.frame
  /\ \A i \in 1..Len(mboxB["LINK_PHY"]) :
       mboxB["LINK_PHY"][i] \in Current(Asks) => mboxB["LINK_PHY"][i].frame.mac = phy.frame

(* G frames were given up. *)
Account(G) == Paid(G) /\ Windowed(G)
-----------------------------------------------------------------------------
(* What a step of the PHY layer of A does with the message at the head. *)
PhyMsg == Head(mbox["LINK_PHY"])
Transmits ==
  /\ phy'.send = "SENDING" /\ line' = Written(Request(phy'))
  /\ timer' = [timer EXCEPT ![PhySendTo] = PhyTo] /\ mbox'["LINK_MAC"] = mbox["LINK_MAC"]
PhyBegins ==
  /\ PhyMsg.sig = "FRAME_SEND_REQ" /\ ~Sending /\ Holds
  /\ phy' = [send |-> "SENDING", retry |-> 0, seq |-> (phy.seq + 1) % PhySeqMod, frame |-> PhyMsg.frame]
  /\ Transmits
Refused == PhyMsg \in Current(Refusals) /\ Sending
Granted == PhyMsg \in Current(Grants) /\ Sending
PhyAgain ==
  /\ \/ PhyMsg.sig = "FRAME_SEND_TO" /\ TimedOut /\ phy.retry < MaxRetry
     \/ Refused /\ phy.retry <= MaxRetry
  /\ phy' = [phy EXCEPT !.retry = @ + 1] /\ Transmits
PhyAnswered(sig) ==
  /\ phy'.send = "IDLE" /\ phy'.seq = phy.seq /\ phy'.frame = phy.frame
  /\ timer' = [timer EXCEPT ![PhySendTo] = 0]
  /\ UNCHANGED line /\ mbox'["LINK_MAC"] = Append(mbox["LINK_MAC"], [sig |-> sig])
PhyFails ==
  /\ \/ PhyMsg.sig = "FRAME_SEND_TO" /\ TimedOut /\ phy.retry >= MaxRetry
     \/ Refused /\ phy.retry > MaxRetry
  /\ PhyAnswered("FRAME_SEND_ERR")
PhySucceeds == Granted /\ PhyAnswered("FRAME_SEND_DONE")
PhyPasses ==
  /\ PhyMsg \in Grants \cup Refusals /\ ~Refused /\ ~Granted
  /\ UNCHANGED <<phy, timer, line>> /\ mbox'["LINK_MAC"] = mbox["LINK_MAC"]
PhyObjects ==
  /\ PhyMsg \in Broken /\ line' = Written(Answer("NACK", PhyMsg.frame.seq))
  /\ UNCHANGED <<phy, timer>> /\ mbox'["LINK_MAC"] = mbox["LINK_MAC"]

LEMMA PhyMsgKinds ==
  ASSUME NEW m \in PhyMsgs
  PROVE  /\ m.sig \in {"FRAME_REV", "FRAME_REV_CS_ERR"} => m \in WireMsgs /\ m.frame \in PhyFrame
         /\ m.sig = "FRAME_REV_CS_ERR" => m \in Broken
         /\ m.sig = "FRAME_REV" => m \in Asks \cup Grants \cup Refusals
         /\ m.sig = "FRAME_REV" /\ m.frame.type = "REQ" => m \in Asks
         /\ m.sig = "FRAME_REV" /\ m.frame.type = "ACK" => m \in Grants
         /\ m.sig = "FRAME_REV" /\ m.frame.type = "NACK" => m \in Refusals
         /\ m \in WireMsgs => m.sig \in {"FRAME_REV", "FRAME_REV_CS_ERR"}
<1>1. m.sig \in {"FRAME_REV", "FRAME_REV_CS_ERR"} => m \in WireMsgs /\ m.frame \in PhyFrame
  BY DEF PhyMsgs, WireMsgs
<1>2. m.frame \in PhyFrame => m.frame.type \in {"REQ", "ACK", "NACK"}
  BY DEF PhyFrame
<1>3. m \in WireMsgs => m.sig \in {"FRAME_REV", "FRAME_REV_CS_ERR"}
  BY DEF WireMsgs
<1>. QED  BY <1>1, <1>2, <1>3 DEF Broken, Asks, Grants, Refusals

LEMMA PhyEffect ==
  ASSUME IInv, Safe, Agenda, Answers, PhyStep
  PROVE  /\ mbox["LINK_PHY"] # <<>> /\ PhyMsg \in PhyMsgs
         /\ mbox'["LINK_PHY"] = Tail(mbox["LINK_PHY"]) /\ mbox'["LINK"] = mbox["LINK"]
         /\ PhySendTo \notin due
         /\ UNCHANGED <<fsm, pool, due, fatal, macSend, pduFifo, macRev, late>>
         /\ PhyBegins \/ PhyAgain \/ PhyFails \/ PhySucceeds \/ PhyPasses \/ PhyObjects
<1> DEFINE box == mbox["LINK_PHY"]
           Moves == /\ box # <<>> /\ PhyMsg \in PhyMsgs /\ mbox'["LINK_PHY"] = Tail(box)
                    /\ mbox'["LINK"] = mbox["LINK"]
           Does == PhyBegins \/ PhyAgain \/ PhyFails \/ PhySucceeds \/ PhyPasses \/ PhyObjects
           Keeps == UNCHANGED <<fsm, pool, due, fatal, macSend, pduFifo, macRev, late>>
<1>a. /\ phy \in PhyState /\ phy.retry \in Counter /\ box \in Seq(AllMsgs) /\ Boxes
      /\ phy.send \in {"IDLE", "SENDING"} /\ timer \in [TimerKey -> 0..MacTo]
  BY Upstream, Tasks DEF PhyState, IInv, Types, TypeOK
<1>b. UNCHANGED <<macSend, pduFifo, macRev, late>>
  BY DEF PhyStep, macVars
<1>c. fsm["LINK_PHY"] = "handle"
  BY Tasks DEF Agenda
<1>d. MaxRetry \in Nat /\ MaxRetry <= 254
  BY LeftFacts
<1>f. phy.retry \in Nat /\ phy.retry <= 255
  <2>1. phy.retry \in Counter
    BY <1>a
  <2>. QED  BY <2>1 DEF Counter
<1>e. box # <<>> /\ PhySendTo \notin due
  <2>1. box # <<>>
    BY DEF PhyStep, PhyNext, PhyStart, PhyDrop, Drop, PhySendReq, PhySendTimeout, PhyRevReq, PhyRevAck,
           PhyRevNack, PhyRevStale, PhyRevChecksumError, IsAnswer, PhyHandling, Handling
  <2>. QED  BY <2>1 DEF Safe, PhyTimer
<1>1. ASSUME NEW sig, PhyHandling(sig), sig \notin Openers, fsm' = fsm, Finish("LINK_PHY", NoPost)
      PROVE  Moves /\ PhyMsg.sig = sig /\ mbox'["LINK_MAC"] = mbox["LINK_MAC"]
  <2>1. /\ mbox'["LINK"] = mbox["LINK"] /\ mbox'["LINK_MAC"] = mbox["LINK_MAC"]
        /\ mbox'["LINK_PHY"] = Tail(box)
    BY <1>1, PhyFinishes
  <2>2. box # <<>> /\ Head(box).sig = sig
    BY <1>1 DEF PhyHandling, Handling
  <2>3. Head(box) \in PhyMsgs
    BY <1>a, <2>2, HeadIsMsg, Tasks
  <2>. QED  BY <2>1, <2>2, <2>3 DEF PhyMsg
<1>2. ASSUME NEW sig, PhyHandling(sig), sig \notin Openers, fsm' = fsm,
             NEW res \in {"FRAME_SEND_DONE", "FRAME_SEND_ERR"},
             Finish("LINK_PHY", Post("LINK_MAC", [sig |-> res]))
      PROVE  /\ Moves /\ PhyMsg.sig = sig
             /\ mbox'["LINK_MAC"] = Append(mbox["LINK_MAC"], [sig |-> res])
  <2>0. [sig |-> res] \in MacMsgs /\ [sig |-> res].sig \notin Openers
    BY <1>2, Posted DEF Openers
  <2>1. /\ mbox'["LINK"] = mbox["LINK"] /\ mbox'["LINK_PHY"] = Tail(box)
        /\ mbox'["LINK_MAC"] = Append(mbox["LINK_MAC"], [sig |-> res])
    BY <1>2, <2>0, PhyTells
  <2>2. box # <<>> /\ Head(box).sig = sig
    BY <1>2 DEF PhyHandling, Handling
  <2>3. Head(box) \in PhyMsgs
    BY <1>a, <2>2, HeadIsMsg, Tasks
  <2>. QED  BY <2>1, <2>2, <2>3 DEF PhyMsg
<1>3. CASE PhyStart
  BY <1>3, <1>c DEF PhyStart, Handling
<1>4. CASE PhyDrop
  BY <1>4, <1>c DEF PhyDrop, Drop
<1>5. CASE PhySendReq
  <2>0. PhyHandling("FRAME_SEND_REQ") /\ "FRAME_SEND_REQ" \notin Openers
    BY <1>5 DEF PhySendReq, Openers
  <2>1. phy.send = "IDLE" /\ Holds
    BY <2>0, PhyAsked
  <2> DEFINE p == [send |-> "SENDING", retry |-> 0, seq |-> (phy.seq + 1) % PhySeqMod,
                   frame |-> Head(box).frame]
  <2>2. /\ Finish("LINK_PHY", NoPost) /\ phy' = p /\ line' = Written(Request(p))
        /\ timer' = [timer EXCEPT ![PhySendTo] = PhyTo]
        /\ UNCHANGED <<fsm, pool, due, fatal>>
    BY <1>5, <2>1 DEF PhySendReq, link_phy_frame_send, timer_set
  <2>3. Moves /\ PhyMsg.sig = "FRAME_SEND_REQ" /\ mbox'["LINK_MAC"] = mbox["LINK_MAC"]
    BY <1>1, <2>0, <2>2
  <2>4. PhyBegins
    BY <2>1, <2>2, <2>3 DEF PhyBegins, Transmits, PhyMsg, Sending
  <2>. QED  BY <1>b, <1>e, <2>2, <2>3, <2>4
<1>r. ASSUME phy.retry <= MaxRetry
      PROVE  [phy EXCEPT !.retry = Increment(@)] = [phy EXCEPT !.retry = @ + 1]
  <2>1. Increment(phy.retry) = phy.retry + 1
    BY <1>d, <1>f, <1>r DEF Increment
  <2>. QED  BY <2>1
<1>g. ASSUME NEW sig, PhyHandling(sig), sig \notin Openers, fsm' = fsm,
             GiveUp([phy EXCEPT !.retry = Increment(@)]), UNCHANGED line,
             timer' = [timer EXCEPT ![PhySendTo] = 0]
      PROVE  Moves /\ PhyMsg.sig = sig /\ PhyAnswered("FRAME_SEND_ERR")
  <2>1. /\ Finish("LINK_PHY", Post("LINK_MAC", [sig |-> "FRAME_SEND_ERR"]))
        /\ phy'.send = "IDLE" /\ phy'.seq = phy.seq /\ phy'.frame = phy.frame
    BY <1>a, <1>g DEF GiveUp, PhyState
  <2>2. /\ Moves /\ PhyMsg.sig = sig
        /\ mbox'["LINK_MAC"] = Append(mbox["LINK_MAC"], [sig |-> "FRAME_SEND_ERR"])
    BY <1>2, <1>g, <2>1
  <2>. QED  BY <1>g, <2>1, <2>2 DEF PhyAnswered
<1>s. ASSUME NEW sig, PhyHandling(sig), sig \notin Openers, fsm' = fsm, phy.send = "SENDING",
             link_phy_frame_send([phy EXCEPT !.retry = Increment(@)]), Finish("LINK_PHY", NoPost),
             phy.retry <= MaxRetry
      PROVE  Moves /\ PhyMsg.sig = sig /\ Transmits /\ phy' = [phy EXCEPT !.retry = @ + 1]
  <2> DEFINE p == [phy EXCEPT !.retry = Increment(@)]
  <2>1. p.send = "SENDING"
    BY <1>a, <1>s DEF PhyState
  <2>2. phy' = p /\ line' = Written(Request(p)) /\ timer' = [timer EXCEPT ![PhySendTo] = PhyTo]
    BY <1>s, <2>1 DEF link_phy_frame_send, timer_set
  <2>3. Moves /\ PhyMsg.sig = sig /\ mbox'["LINK_MAC"] = mbox["LINK_MAC"]
    BY <1>1, <1>s
  <2>. QED  BY <1>r, <1>s, <2>1, <2>2, <2>3 DEF Transmits
<1>6. CASE PhySendTimeout
  <2> DEFINE counted == [phy EXCEPT !.retry = Increment(@)]
  <2>0. PhyHandling("FRAME_SEND_TO") /\ "FRAME_SEND_TO" \notin Openers /\ UNCHANGED <<fsm, pool, due, fatal>>
    BY <1>6 DEF PhySendTimeout, Openers
  <2>1. phy.send = "SENDING" /\ timer[PhySendTo] = 0
    BY <2>0, TimeoutInTime
  <2>2. CASE phy.retry >= MaxRetry /\ GiveUp(counted) /\ UNCHANGED <<line, timer>>
    <3>1. timer' = [timer EXCEPT ![PhySendTo] = 0]
      BY <1>a, <2>1, <2>2
    <3>2. Moves /\ PhyMsg.sig = "FRAME_SEND_TO" /\ PhyAnswered("FRAME_SEND_ERR")
      BY <1>g, <2>0, <2>2, <3>1
    <3>. QED  BY <1>b, <1>e, <2>0, <2>1, <2>2, <3>2 DEF PhyFails, TimedOut, Sending
  <2>3. CASE phy.retry < MaxRetry /\ link_phy_frame_send(counted) /\ Finish("LINK_PHY", NoPost)
    <3>0. phy.retry <= MaxRetry
      BY <1>d, <1>f, <2>3
    <3>1. Moves /\ PhyMsg.sig = "FRAME_SEND_TO" /\ Transmits /\ phy' = [phy EXCEPT !.retry = @ + 1]
      BY <1>s, <2>0, <2>1, <2>3, <3>0
    <3>. QED  BY <1>b, <1>e, <2>0, <2>1, <2>3, <3>1 DEF PhyAgain, TimedOut, Sending
  <2>. QED  BY <1>6, <2>2, <2>3 DEF PhySendTimeout
<1>7. ASSUME PhyHandling("FRAME_REV")
      PROVE  /\ "FRAME_REV" \notin Openers /\ PhyMsg \in Grants \cup Refusals /\ Received = PhyMsg.frame
             /\ PhyMsg \in Refusals <=> Received.type = "NACK"
             /\ PhyMsg \in Grants <=> Received.type = "ACK"
  <2>1. box # <<>> /\ Head(box).sig = "FRAME_REV"
    BY <1>7 DEF PhyHandling, Handling
  <2>2. PhyMsg \in PhyMsgs
    BY <1>a, <2>1, HeadIsMsg, Tasks DEF PhyMsg
  <2>3. PhyMsg \notin Asks
    <3>1. Head(box) = box[1] /\ 1 \in 1..Len(box)
      BY <1>a, <2>1
    <3>. QED  BY <3>1 DEF Answers, PhyMsg
  <2>4. PhyMsg \in Grants \cup Refusals
    BY <2>1, <2>2, <2>3, PhyMsgKinds DEF PhyMsg
  <2>. QED  BY <2>4 DEF PhyMsg, Received, Openers, Grants, Refusals
<1>8. CASE PhyRevReq
  <2>1. PhyHandling("FRAME_REV") /\ Received.type = "REQ"
    BY <1>8 DEF PhyRevReq
  <2>. QED  BY <1>7, <2>1 DEF Grants, Refusals
<1>9. CASE PhyRevAck
  <2>1. /\ PhyHandling("FRAME_REV") /\ phy' = [phy EXCEPT !.send = "IDLE"]
        /\ Received.type = "ACK" /\ phy.send = "SENDING" /\ phy.seq = Received.seq
        /\ Finish("LINK_PHY", Post("LINK_MAC", [sig |-> "FRAME_SEND_DONE"]))
        /\ timer' = [timer EXCEPT ![PhySendTo] = 0] /\ UNCHANGED <<fsm, pool, due, line, fatal>>
    BY <1>9 DEF PhyRevAck, IsAnswer, timer_remove_attr
  <2>2. phy'.send = "IDLE" /\ phy'.seq = phy.seq /\ phy'.frame = phy.frame
    BY <1>a, <2>1 DEF PhyState
  <2>3. /\ Moves /\ mbox'["LINK_MAC"] = Append(mbox["LINK_MAC"], [sig |-> "FRAME_SEND_DONE"])
    BY <1>2, <1>7, <2>1
  <2>4. PhySucceeds
    BY <1>7, <2>1, <2>2, <2>3 DEF PhySucceeds, PhyAnswered, Granted, Current, Sending
  <2>. QED  BY <1>b, <1>e, <2>1, <2>3, <2>4
<1>10. CASE PhyRevNack
  <2> DEFINE counted == [phy EXCEPT !.retry = Increment(@)]
  <2>0. /\ PhyHandling("FRAME_REV") /\ UNCHANGED <<fsm, pool, due, fatal>>
        /\ Received.type = "NACK" /\ phy.send = "SENDING" /\ phy.seq = Received.seq
    BY <1>10 DEF PhyRevNack, IsAnswer
  <2>a. Refused /\ "FRAME_REV" \notin Openers
    BY <1>7, <2>0 DEF Refused, Current, Sending
  <2>1. CASE phy.retry > MaxRetry /\ timer_remove_attr(PhySendTo) /\ GiveUp(counted) /\ UNCHANGED line
    <3>1. timer' = [timer EXCEPT ![PhySendTo] = 0]
      BY <2>1 DEF timer_remove_attr
    <3>2. Moves /\ PhyAnswered("FRAME_SEND_ERR")
      BY <1>g, <2>0, <2>a, <2>1, <3>1
    <3>. QED  BY <1>b, <1>e, <2>0, <2>a, <2>1, <3>2 DEF PhyFails
  <2>2. CASE phy.retry <= MaxRetry /\ link_phy_frame_send(counted) /\ Finish("LINK_PHY", NoPost)
    <3>1. Moves /\ Transmits /\ phy' = [phy EXCEPT !.retry = @ + 1]
      BY <1>s, <2>0, <2>a, <2>2
    <3>. QED  BY <1>b, <1>e, <2>0, <2>a, <2>2, <3>1 DEF PhyAgain
  <2>. QED  BY <1>10, <2>1, <2>2 DEF PhyRevNack
<1>11. CASE PhyRevStale
  <2>1. /\ PhyHandling("FRAME_REV") /\ Finish("LINK_PHY", NoPost)
        /\ ~(phy.send = "SENDING" /\ phy.seq = Received.seq)
        /\ UNCHANGED <<fsm, pool, timer, due, line, fatal, phy>>
    BY <1>11 DEF PhyRevStale
  <2>2. Moves /\ mbox'["LINK_MAC"] = mbox["LINK_MAC"]
    BY <1>1, <1>7, <2>1
  <2>3. PhyPasses
    BY <1>7, <2>1, <2>2 DEF PhyPasses, Refused, Granted, Current, Sending
  <2>. QED  BY <1>b, <1>e, <2>1, <2>2, <2>3
<1>12. CASE PhyRevChecksumError
  <2>1. /\ PhyHandling("FRAME_REV_CS_ERR") /\ Finish("LINK_PHY", NoPost)
        /\ line' = Written(Answer("NACK", Received.seq))
        /\ UNCHANGED <<fsm, pool, timer, due, fatal, phy>>
    BY <1>12 DEF PhyRevChecksumError
  <2>2. Moves /\ PhyMsg.sig = "FRAME_REV_CS_ERR" /\ mbox'["LINK_MAC"] = mbox["LINK_MAC"]
    <3>1. "FRAME_REV_CS_ERR" \notin Openers
      BY DEF Openers
    <3>. QED  BY <1>1, <2>1, <3>1
  <2>3. PhyMsg \in Broken /\ Received = PhyMsg.frame
    BY <2>2, PhyMsgKinds DEF PhyMsg, Received
  <2>4. PhyObjects
    BY <2>1, <2>2, <2>3 DEF PhyObjects
  <2>. QED  BY <1>b, <1>e, <2>1, <2>2, <2>4
<1>. QED  BY <1>3, <1>4, <1>5, <1>6, <1>8, <1>9, <1>10, <1>11, <1>12 DEF PhyStep, PhyNext

(* What a step of the MAC layer of A does with the message at the head. *)
MacOrders ==
  /\ MacMsg.sig = "FRAME_SEND_REQ" /\ macSend.state = "IDLE"
  /\ macSend' = [macSend EXCEPT !.state = "SENDING"] /\ pduFifo' = pduFifo
  /\ mbox'["LINK_MAC"] = Append(Tail(mbox["LINK_MAC"]), PduMsg("FRAME_SEND_START", MacMsg.pdu))
  /\ mbox'["LINK"] = mbox["LINK"] /\ mbox'["LINK_PHY"] = mbox["LINK_PHY"]
MacDefers ==
  /\ MacMsg.sig = "FRAME_SEND_REQ" /\ macSend.state = "SENDING"
  /\ macSend' = macSend /\ pduFifo' = Append(pduFifo, MacMsg.pdu)
  /\ mbox'["LINK_MAC"] = Tail(mbox["LINK_MAC"])
  /\ mbox'["LINK"] = mbox["LINK"] /\ mbox'["LINK_PHY"] = mbox["LINK_PHY"]
MacSends(s) ==
  /\ macSend' = s /\ s.state = "SENDING" /\ pduFifo' = pduFifo
  /\ mbox'["LINK_MAC"] = Tail(mbox["LINK_MAC"]) /\ mbox'["LINK"] = mbox["LINK"]
  /\ mbox'["LINK_PHY"] = Append(mbox["LINK_PHY"], [sig |-> "FRAME_SEND_REQ", frame |-> s.frame])
MacFirst ==
  /\ MacMsg.sig = "FRAME_SEND_START" /\ ~Holds
  /\ MacSends([macSend EXCEPT !.retry = 0, !.pdu = MacMsg.pdu, !.seq = @ + 1,
                              !.frame = [seq |-> macSend.seq, fidx |-> 0, fnum |-> pool[MacMsg.pdu]]])
MacGoesOn ==
  /\ MacMsg.sig = "FRAME_SEND_DONE" /\ Holds /\ macSend.frame.fidx + 1 < macSend.frame.fnum
  /\ MacSends([macSend EXCEPT !.frame.fidx = @ + 1])
MacRepeats ==
  /\ MacMsg.sig = "FRAME_SEND_ERR" /\ Holds /\ macSend.retry = 0
  /\ MacSends([macSend EXCEPT !.retry = 1, !.frame.fidx = 0])
MacIsDone(report) ==
  /\ Holds /\ macSend'.seq = macSend.seq /\ macSend'.frame.seq = macSend.frame.seq
  /\ \/ /\ pduFifo # <<>> /\ pduFifo' = Tail(pduFifo) /\ macSend'.state = "SENDING"
        /\ mbox'["LINK_MAC"]
             = Append(Tail(mbox["LINK_MAC"]), PduMsg("FRAME_SEND_START", Head(pduFifo)))
     \/ /\ pduFifo = <<>> /\ pduFifo' = <<>> /\ macSend'.state = "IDLE"
        /\ mbox'["LINK_MAC"] = Tail(mbox["LINK_MAC"])
  /\ mbox'["LINK"] = Append(mbox["LINK"], PduMsg(report, macSend.pdu))
  /\ mbox'["LINK_PHY"] = mbox["LINK_PHY"]
MacSucceeds ==
  /\ MacMsg.sig = "FRAME_SEND_DONE" /\ macSend.frame.fidx + 1 >= macSend.frame.fnum
  /\ MacIsDone("SEND_DONE")
MacAbandons ==
  /\ MacMsg.sig = "FRAME_SEND_ERR" /\ macSend.retry >= 1 /\ MacIsDone("SEND_ERR")

LEMMA MacSentEffect ==
  ASSUME IInv, Safe, Agenda, NEW sig \in {"FRAME_SEND_START", "FRAME_SEND_DONE", "FRAME_SEND_ERR"},
         MacHandling(sig), NEW s \in MacSender, s.state = "SENDING", link_mac_frame_send_req(s)
  PROVE  /\ MacSends(s) /\ UNCHANGED <<fsm, pool, due, line, fatal>>
         /\ timer'[PhySendTo] = timer[PhySendTo] /\ timer'[MacRevTo] = timer[MacRevTo]
<1>1. /\ macSend' = s
      /\ Finish("LINK_MAC", Post("LINK_PHY", [sig |-> "FRAME_SEND_REQ", frame |-> s.frame]))
      /\ timer' = [timer EXCEPT ![MacSendTo] = MacTo]
      /\ UNCHANGED <<fsm, pool, due, line, fatal, pduFifo>>
  BY DEF link_mac_frame_send_req, timer_set
<1>2. PICK m : m = [sig |-> "FRAME_SEND_REQ", frame |-> s.frame]
  OBVIOUS
<1>3. m \in PhyMsgs /\ m.sig = "FRAME_SEND_REQ"
  BY <1>2, Posted DEF MacSender
<1>4. /\ mbox'["LINK_MAC"] = Tail(mbox["LINK_MAC"]) /\ mbox'["LINK"] = mbox["LINK"]
      /\ mbox'["LINK_PHY"] = Append(mbox["LINK_PHY"], m)
  BY <1>1, <1>2, <1>3, MacAsks DEF Openers
<1>5. timer'[PhySendTo] = timer[PhySendTo] /\ timer'[MacRevTo] = timer[MacRevTo]
  <2>1. timer \in [TimerKey -> 0..MacTo]
    BY DEF IInv, Types, TypeOK
  <2>. QED  BY <1>1, <2>1, Tasks
<1>. QED  BY <1>1, <1>2, <1>4, <1>5 DEF MacSends

LEMMA MacEndedEffect ==
  ASSUME IInv, Safe, Agenda, NEW sig \in {"FRAME_SEND_DONE", "FRAME_SEND_ERR"},
         MacHandling(sig), NEW s \in MacSender, s.pdu = macSend.pdu, s.state = "SENDING",
         s.seq = macSend.seq, s.frame.seq = macSend.frame.seq,
         NEW report \in {"SEND_DONE", "SEND_ERR"},
         timer_remove_attr(MacSendTo), link_mac_frame_send_end(s, report)
  PROVE  /\ MacIsDone(report) /\ UNCHANGED <<fsm, pool, due, line, fatal>>
         /\ timer'[PhySendTo] = timer[PhySendTo] /\ timer'[MacRevTo] = timer[MacRevTo]
<1>0. Holds
  BY MacResult
<1>1. UNCHANGED <<fsm, pool, due, line, fatal>> /\ timer' = [timer EXCEPT ![MacSendTo] = 0]
  BY DEF link_mac_frame_send_end, timer_remove_attr
<1>2. timer'[PhySendTo] = timer[PhySendTo] /\ timer'[MacRevTo] = timer[MacRevTo]
  <2>1. timer \in [TimerKey -> 0..MacTo]
    BY DEF IInv, Types, TypeOK
  <2>. QED  BY <1>1, <2>1, Tasks
<1>3. PICK m : m = PduMsg(report, s.pdu)
  OBVIOUS
<1>4. m \in LinkMsgs /\ m.sig = report /\ m = PduMsg(report, macSend.pdu) /\ report \notin Openers
  <2>1. macSend.pdu \in Pdu
    <3>1. macSend.pdu # None
      BY MacHadPdu
    <3>. QED  BY <3>1, Upstream DEF MacSender
  <2>. QED  BY <1>3, <2>1, Posted DEF PduMsg, Openers
<1>5. CASE pduFifo # <<>>
  <2>0. PICK n : n = PduMsg("FRAME_SEND_START", Head(pduFifo))
    OBVIOUS
  <2>1. /\ pduFifo' = Tail(pduFifo) /\ macSend' = s
        /\ Finish("LINK_MAC", [Post("LINK", m) EXCEPT !["LINK_MAC"] = <<n>>])
    BY <1>3, <1>5, <2>0 DEF link_mac_frame_send_end
  <2>2. n \in MacMsgs /\ n.sig = "FRAME_SEND_START"
    <3>1. Head(pduFifo) \in Pdu
      BY <1>5, Upstream
    <3>. QED  BY <2>0, <3>1, Posted DEF PduMsg
  <2>3. /\ mbox'["LINK_MAC"] = Append(Tail(mbox["LINK_MAC"]), n)
        /\ mbox'["LINK"] = Append(mbox["LINK"], m) /\ mbox'["LINK_PHY"] = mbox["LINK_PHY"]
    BY <1>1, <1>4, <2>1, <2>2, MacReportsStarts DEF Openers
  <2>. QED  BY <1>0, <1>1, <1>2, <1>4, <1>5, <2>0, <2>1, <2>3 DEF MacIsDone
<1>6. CASE pduFifo = <<>>
  <2>1. /\ pduFifo' = pduFifo /\ macSend' = [s EXCEPT !.state = "IDLE"]
        /\ Finish("LINK_MAC", Post("LINK", m))
    BY <1>3, <1>6 DEF link_mac_frame_send_end
  <2>2. macSend'.state = "IDLE" /\ macSend'.seq = s.seq /\ macSend'.frame = s.frame
    BY <2>1 DEF MacSender
  <2>3. /\ mbox'["LINK_MAC"] = Tail(mbox["LINK_MAC"])
        /\ mbox'["LINK"] = Append(mbox["LINK"], m) /\ mbox'["LINK_PHY"] = mbox["LINK_PHY"]
    BY <1>1, <1>4, <2>1, MacReports DEF Openers
  <2>. QED  BY <1>0, <1>1, <1>2, <1>4, <1>6, <2>1, <2>2, <2>3 DEF MacIsDone
<1>. QED  BY <1>5, <1>6

LEMMA MacEffect ==
  ASSUME IInv, Safe, Agenda, Answers, MacStep
  PROVE  /\ mbox["LINK_MAC"] # <<>> /\ MacMsg \in MacMsgs
         /\ UNCHANGED <<fsm, pool, due, line, fatal, phy, macRev, late>>
         /\ timer'[PhySendTo] = timer[PhySendTo] /\ timer'[MacRevTo] = timer[MacRevTo]
         /\ MacOrders \/ MacDefers \/ MacFirst \/ MacGoesOn \/ MacRepeats \/ MacSucceeds \/ MacAbandons
<1> DEFINE box == mbox["LINK_MAC"]
           Does == MacOrders \/ MacDefers \/ MacFirst \/ MacGoesOn \/ MacRepeats \/ MacSucceeds
                   \/ MacAbandons
           Clocks == timer'[PhySendTo] = timer[PhySendTo] /\ timer'[MacRevTo] = timer[MacRevTo]
           Keeps == UNCHANGED <<fsm, pool, due, line, fatal>>
<1>a. /\ macSend \in MacSender /\ macSend.seq \in SeqNo /\ macSend.frame \in Frame
      /\ box \in Seq(AllMsgs) /\ Boxes /\ pduFifo \in Seq(Pdu)
      /\ macSend.retry \in Counter /\ macSend.state \in {"IDLE", "SENDING"}
  BY Upstream, Tasks DEF MacSender
<1>b. phy' = phy /\ late' = late
  BY DEF MacStep
<1>c. fsm["LINK_MAC"] = "handle"
  BY AgendaFacts
<1>d. fatal' \in {"none", "LINK_PDU 01"}
  BY MacSafe DEF Safe, OnlyExhaustion
<1>e. \A S : Cnt(box, S) \in Nat
  BY MacCounts
<1>1. CASE MacInitLower \/ MacStart \/ MacDrop
  BY <1>1, <1>c DEF MacInitLower, MacStart, MacDrop, Handling, Drop
<1>2. CASE MacSendReq
  <2>0. MacHandling("FRAME_SEND_REQ") /\ "FRAME_SEND_REQ" \notin Openers /\ macRev' = macRev
    BY <1>2 DEF MacSendReq, Openers
  <2>1. box # <<>> /\ MacMsg.sig = "FRAME_SEND_REQ"
    BY <2>0 DEF MacHandling, Handling, MacMsg
  <2>2. MacMsg \in MacMsgs
    BY <1>a, <2>1, HeadIsMsg, Tasks DEF MacMsg
  <2>3. MacMsg.pdu \in Pdu
    BY <2>1, <2>2, MsgFields
  <2>4. CASE macSend.state = "IDLE"
    <3>0. PICK n : n = PduMsg("FRAME_SEND_START", MacMsg.pdu)
      OBVIOUS
    <3>1. /\ macSend' = [macSend EXCEPT !.state = "SENDING"]
          /\ Finish("LINK_MAC", Post("LINK_MAC", n))
          /\ UNCHANGED <<fsm, pool, timer, due, line, fatal, pduFifo>>
      BY <1>2, <2>4, <3>0 DEF MacSendReq
    <3>2. n \in MacMsgs /\ n.sig = "FRAME_SEND_START"
      BY <2>3, <3>0, Posted DEF PduMsg
    <3>3. /\ mbox'["LINK_MAC"] = Append(Tail(box), n)
          /\ mbox'["LINK"] = mbox["LINK"] /\ mbox'["LINK_PHY"] = mbox["LINK_PHY"]
      BY <2>0, <3>1, <3>2, MacStarts DEF Openers
    <3>4. MacOrders
      BY <2>1, <2>4, <3>0, <3>1, <3>3 DEF MacOrders
    <3>. QED  BY <1>b, <2>0, <2>1, <2>2, <3>1, <3>4
  <2>5. CASE macSend.state = "SENDING" /\ Len(pduFifo) < FifoSize
    <3>1. /\ pduFifo' = Append(pduFifo, MacMsg.pdu) /\ Finish("LINK_MAC", NoPost)
          /\ UNCHANGED <<fsm, pool, timer, due, line, fatal, macSend>>
      <4>1. ~(Len(pduFifo) = FifoSize)
        BY <2>5, Numbers
      <4>. QED  BY <1>2, <2>5, <4>1 DEF MacSendReq
    <3>2. /\ mbox'["LINK_MAC"] = Tail(box)
          /\ mbox'["LINK"] = mbox["LINK"] /\ mbox'["LINK_PHY"] = mbox["LINK_PHY"]
      BY <2>0, <3>1, MacFinishes
    <3>3. MacDefers
      BY <2>1, <2>5, <3>1, <3>2 DEF MacDefers
    <3>. QED  BY <1>b, <2>0, <2>1, <2>2, <3>1, <3>3
  <2>6. CASE macSend.state = "SENDING" /\ Len(pduFifo) = FifoSize
    <3>1. ~(Len(pduFifo) < FifoSize)
      BY <2>6, Numbers
    <3>. QED  BY <1>2, <1>d, <2>6, <3>1 DEF MacSendReq, Fatal
  <2>. QED  BY <1>2, <2>4, <2>5, <2>6 DEF MacSendReq
<1>h. ASSUME NEW sig \in {"FRAME_SEND_START", "FRAME_SEND_DONE", "FRAME_SEND_ERR"}, MacHandling(sig)
      PROVE  /\ box # <<>> /\ MacMsg \in MacMsgs /\ MacMsg.sig = sig
             /\ sig # "FRAME_SEND_START" => Holds /\ macSend.pdu # None
             /\ macSend.state = "SENDING"
  <2>1. box # <<>> /\ MacMsg.sig = sig
    BY <1>h DEF MacHandling, Handling, MacMsg
  <2>2. MacMsg \in MacMsgs
    BY <1>a, <2>1, HeadIsMsg, Tasks DEF MacMsg
  <2>3. CASE sig = "FRAME_SEND_START"
    BY <1>h, <2>1, <2>2, <2>3, MacToStart
  <2>4. CASE sig # "FRAME_SEND_START"
    <3>1. Holds /\ macSend.pdu # None
      BY <1>h, <2>4, MacResult, MacHadPdu
    <3>. QED  BY <2>1, <2>2, <3>1 DEF Holds
  <2>. QED  BY <2>3, <2>4
<1>3. CASE MacSendStart
  <2>0. MacHandling("FRAME_SEND_START") /\ macRev' = macRev
    BY <1>3 DEF MacSendStart
  <2> DEFINE f == [seq |-> macSend.seq, fidx |-> 0, fnum |-> pool[MacMsg.pdu]]
             s == [macSend EXCEPT !.retry = 0, !.pdu = MacMsg.pdu, !.seq = (@ + 1) % MacSeqMod,
                                  !.frame = f]
             t == [macSend EXCEPT !.retry = 0, !.pdu = MacMsg.pdu, !.seq = @ + 1, !.frame = f]
  <2>1. box # <<>> /\ MacMsg \in MacMsgs /\ MacMsg.sig = "FRAME_SEND_START"
    BY <1>h, <2>0
  <2>2. (macSend.seq + 1) % MacSeqMod = macSend.seq + 1 /\ macSend.seq + 1 \in 0 .. MacSeqMod - 1
    <3>1. Cnt(box, Starts) # 0
      BY <1>a, <2>1, HeadCounts DEF Starts, MacMsg
    <3>2. macSend.seq + 1 < MacSeqMod /\ macSend.seq \in Nat
      BY <3>1, AgendaFacts, BoundsAreNat
    <3>. QED  BY <3>2, BoundsAreNat
  <2>3. /\ ~Holds /\ macSend.state = "SENDING" /\ MacMsg.pdu \in Pdu /\ pool[MacMsg.pdu] # 0
    BY <2>0, MacToStart
  <2>4. link_mac_frame_send_req(s)
    BY <1>3, <2>3 DEF MacSendStart
  <2>5. s = t
    BY <2>2
  <2>6. s \in MacSender /\ s.state = "SENDING"
    <3>1. pool[MacMsg.pdu] \in 0..MaxFrames
      BY <2>3 DEF IInv, Types, TypeOK
    <3>2. f \in Frame
      BY <1>a, <3>1 DEF Frame, SeqNo
    <3>3. 0 \in Counter
      BY DEF Counter
    <3>. QED  BY <1>a, <2>2, <2>3, <3>2, <3>3 DEF MacSender
  <2>7. MacSends(s) /\ Keeps /\ Clocks
    <3> HIDE DEF s
    <3>. QED  BY <2>0, <2>4, <2>6, MacSentEffect
  <2>8. MacFirst
    BY <2>1, <2>3, <2>5, <2>7 DEF MacFirst
  <2>. QED  BY <1>b, <2>0, <2>1, <2>7, <2>8
<1>4. CASE MacSendDone
  <2> DEFINE s == [macSend EXCEPT !.frame.fidx = @ + 1]
  <2>0. MacHandling("FRAME_SEND_DONE") /\ macRev' = macRev
    BY <1>4 DEF MacSendDone
  <2>1. /\ box # <<>> /\ MacMsg \in MacMsgs /\ MacMsg.sig = "FRAME_SEND_DONE" /\ Holds
        /\ macSend.state = "SENDING" /\ macSend.pdu # None
    BY <1>h, <2>0
  <2>2. /\ s \in MacSender /\ s.state = "SENDING" /\ s.pdu = macSend.pdu
        /\ s.seq = macSend.seq /\ s.frame.seq = macSend.frame.seq /\ s.frame.fidx = macSend.frame.fidx + 1
    <3> DEFINE f == [macSend.frame EXCEPT !.fidx = @ + 1]
    <3>1. f \in Frame /\ f.seq = macSend.frame.seq /\ f.fidx = macSend.frame.fidx + 1
      <4>1. \A g \in Frame : /\ [g EXCEPT !.fidx = @ + 1] \in Frame /\ [g EXCEPT !.fidx = @ + 1].seq = g.seq
                             /\ [g EXCEPT !.fidx = @ + 1].fidx = g.fidx + 1
        BY DEF Frame
      <4>. QED  BY <1>a, <4>1
    <3>2. s = [macSend EXCEPT !.frame = f]
      BY <1>a
    <3> HIDE DEF f, s
    <3>. QED  BY <1>a, <2>1, <3>1, <3>2 DEF MacSender
  <2>3. \/ /\ macSend.frame.fidx + 1 < macSend.frame.fnum
           /\ link_mac_frame_send_req(s)
        \/ /\ macSend.frame.fidx + 1 >= macSend.frame.fnum
           /\ timer_remove_attr(MacSendTo) /\ link_mac_frame_send_end(s, "SEND_DONE")
    BY <1>4, <2>1, <2>2 DEF MacSendDone
  <2>4. CASE macSend.frame.fidx + 1 < macSend.frame.fnum /\ link_mac_frame_send_req(s)
    <3>1. MacSends(s) /\ Keeps /\ Clocks
      <4> HIDE DEF s
      <4>. QED  BY <2>0, <2>2, <2>4, MacSentEffect
    <3>2. MacGoesOn
      BY <2>1, <2>4, <3>1 DEF MacGoesOn
    <3>. QED  BY <1>b, <2>0, <2>1, <3>1, <3>2
  <2>5. CASE /\ macSend.frame.fidx + 1 >= macSend.frame.fnum
             /\ timer_remove_attr(MacSendTo) /\ link_mac_frame_send_end(s, "SEND_DONE")
    <3>1. MacIsDone("SEND_DONE") /\ Keeps /\ Clocks
      <4> HIDE DEF s
      <4>. QED  BY <2>0, <2>2, <2>5, MacEndedEffect
    <3>2. MacSucceeds
      BY <2>1, <2>5, <3>1 DEF MacSucceeds
    <3>. QED  BY <1>b, <2>0, <2>1, <3>1, <3>2
  <2>. QED  BY <2>3, <2>4, <2>5
<1>5. CASE MacSendErr
  <2> DEFINE again == [macSend EXCEPT !.retry = Increment(@), !.frame.fidx = 0]
             once == [macSend EXCEPT !.retry = 1, !.frame.fidx = 0]
             ended == [macSend EXCEPT !.retry = Increment(@)]
  <2>0. MacHandling("FRAME_SEND_ERR") /\ macRev' = macRev
    BY <1>5 DEF MacSendErr
  <2>1. /\ box # <<>> /\ MacMsg \in MacMsgs /\ MacMsg.sig = "FRAME_SEND_ERR" /\ Holds
        /\ macSend.state = "SENDING" /\ macSend.pdu # None
    BY <1>h, <2>0
  <2>2. Increment(macSend.retry) \in Counter
    BY <1>a, Numbers
  <2>3. /\ again \in MacSender /\ again.state = "SENDING"
        /\ ended \in MacSender /\ ended.state = "SENDING" /\ ended.pdu = macSend.pdu
        /\ ended.seq = macSend.seq /\ ended.frame.seq = macSend.frame.seq
    BY <1>a, <2>1, <2>2 DEF MacSender, Frame
  <2>4. CASE Resend
    <3>1. macSend.retry = 0
      <4>1. macSend.retry \in Counter
        BY <1>a
      <4>. QED  BY <2>4, <4>1 DEF Resend, MacMaxRetry, Counter
    <3>2. again = once
      BY <3>1 DEF Increment
    <3>3. link_mac_frame_send_req(again)
      BY <2>4 DEF Resend
    <3>4. MacSends(again) /\ Keeps /\ Clocks
      <4> HIDE DEF again
      <4>. QED  BY <2>0, <2>3, <3>3, MacSentEffect
    <3>5. MacRepeats
      BY <2>1, <3>1, <3>2, <3>4 DEF MacRepeats
    <3>. QED  BY <1>b, <2>0, <2>1, <3>4, <3>5
  <2>5. CASE timer_remove_attr(MacSendTo) /\ Abandon
    <3>1. macSend.retry >= 1 /\ link_mac_frame_send_end(ended, "SEND_ERR")
      BY <2>5 DEF Abandon, MacMaxRetry
    <3>4. MacIsDone("SEND_ERR") /\ Keeps /\ Clocks
      <4> HIDE DEF ended
      <4>. QED  BY <2>0, <2>3, <2>5, <3>1, MacEndedEffect
    <3>5. MacAbandons
      BY <2>1, <3>1, <3>4 DEF MacAbandons
    <3>. QED  BY <1>b, <2>0, <2>1, <3>4, <3>5
  <2>. QED  BY <1>5, <2>4, <2>5 DEF MacSendErr
<1>6. ASSUME MacSendTimeout \/ MacFrameRev \/ MacRevTimeout PROVE FALSE
  <2>1. /\ box # <<>> /\ Head(box).sig \in {"FRAME_SEND_TO", "FRAME_REV", "FRAME_REV_TO"}
    BY <1>6 DEF MacSendTimeout, MacFrameRev, MacRevTimeout, MacHandling, Handling
  <2>2. Cnt(box, {"FRAME_SEND_TO"}) = 0 /\ Cnt(box, {"FRAME_REV", "FRAME_REV_TO"}) = 0
    BY DEF Safe, MacTimer, Answers
  <2>3. Head(box).sig \notin {"FRAME_SEND_TO"} /\ Head(box).sig \notin {"FRAME_REV", "FRAME_REV_TO"}
    BY <1>a, <2>1, <2>2, HeadCounts
  <2>. QED  BY <2>1, <2>3
<1>. QED  BY <1>1, <1>2, <1>3, <1>4, <1>5, <1>6 DEF MacStep, MacNext

(* What a step of the LINK task of A does. *)
LinkAccepts(p) ==
  /\ LinkMsg.sig = "SEND_MSG" /\ pool[p] = 0 /\ pool' = [pool EXCEPT ![p] = LinkMsg.frames]
  /\ mbox'["LINK"] = Tail(mbox["LINK"])
  /\ mbox'["LINK_MAC"] = Append(mbox["LINK_MAC"], PduMsg("FRAME_SEND_REQ", p))
LinkReleases ==
  /\ LinkMsg.sig \in {"SEND_DONE", "SEND_ERR"} /\ pool' = [pool EXCEPT ![LinkMsg.pdu] = 0]
  /\ mbox'["LINK"] = Tail(mbox["LINK"]) /\ mbox'["LINK_MAC"] = mbox["LINK_MAC"]
LinkDies == UNCHANGED <<mbox, pool>>

LEMMA LinkEffect ==
  ASSUME IInv, LinkSendMsg \/ LinkSendDone \/ LinkSendErr
  PROVE  /\ mbox["LINK"] # <<>> /\ LinkMsg \in LinkMsgs
         /\ UNCHANGED <<fsm, timer, due, line>> /\ mbox'["LINK_PHY"] = mbox["LINK_PHY"]
         /\ LinkReleases \/ LinkDies \/ \E p \in Pdu : LinkAccepts(p)
<1>a. Boxes
  BY DEF IInv, Types
<1>b. PICK sig \in {"SEND_MSG", "SEND_DONE", "SEND_ERR"} : LinkHandling(sig)
  BY DEF LinkSendMsg, LinkSendDone, LinkSendErr
<1>c. mbox["LINK"] # <<>> /\ LinkMsg.sig = sig /\ sig \notin Openers
  BY <1>b DEF LinkHandling, Handling, LinkMsg, Openers
<1>d. LinkMsg \in LinkMsgs
  BY <1>a, <1>c, HeadIsMsg, Tasks DEF LinkMsg
<1>1. CASE Fatal("LINK_PDU 01") \/ Fatal("LINK_PDU 02")
  BY <1>1, <1>c, <1>d DEF Fatal, LinkDies
<1>2. CASE LinkSendMsg /\ ~Fatal("LINK_PDU 01")
  <2>0. sig = "SEND_MSG"
    BY <1>c, <1>2 DEF LinkSendMsg, LinkHandling, Handling, LinkMsg
  <2>1. PICK p \in FreePdu :
          /\ pool' = [pool EXCEPT ![p] = LinkMsg.frames]
          /\ Finish("LINK", Post("LINK_MAC", [sig |-> "FRAME_SEND_REQ", pdu |-> p]))
          /\ UNCHANGED <<fsm, timer, due, line, fatal>>
    BY <1>2 DEF LinkSendMsg
  <2>2. PICK m : m = PduMsg("FRAME_SEND_REQ", p)
    OBVIOUS
  <2>3. m \in MacMsgs /\ m.sig = "FRAME_SEND_REQ" /\ p \in Pdu /\ pool[p] = 0
    BY <2>2, Posted DEF PduMsg, FreePdu
  <2>4. Finish("LINK", Post("LINK_MAC", m))
    BY <2>1, <2>2 DEF PduMsg
  <2>5. /\ mbox'["LINK"] = Tail(mbox["LINK"]) /\ mbox'["LINK_PHY"] = mbox["LINK_PHY"]
        /\ mbox'["LINK_MAC"] = Append(mbox["LINK_MAC"], m)
    BY <1>b, <1>c, <2>1, <2>3, <2>4, LinkSends DEF Openers
  <2>6. LinkAccepts(p)
    BY <1>c, <2>0, <2>1, <2>2, <2>3, <2>5 DEF LinkAccepts
  <2>. QED  BY <1>c, <1>d, <2>1, <2>3, <2>5, <2>6
<1>3. CASE /\ (LinkSendDone \/ LinkSendErr) /\ pool' = [pool EXCEPT ![LinkMsg.pdu] = 0]
           /\ Finish("LINK", NoPost) /\ UNCHANGED <<fsm, timer, due, line, fatal>>
  <2>0. sig \in {"SEND_DONE", "SEND_ERR"}
    BY <1>c, <1>3 DEF LinkSendDone, LinkSendErr, LinkHandling, Handling, LinkMsg
  <2>1. /\ mbox'["LINK_PHY"] = mbox["LINK_PHY"] /\ mbox'["LINK_MAC"] = mbox["LINK_MAC"]
        /\ mbox'["LINK"] = Tail(mbox["LINK"])
    BY <1>b, <1>c, <1>3, LinkFinishes DEF Openers
  <2>2. LinkReleases
    BY <1>c, <1>3, <2>0, <2>1 DEF LinkReleases
  <2>. QED  BY <1>c, <1>d, <1>3, <2>1, <2>2
<1>. QED  BY <1>1, <1>2, <1>3 DEF LinkSendDone, LinkSendErr, link_pdu_free

LEMMA WireKinds ==
  /\ \A m \in WireMsgs : m \in Asks \/ m \in Grants \/ m \in Refusals \/ m \in Broken
  /\ \A m \in WireMsgs : m \in Asks <=> m.sig = "FRAME_REV" /\ m.frame.type = "REQ"
  /\ \A m \in WireMsgs : m \in Broken <=> m.sig = "FRAME_REV_CS_ERR"
  /\ Asks \subseteq WireMsgs /\ Grants \subseteq WireMsgs /\ Refusals \subseteq WireMsgs
  /\ Broken \subseteq WireMsgs
  /\ \A m \in Asks : m \notin Grants /\ m \notin Refusals /\ m \notin Broken
  /\ \A m \in Grants : m \notin Refusals /\ m \notin Broken /\ m \notin Asks
  /\ \A m \in Refusals : m \notin Broken /\ m \notin Asks /\ m \notin Grants
  /\ \A f \in PhyFrame : /\ [sig |-> "FRAME_REV", frame |-> f] \in WireMsgs
                         /\ [sig |-> "FRAME_REV_CS_ERR", frame |-> f] \in Broken
<1>1. \A m \in WireMsgs : /\ m.sig \in {"FRAME_REV", "FRAME_REV_CS_ERR"}
                          /\ m.frame \in PhyFrame /\ m.frame.type \in {"REQ", "ACK", "NACK"}
  BY DEF WireMsgs, PhyFrame
<1>2. \A f \in PhyFrame : /\ [sig |-> "FRAME_REV", frame |-> f] \in WireMsgs
                          /\ [sig |-> "FRAME_REV_CS_ERR", frame |-> f] \in WireMsgs
  BY DEF WireMsgs
<1>. QED  BY <1>1, <1>2 DEF Asks, Grants, Refusals, Broken

(* What B's PHY layer answers. *)
LEMMA BPhyAnswers ==
  ASSUME Receives, B!PhyStep
  PROVE  LET m == Head(mboxB["LINK_PHY"]) IN
         \/ m \in Asks /\ lineB' = B!Written(Answer("ACK", m.frame.seq))
         \/ m \in Broken /\ lineB' = B!Written(Answer("NACK", m.frame.seq))
         \/ m \notin Asks \cup Broken /\ lineB' = lineB
<1> DEFINE m == Head(mboxB["LINK_PHY"])
<1>1. m \in WireMsgs /\ phyB.send = "IDLE" /\ fsmB["LINK_PHY"] = "handle"
  BY BPhyEffect, Tasks DEF Receives
<1>2. CASE B!PhyRevReq
  <2>1. m.sig = "FRAME_REV" /\ m.frame.type = "REQ" /\ lineB' = B!Written(B!Answer("ACK", m.frame.seq))
    BY <1>2 DEF B!PhyRevReq, B!PhyHandling, B!Handling, B!Received
  <2>. QED  BY <1>1, <2>1, BNames, WireKinds
<1>3. CASE B!PhyRevChecksumError
  <2>1. m.sig = "FRAME_REV_CS_ERR" /\ lineB' = B!Written(B!Answer("NACK", m.frame.seq))
    BY <1>3 DEF B!PhyRevChecksumError, B!PhyHandling, B!Handling, B!Received
  <2>. QED  BY <1>1, <2>1, BNames, WireKinds
<1>4. CASE B!PhyRevStale
  <2>1. m.sig = "FRAME_REV" /\ m.frame.type \in {"ACK", "NACK"} /\ lineB' = lineB
    BY <1>4 DEF B!PhyRevStale, B!PhyHandling, B!Handling, B!Received
  <2>. QED  BY <1>1, <2>1, WireKinds
<1>5. ASSUME B!PhyStart \/ B!PhyDrop \/ B!PhySendReq \/ B!PhySendTimeout \/ B!PhyRevAck \/ B!PhyRevNack
      PROVE  FALSE
  <2>1. m.sig \in {"FRAME_REV", "FRAME_REV_CS_ERR"}
    BY <1>1, BFields
  <2>. QED  BY <1>1, <1>5, <2>1 DEF B!PhyStart, B!PhyDrop, B!PhySendReq, B!PhySendTimeout, B!PhyRevAck,
       B!PhyRevNack, B!Drop, B!IsAnswer, B!PhyHandling, B!Handling
<1>. QED  BY <1>2, <1>3, <1>4, <1>5 DEF B!PhyStep, B!PhyNext

(* A line that has room takes a frame at its end. *)
LEMMA WrittenFits ==
  ASSUME line \in Seq(PhyFrame), NEW f \in PhyFrame
  PROVE  /\ Len(line) < LineMax => Written(f) = Append(line, f)
         /\ Len(Written(f)) <= Len(line) + 1
         /\ \A i \in 1..Len(Written(f)) :
              Written(f)[i] = f \/ \E j \in 1..Len(line) : Written(f)[i] = line[j]
<1> DEFINE all == Append(line, f)
<1>1. all \in Seq(PhyFrame) /\ Len(all) = Len(line) + 1 /\ Len(line) \in Nat /\ all # <<>>
      /\ LineMax \in Nat
  BY BoundsAreNat
<1>2. \A i \in 1..Len(all) : all[i] = f \/ \E j \in 1..Len(line) : all[i] = line[j]
  <2>1. TAKE i \in 1..Len(all)
  <2>2. CASE i = Len(line) + 1
    BY <2>2
  <2>3. CASE i # Len(line) + 1
    <3>1. i \in 1..Len(line) /\ all[i] = line[i]
      BY <1>1, <2>3
    <3>. QED  BY <3>1
  <2>. QED  BY <2>2, <2>3
<1> HIDE DEF all
<1>3. Len(Tail(all)) = Len(line) /\ \A i \in 1..Len(Tail(all)) : Tail(all)[i] = all[i + 1] /\ i + 1 \in 1..Len(all)
  BY <1>1
<1>4. Written(f) = IF Len(line) + 1 > LineMax THEN Tail(all) ELSE all
  BY <1>1 DEF Written, all
<1>. QED  BY <1>1, <1>2, <1>3, <1>4 DEF all

LEMMA BWrittenFits ==
  ASSUME lineB \in Seq(PhyFrame), NEW f \in PhyFrame
  PROVE  /\ Len(lineB) < LineMax => B!Written(f) = Append(lineB, f)
         /\ Len(B!Written(f)) <= Len(lineB) + 1
         /\ \A i \in 1..Len(B!Written(f)) :
              B!Written(f)[i] = f \/ \E j \in 1..Len(lineB) : B!Written(f)[i] = lineB[j]
<1> DEFINE all == Append(lineB, f)
<1>1. all \in Seq(PhyFrame) /\ Len(all) = Len(lineB) + 1 /\ Len(lineB) \in Nat /\ all # <<>>
      /\ LineMax \in Nat
  BY BoundsAreNat
<1>2. \A i \in 1..Len(all) : all[i] = f \/ \E j \in 1..Len(lineB) : all[i] = lineB[j]
  <2>1. TAKE i \in 1..Len(all)
  <2>2. CASE i = Len(lineB) + 1
    BY <2>2
  <2>3. CASE i # Len(lineB) + 1
    <3>1. i \in 1..Len(lineB) /\ all[i] = lineB[i]
      BY <1>1, <2>3
    <3>. QED  BY <3>1
  <2>. QED  BY <2>2, <2>3
<1> HIDE DEF all
<1>3. Len(Tail(all)) = Len(lineB) /\ \A i \in 1..Len(Tail(all)) : Tail(all)[i] = all[i + 1] /\ i + 1 \in 1..Len(all)
  BY <1>1
<1>4. B!Written(f) = IF Len(lineB) + 1 > LineMax THEN Tail(all) ELSE all
  BY <1>1 DEF B!Written, all
<1>. QED  BY <1>1, <1>2, <1>3, <1>4 DEF all

LEMMA AnswersTyped ==
  \A t \in {"ACK", "NACK"}, q \in 0 .. PhySeqMod - 1 :
    /\ Answer(t, q) \in PhyFrame /\ Answer(t, q).type = t /\ Answer(t, q).seq = q
BY BoundsAreNat DEF Answer, NoFrame, PhyFrame, AnyFrame

-----------------------------------------------------------------------------
(* The steps of the two boards and of the line, by what they change. *)
Base == PairInv /\ Safe /\ Answers /\ Punctual /\ faults \in Nat

BStays == UNCHANGED <<boardB, slots, given>>
AStays == UNCHANGED <<mbox, pool, timer, due, line, phy, macSend, pduFifo, macRev, size>>

PhyOfA ==
  /\ mbox["LINK_PHY"] # <<>> /\ PhyMsg \in PhyMsgs
  /\ mbox'["LINK_PHY"] = Tail(mbox["LINK_PHY"]) /\ mbox'["LINK"] = mbox["LINK"]
  /\ PhySendTo \notin due
  /\ UNCHANGED <<pool, due, macSend, pduFifo, macRev, size, faults>> /\ BStays
  /\ PhyBegins \/ PhyAgain \/ PhyFails \/ PhySucceeds \/ PhyPasses \/ PhyObjects
MacOfA ==
  /\ mbox["LINK_MAC"] # <<>> /\ MacMsg \in MacMsgs
  /\ UNCHANGED <<pool, due, line, phy, macRev, size, faults>> /\ BStays
  /\ timer'[PhySendTo] = timer[PhySendTo] /\ timer'[MacRevTo] = timer[MacRevTo]
  /\ MacOrders \/ MacDefers \/ MacFirst \/ MacGoesOn \/ MacRepeats \/ MacSucceeds \/ MacAbandons
LinkOfA ==
  /\ mbox["LINK"] # <<>> /\ LinkMsg \in LinkMsgs
  /\ mbox'["LINK_PHY"] = mbox["LINK_PHY"]
  /\ UNCHANGED <<timer, due, line, phy, macSend, pduFifo, macRev, size, faults>> /\ BStays
  /\ LinkReleases \/ LinkDies \/ \E p \in Pdu : LinkAccepts(p)
Requests(n) ==
  /\ mbox' = [mbox EXCEPT !["LINK"] = Append(@, [sig |-> "SEND_MSG", frames |-> n])]
  /\ size' = Append(size, n)
  /\ UNCHANGED <<pool, timer, due, line, phy, macSend, pduFifo, macRev, faults>> /\ BStays
ExpiresA ==
  /\ PhySendTo \in due /\ due' = due \ {PhySendTo}
  /\ mbox' = [mbox EXCEPT !["LINK_PHY"] = Append(@, [sig |-> "FRAME_SEND_TO"])]
  /\ UNCHANGED <<pool, timer, line, phy, macSend, pduFifo, macRev, size, faults>> /\ BStays
ReachesA ==
  /\ due = {} /\ dueB = {} /\ lineB # <<>> /\ lineB' = Tail(lineB)
  /\ \/ \E q \in {"FRAME_REV", "FRAME_REV_CS_ERR"} :
          /\ mbox' = [mbox EXCEPT !["LINK_PHY"] = Append(@, [sig |-> q, frame |-> Head(lineB)])]
          /\ faults' = faults + One(q = "FRAME_REV_CS_ERR")
     \/ mbox' = mbox /\ faults' = faults + 1
  /\ UNCHANGED <<pool, timer, due, line, phy, macSend, pduFifo, macRev, size>>
  /\ UNCHANGED <<mboxB, poolB, timerB, dueB, macRevB, slots, given>>
ReachesB ==
  /\ due = {} /\ dueB = {} /\ line # <<>> /\ line' = Tail(line)
  /\ \/ \E q \in {"FRAME_REV", "FRAME_REV_CS_ERR"} :
          /\ mboxB' = [mboxB EXCEPT !["LINK_PHY"] = Append(@, [sig |-> q, frame |-> Head(line)])]
          /\ faults' = faults + One(q = "FRAME_REV_CS_ERR")
     \/ mboxB' = mboxB /\ faults' = faults + 1
  /\ UNCHANGED <<mbox, pool, timer, due, phy, macSend, pduFifo, macRev, size>>
  /\ UNCHANGED <<poolB, timerB, dueB, lineB, macRevB, slots, given>>
Ticks ==
  /\ Idle(mbox) /\ Idle(mboxB) /\ due = {} /\ dueB = {}
  /\ faults' = faults + One(line # <<>> \/ lineB # <<>>)
  /\ due' = {k \in TimerKey : timer[k] = 1} /\ dueB' \subseteq {MacRevTo}
  /\ MacRevTo \in dueB' <=> timerB[MacRevTo] = 1
  /\ timer' = [k \in TimerKey |-> IF timer[k] = 0 THEN 0 ELSE timer[k] - 1]
  /\ timerB'[MacRevTo] = IF timerB[MacRevTo] = 0 THEN 0 ELSE timerB[MacRevTo] - 1
  /\ UNCHANGED <<mbox, pool, line, phy, macSend, pduFifo, macRev, size>>
  /\ UNCHANGED <<mboxB, poolB, lineB, macRevB, slots, given>>

WireMsg == Head(mboxB["LINK_PHY"])
PhyOfB ==
  /\ mboxB["LINK_PHY"] # <<>> /\ WireMsg \in WireMsgs
  /\ mboxB'["LINK_PHY"] = Tail(mboxB["LINK_PHY"]) /\ mboxB'["LINK"] = mboxB["LINK"]
  /\ \/ /\ WireMsg \in Asks /\ lineB' = B!Written(Answer("ACK", WireMsg.frame.seq))
        /\ mboxB'["LINK_MAC"]
             = Append(mboxB["LINK_MAC"], [sig |-> "FRAME_REV", frame |-> WireMsg.frame.mac])
     \/ /\ WireMsg \in Broken /\ lineB' = B!Written(Answer("NACK", WireMsg.frame.seq))
        /\ mboxB'["LINK_MAC"] = mboxB["LINK_MAC"]
     \/ /\ WireMsg \notin Asks \cup Broken /\ lineB' = lineB
        /\ mboxB'["LINK_MAC"] = mboxB["LINK_MAC"]
  /\ UNCHANGED <<poolB, timerB, dueB, macRevB, slots, given, faults>> /\ AStays

HeardMsg == Head(mboxB["LINK_MAC"])
MacPasses ==
  /\ mboxB'["LINK_MAC"] = Tail(mboxB["LINK_MAC"]) /\ mboxB'["LINK"] = mboxB["LINK"]
  /\ HeardMsg.sig = "FRAME_REV" =>
       \/ macRevB.state = "IDLE" /\ macRevB.seq = HeardMsg.frame.seq
       \/ macRevB.state = "RECEIVING" /\ macRevB.seq # HeardMsg.frame.seq
  /\ UNCHANGED <<poolB, macRevB, slots>>
MacForgets ==
  /\ mboxB'["LINK_MAC"] = Tail(mboxB["LINK_MAC"]) /\ mboxB'["LINK"] = mboxB["LINK"]
  /\ HeardMsg.sig = "FRAME_REV_TO" /\ macRevB.state = "RECEIVING"
  /\ macRevB' = [macRevB EXCEPT !.state = "IDLE", !.pdu = None]
  /\ slots' = [slots EXCEPT ![macRevB.pdu] = {}]
MacTakes(q) ==
  /\ HeardMsg.sig = "FRAME_REV" /\ Takes(q, HeardMsg.frame)
  /\ mboxB'["LINK_MAC"] = Tail(mboxB["LINK_MAC"])
  /\ slots' = [slots EXCEPT ![q] = @ \cup {HeardMsg.frame}]
  /\ \/ /\ HeardMsg.frame.fidx # HeardMsg.frame.fnum - 1
        /\ mboxB'["LINK"] = mboxB["LINK"]
        /\ macRevB' = [state |-> "RECEIVING", pdu |-> q, seq |-> HeardMsg.frame.seq]
     \/ /\ HeardMsg.frame.fidx = HeardMsg.frame.fnum - 1
        /\ mboxB'["LINK"] = Append(mboxB["LINK"], PduMsg("REV_MSG", q))
        /\ macRevB' = [state |-> "IDLE", pdu |-> None, seq |-> HeardMsg.frame.seq]
(* A frame that leaves the receiver waiting sets its timer anew. *)
RevClock ==
  macRevB'.state = "RECEIVING" =>
    \/ UNCHANGED <<timerB, macRevB>>
    \/ HeardMsg.sig = "FRAME_REV" /\ timerB'[MacRevTo] = MacTo
MacOfB ==
  /\ mboxB["LINK_MAC"] # <<>> /\ HeardMsg \in HeardMsgs /\ RevClock
  /\ mboxB'["LINK_PHY"] = mboxB["LINK_PHY"]
  /\ UNCHANGED <<dueB, lineB, given, faults>> /\ AStays
  /\ \/ UNCHANGED <<mboxB, macRevB, slots>>
     \/ MacPasses \/ MacForgets \/ \E q \in Pdu : MacTakes(q)
LinkOfB ==
  /\ mboxB["LINK"] # <<>> /\ given' = Append(given, slots[Told(1)])
  /\ slots' = [slots EXCEPT ![Told(1)] = {}]
  /\ mboxB'["LINK"] = Tail(mboxB["LINK"]) /\ mboxB'["LINK_MAC"] = mboxB["LINK_MAC"]
  /\ mboxB'["LINK_PHY"] = mboxB["LINK_PHY"]
  /\ UNCHANGED <<timerB, dueB, lineB, macRevB, faults>> /\ AStays
ExpiresB ==
  /\ MacRevTo \in dueB /\ dueB' = dueB \ {MacRevTo}
  /\ mboxB' = [mboxB EXCEPT !["LINK_MAC"] = Append(@, [sig |-> "FRAME_REV_TO"])]
  /\ UNCHANGED <<poolB, timerB, lineB, macRevB, slots, given, faults>> /\ AStays
Idles == AStays /\ BStays /\ UNCHANGED faults

PairSteps ==
  \/ PhyOfA \/ MacOfA \/ LinkOfA \/ \E n \in 1..MaxFrames : Requests(n)
  \/ ExpiresA \/ ReachesA \/ ReachesB \/ Ticks
  \/ PhyOfB \/ MacOfB \/ LinkOfB \/ ExpiresB \/ Idles

(* How the MAC layer of B ends its handling of a frame. *)
LEMMA BFrameEnds ==
  ASSUME Receives, B!MacStep, Head(mboxB["LINK_MAC"]).sig = "FRAME_REV"
  PROVE  LET h == Head(mboxB["LINK_MAC"]).frame IN
         \/ UNCHANGED mboxB
         \/ ~B!Opens /\ ~B!Continues /\ UNCHANGED macRevB
         \/ (macRevB'.state = "IDLE" <=> h.fidx = h.fnum - 1)
<1> DEFINE h == Head(mboxB["LINK_MAC"]).frame
<1>1. B!MacFrameRev /\ B!MacMsg.frame = h
  <2>1. ~B!MacRevTimeout
    BY DEF B!MacRevTimeout, B!MacHandling, B!Handling
  <2>. QED  BY <2>1, BMacHandles DEF B!MacMsg
<1>2. ASSUME NEW r, r.state = "RECEIVING", r = [state |-> r.state, pdu |-> r.pdu, seq |-> r.seq], B!Accept(r)
      PROVE  macRevB'.state = "IDLE" <=> h.fidx = h.fnum - 1
  <2>1. CASE h.fidx = h.fnum - 1 /\ macRevB' = [r EXCEPT !.state = "IDLE", !.pdu = None]
    BY <1>2, <2>1
  <2>2. CASE h.fidx # h.fnum - 1 /\ macRevB' = r
    BY <1>2, <2>2
  <2>. QED  BY <1>1, <1>2, <2>1, <2>2 DEF B!Accept
<1>3. macRevB = [state |-> macRevB.state, pdu |-> macRevB.pdu, seq |-> macRevB.seq]
  BY DEF Receives, MacReceiver
<1>4. ASSUME NEW q, B!Accept([state |-> "RECEIVING", pdu |-> q, seq |-> B!MacMsg.frame.seq])
      PROVE  macRevB'.state = "IDLE" <=> h.fidx = h.fnum - 1
  <2> DEFINE r == [state |-> "RECEIVING", pdu |-> q, seq |-> B!MacMsg.frame.seq]
  <2>1. r.state = "RECEIVING" /\ r = [state |-> r.state, pdu |-> r.pdu, seq |-> r.seq] /\ B!Accept(r)
    BY <1>4
  <2> HIDE DEF r
  <2>. QED  BY <1>2, <2>1
<1>5. B!Continues /\ B!Accept(macRevB) => (macRevB'.state = "IDLE" <=> h.fidx = h.fnum - 1)
  BY <1>2, <1>3 DEF B!Continues
<1> HIDE DEF h
<1>. QED  BY <1>1, <1>4, <1>5 DEF B!MacFrameRev, B!Fatal, h

(* A frame that opens a PDU takes one of the pool, or the process dies. *)
LEMMA BOpenTakes ==
  ASSUME Receives, B!MacStep, Head(mboxB["LINK_MAC"]).sig = "FRAME_REV", B!Opens, mboxB' # mboxB
  PROVE  poolB' # poolB
<1>1. B!MacFrameRev
  <2>1. ~B!MacRevTimeout
    BY DEF B!MacRevTimeout, B!MacHandling, B!Handling
  <2>. QED  BY <2>1, BMacHandles
<1>2. ~B!Continues
  BY DEF B!Opens, B!Continues
<1>3. PICK p \in B!FreePdu : poolB' = [poolB EXCEPT ![p] = 1]
  BY <1>1, <1>2 DEF B!MacFrameRev, B!Fatal
<1>4. p \in Pdu /\ poolB[p] = 0 /\ poolB \in [Pdu -> Nat]
  BY DEF B!FreePdu, Receives
<1>5. poolB'[p] = 1
  BY <1>3, <1>4
<1>. QED  BY <1>4, <1>5

LEMMA BMacClock ==
  ASSUME Receives, B!MacStep
  PROVE  RevClock
<1>1. SUFFICES ASSUME macRevB'.state = "RECEIVING", ~UNCHANGED <<timerB, macRevB>>
               PROVE  HeardMsg.sig = "FRAME_REV" /\ timerB'[MacRevTo] = MacTo
  BY DEF RevClock
<1>2. ~B!MacRevTimeout
  <2>1. macRevB \in MacReceiver
    BY DEF Receives
  <2>2. ([macRevB EXCEPT !.state = "IDLE", !.pdu = None]).state # "RECEIVING"
    BY <2>1 DEF MacReceiver
  <2>. QED  BY <1>1, <2>2 DEF B!MacRevTimeout, B!Fatal
<1>3. B!MacFrameRev
  BY <1>2, BMacHandles
<1>4. HeardMsg.sig = "FRAME_REV"
  BY <1>3 DEF B!MacFrameRev, B!MacHandling, B!Handling, HeardMsg
<1>5. ASSUME NEW r, B!Accept(r), r = [state |-> r.state, pdu |-> r.pdu, seq |-> r.seq]
      PROVE  timerB' = [timerB EXCEPT ![MacRevTo] = MacTo]
  <2>1. ASSUME macRevB' = [r EXCEPT !.state = "IDLE", !.pdu = None] PROVE FALSE
    <3>1. macRevB'.state = "IDLE"
      BY <1>5, <2>1
    <3>. QED  BY <1>1, <3>1
  <2>2. macRevB' = [r EXCEPT !.state = "IDLE", !.pdu = None] \/ B!timer_set(B!MacRevTo, B!MacTo)
    <3>1. B!Accept(r)
      BY <1>5
    <3>. QED  BY <3>1 DEF B!Accept
  <2>3. B!MacRevTo = MacRevTo /\ B!MacTo = MacTo
    BY DEF B!MacRevTo, MacRevTo, B!MacTo, MacTo
  <2>. QED  BY <2>1, <2>2, <2>3 DEF B!timer_set
<1>6. timerB' = [timerB EXCEPT ![MacRevTo] = MacTo]
  <2>1. macRevB = [state |-> macRevB.state, pdu |-> macRevB.pdu, seq |-> macRevB.seq]
    BY DEF Receives, MacReceiver
  <2>2. CASE B!Accept(macRevB)
    BY <1>5, <2>1, <2>2
  <2>3. ASSUME NEW q, B!Accept([state |-> "RECEIVING", pdu |-> q, seq |-> B!MacMsg.frame.seq])
        PROVE  timerB' = [timerB EXCEPT ![MacRevTo] = MacTo]
    <3> DEFINE r == [state |-> "RECEIVING", pdu |-> q, seq |-> B!MacMsg.frame.seq]
    <3>1. B!Accept(r) /\ r = [state |-> r.state, pdu |-> r.pdu, seq |-> r.seq]
      BY <2>3
    <3> HIDE DEF r
    <3>. QED  BY <1>5, <3>1
  <2>. QED  BY <1>1, <1>3, <2>2, <2>3 DEF B!MacFrameRev, B!Fatal
<1>7. timerB'[MacRevTo] = MacTo
  BY <1>6, Tasks DEF Receives
<1>. QED  BY <1>4, <1>7

LEMMA BMacSteps ==
  ASSUME Receives, Owns, B!MacStep, SlotsFollow, UNCHANGED <<boardA, given, faults, size>>
  PROVE  MacOfB
<1> DEFINE box == mboxB["LINK_MAC"]
           m == Head(box)
<1>0. /\ box # <<>> /\ m \in HeardMsgs /\ UNCHANGED <<dueB, lineB>>
      /\ \/ UNCHANGED mboxB /\ Ignores(m)
         \/ B!Finish("LINK_MAC", B!NoPost) /\ (Ignores(m) \/ GivesUp(m))
         \/ /\ m.sig = "FRAME_REV"
            /\ \E q \in Pdu :
                 /\ Takes(q, m.frame)
                 /\ \/ /\ B!Finish("LINK_MAC", B!NoPost)
                       /\ macRevB' = [state |-> "RECEIVING", pdu |-> q, seq |-> m.frame.seq]
                    \/ /\ B!Finish("LINK_MAC", B!Post("LINK", PduMsg("REV_MSG", q)))
                       /\ macRevB' = [state |-> "IDLE", pdu |-> None, seq |-> m.frame.seq]
  BY BMacEffect
<1>a. UNCHANGED <<dueB, lineB, given, faults>> /\ AStays /\ RevClock
  BY <1>0, BMacClock DEF AStays, boardA, baseVars, macVars
<1>b. HeardMsg = m /\ Heard = m.frame
  BY DEF HeardMsg, Heard
<1>c. /\ m.sig \in {"FRAME_REV", "FRAME_REV_TO"} /\ B!MacHandling(m.sig) /\ macRevB.state \in {"IDLE", "RECEIVING"}
      /\ macRevB \in MacReceiver /\ Tail(box) # box
  <2>1. m.sig \in {"FRAME_REV", "FRAME_REV_TO"} /\ B!MacHandling(m.sig)
    BY BMacHandles
  <2>2. macRevB.state \in {"IDLE", "RECEIVING"}
    BY BFrames
  <2>3. box \in Seq(HeardMsgs) /\ macRevB \in MacReceiver
    BY DEF Receives
  <2>4. Len(Tail(box)) # Len(box)
    BY <1>0, <2>3
  <2>. QED  BY <2>1, <2>2, <2>3, <2>4
<1>e. /\ m.sig = "FRAME_REV" /\ mboxB' # mboxB =>
             \/ ~B!Opens /\ ~B!Continues /\ UNCHANGED macRevB
             \/ (macRevB'.state = "IDLE" <=> m.frame.fidx = m.frame.fnum - 1)
      /\ B!Opens <=> macRevB.state = "IDLE" /\ macRevB.seq # m.frame.seq
      /\ B!Continues <=> macRevB.state = "RECEIVING" /\ macRevB.seq = m.frame.seq
  BY BFrameEnds DEF B!Opens, B!Continues, B!MacMsg
<1> HIDE DEF m
<1>1. ASSUME B!Finish("LINK_MAC", B!NoPost)
      PROVE  /\ mboxB'["LINK_MAC"] = Tail(box) /\ mboxB'["LINK"] = mboxB["LINK"]
             /\ mboxB'["LINK_PHY"] = mboxB["LINK_PHY"] /\ mboxB' # mboxB
  <2>1. /\ mboxB'["LINK_MAC"] = Tail(box) /\ mboxB'["LINK"] = mboxB["LINK"]
        /\ mboxB'["LINK_PHY"] = mboxB["LINK_PHY"]
    BY <1>0, <1>1, BFinishes, Tasks
  <2>. QED  BY <1>c, <2>1
<1>2. CASE UNCHANGED mboxB /\ Ignores(m)
  <2>1. UNCHANGED <<mboxB, macRevB, slots>> /\ mboxB'["LINK_PHY"] = mboxB["LINK_PHY"]
    BY <1>2, BSlotsStay DEF Ignores, m
  <2>. QED  BY <1>0, <1>a, <1>b, <2>1 DEF MacOfB
<1>3. CASE B!Finish("LINK_MAC", B!NoPost) /\ Ignores(m)
  <2>1. UNCHANGED <<poolB, macRevB, slots>>
    BY <1>3, BSlotsStay DEF Ignores, m
  <2>2. ASSUME m.sig = "FRAME_REV"
        PROVE  \/ macRevB.state = "IDLE" /\ macRevB.seq = m.frame.seq
               \/ macRevB.state = "RECEIVING" /\ macRevB.seq # m.frame.seq
    <3>1. ~B!Continues
      BY <1>3, <1>e, <2>2 DEF Ignores
    <3>2. CASE ~B!Opens
      BY <1>c, <1>e, <3>1, <3>2
    <3>3. CASE B!Opens
      <4>1. ~(poolB' = poolB)
        BY <1>1, <1>3, <2>2, <3>3, BOpenTakes DEF m
      <4>. QED  BY <2>1, <4>1
    <3>. QED  BY <3>2, <3>3
  <2>3. MacPasses
    BY <1>1, <1>3, <1>b, <2>1, <2>2 DEF MacPasses
  <2>. QED  BY <1>0, <1>1, <1>3, <1>a, <1>b, <2>3 DEF MacOfB
<1>4. CASE B!Finish("LINK_MAC", B!NoPost) /\ GivesUp(m)
  <2>1. slots' = [slots EXCEPT ![macRevB.pdu] = {}]
    BY <1>4, BSlotsGivesUp DEF m
  <2>2. MacForgets
    BY <1>1, <1>4, <1>b, <2>1 DEF MacForgets, GivesUp
  <2>. QED  BY <1>0, <1>1, <1>4, <1>a, <1>b, <2>2 DEF MacOfB
<1>5. ASSUME m.sig = "FRAME_REV", NEW q \in Pdu, Takes(q, m.frame)
      PROVE  slots' = [slots EXCEPT ![q] = @ \cup {m.frame}]
  BY <1>b, <1>c, <1>5, BSlotsTake
<1>6. ASSUME m.sig = "FRAME_REV", NEW q \in Pdu, Takes(q, m.frame)
      PROVE  B!Opens \/ B!Continues
  BY <1>e, <1>6 DEF Takes
<1>7. ASSUME m.sig = "FRAME_REV", NEW q \in Pdu, Takes(q, m.frame), B!Finish("LINK_MAC", B!NoPost),
             macRevB' = [state |-> "RECEIVING", pdu |-> q, seq |-> m.frame.seq]
      PROVE  MacOfB
  <2>1. macRevB'.state = "RECEIVING"
    BY <1>7
  <2>2. m.frame.fidx # m.frame.fnum - 1
    BY <1>1, <1>6, <1>7, <1>e, <2>1
  <2>3. MacTakes(q)
    BY <1>1, <1>5, <1>7, <1>b, <2>2 DEF MacTakes
  <2>. QED  BY <1>0, <1>1, <1>7, <1>a, <1>b, <2>3 DEF MacOfB
<1>8. ASSUME m.sig = "FRAME_REV", NEW q \in Pdu, Takes(q, m.frame),
             B!Finish("LINK_MAC", B!Post("LINK", PduMsg("REV_MSG", q))),
             macRevB' = [state |-> "IDLE", pdu |-> None, seq |-> m.frame.seq]
      PROVE  MacOfB
  <2>h. PICK r : r = PduMsg("REV_MSG", q)
    OBVIOUS
  <2>0. r \in BMsgs
    BY <2>h, BFields
  <2>1. /\ mboxB'["LINK_MAC"] = Tail(box) /\ mboxB'["LINK"] = Append(mboxB["LINK"], r)
        /\ mboxB'["LINK_PHY"] = mboxB["LINK_PHY"]
    BY <1>0, <1>8, <2>h, <2>0, BPosts, Tasks
  <2>2. m.frame.fidx = m.frame.fnum - 1
    <3>1. macRevB'.state = "IDLE" /\ mboxB' # mboxB
      BY <1>8, <1>c, <2>1
    <3>. QED  BY <1>6, <1>8, <1>e, <3>1
  <2>3. MacTakes(q)
    BY <1>5, <1>8, <1>b, <2>h, <2>1, <2>2 DEF MacTakes
  <2>. QED  BY <1>0, <1>8, <1>a, <1>b, <2>1, <2>3 DEF MacOfB
<1>. QED  BY <1>0, <1>2, <1>3, <1>4, <1>7, <1>8

LEMMA BLinkSteps ==
  ASSUME Receives, Owns, B!LinkStep, UNCHANGED <<boardA, faults, size>>,
         given' = Append(given, slots[B!LinkMsg.pdu]),
         slots' = [slots EXCEPT ![B!LinkMsg.pdu] = {}]
  PROVE  LinkOfB
<1> DEFINE box == mboxB["LINK"]
<1>a. /\ box \in Seq(RevMsgs) /\ fsmB["LINK"] = "handle" /\ mboxB \in [Task -> Seq(BMsgs)]
  BY Tasks DEF Receives
<1>b. UNCHANGED macRevB
  BY DEF B!LinkStep, B!macVars
<1>c. box # <<>>
  BY DEF B!LinkStep, B!LinkNext, B!LinkInit, B!LinkStart, B!LinkDrop, B!LinkSendMsg, B!LinkSendDone,
         B!LinkSendErr, B!LinkRevMsg, B!Drop, B!LinkHandling, B!Handling
<1>d. Head(box).sig = "REV_MSG" /\ Head(box).pdu = Told(1) /\ 1 \in 1..Len(box)
  <2>1. Head(box) \in RevMsgs /\ 1 \in 1..Len(box) /\ Head(box) = box[1]
    BY <1>a, <1>c
  <2>. QED  BY <2>1, BFields DEF Told
<1>e. poolB[Told(1)] # 0
  BY <1>d DEF Owns
<1>1. ASSUME \/ B!LinkInit \/ B!LinkStart \/ B!LinkDrop \/ B!LinkSendMsg \/ B!LinkSendDone \/ B!LinkSendErr
      PROVE  FALSE
  BY <1>1, <1>a, <1>d DEF B!LinkInit, B!LinkStart, B!LinkDrop, B!LinkSendMsg, B!LinkSendDone,
         B!LinkSendErr, B!Drop, B!LinkHandling, B!Handling
<1>2. B!LinkMsg.pdu = Told(1)
  BY <1>d DEF B!LinkMsg
<1>3. B!link_pdu_free(Told(1), "LINK_PDU 03")
  <2>1. B!LinkRevMsg
    BY <1>1 DEF B!LinkStep, B!LinkNext
  <2>. QED  BY <1>2, <2>1 DEF B!LinkRevMsg
<1>4. B!Finish("LINK", B!NoPost) /\ UNCHANGED <<timerB, dueB, lineB>>
  BY <1>3, <1>e DEF B!link_pdu_free
<1>5. /\ mboxB'["LINK"] = Tail(box) /\ mboxB'["LINK_MAC"] = mboxB["LINK_MAC"]
      /\ mboxB'["LINK_PHY"] = mboxB["LINK_PHY"]
  BY <1>4, <1>c, BFinishes, Tasks
<1>6. AStays
  BY DEF AStays, boardA, baseVars, macVars
<1>. QED  BY <1>b, <1>c, <1>2, <1>4, <1>5, <1>6 DEF LinkOfB

LEMMA BPhySteps ==
  ASSUME Receives, B!PhyStep, UNCHANGED <<boardA, faults, size, slots, given>>
  PROVE  PhyOfB
<1>1. AStays
  BY DEF AStays, boardA, baseVars, macVars
<1>2. \A m \in WireMsgs : m \in Asks <=> m.sig = "FRAME_REV" /\ m.frame.type = "REQ"
  BY WireKinds
<1>3. \A m \in WireMsgs : m \in Broken => m \notin Asks
  BY WireKinds
<1>. QED  BY <1>1, <1>2, <1>3, BPhyEffect, BPhyAnswers DEF PhyOfB, WireMsg

LEMMA StepASteps ==
  ASSUME IInv, Safe, Agenda, Answers, StepA
  PROVE  PhyOfA \/ MacOfA \/ LinkOfA
<1>0. UNCHANGED <<faults, size>> /\ BStays
  BY DEF StepA, BStays
<1>1. CASE PhyStep
  BY <1>0, <1>1, PhyEffect DEF PhyOfA
<1>2. CASE MacStep
  BY <1>0, <1>2, MacEffect DEF MacOfA
<1>3. CASE (LinkSendMsg \/ LinkSendDone \/ LinkSendErr) /\ UNCHANGED <<phy, macVars, late>>
  BY <1>0, <1>3, LinkEffect DEF LinkOfA, macVars
<1>. QED  BY <1>1, <1>2, <1>3 DEF StepA, IsTold

LEMMA PairStepsCover ==
  ASSUME PairInv, Safe, Answers, faults \in Nat, [PairNext]_pairVars
  PROVE  PairSteps
<1>a. IInv /\ Agenda /\ Receives /\ Owns
  BY DEF PairInv
<1>1. CASE Sends
  <2>1. PICK n \in 1..MaxFrames :
          /\ Arrives("LINK", [sig |-> "SEND_MSG", frames |-> n]) /\ size' = Append(size, n)
    BY <1>1 DEF Sends
  <2>2. Requests(n)
    BY <1>1, <2>1 DEF Sends, Arrives, Requests, BStays, macVars
  <2>. QED  BY <2>2 DEF PairSteps
<1>2. CASE StepA
  BY <1>a, <1>2, StepASteps DEF PairSteps
<1>3. CASE StepB
  <2>0. UNCHANGED <<boardA, faults, size>>
    BY <1>3 DEF StepB
  <2>1. CASE B!PhyStep /\ UNCHANGED <<slots, given>>
    BY <1>a, <2>0, <2>1, BPhySteps DEF PairSteps
  <2>2. CASE B!MacStep /\ SlotsFollow /\ UNCHANGED given
    BY <1>a, <2>0, <2>2, BMacSteps DEF PairSteps
  <2>3. CASE /\ B!LinkStep /\ given' = Append(given, slots[B!LinkMsg.pdu])
             /\ slots' = [slots EXCEPT ![B!LinkMsg.pdu] = {}]
    BY <1>a, <2>0, <2>3, BLinkSteps DEF PairSteps
  <2>. QED  BY <1>3, <2>1, <2>2, <2>3 DEF StepB, SlotsFollow
<1>4. CASE Carry
  <2>0. due = {} /\ dueB = {} /\ UNCHANGED <<size, slots, given>>
    BY <1>4 DEF Carry
  <2>n. /\ One("FRAME_REV" = "FRAME_REV_CS_ERR") = 0 /\ One("FRAME_REV_CS_ERR" = "FRAME_REV_CS_ERR") = 1
    BY DEF One
  <2>1. CASE CarryToB
    <3>1. /\ line # <<>> /\ line' = Tail(line)
          /\ UNCHANGED <<mbox, pool, timer, due, phy, macSend, pduFifo, macRev>>
          /\ UNCHANGED <<poolB, timerB, dueB, lineB, macRevB>>
      BY <2>1 DEF CarryToB, macVars
    <3>2. \/ \E q \in {"FRAME_REV", "FRAME_REV_CS_ERR"} :
               /\ mboxB' = [mboxB EXCEPT !["LINK_PHY"] = Append(@, [sig |-> q, frame |-> Head(line)])]
               /\ faults' = faults + One(q = "FRAME_REV_CS_ERR")
          \/ mboxB' = mboxB /\ faults' = faults + 1
      <4>1. Carried(mboxB, Head(line))
        BY <2>1 DEF CarryToB
      <4>2. faults + 0 = faults
        OBVIOUS
      <4>. QED  BY <2>n, <4>1, <4>2 DEF Carried, Fault
    <3>. QED  BY <2>0, <3>1, <3>2 DEF ReachesB, PairSteps
  <2>2. CASE CarryToA
    <3>1. /\ lineB # <<>> /\ lineB' = Tail(lineB)
          /\ UNCHANGED <<line, pool, timer, due, phy, macSend, pduFifo, macRev>>
          /\ UNCHANGED <<mboxB, poolB, timerB, dueB, macRevB>>
      BY <2>2 DEF CarryToA, macVars
    <3>2. \/ \E q \in {"FRAME_REV", "FRAME_REV_CS_ERR"} :
               /\ mbox' = [mbox EXCEPT !["LINK_PHY"] = Append(@, [sig |-> q, frame |-> Head(lineB)])]
               /\ faults' = faults + One(q = "FRAME_REV_CS_ERR")
          \/ mbox' = mbox /\ faults' = faults + 1
      <4>1. Carried(mbox, Head(lineB))
        BY <2>2 DEF CarryToA
      <4>. QED  BY <2>n, <4>1 DEF Carried, Fault
    <3>. QED  BY <2>0, <3>1, <3>2 DEF ReachesA, PairSteps
  <2>. QED  BY <1>4, <2>1, <2>2 DEF Carry
<1>5. CASE PairTick
  <2>1. dueB' \subseteq {MacRevTo}
    <3>1. \A k \in TimerKey : timerB[k] = 1 => k = MacRevTo
      BY <1>a DEF Receives, TimerKey
    <3>. QED  BY <1>5, <3>1 DEF PairTick
  <2>2. faults' = faults + One(line # <<>> \/ lineB # <<>>)
    BY <1>5 DEF PairTick, Fault, One
  <2>c. /\ MacRevTo \in dueB' <=> timerB[MacRevTo] = 1
        /\ timerB'[MacRevTo] = IF timerB[MacRevTo] = 0 THEN 0 ELSE timerB[MacRevTo] - 1
    BY <1>5, Tasks DEF PairTick, TimerKey
  <2>3. Ticks
    BY <1>5, <2>1, <2>2, <2>c DEF PairTick, Ticks, macVars
  <2>. QED  BY <2>3 DEF PairSteps
<1>6. CASE PairExpire
  <2>0. UNCHANGED <<faults, size, slots, given>>
    BY <1>6 DEF PairExpire
  <2>1. ASSUME NEW k \in TimerKey, Expire(k), UNCHANGED boardB
        PROVE  PairSteps
    <3>1. k = PhySendTo
      BY <2>1 DEF Expire, TimerKey, Answers, Safe, MacTimer
    <3>2. ExpiresA
      BY <2>0, <2>1, <3>1 DEF Expire, ExpiresA, BStays, macVars, PhySendTo
    <3>. QED  BY <3>2 DEF PairSteps
  <2>2. ASSUME NEW k \in TimerKey, B!Expire(k), UNCHANGED boardA
        PROVE  PairSteps
    <3>1. k = MacRevTo
      BY <1>a, <2>2 DEF B!Expire, Receives
    <3>2. ExpiresB
      BY <2>0, <2>2, <3>1 DEF B!Expire, ExpiresB, AStays, boardA, baseVars, macVars, B!macVars, MacRevTo
    <3>. QED  BY <3>2 DEF PairSteps
  <2>. QED  BY <1>6, <2>1, <2>2 DEF PairExpire, ExpireA, ExpireB
<1>7. CASE UNCHANGED pairVars
  <2>1. Idles
    BY <1>7 DEF pairVars, boardA, baseVars, macVars, Idles, AStays, BStays
  <2>. QED  BY <2>1 DEF PairSteps
<1>. QED  BY <1>1, <1>2, <1>3, <1>4, <1>5, <1>6, <1>7 DEF PairNext

(* The sender of A stays in order, whatever arrives. *)
LEMMA PairSafe ==
  ASSUME PairInv, Safe, [PairNext]_pairVars
  PROVE  Safe'
<1>a. IInv /\ Receives /\ Boxes
  BY DEF PairInv, IInv, Types
<1>k. UNCHANGED <<mbox, fsm, pool, timer, due, fatal, phy, macSend, pduFifo, macRev>> => Safe'
  <2>1. UNCHANGED <<mbox, fsm, pool, timer, due, fatal, phy, macSend, pduFifo, macRev>>
          => fsm'["LINK_MAC"] = fsm["LINK_MAC"]
    OBVIOUS
  <2>. QED  BY <2>1, AllKept
<1>1. CASE Sends
  <2>1. ClientSends
    BY <1>1 DEF Sends, ClientSends
  <2>. QED  BY <1>a, <2>1, ClientSafe
<1>2. CASE StepA
  <2>1. PhyStep \/ MacStep \/ LinkStep
    BY <1>2 DEF StepA, IsTold, LinkStep, LinkNext
  <2>. QED  BY <1>a, <2>1, PhySafe, MacSafe, LinkSafe
<1>3. CASE StepB
  BY <1>3, <1>k DEF StepB, boardA, baseVars, macVars
<1>4. CASE Carry
  <2>0. due = {}
    BY <1>4 DEF Carry
  <2>1. CASE CarryToB
    BY <2>1, <1>k DEF CarryToB, macVars
  <2>2. CASE CarryToA
    <3>0. /\ UNCHANGED <<fsm, pool, timer, due, fatal, phy, macSend, pduFifo, macRev>>
          /\ lineB # <<>> /\ Carried(mbox, Head(lineB))
      BY <2>2 DEF CarryToA, macVars
    <3>1. Head(lineB) \in PhyFrame
      BY <1>a, <3>0 DEF Receives
    <3>2. ASSUME NEW q \in {"FRAME_REV", "FRAME_REV_CS_ERR"},
                 mbox' = [mbox EXCEPT !["LINK_PHY"] = Append(@, [sig |-> q, frame |-> Head(lineB)])]
          PROVE  Safe'
      <4>1. PICK m : m = [sig |-> q, frame |-> Head(lineB)]
        OBVIOUS
      <4>2. m \in PhyMsgs /\ m.sig \in {"FRAME_REV", "FRAME_REV_CS_ERR"}
        BY <3>1, <4>1, Posted
      <4>. QED  BY <1>a, <2>0, <3>0, <3>2, <4>1, <4>2, ComesSafe
    <3>3. mbox' = mbox => Safe'
      BY <1>k, <3>0
    <3>. QED  BY <3>0, <3>2, <3>3 DEF Carried
  <2>. QED  BY <1>4, <2>1, <2>2 DEF Carry
<1>5. CASE PairTick
  <2>1. /\ due = {} /\ due' = {k \in TimerKey : timer[k] = 1}
        /\ timer' = [k \in TimerKey |-> IF timer[k] = 0 THEN 0 ELSE timer[k] - 1]
        /\ UNCHANGED <<mbox, fsm, pool, fatal, phy, macSend, pduFifo, macRev>>
        /\ \A t \in Task : mbox[t] = <<>>
    BY <1>5 DEF PairTick, Idle, macVars
  <2>. QED  BY <1>a, <2>1, TickedSafe
<1>6. CASE PairExpire
  <2>1. ASSUME NEW k \in TimerKey, Expire(k)
        PROVE  Safe'
    BY <1>a, <2>1, ExpireSafe
  <2>2. UNCHANGED boardA => Safe'
    BY <1>k DEF boardA, baseVars, macVars
  <2>. QED  BY <1>6, <2>1, <2>2 DEF PairExpire, ExpireA, ExpireB
<1>7. CASE UNCHANGED pairVars
  BY <1>7, <1>k DEF pairVars, boardA, baseVars, macVars
<1>. QED  BY <1>1, <1>2, <1>3, <1>4, <1>5, <1>6, <1>7 DEF PairNext

-----------------------------------------------------------------------------
LEMMA TailAt ==
  ASSUME NEW S, NEW s \in Seq(S), s # <<>>
  PROVE  /\ Head(s) = s[1] /\ Head(s) \in S /\ Tail(s) \in Seq(S) /\ 1 \in 1..Len(s)
         /\ Len(s) \in Nat /\ Len(Tail(s)) \in Nat /\ Len(Tail(s)) + 1 = Len(s)
         /\ \A i \in 1..Len(Tail(s)) : i + 1 \in 1..Len(s) /\ Tail(s)[i] = s[i + 1] /\ i \in Nat /\ 1 <= i
         /\ \A i \in 1..Len(s) : i = 1 \/ (i - 1 \in 1..Len(Tail(s)) /\ s[i] = Tail(s)[i - 1])
  OBVIOUS

LEMMA AppendAt ==
  ASSUME NEW S, NEW s \in Seq(S), NEW x \in S
  PROVE  /\ Append(s, x) \in Seq(S) /\ Len(s) \in Nat /\ Len(Append(s, x)) = Len(s) + 1
         /\ \A i \in 1..Len(s) : i \in 1..Len(Append(s, x)) /\ Append(s, x)[i] = s[i] /\ i <= Len(s)
         /\ Append(s, x)[Len(s) + 1] = x /\ Len(s) + 1 \in 1..Len(Append(s, x))
         /\ \A i \in 1..Len(Append(s, x)) : i \in 1..Len(s) \/ i = Len(s) + 1
  OBVIOUS

LEMMA BaseFacts ==
  ASSUME Base
  PROVE  /\ IInv /\ Agenda /\ Receives /\ Owns /\ Safe /\ Answers /\ Punctual /\ Boxes
         /\ line \in Seq(PhyFrame) /\ lineB \in Seq(PhyFrame)
         /\ \A t \in Task : mbox[t] \in Seq(AllMsgs)
         /\ mbox["LINK"] \in Seq(LinkMsgs) /\ mbox["LINK_MAC"] \in Seq(MacMsgs)
         /\ mbox["LINK_PHY"] \in Seq(PhyMsgs)
         /\ mboxB["LINK"] \in Seq(RevMsgs) /\ mboxB["LINK_MAC"] \in Seq(HeardMsgs)
         /\ mboxB["LINK_PHY"] \in Seq(WireMsgs)
         /\ phy \in PhyState /\ phy.retry \in Nat /\ phy.seq \in 0 .. PhySeqMod - 1
         /\ faults \in Nat /\ size \in Seq(1..MaxFrames)
<1>1. /\ IInv /\ Agenda /\ Receives /\ Owns /\ Safe /\ Answers /\ Punctual /\ Boxes
      /\ size \in Seq(1..MaxFrames) /\ faults \in Nat
  BY DEF Base, PairInv, IInv, Types, Agenda
<1>2. /\ line \in Seq(PhyFrame) /\ (\A t \in Task : mbox[t] \in Seq(AllMsgs)) /\ phy \in PhyState
  BY <1>1, Upstream
<1>3. /\ mbox["LINK"] \in Seq(LinkMsgs) /\ mbox["LINK_MAC"] \in Seq(MacMsgs)
      /\ mbox["LINK_PHY"] \in Seq(PhyMsgs)
  BY <1>1, Tasks DEF Boxes
<1>4. phy.retry \in Counter /\ phy.seq \in 0 .. PhySeqMod - 1
  BY <1>2 DEF PhyState
<1>5. phy.retry \in Nat
  BY <1>4 DEF Counter
<1>. QED  BY <1>1, <1>2, <1>3, <1>4, <1>5 DEF Receives

LEMMA CountQuiet ==
  ASSUME Base, NEW m \in AllMsgs, m.sig \notin {"FRAME_REV", "FRAME_REV_TO"}
  PROVE  /\ Cnt(Append(mbox["LINK_MAC"], m), {"FRAME_REV", "FRAME_REV_TO"}) = 0
         /\ mbox["LINK_MAC"] # <<>> =>
              /\ Cnt(Tail(mbox["LINK_MAC"]), {"FRAME_REV", "FRAME_REV_TO"}) = 0
              /\ Cnt(Append(Tail(mbox["LINK_MAC"]), m), {"FRAME_REV", "FRAME_REV_TO"}) = 0
<1> DEFINE box == mbox["LINK_MAC"]
           R == {"FRAME_REV", "FRAME_REV_TO"}
<1>1. box \in Seq(AllMsgs) /\ Cnt(box, R) = 0
  BY BaseFacts, Tasks DEF Answers
<1>2. \A i \in 1..Len(box) : box[i].sig \notin R
  BY <1>1, CntZero
<1> HIDE DEF box
<1>3. Cnt(Append(box, m), R) = 0
  <2>1. \A i \in 1..Len(Append(box, m)) : Append(box, m)[i].sig \notin R
    BY <1>1, <1>2, AppendAt
  <2>2. Append(box, m) \in Seq(AllMsgs)
    BY <1>1
  <2>. QED  BY <2>1, <2>2, CntZero
<1>4. ASSUME box # <<>> PROVE Cnt(Tail(box), R) = 0 /\ Cnt(Append(Tail(box), m), R) = 0
  <2> DEFINE t == Tail(box)
  <2>1. t \in Seq(AllMsgs) /\ \A i \in 1..Len(t) : t[i].sig \notin R
    BY <1>1, <1>2, <1>4, TailAt
  <2>2. \A i \in 1..Len(Append(t, m)) : Append(t, m)[i].sig \notin R
    BY <2>1, AppendAt
  <2>3. Append(t, m) \in Seq(AllMsgs)
    BY <2>1
  <2>. QED  BY <2>1, <2>2, <2>3, CntZero
<1>. QED  BY <1>3, <1>4 DEF box

LEMMA PhyAnswersKept ==
  ASSUME Base, NEW m \in PhyMsgs, m \notin Asks
  PROVE  /\ \A i \in 1..Len(Append(mbox["LINK_PHY"], m)) : Append(mbox["LINK_PHY"], m)[i] \notin Asks
         /\ mbox["LINK_PHY"] # <<>> => \A i \in 1..Len(Tail(mbox["LINK_PHY"])) : Tail(mbox["LINK_PHY"])[i] \notin Asks
<1>1. /\ mbox["LINK_PHY"] \in Seq(PhyMsgs)
      /\ \A i \in 1..Len(mbox["LINK_PHY"]) : mbox["LINK_PHY"][i] \notin Asks
  BY BaseFacts DEF Answers
<1>2. \A i \in 1..Len(Append(mbox["LINK_PHY"], m)) : Append(mbox["LINK_PHY"], m)[i] \notin Asks
  BY <1>1, AppendAt
<1>3. mbox["LINK_PHY"] # <<>> => \A i \in 1..Len(Tail(mbox["LINK_PHY"])) : Tail(mbox["LINK_PHY"])[i] \notin Asks
  BY <1>1, TailAt
<1>. QED  BY <1>2, <1>3

LEMMA AnswersKept ==
  ASSUME Base, PairSteps
  PROVE  Answers'
<1>a. /\ Receives /\ Answers /\ Safe /\ lineB \in Seq(PhyFrame) /\ Boxes
      /\ mbox["LINK_PHY"] \in Seq(PhyMsgs) /\ mbox["LINK_MAC"] \in Seq(MacMsgs)
      /\ timer \in [TimerKey -> 0..MacTo]
  BY BaseFacts DEF IInv, Types, TypeOK
<1> DEFINE L == \A i \in 1..Len(lineB) : lineB[i].type # "REQ"
           X == \A i \in 1..Len(mbox["LINK_PHY"]) : mbox["LINK_PHY"][i] \notin Asks
           M == Cnt(mbox["LINK_MAC"], {"FRAME_REV", "FRAME_REV_TO"}) = 0
           T == macRev.state = "IDLE" /\ timer[MacRevTo] = 0 /\ MacRevTo \notin due
<1>b. L /\ X /\ M /\ T
  BY <1>a DEF Answers
<1>c. SUFFICES L' /\ X' /\ M' /\ T'
  BY DEF Answers
<1>d. lineB' = lineB => L'
  BY <1>b
<1>e. mbox'["LINK_PHY"] = mbox["LINK_PHY"] => X'
  BY <1>b
<1>f. mbox'["LINK_MAC"] = mbox["LINK_MAC"] => M'
  BY <1>b
<1>g. macRev' = macRev /\ timer'[MacRevTo] = timer[MacRevTo] /\ due' \subseteq due => T'
  BY <1>b
<1>h. mbox["LINK_PHY"] # <<>> /\ mbox'["LINK_PHY"] = Tail(mbox["LINK_PHY"]) => X'
  <2>1. PICK m \in PhyMsgs : m = [sig |-> "FRAME_SEND_TO"]
    BY Posted
  <2>2. m \notin Asks
    BY <2>1 DEF Asks
  <2>. QED  BY <2>1, <2>2, PhyAnswersKept
<1>i. ASSUME NEW m \in PhyMsgs, m \notin Asks, mbox'["LINK_PHY"] = Append(mbox["LINK_PHY"], m)
      PROVE  X'
  BY <1>i, PhyAnswersKept
<1>j. ASSUME NEW m \in MacMsgs, m.sig \notin {"FRAME_REV", "FRAME_REV_TO"},
             \/ mbox'["LINK_MAC"] = Append(mbox["LINK_MAC"], m)
             \/ mbox["LINK_MAC"] # <<>> /\ mbox'["LINK_MAC"] = Tail(mbox["LINK_MAC"])
             \/ mbox["LINK_MAC"] # <<>> /\ mbox'["LINK_MAC"] = Append(Tail(mbox["LINK_MAC"]), m)
      PROVE  M'
  BY <1>j, CountQuiet DEF AllMsgs
<1>k. boardB' = boardB => lineB' = lineB
  BY DEF boardB
<1> HIDE DEF L, X, M, T
<1>1. CASE PhyOfA
  <2>1. /\ mbox["LINK_PHY"] # <<>> /\ mbox'["LINK_PHY"] = Tail(mbox["LINK_PHY"])
        /\ UNCHANGED <<due, macRev>> /\ lineB' = lineB
    BY <1>1, <1>k DEF PhyOfA, BStays
  <2>2. /\ timer'[MacRevTo] = timer[MacRevTo]
        /\ \/ mbox'["LINK_MAC"] = mbox["LINK_MAC"]
           \/ \E q \in {"FRAME_SEND_ERR", "FRAME_SEND_DONE"} :
                mbox'["LINK_MAC"] = Append(mbox["LINK_MAC"], [sig |-> q])
    <3>1. \A n : timer' = [timer EXCEPT ![PhySendTo] = n] => timer'[MacRevTo] = timer[MacRevTo]
      BY <1>a, Tasks
    <3>. QED  BY <1>1, <3>1 DEF PhyOfA, PhyBegins, PhyAgain, PhyFails, PhySucceeds, PhyPasses, PhyObjects,
                                Transmits, PhyAnswered
  <2>3. M'
    <3>1. ASSUME NEW q \in {"FRAME_SEND_ERR", "FRAME_SEND_DONE"},
                 mbox'["LINK_MAC"] = Append(mbox["LINK_MAC"], [sig |-> q])
          PROVE  M'
      <4>1. PICK m \in MacMsgs : m = [sig |-> q]
        BY Posted
      <4>. QED  BY <1>j, <3>1, <4>1
    <3>. QED  BY <1>f, <2>2, <3>1
  <2>4. due' \subseteq due
    BY <2>1
  <2>. QED  BY <1>d, <1>g, <1>h, <2>1, <2>2, <2>3, <2>4
<1>2. CASE MacOfA
  <2>1. /\ mbox["LINK_MAC"] # <<>> /\ MacMsg \in MacMsgs
        /\ UNCHANGED <<due, macRev>> /\ lineB' = lineB /\ timer'[MacRevTo] = timer[MacRevTo]
    BY <1>2, <1>k DEF MacOfA, BStays
  <2>2. \/ mbox'["LINK_MAC"] = Tail(mbox["LINK_MAC"])
        \/ \E p \in Pdu : mbox'["LINK_MAC"] = Append(Tail(mbox["LINK_MAC"]), PduMsg("FRAME_SEND_START", p))
    <3>1. MacMsg.sig = "FRAME_SEND_REQ" => MacMsg.pdu \in Pdu
      BY <2>1, MsgFields
    <3>2. pduFifo # <<>> => Head(pduFifo) \in Pdu
      BY BaseFacts, Upstream
    <3>. QED  BY <1>2, <3>1, <3>2 DEF MacOfA, MacOrders, MacDefers, MacFirst, MacGoesOn, MacRepeats, MacSucceeds,
                     MacAbandons, MacIsDone, MacSends
  <2>3. M'
    <3>1. PICK n \in MacMsgs : n = [sig |-> "FRAME_SEND_DONE"]
      BY Posted
    <3>2. \A p \in Pdu : PduMsg("FRAME_SEND_START", p) \in MacMsgs /\ PduMsg("FRAME_SEND_START", p).sig = "FRAME_SEND_START"
      BY Posted DEF PduMsg
    <3>. QED  BY <1>j, <2>1, <2>2, <3>1, <3>2
  <2>4. \/ mbox'["LINK_PHY"] = mbox["LINK_PHY"]
        \/ \E f : mbox'["LINK_PHY"] = Append(mbox["LINK_PHY"], [sig |-> "FRAME_SEND_REQ", frame |-> f])
    BY <1>2 DEF MacOfA, MacOrders, MacDefers, MacFirst, MacGoesOn, MacRepeats, MacSucceeds,
                     MacAbandons, MacIsDone, MacSends
  <2>5. X'
    <3>1. ASSUME NEW f, mbox'["LINK_PHY"] = Append(mbox["LINK_PHY"], [sig |-> "FRAME_SEND_REQ", frame |-> f])
          PROVE  X'
      <4>1. PICK m : m = [sig |-> "FRAME_SEND_REQ", frame |-> f]
        OBVIOUS
      <4>2. m \notin Asks
        BY <4>1 DEF Asks
      <4>3. \A i \in 1..Len(Append(mbox["LINK_PHY"], m)) : Append(mbox["LINK_PHY"], m)[i] \notin Asks
        <5>1. mbox["LINK_PHY"] \in Seq(PhyMsgs \cup {m}) /\ m \in PhyMsgs \cup {m}
          BY <1>a
        <5>. QED  BY <1>b, <4>2, <5>1, AppendAt DEF X
      <4>. QED  BY <3>1, <4>1, <4>3 DEF X
    <3>. QED  BY <1>e, <2>4, <3>1
  <2>6. due' \subseteq due
    BY <2>1
  <2>. QED  BY <1>d, <1>g, <2>1, <2>3, <2>5, <2>6
<1>3. CASE LinkOfA
  <2>1. /\ UNCHANGED <<due, macRev, timer>> /\ lineB' = lineB
        /\ mbox'["LINK_PHY"] = mbox["LINK_PHY"]
    BY <1>3, <1>k DEF LinkOfA, BStays
  <2>2. \/ mbox'["LINK_MAC"] = mbox["LINK_MAC"]
        \/ \E p \in Pdu : mbox'["LINK_MAC"] = Append(mbox["LINK_MAC"], PduMsg("FRAME_SEND_REQ", p))
    BY <1>3 DEF LinkOfA, LinkReleases, LinkDies, LinkAccepts
  <2>3. M'
    <3>2. \A p \in Pdu : PduMsg("FRAME_SEND_REQ", p) \in MacMsgs /\ PduMsg("FRAME_SEND_REQ", p).sig = "FRAME_SEND_REQ"
      BY Posted DEF PduMsg
    <3>. QED  BY <1>f, <1>j, <2>2, <3>2
  <2>. QED  BY <1>d, <1>e, <1>g, <2>1, <2>3
<1>n. /\ \A t \in Task \ {"LINK_PHY"} : \A m : mbox' = [mbox EXCEPT !["LINK_PHY"] = Append(@, m)]
           => mbox'[t] = mbox[t]
      /\ \A m : mbox' = [mbox EXCEPT !["LINK_PHY"] = Append(@, m)]
           => mbox'["LINK_PHY"] = Append(mbox["LINK_PHY"], m)
  BY <1>a, Tasks DEF Boxes
<1>4. ASSUME NEW n \in 1..MaxFrames, Requests(n)
      PROVE  L' /\ X' /\ M' /\ T'
  <2>1. UNCHANGED <<due, macRev, timer>> /\ lineB' = lineB
    BY <1>4, <1>k DEF Requests, BStays
  <2>2. mbox'["LINK_PHY"] = mbox["LINK_PHY"] /\ mbox'["LINK_MAC"] = mbox["LINK_MAC"]
    BY <1>4, <1>a, Tasks DEF Requests, Boxes
  <2>. QED  BY <1>d, <1>e, <1>f, <1>g, <2>1, <2>2
<1>5. CASE ExpiresA
  <2>1. UNCHANGED <<macRev, timer>> /\ lineB' = lineB /\ due' \subseteq due
    BY <1>5, <1>k DEF ExpiresA, BStays
  <2>2. PICK m \in PhyMsgs : m = [sig |-> "FRAME_SEND_TO"]
    BY Posted
  <2>3. mbox' = [mbox EXCEPT !["LINK_PHY"] = Append(@, m)] /\ m \notin Asks
    BY <1>5, <2>2 DEF ExpiresA, Asks
  <2>. QED  BY <1>d, <1>f, <1>g, <1>i, <1>n, <2>1, <2>3, Tasks
<1>6. CASE ReachesA
  <2>1. UNCHANGED <<macRev, timer>> /\ lineB # <<>> /\ lineB' = Tail(lineB) /\ due' \subseteq due
    BY <1>6 DEF ReachesA
  <2>2. L'
    BY <1>a, <1>b, <2>1, TailAt DEF L
  <2>3. Head(lineB) \in PhyFrame /\ Head(lineB).type # "REQ"
    BY <1>a, <1>b, <2>1, TailAt DEF L
  <2>4. ASSUME NEW q \in {"FRAME_REV", "FRAME_REV_CS_ERR"},
               mbox' = [mbox EXCEPT !["LINK_PHY"] = Append(@, [sig |-> q, frame |-> Head(lineB)])]
        PROVE  X' /\ M'
    <3>1. PICK m \in PhyMsgs : m = [sig |-> q, frame |-> Head(lineB)]
      BY <2>3, Posted
    <3>2. m \notin Asks
      BY <2>3, <3>1 DEF Asks
    <3>. QED  BY <1>f, <1>i, <1>n, <2>4, <3>1, <3>2, Tasks
  <2>. QED  BY <1>6, <1>e, <1>f, <1>g, <2>1, <2>2, <2>4 DEF ReachesA
<1>7. CASE ReachesB \/ LinkOfB \/ MacOfB \/ ExpiresB \/ Idles
  <2>1. UNCHANGED <<mbox, macRev, timer, due>> /\ lineB' = lineB
    BY <1>7, <1>k DEF ReachesB, LinkOfB, MacOfB, ExpiresB, Idles, AStays, BStays
  <2>. QED  BY <1>d, <1>e, <1>f, <1>g, <2>1
<1>8. CASE Ticks
  <2>1. UNCHANGED <<mbox, macRev>> /\ lineB' = lineB
    BY <1>8 DEF Ticks
  <2>2. timer'[MacRevTo] = 0 /\ MacRevTo \notin due'
    BY <1>8, <1>b, Tasks DEF Ticks, T
  <2>. QED  BY <1>b, <1>d, <1>e, <1>f, <2>1, <2>2 DEF T
<1>9. CASE PhyOfB
  <2>1. UNCHANGED <<mbox, macRev, timer, due>> /\ WireMsg \in WireMsgs
    BY <1>9 DEF PhyOfB, AStays
  <2>2. WireMsg.frame.seq \in 0 .. PhySeqMod - 1
    BY <2>1, BFields DEF PhyFrame
  <2>3. \A t \in {"ACK", "NACK"} : lineB' = B!Written(Answer(t, WireMsg.frame.seq)) => L'
    <3>1. TAKE t \in {"ACK", "NACK"}
    <3>2. PICK f : f = Answer(t, WireMsg.frame.seq)
      OBVIOUS
    <3>3. f \in PhyFrame /\ f.type # "REQ"
      BY <2>2, <3>2, AnswersTyped
    <3>4. \A i \in 1..Len(B!Written(f)) : B!Written(f)[i].type # "REQ"
      BY <1>a, <1>b, <3>3, BWrittenFits DEF L
    <3>. QED  BY <3>2, <3>4 DEF L
  <2>4. L'
    BY <1>9, <1>d, <2>3 DEF PhyOfB
  <2>. QED  BY <1>e, <1>f, <1>g, <2>1, <2>4
<1>. QED  BY <1>1, <1>2, <1>3, <1>4, <1>5, <1>6, <1>7, <1>8, <1>9 DEF PairSteps

LEMMA PunctualKept ==
  ASSUME Base, PairSteps
  PROVE  Punctual'
<1>a. Receives /\ Punctual /\ mboxB["LINK_MAC"] \in Seq(HeardMsgs) /\ dueB \subseteq {MacRevTo}
      /\ mboxB \in [Task -> Seq(BMsgs)]
  BY BaseFacts DEF Receives
<1> DEFINE D == dueB # {} => mboxB["LINK_MAC"] = <<>> /\ mboxB["LINK_PHY"] = <<>>
           T == \A i \in 1..Len(mboxB["LINK_MAC"]) : mboxB["LINK_MAC"][i].sig = "FRAME_REV_TO" => i = 1
<1>b. D /\ T
  BY <1>a DEF Punctual
<1>c. SUFFICES D' /\ T'
  BY DEF Punctual
<1>1. mboxB'["LINK_MAC"] = mboxB["LINK_MAC"] => T'
  BY <1>b
<1>2. dueB' = {} => D'
  OBVIOUS
<1>3. UNCHANGED <<dueB>> /\ mboxB'["LINK_MAC"] = mboxB["LINK_MAC"] /\ mboxB'["LINK_PHY"] = mboxB["LINK_PHY"]
        => D' /\ T'
  BY <1>b
<1> HIDE DEF D, T
<1>4. CASE PhyOfA \/ MacOfA \/ LinkOfA \/ (\E n \in 1..MaxFrames : Requests(n)) \/ ExpiresA \/ Idles
  <2>1. UNCHANGED <<mboxB, dueB>>
    BY <1>4 DEF PhyOfA, MacOfA, LinkOfA, Requests, ExpiresA, Idles, BStays, boardB
  <2>. QED  BY <1>3, <2>1
<1>5. CASE ReachesA
  BY <1>3, <1>5 DEF ReachesA
<1>6. CASE ReachesB
  <2>1. dueB' = {}
    BY <1>6 DEF ReachesB
  <2>2. mboxB'["LINK_MAC"] = mboxB["LINK_MAC"]
    BY <1>6, <1>a, Tasks DEF ReachesB
  <2>. QED  BY <1>1, <1>2, <2>1, <2>2
<1>7. CASE Ticks
  <2>1. mboxB'["LINK_MAC"] = <<>> /\ mboxB'["LINK_PHY"] = <<>> /\ mboxB' = mboxB
    BY <1>7, Tasks DEF Ticks, Idle
  <2>. QED  BY <1>1, <2>1 DEF D
<1>8. CASE PhyOfB
  <2>1. dueB = {} /\ dueB' = dueB
    BY <1>8, <1>b DEF PhyOfB, D
  <2>2. T'
    <3>1. CASE mboxB'["LINK_MAC"] = Append(mboxB["LINK_MAC"], [sig |-> "FRAME_REV", frame |-> WireMsg.frame.mac])
      <4>1. PICK m : m = [sig |-> "FRAME_REV", frame |-> WireMsg.frame.mac]
        OBVIOUS
      <4>2. m.sig = "FRAME_REV" /\ mboxB["LINK_MAC"] \in Seq(HeardMsgs \cup {m}) /\ m \in HeardMsgs \cup {m}
        BY <1>a, <4>1
      <4>. QED  BY <1>b, <3>1, <4>1, <4>2, AppendAt DEF T
    <3>. QED  BY <1>1, <1>8, <3>1 DEF PhyOfB
  <2>. QED  BY <1>2, <2>1, <2>2
<1>9. CASE MacOfB
  <2>1. dueB = {} /\ dueB' = dueB
    BY <1>9, <1>b DEF MacOfB, D
  <2>2. T'
    <3>1. CASE mboxB'["LINK_MAC"] = Tail(mboxB["LINK_MAC"])
      <4>1. mboxB["LINK_MAC"] # <<>>
        BY <1>9 DEF MacOfB
      <4>2. \A i \in 1..Len(Tail(mboxB["LINK_MAC"])) : Tail(mboxB["LINK_MAC"])[i].sig # "FRAME_REV_TO"
        <5>1. TAKE i \in 1..Len(Tail(mboxB["LINK_MAC"]))
        <5>2. /\ i + 1 \in 1..Len(mboxB["LINK_MAC"]) /\ i \in Nat /\ 1 <= i
              /\ Tail(mboxB["LINK_MAC"])[i] = mboxB["LINK_MAC"][i + 1]
          BY <1>a, <4>1, TailAt
        <5>3. i + 1 # 1
          BY <5>2
        <5>. QED  BY <1>b, <5>2, <5>3 DEF T
      <4>. QED  BY <3>1, <4>2 DEF T
    <3>2. mboxB'["LINK_MAC"] = mboxB["LINK_MAC"] \/ mboxB'["LINK_MAC"] = Tail(mboxB["LINK_MAC"])
      BY <1>9 DEF MacOfB, MacPasses, MacForgets, MacTakes
    <3>. QED  BY <1>1, <3>1, <3>2
  <2>. QED  BY <1>2, <2>1, <2>2
<1>10. CASE LinkOfB
  BY <1>3, <1>10 DEF LinkOfB
<1>11. CASE ExpiresB
  <2>1. dueB' = {} /\ mboxB["LINK_MAC"] = <<>>
    BY <1>11, <1>a, <1>b DEF ExpiresB, D
  <2>2. PICK m \in HeardMsgs : m = [sig |-> "FRAME_REV_TO"]
    BY BFields
  <2>3. mboxB'["LINK_MAC"] = Append(<<>>, m)
    BY <1>11, <1>a, <2>1, <2>2, Tasks DEF ExpiresB
  <2>4. T'
    <3>1. Append(<<>>, m) = <<m>> /\ \A i \in 1..Len(<<m>>) : i = 1
      OBVIOUS
    <3>. QED  BY <2>3, <3>1 DEF T
  <2>. QED  BY <1>2, <2>1, <2>4
<1>. QED  BY <1>4, <1>5, <1>6, <1>7, <1>8, <1>9, <1>10, <1>11 DEF PairSteps

(* Faults are counted, and the count never falls. *)
LEMMA FaultsGrow ==
  ASSUME faults \in Nat, PairSteps
  PROVE  faults' \in Nat /\ faults <= faults' /\ faults' <= faults + 1
<1>1. \A b : One(b) \in 0..1
  BY DEF One
<1>2. \A n \in 0..1 : faults + n \in Nat /\ faults <= faults + n /\ faults + n <= faults + 1
  OBVIOUS
<1>3. faults' = faults \/ faults' = faults + 1 \/ (\E b : faults' = faults + One(b))
  BY DEF PairSteps, PhyOfA, MacOfA, LinkOfA, Requests, ExpiresA, ReachesA, ReachesB, Ticks,
         PhyOfB, MacOfB, LinkOfB, ExpiresB, Idles
<1>. QED  BY <1>1, <1>2, <1>3

LEMMA BaseSteps ==
  ASSUME Base, [PairNext]_pairVars
  PROVE  PairSteps /\ Base'
<1>1. PairInv /\ Safe /\ Answers /\ faults \in Nat
  BY DEF Base
<1>2. PairSteps
  BY <1>1, PairStepsCover
<1>3. PairInv' /\ Safe'
  BY <1>1, PairNextInv, PairSafe
<1>4. Answers' /\ Punctual' /\ faults' \in Nat
  BY <1>1, <1>2, AnswersKept, PunctualKept, FaultsGrow
<1>. QED  BY <1>2, <1>3, <1>4 DEF Base

(* What the ledger of faults looks at is not touched. *)
LedgerStays ==
  /\ UNCHANGED <<line, lineB, faults, phy>> /\ timer'[PhySendTo] = timer[PhySendTo]
  /\ mboxB'["LINK_PHY"] = mboxB["LINK_PHY"]
  /\ \/ mbox'["LINK_PHY"] = mbox["LINK_PHY"]
     \/ \E m : m \notin WireMsgs /\ mbox'["LINK_PHY"] = Append(mbox["LINK_PHY"], m)

LEMMA LedgerSteps ==
  ASSUME Base, PairSteps
  PROVE  LedgerStays \/ PhyOfA \/ PhyOfB \/ ReachesA \/ ReachesB \/ Ticks
<1>a. Boxes /\ mboxB \in [Task -> Seq(BMsgs)]
  BY BaseFacts DEF Receives
<1>b. BStays => UNCHANGED <<lineB, mboxB>>
  BY DEF BStays, boardB
<1>c. AStays => UNCHANGED <<line, phy, timer, mbox>>
  BY DEF AStays
<1>1. CASE MacOfA
  <2>1. /\ UNCHANGED <<line, lineB, faults, phy, mboxB>> /\ timer'[PhySendTo] = timer[PhySendTo]
    BY <1>1, <1>b DEF MacOfA
  <2>2. \/ mbox'["LINK_PHY"] = mbox["LINK_PHY"]
        \/ \E f : mbox'["LINK_PHY"] = Append(mbox["LINK_PHY"], [sig |-> "FRAME_SEND_REQ", frame |-> f])
    BY <1>1 DEF MacOfA, MacOrders, MacDefers, MacFirst, MacGoesOn, MacRepeats, MacSucceeds,
                     MacAbandons, MacIsDone, MacSends
  <2>3. \A f : [sig |-> "FRAME_SEND_REQ", frame |-> f] \notin WireMsgs
    BY DEF WireMsgs
  <2>. QED  BY <2>1, <2>2, <2>3 DEF LedgerStays
<1>2. CASE LinkOfA
  BY <1>2, <1>b DEF LinkOfA, LedgerStays
<1>3. ASSUME NEW n \in 1..MaxFrames, Requests(n) PROVE LedgerStays
  <2>1. mbox'["LINK_PHY"] = mbox["LINK_PHY"]
    BY <1>3, <1>a, Tasks DEF Requests, Boxes
  <2>. QED  BY <1>3, <2>1, <1>b DEF Requests, LedgerStays
<1>4. CASE ExpiresA
  <2>1. mbox'["LINK_PHY"] = Append(mbox["LINK_PHY"], [sig |-> "FRAME_SEND_TO"])
    BY <1>4, <1>a, Tasks DEF ExpiresA, Boxes
  <2>2. [sig |-> "FRAME_SEND_TO"] \notin WireMsgs
    BY DEF WireMsgs
  <2>. QED  BY <1>4, <2>1, <2>2, <1>b DEF ExpiresA, LedgerStays
<1>5. CASE MacOfB \/ LinkOfB \/ Idles
  BY <1>5, <1>b, <1>c DEF MacOfB, LinkOfB, Idles, LedgerStays
<1>6. CASE ExpiresB
  <2>1. mboxB'["LINK_PHY"] = mboxB["LINK_PHY"]
    BY <1>6, <1>a, Tasks DEF ExpiresB
  <2>. QED  BY <1>6, <2>1, <1>c DEF ExpiresB, LedgerStays
<1>. QED  BY <1>1, <1>2, <1>3, <1>4, <1>5, <1>6 DEF PairSteps

LEMMA LedgerCounts ==
  ASSUME Base, LedgerStays, NEW M, M \subseteq WireMsgs
  PROVE  Occ(mbox'["LINK_PHY"], M) = Occ(mbox["LINK_PHY"], M)
<1>1. ASSUME NEW m, m \notin WireMsgs, mbox'["LINK_PHY"] = Append(mbox["LINK_PHY"], m)
      PROVE  Occ(mbox'["LINK_PHY"], M) = Occ(mbox["LINK_PHY"], M)
  <2>1. mbox["LINK_PHY"] \in Seq(PhyMsgs \cup {m}) /\ m \in PhyMsgs \cup {m}
    BY BaseFacts
  <2>2. Occ(Append(mbox["LINK_PHY"], m), M) = Occ(mbox["LINK_PHY"], M) + One(m \in M)
    BY <2>1, OccAppend
  <2>3. One(m \in M) = 0 /\ Occ(mbox["LINK_PHY"], M) \in Nat
    BY <1>1, <2>1, PlacesFinite DEF One
  <2>. QED  BY <1>1, <2>2, <2>3
<1>. QED  BY <1>1 DEF LedgerStays

LEMMA PhyHeads ==
  ASSUME Base, mbox["LINK_PHY"] # <<>>, mbox'["LINK_PHY"] = Tail(mbox["LINK_PHY"])
  PROVE  /\ \A M : Occ(mbox["LINK_PHY"], M) \in Nat /\ Occ(mbox'["LINK_PHY"], M) \in Nat
         /\ \A M : Occ(mbox["LINK_PHY"], M) = One(PhyMsg \in M) + Occ(mbox'["LINK_PHY"], M)
<1>1. mbox["LINK_PHY"] \in Seq(PhyMsgs) /\ Tail(mbox["LINK_PHY"]) \in Seq(PhyMsgs)
  BY BaseFacts, TailAt
<1>. QED  BY <1>1, OccTail, PlacesFinite DEF PhyMsg

LEMMA PhyMsgWire ==
  ASSUME Base, PhyOfA
  PROVE  /\ PhyMsg.sig \in {"FRAME_SEND_REQ", "FRAME_SEND_TO"} => PhyMsg \notin WireMsgs
         /\ Refused => PhyMsg \in WireMsgs /\ PhyMsg \in Refusals /\ PhyMsg \in Current(Refusals)
         /\ Granted => PhyMsg \in WireMsgs /\ PhyMsg \in Grants /\ PhyMsg \in Current(Grants)
         /\ PhyPasses => PhyMsg \in WireMsgs
         /\ PhyObjects => PhyMsg \in WireMsgs
<1>1. \A m \in WireMsgs : m.sig \in {"FRAME_REV", "FRAME_REV_CS_ERR"}
  BY DEF WireMsgs
<1>. QED  BY <1>1, WireKinds DEF Refused, Granted, PhyPasses, PhyObjects, Current

LEMMA TimerZero ==
  ASSUME Base, NEW n \in 0..MacTo, timer' = [timer EXCEPT ![PhySendTo] = n]
  PROVE  timer'[PhySendTo] = n
<1>1. timer \in [TimerKey -> 0..MacTo]
  BY BaseFacts DEF IInv, Types, TypeOK
<1>. QED  BY <1>1, Tasks

(* What a step of the PHY layer of A costs, in numbers. *)
LEMMA PhyClock ==
  ASSUME Base, PhyOfA
  PROVE  /\ PhyBegins \/ PhyAgain => Sending' /\ ~TimedOut'
         /\ PhyFails \/ PhySucceeds => ~Sending' /\ ~TimedOut'
         /\ PhyPasses \/ PhyObjects => UNCHANGED <<phy, timer>>
         /\ PhyBegins => ~Sending /\ ~TimedOut
         /\ PhyAgain \/ PhyFails \/ PhySucceeds => Sending
         /\ Len(line') <= Len(line) + 1 /\ Len(line) \in Nat /\ Len(line') \in Nat
         /\ PhyFails \/ PhySucceeds \/ PhyPasses => line' = line
<1>0. PhyTo \in 0..MacTo /\ PhyTo # 0 /\ 0 \in 0..MacTo
  BY Numbers, LeftFacts
<1>1. Transmits => Sending' /\ ~TimedOut'
  BY <1>0, TimerZero DEF Transmits, Sending, TimedOut
<1>2. \A sig : PhyAnswered(sig) => ~Sending' /\ ~TimedOut' /\ line' = line
  BY DEF PhyAnswered, Sending, TimedOut
<1>3. line \in Seq(PhyFrame)
  BY BaseFacts
<1>4. \A f \in PhyFrame : Len(Written(f)) <= Len(line) + 1 /\ Len(Written(f)) \in Nat
  <2>1. \A f \in PhyFrame : Written(f) \in Seq(PhyFrame)
    <3>1. Len(line) <= LineMax
      BY BaseFacts DEF IInv, Types, TypeOK
    <3>. QED  BY <1>3, <3>1, WrittenType
  <2>. QED  BY <1>3, <2>1, WrittenFits
<1>5. PhyObjects => Answer("NACK", PhyMsg.frame.seq) \in PhyFrame
  <2>1. PhyObjects => PhyMsg.frame \in PhyFrame
    BY BFields, WireKinds DEF PhyObjects
  <2>. QED  BY <2>1, AnswersTyped DEF PhyFrame
<1>6. PhyBegins \/ PhyAgain => Request(phy') \in PhyFrame
  <2>1. phy \in PhyState /\ PhyMsg \in PhyMsgs
    BY BaseFacts DEF PhyOfA
  <2>2. Frame \subseteq AnyFrame
    BY BoundsAreNat DEF Frame, AnyFrame
  <2>3. CASE PhyBegins
    <3>1. PhyMsg.frame \in Frame
      BY <2>1, <2>3, MsgFields DEF PhyBegins
    <3>2. (phy.seq + 1) % PhySeqMod \in 0 .. PhySeqMod - 1
      <4>1. phy.seq + 1 \in Nat
        BY <2>1, BoundsAreNat DEF PhyState
      <4>. QED  BY <4>1, Numbers
    <3>3. phy'.seq = (phy.seq + 1) % PhySeqMod /\ phy'.frame = PhyMsg.frame
      BY <2>3 DEF PhyBegins
    <3>. QED  BY <2>2, <3>1, <3>2, <3>3 DEF Request, PhyFrame
  <2>4. CASE PhyAgain
    <3>1. phy'.seq = phy.seq /\ phy'.frame = phy.frame
      BY <2>1, <2>4 DEF PhyAgain, PhyState
    <3>. QED  BY <2>1, <2>2, <3>1 DEF Request, PhyFrame, PhyState
  <2>. QED  BY <2>3, <2>4
<1>7. Len(line') <= Len(line) + 1 /\ Len(line) \in Nat /\ Len(line') \in Nat
  <2>1. Len(line) \in Nat
    BY <1>3
  <2>2. PhyBegins \/ PhyAgain => line' = Written(Request(phy'))
    BY DEF PhyBegins, PhyAgain, Transmits
  <2>3. PhyFails \/ PhySucceeds \/ PhyPasses => line' = line
    BY DEF PhyFails, PhySucceeds, PhyPasses, PhyAnswered
  <2>4. PhyObjects => line' = Written(Answer("NACK", PhyMsg.frame.seq))
    BY DEF PhyObjects
  <2>5. line' = line => Len(line') <= Len(line) + 1
    BY <2>1
  <2>. QED  BY <1>4, <1>5, <1>6, <2>1, <2>2, <2>3, <2>4, <2>5 DEF PhyOfA
<1>. QED  BY <1>1, <1>2, <1>7 DEF PhyBegins, PhyAgain, PhyFails, PhySucceeds, PhyPasses, PhyObjects,
            Refused, Granted, TimedOut, PhyAnswered

LEMMA BPhyHeads ==
  ASSUME Base, PhyOfB
  PROVE  /\ \A M : Occ(mboxB["LINK_PHY"], M) \in Nat /\ Occ(mboxB'["LINK_PHY"], M) \in Nat
         /\ \A M : Occ(mboxB["LINK_PHY"], M) = One(WireMsg \in M) + Occ(mboxB'["LINK_PHY"], M)
         /\ Len(mboxB["LINK_PHY"]) = Len(mboxB'["LINK_PHY"]) + 1
         /\ Len(mboxB'["LINK_PHY"]) \in Nat
         /\ WireMsg.frame \in PhyFrame /\ WireMsg.frame.seq \in 0 .. PhySeqMod - 1
<1>1. mboxB["LINK_PHY"] # <<>> /\ mboxB'["LINK_PHY"] = Tail(mboxB["LINK_PHY"]) /\ WireMsg \in WireMsgs
  BY DEF PhyOfB
<1>2. mboxB["LINK_PHY"] \in Seq(WireMsgs) /\ Tail(mboxB["LINK_PHY"]) \in Seq(WireMsgs)
  BY <1>1, BaseFacts, TailAt
<1>3. WireMsg.frame \in PhyFrame /\ WireMsg.frame.seq \in 0 .. PhySeqMod - 1
  BY <1>1, BFields DEF PhyFrame
<1>4. /\ \A M : Occ(mboxB["LINK_PHY"], M) \in Nat /\ Occ(mboxB'["LINK_PHY"], M) \in Nat
      /\ \A M : Occ(mboxB["LINK_PHY"], M) = One(WireMsg \in M) + Occ(mboxB'["LINK_PHY"], M)
  BY <1>1, <1>2, OccTail, PlacesFinite DEF WireMsg
<1>. QED  BY <1>1, <1>2, <1>3, <1>4, TailAt

LEMMA FaultOne ==
  ASSUME Base
  PROVE  /\ \A q : faults + One(q = "FRAME_REV_CS_ERR") \in {faults, faults + 1}
         /\ faults + One("FRAME_REV" = "FRAME_REV_CS_ERR") = faults
         /\ faults + One("FRAME_REV_CS_ERR" = "FRAME_REV_CS_ERR") = faults + 1
<1>1. faults \in Nat
  BY BaseFacts
<1>. QED  BY <1>1 DEF One

(* What comes to a board, in numbers. *)
ComesToA(m) ==
  /\ mbox'["LINK_PHY"] = Append(mbox["LINK_PHY"], m)
  /\ mbox'["LINK_MAC"] = mbox["LINK_MAC"] /\ mbox'["LINK"] = mbox["LINK"]
  /\ \A M : Occ(mbox'["LINK_PHY"], M) = Occ(mbox["LINK_PHY"], M) + One(m \in M)
  /\ m \in WireMsgs /\ m.frame = Head(lineB)
  /\ \/ faults' = faults /\ m.sig = "FRAME_REV"
     \/ faults' = faults + 1 /\ m.sig = "FRAME_REV_CS_ERR"
ComesToB(m) ==
  /\ mboxB'["LINK_PHY"] = Append(mboxB["LINK_PHY"], m)
  /\ mboxB'["LINK_MAC"] = mboxB["LINK_MAC"] /\ mboxB'["LINK"] = mboxB["LINK"]
  /\ Len(mboxB'["LINK_PHY"]) = Len(mboxB["LINK_PHY"]) + 1
  /\ \A M : Occ(mboxB'["LINK_PHY"], M) = Occ(mboxB["LINK_PHY"], M) + One(m \in M)
  /\ m.frame = Head(line)
  /\ \/ faults' = faults /\ m.sig = "FRAME_REV"
     \/ faults' = faults + 1 /\ m.sig = "FRAME_REV_CS_ERR"

LEMMA ReachedACounts ==
  ASSUME Base, ReachesA
  PROVE  /\ Len(lineB) = Len(lineB') + 1 /\ Len(lineB') \in Nat
         /\ \A M : Occ(lineB, M) = One(Head(lineB) \in M) + Occ(lineB', M) /\ Occ(lineB', M) \in Nat
         /\ Head(lineB) \in PhyFrame /\ Head(lineB) = lineB[1] /\ 1 \in 1..Len(lineB)
         /\ \A M : Occ(mbox["LINK_PHY"], M) \in Nat
         /\ \/ \E m \in PhyMsgs : ComesToA(m)
            \/ mbox' = mbox /\ faults' = faults + 1
<1>1. lineB # <<>> /\ lineB' = Tail(lineB) /\ lineB \in Seq(PhyFrame) /\ mbox["LINK_PHY"] \in Seq(PhyMsgs) /\ Boxes
  BY BaseFacts DEF ReachesA
<1>2. /\ Len(lineB) = Len(lineB') + 1 /\ Len(lineB') \in Nat /\ lineB' \in Seq(PhyFrame)
      /\ Head(lineB) \in PhyFrame /\ Head(lineB) = lineB[1] /\ 1 \in 1..Len(lineB)
  BY <1>1, TailAt
<1>3. \A M : Occ(lineB, M) = One(Head(lineB) \in M) + Occ(lineB', M) /\ Occ(lineB', M) \in Nat
  BY <1>1, <1>2, OccTail, PlacesFinite
<1>4. \A M : Occ(mbox["LINK_PHY"], M) \in Nat
  BY <1>1, PlacesFinite
<1>5. ASSUME NEW q \in {"FRAME_REV", "FRAME_REV_CS_ERR"},
             mbox' = [mbox EXCEPT !["LINK_PHY"] = Append(@, [sig |-> q, frame |-> Head(lineB)])],
             faults' = faults + One(q = "FRAME_REV_CS_ERR")
      PROVE  \E m \in PhyMsgs : ComesToA(m)
  <2>1. PICK m \in PhyMsgs : m = [sig |-> q, frame |-> Head(lineB)]
    BY <1>2, Posted
  <2>2. m \in WireMsgs /\ m.frame = Head(lineB) /\ m.sig = q
    BY <1>2, <2>1, BFields
  <2>3. /\ mbox'["LINK_PHY"] = Append(mbox["LINK_PHY"], m)
        /\ mbox'["LINK_MAC"] = mbox["LINK_MAC"] /\ mbox'["LINK"] = mbox["LINK"]
    BY <1>1, <1>5, <2>1, Tasks DEF Boxes
  <2>4. \A M : Occ(mbox'["LINK_PHY"], M) = Occ(mbox["LINK_PHY"], M) + One(m \in M)
    BY <1>1, <2>3, OccAppend
  <2>5. \/ faults' = faults /\ q = "FRAME_REV"
        \/ faults' = faults + 1 /\ q = "FRAME_REV_CS_ERR"
    BY FaultOne, <1>5
  <2>6. ComesToA(m)
    BY <2>2, <2>3, <2>4, <2>5 DEF ComesToA
  <2>. QED  BY <2>1, <2>6
<1>6. (\E m \in PhyMsgs : ComesToA(m)) \/ (mbox' = mbox /\ faults' = faults + 1)
  BY <1>5 DEF ReachesA
<1>. QED  BY <1>2, <1>3, <1>4, <1>6

LEMMA ReachedBCounts ==
  ASSUME Base, ReachesB
  PROVE  /\ Len(line) = Len(line') + 1 /\ Len(line') \in Nat
         /\ \A M : Occ(line, M) = One(Head(line) \in M) + Occ(line', M) /\ Occ(line', M) \in Nat
         /\ Head(line) \in PhyFrame /\ Head(line) = line[1] /\ 1 \in 1..Len(line)
         /\ \A M : Occ(mboxB["LINK_PHY"], M) \in Nat /\ Len(mboxB["LINK_PHY"]) \in Nat
         /\ \/ \E m \in WireMsgs : ComesToB(m)
            \/ mboxB' = mboxB /\ faults' = faults + 1
<1>1. line # <<>> /\ line' = Tail(line) /\ line \in Seq(PhyFrame) /\ mboxB["LINK_PHY"] \in Seq(WireMsgs)
      /\ mboxB \in [Task -> Seq(BMsgs)]
  BY BaseFacts DEF ReachesB, Receives
<1>2. /\ Len(line) = Len(line') + 1 /\ Len(line') \in Nat /\ line' \in Seq(PhyFrame)
      /\ Head(line) \in PhyFrame /\ Head(line) = line[1] /\ 1 \in 1..Len(line)
  BY <1>1, TailAt
<1>3. \A M : Occ(line, M) = One(Head(line) \in M) + Occ(line', M) /\ Occ(line', M) \in Nat
  BY <1>1, <1>2, OccTail, PlacesFinite
<1>4. \A M : Occ(mboxB["LINK_PHY"], M) \in Nat /\ Len(mboxB["LINK_PHY"]) \in Nat
  BY <1>1, PlacesFinite
<1>5. ASSUME NEW q \in {"FRAME_REV", "FRAME_REV_CS_ERR"},
             mboxB' = [mboxB EXCEPT !["LINK_PHY"] = Append(@, [sig |-> q, frame |-> Head(line)])],
             faults' = faults + One(q = "FRAME_REV_CS_ERR")
      PROVE  \E m \in WireMsgs : ComesToB(m)
  <2>1. PICK m \in WireMsgs : m = [sig |-> q, frame |-> Head(line)]
    BY <1>2, BFields
  <2>2. m.frame = Head(line) /\ m.sig = q
    BY <2>1
  <2>3. /\ mboxB'["LINK_PHY"] = Append(mboxB["LINK_PHY"], m)
        /\ mboxB'["LINK_MAC"] = mboxB["LINK_MAC"] /\ mboxB'["LINK"] = mboxB["LINK"]
    BY <1>1, <1>5, <2>1, Tasks
  <2>4. \A M : Occ(mboxB'["LINK_PHY"], M) = Occ(mboxB["LINK_PHY"], M) + One(m \in M)
    BY <1>1, <2>3, OccAppend
  <2>5. \/ faults' = faults /\ q = "FRAME_REV"
        \/ faults' = faults + 1 /\ q = "FRAME_REV_CS_ERR"
    BY FaultOne, <1>5
  <2>6. Len(mboxB'["LINK_PHY"]) = Len(mboxB["LINK_PHY"]) + 1
    BY <1>1, <2>3
  <2>7. ComesToB(m)
    BY <2>2, <2>3, <2>4, <2>5, <2>6 DEF ComesToB
  <2>. QED  BY <2>1, <2>7
<1>6. (\E m \in WireMsgs : ComesToB(m)) \/ (mboxB' = mboxB /\ faults' = faults + 1)
  BY <1>5 DEF ReachesB
<1>. QED  BY <1>2, <1>3, <1>4, <1>6

LEMMA BWrittenLen ==
  ASSUME Base, NEW f \in PhyFrame
  PROVE  Len(B!Written(f)) \in Nat /\ Len(B!Written(f)) <= Len(lineB) + 1
<1>1. lineB \in Seq(PhyFrame)
  BY BaseFacts
<1>2. B!Written(f) \in Seq(PhyFrame) /\ Len(B!Written(f)) <= Len(lineB) + 1
  BY <1>1, BWritten, BWrittenFits
<1>. QED  BY <1>2

LEMMA FlyingNat ==
  ASSUME Base
  PROVE  /\ Len(line) \in Nat /\ Len(lineB) \in Nat /\ Len(mboxB["LINK_PHY"]) \in Nat
         /\ Occ(mbox["LINK_PHY"], WireMsgs) \in Nat /\ faults \in Nat
<1>1. /\ line \in Seq(PhyFrame) /\ lineB \in Seq(PhyFrame) /\ mboxB["LINK_PHY"] \in Seq(WireMsgs)
      /\ mbox["LINK_PHY"] \in Seq(PhyMsgs) /\ faults \in Nat
  BY BaseFacts
<1>. QED  BY <1>1, PlacesFinite

LEMMA RoomKept ==
  ASSUME Base, Room, PairSteps
  PROVE  Room'
<1> DEFINE L == Len(line)
           M == Len(lineB)
           W == Len(mboxB["LINK_PHY"])
           X == Occ(mbox["LINK_PHY"], WireMsgs)
           T == One(TimedOut)
           S == One(Sending)
<1>a. L + M + W + X + T <= faults + S
  BY DEF Room, Flying
<1>b. L \in Nat /\ M \in Nat /\ W \in Nat /\ X \in Nat /\ faults \in Nat /\ T \in Nat /\ S \in Nat
  BY FlyingNat DEF One
<1>c. SUFFICES ASSUME NEW l, NEW m, NEW w, NEW x, NEW t, NEW s, NEW f,
                      l = L', m = M', w = W', x = X', t = T', s = S', f = faults'
               PROVE  l + m + w + x + t <= f + s
  BY DEF Room, Flying
<1>d. /\ Sending => S = 1
      /\ ~Sending => S = 0
      /\ TimedOut => T = 1
      /\ ~TimedOut => T = 0
      /\ Sending' => s = 1
      /\ ~Sending' => s = 0
      /\ TimedOut' => t = 1
      /\ ~TimedOut' => t = 0
  BY <1>c DEF One
<1>e. /\ UNCHANGED phy => s = S
      /\ UNCHANGED phy /\ timer'[PhySendTo] = timer[PhySendTo] => t = T
  BY <1>c DEF Sending, TimedOut
<1>f. BStays => m = M /\ w = W
  BY <1>c DEF BStays, boardB
<1>g. AStays => l = L /\ x = X /\ s = S /\ t = T
  BY <1>c, <1>e DEF AStays
<1> HIDE DEF L, M, W, X, T, S
<1>1. CASE LedgerStays
  <2>1. l = L /\ m = M /\ w = W /\ f = faults /\ s = S /\ t = T
    BY <1>c, <1>1, <1>e DEF LedgerStays, L, M, W
  <2>2. x = X
    BY <1>c, <1>1, LedgerCounts DEF X
  <2>. QED  BY <1>a, <2>1, <2>2
<1>2. CASE PhyOfA
  <2>1. m = M /\ w = W /\ f = faults
    BY <1>c, <1>2, <1>f DEF PhyOfA
  <2>2. /\ x \in Nat /\ x <= X
        /\ PhyMsg \in WireMsgs => x = X - 1
    <3>1. mbox["LINK_PHY"] # <<>> /\ mbox'["LINK_PHY"] = Tail(mbox["LINK_PHY"])
      BY <1>c, <1>2 DEF PhyOfA
    <3>2. x \in Nat /\ X = One(PhyMsg \in WireMsgs) + x
      BY <1>c, <3>1, PhyHeads DEF X
    <3>3. CASE PhyMsg \in WireMsgs
      <4>0. X = 1 + x
        BY <3>2, <3>3 DEF One
      <4>1. x = X - 1
        BY <1>b, <3>2, <4>0
      <4>. QED  BY <1>b, <3>2, <4>1
    <3>4. CASE PhyMsg \notin WireMsgs
      <4>0. X = 0 + x
        BY <3>2, <3>4 DEF One
      <4>1. x = X
        BY <1>b, <3>2, <4>0
      <4>. QED  BY <1>b, <3>2, <3>4, <4>1
    <3>. QED  BY <3>3, <3>4
  <2>3. l <= L + 1 /\ l \in Nat /\ (PhyFails \/ PhySucceeds \/ PhyPasses => l = L)
    BY <1>c, <1>2, PhyClock DEF L
  <2>a. l \in Nat /\ l <= L + 1 /\ x \in Nat /\ x <= X
    BY <2>2, <2>3
  <2>b. SUFFICES l + x + t + S <= L + X + T + s /\ t \in Nat /\ s \in Nat
    <3>1. t \in Nat /\ s \in Nat
      BY <1>c DEF T, S, One
    <3>2. l \in Nat /\ x \in Nat
      BY <2>a
    <3>3. ASSUME l + x + t + S <= L + X + T + s
          PROVE  l + M + W + x + t <= faults + s
      BY <1>a, <1>b, <3>1, <3>2, <3>3
    <3>. QED  BY <2>1, <3>1, <3>3
  <2>4. CASE PhyBegins
    <3>1. S = 0 /\ T = 0 /\ s = 1 /\ t = 0
      BY <1>c, <1>2, <2>4, <1>d, PhyClock
    <3>. QED  BY <1>b, <2>a, <3>1
  <2>5. CASE PhyAgain
    <3>1. S = 1 /\ s = 1 /\ t = 0
      BY <1>c, <1>2, <2>5, <1>d, PhyClock
    <3>2. T = 1 \/ x = X - 1
      BY <1>c, <1>2, <1>d, <2>2, <2>5, PhyMsgWire DEF PhyAgain
    <3>. QED  BY <1>b, <2>a, <3>1, <3>2
  <2>6. CASE PhyFails
    <3>1. S = 1 /\ s = 0 /\ t = 0
      BY <1>c, <1>2, <2>6, <1>d, PhyClock
    <3>2. T = 1 \/ x = X - 1
      BY <1>c, <1>2, <1>d, <2>2, <2>6, PhyMsgWire DEF PhyFails
    <3>3. l = L
      BY <2>3, <2>6
    <3>. QED  BY <1>b, <2>a, <3>1, <3>2, <3>3
  <2>7. CASE PhySucceeds
    <3>1. S = 1 /\ s = 0 /\ t = 0
      BY <1>c, <1>2, <2>7, <1>d, PhyClock
    <3>2. x = X - 1 /\ l = L
      BY <1>c, <1>2, <2>2, <2>3, <2>7, PhyMsgWire DEF PhySucceeds
    <3>. QED  BY <1>b, <2>a, <3>1, <3>2
  <2>8. CASE PhyPasses
    <3>1. s = S /\ t = T /\ l = L
      BY <1>c, <1>e, <2>3, <2>8 DEF PhyPasses
    <3>. QED  BY <1>b, <2>a, <3>1
  <2>9. CASE PhyObjects
    <3>1. s = S /\ t = T
      BY <1>c, <1>e, <2>9 DEF PhyObjects
    <3>2. x = X - 1
      BY <1>c, <1>2, <2>2, <2>9, PhyMsgWire
    <3>. QED  BY <1>b, <2>a, <3>1, <3>2
  <2>. QED  BY <1>c, <1>2, <2>4, <2>5, <2>6, <2>7, <2>8, <2>9 DEF PhyOfA
<1>3. CASE PhyOfB
  <2>1. l = L /\ x = X /\ s = S /\ t = T /\ f = faults
    BY <1>c, <1>3, <1>g DEF PhyOfB
  <2>2. W = w + 1 /\ w \in Nat /\ WireMsg.frame.seq \in 0 .. PhySeqMod - 1
    BY <1>c, <1>3, BPhyHeads DEF W
  <2>3. m \in Nat /\ m <= M + 1
    <3>1. \A kind \in {"ACK", "NACK"} : lineB' = B!Written(Answer(kind, WireMsg.frame.seq)) => m \in Nat /\ m <= M + 1
      BY <1>c, <2>2, AnswersTyped, BWrittenLen DEF M
    <3>2. lineB' = lineB => m \in Nat /\ m <= M + 1
      BY <1>c, <1>b DEF M
    <3>. QED  BY <1>c, <1>3, <3>1, <3>2 DEF PhyOfB
  <2>. QED  BY <1>a, <1>b, <2>1, <2>2, <2>3
<1>4. CASE ReachesA
  <2>1. l = L /\ w = W /\ s = S /\ t = T
    BY <1>c, <1>4, <1>e DEF ReachesA, L, W
  <2>2. M = m + 1 /\ m \in Nat
    BY <1>c, <1>4, ReachedACounts DEF M
  <2>3. \/ x = X + 1 /\ (f = faults \/ f = faults + 1)
        \/ x = X /\ f = faults + 1
    <3>1. ASSUME NEW z \in PhyMsgs, ComesToA(z)
          PROVE  x = X + 1 /\ (f = faults \/ f = faults + 1)
      BY <1>c, <3>1 DEF ComesToA, X, One
    <3>2. mbox' = mbox => x = X
      BY <1>c DEF X
    <3>. QED  BY <1>c, <1>4, <3>1, <3>2, ReachedACounts
  <2>4. x \in Nat /\ f \in Nat /\ x + faults <= 1 + X + f /\ f >= faults
    BY <1>b, <2>3
  <2>. QED  BY <1>a, <1>b, <2>1, <2>2, <2>4
<1>5. CASE ReachesB
  <2>1. m = M /\ x = X /\ s = S /\ t = T
    BY <1>c, <1>5, <1>e DEF ReachesB, M, X
  <2>2. L = l + 1 /\ l \in Nat
    BY <1>c, <1>5, ReachedBCounts DEF L
  <2>3. \/ w = W + 1 /\ (f = faults \/ f = faults + 1)
        \/ w = W /\ f = faults + 1
    <3>1. ASSUME NEW z \in WireMsgs, ComesToB(z)
          PROVE  w = W + 1 /\ (f = faults \/ f = faults + 1)
      BY <1>c, <3>1 DEF ComesToB, W
    <3>2. mboxB' = mboxB => w = W
      BY <1>c DEF W
    <3>. QED  BY <1>c, <1>5, <3>1, <3>2, ReachedBCounts
  <2>4. w \in Nat /\ f \in Nat /\ w + faults <= 1 + W + f /\ f >= faults
    BY <1>b, <2>3
  <2>. QED  BY <1>a, <1>b, <2>1, <2>2, <2>4
<1>6. CASE Ticks
  <2>1. l = L /\ m = M /\ w = W /\ x = X /\ s = S
    BY <1>c, <1>6, <1>e DEF Ticks, L, M, W, X
  <2>2. W = 0 /\ X = 0
    <3>1. mboxB["LINK_PHY"] = <<>> /\ mbox["LINK_PHY"] = <<>>
      BY <1>c, <1>6, Tasks DEF Ticks, Idle
    <3>. QED  BY <1>c, <3>1, OccEmpty DEF W, X
  <2>3. \/ L = 0 /\ M = 0 /\ f = faults
        \/ f = faults + 1
    <3>1. CASE line = <<>> /\ lineB = <<>>
      <4>1. f = faults + 0
        BY <1>c, <1>6, <3>1 DEF Ticks, One
      <4>. QED  BY <1>c, <1>b, <3>1, <4>1 DEF L, M
    <3>2. CASE ~(line = <<>> /\ lineB = <<>>)
      BY <1>c, <1>6, <3>2 DEF Ticks, One
    <3>. QED  BY <3>1, <3>2
  <2>4. t \in 0..1 /\ t <= s
    <3>1. TimedOut' => Sending'
      BY <1>c DEF TimedOut
    <3>. QED  BY <1>d, <3>1
  <2>. QED  BY <1>a, <1>b, <2>1, <2>2, <2>3, <2>4
<1>. QED  BY <1>c, <1>1, <1>2, <1>3, <1>4, <1>5, <1>6, LedgerSteps

LEMMA EnoughNat ==
  /\ Enough \in Nat /\ MaxRetry + 1 \in Nat /\ MaxRetry \in Nat
  /\ Fits => Enough < LineMax
<1>1. MaxRetry \in Nat
  BY LeftFacts
<1>. QED  BY <1>1, Numbers DEF Enough, Fits

(* The buffer of a line has room for what a task writes. *)
LEMMA LineRoom ==
  ASSUME Fits, Base, Room, PhyOfA, faults <= Enough
  PROVE  /\ PhyBegins \/ PhyAgain => line' = Append(line, Request(phy')) /\ Request(phy') \in PhyFrame
         /\ PhyObjects => /\ line' = Append(line, Answer("NACK", PhyMsg.frame.seq))
                          /\ Answer("NACK", PhyMsg.frame.seq) \in PhyFrame
         /\ PhyFails \/ PhySucceeds \/ PhyPasses => line' = line
<1>1. line \in Seq(PhyFrame) /\ faults \in Nat
  BY BaseFacts
<1>2. \A f \in PhyFrame : Len(line) < LineMax => Written(f) = Append(line, f)
  BY <1>1, WrittenFits
<1>3. PhyObjects => Answer("NACK", PhyMsg.frame.seq) \in PhyFrame
  <2>1. PhyObjects => PhyMsg.frame \in PhyFrame
    BY BFields, WireKinds DEF PhyObjects
  <2>. QED  BY <2>1, AnswersTyped DEF PhyFrame
<1>4. PhyBegins \/ PhyAgain => Request(phy') \in PhyFrame
  <2>1. phy \in PhyState /\ PhyMsg \in PhyMsgs
    BY BaseFacts DEF PhyOfA
  <2>2. Frame \subseteq AnyFrame
    BY BoundsAreNat DEF Frame, AnyFrame
  <2>3. CASE PhyBegins
    <3>1. PhyMsg.frame \in Frame
      BY <2>1, <2>3, MsgFields DEF PhyBegins
    <3>2. (phy.seq + 1) % PhySeqMod \in 0 .. PhySeqMod - 1
      <4>1. phy.seq + 1 \in Nat
        BY <2>1, BoundsAreNat DEF PhyState
      <4>. QED  BY <4>1, Numbers
    <3>3. phy'.seq = (phy.seq + 1) % PhySeqMod /\ phy'.frame = PhyMsg.frame
      BY <2>3 DEF PhyBegins
    <3>. QED  BY <2>2, <3>1, <3>2, <3>3 DEF Request, PhyFrame
  <2>4. CASE PhyAgain
    <3>1. phy'.seq = phy.seq /\ phy'.frame = phy.frame
      BY <2>1, <2>4 DEF PhyAgain, PhyState
    <3>. QED  BY <2>1, <2>2, <3>1 DEF Request, PhyFrame, PhyState
  <2>. QED  BY <2>3, <2>4
<1>5. PhyBegins \/ PhyAgain \/ PhyObjects => Len(line) < LineMax
  <2> DEFINE L == Len(line)
             R == Len(lineB) + Len(mboxB["LINK_PHY"])
             X == Occ(mbox["LINK_PHY"], WireMsgs)
  <2>1. L \in Nat /\ R \in Nat /\ X \in Nat
    BY FlyingNat
  <2>2. L + R + X + One(TimedOut) <= faults + One(Sending)
    <3>1. Len(line) + Len(lineB) + Len(mboxB["LINK_PHY"]) + X + One(TimedOut) <= faults + One(Sending)
      BY DEF Room, Flying
    <3>2. \A a, b, c, d, e \in Nat : \A g : a + b + c + d + e <= g => a + (b + c) + d + e <= g
      OBVIOUS
    <3>3. One(TimedOut) \in Nat
      BY DEF One
    <3>. QED  BY <3>1, <3>2, <3>3, FlyingNat
  <2>3. Enough \in Nat /\ Enough < LineMax /\ LineMax \in Nat
    BY EnoughNat, BoundsAreNat
  <2>4. PhyMsg \in WireMsgs => X >= 1
    <3>1. /\ X = One(PhyMsg \in WireMsgs) + Occ(mbox'["LINK_PHY"], WireMsgs)
          /\ Occ(mbox'["LINK_PHY"], WireMsgs) \in Nat
      BY PhyHeads DEF PhyOfA
    <3>2. PICK r \in Nat : X = One(PhyMsg \in WireMsgs) + r
      BY <3>1
    <3>3. PhyMsg \in WireMsgs => X = 1 + r
      BY <3>2 DEF One
    <3>. QED  BY <3>2, <3>3
  <2> HIDE DEF L, R, X
  <2>5. CASE ~Sending
    <3>1. One(Sending) = 0 /\ One(TimedOut) = 0
      BY <2>5 DEF One, TimedOut
    <3>2. L <= faults
      BY <1>1, <2>1, <2>2, <3>1
    <3>. QED  BY <1>1, <2>1, <2>3, <3>2 DEF L
  <2>6. CASE TimedOut
    <3>1. One(Sending) = 1 /\ One(TimedOut) = 1
      BY <2>6 DEF One, TimedOut
    <3>2. L <= faults
      BY <1>1, <2>1, <2>2, <3>1
    <3>. QED  BY <1>1, <2>1, <2>3, <3>2 DEF L
  <2>7. CASE PhyMsg \in WireMsgs
    <3>1. One(Sending) \in 0..1 /\ One(TimedOut) \in 0..1
      BY DEF One
    <3>2. L <= faults
      BY <1>1, <2>1, <2>2, <2>4, <2>7, <3>1
    <3>. QED  BY <1>1, <2>1, <2>3, <3>2 DEF L
  <2>. QED  BY <2>5, <2>6, <2>7, PhyMsgWire DEF PhyBegins, PhyAgain
<1>6. PhyFails \/ PhySucceeds \/ PhyPasses => line' = line
  BY PhyClock
<1>. QED  BY <1>2, <1>3, <1>4, <1>5, <1>6 DEF PhyBegins, PhyAgain, PhyObjects, Transmits

LEMMA BLineRoom ==
  ASSUME Fits, Base, Room, PhyOfB, faults <= Enough
  PROVE  \A t \in {"ACK", "NACK"} :
           lineB' = B!Written(Answer(t, WireMsg.frame.seq))
             => lineB' = Append(lineB, Answer(t, WireMsg.frame.seq))
<1>1. lineB \in Seq(PhyFrame) /\ faults \in Nat
  BY BaseFacts
<1>2. Len(lineB) < LineMax
  <2> DEFINE M == Len(lineB)
             W == Len(mboxB["LINK_PHY"])
             R == Len(line) + Occ(mbox["LINK_PHY"], WireMsgs)
  <2>1. M \in Nat /\ R \in Nat /\ W \in Nat
    BY FlyingNat
  <2>2. M + W + R + One(TimedOut) <= faults + One(Sending)
    <3>1. Len(line) + Len(lineB) + Len(mboxB["LINK_PHY"]) + Occ(mbox["LINK_PHY"], WireMsgs)
            + One(TimedOut) <= faults + One(Sending)
      BY DEF Room, Flying
    <3>2. \A a, b, c, d, e \in Nat : \A g : a + b + c + d + e <= g => b + c + (a + d) + e <= g
      OBVIOUS
    <3>3. One(TimedOut) \in Nat
      BY DEF One
    <3>. QED  BY <3>1, <3>2, <3>3, FlyingNat
  <2>3. Enough \in Nat /\ Enough < LineMax /\ LineMax \in Nat
    BY EnoughNat, BoundsAreNat
  <2>4. W # 0
    BY BaseFacts DEF PhyOfB
  <2>5. One(Sending) \in 0..1 /\ One(TimedOut) \in 0..1
    BY DEF One
  <2> HIDE DEF M, W, R
  <2>6. M <= faults
    BY <1>1, <2>1, <2>2, <2>4, <2>5
  <2>. QED  BY <1>1, <2>1, <2>3, <2>6 DEF M
<1>3. WireMsg.frame.seq \in 0 .. PhySeqMod - 1
  BY BPhyHeads
<1>. QED  BY <1>1, <1>2, <1>3, AnswersTyped, BWrittenFits

(* What an owner of frames may hope for does not depend on more than the number
   of the frame it sends.                                                   *)
LEMMA SameCurrent ==
  ASSUME phy'.seq = phy.seq
  PROVE  /\ \A M : Current(M)' = Current(M)
         /\ \A t : CurrentOf(t)' = CurrentOf(t)
  BY DEF Current, CurrentOf

LEMMA LedgerNat ==
  ASSUME Base
  PROVE  /\ \A M : /\ Occ(line, M) \in Nat /\ Occ(lineB, M) \in Nat
                   /\ Occ(mbox["LINK_PHY"], M) \in Nat /\ Occ(mboxB["LINK_PHY"], M) \in Nat
         /\ Negative \in Nat /\ Hope \in Nat /\ Cost \in Nat /\ Negative <= Cost /\ Cost <= Negative + 1
         /\ Owed \in Nat
<1>1. /\ line \in Seq(PhyFrame) /\ lineB \in Seq(PhyFrame) /\ mboxB["LINK_PHY"] \in Seq(WireMsgs)
      /\ mbox["LINK_PHY"] \in Seq(PhyMsgs) /\ phy.retry \in Nat
  BY BaseFacts
<1>2. \A M : /\ Occ(line, M) \in Nat /\ Occ(lineB, M) \in Nat
             /\ Occ(mbox["LINK_PHY"], M) \in Nat /\ Occ(mboxB["LINK_PHY"], M) \in Nat
  BY <1>1, PlacesFinite
<1>3. Negative \in Nat /\ Hope \in Nat
  BY <1>2 DEF Negative, Hope
<1>4. Cost \in Nat /\ Negative <= Cost /\ Cost <= Negative + 1
  BY <1>3 DEF Cost
<1>5. Owed \in Nat
  BY <1>1, <1>3, <1>4 DEF Owed
<1>. QED  BY <1>2, <1>3, <1>4, <1>5

LEMMA QuietLedger ==
  ASSUME Base, LedgerStays
  PROVE  Owed' = Owed /\ faults' = faults /\ Negative' = Negative /\ Hope' = Hope
<1>1. UNCHANGED <<line, lineB, faults, phy>> /\ timer'[PhySendTo] = timer[PhySendTo]
      /\ mboxB'["LINK_PHY"] = mboxB["LINK_PHY"]
  BY DEF LedgerStays
<1>2. /\ Occ(mbox'["LINK_PHY"], Refusals) = Occ(mbox["LINK_PHY"], Refusals)
      /\ Occ(mbox'["LINK_PHY"], Current(Grants)) = Occ(mbox["LINK_PHY"], Current(Grants))
  <2>1. Refusals \subseteq WireMsgs /\ Current(Grants) \subseteq WireMsgs
    BY DEF Refusals, Grants, Current
  <2>. QED  BY <2>1, LedgerCounts
<1>3. (\A M : Current(M)' = Current(M)) /\ (\A t : CurrentOf(t)' = CurrentOf(t))
  BY <1>1, SameCurrent
<1>4. Negative' = Negative
  BY <1>1, <1>2 DEF Negative
<1>5. Hope' = Hope
  BY <1>1, <1>2, <1>3 DEF Hope
<1>. QED  BY <1>1, <1>4, <1>5 DEF Owed, Cost, TimedOut, Sending

LEMMA NegativeOfA ==
  ASSUME Base, PhyOfA
  PROVE  /\ Negative' \in Nat
         /\ PhyMsg \in Refusals => Negative = 1 + Negative'
         /\ PhyMsg \notin Refusals => Negative' = Negative
<1> DEFINE b == Occ(mboxB["LINK_PHY"], Broken)
           n == Occ(lineB, OfType("NACK"))
           r == Occ(mbox["LINK_PHY"], Refusals)
           s == Occ(mbox'["LINK_PHY"], Refusals)
<1>1. b \in Nat /\ n \in Nat /\ r \in Nat /\ s \in Nat /\ r = One(PhyMsg \in Refusals) + s
  BY LedgerNat, PhyHeads DEF PhyOfA
<1>2. Negative = b + n + r
  BY DEF Negative
<1>3. Negative' = b + n + s
  <2>1. UNCHANGED <<lineB, mboxB>>
    BY DEF PhyOfA, BStays, boardB
  <2>. QED  BY <2>1 DEF Negative
<1> HIDE DEF b, n, r, s
<1>4. CASE PhyMsg \in Refusals
  <2>1. One(PhyMsg \in Refusals) = 1
    BY <1>4 DEF One
  <2>2. b + n + r = 1 + (b + n + s) /\ b + n + s \in Nat
    BY <1>1, <2>1
  <2>. QED  BY <1>2, <1>3, <1>4, <2>2
<1>5. CASE PhyMsg \notin Refusals
  <2>1. One(PhyMsg \in Refusals) = 0
    BY <1>5 DEF One
  <2>2. b + n + r = b + n + s /\ b + n + s \in Nat
    BY <1>1, <2>1
  <2>. QED  BY <1>2, <1>3, <1>5, <2>2
<1>. QED  BY <1>4, <1>5

(* A frame that has just been written may be answered. *)
LEMMA HopeWritten ==
  ASSUME Fits, Base, Room, PhyOfA, faults <= Enough, PhyBegins \/ PhyAgain
  PROVE  Hope' \in Nat /\ Hope' # 0
<1>1. line' = Append(line, Request(phy')) /\ Request(phy') \in PhyFrame
  BY LineRoom
<1>2. Request(phy') \in CurrentOf("REQ")'
  BY <1>1 DEF CurrentOf, OfType, Request
<1>3. Occ(line', CurrentOf("REQ")') = Occ(line, CurrentOf("REQ")') + 1
  <2>1. line \in Seq(PhyFrame)
    BY BaseFacts
  <2>2. Occ(line', CurrentOf("REQ")') = Occ(line, CurrentOf("REQ")') + One(Request(phy') \in CurrentOf("REQ")')
    BY <1>1, <2>1, OccAppend
  <2>. QED  BY <1>2, <2>2 DEF One
<1>4. UNCHANGED <<lineB, mboxB>>
  BY DEF PhyOfA, BStays, boardB
<1>5. \A M : Occ(line, M) \in Nat /\ Occ(lineB, M) \in Nat /\ Occ(mbox'["LINK_PHY"], M) \in Nat
             /\ Occ(mboxB["LINK_PHY"], M) \in Nat
  BY LedgerNat, PhyHeads DEF PhyOfA
<1>6. PICK a, b, c, d \in Nat : Hope' = a + 1 + b + c + d
  <2>1. Hope' = Occ(line', CurrentOf("REQ")') + Occ(mboxB["LINK_PHY"], Current(Asks)')
                  + Occ(lineB, CurrentOf("ACK")') + Occ(mbox'["LINK_PHY"], Current(Grants)')
    BY <1>4 DEF Hope
  <2>. QED  BY <1>3, <1>5, <2>1
<1>. QED  BY <1>6

LEMMA HopePassed ==
  ASSUME Fits, Base, Room, PhyOfA, faults <= Enough, PhyPasses \/ PhyObjects, Sending
  PROVE  Hope' = Hope
<1>1. UNCHANGED <<phy, lineB, mboxB>>
  BY PhyClock DEF PhyOfA, BStays, boardB
<1>2. (\A M : Current(M)' = Current(M)) /\ (\A t : CurrentOf(t)' = CurrentOf(t))
  BY <1>1, SameCurrent
<1>3. Occ(line', CurrentOf("REQ")) = Occ(line, CurrentOf("REQ"))
  <2>1. CASE PhyPasses
    BY <2>1, LineRoom
  <2>2. CASE PhyObjects
    <3>1. line' = Append(line, Answer("NACK", PhyMsg.frame.seq)) /\ line \in Seq(PhyFrame)
          /\ Answer("NACK", PhyMsg.frame.seq) \in PhyFrame
      BY <2>2, LineRoom, BaseFacts
    <3>2. Answer("NACK", PhyMsg.frame.seq) \notin CurrentOf("REQ")
      BY DEF Answer, CurrentOf, OfType
    <3>3. Occ(line', CurrentOf("REQ"))
            = Occ(line, CurrentOf("REQ")) + One(Answer("NACK", PhyMsg.frame.seq) \in CurrentOf("REQ"))
      BY <3>1, OccAppend
    <3>4. Occ(line, CurrentOf("REQ")) \in Nat
      BY LedgerNat
    <3>. QED  BY <3>2, <3>3, <3>4 DEF One
  <2>. QED  BY <2>1, <2>2
<1>4. Occ(mbox'["LINK_PHY"], Current(Grants)) = Occ(mbox["LINK_PHY"], Current(Grants))
  <2>1. PhyMsg \notin Current(Grants)
    BY WireKinds DEF PhyPasses, PhyObjects, Granted, Current
  <2>2. /\ Occ(mbox["LINK_PHY"], Current(Grants))
             = One(PhyMsg \in Current(Grants)) + Occ(mbox'["LINK_PHY"], Current(Grants))
        /\ Occ(mbox'["LINK_PHY"], Current(Grants)) \in Nat
    BY PhyHeads DEF PhyOfA
  <2>. QED  BY <2>1, <2>2 DEF One
<1>. QED  BY <1>1, <1>2, <1>3, <1>4 DEF Hope

LEMMA OwedOfA ==
  ASSUME Fits, Base, Room, PhyOfA, faults <= Enough
  PROVE  /\ faults' = faults
         /\ PhyFails => Owed' + (MaxRetry + 1) <= Owed
         /\ ~PhyFails => Owed' <= Owed
<1> DEFINE N == Negative
           O == Owed
           r == phy.retry
<1>1. PICK n, o : n = Negative' /\ o = Owed'
  OBVIOUS
<1>2. N \in Nat /\ O \in Nat /\ Cost \in Nat /\ N <= Cost /\ Cost <= N + 1 /\ r \in Nat
  BY LedgerNat, BaseFacts
<1>3. n \in Nat /\ (PhyMsg \in Refusals => n = N - 1) /\ (PhyMsg \notin Refusals => n = N)
  <2>1. n \in Nat /\ (PhyMsg \in Refusals => N = 1 + n) /\ (PhyMsg \notin Refusals => n = N)
    BY <1>1, NegativeOfA
  <2>. QED  BY <1>2, <2>1
<1>4. faults' = faults
  BY DEF PhyOfA
<1>5. PhyMsg \in Refusals => N # 0 /\ Cost = N
  <2>1. PhyMsg \in Refusals => N # 0
    BY <1>2, <1>3
  <2>. QED  BY <2>1 DEF Cost
<1>6. MaxRetry \in Nat
  BY LeftFacts
<1>7. /\ ~Sending => O = N
      /\ Sending /\ TimedOut => O = r + 1 + N
      /\ Sending /\ ~TimedOut => O = r + Cost
      /\ ~Sending' => o = n
      /\ Sending' /\ ~TimedOut' => o = phy'.retry + Cost'
  BY <1>1 DEF Owed
<1>8. PhyMsg.sig \in {"FRAME_SEND_REQ", "FRAME_SEND_TO"} => PhyMsg \notin Refusals
  BY PhyMsgWire, WireKinds
<1> HIDE DEF N, O, r
<1>9. CASE PhyBegins \/ PhyAgain
  <2>1. Cost' = n
    BY <1>1, <1>9, HopeWritten DEF Cost
  <2>2. o = phy'.retry + n
    BY <1>7, <1>9, <2>1, PhyClock
  <2>3. CASE PhyBegins
    <3>1. phy'.retry = 0 /\ n = N /\ O = N
      BY <1>3, <1>7, <1>8, <2>3, PhyClock DEF PhyBegins
    <3>2. o = n
      BY <1>3, <2>2, <3>1
    <3>. QED  BY <1>1, <1>2, <1>4, <2>3, <3>1, <3>2 DEF O, PhyFails, PhyBegins, Sending, TimedOut, Refused
  <2>4. CASE PhyAgain
    <3>0. ~PhyFails
      <4>1. PhyMsg \in Refusals => PhyMsg.sig # "FRAME_SEND_TO"
        BY <1>8
      <4>2. phy.retry < MaxRetry => ~(phy.retry >= MaxRetry)
        BY <1>2, <1>6 DEF r
      <4>3. phy.retry <= MaxRetry => ~(phy.retry > MaxRetry)
        BY <1>2, <1>6 DEF r
      <4>. QED  BY <2>4, <4>1, <4>2, <4>3 DEF PhyFails, PhyAgain, Refused, Current
    <3>1. phy'.retry = r + 1 /\ Sending
      <4>1. phy \in PhyState
        BY BaseFacts
      <4>. QED  BY <2>4, <4>1, PhyClock DEF PhyAgain, PhyState, r
    <3>a. o = (r + 1) + n
      BY <2>2, <3>1
    <3>2. o <= O
      <4>1. CASE PhyMsg.sig = "FRAME_SEND_TO" /\ TimedOut
        <5>1. n = N /\ O = r + 1 + N
          BY <1>3, <1>7, <1>8, <3>1, <4>1
        <5>. QED  BY <1>2, <3>a, <5>1
      <4>2. CASE Refused
        <5>1. n = N - 1 /\ (O = r + 1 + N \/ O = r + N)
          BY <1>3, <1>5, <1>7, <3>1, <4>2, PhyMsgWire
        <5>. QED  BY <1>2, <3>a, <5>1
      <4>. QED  BY <2>4, <4>1, <4>2 DEF PhyAgain
    <3>. QED  BY <1>1, <1>4, <3>0, <3>2 DEF O
  <2>. QED  BY <1>9, <2>3, <2>4
<1>10. CASE PhyFails
  <2>0. Sending /\ o = n
    BY <1>7, <1>10, PhyClock
  <2>1. CASE PhyMsg.sig = "FRAME_SEND_TO" /\ TimedOut /\ phy.retry >= MaxRetry
    <3>1. n = N /\ O = r + 1 + N /\ r >= MaxRetry
      BY <1>3, <1>7, <1>8, <2>0, <2>1 DEF r
    <3>2. o + (MaxRetry + 1) <= O
      BY <1>2, <1>6, <2>0, <3>1
    <3>. QED  BY <1>1, <1>4, <1>10, <3>2 DEF O
  <2>2. CASE Refused /\ phy.retry > MaxRetry
    <3>1. n = N - 1 /\ (O = r + 1 + N \/ O = r + N) /\ r > MaxRetry
      BY <1>3, <1>5, <1>7, <2>0, <2>2, PhyMsgWire DEF r
    <3>2. o + (MaxRetry + 1) <= O
      BY <1>2, <1>6, <2>0, <3>1
    <3>. QED  BY <1>1, <1>4, <1>10, <3>2 DEF O
  <2>. QED  BY <1>10, <2>1, <2>2 DEF PhyFails
<1>11. CASE PhySucceeds
  <2>1. Sending /\ o = n /\ PhyMsg \notin Refusals
    BY <1>7, <1>11, PhyClock, PhyMsgWire, WireKinds DEF PhySucceeds
  <2>2. ~PhyFails
    <3>1. PhyMsg \in Grants
      BY <1>11, PhyMsgWire DEF PhySucceeds
    <3>. QED  BY <3>1, <2>1, PhyMsgWire, WireKinds DEF PhyFails
  <2>3. n = N
    BY <1>3, <2>1
  <2>4. O = r + 1 + N \/ O = r + Cost
    BY <1>7, <2>1
  <2>5. o <= O
    BY <1>2, <2>1, <2>3, <2>4
  <2>. QED  BY <1>1, <1>4, <2>2, <2>5 DEF O
<1>12. CASE PhyPasses \/ PhyObjects
  <2>0. ~PhyFails
    <3>1. PhyMsg \in WireMsgs
      BY <1>12, PhyMsgWire
    <3>2. ~Refused
      BY <1>12, WireKinds DEF PhyPasses, PhyObjects, Refused, Current
    <3>. QED  BY <3>1, <3>2, PhyMsgWire DEF PhyFails
  <2>1. UNCHANGED <<phy, timer>>
    BY <1>12, PhyClock
  <2>2. Sending' = Sending /\ TimedOut' = TimedOut /\ phy'.retry = r
    BY <2>1 DEF Sending, TimedOut, r
  <2>3. n \in Nat /\ n <= N
    BY <1>2, <1>3
  <2>4. CASE ~Sending
    <3>1. o = n /\ O = N
      BY <1>7, <2>2, <2>4
    <3>2. o <= O
      BY <2>3, <3>1
    <3>. QED  BY <1>1, <1>4, <2>0, <3>2 DEF O
  <2>5. CASE Sending /\ TimedOut
    <3>1. o = r + 1 + n
      BY <1>1, <2>2, <2>5 DEF Owed
    <3>2. O = r + 1 + N
      BY <1>7, <2>5
    <3>3. o <= O
      BY <1>2, <2>3, <3>1, <3>2
    <3>. QED  BY <1>1, <1>4, <2>0, <3>3 DEF O
  <2>6. CASE Sending /\ ~TimedOut
    <3>1. O = r + Cost
      BY <1>7, <2>6
    <3>2. o = phy'.retry + Cost'
      BY <1>7, <2>2, <2>6
    <3>3. Cost' = n \/ (Cost' = 1 /\ n = 0 /\ Hope = 0)
      BY <1>1, <1>12, <2>6, HopePassed DEF Cost
    <3>4. Hope = 0 => Cost >= 1
      BY <1>2 DEF Cost, N
    <3>5. PICK c : c = Cost'
      OBVIOUS
    <3>6. c <= Cost /\ c \in Nat
      BY <1>2, <2>3, <3>3, <3>4, <3>5
    <3>7. o = r + c
      BY <2>2, <3>2, <3>5
    <3>8. o <= O
      BY <1>2, <3>1, <3>6, <3>7
    <3>. QED  BY <1>1, <1>4, <2>0, <3>8 DEF O
  <2>. QED  BY <2>4, <2>5, <2>6
<1>. QED  BY <1>9, <1>10, <1>11, <1>12 DEF PhyOfA

(* What a fault of the line does to the answers: one more refusal, or none less. *)
Disturbs == \/ faults' = faults /\ Negative' = Negative /\ Hope' = Hope
            \/ faults' = faults + 1 /\ Negative' \in Nat /\ Negative' <= Negative + 1

LEMMA OwedFollows ==
  ASSUME Base, UNCHANGED phy, timer'[PhySendTo] = timer[PhySendTo]
  PROVE  /\ Negative' = Negative /\ Hope' = Hope => Owed' = Owed
         /\ Negative' \in Nat /\ Negative' <= Negative + 1 => Owed' <= Owed + 1
<1>1. Sending' = Sending /\ TimedOut' = TimedOut /\ phy'.retry = phy.retry
  BY DEF Sending, TimedOut
<1>2. Negative' = Negative /\ Hope' = Hope => Owed' = Owed
  BY <1>1 DEF Owed, Cost
<1>3. ASSUME Negative' \in Nat /\ Negative' <= Negative + 1
      PROVE  Owed' <= Owed + 1
  <2> DEFINE N == Negative
             O == Owed
             r == phy.retry
  <2>1. PICK n, o, c : n = Negative' /\ o = Owed' /\ c = Cost'
    OBVIOUS
  <2>2. N \in Nat /\ O \in Nat /\ Cost \in Nat /\ N <= Cost /\ Cost <= N + 1 /\ r \in Nat
    BY LedgerNat, BaseFacts
  <2>3. n \in Nat /\ n <= N + 1
    BY <1>3, <2>1
  <2>4. c = n \/ c = 1
    BY <2>1 DEF Cost
  <2>5. c \in Nat /\ c <= Cost + 1
    BY <2>2, <2>3, <2>4
  <2>6. /\ ~Sending => O = N /\ o = n
        /\ Sending /\ TimedOut => O = r + 1 + N /\ o = r + 1 + n
        /\ Sending /\ ~TimedOut => O = r + Cost /\ o = r + c
    BY <1>1, <2>1 DEF Owed
  <2> HIDE DEF N, O, r
  <2>7. o <= O + 1
    <3>1. CASE ~Sending
      <4>1. O = N /\ o = n
        BY <2>6, <3>1
      <4>. QED  BY <2>2, <2>3, <4>1
    <3>2. CASE Sending /\ TimedOut
      <4>1. O = r + 1 + N /\ o = r + 1 + n
        BY <2>6, <3>2
      <4>. QED  BY <2>2, <2>3, <4>1
    <3>3. CASE Sending /\ ~TimedOut
      <4>1. O = r + Cost /\ o = r + c
        BY <2>6, <3>3
      <4>. QED  BY <2>2, <2>5, <4>1
    <3>. QED  BY <3>1, <3>2, <3>3
  <2>. QED  BY <2>1, <2>7 DEF O
<1>. QED  BY <1>2, <1>3

LEMMA OwedOfB ==
  ASSUME Fits, Base, Room, PhyOfB, faults <= Enough
  PROVE  faults' = faults /\ Owed' = Owed /\ Negative' = Negative /\ Hope' = Hope
<1> DEFINE w(M) == Occ(mboxB["LINK_PHY"], M)
           l(M) == Occ(lineB, M)
<1>1. /\ UNCHANGED <<phy, timer, line, mbox, faults>>
  BY DEF PhyOfB, AStays
<1>2. (\A M : Current(M)' = Current(M)) /\ (\A t : CurrentOf(t)' = CurrentOf(t))
  BY <1>1, SameCurrent
<1>3. \A M : Occ(mboxB["LINK_PHY"], M) = One(WireMsg \in M) + Occ(mboxB'["LINK_PHY"], M)
             /\ Occ(mboxB'["LINK_PHY"], M) \in Nat
  BY BPhyHeads
<1>4. WireMsg.frame.seq \in 0 .. PhySeqMod - 1
  BY BPhyHeads
<1>5. \A t \in {"ACK", "NACK"} : lineB' = B!Written(Answer(t, WireMsg.frame.seq)) =>
         \A M : Occ(lineB', M) = Occ(lineB, M) + One(Answer(t, WireMsg.frame.seq) \in M)
  <2>1. lineB \in Seq(PhyFrame)
    BY BaseFacts
  <2>2. ASSUME NEW t \in {"ACK", "NACK"}, lineB' = B!Written(Answer(t, WireMsg.frame.seq)), NEW M
        PROVE  Occ(lineB', M) = Occ(lineB, M) + One(Answer(t, WireMsg.frame.seq) \in M)
    <3>1. Answer(t, WireMsg.frame.seq) \in PhyFrame
      BY <1>4, AnswersTyped
    <3>2. lineB' = Append(lineB, Answer(t, WireMsg.frame.seq))
      BY <2>2, BLineRoom
    <3>. QED  BY <2>1, <3>1, <3>2, OccAppend
  <2>. QED  BY <2>2
<1>6. \A M : Occ(lineB, M) \in Nat
  BY LedgerNat
<1>7. /\ Occ(mboxB'["LINK_PHY"], Broken) + Occ(lineB', OfType("NACK"))
           = Occ(mboxB["LINK_PHY"], Broken) + Occ(lineB, OfType("NACK"))
      /\ Occ(mboxB'["LINK_PHY"], Current(Asks)) + Occ(lineB', CurrentOf("ACK"))
           = Occ(mboxB["LINK_PHY"], Current(Asks)) + Occ(lineB, CurrentOf("ACK"))
  <2> DEFINE b == Occ(mboxB["LINK_PHY"], Broken)
             k == Occ(mboxB["LINK_PHY"], Current(Asks))
             n == Occ(lineB, OfType("NACK"))
             a == Occ(lineB, CurrentOf("ACK"))
  <2>0. PICK b1, k1, n1, a1 : /\ b1 = Occ(mboxB'["LINK_PHY"], Broken)
                              /\ k1 = Occ(mboxB'["LINK_PHY"], Current(Asks))
                              /\ n1 = Occ(lineB', OfType("NACK"))
                              /\ a1 = Occ(lineB', CurrentOf("ACK"))
    OBVIOUS
  <2>1. b1 \in Nat /\ k1 \in Nat /\ b = One(WireMsg \in Broken) + b1
        /\ k = One(WireMsg \in Current(Asks)) + k1 /\ n \in Nat /\ a \in Nat
    BY <1>3, <1>6, <2>0
  <2>s. SUFFICES b1 + n1 = b + n /\ k1 + a1 = k + a
    BY <2>0
  <2>2. CASE WireMsg \in Asks /\ lineB' = B!Written(Answer("ACK", WireMsg.frame.seq))
    <3>1. /\ n1 = n + One(Answer("ACK", WireMsg.frame.seq) \in OfType("NACK"))
          /\ a1 = a + One(Answer("ACK", WireMsg.frame.seq) \in CurrentOf("ACK"))
      BY <1>5, <2>0, <2>2
    <3>2. /\ Answer("ACK", WireMsg.frame.seq) \notin OfType("NACK") /\ WireMsg \notin Broken
          /\ Answer("ACK", WireMsg.frame.seq) \in CurrentOf("ACK") <=> WireMsg \in Current(Asks)
      BY <1>4, <2>2, AnswersTyped, WireKinds DEF OfType, CurrentOf, Current
    <3> HIDE DEF b, k, n, a
    <3>3. b = 0 + b1 /\ n1 = n + 0
      BY <2>1, <3>1, <3>2 DEF One
    <3>4. \/ k = 1 + k1 /\ a1 = a + 1
          \/ k = 0 + k1 /\ a1 = a + 0
      BY <2>1, <3>1, <3>2 DEF One
    <3>5. b1 + n1 = b + n
      BY <2>1, <3>3
    <3>. QED  BY <2>1, <3>4, <3>5
  <2>3. CASE WireMsg \in Broken /\ lineB' = B!Written(Answer("NACK", WireMsg.frame.seq))
    <3>1. /\ n1 = n + One(Answer("NACK", WireMsg.frame.seq) \in OfType("NACK"))
          /\ a1 = a + One(Answer("NACK", WireMsg.frame.seq) \in CurrentOf("ACK"))
      BY <1>5, <2>0, <2>3
    <3>2. /\ Answer("NACK", WireMsg.frame.seq) \in OfType("NACK") /\ WireMsg \notin Current(Asks)
          /\ Answer("NACK", WireMsg.frame.seq) \notin CurrentOf("ACK")
      BY <1>4, <2>3, AnswersTyped, WireKinds DEF OfType, CurrentOf, Current
    <3> HIDE DEF b, k, n, a
    <3>3. b = 1 + b1 /\ n1 = n + 1
      BY <2>1, <2>3, <3>1, <3>2 DEF One
    <3>4. k = 0 + k1 /\ a1 = a + 0
      BY <2>1, <3>1, <3>2 DEF One
    <3>5. b1 + n1 = b + n
      BY <2>1, <3>3
    <3>. QED  BY <2>1, <3>4, <3>5
  <2>4. CASE WireMsg \notin Asks \cup Broken /\ lineB' = lineB
    <3>1. n1 = n /\ a1 = a
      BY <2>0, <2>4
    <3>2. b = 0 + b1 /\ k = 0 + k1
      BY <2>1, <2>4 DEF One, Current
    <3> HIDE DEF b, k, n, a
    <3>. QED  BY <2>1, <3>1, <3>2
  <2>. QED  BY <2>2, <2>3, <2>4 DEF PhyOfB
<1>8. Negative' = Negative
  BY <1>1, <1>7 DEF Negative
<1>9. Hope' = Hope
  <2>1. PICK q, x : q = Occ(line, CurrentOf("REQ")) /\ x = Occ(mbox["LINK_PHY"], Current(Grants))
                    /\ q \in Nat /\ x \in Nat
    BY LedgerNat
  <2>2. PICK k, a, k1, a1 \in Nat :
          /\ k = Occ(mboxB["LINK_PHY"], Current(Asks)) /\ a = Occ(lineB, CurrentOf("ACK"))
          /\ k1 = Occ(mboxB'["LINK_PHY"], Current(Asks)) /\ a1 = Occ(lineB', CurrentOf("ACK"))
          /\ k1 + a1 = k + a
    <3>1. lineB' \in Seq(PhyFrame)
      <4>1. lineB \in Seq(PhyFrame)
        BY BaseFacts
      <4>2. \A t \in {"ACK", "NACK"} : lineB' = B!Written(Answer(t, WireMsg.frame.seq)) => lineB' \in Seq(PhyFrame)
        BY <1>4, <4>1, BLineRoom, AnswersTyped, AppendAt
      <4>. QED  BY <4>1, <4>2 DEF PhyOfB
    <3>2. \A M : Occ(lineB', M) \in Nat
      BY <3>1, PlacesFinite
    <3>. QED  BY <1>3, <1>6, <1>7, <3>2, LedgerNat
  <2>3. Hope = q + k + a + x /\ Hope' = q + k1 + a1 + x
    BY <1>1, <1>2, <2>1, <2>2 DEF Hope
  <2>4. q + k + a + x = q + k1 + a1 + x
    BY <2>1, <2>2
  <2>. QED  BY <2>3, <2>4
<1>. QED  BY <1>1, <1>8, <1>9, OwedFollows

LEMMA OwedReachesA ==
  ASSUME Base, ReachesA
  PROVE  Owed' + faults <= Owed + faults' /\ Disturbs
<1>1. UNCHANGED <<phy, timer, line, mboxB>>
  BY DEF ReachesA
<1>2. (\A M : Current(M)' = Current(M)) /\ (\A t : CurrentOf(t)' = CurrentOf(t))
  BY <1>1, SameCurrent
<1>3. /\ \A M : Occ(lineB, M) = One(Head(lineB) \in M) + Occ(lineB', M) /\ Occ(lineB', M) \in Nat
      /\ \A M : Occ(mbox["LINK_PHY"], M) \in Nat
      /\ Head(lineB) \in PhyFrame
  BY ReachedACounts
<1>4. Owed \in Nat /\ Negative \in Nat /\ faults \in Nat
  BY LedgerNat, BaseFacts
<1>5. ASSUME NEW m \in PhyMsgs, ComesToA(m), faults' = faults
      PROVE  Negative' = Negative /\ Hope' = Hope
  <2> DEFINE f == Head(lineB)
  <2>0. m.sig = "FRAME_REV" /\ m \in WireMsgs /\ m.frame = f
    BY <1>4, <1>5 DEF ComesToA
  <2>a. /\ m \in Refusals <=> f \in OfType("NACK")
        /\ m \in Current(Grants) <=> f \in CurrentOf("ACK")
    BY <1>3, <2>0 DEF Refusals, Grants, Current, CurrentOf, OfType
  <2>1. \A M : Occ(mbox'["LINK_PHY"], M) = Occ(mbox["LINK_PHY"], M) + One(m \in M)
    BY <1>5 DEF ComesToA
  <2>2. Occ(lineB', OfType("NACK")) + Occ(mbox'["LINK_PHY"], Refusals)
          = Occ(lineB, OfType("NACK")) + Occ(mbox["LINK_PHY"], Refusals)
    <3>1. PICK n, x, v \in Nat : /\ n = Occ(lineB', OfType("NACK")) /\ x = Occ(mbox["LINK_PHY"], Refusals)
                              /\ v = One(f \in OfType("NACK"))
      BY <1>3 DEF One
    <3>2. Occ(lineB, OfType("NACK")) = v + n /\ Occ(mbox'["LINK_PHY"], Refusals) = x + v
      BY <1>3, <2>1, <2>a, <3>1 DEF One
    <3>. QED  BY <3>1, <3>2
  <2>3. Occ(lineB', CurrentOf("ACK")) + Occ(mbox'["LINK_PHY"], Current(Grants))
          = Occ(lineB, CurrentOf("ACK")) + Occ(mbox["LINK_PHY"], Current(Grants))
    <3>1. PICK n, x, v \in Nat : /\ n = Occ(lineB', CurrentOf("ACK"))
                              /\ x = Occ(mbox["LINK_PHY"], Current(Grants))
                              /\ v = One(f \in CurrentOf("ACK"))
      BY <1>3 DEF One
    <3>2. Occ(lineB, CurrentOf("ACK")) = v + n /\ Occ(mbox'["LINK_PHY"], Current(Grants)) = x + v
      BY <1>3, <2>1, <2>a, <3>1 DEF One
    <3>. QED  BY <3>1, <3>2
  <2>4. \A b, n, r, n1, r1 : b \in Nat /\ n \in Nat /\ r \in Nat /\ n1 \in Nat /\ r1 \in Nat /\ n1 + r1 = n + r
           => b + n1 + r1 = b + n + r
    OBVIOUS
  <2>5. \A M : Occ(mbox'["LINK_PHY"], M) \in Nat /\ Occ(mboxB["LINK_PHY"], M) \in Nat
               /\ Occ(line, M) \in Nat /\ Occ(lineB, M) \in Nat /\ Occ(lineB', M) \in Nat
               /\ Occ(mbox["LINK_PHY"], M) \in Nat
    <3>1. \A M : One(m \in M) \in Nat
      BY DEF One
    <3>. QED  BY <1>3, <2>1, <3>1, LedgerNat
  <2>6. Negative' = Negative
    BY <1>1, <2>2, <2>4, <2>5 DEF Negative
  <2>7. Hope' = Hope
    <3>1. PICK q \in Nat : q = Occ(line, CurrentOf("REQ")) + Occ(mboxB["LINK_PHY"], Current(Asks))
      BY <2>5
    <3>. QED  BY <1>1, <1>2, <2>3, <2>4, <2>5, <3>1 DEF Hope
  <2>. QED  BY <2>6, <2>7
<1>6. ASSUME faults' = faults + 1, Occ(mbox'["LINK_PHY"], Refusals) = Occ(mbox["LINK_PHY"], Refusals)
      PROVE  Negative' \in Nat /\ Negative' <= Negative + 1
  <2> DEFINE b == Occ(mboxB["LINK_PHY"], Broken)
             n == Occ(lineB, OfType("NACK"))
             r == Occ(mbox["LINK_PHY"], Refusals)
  <2>1. PICK n1, v : n1 = Occ(lineB', OfType("NACK")) /\ v = One(Head(lineB) \in OfType("NACK"))
    OBVIOUS
  <2>2. n1 \in Nat /\ v \in Nat /\ n = v + n1
    BY <1>3, <2>1 DEF One
  <2>3. b \in Nat /\ n \in Nat /\ r \in Nat
    BY LedgerNat
  <2>4. Negative' = b + n1 + r /\ Negative = b + n + r
    BY <1>1, <1>6, <2>1 DEF Negative
  <2> HIDE DEF b, n, r
  <2>5. b + n1 + r \in Nat /\ b + n1 + r <= (b + n + r) + 1
    BY <2>2, <2>3
  <2>. QED  BY <2>4, <2>5
<1>7. ASSUME NEW m \in PhyMsgs, ComesToA(m), faults' = faults + 1
      PROVE  Occ(mbox'["LINK_PHY"], Refusals) = Occ(mbox["LINK_PHY"], Refusals)
  <2>1. m \notin Refusals
    <3>1. m.sig = "FRAME_REV_CS_ERR"
      BY <1>4, <1>7 DEF ComesToA
    <3>. QED  BY <3>1 DEF Refusals
  <2>2. Occ(mbox'["LINK_PHY"], Refusals) = Occ(mbox["LINK_PHY"], Refusals) + One(m \in Refusals)
    BY <1>7 DEF ComesToA
  <2>. QED  BY <1>3, <2>1, <2>2 DEF One
<1>9. Disturbs
  <2>1. ASSUME NEW m \in PhyMsgs, ComesToA(m) PROVE Disturbs
    <3>1. faults' = faults \/ faults' = faults + 1
      BY <2>1 DEF ComesToA
    <3>. QED  BY <1>5, <1>6, <1>7, <2>1, <3>1 DEF Disturbs
  <2>2. ASSUME mbox' = mbox, faults' = faults + 1 PROVE Disturbs
    BY <1>6, <2>2 DEF Disturbs
  <2>. QED  BY <2>1, <2>2, ReachedACounts
<1>8. (faults' = faults /\ Owed' = Owed) \/ (faults' = faults + 1 /\ Owed' <= Owed + 1)
  <2>1. ASSUME NEW m \in PhyMsgs, ComesToA(m)
        PROVE  (faults' = faults /\ Owed' = Owed) \/ (faults' = faults + 1 /\ Owed' <= Owed + 1)
    <3>1. faults' = faults \/ faults' = faults + 1
      BY <2>1 DEF ComesToA
    <3>2. timer'[PhySendTo] = timer[PhySendTo]
      BY <1>1
    <3>. QED  BY <1>1, <1>5, <1>6, <1>7, <2>1, <3>1, <3>2, OwedFollows
  <2>2. ASSUME mbox' = mbox, faults' = faults + 1
        PROVE  Owed' <= Owed + 1
    <3>1. timer'[PhySendTo] = timer[PhySendTo]
      BY <1>1
    <3>. QED  BY <1>1, <1>6, <2>2, <3>1, OwedFollows
  <2>. QED  BY <2>1, <2>2, ReachedACounts
<1>. QED
  <2>1. PICK o, f : o = Owed' /\ f = faults'
    OBVIOUS
  <2>2. (f = faults /\ o = Owed) \/ (f = faults + 1 /\ o <= Owed + 1)
    BY <1>8, <2>1
  <2>3. o \in Nat
    <3>1. Negative' \in Nat /\ Hope' \in Nat
      <4>1. \A M : /\ Occ(line', M) \in Nat /\ Occ(lineB', M) \in Nat
                   /\ Occ(mbox'["LINK_PHY"], M) \in Nat /\ Occ(mboxB'["LINK_PHY"], M) \in Nat
        <5>1. ASSUME NEW m \in PhyMsgs, ComesToA(m) PROVE \A M : Occ(mbox'["LINK_PHY"], M) \in Nat
          <6>1. \A M : One(m \in M) \in Nat
            BY DEF One
          <6>. QED  BY <1>3, <5>1, <6>1 DEF ComesToA
        <5>2. \A M : Occ(mbox'["LINK_PHY"], M) \in Nat
          BY <1>3, <5>1, ReachedACounts
        <5>. QED  BY <1>1, <1>3, <5>2, LedgerNat
      <4>. QED  BY <4>1 DEF Negative, Hope
    <3>2. phy.retry \in Nat
      BY BaseFacts
    <3>. QED  BY <1>1, <2>1, <3>1, <3>2 DEF Owed, Cost
  <2>4. o + faults <= Owed + f
    BY <1>4, <2>2, <2>3
  <2>. QED  BY <1>9, <2>1, <2>4

LEMMA OwedReachesB ==
  ASSUME Base, ReachesB
  PROVE  Owed' + faults <= Owed + faults' /\ Disturbs
<1>1. UNCHANGED <<phy, timer, lineB, mbox>>
  BY DEF ReachesB
<1>2. (\A M : Current(M)' = Current(M)) /\ (\A t : CurrentOf(t)' = CurrentOf(t))
  BY <1>1, SameCurrent
<1>3. /\ \A M : Occ(line, M) = One(Head(line) \in M) + Occ(line', M) /\ Occ(line', M) \in Nat
      /\ \A M : Occ(mboxB["LINK_PHY"], M) \in Nat
      /\ Head(line) \in PhyFrame
  BY ReachedBCounts
<1>4. Owed \in Nat /\ Negative \in Nat /\ faults \in Nat
  BY LedgerNat, BaseFacts
<1>0. \A M : One(Head(line) \in M) \in 0..1
  BY DEF One
<1>5. ASSUME NEW m \in WireMsgs, ComesToB(m), faults' = faults
      PROVE  Negative' = Negative /\ Hope' = Hope
  <2> DEFINE f == Head(line)
  <2>0. m.sig = "FRAME_REV" /\ m.frame = f
    BY <1>4, <1>5 DEF ComesToB
  <2>a. m \notin Broken /\ (m \in Current(Asks) <=> f \in CurrentOf("REQ"))
    BY <1>3, <1>5, <2>0 DEF Broken, Asks, Current, CurrentOf, OfType
  <2>1. \A M : Occ(mboxB'["LINK_PHY"], M) = Occ(mboxB["LINK_PHY"], M) + One(m \in M)
    BY <1>5 DEF ComesToB
  <2>2. Occ(mboxB'["LINK_PHY"], Broken) = Occ(mboxB["LINK_PHY"], Broken)
    BY <1>3, <2>1, <2>a DEF One
  <2>3. Occ(line', CurrentOf("REQ")) + Occ(mboxB'["LINK_PHY"], Current(Asks))
          = Occ(line, CurrentOf("REQ")) + Occ(mboxB["LINK_PHY"], Current(Asks))
    <3>1. PICK n, x, v \in Nat : /\ n = Occ(line', CurrentOf("REQ"))
                              /\ x = Occ(mboxB["LINK_PHY"], Current(Asks))
                              /\ v = One(f \in CurrentOf("REQ"))
      BY <1>3 DEF One
    <3>2. Occ(line, CurrentOf("REQ")) = v + n /\ Occ(mboxB'["LINK_PHY"], Current(Asks)) = x + v
      BY <1>3, <2>1, <2>a, <3>1 DEF One
    <3>. QED  BY <3>1, <3>2
  <2>6. Negative' = Negative
    BY <1>1, <2>2 DEF Negative
  <2>7. Hope' = Hope
    BY <1>1, <1>2, <2>3 DEF Hope
  <2>. QED  BY <2>6, <2>7
<1>6. ASSUME NEW v \in 0..1, Occ(mboxB'["LINK_PHY"], Broken) = Occ(mboxB["LINK_PHY"], Broken) + v
      PROVE  Negative' \in Nat /\ Negative' <= Negative + 1
  <2> DEFINE b == Occ(mboxB["LINK_PHY"], Broken)
             n == Occ(lineB, OfType("NACK"))
             r == Occ(mbox["LINK_PHY"], Refusals)
  <2>3. b \in Nat /\ n \in Nat /\ r \in Nat
    BY LedgerNat
  <2>4. Negative' = (b + v) + n + r /\ Negative = b + n + r
    BY <1>1, <1>6 DEF Negative
  <2> HIDE DEF b, n, r
  <2>5. (b + v) + n + r \in Nat /\ (b + v) + n + r <= (b + n + r) + 1
    BY <2>3
  <2>. QED  BY <2>4, <2>5
<1>9. Disturbs
  <2>1. ASSUME NEW m \in WireMsgs, ComesToB(m) PROVE Disturbs
    <3>1. faults' = faults \/ faults' = faults + 1
      BY <2>1 DEF ComesToB
    <3>2. One(m \in Broken) \in 0..1 /\ Occ(mboxB'["LINK_PHY"], Broken) = Occ(mboxB["LINK_PHY"], Broken) + One(m \in Broken)
      BY <2>1 DEF ComesToB, One
    <3>3. Negative' \in Nat /\ Negative' <= Negative + 1
      BY <1>6, <3>2
    <3>. QED  BY <1>5, <2>1, <3>1, <3>3 DEF Disturbs
  <2>2. ASSUME mboxB' = mboxB, faults' = faults + 1 PROVE Disturbs
    <3>1. Occ(mboxB'["LINK_PHY"], Broken) = Occ(mboxB["LINK_PHY"], Broken) + 0 /\ 0 \in 0..1
      BY <1>3, <2>2
    <3>2. Negative' \in Nat /\ Negative' <= Negative + 1
      BY <1>6, <3>1
    <3>. QED  BY <2>2, <3>2 DEF Disturbs
  <2>. QED  BY <2>1, <2>2, ReachedBCounts
<1>8. (faults' = faults /\ Owed' = Owed) \/ (faults' = faults + 1 /\ Owed' <= Owed + 1)
  <2>0. timer'[PhySendTo] = timer[PhySendTo]
    BY <1>1
  <2>1. ASSUME NEW m \in WireMsgs, ComesToB(m)
        PROVE  (faults' = faults /\ Owed' = Owed) \/ (faults' = faults + 1 /\ Owed' <= Owed + 1)
    <3>1. faults' = faults \/ faults' = faults + 1
      BY <2>1 DEF ComesToB
    <3>2. One(m \in Broken) \in 0..1 /\ Occ(mboxB'["LINK_PHY"], Broken) = Occ(mboxB["LINK_PHY"], Broken) + One(m \in Broken)
      BY <2>1 DEF ComesToB, One
    <3>3. Negative' \in Nat /\ Negative' <= Negative + 1
      BY <1>6, <3>2
    <3>. QED  BY <1>1, <1>5, <2>0, <2>1, <3>1, <3>3, OwedFollows
  <2>2. ASSUME mboxB' = mboxB, faults' = faults + 1
        PROVE  Owed' <= Owed + 1
    <3>1. Occ(mboxB'["LINK_PHY"], Broken) = Occ(mboxB["LINK_PHY"], Broken) + 0 /\ 0 \in 0..1
      BY <1>3, <2>2
    <3>2. Negative' \in Nat /\ Negative' <= Negative + 1
      BY <1>6, <3>1
    <3>. QED  BY <1>1, <2>0, <3>2, OwedFollows
  <2>. QED  BY <2>1, <2>2, ReachedBCounts
<1>. QED
  <2>1. PICK o, f : o = Owed' /\ f = faults'
    OBVIOUS
  <2>2. (f = faults /\ o = Owed) \/ (f = faults + 1 /\ o <= Owed + 1)
    BY <1>8, <2>1
  <2>3. o \in Nat
    <3>1. Negative' \in Nat /\ Hope' \in Nat
      <4>1. \A M : /\ Occ(line', M) \in Nat /\ Occ(lineB', M) \in Nat
                   /\ Occ(mbox'["LINK_PHY"], M) \in Nat /\ Occ(mboxB'["LINK_PHY"], M) \in Nat
        <5>1. ASSUME NEW m \in WireMsgs, ComesToB(m) PROVE \A M : Occ(mboxB'["LINK_PHY"], M) \in Nat
          <6>1. \A M : One(m \in M) \in Nat
            BY DEF One
          <6>. QED  BY <1>3, <5>1, <6>1 DEF ComesToB
        <5>2. \A M : Occ(mboxB'["LINK_PHY"], M) \in Nat
          BY <1>3, <5>1, ReachedBCounts
        <5>. QED  BY <1>1, <1>3, <5>2, LedgerNat
      <4>. QED  BY <4>1 DEF Negative, Hope
    <3>2. phy.retry \in Nat
      BY BaseFacts
    <3>. QED  BY <1>1, <2>1, <3>1, <3>2 DEF Owed, Cost
  <2>4. o + faults <= Owed + f
    BY <1>4, <2>2, <2>3
  <2>. QED  BY <1>9, <2>1, <2>4

LEMMA OwedTicks ==
  ASSUME Base, Ticks
  PROVE  Owed' + faults <= Owed + faults' /\ Negative' = Negative /\ Hope' = Hope
<1>1. UNCHANGED <<phy, line, lineB, mbox, mboxB>> /\ mbox["LINK_PHY"] = <<>> /\ mboxB["LINK_PHY"] = <<>>
  BY Tasks DEF Ticks, Idle
<1>2. (\A M : Current(M)' = Current(M)) /\ (\A t : CurrentOf(t)' = CurrentOf(t))
  BY <1>1, SameCurrent
<1>3. Negative' = Negative /\ Hope' = Hope /\ Cost' = Cost
  BY <1>1, <1>2 DEF Negative, Hope, Cost
<1>4. /\ Negative \in Nat /\ Cost \in Nat /\ Negative <= Cost /\ phy.retry \in Nat /\ faults \in Nat
      /\ Owed \in Nat
  BY LedgerNat, BaseFacts
<1>5. Sending' = Sending /\ phy'.retry = phy.retry
  BY <1>1 DEF Sending
<1>6. faults' = faults + 1 \/ (faults' = faults /\ Cost = 1 /\ Negative = 0)
  <2>1. CASE line = <<>> /\ lineB = <<>>
    <3>1. Negative = 0 /\ Hope = 0
      BY <1>1, <2>1, OccEmpty DEF Negative, Hope
    <3>2. faults' = faults + 0
      BY <2>1 DEF Ticks, One
    <3>. QED  BY <1>4, <3>1, <3>2 DEF Cost
  <2>2. CASE ~(line = <<>> /\ lineB = <<>>)
    BY <2>2 DEF Ticks, One
  <2>. QED  BY <2>1, <2>2
<1>7. \/ Owed' = Owed
      \/ Owed = phy.retry + Cost /\ Owed' = phy.retry + 1 + Negative
  <2>1. CASE TimedOut' <=> TimedOut
    BY <1>3, <1>5, <2>1 DEF Owed
  <2>2. CASE ~(TimedOut' <=> TimedOut)
    <3>1. TimedOut => TimedOut'
      <4>1. PhySendTo \in TimerKey
        BY Tasks
      <4>. QED  BY <1>5, <4>1 DEF TimedOut, Ticks
    <3>. QED  BY <1>3, <1>5, <2>2, <3>1 DEF Owed, TimedOut
  <2>. QED  BY <2>1, <2>2
<1>8. PICK o, f : o = Owed' /\ f = faults'
  OBVIOUS
<1> DEFINE N == Negative
           C == Cost
           O == Owed
           r == phy.retry
<1>9. /\ N \in Nat /\ C \in Nat /\ r \in Nat /\ O \in Nat /\ N <= C /\ faults \in Nat
      /\ f = faults + 1 \/ (f = faults /\ C = 1 /\ N = 0)
      /\ o = O \/ (O = r + C /\ o = r + 1 + N)
  BY <1>4, <1>6, <1>7, <1>8
<1> HIDE DEF N, C, O, r
<1>10. o + faults <= O + f
  BY <1>9
<1>. QED  BY <1>3, <1>8, <1>10 DEF O

LEMMA OwedNext ==
  Base' => (Owed \in Nat /\ faults \in Nat)'
<1>1. Base => Owed \in Nat /\ faults \in Nat
  BY LedgerNat, BaseFacts
<1>. QED  BY <1>1, PTL

(* What is owed grows by a fault at a time, and giving up pays for all attempts. *)
LEMMA OwedKept ==
  ASSUME Fits, Base, Base', Room, PairSteps, faults <= Enough
  PROVE  /\ PhyOfA /\ PhyFails => faults' = faults /\ Owed' + (MaxRetry + 1) <= Owed
         /\ ~(PhyOfA /\ PhyFails) => Owed' + faults <= Owed + faults'
<1> DEFINE O == Owed
<1>1. O \in Nat /\ faults \in Nat
  BY LedgerNat, BaseFacts
<1>2. PICK o, f \in Nat : o = Owed' /\ f = faults'
  BY OwedNext
<1>3. \A a, b, c, d \in Nat : a <= b /\ c = d => a + c <= b + d
  OBVIOUS
<1> HIDE DEF O
<1>4. CASE PhyOfA
  <2>1. ~PhyFails => o <= O /\ f = faults
    BY <1>2, <1>4, OwedOfA DEF O
  <2>2. ~PhyFails => o + faults <= O + f
    BY <1>1, <1>3, <2>1
  <2>. QED  BY <1>2, <1>4, <2>2, OwedOfA DEF O
<1>5. CASE LedgerStays \/ PhyOfB
  <2>1. o = O /\ f = faults
    BY <1>2, <1>5, QuietLedger, OwedOfB DEF O
  <2>2. o + faults <= O + f
    BY <1>1, <2>1
  <2>3. PhyOfA /\ PhyFails => PhyOfA
    OBVIOUS
  <2>. QED  BY <1>2, <1>4, <2>2 DEF O
<1>6. CASE ReachesA \/ ReachesB \/ Ticks
  BY <1>4, <1>6, OwedReachesA, OwedReachesB, OwedTicks
<1>. QED  BY <1>4, <1>5, <1>6, LedgerSteps

(* Each frame given up was paid for. *)
LEMMA PaidKept ==
  ASSUME Fits, Base, Base', Room, PairSteps, faults <= Enough, NEW G \in Nat, Paid(G)
  PROVE  /\ PhyOfA /\ PhyFails => Paid(G + 1)'
         /\ ~(PhyOfA /\ PhyFails) => Paid(G)'
<1>1. Owed \in Nat /\ faults \in Nat /\ MaxRetry + 1 \in Nat
  BY LedgerNat, BaseFacts, EnoughNat
<1>2. PICK o, f \in Nat : o = Owed' /\ f = faults'
  BY OwedNext
<1>3. PICK p, k \in Nat : p = (MaxRetry + 1) * G /\ k = MaxRetry + 1
  BY <1>1
<1>4. (MaxRetry + 1) * (G + 1) = p + k
  BY <1>1, <1>3
<1>5. p + Owed <= faults
  BY <1>3 DEF Paid
<1>6. CASE PhyOfA /\ PhyFails
  <2>1. f = faults /\ o + k <= Owed
    BY <1>2, <1>3, <1>6, OwedKept
  <2>2. p + k + o <= f
    BY <1>1, <1>5, <2>1
  <2>. QED  BY <1>2, <1>4, <1>6, <2>2 DEF Paid
<1>7. CASE ~(PhyOfA /\ PhyFails)
  <2>1. o + faults <= Owed + f
    BY <1>2, <1>7, OwedKept
  <2>2. p + o <= f
    BY <1>1, <1>5, <2>1
  <2>. QED  BY <1>2, <1>3, <1>7, <2>2 DEF Paid
<1>. QED  BY <1>6, <1>7

LEMMA DownTail ==
  ASSUME NEW S, NEW s \in Seq(S), s # <<>>, NEW key, NEW lo \in Nat, NEW hi \in Nat, Down(key, s, lo, hi)
  PROVE  /\ Down(key, Tail(s), lo, hi)
         /\ Head(s) \in DOMAIN key =>
              key[Head(s)] \in lo..hi /\ Down(key, Tail(s), lo, key[Head(s)])
<1>1. /\ \A i \in 1..Len(Tail(s)) : i + 1 \in 1..Len(s) /\ Tail(s)[i] = s[i + 1] /\ i \in Nat
      /\ Head(s) = s[1] /\ 1 \in 1..Len(s)
  BY TailAt
<1>2. \A i, j \in 1..Len(Tail(s)) : i < j => i + 1 < j + 1
  BY <1>1
<1>3. \A i \in 1..Len(Tail(s)) : 1 < i + 1
  BY <1>1
<1>4. Down(key, Tail(s), lo, hi)
  BY <1>1, <1>2 DEF Down
<1>5. ASSUME Head(s) \in DOMAIN key
      PROVE  key[Head(s)] \in lo..hi /\ Down(key, Tail(s), lo, key[Head(s)])
  <2>1. key[Head(s)] \in lo..hi
    BY <1>1, <1>5 DEF Down
  <2>2. \A i \in 1..Len(Tail(s)) : Tail(s)[i] \in DOMAIN key =>
          key[Tail(s)[i]] \in lo..hi /\ key[Tail(s)[i]] <= key[Head(s)]
    BY <1>1, <1>3, <1>5 DEF Down
  <2>3. lo <= key[Head(s)]
    BY <2>1
  <2>4. \A k \in lo..hi : k <= key[Head(s)] => k \in lo .. key[Head(s)]
    BY <2>1
  <2>. QED  BY <1>4, <2>1, <2>2, <2>3, <2>4 DEF Down
<1>. QED  BY <1>4, <1>5

LEMMA DownAppend ==
  ASSUME NEW S, NEW s \in Seq(S), NEW x \in S, NEW key, NEW lo \in Nat, NEW hi \in Nat,
         Down(key, s, lo, hi)
  PROVE  /\ x \notin DOMAIN key => Down(key, Append(s, x), lo, hi)
         /\ \A l \in Nat : x \in DOMAIN key /\ l <= key[x] /\ key[x] <= lo /\ key[x] \in Nat
              => Down(key, Append(s, x), l, hi)
<1>1. /\ \A i \in 1..Len(s) : i \in 1..Len(Append(s, x)) /\ Append(s, x)[i] = s[i] /\ i <= Len(s)
      /\ Append(s, x)[Len(s) + 1] = x /\ Len(s) + 1 \in 1..Len(Append(s, x))
      /\ \A i \in 1..Len(Append(s, x)) : i \in 1..Len(s) \/ i = Len(s) + 1
      /\ Len(s) \in Nat
  BY AppendAt
<1>2. \A i \in 1..Len(s) : ~(Len(s) + 1 < i)
  BY <1>1
<1>3. ~(Len(s) + 1 < Len(s) + 1)
  BY <1>1
<1>4. x \notin DOMAIN key => Down(key, Append(s, x), lo, hi)
  BY <1>1, <1>2 DEF Down
<1>5. ASSUME NEW l \in Nat, x \in DOMAIN key, l <= key[x], key[x] <= lo, key[x] \in Nat
      PROVE  Down(key, Append(s, x), l, hi)
  <2>1. lo <= hi
    BY DEF Down
  <2>2. l <= hi /\ key[x] \in l..hi
    BY <1>5, <2>1
  <2>3. \A k \in lo..hi : k \in l..hi /\ key[x] <= k
    BY <1>5
  <2>4. \A i \in 1..Len(Append(s, x)) : Append(s, x)[i] \in DOMAIN key => key[Append(s, x)[i]] \in l..hi
    BY <1>1, <2>2, <2>3 DEF Down
  <2>5. ASSUME NEW i \in 1..Len(Append(s, x)), NEW j \in 1..Len(Append(s, x)), i < j,
               Append(s, x)[i] \in DOMAIN key, Append(s, x)[j] \in DOMAIN key
        PROVE  key[Append(s, x)[j]] <= key[Append(s, x)[i]]
    <3>1. i \in 1..Len(s)
      BY <1>1, <1>2, <1>3, <2>5
    <3>2. CASE j \in 1..Len(s)
      BY <1>1, <2>5, <3>1, <3>2 DEF Down
    <3>3. CASE j = Len(s) + 1
      <4>1. key[s[i]] \in lo..hi
        BY <1>1, <2>5, <3>1 DEF Down
      <4>. QED  BY <1>1, <2>3, <3>1, <3>3, <4>1
    <3>. QED  BY <1>1, <3>2, <3>3
  <2>. QED  BY <2>2, <2>4, <2>5 DEF Down
<1>. QED  BY <1>4, <1>5

LEMMA DownWiden ==
  ASSUME NEW key, NEW s, NEW lo \in Nat, NEW hi \in Nat, NEW l \in Nat, NEW h \in Nat,
         l <= lo, hi <= h, Down(key, s, lo, hi)
  PROVE  Down(key, s, l, h)
<1>1. l <= h
  BY DEF Down
<1>2. \A k \in lo..hi : k \in l..h
  OBVIOUS
<1>. QED  BY <1>1, <1>2 DEF Down

LEMMA DownShift ==
  ASSUME NEW key, NEW later, NEW s, NEW lo \in Nat, NEW hi \in Nat, Down(key, s, lo, hi),
         DOMAIN later = DOMAIN key, \A x \in DOMAIN key : key[x] \in lo..hi => later[x] = key[x] + 1
  PROVE  Down(later, s, lo + 1, hi + 1)
<1>1. lo + 1 <= hi + 1
  BY DEF Down
<1>2. \A k \in lo..hi : k + 1 \in (lo + 1)..(hi + 1)
  OBVIOUS
<1>3. \A k, m \in lo..hi : k <= m => k + 1 <= m + 1
  OBVIOUS
<1>. QED  BY <1>1, <1>2, <1>3 DEF Down

LEMMA AgeFacts ==
  ASSUME Base
  PROVE  /\ \A q \in 0 .. PhySeqMod - 1 : Age(q) \in 0 .. PhySeqMod - 1 /\ (Age(q) = 0 <=> q = phy.seq)
         /\ phy'.seq = phy.seq => \A q : Age(q)' = Age(q)
         /\ phy'.seq = (phy.seq + 1) % PhySeqMod => \A q \in 0 .. PhySeqMod - 1 :
              Age(q) + 1 < PhySeqMod => Age(q)' = Age(q) + 1
<1> DEFINE s == phy.seq
<1>1. s \in 0 .. PhySeqMod - 1 /\ PhySeqMod \in Nat
  BY BaseFacts, BoundsAreNat
<1>2. \A q \in 0 .. PhySeqMod - 1 : Age(q) \in 0 .. PhySeqMod - 1 /\ (Age(q) = 0 <=> q = phy.seq)
  BY <1>1 DEF Age
<1>3. phy'.seq = phy.seq => \A q : Age(q)' = Age(q)
  BY DEF Age
<1>4. ASSUME phy'.seq = (phy.seq + 1) % PhySeqMod, NEW q \in 0 .. PhySeqMod - 1, Age(q) + 1 < PhySeqMod
      PROVE  Age(q)' = Age(q) + 1
  <2>1. PICK t : t = phy'.seq
    OBVIOUS
  <2>2. t = (s + 1) % PhySeqMod
    BY <1>4, <2>1
  <2>3. Age(q)' = IF q <= t THEN t - q ELSE t - q + PhySeqMod
    BY <2>1 DEF Age
  <2>4. Age(q) = IF q <= s THEN s - q ELSE s - q + PhySeqMod
    BY DEF Age
  <2> HIDE DEF s
  <2>5. CASE s + 1 < PhySeqMod
    <3>1. t = s + 1
      BY <1>1, <2>2, <2>5
    <3>. QED  BY <1>1, <1>4, <2>3, <2>4, <3>1
  <2>6. CASE ~(s + 1 < PhySeqMod)
    <3>0. s + 1 = PhySeqMod /\ PhySeqMod > 0
      BY <1>1, <2>6
    <3>1. t = 0
      <4>1. PhySeqMod % PhySeqMod = 0
        BY <1>1, <3>0
      <4>. QED  BY <2>2, <3>0, <4>1
    <3>2. Age(q) = s - q
      BY <1>1, <2>4, <3>0
    <3>. QED  BY <1>1, <1>4, <2>3, <3>0, <3>1, <3>2
  <2>. QED  BY <2>5, <2>6
<1>. QED  BY <1>2, <1>3, <1>4

LEMMA KeyFacts ==
  /\ \A M : DOMAIN Ages(M) = M /\ \A m \in M : Ages(M)[m] = Age(m.frame.seq)
  /\ \A t : DOMAIN AgesOf(t) = OfType(t) /\ \A f \in OfType(t) : AgesOf(t)[f] = Age(f.seq)
  /\ phy'.seq = phy.seq => (\A M : Ages(M)' = Ages(M)) /\ (\A t : AgesOf(t)' = AgesOf(t))
  /\ \A m \in WireMsgs : m.frame \in PhyFrame /\ m.frame.seq \in 0 .. PhySeqMod - 1
  /\ \A f \in PhyFrame : f.seq \in 0 .. PhySeqMod - 1
  /\ \A t : OfType(t) \subseteq PhyFrame
<1>1. \A f \in PhyFrame : f.seq \in 0 .. PhySeqMod - 1
  BY DEF PhyFrame
<1>2. \A m \in WireMsgs : m.frame \in PhyFrame
  BY BFields
<1>3. phy'.seq = phy.seq => (\A M : Ages(M)' = Ages(M)) /\ (\A t : AgesOf(t)' = AgesOf(t))
  BY DEF Ages, AgesOf, Age
<1>4. \A M : DOMAIN Ages(M) = M /\ \A m \in M : Ages(M)[m] = Age(m.frame.seq)
  BY DEF Ages
<1>5. \A t : DOMAIN AgesOf(t) = OfType(t) /\ \A f \in OfType(t) : AgesOf(t)[f] = Age(f.seq)
  BY DEF AgesOf
<1>. QED  BY <1>1, <1>2, <1>3, <1>4, <1>5 DEF OfType

LEMMA WindowQuiet ==
  ASSUME Base, NEW G \in Nat, Windowed(G), LedgerStays \/ Ticks
  PROVE  Windowed(G)'
<1>1. PICK a1, a2, a3 \in Nat : Window(a1, a2, a3, G + One(Sending))
  BY DEF Windowed
<1>2. UNCHANGED <<phy, line, lineB>> /\ mboxB'["LINK_PHY"] = mboxB["LINK_PHY"]
  BY DEF LedgerStays, Ticks
<1>3. (\A M : Ages(M)' = Ages(M)) /\ (\A t : AgesOf(t)' = AgesOf(t)) /\ One(Sending)' = One(Sending)
  BY <1>2, KeyFacts DEF Sending
<1>4. G + One(Sending) \in Nat
  BY DEF One
<1>5. ASSUME NEW m, m \notin WireMsgs, mbox'["LINK_PHY"] = Append(mbox["LINK_PHY"], m)
      PROVE  Down(Ages(Grants), mbox'["LINK_PHY"], a1, G + One(Sending))
  <2>1. mbox["LINK_PHY"] \in Seq(PhyMsgs \cup {m}) /\ m \in PhyMsgs \cup {m}
    BY BaseFacts
  <2>2. m \notin DOMAIN Ages(Grants)
    BY <1>5, KeyFacts, WireKinds
  <2>. QED  BY <1>1, <1>4, <1>5, <2>1, <2>2, DownAppend DEF Window
<1>6. Down(Ages(Grants), mbox'["LINK_PHY"], a1, G + One(Sending))
  <2>1. mbox'["LINK_PHY"] = mbox["LINK_PHY"] => Down(Ages(Grants), mbox'["LINK_PHY"], a1, G + One(Sending))
    BY <1>1 DEF Window
  <2>. QED  BY <1>5, <2>1 DEF LedgerStays, Ticks
<1>7. Window(a1, a2, a3, G + One(Sending))'
  BY <1>1, <1>2, <1>3, <1>6 DEF Window
<1>. QED  BY <1>7 DEF Windowed

LEMMA WindowOfB ==
  ASSUME Fits, Base, Room, faults <= Enough, NEW G \in Nat, Windowed(G), PhyOfB
  PROVE  Windowed(G)'
<1>1. PICK a1, a2, a3 \in Nat : Window(a1, a2, a3, G + One(Sending))
  BY DEF Windowed
<1>2. UNCHANGED <<phy, line, mbox>>
  BY DEF PhyOfB, AStays
<1>3. (\A M : Ages(M)' = Ages(M)) /\ (\A t : AgesOf(t)' = AgesOf(t)) /\ One(Sending)' = One(Sending)
  BY <1>2, KeyFacts DEF Sending
<1>4. /\ mboxB["LINK_PHY"] # <<>> /\ mboxB'["LINK_PHY"] = Tail(mboxB["LINK_PHY"])
      /\ mboxB["LINK_PHY"] \in Seq(WireMsgs) /\ WireMsg \in WireMsgs /\ WireMsg = Head(mboxB["LINK_PHY"])
      /\ lineB \in Seq(PhyFrame)
  BY BaseFacts DEF PhyOfB, WireMsg
<1>5. /\ Down(Ages(Asks), mboxB'["LINK_PHY"], a3, a2)
      /\ WireMsg \in Asks => /\ Age(WireMsg.frame.seq) \in a3..a2
                             /\ Down(Ages(Asks), mboxB'["LINK_PHY"], a3, Age(WireMsg.frame.seq))
  <2>1. Down(Ages(Asks), mboxB["LINK_PHY"], a3, a2)
    BY <1>1 DEF Window
  <2>2. WireMsg \in Asks => WireMsg \in DOMAIN Ages(Asks) /\ Ages(Asks)[WireMsg] = Age(WireMsg.frame.seq)
    BY KeyFacts
  <2>. QED  BY <1>4, <2>1, <2>2, DownTail
<1>6. \A t \in {"ACK", "NACK"} : Answer(t, WireMsg.frame.seq) \in PhyFrame /\ Answer(t, WireMsg.frame.seq).type = t
                                 /\ Answer(t, WireMsg.frame.seq).seq = WireMsg.frame.seq
  BY <1>4, KeyFacts, AnswersTyped
<1>7. Down(AgesOf("ACK"), lineB, a2, a1)
  BY <1>1 DEF Window
<1>8. CASE WireMsg \in Asks /\ lineB' = B!Written(Answer("ACK", WireMsg.frame.seq))
  <2>1. PICK f \in PhyFrame : f = Answer("ACK", WireMsg.frame.seq)
    BY <1>6
  <2>2. lineB' = Append(lineB, f) /\ f \in OfType("ACK") /\ f.seq = WireMsg.frame.seq
    BY <1>6, <1>8, <2>1, BLineRoom DEF OfType
  <2>3. PICK q \in Nat : q = Age(WireMsg.frame.seq) /\ a3 <= q /\ q <= a2
    BY <1>5, <1>8
  <2>4. f \in DOMAIN AgesOf("ACK") /\ AgesOf("ACK")[f] = q
    BY <2>2, <2>3, KeyFacts
  <2>5. Down(AgesOf("ACK"), lineB', q, a1)
    BY <1>4, <1>7, <2>2, <2>3, <2>4, DownAppend
  <2>6. Window(a1, q, a3, G + One(Sending))'
    BY <1>1, <1>2, <1>3, <1>5, <1>8, <2>3, <2>5 DEF Window
  <2>. QED  BY <2>6 DEF Windowed
<1>9. CASE WireMsg \in Broken /\ lineB' = B!Written(Answer("NACK", WireMsg.frame.seq))
  <2>1. PICK f \in PhyFrame : f = Answer("NACK", WireMsg.frame.seq)
    BY <1>6
  <2>2. lineB' = Append(lineB, f) /\ f \notin OfType("ACK")
    BY <1>6, <1>9, <2>1, BLineRoom DEF OfType
  <2>4. f \notin DOMAIN AgesOf("ACK")
    BY <2>2, KeyFacts
  <2>5. Down(AgesOf("ACK"), lineB', a2, a1)
    BY <1>4, <1>7, <2>2, <2>4, DownAppend
  <2>6. Window(a1, a2, a3, G + One(Sending))'
    BY <1>1, <1>2, <1>3, <1>5, <2>5 DEF Window
  <2>. QED  BY <2>6 DEF Windowed
<1>10. CASE lineB' = lineB
  <2>1. Window(a1, a2, a3, G + One(Sending))'
    BY <1>1, <1>2, <1>3, <1>5, <1>10 DEF Window
  <2>. QED  BY <2>1 DEF Windowed
<1>. QED  BY <1>8, <1>9, <1>10 DEF PhyOfB

LEMMA WindowReachesA ==
  ASSUME Base, NEW G \in Nat, Windowed(G), ReachesA
  PROVE  Windowed(G)'
<1>1. PICK a1, a2, a3 \in Nat : Window(a1, a2, a3, G + One(Sending))
  BY DEF Windowed
<1>2. UNCHANGED <<phy, line, mboxB>> /\ lineB # <<>> /\ lineB' = Tail(lineB)
  BY DEF ReachesA
<1>3. (\A M : Ages(M)' = Ages(M)) /\ (\A t : AgesOf(t)' = AgesOf(t)) /\ One(Sending)' = One(Sending)
  BY <1>2, KeyFacts DEF Sending
<1>4. lineB \in Seq(PhyFrame) /\ Head(lineB) \in PhyFrame /\ mbox["LINK_PHY"] \in Seq(PhyMsgs)
      /\ G + One(Sending) \in Nat /\ faults \in Nat
  BY BaseFacts, ReachedACounts DEF One
<1>5. /\ Down(AgesOf("ACK"), lineB', a2, a1)
      /\ Head(lineB) \in OfType("ACK") => /\ Age(Head(lineB).seq) \in a2..a1
                                          /\ Down(AgesOf("ACK"), lineB', a2, Age(Head(lineB).seq))
  <2>1. Down(AgesOf("ACK"), lineB, a2, a1)
    BY <1>1 DEF Window
  <2>2. Head(lineB) \in OfType("ACK") =>
          Head(lineB) \in DOMAIN AgesOf("ACK") /\ AgesOf("ACK")[Head(lineB)] = Age(Head(lineB).seq)
    BY KeyFacts
  <2>. QED  BY <1>2, <1>4, <2>1, <2>2, DownTail
<1>6. Down(Ages(Grants), mbox["LINK_PHY"], a1, G + One(Sending))
  BY <1>1 DEF Window
<1>7. ASSUME NEW m \in PhyMsgs, ComesToA(m), m \in Grants
      PROVE  Windowed(G)'
  <2>1. mbox'["LINK_PHY"] = Append(mbox["LINK_PHY"], m) /\ m.frame = Head(lineB)
    BY <1>7 DEF ComesToA
  <2>2. Head(lineB) \in OfType("ACK")
    BY <1>4, <1>7, <2>1 DEF Grants, OfType
  <2>3. PICK q \in Nat : q = Age(Head(lineB).seq) /\ a2 <= q /\ q <= a1
    BY <1>5, <2>2
  <2>4. m \in DOMAIN Ages(Grants) /\ Ages(Grants)[m] = q
    BY <1>7, <2>1, <2>3, KeyFacts
  <2>5. Down(Ages(Grants), mbox'["LINK_PHY"], q, G + One(Sending))
    BY <1>4, <1>6, <2>1, <2>3, <2>4, DownAppend
  <2>6. Window(q, a2, a3, G + One(Sending))'
    BY <1>1, <1>2, <1>3, <1>5, <2>2, <2>3, <2>5 DEF Window
  <2>. QED  BY <2>6 DEF Windowed
<1>8. ASSUME Down(Ages(Grants), mbox'["LINK_PHY"], a1, G + One(Sending))
      PROVE  Windowed(G)'
  <2>1. Window(a1, a2, a3, G + One(Sending))'
    BY <1>1, <1>2, <1>3, <1>5, <1>8 DEF Window
  <2>. QED  BY <2>1 DEF Windowed
<1>9. ASSUME NEW m \in PhyMsgs, ComesToA(m), m \notin Grants
      PROVE  Windowed(G)'
  <2>1. mbox'["LINK_PHY"] = Append(mbox["LINK_PHY"], m) /\ m \notin DOMAIN Ages(Grants)
    BY <1>9, KeyFacts DEF ComesToA
  <2>2. Down(Ages(Grants), mbox'["LINK_PHY"], a1, G + One(Sending))
    BY <1>4, <1>6, <2>1, DownAppend
  <2>. QED  BY <1>8, <2>2
<1>10. CASE mbox' = mbox
  BY <1>6, <1>8, <1>10
<1>. QED  BY <1>7, <1>9, <1>10, ReachedACounts

LEMMA WindowReachesB ==
  ASSUME Base, NEW G \in Nat, Windowed(G), ReachesB
  PROVE  Windowed(G)'
<1>1. PICK a1, a2, a3 \in Nat : Window(a1, a2, a3, G + One(Sending))
  BY DEF Windowed
<1>2. UNCHANGED <<phy, lineB, mbox>> /\ line # <<>> /\ line' = Tail(line)
  BY DEF ReachesB
<1>3. (\A M : Ages(M)' = Ages(M)) /\ (\A t : AgesOf(t)' = AgesOf(t)) /\ One(Sending)' = One(Sending)
  BY <1>2, KeyFacts DEF Sending
<1>4. line \in Seq(PhyFrame) /\ Head(line) \in PhyFrame /\ mboxB["LINK_PHY"] \in Seq(WireMsgs)
      /\ 0 \in Nat
  BY BaseFacts, ReachedBCounts
<1>5. /\ Down(AgesOf("REQ"), line', 0, a3)
      /\ Head(line) \in OfType("REQ") => /\ Age(Head(line).seq) \in 0..a3
                                         /\ Down(AgesOf("REQ"), line', 0, Age(Head(line).seq))
  <2>1. Down(AgesOf("REQ"), line, 0, a3)
    BY <1>1 DEF Window
  <2>2. Head(line) \in OfType("REQ") =>
          Head(line) \in DOMAIN AgesOf("REQ") /\ AgesOf("REQ")[Head(line)] = Age(Head(line).seq)
    BY KeyFacts
  <2>. QED  BY <1>2, <1>4, <2>1, <2>2, DownTail
<1>6. Down(Ages(Asks), mboxB["LINK_PHY"], a3, a2)
  BY <1>1 DEF Window
<1>7. ASSUME NEW m \in WireMsgs, ComesToB(m), m \in Asks
      PROVE  Windowed(G)'
  <2>1. mboxB'["LINK_PHY"] = Append(mboxB["LINK_PHY"], m) /\ m.frame = Head(line)
    BY <1>7 DEF ComesToB
  <2>2. Head(line) \in OfType("REQ")
    BY <1>4, <1>7, <2>1 DEF Asks, OfType
  <2>3. PICK q \in Nat : q = Age(Head(line).seq) /\ 0 <= q /\ q <= a3
    BY <1>5, <2>2
  <2>4. m \in DOMAIN Ages(Asks) /\ Ages(Asks)[m] = q
    BY <1>7, <2>1, <2>3, KeyFacts
  <2>5. Down(Ages(Asks), mboxB'["LINK_PHY"], q, a2)
    BY <1>4, <1>6, <2>1, <2>3, <2>4, DownAppend
  <2>6. Window(a1, a2, q, G + One(Sending))'
    BY <1>1, <1>2, <1>3, <1>5, <2>2, <2>3, <2>5 DEF Window
  <2>. QED  BY <2>6 DEF Windowed
<1>8. ASSUME Down(Ages(Asks), mboxB'["LINK_PHY"], a3, a2)
      PROVE  Windowed(G)'
  <2>1. Window(a1, a2, a3, G + One(Sending))'
    BY <1>1, <1>2, <1>3, <1>5, <1>8 DEF Window
  <2>. QED  BY <2>1 DEF Windowed
<1>9. ASSUME NEW m \in WireMsgs, ComesToB(m), m \notin Asks
      PROVE  Windowed(G)'
  <2>1. mboxB'["LINK_PHY"] = Append(mboxB["LINK_PHY"], m) /\ m \notin DOMAIN Ages(Asks)
    BY <1>9, KeyFacts DEF ComesToB
  <2>2. Down(Ages(Asks), mboxB'["LINK_PHY"], a3, a2)
    BY <1>4, <1>6, <2>1, <1>9, DownAppend
  <2>. QED  BY <1>8, <2>2
<1>10. CASE mboxB' = mboxB
  BY <1>6, <1>8, <1>10
<1>. QED  BY <1>7, <1>9, <1>10, ReachedBCounts

(* The faults that are counted pay for two frames given up, no more. *)
LEMMA PaidTwice ==
  ASSUME Base, NEW G \in Nat, Paid(G), faults <= Enough
  PROVE  G <= 2
<1>1. PICK k \in Nat : k = MaxRetry + 1 /\ k # 0
  <2>1. MaxRetry \in Nat
    BY LeftFacts
  <2>. QED  BY <2>1
<1>2. k * G + Owed <= faults /\ faults <= 2 * k /\ Owed \in Nat /\ faults \in Nat
  BY <1>1, LedgerNat, BaseFacts DEF Paid, Enough
<1>3. k * G <= 2 * k
  <2>1. k * G \in Nat
    BY <1>1
  <2>. QED  BY <1>2, <2>1
<1>4. ASSUME G > 2 PROVE FALSE
  <2>1. PICK d \in Nat : G = 3 + d
    <3>1. G - 3 \in Nat
      BY <1>4
    <3>2. G = 3 + (G - 3)
      BY <1>4
    <3>. QED  BY <3>1, <3>2
  <2>2. k * G = 3 * k + k * d /\ k * d \in Nat
    BY <1>1, <2>1
  <2>. QED  BY <1>1, <1>3, <2>2
<1>. QED  BY <1>4

Unused(q) ==
  /\ \A i \in 1..Len(line) : line[i] \in OfType("REQ") => line[i].seq # q
  /\ \A i \in 1..Len(mboxB["LINK_PHY"]) :
       mboxB["LINK_PHY"][i] \in Asks => mboxB["LINK_PHY"][i].frame.seq # q
  /\ \A i \in 1..Len(lineB) : lineB[i] \in OfType("ACK") => lineB[i].seq # q
  /\ \A i \in 1..Len(mbox["LINK_PHY"]) :
       mbox["LINK_PHY"][i] \in Grants => mbox["LINK_PHY"][i].frame.seq # q

(* The number of the next frame is on none that is under way. *)
LEMMA NextUnused ==
  ASSUME Fits, Base, faults <= Enough, NEW G \in Nat, Paid(G), ~Sending,
         NEW a1 \in Nat, NEW a2 \in Nat, NEW a3 \in Nat, Window(a1, a2, a3, G + One(Sending)),
         phy'.seq = (phy.seq + 1) % PhySeqMod
  PROVE  /\ Unused(phy'.seq)
         /\ Down(Ages(Grants)', mbox["LINK_PHY"], a1 + 1, G + 1)
         /\ Down(AgesOf("ACK")', lineB, a2 + 1, a1 + 1)
         /\ Down(Ages(Asks)', mboxB["LINK_PHY"], a3 + 1, a2 + 1)
         /\ Down(AgesOf("REQ")', line, 0 + 1, a3 + 1)
<1>1. /\ Down(Ages(Grants), mbox["LINK_PHY"], a1, G)
      /\ Down(AgesOf("ACK"), lineB, a2, a1)
      /\ Down(Ages(Asks), mboxB["LINK_PHY"], a3, a2)
      /\ Down(AgesOf("REQ"), line, 0, a3)
  <2>1. G + One(Sending) = G
    BY DEF One
  <2>. QED  BY <2>1 DEF Window
<1>2. a1 <= 2 /\ a2 <= 2 /\ a3 <= 2 /\ G <= 2
  <2>1. G <= 2
    BY PaidTwice
  <2>2. a1 <= G /\ a2 <= a1 /\ a3 <= a2
    BY <1>1 DEF Down
  <2>. QED  BY <2>1, <2>2
<1>3. ASSUME NEW q \in 0 .. PhySeqMod - 1, Age(q) <= 2
      PROVE  Age(q)' = Age(q) + 1 /\ q # phy'.seq
  <2>1. Age(q) \in Nat /\ Age(q) + 1 < PhySeqMod
    <3>1. Age(q) \in Nat /\ PhySeqMod \in Nat
      BY <1>3, AgeFacts, BoundsAreNat
    <3>. QED  BY <1>3, <3>1 DEF Fits
  <2>2. Age(q)' = Age(q) + 1
    BY <1>3, <2>1, AgeFacts
  <2>3. q = phy'.seq => Age(q)' = 0
    BY <1>3 DEF Age
  <2>. QED  BY <2>1, <2>2, <2>3
<1>4. \A lo, hi \in Nat : \A k \in lo..hi : hi <= 2 => k <= 2
  OBVIOUS
<1>5. Down(Ages(Grants)', mbox["LINK_PHY"], a1 + 1, G + 1)
  <2>1. \A x \in Grants : Ages(Grants)[x] <= 2 => Ages(Grants)'[x] = Ages(Grants)[x] + 1
    BY <1>3, KeyFacts, WireKinds DEF Ages
  <2>2. DOMAIN Ages(Grants)' = Grants /\ DOMAIN Ages(Grants) = Grants
    BY DEF Ages
  <2>3. \A x \in DOMAIN Ages(Grants) : Ages(Grants)[x] \in a1..G => Ages(Grants)'[x] = Ages(Grants)[x] + 1
    BY <1>2, <1>4, <2>1, <2>2
  <2>. QED  BY <1>1, <2>2, <2>3, DownShift
<1>6. Down(Ages(Asks)', mboxB["LINK_PHY"], a3 + 1, a2 + 1)
  <2>1. \A x \in Asks : Ages(Asks)[x] <= 2 => Ages(Asks)'[x] = Ages(Asks)[x] + 1
    BY <1>3, KeyFacts, WireKinds DEF Ages
  <2>2. DOMAIN Ages(Asks)' = Asks /\ DOMAIN Ages(Asks) = Asks
    BY DEF Ages
  <2>3. \A x \in DOMAIN Ages(Asks) : Ages(Asks)[x] \in a3..a2 => Ages(Asks)'[x] = Ages(Asks)[x] + 1
    BY <1>2, <1>4, <2>1, <2>2
  <2>. QED  BY <1>1, <2>2, <2>3, DownShift
<1>7. ASSUME NEW t PROVE /\ \A x \in DOMAIN AgesOf(t) : AgesOf(t)[x] <= 2 => AgesOf(t)'[x] = AgesOf(t)[x] + 1
                         /\ DOMAIN AgesOf(t)' = DOMAIN AgesOf(t)
  BY <1>3, KeyFacts DEF AgesOf
<1>8. Down(AgesOf("ACK")', lineB, a2 + 1, a1 + 1)
  <2>3. \A x \in DOMAIN AgesOf("ACK") : AgesOf("ACK")[x] \in a2..a1 => AgesOf("ACK")'[x] = AgesOf("ACK")[x] + 1
    BY <1>2, <1>4, <1>7
  <2>. QED  BY <1>1, <1>7, <2>3, DownShift
<1>9. Down(AgesOf("REQ")', line, 0 + 1, a3 + 1)
  <2>3. \A x \in DOMAIN AgesOf("REQ") : AgesOf("REQ")[x] \in 0..a3 => AgesOf("REQ")'[x] = AgesOf("REQ")[x] + 1
    BY <1>2, <1>4, <1>7
  <2>. QED  BY <1>1, <1>7, <2>3, DownShift
<1>10. Unused(phy'.seq)
  <2>1. \A i \in 1..Len(line) : line[i] \in OfType("REQ") => line[i].seq # phy'.seq
    <3>1. ASSUME NEW i \in 1..Len(line), line[i] \in OfType("REQ") PROVE line[i].seq # phy'.seq
      <4>1. AgesOf("REQ")[line[i]] \in 0..a3
        BY <1>1, <3>1, KeyFacts DEF Down
      <4>2. Age(line[i].seq) <= 2 /\ line[i].seq \in 0 .. PhySeqMod - 1
        BY <1>2, <1>4, <3>1, <4>1, KeyFacts
      <4>. QED  BY <1>3, <4>2
    <3>. QED  BY <3>1
  <2>2. \A i \in 1..Len(lineB) : lineB[i] \in OfType("ACK") => lineB[i].seq # phy'.seq
    <3>1. ASSUME NEW i \in 1..Len(lineB), lineB[i] \in OfType("ACK") PROVE lineB[i].seq # phy'.seq
      <4>1. AgesOf("ACK")[lineB[i]] \in a2..a1
        BY <1>1, <3>1, KeyFacts DEF Down
      <4>2. Age(lineB[i].seq) <= 2 /\ lineB[i].seq \in 0 .. PhySeqMod - 1
        BY <1>2, <1>4, <3>1, <4>1, KeyFacts
      <4>. QED  BY <1>3, <4>2
    <3>. QED  BY <3>1
  <2>3. \A i \in 1..Len(mboxB["LINK_PHY"]) :
          mboxB["LINK_PHY"][i] \in Asks => mboxB["LINK_PHY"][i].frame.seq # phy'.seq
    <3>1. ASSUME NEW i \in 1..Len(mboxB["LINK_PHY"]), NEW m, m = mboxB["LINK_PHY"][i], m \in Asks
          PROVE  m.frame.seq # phy'.seq
      <4>1. Ages(Asks)[m] \in a3..a2
        BY <1>1, <3>1, KeyFacts DEF Down
      <4>2. Age(m.frame.seq) <= 2 /\ m.frame.seq \in 0 .. PhySeqMod - 1
        BY <1>2, <1>4, <3>1, <4>1, KeyFacts, WireKinds
      <4>. QED  BY <1>3, <4>2
    <3>. QED  BY <3>1
  <2>4. \A i \in 1..Len(mbox["LINK_PHY"]) :
          mbox["LINK_PHY"][i] \in Grants => mbox["LINK_PHY"][i].frame.seq # phy'.seq
    <3>1. ASSUME NEW i \in 1..Len(mbox["LINK_PHY"]), NEW m, m = mbox["LINK_PHY"][i], m \in Grants
          PROVE  m.frame.seq # phy'.seq
      <4>1. Ages(Grants)[m] \in a1..G
        BY <1>1, <3>1, KeyFacts DEF Down
      <4>2. Age(m.frame.seq) <= 2 /\ m.frame.seq \in 0 .. PhySeqMod - 1
        BY <1>2, <1>4, <3>1, <4>1, KeyFacts, WireKinds
      <4>. QED  BY <1>3, <4>2
    <3>. QED  BY <3>1
  <2>. QED  BY <2>1, <2>2, <2>3, <2>4 DEF Unused
<1>. QED  BY <1>5, <1>6, <1>8, <1>9, <1>10

LEMMA WindowOfA ==
  ASSUME Fits, Base, Room, faults <= Enough, NEW G \in Nat, Paid(G), Windowed(G), PhyOfA
  PROVE  /\ PhyFails => Windowed(G + 1)'
         /\ ~PhyFails => Windowed(G)'
<1>1. PICK a1, a2, a3 \in Nat : Window(a1, a2, a3, G + One(Sending))
  BY DEF Windowed
<1>2. UNCHANGED <<lineB, mboxB>> /\ mbox["LINK_PHY"] # <<>> /\ mbox'["LINK_PHY"] = Tail(mbox["LINK_PHY"])
      /\ mbox["LINK_PHY"] \in Seq(PhyMsgs) /\ Tail(mbox["LINK_PHY"]) \in Seq(PhyMsgs) /\ line \in Seq(PhyFrame)
      /\ G + One(Sending) \in Nat
  BY BaseFacts, TailAt DEF PhyOfA, BStays, boardB, One
<1>3. Down(Ages(Grants), mbox["LINK_PHY"], a1, G + One(Sending)) /\ Down(AgesOf("REQ"), line, 0, a3)
      /\ Down(AgesOf("ACK"), lineB, a2, a1) /\ Down(Ages(Asks), mboxB["LINK_PHY"], a3, a2)
  BY <1>1 DEF Window
<1>4. /\ Down(Ages(Grants), mbox'["LINK_PHY"], a1, G + One(Sending))
      /\ Granted => a1 = 0 /\ Down(Ages(Grants), mbox'["LINK_PHY"], a1, 0)
  <2>1. Down(Ages(Grants), mbox'["LINK_PHY"], a1, G + One(Sending))
    BY <1>2, <1>3, DownTail
  <2>2. ASSUME Granted PROVE a1 = 0 /\ Down(Ages(Grants), mbox'["LINK_PHY"], a1, 0)
    <3>1. PhyMsg \in Grants /\ PhyMsg.frame.seq = phy.seq /\ PhyMsg.frame.seq \in 0 .. PhySeqMod - 1
      BY <2>2, KeyFacts, WireKinds DEF Granted, Current
    <3>2. PhyMsg \in DOMAIN Ages(Grants) /\ Ages(Grants)[PhyMsg] = 0
      BY <3>1, AgeFacts, KeyFacts
    <3>3. 0 \in a1 .. G + One(Sending) /\ Down(Ages(Grants), mbox'["LINK_PHY"], a1, 0)
      BY <1>2, <1>3, <3>2, DownTail DEF PhyMsg
    <3>. QED  BY <3>3
  <2>. QED  BY <2>1, <2>2
<1>5. CASE PhyBegins
  <2>1. ~Sending /\ Sending' /\ phy'.seq = (phy.seq + 1) % PhySeqMod
    BY <1>5, PhyClock DEF PhyBegins
  <2>2. /\ Down(Ages(Grants)', mbox["LINK_PHY"], a1 + 1, G + 1)
        /\ Down(AgesOf("ACK")', lineB, a2 + 1, a1 + 1)
        /\ Down(Ages(Asks)', mboxB["LINK_PHY"], a3 + 1, a2 + 1)
        /\ Down(AgesOf("REQ")', line, 0 + 1, a3 + 1)
    BY <1>1, <2>1, NextUnused
  <2>3. a1 + 1 \in Nat /\ a2 + 1 \in Nat /\ a3 + 1 \in Nat /\ G + 1 \in Nat /\ 0 + 1 \in Nat /\ 0 \in Nat
    OBVIOUS
  <2>4. Down(Ages(Grants)', mbox'["LINK_PHY"], a1 + 1, G + 1)
    BY <1>2, <2>2, <2>3, DownTail
  <2>5. PICK f \in PhyFrame : f = Request(phy') /\ line' = Append(line, f)
    BY <1>5, LineRoom
  <2>6. f.seq = phy'.seq /\ f \in OfType("REQ")
    BY <2>5 DEF Request, OfType
  <2>7. f \in DOMAIN AgesOf("REQ")' /\ AgesOf("REQ")'[f] = 0
    <3>1. phy'.seq \in 0 .. PhySeqMod - 1
      BY <2>6, KeyFacts
    <3>2. Age(f.seq)' = 0
      BY <2>6, <3>1 DEF Age
    <3>. QED  BY <2>6, <3>2 DEF AgesOf
  <2>8. Down(AgesOf("REQ")', line', 0, a3 + 1)
    <3>1. 0 <= AgesOf("REQ")'[f] /\ AgesOf("REQ")'[f] <= 0 + 1 /\ AgesOf("REQ")'[f] \in Nat
      BY <2>7
    <3>. QED  BY <1>2, <2>2, <2>3, <2>5, <2>7, <3>1, DownAppend
  <2>9. G + One(Sending)' = G + 1
    BY <2>1 DEF One
  <2>10. Window(a1 + 1, a2 + 1, a3 + 1, G + One(Sending))'
    BY <1>2, <2>2, <2>4, <2>8, <2>9 DEF Window
  <2>11. ~PhyFails
    BY <1>5, <2>1 DEF PhyFails, PhyBegins, TimedOut, Refused
  <2>. QED  BY <2>3, <2>10, <2>11 DEF Windowed
<1>6. CASE ~PhyBegins
  <2>0. phy'.seq = phy.seq
    <3>1. phy \in PhyState
      BY BaseFacts
    <3>. QED  BY <1>6, <3>1 DEF PhyOfA, PhyAgain, PhyFails, PhySucceeds, PhyPasses, PhyObjects, PhyAnswered, PhyState
  <2>a. (\A M : Ages(M)' = Ages(M)) /\ (\A t : AgesOf(t)' = AgesOf(t))
    BY <2>0, KeyFacts
  <2>1. CASE PhyAgain
    <3>1. PICK f \in PhyFrame : f = Request(phy') /\ line' = Append(line, f)
      BY <2>1, LineRoom
    <3>2. f.seq = phy.seq /\ f \in OfType("REQ")
      BY <2>0, <3>1 DEF Request, OfType
    <3>3. f \in DOMAIN AgesOf("REQ") /\ AgesOf("REQ")[f] = 0
      BY <3>2, AgeFacts, KeyFacts
    <3>4. Down(AgesOf("REQ"), line', 0, a3)
      <4>1. 0 <= AgesOf("REQ")[f] /\ AgesOf("REQ")[f] <= 0 /\ AgesOf("REQ")[f] \in Nat /\ 0 \in Nat
        BY <3>3
      <4>. QED  BY <1>2, <1>3, <3>1, <3>3, <4>1, DownAppend
    <3>5. One(Sending)' = One(Sending)
      BY <2>1, PhyClock DEF One
    <3>6. Window(a1, a2, a3, G + One(Sending))'
      BY <1>2, <1>3, <1>4, <2>a, <3>4, <3>5 DEF Window
    <3>7. ~PhyFails
      <4>1. phy'.send = "SENDING"
        BY <2>1 DEF PhyAgain, Transmits
      <4>. QED  BY <4>1 DEF PhyFails, PhyAnswered
    <3>. QED  BY <3>6, <3>7 DEF Windowed
  <2>2. CASE PhyFails
    <3>1. (G + 1) + One(Sending)' = G + One(Sending) /\ line' = line
      <4>1. Sending /\ ~Sending' /\ line' = line
        BY <2>2, PhyClock
      <4>2. One(Sending)' = 0 /\ One(Sending) = 1
        BY <4>1 DEF One
      <4>3. (G + 1) + 0 = G + 1
        OBVIOUS
      <4>. QED  BY <4>1, <4>2, <4>3
    <3>2. Window(a1, a2, a3, (G + 1) + One(Sending))'
      BY <1>2, <1>3, <1>4, <2>a, <3>1 DEF Window
    <3>. QED  BY <2>2, <3>2 DEF Windowed
  <2>3. CASE PhySucceeds
    <3>1. G + One(Sending)' = G /\ line' = line
      <4>1. Sending /\ ~Sending' /\ line' = line
        BY <2>3, PhyClock
      <4>2. One(Sending)' = 0
        BY <4>1 DEF One
      <4>. QED  BY <4>1, <4>2
    <3>2. a1 = 0 /\ Down(Ages(Grants), mbox'["LINK_PHY"], a1, G)
      <4>1. a1 = 0 /\ Down(Ages(Grants), mbox'["LINK_PHY"], a1, 0) /\ 0 <= G /\ 0 \in Nat /\ a1 <= a1
        BY <1>4, <2>3 DEF PhySucceeds
      <4>. QED  BY <4>1, DownWiden
    <3>3. Window(a1, a2, a3, G + One(Sending))'
      BY <1>2, <1>3, <2>a, <3>1, <3>2 DEF Window
    <3>4. ~PhyFails
      <4>1. PhyMsg \in Grants /\ PhyMsg \in WireMsgs
        BY <2>3, PhyMsgWire DEF PhySucceeds
      <4>. QED  BY <4>1, PhyMsgWire, WireKinds DEF PhyFails
    <3>. QED  BY <3>3, <3>4 DEF Windowed
  <2>4. CASE PhyPasses \/ PhyObjects
    <3>1. One(Sending)' = One(Sending)
      BY <2>4, PhyClock DEF Sending
    <3>2. Down(AgesOf("REQ"), line', 0, a3)
      <4>1. CASE PhyPasses
        BY <1>3, <4>1, LineRoom
      <4>2. CASE PhyObjects
        <5>1. PICK f \in PhyFrame : f = Answer("NACK", PhyMsg.frame.seq) /\ line' = Append(line, f)
          BY <4>2, LineRoom
        <5>a. f \notin OfType("REQ")
          BY <5>1 DEF Answer, OfType
        <5>2. f \notin DOMAIN AgesOf("REQ") /\ 0 \in Nat
          BY <5>a, KeyFacts
        <5>. QED  BY <1>2, <1>3, <5>1, <5>2, DownAppend
      <4>. QED  BY <2>4, <4>1, <4>2
    <3>3. Window(a1, a2, a3, G + One(Sending))'
      BY <1>2, <1>3, <1>4, <2>a, <3>1, <3>2 DEF Window
    <3>4. ~PhyFails
      <4>1. PhyMsg \in WireMsgs /\ ~Refused
        BY <2>4, PhyMsgWire, WireKinds DEF PhyPasses, PhyObjects, Refused, Current
      <4>. QED  BY <4>1, PhyMsgWire DEF PhyFails
    <3>. QED  BY <3>3, <3>4 DEF Windowed
  <2>. QED  BY <1>6, <2>1, <2>2, <2>3, <2>4 DEF PhyOfA
<1>. QED  BY <1>5, <1>6

LEMMA WindowKept ==
  ASSUME Fits, Base, Room, PairSteps, faults <= Enough, NEW G \in Nat, Paid(G), Windowed(G)
  PROVE  /\ PhyOfA /\ PhyFails => Windowed(G + 1)'
         /\ ~(PhyOfA /\ PhyFails) => Windowed(G)'
<1>1. CASE PhyOfA
  BY <1>1, WindowOfA
<1>2. CASE ~PhyOfA
  BY <1>2, WindowQuiet, WindowOfB, WindowReachesA, WindowReachesB, LedgerSteps
<1>. QED  BY <1>1, <1>2

(* A frame that bears the number of the frame being sent carries it. *)
LEMMA CarriesKept ==
  ASSUME Fits, Base, Room, PairSteps, faults <= Enough, NEW G \in Nat, Paid(G), Windowed(G), Carries
  PROVE  Carries'
<1>1. /\ \A i \in 1..Len(line) : line[i] \in CurrentOf("REQ") => line[i].mac = phy.frame
      /\ \A i \in 1..Len(mboxB["LINK_PHY"]) :
           mboxB["LINK_PHY"][i] \in Current(Asks) => mboxB["LINK_PHY"][i].frame.mac = phy.frame
  BY DEF Carries
<1>2. line \in Seq(PhyFrame) /\ mboxB["LINK_PHY"] \in Seq(WireMsgs) /\ phy \in PhyState
  BY BaseFacts
<1>3. CASE LedgerStays \/ Ticks
  <2>1. UNCHANGED <<line, phy>> /\ mboxB'["LINK_PHY"] = mboxB["LINK_PHY"]
    BY <1>3 DEF LedgerStays, Ticks
  <2>2. (\A M : Current(M)' = Current(M)) /\ (\A t : CurrentOf(t)' = CurrentOf(t))
    BY <2>1, SameCurrent
  <2>. QED  BY <1>1, <2>1, <2>2 DEF Carries
<1>4. CASE PhyOfA
  <2>0. mboxB' = mboxB
    BY <1>4 DEF PhyOfA, BStays, boardB
  <2>1. CASE PhyBegins
    <3>0. ~Sending /\ phy'.seq = (phy.seq + 1) % PhySeqMod
      BY <1>4, <2>1, PhyClock DEF PhyBegins
    <3>1. Unused(phy'.seq)
      <4>1. PICK a1, a2, a3 \in Nat : Window(a1, a2, a3, G + One(Sending))
        BY DEF Windowed
      <4>. QED  BY <3>0, <4>1, NextUnused
    <3>2. PICK f \in PhyFrame : f = Request(phy') /\ line' = Append(line, f)
      BY <1>4, <2>1, LineRoom
    <3>3. f.mac = phy'.frame
      BY <3>2 DEF Request
    <3>4. \A i \in 1..Len(line) : line[i] \notin CurrentOf("REQ")'
      BY <3>1 DEF Unused, CurrentOf
    <3>5. \A i \in 1..Len(line') : line'[i] \in CurrentOf("REQ")' => line'[i].mac = phy'.frame
      BY <1>2, <3>2, <3>3, <3>4, AppendAt
    <3>6. \A i \in 1..Len(mboxB["LINK_PHY"]) : mboxB["LINK_PHY"][i] \notin Current(Asks)'
      BY <3>1 DEF Unused, Current
    <3>. QED  BY <2>0, <3>5, <3>6 DEF Carries
  <2>2. CASE ~PhyBegins
    <3>0. phy'.seq = phy.seq /\ phy'.frame = phy.frame
      BY <1>2, <1>4, <2>2 DEF PhyOfA, PhyAgain, PhyFails, PhySucceeds, PhyPasses, PhyObjects, PhyAnswered, PhyState
    <3>1. (\A M : Current(M)' = Current(M)) /\ (\A t : CurrentOf(t)' = CurrentOf(t))
      BY <3>0, SameCurrent
    <3>2. ASSUME NEW f \in PhyFrame, line' = Append(line, f), f \in CurrentOf("REQ") => f.mac = phy.frame
          PROVE  \A i \in 1..Len(line') : line'[i] \in CurrentOf("REQ") => line'[i].mac = phy.frame
      BY <1>1, <1>2, <3>2, AppendAt
    <3>3. CASE PhyAgain
      <4>1. Request(phy').mac = phy.frame
        BY <3>0 DEF Request
      <4>2. Request(phy') \in PhyFrame /\ line' = Append(line, Request(phy'))
        BY <1>4, <3>3, LineRoom
      <4>3. \A i \in 1..Len(line') : line'[i] \in CurrentOf("REQ") => line'[i].mac = phy.frame
        BY <3>2, <4>1, <4>2
      <4>. QED  BY <1>1, <2>0, <3>0, <3>1, <4>3 DEF Carries
    <3>4. CASE PhyObjects
      <4>1. Answer("NACK", PhyMsg.frame.seq) \notin CurrentOf("REQ")
        BY DEF Answer, CurrentOf, OfType
      <4>2. Answer("NACK", PhyMsg.frame.seq) \in PhyFrame /\ line' = Append(line, Answer("NACK", PhyMsg.frame.seq))
        BY <1>4, <3>4, LineRoom
      <4>3. \A i \in 1..Len(line') : line'[i] \in CurrentOf("REQ") => line'[i].mac = phy.frame
        BY <3>2, <4>1, <4>2
      <4>. QED  BY <1>1, <2>0, <3>0, <3>1, <4>3 DEF Carries
    <3>5. CASE PhyFails \/ PhySucceeds \/ PhyPasses
      <4>1. line' = line
        BY <1>4, <3>5, PhyClock
      <4>. QED  BY <1>1, <2>0, <3>0, <3>1, <4>1 DEF Carries
    <3>. QED  BY <1>4, <2>2, <3>3, <3>4, <3>5 DEF PhyOfA
  <2>. QED  BY <2>1, <2>2
<1>5. CASE PhyOfB
  <2>1. UNCHANGED <<line, phy>> /\ mboxB'["LINK_PHY"] = Tail(mboxB["LINK_PHY"]) /\ mboxB["LINK_PHY"] # <<>>
    BY <1>5 DEF PhyOfB, AStays
  <2>2. (\A M : Current(M)' = Current(M)) /\ (\A t : CurrentOf(t)' = CurrentOf(t))
    BY <2>1, SameCurrent
  <2>3. \A i \in 1..Len(mboxB'["LINK_PHY"]) :
           mboxB'["LINK_PHY"][i] \in Current(Asks) => mboxB'["LINK_PHY"][i].frame.mac = phy.frame
    <3>1. \A i \in 1..Len(mboxB["LINK_PHY"]) :
             mboxB["LINK_PHY"][i] \in Current(Asks) => mboxB["LINK_PHY"][i].frame.mac = phy.frame
      BY <1>1
    <3>2. mboxB["LINK_PHY"] \in Seq(WireMsgs)
      BY <1>2
    <3> DEFINE b == mboxB["LINK_PHY"]
    <3>3. \A i \in 1..Len(Tail(b)) : i + 1 \in 1..Len(b) /\ Tail(b)[i] = b[i + 1]
      BY <2>1, <3>2, TailAt
    <3>. QED  BY <2>1, <3>1, <3>3
  <2>. QED  BY <1>1, <2>1, <2>2, <2>3 DEF Carries
<1>6. CASE ReachesA
  <2>1. UNCHANGED <<line, phy, mboxB>>
    BY <1>6 DEF ReachesA
  <2>2. (\A M : Current(M)' = Current(M)) /\ (\A t : CurrentOf(t)' = CurrentOf(t))
    BY <2>1, SameCurrent
  <2>. QED  BY <1>1, <2>1, <2>2 DEF Carries
<1>7. CASE ReachesB
  <2>1. phy' = phy /\ line' = Tail(line) /\ line # <<>>
    BY <1>7 DEF ReachesB
  <2>2. (\A M : Current(M)' = Current(M)) /\ (\A t : CurrentOf(t)' = CurrentOf(t))
    BY <2>1, SameCurrent
  <2>3. \A i \in 1..Len(line') : line'[i] \in CurrentOf("REQ") => line'[i].mac = phy.frame
    BY <1>1, <1>2, <2>1, TailAt
  <2>4. ASSUME NEW m \in WireMsgs, ComesToB(m)
        PROVE  \A i \in 1..Len(mboxB'["LINK_PHY"]) :
                 mboxB'["LINK_PHY"][i] \in Current(Asks) => mboxB'["LINK_PHY"][i].frame.mac = phy.frame
    <3>1. mboxB'["LINK_PHY"] = Append(mboxB["LINK_PHY"], m) /\ m.frame = Head(line)
      BY <2>4 DEF ComesToB
    <3>2. m \in Current(Asks) => m.frame.mac = phy.frame
      <4>1. Head(line) = line[1] /\ 1 \in 1..Len(line) /\ Head(line) \in PhyFrame
        BY <1>2, <2>1, TailAt
      <4>2. m \in Current(Asks) => Head(line) \in CurrentOf("REQ")
        BY <3>1, <4>1 DEF Current, CurrentOf, Asks, OfType
      <4>. QED  BY <1>1, <3>1, <4>1, <4>2
    <3>. QED  BY <1>1, <1>2, <3>1, <3>2, AppendAt
  <2>5. \A i \in 1..Len(mboxB'["LINK_PHY"]) :
           mboxB'["LINK_PHY"][i] \in Current(Asks) => mboxB'["LINK_PHY"][i].frame.mac = phy.frame
    BY <1>1, <1>7, <2>4, ReachedBCounts
  <2>. QED  BY <2>1, <2>2, <2>3, <2>5 DEF Carries
<1>. QED  BY <1>3, <1>4, <1>5, <1>6, <1>7, LedgerSteps

(* The account: what a frame given up cost, and how far the numbers are apart. *)

LEMMA AccountKept ==
  ASSUME Fits, Base, Base', Room, PairSteps, faults <= Enough, NEW G \in Nat, Account(G), Carries
  PROVE  /\ PhyOfA /\ PhyFails => Account(G + 1)'
         /\ ~(PhyOfA /\ PhyFails) => Account(G)'
         /\ Carries'
  BY PaidKept, WindowKept, CarriesKept DEF Account

=============================================================================
