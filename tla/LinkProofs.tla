----------------------------- MODULE LinkProofs -----------------------------
(***************************************************************************)
(* The link stack of one board, for every pool of PDUs, every number of    *)
(* retries, every interval and however often the timer thread and the      *)
(* tasks overtake each other: the types, the start-up handshake and the    *)
(* timers of the sender and the receiver; and, while they do not overtake  *)
(* each other, the owners of the PDUs, the frame in flight and the timeout *)
(* of the MAC layer.                                                       *)
(***************************************************************************)
EXTENDS LinkStack, Counting

(* The messages a task can find in its mailbox. *)
PhyFrame == [type : {"REQ", "ACK", "NACK"}, seq : 0 .. PhySeqMod - 1, mac : AnyFrame]

LinkMsgs == [sig : {"INIT", "MAC_LAYER_STARTED"}]
            \cup [sig : {"SEND_MSG"}, frames : 1..MaxFrames]
            \cup [sig : {"SEND_DONE", "SEND_ERR", "REV_MSG"}, pdu : Pdu]
MacMsgs == [sig : {"INIT", "PHY_LAYER_STARTED", "FRAME_SEND_DONE", "FRAME_SEND_ERR",
                   "FRAME_SEND_TO", "FRAME_REV_TO"}]
           \cup [sig : {"FRAME_SEND_REQ", "FRAME_SEND_START"}, pdu : Pdu]
           \cup [sig : {"FRAME_REV"}, frame : AnyFrame]
PhyMsgs == [sig : {"INIT", "FRAME_SEND_TO"}]
           \cup [sig : {"FRAME_SEND_REQ"}, frame : Frame]
           \cup [sig : {"FRAME_REV", "FRAME_REV_CS_ERR"}, frame : PhyFrame]
MsgsOf(t) == IF t = "LINK" THEN LinkMsgs ELSE IF t = "LINK_MAC" THEN MacMsgs ELSE PhyMsgs
AllMsgs == LinkMsgs \cup MacMsgs \cup PhyMsgs

Boxes == mbox \in [Task -> Seq(AllMsgs)] /\ \A t \in Task : mbox[t] \in Seq(MsgsOf(t))

(* The messages of a box that carry one of the signals S, or the PDU p. *)
With(S) == {m \in AllMsgs : m.sig \in S}
Cnt(s, S) == Occ(s, With(S))
CarryingPdu(p) == {m \in AllMsgs : m.sig \in PduSigs /\ m.pdu = p}
Car(s, p) == Occ(s, CarryingPdu(p))

LEMMA MsgFields ==
  /\ \A m \in LinkMsgs : /\ m.sig \in {"INIT", "MAC_LAYER_STARTED", "SEND_MSG", "SEND_DONE",
                                        "SEND_ERR", "REV_MSG"}
                         /\ m.sig = "SEND_MSG" => m.frames \in 1..MaxFrames
                         /\ m.sig \in {"SEND_DONE", "SEND_ERR", "REV_MSG"} => m.pdu \in Pdu
  /\ \A m \in MacMsgs : /\ m.sig \in {"INIT", "PHY_LAYER_STARTED", "FRAME_SEND_DONE",
                                      "FRAME_SEND_ERR", "FRAME_SEND_TO", "FRAME_REV_TO",
                                      "FRAME_SEND_REQ", "FRAME_SEND_START", "FRAME_REV"}
                        /\ m.sig \in {"FRAME_SEND_REQ", "FRAME_SEND_START"} => m.pdu \in Pdu
                        /\ m.sig = "FRAME_REV" => m.frame \in AnyFrame
  /\ \A m \in PhyMsgs : /\ m.sig \in {"INIT", "FRAME_SEND_TO", "FRAME_SEND_REQ", "FRAME_REV",
                                      "FRAME_REV_CS_ERR"}
                        /\ m.sig = "FRAME_SEND_REQ" => m.frame \in Frame
                        /\ m.sig \in {"FRAME_REV", "FRAME_REV_CS_ERR"} => m.frame \in PhyFrame
  BY DEF LinkMsgs, MacMsgs, PhyMsgs

LEMMA MsgsAreMsgs == \A t \in Task : MsgsOf(t) \subseteq AllMsgs
  BY DEF MsgsOf, AllMsgs, Task

LEMMA HeadIsMsg ==
  ASSUME Boxes, NEW t \in Task, mbox[t] # <<>>
  PROVE  Head(mbox[t]) \in MsgsOf(t)
  BY DEF Boxes

(* What a box holds after its head was taken, or a message came. *)
LEMMA CntTail ==
  ASSUME NEW s \in Seq(AllMsgs), s # <<>>
  PROVE  /\ \A S : Cnt(Tail(s), S) = Cnt(s, S) - One(Head(s).sig \in S)
         /\ \A p : Car(Tail(s), p) = Car(s, p) - One(Head(s).sig \in PduSigs /\ Head(s).pdu = p)
<1>1. Head(s) \in AllMsgs /\ Tail(s) \in Seq(AllMsgs)
  OBVIOUS
<1>2. ASSUME NEW M PROVE Occ(Tail(s), M) = Occ(s, M) - One(Head(s) \in M)
  <2>1. Occ(s, M) = One(Head(s) \in M) + Occ(Tail(s), M)
    BY OccTail
  <2>2. Occ(Tail(s), M) \in Nat /\ Occ(s, M) \in Nat
    BY <1>1, PlacesFinite
  <2>. QED  BY <2>1, <2>2 DEF One
<1>3. ASSUME NEW S PROVE Cnt(Tail(s), S) = Cnt(s, S) - One(Head(s).sig \in S)
  <2>1. Head(s) \in With(S) <=> Head(s).sig \in S
    BY <1>1 DEF With
  <2>. QED  BY <1>2, <2>1 DEF Cnt, One
<1>4. ASSUME NEW p
      PROVE  Car(Tail(s), p) = Car(s, p) - One(Head(s).sig \in PduSigs /\ Head(s).pdu = p)
  <2>1. Head(s) \in CarryingPdu(p) <=> Head(s).sig \in PduSigs /\ Head(s).pdu = p
    BY <1>1 DEF CarryingPdu
  <2>. QED  BY <1>2, <2>1 DEF Car, One
<1>. QED  BY <1>3, <1>4

LEMMA CntAppend ==
  ASSUME NEW s \in Seq(AllMsgs), NEW m \in AllMsgs
  PROVE  /\ \A S : Cnt(Append(s, m), S) = Cnt(s, S) + One(m.sig \in S)
         /\ \A p : Car(Append(s, m), p) = Car(s, p) + One(m.sig \in PduSigs /\ m.pdu = p)
<1>1. ASSUME NEW M PROVE Occ(Append(s, m), M) = Occ(s, M) + One(m \in M)
  BY OccAppend
<1>2. ASSUME NEW S PROVE Cnt(Append(s, m), S) = Cnt(s, S) + One(m.sig \in S)
  <2>1. m \in With(S) <=> m.sig \in S
    BY DEF With
  <2>. QED  BY <1>1, <2>1 DEF Cnt, One
<1>3. ASSUME NEW p
      PROVE  Car(Append(s, m), p) = Car(s, p) + One(m.sig \in PduSigs /\ m.pdu = p)
  <2>1. m \in CarryingPdu(p) <=> m.sig \in PduSigs /\ m.pdu = p
    BY DEF CarryingPdu
  <2>. QED  BY <1>1, <2>1 DEF Car, One
<1>. QED  BY <1>2, <1>3

LEMMA CntNat ==
  ASSUME NEW s \in Seq(AllMsgs)
  PROVE  (\A S : Cnt(s, S) \in Nat) /\ (\A p : Car(s, p) \in Nat)
  BY PlacesFinite DEF Cnt, Car

(* A count is zero when no message of the kind is there. *)
LEMMA CntZero ==
  ASSUME NEW s \in Seq(AllMsgs), NEW S
  PROVE  Cnt(s, S) = 0 <=> \A i \in 1..Len(s) : s[i].sig \notin S
<1>1. Cnt(s, S) = 0 <=> \A i \in 1..Len(s) : s[i] \notin With(S)
  BY OccZero DEF Cnt
<1>. QED  BY <1>1 DEF With

LEMMA CntEmpty == (\A S : Cnt(<<>>, S) = 0) /\ (\A p : Car(<<>>, p) = 0)
  BY OccEmpty DEF Cnt, Car

-----------------------------------------------------------------------------
(* The effect of a step on a mailbox: it loses its head, gains a message, or
   both (the tasks write to themselves, too).                              *)
Loses(after, before, m) ==
  /\ \A S : Cnt(after, S) = Cnt(before, S) - One(m.sig \in S)
  /\ \A p : Car(after, p) = Car(before, p) - One(m.sig \in PduSigs /\ m.pdu = p)
Gains(after, before, m) ==
  /\ \A S : Cnt(after, S) = Cnt(before, S) + One(m.sig \in S)
  /\ \A p : Car(after, p) = Car(before, p) + One(m.sig \in PduSigs /\ m.pdu = p)
Trades(after, before, m, n) ==
  /\ \A S : Cnt(after, S) = Cnt(before, S) - One(m.sig \in S) + One(n.sig \in S)
  /\ \A p : Car(after, p) = Car(before, p) - One(m.sig \in PduSigs /\ m.pdu = p)
                                           + One(n.sig \in PduSigs /\ n.pdu = p)

LEMMA TailLoses ==
  ASSUME NEW s \in Seq(AllMsgs), s # <<>>
  PROVE  Loses(Tail(s), s, Head(s))
  BY CntTail DEF Loses

LEMMA AppendGains ==
  ASSUME NEW s \in Seq(AllMsgs), NEW m \in AllMsgs
  PROVE  Gains(Append(s, m), s, m)
  BY CntAppend DEF Gains

LEMMA TailAppendTrades ==
  ASSUME NEW s \in Seq(AllMsgs), s # <<>>, NEW n \in AllMsgs
  PROVE  Trades(Append(Tail(s), n), s, Head(s), n)
<1> DEFINE rest == Tail(s)
<1>1. Loses(rest, s, Head(s)) /\ rest \in Seq(AllMsgs)
  BY TailLoses
<1> HIDE DEF rest
<1>2. Gains(Append(rest, n), rest, n)
  BY <1>1, AppendGains
<1>. QED  BY <1>1, <1>2 DEF Loses, Gains, Trades, rest

LEMMA OneSeq == ASSUME NEW S, NEW x \in S PROVE <<x>> \in Seq(S)
  OBVIOUS

LEMMA ShortSeqs ==
  ASSUME NEW S, NEW s \in Seq(S), NEW x \in S
  PROVE  s \o <<>> = s /\ s \o <<x>> = Append(s, x)
  OBVIOUS

(* What a handler of task t leaves when it posts `posts`. *)
LEMMA FinishBoxes ==
  ASSUME Boxes, NEW t \in Task, mbox[t] # <<>>, NEW posts,
         \A u \in Task : posts[u] \in Seq(MsgsOf(u)), Finish(t, posts)
  PROVE  /\ Boxes'
         /\ mbox'[t] = Tail(mbox[t]) \o posts[t]
         /\ \A u \in Task \ {t} : mbox'[u] = mbox[u] \o posts[u]
<1>1. mbox' = [u \in Task |-> (IF u = t THEN Tail(mbox[u]) ELSE mbox[u]) \o posts[u]]
  BY DEF Finish
<1>2. ASSUME NEW u \in Task PROVE mbox'[u] \in Seq(MsgsOf(u)) /\ mbox'[u] \in Seq(AllMsgs)
  <2> DEFINE took == IF u = t THEN Tail(mbox[u]) ELSE mbox[u]
  <2>1. took \in Seq(MsgsOf(u)) /\ posts[u] \in Seq(MsgsOf(u))
    BY DEF Boxes
  <2>2. mbox'[u] = took \o posts[u]
    BY <1>1
  <2> HIDE DEF took
  <2>3. mbox'[u] \in Seq(MsgsOf(u))
    BY <2>1, <2>2, ConcatProperties
  <2>. QED  BY <2>3, MsgsAreMsgs, SeqMonotonic
<1>3. Boxes'
  BY <1>1, <1>2 DEF Boxes
<1>. QED  BY <1>1, <1>3

(* It posts nothing, a message to another task, or a message to itself. *)
LEMMA FinishNoPost ==
  ASSUME Boxes, NEW t \in Task, mbox[t] # <<>>, Finish(t, NoPost)
  PROVE  /\ Boxes' /\ mbox'[t] = Tail(mbox[t])
         /\ \A u \in Task \ {t} : mbox'[u] = mbox[u]
         /\ Loses(mbox'[t], mbox[t], Head(mbox[t]))
<1>0. \A u \in Task : NoPost[u] = <<>>
  BY DEF NoPost
<1>1. \A u \in Task : NoPost[u] \in Seq(MsgsOf(u))
  BY <1>0, EmptySeq
<1>2. /\ Boxes' /\ mbox'[t] = Tail(mbox[t]) \o <<>>
      /\ \A u \in Task \ {t} : mbox'[u] = mbox[u] \o <<>>
  <2>1. /\ Boxes' /\ mbox'[t] = Tail(mbox[t]) \o NoPost[t]
        /\ \A u \in Task \ {t} : mbox'[u] = mbox[u] \o NoPost[u]
    BY <1>1, FinishBoxes
  <2>. QED  BY <1>0, <2>1
<1>3. \A u \in Task : mbox[u] \in Seq(AllMsgs)
  BY DEF Boxes
<1>4. mbox'[t] = Tail(mbox[t]) /\ \A u \in Task \ {t} : mbox'[u] = mbox[u]
  BY <1>2, <1>3
<1>. QED  BY <1>2, <1>3, <1>4, TailLoses

LEMMA FinishPost ==
  ASSUME Boxes, NEW t \in Task, mbox[t] # <<>>,
         NEW v \in Task \ {t}, NEW m \in MsgsOf(v), Finish(t, Post(v, m))
  PROVE  /\ Boxes' /\ mbox'[t] = Tail(mbox[t]) /\ mbox'[v] = Append(mbox[v], m)
         /\ \A u \in Task \ {t, v} : mbox'[u] = mbox[u]
         /\ Loses(mbox'[t], mbox[t], Head(mbox[t])) /\ Gains(mbox'[v], mbox[v], m)
<1> DEFINE posts == Post(v, m)
<1>1. \A u \in Task : posts[u] = (IF u = v THEN <<m>> ELSE <<>>)
  BY DEF Post, NoPost
<1> HIDE DEF posts
<1>2. ASSUME NEW u \in Task PROVE posts[u] \in Seq(MsgsOf(u))
  <2>1. CASE u = v
    BY <1>1, <2>1, OneSeq
  <2>2. CASE u # v
    BY <1>1, <2>2, EmptySeq
  <2>. QED  BY <2>1, <2>2
<1>3. /\ Boxes' /\ mbox'[t] = Tail(mbox[t]) \o posts[t]
      /\ \A u \in Task \ {t} : mbox'[u] = mbox[u] \o posts[u]
  BY <1>2, FinishBoxes DEF posts
<1>4. \A u \in Task : mbox[u] \in Seq(AllMsgs)
  BY DEF Boxes
<1>5. m \in AllMsgs /\ Tail(mbox[t]) \in Seq(AllMsgs)
  BY <1>4, MsgsAreMsgs
<1>6. /\ mbox'[t] = Tail(mbox[t]) /\ mbox'[v] = Append(mbox[v], m)
      /\ \A u \in Task \ {t, v} : mbox'[u] = mbox[u]
  <2>1. mbox'[t] = Tail(mbox[t]) \o <<>> /\ mbox'[v] = mbox[v] \o <<m>>
        /\ \A u \in Task \ {t, v} : mbox'[u] = mbox[u] \o <<>>
    BY <1>1, <1>3
  <2>. QED  BY <1>4, <1>5, <2>1, ShortSeqs
<1>. QED  BY <1>3, <1>4, <1>5, <1>6, TailLoses, AppendGains

LEMMA FinishOwnPost ==
  ASSUME Boxes, NEW t \in Task, mbox[t] # <<>>, NEW n \in MsgsOf(t), Finish(t, Post(t, n))
  PROVE  /\ Boxes' /\ mbox'[t] = Append(Tail(mbox[t]), n)
         /\ \A u \in Task \ {t} : mbox'[u] = mbox[u]
         /\ Trades(mbox'[t], mbox[t], Head(mbox[t]), n)
<1> DEFINE posts == Post(t, n)
<1>1. \A u \in Task : posts[u] = (IF u = t THEN <<n>> ELSE <<>>)
  BY DEF Post, NoPost
<1> HIDE DEF posts
<1>2. ASSUME NEW u \in Task PROVE posts[u] \in Seq(MsgsOf(u))
  <2>1. CASE u = t
    BY <1>1, <2>1, OneSeq
  <2>2. CASE u # t
    BY <1>1, <2>2, EmptySeq
  <2>. QED  BY <2>1, <2>2
<1>3. /\ Boxes' /\ mbox'[t] = Tail(mbox[t]) \o posts[t]
      /\ \A u \in Task \ {t} : mbox'[u] = mbox[u] \o posts[u]
  BY <1>2, FinishBoxes DEF posts
<1>4. \A u \in Task : mbox[u] \in Seq(AllMsgs)
  BY DEF Boxes
<1>5. n \in AllMsgs /\ Tail(mbox[t]) \in Seq(AllMsgs)
  BY <1>4, MsgsAreMsgs
<1>6. mbox'[t] = Append(Tail(mbox[t]), n) /\ \A u \in Task \ {t} : mbox'[u] = mbox[u]
  <2>1. mbox'[t] = Tail(mbox[t]) \o <<n>> /\ \A u \in Task \ {t} : mbox'[u] = mbox[u] \o <<>>
    BY <1>1, <1>3
  <2>. QED  BY <1>4, <1>5, <2>1, ShortSeqs
<1>. QED  BY <1>3, <1>4, <1>5, <1>6, TailAppendTrades

(* The MAC layer reports a PDU to LINK and starts the next one. *)
LEMMA FinishPosts ==
  ASSUME Boxes, mbox["LINK_MAC"] # <<>>, NEW m \in LinkMsgs, NEW n \in MacMsgs,
         Finish("LINK_MAC", [Post("LINK", m) EXCEPT !["LINK_MAC"] = <<n>>])
  PROVE  /\ Boxes'
         /\ mbox'["LINK"] = Append(mbox["LINK"], m) /\ mbox'["LINK_PHY"] = mbox["LINK_PHY"]
         /\ mbox'["LINK_MAC"] = Append(Tail(mbox["LINK_MAC"]), n)
         /\ Gains(mbox'["LINK"], mbox["LINK"], m)
         /\ Trades(mbox'["LINK_MAC"], mbox["LINK_MAC"], Head(mbox["LINK_MAC"]), n)
<1> DEFINE posts == [Post("LINK", m) EXCEPT !["LINK_MAC"] = <<n>>]
<1>0. /\ m \in AllMsgs /\ n \in AllMsgs
      /\ "LINK" \in Task /\ "LINK_MAC" \in Task /\ "LINK_PHY" \in Task
      /\ \A u \in Task : u \in {"LINK", "LINK_MAC", "LINK_PHY"}
      /\ MsgsOf("LINK") = LinkMsgs /\ MsgsOf("LINK_MAC") = MacMsgs
  BY DEF AllMsgs, Task, MsgsOf
<1>1. posts["LINK"] = <<m>> /\ posts["LINK_MAC"] = <<n>> /\ posts["LINK_PHY"] = <<>>
  BY <1>0 DEF Post, NoPost
<1>a. Finish("LINK_MAC", posts)
  OBVIOUS
<1> HIDE DEF posts
<1>2. ASSUME NEW u \in Task PROVE posts[u] \in Seq(MsgsOf(u))
  <2>1. CASE u = "LINK"
    BY <1>0, <1>1, <2>1, OneSeq
  <2>2. CASE u = "LINK_MAC"
    BY <1>0, <1>1, <2>2, OneSeq
  <2>3. CASE u = "LINK_PHY"
    BY <1>0, <1>1, <2>3, EmptySeq
  <2>. QED  BY <1>0, <2>1, <2>2, <2>3
<1>3. /\ Boxes'
      /\ mbox'["LINK_MAC"] = Tail(mbox["LINK_MAC"]) \o posts["LINK_MAC"]
      /\ mbox'["LINK"] = mbox["LINK"] \o posts["LINK"]
      /\ mbox'["LINK_PHY"] = mbox["LINK_PHY"] \o posts["LINK_PHY"]
  <2>1. /\ Boxes' /\ mbox'["LINK_MAC"] = Tail(mbox["LINK_MAC"]) \o posts["LINK_MAC"]
        /\ \A u \in Task \ {"LINK_MAC"} : mbox'[u] = mbox[u] \o posts[u]
    BY <1>0, <1>2, <1>a, FinishBoxes
  <2>. QED  BY <1>0, <2>1
<1>4. \A u \in Task : mbox[u] \in Seq(AllMsgs)
  BY DEF Boxes
<1>5. /\ mbox'["LINK_MAC"] = Append(Tail(mbox["LINK_MAC"]), n)
      /\ mbox'["LINK"] = Append(mbox["LINK"], m)
      /\ mbox'["LINK_PHY"] = mbox["LINK_PHY"]
  BY <1>0, <1>1, <1>3, <1>4
<1>. QED  BY <1>0, <1>3, <1>4, <1>5, AppendGains, TailAppendTrades

(* A message that arrives from outside, or a signal of the timer thread. *)
LEMMA BoxAppend ==
  ASSUME Boxes, NEW v \in Task, NEW m \in MsgsOf(v),
         mbox' = [mbox EXCEPT ![v] = Append(@, m)]
  PROVE  /\ Boxes' /\ mbox'[v] = Append(mbox[v], m)
         /\ \A u \in Task \ {v} : mbox'[u] = mbox[u]
         /\ Gains(mbox'[v], mbox[v], m)
<1>1. /\ mbox'[v] = Append(mbox[v], m) /\ \A u \in Task \ {v} : mbox'[u] = mbox[u]
      /\ mbox' = [u \in Task |-> mbox'[u]]
  BY DEF Boxes
<1>2. \A u \in Task : mbox[u] \in Seq(AllMsgs) /\ mbox[u] \in Seq(MsgsOf(u))
  BY DEF Boxes
<1>3. m \in AllMsgs
  BY MsgsAreMsgs
<1>4. \A u \in Task : mbox'[u] \in Seq(MsgsOf(u)) /\ mbox'[u] \in Seq(AllMsgs)
  BY <1>1, <1>2, <1>3
<1>. QED  BY <1>1, <1>2, <1>3, <1>4, AppendGains DEF Boxes

-----------------------------------------------------------------------------
(* The inductive invariant. *)

(* Types: beyond TypeOK, what the mailboxes and the line hold.  A sender that has
   had no PDU yet has left no trace below it: link_mac_frame_send_end reports
   its PDU without looking at the state.                                   *)
Unsent ==
  macSend.pdu = None =>
    /\ phy.send = "IDLE"
    /\ timer[PhySendTo] = 0 /\ PhySendTo \notin due
    /\ timer[MacSendTo] = 0 /\ MacSendTo \notin due
    /\ Cnt(mbox["LINK_PHY"], {"FRAME_SEND_REQ", "FRAME_SEND_TO"}) = 0
    /\ Cnt(mbox["LINK_MAC"], {"FRAME_SEND_DONE", "FRAME_SEND_ERR", "FRAME_SEND_TO"}) = 0

Types == /\ TypeOK /\ Boxes /\ line \in Seq(PhyFrame)
         /\ macRev.state = "RECEIVING" => macRev.pdu \in Pdu

(* One message carries the start through the handshake, until LINK handles. *)
Inits == Cnt(mbox["LINK"], {"INIT"}) + Cnt(mbox["LINK_MAC"], {"INIT"})
         + Cnt(mbox["LINK_PHY"], {"INIT"})
Handshake ==
  /\ Inits = One(fsm["LINK_PHY"] = "init")
  /\ Inits + Cnt(mbox["LINK_MAC"], {"PHY_LAYER_STARTED"}) = One(fsm["LINK_MAC"] = "init")
  /\ Inits + Cnt(mbox["LINK_MAC"], {"PHY_LAYER_STARTED"})
       + Cnt(mbox["LINK"], {"MAC_LAYER_STARTED"}) = One(fsm["LINK"] = "init")

(* Before the message that opens a layer there are only those of `early`. *)
Ordered(s, early, opener) ==
  \A i \in 1..Len(s) : s[i].sig \notin early => \E j \in 1 .. i - 1 : s[j].sig = opener
LinkEarly == {"INIT", "SEND_MSG", "MAC_LAYER_STARTED"}
MacEarly == {"INIT", "PHY_LAYER_STARTED"}
InOrder ==
  /\ fsm["LINK"] = "init" => Ordered(mbox["LINK"], LinkEarly, "MAC_LAYER_STARTED")
  /\ fsm["LINK_MAC"] = "init" => Ordered(mbox["LINK_MAC"], MacEarly, "PHY_LAYER_STARTED")
  /\ fsm["LINK_PHY"] = "init" => Cnt(mbox["LINK_PHY"], {"FRAME_SEND_REQ", "FRAME_SEND_TO"}) = 0

(* A layer that has not started does nothing. *)
Dormant ==
  /\ fsm["LINK_PHY"] = "init" =>
       phy.send = "IDLE" /\ timer[PhySendTo] = 0 /\ PhySendTo \notin due
  /\ fsm["LINK_MAC"] = "init" =>
       /\ timer[MacSendTo] = 0 /\ MacSendTo \notin due
       /\ timer[MacRevTo] = 0 /\ MacRevTo \notin due
       /\ macSend.state = "IDLE" /\ macRev.state = "IDLE"

Armed ==
  /\ phy.send = "SENDING" =>
       timer[PhySendTo] # 0 \/ PhySendTo \in due \/ Cnt(mbox["LINK_PHY"], {"FRAME_SEND_TO"}) # 0
  /\ macRev.state = "RECEIVING" =>
       timer[MacRevTo] # 0 \/ MacRevTo \in due \/ Cnt(mbox["LINK_MAC"], {"FRAME_REV_TO"}) # 0

IInv == Types /\ Unsent /\ Handshake /\ InOrder /\ Dormant /\ Armed

-----------------------------------------------------------------------------
LEMMA Numbers ==
  /\ MacTo \in Nat \ {0} /\ PhyTo \in 1..MacTo /\ FifoSize \in Nat
  /\ \A c \in Counter : Increment(c) \in Counter
  /\ \A n \in Nat : n % MacSeqMod \in 0 .. MacSeqMod - 1
  /\ \A n \in Nat : n % PhySeqMod \in 0 .. PhySeqMod - 1
<1>1. FifoSize \in Nat
  BY PduIsFinite, FS_CardinalityType DEF FifoSize
<1>2. MacTo \in Nat \ {0} /\ PhyTo \in 1..MacTo
  <2>1. MaxRetry \in Nat /\ PhyTo \in Nat \ {0}
    BY BoundsAreNat, MaxRetryIsSmall
  <2>2. ASSUME NEW n \in Nat, NEW k \in Nat \ {0} PROVE n * k \in Nat
    OBVIOUS
  <2>3. MaxRetry * PhyTo \in Nat
    BY <2>1, <2>2
  <2>4. MacTo = 2 * (MaxRetry * PhyTo) + 2 * PhyTo
    BY <2>1 DEF MacTo
  <2>. QED  BY <2>1, <2>3, <2>4
<1>3. \A c \in Counter : Increment(c) \in Counter
  BY DEF Counter, Increment
<1>4. /\ \A n \in Nat : n % MacSeqMod \in 0 .. MacSeqMod - 1
      /\ \A n \in Nat : n % PhySeqMod \in 0 .. PhySeqMod - 1
  BY BoundsAreNat
<1>. QED  BY <1>1, <1>2, <1>3, <1>4

LEMMA OrderedTail ==
  ASSUME NEW s \in Seq(AllMsgs), s # <<>>, NEW early, NEW opener \in early,
         Ordered(s, early, opener)
  PROVE  /\ Head(s).sig \in early
         /\ Head(s).sig # opener => Ordered(Tail(s), early, opener)
<1>1. 1 \in 1..Len(s) /\ Head(s) = s[1] /\ Len(s) \in Nat
  OBVIOUS
<1>2. Head(s).sig \in early
  BY <1>1 DEF Ordered
<1>3. ASSUME Head(s).sig # opener, NEW i \in 1..Len(Tail(s)), Tail(s)[i].sig \notin early
      PROVE  \E j \in 1 .. i - 1 : Tail(s)[j].sig = opener
  <2>1. Tail(s)[i] = s[i + 1] /\ i + 1 \in 1..Len(s) /\ Len(Tail(s)) = Len(s) - 1
    BY <1>1
  <2>2. PICK j \in 1 .. (i + 1) - 1 : s[j].sig = opener
    BY <1>3, <2>1 DEF Ordered
  <2>3. j # 1
    BY <1>1, <1>3, <2>2
  <2>4. j - 1 \in 1 .. i - 1 /\ Tail(s)[j - 1] = s[j]
    BY <1>1, <2>1, <2>2, <2>3
  <2>. QED  BY <2>2, <2>4
<1>. QED  BY <1>2, <1>3 DEF Ordered

LEMMA OrderedAppend ==
  ASSUME NEW s \in Seq(AllMsgs), NEW m \in AllMsgs, NEW early, NEW opener \in early,
         Ordered(s, early, opener), m.sig \in early \/ Cnt(s, {opener}) # 0
  PROVE  Ordered(Append(s, m), early, opener)
<1>1. ASSUME NEW i \in 1..Len(Append(s, m)), Append(s, m)[i].sig \notin early
      PROVE  \E j \in 1 .. i - 1 : Append(s, m)[j].sig = opener
  <2>0. Len(s) \in Nat /\ Len(Append(s, m)) = Len(s) + 1
    OBVIOUS
  <2>1. CASE i <= Len(s)
    <3>1. s[i].sig \notin early
      BY <1>1, <2>0, <2>1
    <3>2. PICK j \in 1 .. i - 1 : s[j].sig = opener
      BY <2>0, <2>1, <3>1 DEF Ordered
    <3>. QED  BY <2>0, <2>1, <3>2
  <2>2. CASE i = Len(s) + 1
    <3>1. Cnt(s, {opener}) # 0
      BY <1>1, <2>2
    <3>2. PICK j \in 1..Len(s) : s[j].sig = opener
      BY <3>1, CntZero
    <3>. QED  BY <2>0, <2>2, <3>2
  <2>. QED  BY <2>0, <2>1, <2>2
<1>. QED  BY <1>1 DEF Ordered

LEMMA Tasks ==
  /\ "LINK" \in Task /\ "LINK_MAC" \in Task /\ "LINK_PHY" \in Task
  /\ \A t \in Task : t = "LINK" \/ t = "LINK_MAC" \/ t = "LINK_PHY"
  /\ MsgsOf("LINK") = LinkMsgs /\ MsgsOf("LINK_MAC") = MacMsgs /\ MsgsOf("LINK_PHY") = PhyMsgs
  /\ PhySendTo \in TimerKey /\ MacSendTo \in TimerKey /\ MacRevTo \in TimerKey
  /\ PhySendTo # MacSendTo /\ PhySendTo # MacRevTo /\ MacSendTo # MacRevTo
  BY DEF Task, MsgsOf, TimerKey, PhySendTo, MacSendTo, MacRevTo

LEMMA BoxFacts ==
  ASSUME Boxes
  PROVE  /\ \A u \in Task : mbox[u] \in Seq(AllMsgs)
         /\ \A u \in Task : \A S : Cnt(mbox[u], S) \in Nat
         /\ \A u \in Task : \A p : Car(mbox[u], p) \in Nat
  BY CntNat DEF Boxes

(* The messages that are posted are of the right kind. *)
LEMMA Posted ==
  /\ [sig |-> "INIT"] \in LinkMsgs /\ [sig |-> "MAC_LAYER_STARTED"] \in LinkMsgs
  /\ \A n \in 1..MaxFrames : [sig |-> "SEND_MSG", frames |-> n] \in LinkMsgs
  /\ \A p \in Pdu, s \in {"SEND_DONE", "SEND_ERR", "REV_MSG"} : PduMsg(s, p) \in LinkMsgs
  /\ \A s \in {"INIT", "PHY_LAYER_STARTED", "FRAME_SEND_DONE", "FRAME_SEND_ERR",
                "FRAME_SEND_TO", "FRAME_REV_TO"} : [sig |-> s] \in MacMsgs
  /\ \A p \in Pdu, s \in {"FRAME_SEND_REQ", "FRAME_SEND_START"} : PduMsg(s, p) \in MacMsgs
  /\ \A f \in AnyFrame : [sig |-> "FRAME_REV", frame |-> f] \in MacMsgs
  /\ [sig |-> "INIT"] \in PhyMsgs /\ [sig |-> "FRAME_SEND_TO"] \in PhyMsgs
  /\ \A f \in Frame : [sig |-> "FRAME_SEND_REQ", frame |-> f] \in PhyMsgs
  /\ \A f \in PhyFrame, s \in {"FRAME_REV", "FRAME_REV_CS_ERR"} :
       [sig |-> s, frame |-> f] \in PhyMsgs
  BY DEF LinkMsgs, MacMsgs, PhyMsgs, PduMsg

(* The line keeps frames, as many as fit. *)
LEMMA WrittenType ==
  ASSUME line \in Seq(PhyFrame), Len(line) <= LineMax, NEW f \in PhyFrame
  PROVE  Written(f) \in Seq(PhyFrame) /\ Len(Written(f)) <= LineMax
<1> DEFINE all == Append(line, f)
<1>1. all \in Seq(PhyFrame) /\ Len(all) = Len(line) + 1 /\ Len(line) \in Nat /\ all # <<>>
  OBVIOUS
<1>2. Written(f) = IF Len(all) > LineMax THEN Tail(all) ELSE all
  BY DEF Written
<1> HIDE DEF all
<1>3. Tail(all) \in Seq(PhyFrame) /\ Len(Tail(all)) = Len(all) - 1
  BY <1>1
<1>. QED  BY <1>1, <1>2, <1>3, BoundsAreNat

-----------------------------------------------------------------------------
LEMMA Zeros ==
  /\ 0 \in 0 .. MacSeqMod - 1 /\ 0 \in 0 .. PhySeqMod - 1 /\ 0 \in 0..MaxFrames
  /\ 0 \in 0..MacTo /\ 0 \in 0..MaxLate /\ 0 \in Counter /\ 0 <= LineMax
<1>1. 0 \in 0 .. MacSeqMod - 1 /\ 0 \in 0 .. PhySeqMod - 1
  BY BoundsAreNat
<1>2. 0 \in 0..MaxFrames /\ 0 <= LineMax
  BY BoundsAreNat
<1>3. 0 \in 0..MacTo
  <2>1. MacTo \in Nat
    BY Numbers
  <2>. QED  BY <2>1
<1>4. 0 \in 0..MaxLate
  BY LimitsAreNat
<1>5. 0 \in Counter
  BY DEF Counter
<1>. QED  BY <1>1, <1>2, <1>3, <1>4, <1>5

LEMMA InitIInv == Init => IInv
<1> SUFFICES ASSUME Init PROVE IInv
  OBVIOUS
<1> USE DEF Init, BaseInit, PhyInit, MacInit
<1>1. /\ mbox["LINK"] = <<[sig |-> "INIT"]>> /\ mbox["LINK_MAC"] = <<>> /\ mbox["LINK_PHY"] = <<>>
      /\ fsm["LINK"] = "init" /\ fsm["LINK_MAC"] = "init" /\ fsm["LINK_PHY"] = "init"
  BY DEF Task
<1>2. Boxes
  <2>1. [sig |-> "INIT"] \in AllMsgs /\ [sig |-> "INIT"] \in LinkMsgs
    BY Posted DEF AllMsgs
  <2> DEFINE first == [sig |-> "INIT"]
  <2>2. mbox["LINK"] \in Seq(LinkMsgs) /\ mbox["LINK"] \in Seq(AllMsgs)
    <3>1. mbox["LINK"] = <<first>>
      BY <1>1
    <3> HIDE DEF first, Init, BaseInit, PhyInit, MacInit
    <3>. QED  BY <3>1, <2>1 DEF first
  <2>3. \A t \in Task : mbox[t] \in Seq(MsgsOf(t)) /\ mbox[t] \in Seq(AllMsgs)
    BY <1>1, <2>2, Tasks
  <2>4. mbox = [t \in Task |-> mbox[t]]
    OBVIOUS
  <2>. QED  BY <2>3, <2>4 DEF Boxes
<1>3. TypeOK
  <2>1. 0 \in 0 .. MacSeqMod - 1 /\ 0 \in 0 .. PhySeqMod - 1 /\ 0 \in 0..MaxFrames
        /\ 0 \in 0..MacTo /\ 0 \in 0..MaxLate /\ 0 \in Counter /\ 0 <= LineMax
    BY Zeros
  <2>2. fsm \in [Task -> {"init", "handle"}] /\ pool \in [Pdu -> 0..MaxFrames]
        /\ timer \in [TimerKey -> 0..MacTo] /\ due \subseteq TimerKey
    BY <2>1
  <2>3. NoFrame \in Frame
    BY <2>1 DEF NoFrame, Frame
  <2>4. phy \in PhyState
    BY <2>1, <2>3 DEF PhyState
  <2>5. macSend \in MacSender
    BY <2>1, <2>3 DEF MacSender, NoFrame
  <2>6. macRev \in MacReceiver
    BY <2>1 DEF MacReceiver
  <2>7. Len(line) <= LineMax /\ late \in 0..MaxLate /\ pduFifo \in Seq(Pdu)
        /\ Len(pduFifo) <= FifoSize
    BY <2>1, Numbers
  <2>. QED  BY <2>2, <2>4, <2>5, <2>6, <2>7 DEF TypeOK
<1>4. Types
  BY <1>2, <1>3 DEF Types
<1>5. \A S : Cnt(mbox["LINK"], S) = One("INIT" \in S)
  <2>1. mbox["LINK"] = Append(<<>>, [sig |-> "INIT"]) /\ <<>> \in Seq(AllMsgs)
        /\ [sig |-> "INIT"] \in AllMsgs
    BY <1>1, Posted DEF AllMsgs
  <2>2. \A S : Cnt(Append(<<>>, [sig |-> "INIT"]), S) = Cnt(<<>>, S) + One("INIT" \in S)
    BY <2>1, CntAppend
  <2>. QED  BY <2>1, <2>2, CntEmpty DEF One
<1>6. Unsent /\ Dormant /\ Armed
  BY <1>1, CntEmpty, Tasks DEF Unsent, Dormant, Armed
<1>7. Handshake
  <2> HIDE DEF Init, BaseInit, PhyInit, MacInit
  <2>1. /\ Cnt(mbox["LINK"], {"INIT"}) = 1 /\ Cnt(mbox["LINK"], {"MAC_LAYER_STARTED"}) = 0
    BY <1>5 DEF One
  <2>. QED  BY <1>1, <2>1, CntEmpty DEF Handshake, Inits, One
<1>8. InOrder
  <2>1. Ordered(mbox["LINK"], LinkEarly, "MAC_LAYER_STARTED")
    BY <1>1 DEF Ordered, LinkEarly
  <2>2. Ordered(mbox["LINK_MAC"], MacEarly, "PHY_LAYER_STARTED")
    BY <1>1 DEF Ordered
  <2>. QED  BY <1>1, <2>1, <2>2, CntEmpty DEF InOrder
<1>. QED  BY <1>4, <1>6, <1>7, <1>8 DEF IInv

-----------------------------------------------------------------------------
(* What is posted to a layer that has not started comes after its opener. *)
LEMMA MacOrder ==
  ASSUME TypeOK, Boxes, Handshake, InOrder, fsm["LINK_MAC"] = "init",
         NEW m \in MacMsgs, m.sig \in MacEarly \/ fsm["LINK_PHY"] = "handle"
  PROVE  Ordered(Append(mbox["LINK_MAC"], m), MacEarly, "PHY_LAYER_STARTED")
<1>1. m \in AllMsgs /\ mbox["LINK_MAC"] \in Seq(AllMsgs)
  BY Tasks, BoxFacts DEF AllMsgs
<1>2. fsm["LINK_PHY"] = "handle" => Cnt(mbox["LINK_MAC"], {"PHY_LAYER_STARTED"}) # 0
  BY DEF Handshake, One
<1>3. Ordered(mbox["LINK_MAC"], MacEarly, "PHY_LAYER_STARTED") /\ "PHY_LAYER_STARTED" \in MacEarly
  BY DEF InOrder, MacEarly
<1>. QED  BY <1>1, <1>2, <1>3, OrderedAppend

LEMMA LinkOrder ==
  ASSUME TypeOK, Boxes, Handshake, InOrder, fsm["LINK"] = "init",
         NEW m \in LinkMsgs, m.sig \in LinkEarly \/ fsm["LINK_MAC"] = "handle"
  PROVE  Ordered(Append(mbox["LINK"], m), LinkEarly, "MAC_LAYER_STARTED")
<1>1. m \in AllMsgs /\ mbox["LINK"] \in Seq(AllMsgs)
  BY Tasks, BoxFacts DEF AllMsgs
<1>2. fsm["LINK_MAC"] = "handle" => Cnt(mbox["LINK"], {"MAC_LAYER_STARTED"}) # 0
  BY DEF Handshake, One
<1>3. Ordered(mbox["LINK"], LinkEarly, "MAC_LAYER_STARTED") /\ "MAC_LAYER_STARTED" \in LinkEarly
  BY DEF InOrder, LinkEarly
<1>. QED  BY <1>1, <1>2, <1>3, OrderedAppend

(* The messages of the handshake; a task that handles is past them, takes none and
   posts none, so that it disturbs neither the handshake nor the order.      *)
Openers == {"INIT", "PHY_LAYER_STARTED", "MAC_LAYER_STARTED"}

LEMMA OpenersKept ==
  ASSUME NEW after, NEW before, \A S : Cnt(before, S) \in Nat,
         NEW m, NEW n, m.sig \notin Openers, n.sig \notin Openers,
         Loses(after, before, m) \/ Gains(after, before, m) \/ Trades(after, before, m, n)
  PROVE  \A x \in Openers : Cnt(after, {x}) = Cnt(before, {x})
<1> TAKE x \in Openers
<1>1. One(m.sig \in {x}) = 0 /\ One(n.sig \in {x}) = 0 /\ Cnt(before, {x}) \in Nat
  BY DEF One
<1>2. CASE Loses(after, before, m)
  BY <1>1, <1>2 DEF Loses
<1>3. CASE Gains(after, before, m)
  BY <1>1, <1>3 DEF Gains
<1>4. CASE Trades(after, before, m, n)
  BY <1>1, <1>4 DEF Trades
<1>. QED  BY <1>2, <1>3, <1>4

LEMMA SteadyKept ==
  ASSUME TypeOK, Boxes, Handshake, InOrder, NEW t \in Task, fsm[t] = "handle", fsm' = fsm,
         \A u \in Task : \A x \in Openers : Cnt(mbox'[u], {x}) = Cnt(mbox[u], {x}),
         t # "LINK" => \/ mbox'["LINK"] = mbox["LINK"]
                       \/ /\ t = "LINK_MAC"
                          /\ \E m \in LinkMsgs : mbox'["LINK"] = Append(mbox["LINK"], m),
         t # "LINK_MAC" => \/ mbox'["LINK_MAC"] = mbox["LINK_MAC"]
                           \/ \E m \in MacMsgs : mbox'["LINK_MAC"] = Append(mbox["LINK_MAC"], m)
  PROVE  Handshake' /\ InOrder'
<1>1. Inits' = Inits /\ Inits \in Nat
  <2>1. /\ Cnt(mbox'["LINK"], {"INIT"}) = Cnt(mbox["LINK"], {"INIT"})
        /\ Cnt(mbox'["LINK_MAC"], {"INIT"}) = Cnt(mbox["LINK_MAC"], {"INIT"})
        /\ Cnt(mbox'["LINK_PHY"], {"INIT"}) = Cnt(mbox["LINK_PHY"], {"INIT"})
    BY Tasks DEF Openers
  <2>2. /\ Cnt(mbox["LINK"], {"INIT"}) \in Nat /\ Cnt(mbox["LINK_MAC"], {"INIT"}) \in Nat
        /\ Cnt(mbox["LINK_PHY"], {"INIT"}) \in Nat
    BY BoxFacts, Tasks
  <2>. QED  BY <2>1, <2>2 DEF Inits
<1>2. /\ Cnt(mbox'["LINK_MAC"], {"PHY_LAYER_STARTED"}) = Cnt(mbox["LINK_MAC"], {"PHY_LAYER_STARTED"})
      /\ Cnt(mbox'["LINK"], {"MAC_LAYER_STARTED"}) = Cnt(mbox["LINK"], {"MAC_LAYER_STARTED"})
  BY Tasks DEF Openers
<1>3. /\ Cnt(mbox["LINK_MAC"], {"PHY_LAYER_STARTED"}) \in Nat
      /\ Cnt(mbox["LINK"], {"MAC_LAYER_STARTED"}) \in Nat
  BY BoxFacts, Tasks
<1>4. Handshake'
  BY <1>1, <1>2 DEF Handshake
<1>5. fsm["LINK_PHY"] = "handle" /\ (fsm["LINK"] = "handle" => fsm["LINK_MAC"] = "handle")
  BY <1>1, <1>3, Tasks DEF TypeOK, Handshake, One
<1>6. fsm["LINK"] = "init" => Ordered(mbox'["LINK"], LinkEarly, "MAC_LAYER_STARTED")
  BY LinkOrder DEF InOrder
<1>7. fsm["LINK_MAC"] = "init" => Ordered(mbox'["LINK_MAC"], MacEarly, "PHY_LAYER_STARTED")
  BY <1>5, MacOrder DEF InOrder
<1>8. InOrder'
  BY <1>5, <1>6, <1>7 DEF InOrder
<1>. QED  BY <1>4, <1>8

(* The same for what a handler does with its mailboxes. *)
LEMMA SteadyNoPost ==
  ASSUME TypeOK, Boxes, Handshake, InOrder, NEW t \in Task, fsm[t] = "handle", fsm' = fsm,
         mbox[t] # <<>>, Head(mbox[t]).sig \notin Openers, Finish(t, NoPost)
  PROVE  Handshake' /\ InOrder'
<1>1. /\ Loses(mbox'[t], mbox[t], Head(mbox[t]))
      /\ \A u \in Task \ {t} : mbox'[u] = mbox[u]
  BY FinishNoPost
<1>2. \A u \in Task : \A S : Cnt(mbox[u], S) \in Nat
  BY BoxFacts
<1>3. \A x \in Openers : Cnt(mbox'[t], {x}) = Cnt(mbox[t], {x})
  BY <1>1, <1>2, OpenersKept
<1>4. \A u \in Task : \A x \in Openers : Cnt(mbox'[u], {x}) = Cnt(mbox[u], {x})
  BY <1>1, <1>3
<1>5. /\ t # "LINK" => mbox'["LINK"] = mbox["LINK"]
      /\ t # "LINK_MAC" => mbox'["LINK_MAC"] = mbox["LINK_MAC"]
  BY <1>1, Tasks
<1>. QED  BY <1>4, <1>5, SteadyKept

LEMMA SteadyPost ==
  ASSUME TypeOK, Boxes, Handshake, InOrder, NEW t \in Task, fsm[t] = "handle", fsm' = fsm,
         mbox[t] # <<>>, Head(mbox[t]).sig \notin Openers,
         NEW v \in Task \ {t}, NEW m \in MsgsOf(v), m.sig \notin Openers,
         v = "LINK" => t = "LINK_MAC", Finish(t, Post(v, m))
  PROVE  Handshake' /\ InOrder'
<1>1. /\ Loses(mbox'[t], mbox[t], Head(mbox[t])) /\ Gains(mbox'[v], mbox[v], m)
      /\ mbox'[v] = Append(mbox[v], m)
      /\ \A u \in Task \ {t, v} : mbox'[u] = mbox[u]
  BY FinishPost
<1>2. \A u \in Task : \A S : Cnt(mbox[u], S) \in Nat
  BY BoxFacts
<1>3. \A x \in Openers : Cnt(mbox'[t], {x}) = Cnt(mbox[t], {x}) /\ Cnt(mbox'[v], {x}) = Cnt(mbox[v], {x})
  BY <1>1, <1>2, OpenersKept
<1>4. \A u \in Task : \A x \in Openers : Cnt(mbox'[u], {x}) = Cnt(mbox[u], {x})
  BY <1>1, <1>3
<1>5. /\ t # "LINK" => mbox'["LINK"] = mbox["LINK"]
                       \/ (v = "LINK" /\ mbox'["LINK"] = Append(mbox["LINK"], m))
      /\ t # "LINK_MAC" => mbox'["LINK_MAC"] = mbox["LINK_MAC"]
                           \/ (v = "LINK_MAC" /\ mbox'["LINK_MAC"] = Append(mbox["LINK_MAC"], m))
      /\ v = "LINK" => m \in LinkMsgs
      /\ v = "LINK_MAC" => m \in MacMsgs
  BY <1>1, Tasks
<1>. QED  BY <1>4, <1>5, SteadyKept

LEMMA SteadyOwnPost ==
  ASSUME TypeOK, Boxes, Handshake, InOrder, NEW t \in Task, fsm[t] = "handle", fsm' = fsm,
         mbox[t] # <<>>, Head(mbox[t]).sig \notin Openers,
         NEW n \in MsgsOf(t), n.sig \notin Openers, Finish(t, Post(t, n))
  PROVE  Handshake' /\ InOrder'
<1>1. /\ Trades(mbox'[t], mbox[t], Head(mbox[t]), n)
      /\ \A u \in Task \ {t} : mbox'[u] = mbox[u]
  BY FinishOwnPost
<1>2. \A u \in Task : \A S : Cnt(mbox[u], S) \in Nat
  BY BoxFacts
<1>3. \A x \in Openers : Cnt(mbox'[t], {x}) = Cnt(mbox[t], {x})
  BY <1>1, <1>2, OpenersKept
<1>4. \A u \in Task : \A x \in Openers : Cnt(mbox'[u], {x}) = Cnt(mbox[u], {x})
  BY <1>1, <1>3
<1>5. /\ t # "LINK" => mbox'["LINK"] = mbox["LINK"]
      /\ t # "LINK_MAC" => mbox'["LINK_MAC"] = mbox["LINK_MAC"]
  BY <1>1, Tasks
<1>. QED  BY <1>4, <1>5, SteadyKept

LEMMA SteadyPosts ==
  ASSUME TypeOK, Boxes, Handshake, InOrder, fsm["LINK_MAC"] = "handle", fsm' = fsm,
         mbox["LINK_MAC"] # <<>>, Head(mbox["LINK_MAC"]).sig \notin Openers,
         NEW m \in LinkMsgs, NEW n \in MacMsgs, m.sig \notin Openers, n.sig \notin Openers,
         Finish("LINK_MAC", [Post("LINK", m) EXCEPT !["LINK_MAC"] = <<n>>])
  PROVE  Handshake' /\ InOrder'
<1>1. /\ mbox'["LINK"] = Append(mbox["LINK"], m) /\ mbox'["LINK_PHY"] = mbox["LINK_PHY"]
      /\ Gains(mbox'["LINK"], mbox["LINK"], m)
      /\ Trades(mbox'["LINK_MAC"], mbox["LINK_MAC"], Head(mbox["LINK_MAC"]), n)
  BY FinishPosts
<1>2. \A u \in Task : \A S : Cnt(mbox[u], S) \in Nat
  BY BoxFacts
<1>3. /\ \A x \in Openers : Cnt(mbox'["LINK"], {x}) = Cnt(mbox["LINK"], {x})
      /\ \A x \in Openers : Cnt(mbox'["LINK_MAC"], {x}) = Cnt(mbox["LINK_MAC"], {x})
  BY <1>1, <1>2, OpenersKept, Tasks
<1>4. \A u \in Task : \A x \in Openers : Cnt(mbox'[u], {x}) = Cnt(mbox[u], {x})
  BY <1>1, <1>3, Tasks
<1>5. "LINK_MAC" \in Task
  BY Tasks
<1>. QED  BY <1>1, <1>4, <1>5, SteadyKept

-----------------------------------------------------------------------------
(* What the handlers of a task that has started do to the mailboxes: they take
   a message sig and post none or one.                                       *)
LEMMA PhyFinishes ==
  ASSUME IInv, NEW sig, sig \notin Openers, PhyHandling(sig), fsm' = fsm,
         Finish("LINK_PHY", NoPost)
  PROVE  /\ Boxes' /\ Handshake' /\ InOrder'
         /\ mbox'["LINK"] = mbox["LINK"] /\ mbox'["LINK_MAC"] = mbox["LINK_MAC"]
         /\ mbox'["LINK_PHY"] = Tail(mbox["LINK_PHY"])
         /\ \A S : Cnt(mbox'["LINK_PHY"], S) = Cnt(mbox["LINK_PHY"], S) - One(sig \in S)
<1>1. TypeOK /\ Boxes /\ Handshake /\ InOrder
  BY DEF IInv, Types
<1>2. fsm["LINK_PHY"] = "handle" /\ mbox["LINK_PHY"] # <<>> /\ Head(mbox["LINK_PHY"]).sig = sig
  BY DEF PhyHandling, Handling
<1>3. Handshake' /\ InOrder'
  BY <1>1, <1>2, SteadyNoPost, Tasks
<1>4. /\ Boxes' /\ mbox'["LINK_PHY"] = Tail(mbox["LINK_PHY"])
      /\ mbox'["LINK"] = mbox["LINK"] /\ mbox'["LINK_MAC"] = mbox["LINK_MAC"]
      /\ Loses(mbox'["LINK_PHY"], mbox["LINK_PHY"], Head(mbox["LINK_PHY"]))
  BY <1>1, <1>2, FinishNoPost, Tasks
<1>. QED  BY <1>2, <1>3, <1>4 DEF Loses

LEMMA PhyTells ==
  ASSUME IInv, NEW sig, sig \notin Openers, PhyHandling(sig), fsm' = fsm,
         NEW m \in MacMsgs, m.sig \notin Openers, Finish("LINK_PHY", Post("LINK_MAC", m))
  PROVE  /\ Boxes' /\ Handshake' /\ InOrder'
         /\ mbox'["LINK"] = mbox["LINK"] /\ mbox'["LINK_MAC"] = Append(mbox["LINK_MAC"], m)
         /\ mbox'["LINK_PHY"] = Tail(mbox["LINK_PHY"])
         /\ \A S : Cnt(mbox'["LINK_PHY"], S) = Cnt(mbox["LINK_PHY"], S) - One(sig \in S)
         /\ Gains(mbox'["LINK_MAC"], mbox["LINK_MAC"], m)
<1>1. TypeOK /\ Boxes /\ Handshake /\ InOrder
  BY DEF IInv, Types
<1>2. fsm["LINK_PHY"] = "handle" /\ mbox["LINK_PHY"] # <<>> /\ Head(mbox["LINK_PHY"]).sig = sig
  BY DEF PhyHandling, Handling
<1>0. "LINK_MAC" \in Task \ {"LINK_PHY"} /\ "LINK_PHY" \in Task /\ m \in MsgsOf("LINK_MAC")
      /\ "LINK_MAC" # "LINK" /\ "LINK" \in Task \ {"LINK_PHY", "LINK_MAC"}
  BY Tasks
<1>3. Handshake' /\ InOrder'
  BY <1>0, <1>1, <1>2, SteadyPost
<1>4. /\ Boxes' /\ mbox'["LINK_PHY"] = Tail(mbox["LINK_PHY"])
      /\ mbox'["LINK"] = mbox["LINK"] /\ mbox'["LINK_MAC"] = Append(mbox["LINK_MAC"], m)
      /\ Loses(mbox'["LINK_PHY"], mbox["LINK_PHY"], Head(mbox["LINK_PHY"]))
      /\ Gains(mbox'["LINK_MAC"], mbox["LINK_MAC"], m)
  BY <1>0, <1>1, <1>2, FinishPost
<1>. QED  BY <1>2, <1>3, <1>4 DEF Loses

LEMMA MacFinishes ==
  ASSUME IInv, NEW sig, sig \notin Openers, MacHandling(sig), fsm' = fsm,
         Finish("LINK_MAC", NoPost)
  PROVE  /\ Boxes' /\ Handshake' /\ InOrder'
         /\ mbox'["LINK_MAC"] = Tail(mbox["LINK_MAC"]) /\ mbox'["LINK"] = mbox["LINK"] /\ mbox'["LINK_PHY"] = mbox["LINK_PHY"]
         /\ \A S : Cnt(mbox'["LINK_MAC"], S) = Cnt(mbox["LINK_MAC"], S) - One(sig \in S)
         /\ Loses(mbox'["LINK_MAC"], mbox["LINK_MAC"], Head(mbox["LINK_MAC"]))
<1>1. TypeOK /\ Boxes /\ Handshake /\ InOrder
  BY DEF IInv, Types
<1>2. fsm["LINK_MAC"] = "handle" /\ mbox["LINK_MAC"] # <<>> /\ Head(mbox["LINK_MAC"]).sig = sig
  BY DEF MacHandling, Handling
<1>0. "LINK_MAC" \in Task /\ "LINK" \in Task \ {"LINK_MAC"} /\ "LINK_PHY" \in Task \ {"LINK_MAC"}
  BY Tasks
<1>3. Handshake' /\ InOrder'
  BY <1>0, <1>1, <1>2, SteadyNoPost
<1>4. /\ Boxes'
      /\ mbox'["LINK_MAC"] = Tail(mbox["LINK_MAC"]) /\ mbox'["LINK"] = mbox["LINK"] /\ mbox'["LINK_PHY"] = mbox["LINK_PHY"]
      /\ Loses(mbox'["LINK_MAC"], mbox["LINK_MAC"], Head(mbox["LINK_MAC"]))
  BY <1>0, <1>1, <1>2, FinishNoPost
<1>. QED  BY <1>2, <1>3, <1>4 DEF Loses, Trades

LEMMA MacReports ==
  ASSUME IInv, NEW sig, sig \notin Openers, MacHandling(sig), fsm' = fsm,
         NEW m \in LinkMsgs, m.sig \notin Openers, Finish("LINK_MAC", Post("LINK", m))
  PROVE  /\ Boxes' /\ Handshake' /\ InOrder'
         /\ mbox'["LINK_MAC"] = Tail(mbox["LINK_MAC"]) /\ mbox'["LINK"] = Append(mbox["LINK"], m) /\ mbox'["LINK_PHY"] = mbox["LINK_PHY"]
         /\ \A S : Cnt(mbox'["LINK_MAC"], S) = Cnt(mbox["LINK_MAC"], S) - One(sig \in S)
         /\ Loses(mbox'["LINK_MAC"], mbox["LINK_MAC"], Head(mbox["LINK_MAC"]))
         /\ Gains(mbox'["LINK"], mbox["LINK"], m)
<1>1. TypeOK /\ Boxes /\ Handshake /\ InOrder
  BY DEF IInv, Types
<1>2. fsm["LINK_MAC"] = "handle" /\ mbox["LINK_MAC"] # <<>> /\ Head(mbox["LINK_MAC"]).sig = sig
  BY DEF MacHandling, Handling
<1>0. "LINK_MAC" \in Task /\ "LINK" \in Task \ {"LINK_MAC"} /\ m \in MsgsOf("LINK")
      /\ "LINK_PHY" \in Task \ {"LINK_MAC", "LINK"}
  BY Tasks
<1>3. Handshake' /\ InOrder'
  BY <1>0, <1>1, <1>2, SteadyPost
<1>4. /\ Boxes'
      /\ mbox'["LINK_MAC"] = Tail(mbox["LINK_MAC"]) /\ mbox'["LINK"] = Append(mbox["LINK"], m) /\ mbox'["LINK_PHY"] = mbox["LINK_PHY"]
      /\ Loses(mbox'["LINK_MAC"], mbox["LINK_MAC"], Head(mbox["LINK_MAC"]))
      /\ Gains(mbox'["LINK"], mbox["LINK"], m)
  BY <1>0, <1>1, <1>2, FinishPost
<1>. QED  BY <1>2, <1>3, <1>4 DEF Loses, Trades

LEMMA MacAsks ==
  ASSUME IInv, NEW sig, sig \notin Openers, MacHandling(sig), fsm' = fsm,
         NEW m \in PhyMsgs, m.sig \notin Openers, Finish("LINK_MAC", Post("LINK_PHY", m))
  PROVE  /\ Boxes' /\ Handshake' /\ InOrder'
         /\ mbox'["LINK_MAC"] = Tail(mbox["LINK_MAC"]) /\ mbox'["LINK"] = mbox["LINK"] /\ mbox'["LINK_PHY"] = Append(mbox["LINK_PHY"], m)
         /\ \A S : Cnt(mbox'["LINK_MAC"], S) = Cnt(mbox["LINK_MAC"], S) - One(sig \in S)
         /\ Loses(mbox'["LINK_MAC"], mbox["LINK_MAC"], Head(mbox["LINK_MAC"]))
         /\ Gains(mbox'["LINK_PHY"], mbox["LINK_PHY"], m)
<1>1. TypeOK /\ Boxes /\ Handshake /\ InOrder
  BY DEF IInv, Types
<1>2. fsm["LINK_MAC"] = "handle" /\ mbox["LINK_MAC"] # <<>> /\ Head(mbox["LINK_MAC"]).sig = sig
  BY DEF MacHandling, Handling
<1>0. "LINK_MAC" \in Task /\ "LINK_PHY" \in Task \ {"LINK_MAC"} /\ m \in MsgsOf("LINK_PHY")
      /\ "LINK" \in Task \ {"LINK_MAC", "LINK_PHY"} /\ "LINK_PHY" # "LINK"
  BY Tasks
<1>3. Handshake' /\ InOrder'
  BY <1>0, <1>1, <1>2, SteadyPost
<1>4. /\ Boxes'
      /\ mbox'["LINK_MAC"] = Tail(mbox["LINK_MAC"]) /\ mbox'["LINK"] = mbox["LINK"] /\ mbox'["LINK_PHY"] = Append(mbox["LINK_PHY"], m)
      /\ Loses(mbox'["LINK_MAC"], mbox["LINK_MAC"], Head(mbox["LINK_MAC"]))
      /\ Gains(mbox'["LINK_PHY"], mbox["LINK_PHY"], m)
  BY <1>0, <1>1, <1>2, FinishPost
<1>. QED  BY <1>2, <1>3, <1>4 DEF Loses, Trades

LEMMA MacStarts ==
  ASSUME IInv, NEW sig, sig \notin Openers, MacHandling(sig), fsm' = fsm,
         NEW n \in MacMsgs, n.sig \notin Openers, Finish("LINK_MAC", Post("LINK_MAC", n))
  PROVE  /\ Boxes' /\ Handshake' /\ InOrder'
         /\ mbox'["LINK_MAC"] = Append(Tail(mbox["LINK_MAC"]), n) /\ mbox'["LINK"] = mbox["LINK"] /\ mbox'["LINK_PHY"] = mbox["LINK_PHY"]
         /\ \A S : Cnt(mbox'["LINK_MAC"], S) = Cnt(mbox["LINK_MAC"], S) - One(sig \in S) + One(n.sig \in S)
         /\ Trades(mbox'["LINK_MAC"], mbox["LINK_MAC"], Head(mbox["LINK_MAC"]), n)
<1>1. TypeOK /\ Boxes /\ Handshake /\ InOrder
  BY DEF IInv, Types
<1>2. fsm["LINK_MAC"] = "handle" /\ mbox["LINK_MAC"] # <<>> /\ Head(mbox["LINK_MAC"]).sig = sig
  BY DEF MacHandling, Handling
<1>0. "LINK_MAC" \in Task /\ n \in MsgsOf("LINK_MAC")
      /\ "LINK_PHY" \in Task \ {"LINK_MAC"} /\ "LINK" \in Task \ {"LINK_MAC"}
  BY Tasks
<1>3. Handshake' /\ InOrder'
  BY <1>0, <1>1, <1>2, SteadyOwnPost
<1>4. /\ Boxes'
      /\ mbox'["LINK_MAC"] = Append(Tail(mbox["LINK_MAC"]), n) /\ mbox'["LINK"] = mbox["LINK"] /\ mbox'["LINK_PHY"] = mbox["LINK_PHY"]
      /\ Trades(mbox'["LINK_MAC"], mbox["LINK_MAC"], Head(mbox["LINK_MAC"]), n)
  BY <1>0, <1>1, <1>2, FinishOwnPost
<1>. QED  BY <1>2, <1>3, <1>4 DEF Loses, Trades

LEMMA MacReportsStarts ==
  ASSUME IInv, NEW sig, sig \notin Openers, MacHandling(sig), fsm' = fsm,
         NEW m \in LinkMsgs, NEW n \in MacMsgs,
         m.sig \notin Openers, n.sig \notin Openers,
         Finish("LINK_MAC", [Post("LINK", m) EXCEPT !["LINK_MAC"] = <<n>>])
  PROVE  /\ Boxes' /\ Handshake' /\ InOrder'
         /\ mbox'["LINK_MAC"] = Append(Tail(mbox["LINK_MAC"]), n) /\ mbox'["LINK"] = Append(mbox["LINK"], m) /\ mbox'["LINK_PHY"] = mbox["LINK_PHY"]
         /\ \A S : Cnt(mbox'["LINK_MAC"], S) = Cnt(mbox["LINK_MAC"], S) - One(sig \in S) + One(n.sig \in S)
         /\ Trades(mbox'["LINK_MAC"], mbox["LINK_MAC"], Head(mbox["LINK_MAC"]), n)
         /\ Gains(mbox'["LINK"], mbox["LINK"], m)
<1>1. TypeOK /\ Boxes /\ Handshake /\ InOrder
  BY DEF IInv, Types
<1>2. fsm["LINK_MAC"] = "handle" /\ mbox["LINK_MAC"] # <<>> /\ Head(mbox["LINK_MAC"]).sig = sig
  BY DEF MacHandling, Handling
<1>0. "LINK_MAC" \in Task
  BY Tasks
<1>3. Handshake' /\ InOrder'
  BY <1>0, <1>1, <1>2, SteadyPosts
<1>4. /\ Boxes'
      /\ mbox'["LINK_MAC"] = Append(Tail(mbox["LINK_MAC"]), n) /\ mbox'["LINK"] = Append(mbox["LINK"], m) /\ mbox'["LINK_PHY"] = mbox["LINK_PHY"]
      /\ Trades(mbox'["LINK_MAC"], mbox["LINK_MAC"], Head(mbox["LINK_MAC"]), n)
      /\ Gains(mbox'["LINK"], mbox["LINK"], m)
  BY <1>0, <1>1, <1>2, FinishPosts
<1>. QED  BY <1>2, <1>3, <1>4 DEF Loses, Trades

LEMMA LinkFinishes ==
  ASSUME IInv, NEW sig, sig \notin Openers, LinkHandling(sig), fsm' = fsm,
         Finish("LINK", NoPost)
  PROVE  /\ Boxes' /\ Handshake' /\ InOrder'
         /\ mbox'["LINK_MAC"] = mbox["LINK_MAC"] /\ mbox'["LINK"] = Tail(mbox["LINK"]) /\ mbox'["LINK_PHY"] = mbox["LINK_PHY"]
         /\ \A S : Cnt(mbox'["LINK"], S) = Cnt(mbox["LINK"], S) - One(sig \in S)
         /\ Loses(mbox'["LINK"], mbox["LINK"], Head(mbox["LINK"]))
<1>1. TypeOK /\ Boxes /\ Handshake /\ InOrder
  BY DEF IInv, Types
<1>2. fsm["LINK"] = "handle" /\ mbox["LINK"] # <<>> /\ Head(mbox["LINK"]).sig = sig
  BY DEF LinkHandling, Handling
<1>0. "LINK" \in Task /\ "LINK_MAC" \in Task \ {"LINK"} /\ "LINK_PHY" \in Task \ {"LINK"}
  BY Tasks
<1>3. Handshake' /\ InOrder'
  BY <1>0, <1>1, <1>2, SteadyNoPost
<1>4. /\ Boxes'
      /\ mbox'["LINK_MAC"] = mbox["LINK_MAC"] /\ mbox'["LINK"] = Tail(mbox["LINK"]) /\ mbox'["LINK_PHY"] = mbox["LINK_PHY"]
      /\ Loses(mbox'["LINK"], mbox["LINK"], Head(mbox["LINK"]))
  BY <1>0, <1>1, <1>2, FinishNoPost
<1>. QED  BY <1>2, <1>3, <1>4 DEF Loses, Trades

LEMMA LinkSends ==
  ASSUME IInv, NEW sig, sig \notin Openers, LinkHandling(sig), fsm' = fsm,
         NEW m \in MacMsgs, m.sig \notin Openers, Finish("LINK", Post("LINK_MAC", m))
  PROVE  /\ Boxes' /\ Handshake' /\ InOrder'
         /\ mbox'["LINK_MAC"] = Append(mbox["LINK_MAC"], m) /\ mbox'["LINK"] = Tail(mbox["LINK"]) /\ mbox'["LINK_PHY"] = mbox["LINK_PHY"]
         /\ \A S : Cnt(mbox'["LINK"], S) = Cnt(mbox["LINK"], S) - One(sig \in S)
         /\ Loses(mbox'["LINK"], mbox["LINK"], Head(mbox["LINK"]))
         /\ Gains(mbox'["LINK_MAC"], mbox["LINK_MAC"], m)
<1>1. TypeOK /\ Boxes /\ Handshake /\ InOrder
  BY DEF IInv, Types
<1>2. fsm["LINK"] = "handle" /\ mbox["LINK"] # <<>> /\ Head(mbox["LINK"]).sig = sig
  BY DEF LinkHandling, Handling
<1>0. "LINK" \in Task /\ "LINK_MAC" \in Task \ {"LINK"} /\ m \in MsgsOf("LINK_MAC")
      /\ "LINK_PHY" \in Task \ {"LINK", "LINK_MAC"} /\ "LINK_MAC" # "LINK"
  BY Tasks
<1>3. Handshake' /\ InOrder'
  BY <1>0, <1>1, <1>2, SteadyPost
<1>4. /\ Boxes'
      /\ mbox'["LINK_MAC"] = Append(mbox["LINK_MAC"], m) /\ mbox'["LINK"] = Tail(mbox["LINK"]) /\ mbox'["LINK_PHY"] = mbox["LINK_PHY"]
      /\ Loses(mbox'["LINK"], mbox["LINK"], Head(mbox["LINK"]))
      /\ Gains(mbox'["LINK_MAC"], mbox["LINK_MAC"], m)
  BY <1>0, <1>1, <1>2, FinishPost
<1>. QED  BY <1>2, <1>3, <1>4 DEF Loses, Trades

LEMMA SentType ==
  ASSUME line \in Seq(PhyFrame), Len(line) <= LineMax, NEW p \in PhyState
  PROVE  Written(Request(p)) \in Seq(PhyFrame) /\ Len(Written(Request(p))) <= LineMax
<1>1. Request(p) \in PhyFrame
  BY DEF Request, PhyFrame, PhyState, Frame, AnyFrame
<1>. QED  BY <1>1, WrittenType

LEMMA TimerSet ==
  ASSUME timer \in [TimerKey -> 0..MacTo], NEW k \in TimerKey, NEW n \in 0..MacTo,
         timer' = [timer EXCEPT ![k] = n]
  PROVE  /\ timer' \in [TimerKey -> 0..MacTo] /\ timer'[k] = n
         /\ \A j \in TimerKey \ {k} : timer'[j] = timer[j]
  OBVIOUS

LEMMA PhyTimerSet ==
  ASSUME timer \in [TimerKey -> 0..MacTo], timer' = [timer EXCEPT ![PhySendTo] = PhyTo]
  PROVE  /\ timer' \in [TimerKey -> 0..MacTo] /\ timer'[PhySendTo] # 0
         /\ timer'[MacSendTo] = timer[MacSendTo] /\ timer'[MacRevTo] = timer[MacRevTo]
<1>1. PhyTo \in 0..MacTo /\ PhyTo # 0
  BY Numbers
<1>. QED  BY <1>1, TimerSet, Tasks

LEMMA AnswerType ==
  ASSUME line \in Seq(PhyFrame), Len(line) <= LineMax,
         NEW type \in {"ACK", "NACK"}, NEW seq \in 0 .. PhySeqMod - 1
  PROVE  /\ Answer(type, seq) \in PhyFrame
         /\ Written(Answer(type, seq)) \in Seq(PhyFrame)
         /\ Len(Written(Answer(type, seq))) <= LineMax
<1>1. NoFrame \in AnyFrame
  BY BoundsAreNat DEF NoFrame, AnyFrame
<1>2. Answer(type, seq) \in PhyFrame
  BY <1>1 DEF Answer, PhyFrame
<1>. QED  BY <1>2, WrittenType

(* The message that is handled counts. *)
LEMMA HeadCounts ==
  ASSUME NEW s \in Seq(AllMsgs), s # <<>>, NEW S, Head(s).sig \in S
  PROVE  Cnt(s, S) # 0
<1>1. 1 \in 1..Len(s) /\ Head(s) = s[1]
  OBVIOUS
<1>. QED  BY <1>1, CntZero

(* A step that ends the process leaves all but its reason. *)
LEMMA FatalKeeps ==
  ASSUME IInv, UNCHANGED <<mbox, fsm, pool, timer, due, line, phy, macSend, pduFifo, macRev, late>>
  PROVE  IInv'
BY DEF IInv, Types, TypeOK, Boxes, Unsent, Handshake, Inits, InOrder, Dormant, Armed

(* The ways the PHY layer ends the handling of a timeout or of an answer: it gives
   the frame up, sends it again, or does nothing.                            *)
LEMMA TimerCleared ==
  ASSUME timer \in [TimerKey -> 0..MacTo], NEW k \in TimerKey, timer' = [timer EXCEPT ![k] = 0]
  PROVE  /\ timer' \in [TimerKey -> 0..MacTo] /\ timer'[k] = 0
         /\ \A j \in TimerKey \ {k} : timer'[j] = timer[j]
<1>1. 0 \in 0..MacTo
  BY Numbers
<1>. QED  BY <1>1, TimerSet

PhyGivesUp(p) ==
  /\ GiveUp(p) /\ timer' \in {timer, [timer EXCEPT ![PhySendTo] = 0]}
  /\ UNCHANGED <<fsm, pool, due, line, fatal>>

LEMMA PhyGivesUpIInv ==
  ASSUME IInv, NEW sig \in {"FRAME_SEND_TO", "FRAME_REV"}, PhyHandling(sig),
         NEW p \in PhyState, PhyGivesUp(p), macSend.pdu # None,
         UNCHANGED <<macSend, pduFifo, macRev, late>>
  PROVE  IInv'
<1> DEFINE m == [sig |-> "FRAME_SEND_ERR"]
<1>a. TypeOK /\ Boxes /\ line \in Seq(PhyFrame) /\ (macRev.state = "RECEIVING" => macRev.pdu \in Pdu)
  BY DEF IInv, Types
<1>b. Unsent /\ Handshake /\ InOrder /\ Dormant /\ Armed
  BY DEF IInv
<1>d. \A S : Cnt(mbox["LINK"], S) \in Nat /\ Cnt(mbox["LINK_MAC"], S) \in Nat
  BY <1>a, BoxFacts, Tasks
<1>1. /\ phy' = [p EXCEPT !.send = "IDLE"] /\ Finish("LINK_PHY", Post("LINK_MAC", m))
      /\ timer' \in {timer, [timer EXCEPT ![PhySendTo] = 0]}
      /\ UNCHANGED <<fsm, pool, due, line, fatal>>
  BY DEF PhyGivesUp, GiveUp
<1>2. m \in MacMsgs /\ m.sig = "FRAME_SEND_ERR"
  BY Posted
<1> HIDE DEF m
<1>3. /\ Boxes' /\ Handshake' /\ InOrder' /\ mbox'["LINK"] = mbox["LINK"]
      /\ Gains(mbox'["LINK_MAC"], mbox["LINK_MAC"], m)
  BY <1>1, <1>2, PhyTells DEF Openers
<1>4. \A S : Cnt(mbox'["LINK_MAC"], S) = Cnt(mbox["LINK_MAC"], S) + One("FRAME_SEND_ERR" \in S)
  BY <1>2, <1>3 DEF Gains
<1>5. phy' \in PhyState /\ phy'.send = "IDLE"
  BY <1>1 DEF PhyState
<1>6. timer' \in [TimerKey -> 0..MacTo]
      /\ timer'[MacSendTo] = timer[MacSendTo] /\ timer'[MacRevTo] = timer[MacRevTo]
  BY <1>a, <1>1, TimerCleared, Tasks DEF TypeOK
<1>7. Types'
  BY <1>a, <1>1, <1>3, <1>5, <1>6 DEF Types, TypeOK
<1>8. fsm["LINK_PHY"] = "handle" /\ fsm' = fsm
  BY <1>1 DEF PhyHandling, Handling
<1>9. Unsent' /\ Dormant' /\ Armed'
  BY <1>b, <1>d, <1>1, <1>4, <1>5, <1>6, <1>8 DEF Unsent, Dormant, Armed, One
<1>. QED  BY <1>3, <1>7, <1>9 DEF IInv

LEMMA PhyResendsIInv ==
  ASSUME IInv, NEW sig \in {"FRAME_SEND_TO", "FRAME_REV"}, PhyHandling(sig),
         NEW p \in PhyState, p.send = phy.send, link_phy_frame_send(p), Finish("LINK_PHY", NoPost),
         macSend.pdu # None,
         UNCHANGED <<fsm, pool, due, fatal, macSend, pduFifo, macRev, late>>
  PROVE  IInv'
<1>a. TypeOK /\ Boxes /\ line \in Seq(PhyFrame) /\ (macRev.state = "RECEIVING" => macRev.pdu \in Pdu)
  BY DEF IInv, Types
<1>b. Unsent /\ Handshake /\ InOrder /\ Dormant /\ Armed
  BY DEF IInv
<1>1. /\ Boxes' /\ Handshake' /\ InOrder'
      /\ mbox'["LINK"] = mbox["LINK"] /\ mbox'["LINK_MAC"] = mbox["LINK_MAC"]
  BY PhyFinishes DEF Openers
<1>2. fsm["LINK_PHY"] = "handle" /\ phy' = p
  BY DEF PhyHandling, Handling, link_phy_frame_send
<1>3. /\ line' \in Seq(PhyFrame) /\ Len(line') <= LineMax /\ timer' \in [TimerKey -> 0..MacTo]
      /\ timer'[MacSendTo] = timer[MacSendTo] /\ timer'[MacRevTo] = timer[MacRevTo]
      /\ phy'.send = "SENDING" => timer'[PhySendTo] # 0
  <2>1. CASE p.send = "SENDING"
    <3>1. line' = Written(Request(p)) /\ timer' = [timer EXCEPT ![PhySendTo] = PhyTo]
      BY <2>1 DEF link_phy_frame_send, timer_set
    <3>2. Written(Request(p)) \in Seq(PhyFrame) /\ Len(Written(Request(p))) <= LineMax
      BY <1>a, SentType DEF TypeOK
    <3>. QED  BY <1>a, <3>1, <3>2, PhyTimerSet DEF TypeOK
  <2>2. CASE p.send = "IDLE"
    <3>1. line' = line /\ timer' = timer
      BY <2>2 DEF link_phy_frame_send
    <3>. QED  BY <1>a, <1>2, <2>2, <3>1 DEF TypeOK
  <2>. QED  BY <2>1, <2>2 DEF PhyState
<1>4. Types'
  BY <1>a, <1>1, <1>2, <1>3 DEF Types, TypeOK
<1>5. Unsent' /\ Dormant' /\ Armed'
  BY <1>b, <1>1, <1>2, <1>3 DEF Unsent, Dormant, Armed
<1>. QED  BY <1>1, <1>4, <1>5 DEF IInv

LEMMA PhyIgnoresIInv ==
  ASSUME IInv, NEW sig \in {"FRAME_REV", "FRAME_REV_CS_ERR"}, PhyHandling(sig),
         Finish("LINK_PHY", NoPost), line' \in Seq(PhyFrame), Len(line') <= LineMax,
         UNCHANGED <<fsm, pool, timer, due, fatal, phy, macSend, pduFifo, macRev, late>>
  PROVE  IInv'
<1>a. TypeOK /\ Boxes /\ line \in Seq(PhyFrame) /\ (macRev.state = "RECEIVING" => macRev.pdu \in Pdu)
  BY DEF IInv, Types
<1>b. Unsent /\ Handshake /\ InOrder /\ Dormant /\ Armed
  BY DEF IInv
<1>d. \A S : Cnt(mbox["LINK_PHY"], S) \in Nat
  BY <1>a, BoxFacts, Tasks
<1>1. /\ Boxes' /\ Handshake' /\ InOrder'
      /\ mbox'["LINK"] = mbox["LINK"] /\ mbox'["LINK_MAC"] = mbox["LINK_MAC"]
      /\ \A S : Cnt(mbox'["LINK_PHY"], S) = Cnt(mbox["LINK_PHY"], S) - One(sig \in S)
  BY PhyFinishes DEF Openers
<1>2. /\ Cnt(mbox'["LINK_PHY"], {"FRAME_SEND_TO"}) = Cnt(mbox["LINK_PHY"], {"FRAME_SEND_TO"})
      /\ Cnt(mbox'["LINK_PHY"], {"FRAME_SEND_REQ", "FRAME_SEND_TO"})
           = Cnt(mbox["LINK_PHY"], {"FRAME_SEND_REQ", "FRAME_SEND_TO"})
  BY <1>d, <1>1 DEF One
<1>4. Types'
  BY <1>a, <1>1 DEF Types, TypeOK
<1>5. Unsent' /\ Dormant' /\ Armed'
  BY <1>b, <1>1, <1>2 DEF Unsent, Dormant, Armed
<1>. QED  BY <1>1, <1>4, <1>5 DEF IInv

(* The tasks of the PHY layer. *)
LEMMA PhyIInv ==
  ASSUME IInv, PhyStep
  PROVE  IInv'
<1> DEFINE box == mbox["LINK_PHY"]
<1>a. TypeOK /\ Boxes /\ line \in Seq(PhyFrame) /\ (macRev.state = "RECEIVING" => macRev.pdu \in Pdu)
  BY DEF IInv, Types
<1>b. Unsent /\ Handshake /\ InOrder /\ Dormant /\ Armed
  BY DEF IInv
<1>c. UNCHANGED <<macSend, pduFifo, macRev, late>>
  BY DEF PhyStep, macVars
<1>d. \A S : /\ Cnt(mbox["LINK"], S) \in Nat
            /\ Cnt(mbox["LINK_MAC"], S) \in Nat
            /\ Cnt(mbox["LINK_PHY"], S) \in Nat
  BY <1>a, BoxFacts, Tasks
<1>1. CASE PhyStart
  <2> DEFINE m == [sig |-> "PHY_LAYER_STARTED"]
  <2>1. /\ box # <<>> /\ Head(box).sig = "INIT" /\ fsm["LINK_PHY"] = "init"
        /\ phy' = [phy EXCEPT !.send = "IDLE", !.retry = 0]
        /\ fsm' = [fsm EXCEPT !["LINK_PHY"] = "handle"]
        /\ Finish("LINK_PHY", Post("LINK_MAC", m))
        /\ UNCHANGED <<pool, timer, due, line, fatal>>
    BY <1>1 DEF PhyStart, Handling
  <2>2. m \in MacMsgs /\ m.sig = "PHY_LAYER_STARTED"
    BY Posted
  <2> HIDE DEF m
  <2>3. /\ Boxes' /\ mbox'["LINK_MAC"] = Append(mbox["LINK_MAC"], m)
        /\ mbox'["LINK"] = mbox["LINK"]
        /\ Loses(mbox'["LINK_PHY"], mbox["LINK_PHY"], Head(box))
        /\ Gains(mbox'["LINK_MAC"], mbox["LINK_MAC"], m)
    BY <1>a, <2>1, <2>2, FinishPost, Tasks
  <2>4. /\ \A S : Cnt(mbox'["LINK_PHY"], S) = Cnt(mbox["LINK_PHY"], S) - One("INIT" \in S)
        /\ \A S : Cnt(mbox'["LINK_MAC"], S) = Cnt(mbox["LINK_MAC"], S) + One("PHY_LAYER_STARTED" \in S)
    BY <2>1, <2>2, <2>3 DEF Loses, Gains
  <2>5. phy' \in PhyState /\ phy'.send = "IDLE"
    <3>1. phy \in PhyState /\ 0 \in Counter
      BY <1>a DEF TypeOK, Counter
    <3>. QED BY <3>1, <2>1 DEF PhyState
  <2>6. Types'
    BY <1>a, <1>c, <2>1, <2>3, <2>5, Tasks DEF Types, TypeOK
  <2>7. Unsent'
    BY <1>b, <1>c, <1>d, <2>1, <2>4, <2>5 DEF Unsent, One
  <2>8. Dormant'
    BY <1>a, <1>b, <1>c, <1>d, <2>1, <2>5, Tasks DEF Dormant, TypeOK
  <2>9. Armed'
    BY <1>b, <1>c, <1>d, <2>1, <2>4, <2>5 DEF Armed, One
  <2>10. Handshake'
    <3>1. /\ Cnt(mbox'["LINK_PHY"], {"INIT"}) = Cnt(mbox["LINK_PHY"], {"INIT"}) - 1
          /\ Cnt(mbox'["LINK_MAC"], {"INIT"}) = Cnt(mbox["LINK_MAC"], {"INIT"})
          /\ Cnt(mbox'["LINK_MAC"], {"PHY_LAYER_STARTED"}) = Cnt(mbox["LINK_MAC"], {"PHY_LAYER_STARTED"}) + 1
      BY <1>d, <2>4 DEF One
    <3>2. Inits' = Inits - 1 /\ Inits \in Nat
      BY <3>1, <1>d, <2>3 DEF Inits
    <3>3. fsm'["LINK_PHY"] = "handle" /\ fsm'["LINK_MAC"] = fsm["LINK_MAC"] /\ fsm'["LINK"] = fsm["LINK"]
      BY <1>a, <2>1, Tasks DEF TypeOK
    <3>. QED BY <3>1, <3>2, <3>3, <1>b, <1>d, <2>1, <2>3 DEF Handshake, One
  <2>11. InOrder'
    BY <1>a, <1>b, <2>1, <2>2, <2>3, MacOrder, Tasks DEF TypeOK, InOrder, MacEarly
  <2>. QED  BY <2>6, <2>7, <2>8, <2>9, <2>10, <2>11 DEF IInv
<1>2. CASE PhyDrop
  <2>1. /\ box # <<>> /\ Head(box).sig # "INIT" /\ fsm["LINK_PHY"] = "init"
        /\ Finish("LINK_PHY", NoPost)
        /\ UNCHANGED <<fsm, pool, timer, due, line, fatal, phy>>
    BY <1>2 DEF PhyDrop, Drop
  <2>2. /\ Boxes' /\ mbox'["LINK"] = mbox["LINK"] /\ mbox'["LINK_MAC"] = mbox["LINK_MAC"]
        /\ Loses(mbox'["LINK_PHY"], mbox["LINK_PHY"], Head(box))
    BY <1>a, <2>1, FinishNoPost, Tasks
  <2>3. \A S : Cnt(mbox'["LINK_PHY"], S) = Cnt(mbox["LINK_PHY"], S) - One(Head(box).sig \in S)
    BY <2>2 DEF Loses
  <2>4. Cnt(mbox'["LINK_PHY"], {"INIT"}) = Cnt(mbox["LINK_PHY"], {"INIT"})
    BY <1>d, <2>1, <2>3 DEF One
  <2>5. /\ Cnt(mbox["LINK_PHY"], {"FRAME_SEND_REQ", "FRAME_SEND_TO"}) = 0
        /\ Cnt(mbox'["LINK_PHY"], {"FRAME_SEND_REQ", "FRAME_SEND_TO"}) \in Nat
    <3>1. \A S : Cnt(mbox'["LINK_PHY"], S) \in Nat
      BY <2>2, CntNat, Tasks DEF Boxes
    <3>. QED  BY <1>b, <2>1, <3>1 DEF InOrder
  <2>6. Cnt(mbox'["LINK_PHY"], {"FRAME_SEND_REQ", "FRAME_SEND_TO"}) = 0
    BY <2>3, <2>5 DEF One
  <2>7. Types'
    BY <1>a, <1>c, <2>1, <2>2 DEF Types, TypeOK
  <2>8. Unsent'
    BY <1>b, <1>c, <2>1, <2>2, <2>6 DEF Unsent
  <2>9. Dormant'
    BY <1>b, <1>c, <2>1 DEF Dormant
  <2>10. Armed'
    BY <1>b, <1>c, <2>1, <2>2 DEF Dormant, Armed
  <2>11. Handshake'
    BY <1>b, <2>1, <2>2, <2>4 DEF Handshake, Inits
  <2>12. InOrder'
    BY <1>b, <2>1, <2>2, <2>6 DEF InOrder
  <2>. QED  BY <2>7, <2>8, <2>9, <2>10, <2>11, <2>12 DEF IInv
<1>3. CASE PhySendReq
  <2>1. CASE phy.send = "IDLE"
    <3> DEFINE p == [send |-> "SENDING", retry |-> 0, seq |-> (phy.seq + 1) % PhySeqMod,
                     frame |-> Head(box).frame]
    <3>1. PhyHandling("FRAME_SEND_REQ") /\ link_phy_frame_send(p) /\ Finish("LINK_PHY", NoPost)
          /\ UNCHANGED <<fsm, pool, due, fatal>>
      BY <1>3, <2>1 DEF PhySendReq
    <3>2. box # <<>> /\ Head(box).sig = "FRAME_SEND_REQ" /\ fsm["LINK_PHY"] = "handle"
      BY <3>1 DEF PhyHandling, Handling
    <3>3. Head(box).frame \in Frame
      BY <1>a, <3>2, HeadIsMsg, MsgFields, Tasks
    <3>4. p \in PhyState /\ p.send = "SENDING"
      <4>1. (phy.seq + 1) % PhySeqMod \in 0 .. PhySeqMod - 1
        <5>1. phy.seq + 1 \in Nat
          BY <1>a, BoundsAreNat DEF TypeOK, PhyState
        <5>. QED  BY <5>1, Numbers
      <4>. QED  BY <3>3, <4>1 DEF PhyState, Counter
    <3> HIDE DEF p
    <3>5. phy' = p /\ line' = Written(Request(p)) /\ timer' = [timer EXCEPT ![PhySendTo] = PhyTo]
      BY <3>1, <3>4 DEF link_phy_frame_send, timer_set
    <3>6. line' \in Seq(PhyFrame) /\ Len(line') <= LineMax
      BY <1>a, <3>4, <3>5, SentType DEF TypeOK
    <3>7. /\ Boxes' /\ Handshake' /\ InOrder'
          /\ mbox'["LINK"] = mbox["LINK"] /\ mbox'["LINK_MAC"] = mbox["LINK_MAC"]
          /\ \A S : Cnt(mbox'["LINK_PHY"], S) = Cnt(mbox["LINK_PHY"], S) - One("FRAME_SEND_REQ" \in S)
      BY <3>1, PhyFinishes DEF Openers
    <3>8. timer' \in [TimerKey -> 0..MacTo] /\ timer'[PhySendTo] # 0
          /\ timer'[MacSendTo] = timer[MacSendTo] /\ timer'[MacRevTo] = timer[MacRevTo]
      BY <1>a, <3>5, PhyTimerSet DEF TypeOK
    <3>9. Types'
      BY <1>a, <1>c, <3>1, <3>4, <3>5, <3>6, <3>7, <3>8 DEF Types, TypeOK
    <3>10. macSend.pdu # None
      <4>1. Cnt(mbox["LINK_PHY"], {"FRAME_SEND_REQ", "FRAME_SEND_TO"}) # 0
        BY <1>a, <3>2, HeadCounts, Tasks DEF Boxes
      <4>. QED  BY <1>b, <4>1 DEF Unsent
    <3>11. Unsent' /\ Dormant' /\ Armed'
      BY <1>b, <1>c, <3>1, <3>2, <3>7, <3>8, <3>10 DEF Unsent, Dormant, Armed
    <3>. QED  BY <3>7, <3>9, <3>11 DEF IInv
  <2>2. CASE phy.send # "IDLE"
    BY <1>3, <1>c, <2>2, FatalKeeps DEF PhySendReq, Fatal
  <2>. QED  BY <2>1, <2>2
<1>4. CASE PhySendTimeout
  <2> DEFINE counted == [phy EXCEPT !.retry = Increment(@)]
  <2>1. /\ PhyHandling("FRAME_SEND_TO") /\ UNCHANGED <<fsm, pool, due, fatal>>
        /\ \/ phy.retry >= MaxRetry /\ GiveUp(counted) /\ UNCHANGED <<line, timer>>
           \/ link_phy_frame_send(counted) /\ Finish("LINK_PHY", NoPost)
    BY <1>4 DEF PhySendTimeout
  <2>2. box # <<>> /\ Head(box).sig = "FRAME_SEND_TO" /\ fsm["LINK_PHY"] = "handle"
    BY <2>1 DEF PhyHandling, Handling
  <2>3. counted \in PhyState /\ counted.send = phy.send
    BY <1>a, Numbers DEF TypeOK, PhyState
  <2> HIDE DEF counted
  <2>4. macSend.pdu # None
    <3>1. Cnt(mbox["LINK_PHY"], {"FRAME_SEND_REQ", "FRAME_SEND_TO"}) # 0
      BY <1>a, <2>2, HeadCounts, Tasks DEF Boxes
    <3>. QED  BY <1>b, <3>1 DEF Unsent
  <2>5. CASE GiveUp(counted) /\ UNCHANGED <<line, timer>>
    <3>1. PhyGivesUp(counted)
      BY <2>1, <2>5 DEF PhyGivesUp
    <3>. QED  BY <2>1, <2>3, <2>4, <2>5, <1>c, <3>1, PhyGivesUpIInv DEF Openers
  <2>6. CASE link_phy_frame_send(counted) /\ Finish("LINK_PHY", NoPost)
    BY <2>1, <2>3, <2>4, <2>6, <1>c, PhyResendsIInv DEF Openers
  <2>. QED  BY <2>1, <2>5, <2>6
<1>5. CASE PhyRevReq
  <2> DEFINE m == [sig |-> "FRAME_REV", frame |-> Received.mac]
  <2>1. /\ PhyHandling("FRAME_REV") /\ line' = Written(Answer("ACK", Received.seq))
        /\ Finish("LINK_PHY", Post("LINK_MAC", m))
        /\ UNCHANGED <<fsm, pool, timer, due, fatal, phy>>
    BY <1>5 DEF PhyRevReq
  <2>2. box # <<>> /\ Head(box).sig = "FRAME_REV" /\ fsm["LINK_PHY"] = "handle"
    BY <2>1 DEF PhyHandling, Handling
  <2>3. Received \in PhyFrame
    BY <1>a, <2>2, HeadIsMsg, MsgFields, Tasks DEF Received
  <2>4. m \in MacMsgs /\ m.sig = "FRAME_REV"
    BY <2>3, Posted DEF PhyFrame
  <2> HIDE DEF m
  <2>5. line' \in Seq(PhyFrame) /\ Len(line') <= LineMax
    BY <1>a, <2>1, <2>3, AnswerType DEF TypeOK, PhyFrame
  <2>6. /\ Boxes' /\ Handshake' /\ InOrder' /\ mbox'["LINK"] = mbox["LINK"]
        /\ \A S : Cnt(mbox'["LINK_PHY"], S) = Cnt(mbox["LINK_PHY"], S) - One("FRAME_REV" \in S)
        /\ Gains(mbox'["LINK_MAC"], mbox["LINK_MAC"], m)
    BY <2>1, <2>4, PhyTells DEF Openers
  <2>7. \A S : Cnt(mbox'["LINK_MAC"], S) = Cnt(mbox["LINK_MAC"], S) + One("FRAME_REV" \in S)
    BY <2>4, <2>6 DEF Gains
  <2>8. Types'
    BY <1>a, <1>c, <2>1, <2>5, <2>6 DEF Types, TypeOK
  <2>9. Unsent' /\ Dormant' /\ Armed'
    BY <1>b, <1>c, <1>d, <2>1, <2>6, <2>7 DEF Unsent, Dormant, Armed, One
  <2>. QED  BY <2>6, <2>8, <2>9 DEF IInv
<1>6. CASE PhyRevAck
  <2> DEFINE m == [sig |-> "FRAME_SEND_DONE"]
  <2>1. /\ PhyHandling("FRAME_REV") /\ phy.send = "SENDING" /\ Finish("LINK_PHY", Post("LINK_MAC", m))
        /\ timer' = [timer EXCEPT ![PhySendTo] = 0] /\ phy' = [phy EXCEPT !.send = "IDLE"]
        /\ UNCHANGED <<fsm, pool, due, line, fatal>>
    BY <1>6 DEF PhyRevAck, IsAnswer, timer_remove_attr
  <2>2. m \in MacMsgs /\ m.sig = "FRAME_SEND_DONE"
    BY Posted
  <2> HIDE DEF m
  <2>3. /\ Boxes' /\ Handshake' /\ InOrder' /\ mbox'["LINK"] = mbox["LINK"]
        /\ Gains(mbox'["LINK_MAC"], mbox["LINK_MAC"], m)
    BY <2>1, <2>2, PhyTells DEF Openers
  <2>4. \A S : Cnt(mbox'["LINK_MAC"], S) = Cnt(mbox["LINK_MAC"], S) + One("FRAME_SEND_DONE" \in S)
    BY <2>2, <2>3 DEF Gains
  <2>5. phy' \in PhyState /\ phy'.send = "IDLE"
    BY <1>a, <2>1 DEF TypeOK, PhyState
  <2>6. timer' \in [TimerKey -> 0..MacTo] /\ timer'[PhySendTo] = 0
        /\ timer'[MacSendTo] = timer[MacSendTo] /\ timer'[MacRevTo] = timer[MacRevTo]
    BY <1>a, <2>1, TimerCleared, Tasks DEF TypeOK
  <2>7. Types'
    BY <1>a, <1>c, <2>1, <2>3, <2>5, <2>6 DEF Types, TypeOK
  <2>8. macSend.pdu # None /\ fsm["LINK_PHY"] = "handle"
    BY <1>b, <2>1 DEF Unsent, PhyHandling, Handling
  <2>9. Unsent' /\ Dormant' /\ Armed'
    BY <1>b, <1>c, <1>d, <2>1, <2>4, <2>5, <2>6, <2>8 DEF Unsent, Dormant, Armed, One
  <2>. QED  BY <2>3, <2>7, <2>9 DEF IInv
<1>7. CASE PhyRevNack
  <2> DEFINE counted == [phy EXCEPT !.retry = Increment(@)]
  <2>1. /\ PhyHandling("FRAME_REV") /\ phy.send = "SENDING" /\ UNCHANGED <<fsm, pool, due, fatal>>
        /\ \/ timer_remove_attr(PhySendTo) /\ GiveUp(counted) /\ UNCHANGED line
           \/ link_phy_frame_send(counted) /\ Finish("LINK_PHY", NoPost)
    BY <1>7 DEF PhyRevNack, IsAnswer
  <2>2. counted \in PhyState /\ counted.send = phy.send
    BY <1>a, Numbers DEF TypeOK, PhyState
  <2> HIDE DEF counted
  <2>3. macSend.pdu # None
    BY <1>b, <2>1 DEF Unsent
  <2>4. CASE timer_remove_attr(PhySendTo) /\ GiveUp(counted) /\ UNCHANGED line
    <3>1. PhyGivesUp(counted)
      BY <2>1, <2>4 DEF PhyGivesUp, timer_remove_attr
    <3>. QED  BY <2>1, <2>2, <2>3, <1>c, <3>1, PhyGivesUpIInv DEF Openers
  <2>5. CASE link_phy_frame_send(counted) /\ Finish("LINK_PHY", NoPost)
    BY <2>1, <2>2, <2>3, <2>5, <1>c, PhyResendsIInv DEF Openers
  <2>. QED  BY <2>1, <2>4, <2>5
<1>8. CASE PhyRevStale
  <2>1. /\ PhyHandling("FRAME_REV") /\ Finish("LINK_PHY", NoPost)
        /\ UNCHANGED <<fsm, pool, timer, due, line, fatal, phy>>
    BY <1>8 DEF PhyRevStale
  <2>. QED  BY <1>a, <1>c, <2>1, PhyIgnoresIInv DEF Openers, TypeOK
<1>9. CASE PhyRevChecksumError
  <2>1. /\ PhyHandling("FRAME_REV_CS_ERR") /\ Finish("LINK_PHY", NoPost)
        /\ line' = Written(Answer("NACK", Received.seq))
        /\ UNCHANGED <<fsm, pool, timer, due, fatal, phy>>
    BY <1>9 DEF PhyRevChecksumError
  <2>2. box # <<>> /\ Head(box).sig = "FRAME_REV_CS_ERR"
    BY <2>1 DEF PhyHandling, Handling
  <2>3. Received \in PhyFrame
    BY <1>a, <2>2, HeadIsMsg, MsgFields, Tasks DEF Received
  <2>4. line' \in Seq(PhyFrame) /\ Len(line') <= LineMax
    BY <1>a, <2>1, <2>3, AnswerType DEF TypeOK, PhyFrame
  <2>. QED  BY <1>c, <2>1, <2>4, PhyIgnoresIInv DEF Openers
<1>. QED  BY <1>1, <1>2, <1>3, <1>4, <1>5, <1>6, <1>7, <1>8, <1>9 DEF PhyStep, PhyNext

-----------------------------------------------------------------------------
(* The MAC layer sends a frame, or ends the process: link_mac_frame_send_req. *)
LEMMA MacTransmitsIInv ==
  ASSUME IInv, NEW sig \in {"FRAME_SEND_START", "FRAME_SEND_DONE", "FRAME_SEND_ERR", "FRAME_SEND_TO"},
         MacHandling(sig), NEW s \in MacSender, s.pdu # None, link_mac_frame_send_req(s),
         UNCHANGED <<macRev, phy, late>>
  PROVE  IInv'
<1>a. TypeOK /\ Boxes /\ line \in Seq(PhyFrame) /\ (macRev.state = "RECEIVING" => macRev.pdu \in Pdu)
  BY DEF IInv, Types
<1>b. Unsent /\ Handshake /\ InOrder /\ Dormant /\ Armed
  BY DEF IInv
<1>d. \A S : /\ Cnt(mbox["LINK"], S) \in Nat
            /\ Cnt(mbox["LINK_MAC"], S) \in Nat
            /\ Cnt(mbox["LINK_PHY"], S) \in Nat
  BY <1>a, BoxFacts, Tasks
<1>1. CASE s.state = "SENDING"
  <2> DEFINE m == [sig |-> "FRAME_SEND_REQ", frame |-> s.frame]
  <2>1. /\ macSend' = s /\ Finish("LINK_MAC", Post("LINK_PHY", m))
        /\ timer' = [timer EXCEPT ![MacSendTo] = MacTo]
        /\ UNCHANGED <<fsm, pool, due, line, fatal, pduFifo>>
    BY <1>1 DEF link_mac_frame_send_req, timer_set
  <2>2. m \in PhyMsgs /\ m.sig = "FRAME_SEND_REQ"
    BY Posted DEF MacSender
  <2> HIDE DEF m
  <2>3. /\ Boxes' /\ Handshake' /\ InOrder' /\ mbox'["LINK"] = mbox["LINK"]
        /\ \A S : Cnt(mbox'["LINK_MAC"], S) = Cnt(mbox["LINK_MAC"], S) - One(sig \in S)
        /\ Gains(mbox'["LINK_PHY"], mbox["LINK_PHY"], m)
    BY <2>1, <2>2, MacAsks DEF Openers
  <2>4. \A S : Cnt(mbox'["LINK_PHY"], S) = Cnt(mbox["LINK_PHY"], S) + One("FRAME_SEND_REQ" \in S)
    BY <2>2, <2>3 DEF Gains
  <2>5. /\ timer' \in [TimerKey -> 0..MacTo] /\ timer'[PhySendTo] = timer[PhySendTo]
        /\ timer'[MacRevTo] = timer[MacRevTo]
    <3>1. MacTo \in 0..MacTo
      BY Numbers
    <3>. QED  BY <1>a, <2>1, <3>1, TimerSet, Tasks DEF TypeOK
  <2>6. Types'
    BY <1>a, <2>1, <2>3, <2>5 DEF Types, TypeOK
  <2>7. fsm["LINK_MAC"] = "handle" /\ fsm' = fsm
    BY <2>1 DEF MacHandling, Handling
  <2>8. Unsent' /\ Dormant' /\ Armed'
    BY <1>b, <1>d, <2>1, <2>3, <2>4, <2>5, <2>7 DEF Unsent, Dormant, Armed, One
  <2>. QED  BY <2>3, <2>6, <2>8 DEF IInv
<1>2. CASE s.state = "IDLE"
  BY <1>2, FatalKeeps DEF link_mac_frame_send_req, Fatal
<1>. QED  BY <1>1, <1>2 DEF MacSender

(* It reports the end of a PDU and starts the next that waits. *)
LEMMA MacEndsIInv ==
  ASSUME IInv, NEW sig \in {"FRAME_SEND_DONE", "FRAME_SEND_ERR", "FRAME_SEND_TO"},
         MacHandling(sig), NEW s \in MacSender, s.pdu # None,
         NEW report \in {"SEND_DONE", "SEND_ERR"}, link_mac_frame_send_end(s, report),
         timer' \in {timer, [timer EXCEPT ![MacSendTo] = 0]},
         UNCHANGED <<macRev, phy, late>>
  PROVE  IInv'
<1>a. TypeOK /\ Boxes /\ line \in Seq(PhyFrame) /\ (macRev.state = "RECEIVING" => macRev.pdu \in Pdu)
  BY DEF IInv, Types
<1>b. Unsent /\ Handshake /\ InOrder /\ Dormant /\ Armed
  BY DEF IInv
<1>d. \A S : /\ Cnt(mbox["LINK"], S) \in Nat
            /\ Cnt(mbox["LINK_MAC"], S) \in Nat
            /\ Cnt(mbox["LINK_PHY"], S) \in Nat
  BY <1>a, BoxFacts, Tasks
<1> DEFINE m == PduMsg(report, s.pdu)
<1>1. m \in LinkMsgs /\ m.sig = report /\ UNCHANGED <<fsm, pool, due, line, fatal>>
  BY Posted DEF MacSender, PduMsg, link_mac_frame_send_end
<1>2. /\ timer' \in [TimerKey -> 0..MacTo] /\ timer'[PhySendTo] = timer[PhySendTo]
      /\ timer'[MacRevTo] = timer[MacRevTo]
  BY <1>a, TimerCleared, Tasks DEF TypeOK
<1>3. fsm["LINK_MAC"] = "handle" /\ fsm' = fsm
  BY <1>1 DEF MacHandling, Handling
<1>4. /\ pduFifo' \in Seq(Pdu) /\ Len(pduFifo') <= FifoSize
      /\ macSend' \in MacSender /\ macSend'.pdu # None
      /\ Boxes' /\ Handshake' /\ InOrder' /\ mbox'["LINK_PHY"] = mbox["LINK_PHY"]
      /\ Cnt(mbox'["LINK_MAC"], {"FRAME_REV_TO"}) = Cnt(mbox["LINK_MAC"], {"FRAME_REV_TO"})
  <2>1. CASE pduFifo # <<>>
    <3> DEFINE n == PduMsg("FRAME_SEND_START", Head(pduFifo))
    <3>1. /\ pduFifo' = Tail(pduFifo) /\ macSend' = s
          /\ Finish("LINK_MAC", [Post("LINK", m) EXCEPT !["LINK_MAC"] = <<n>>])
      BY <2>1 DEF link_mac_frame_send_end
    <3>2. /\ n \in MacMsgs /\ n.sig = "FRAME_SEND_START"
          /\ pduFifo' \in Seq(Pdu) /\ Len(pduFifo') <= FifoSize
      <4>1. Head(pduFifo) \in Pdu /\ Tail(pduFifo) \in Seq(Pdu)
            /\ Len(Tail(pduFifo)) = Len(pduFifo) - 1 /\ Len(pduFifo) \in Nat
        BY <1>a, <2>1 DEF TypeOK
      <4>2. Len(Tail(pduFifo)) <= FifoSize
        BY <1>a, <4>1, Numbers DEF TypeOK
      <4>. QED  BY <3>1, <4>1, <4>2, Posted DEF PduMsg
    <3> HIDE DEF m, n
    <3>3. /\ Boxes' /\ Handshake' /\ InOrder' /\ mbox'["LINK_PHY"] = mbox["LINK_PHY"]
          /\ \A S : Cnt(mbox'["LINK_MAC"], S)
                      = Cnt(mbox["LINK_MAC"], S) - One(sig \in S) + One(n.sig \in S)
      BY <1>1, <3>1, <3>2, MacReportsStarts DEF Openers
    <3>4. Cnt(mbox'["LINK_MAC"], {"FRAME_REV_TO"}) = Cnt(mbox["LINK_MAC"], {"FRAME_REV_TO"})
      BY <1>d, <3>2, <3>3 DEF One
    <3>. QED  BY <3>1, <3>2, <3>3, <3>4
  <2>2. CASE pduFifo = <<>>
    <3>1. /\ pduFifo' = pduFifo /\ macSend' = [s EXCEPT !.state = "IDLE"]
          /\ Finish("LINK_MAC", Post("LINK", m))
      BY <2>2 DEF link_mac_frame_send_end
    <3>2. macSend' \in MacSender /\ macSend'.pdu # None
      BY <3>1 DEF MacSender
    <3> HIDE DEF m
    <3>3. /\ Boxes' /\ Handshake' /\ InOrder' /\ mbox'["LINK_PHY"] = mbox["LINK_PHY"]
          /\ \A S : Cnt(mbox'["LINK_MAC"], S) = Cnt(mbox["LINK_MAC"], S) - One(sig \in S)
      BY <1>1, <3>1, MacReports DEF Openers
    <3>4. Cnt(mbox'["LINK_MAC"], {"FRAME_REV_TO"}) = Cnt(mbox["LINK_MAC"], {"FRAME_REV_TO"})
      BY <1>d, <3>3 DEF One
    <3>. QED  BY <1>a, <3>1, <3>2, <3>3, <3>4 DEF TypeOK
  <2>. QED  BY <2>1, <2>2
<1> HIDE DEF m
<1>5. Types'
  BY <1>a, <1>1, <1>2, <1>4 DEF Types, TypeOK
<1>6. Unsent' /\ Dormant' /\ Armed'
  BY <1>b, <1>1, <1>2, <1>3, <1>4 DEF Unsent, Dormant, Armed
<1>. QED  BY <1>4, <1>5, <1>6 DEF IInv

(* It takes a frame of the PDU it receives. *)
LEMMA MacAcceptsIInv ==
  ASSUME IInv, MacHandling("FRAME_REV"), pool' \in [Pdu -> 0..MaxFrames],
         NEW r \in MacReceiver, r.pdu # None, Accept(r),
         UNCHANGED <<fsm, due, line, fatal, macSend, pduFifo, phy, late>>
  PROVE  IInv'
<1>a. TypeOK /\ Boxes /\ line \in Seq(PhyFrame) /\ (macRev.state = "RECEIVING" => macRev.pdu \in Pdu)
  BY DEF IInv, Types
<1>b. Unsent /\ Handshake /\ InOrder /\ Dormant /\ Armed
  BY DEF IInv
<1>d. \A S : /\ Cnt(mbox["LINK"], S) \in Nat
            /\ Cnt(mbox["LINK_MAC"], S) \in Nat
            /\ Cnt(mbox["LINK_PHY"], S) \in Nat
  BY <1>a, BoxFacts, Tasks
<1>1. fsm["LINK_MAC"] = "handle"
  BY DEF MacHandling, Handling
<1>2. /\ Boxes' /\ Handshake' /\ InOrder' /\ mbox'["LINK_PHY"] = mbox["LINK_PHY"]
      /\ \A S : Cnt(mbox'["LINK_MAC"], S) = Cnt(mbox["LINK_MAC"], S) - One("FRAME_REV" \in S)
      /\ timer' \in [TimerKey -> 0..MacTo]
      /\ timer'[PhySendTo] = timer[PhySendTo] /\ timer'[MacSendTo] = timer[MacSendTo]
      /\ macRev' \in MacReceiver
      /\ macRev'.state = "RECEIVING" => timer'[MacRevTo] # 0 /\ macRev'.pdu \in Pdu
  <2>1. CASE MacMsg.frame.fidx = MacMsg.frame.fnum - 1
    <3> DEFINE m == PduMsg("REV_MSG", r.pdu)
    <3>1. /\ macRev' = [r EXCEPT !.state = "IDLE", !.pdu = None]
          /\ timer' = [timer EXCEPT ![MacRevTo] = 0]
          /\ Finish("LINK_MAC", Post("LINK", m))
      BY <2>1 DEF Accept, timer_remove_attr
    <3>2. m \in LinkMsgs /\ m.sig = "REV_MSG"
      BY Posted DEF MacReceiver, PduMsg
    <3> HIDE DEF m
    <3>3. /\ Boxes' /\ Handshake' /\ InOrder' /\ mbox'["LINK_PHY"] = mbox["LINK_PHY"]
          /\ \A S : Cnt(mbox'["LINK_MAC"], S) = Cnt(mbox["LINK_MAC"], S) - One("FRAME_REV" \in S)
      BY <3>1, <3>2, MacReports DEF Openers
    <3>4. /\ timer' \in [TimerKey -> 0..MacTo]
          /\ timer'[PhySendTo] = timer[PhySendTo] /\ timer'[MacSendTo] = timer[MacSendTo]
      BY <1>a, <3>1, TimerCleared, Tasks DEF TypeOK
    <3>5. macRev' \in MacReceiver /\ macRev'.state = "IDLE"
      BY <3>1 DEF MacReceiver
    <3>. QED  BY <3>3, <3>4, <3>5
  <2>2. CASE MacMsg.frame.fidx # MacMsg.frame.fnum - 1
    <3>1. /\ macRev' = r /\ timer' = [timer EXCEPT ![MacRevTo] = MacTo]
          /\ Finish("LINK_MAC", NoPost)
      BY <2>2 DEF Accept, timer_set
    <3>2. /\ Boxes' /\ Handshake' /\ InOrder' /\ mbox'["LINK_PHY"] = mbox["LINK_PHY"]
          /\ \A S : Cnt(mbox'["LINK_MAC"], S) = Cnt(mbox["LINK_MAC"], S) - One("FRAME_REV" \in S)
      BY <3>1, MacFinishes DEF Openers
    <3>3. /\ timer' \in [TimerKey -> 0..MacTo] /\ timer'[MacRevTo] # 0
          /\ timer'[PhySendTo] = timer[PhySendTo] /\ timer'[MacSendTo] = timer[MacSendTo]
      <4>1. MacTo \in 0..MacTo /\ MacTo # 0
        BY Numbers
      <4>. QED  BY <1>a, <3>1, <4>1, TimerSet, Tasks DEF TypeOK
    <3>. QED  BY <3>1, <3>2, <3>3 DEF MacReceiver
  <2>. QED  BY <2>1, <2>2
<1>3. Types'
  BY <1>a, <1>2 DEF Types, TypeOK
<1>4. Unsent' /\ Dormant' /\ Armed'
  BY <1>b, <1>d, <1>1, <1>2 DEF Unsent, Dormant, Armed, One
<1>. QED  BY <1>2, <1>3, <1>4 DEF IInv

(* A message about a frame is only there when the sender has had a PDU. *)
LEMMA MacHadPdu ==
  ASSUME IInv, NEW sig \in {"FRAME_SEND_DONE", "FRAME_SEND_ERR", "FRAME_SEND_TO"}, MacHandling(sig)
  PROVE  macSend.pdu # None
<1>1. mbox["LINK_MAC"] \in Seq(AllMsgs) /\ mbox["LINK_MAC"] # <<>> /\ Head(mbox["LINK_MAC"]).sig = sig
  BY Tasks DEF IInv, Types, Boxes, MacHandling, Handling
<1>2. Cnt(mbox["LINK_MAC"], {"FRAME_SEND_DONE", "FRAME_SEND_ERR", "FRAME_SEND_TO"}) # 0
  BY <1>1, HeadCounts
<1>. QED  BY <1>2 DEF IInv, Unsent

LEMMA MacIInv ==
  ASSUME IInv, MacStep
  PROVE  IInv'
<1> DEFINE box == mbox["LINK_MAC"]
<1>a. TypeOK /\ Boxes /\ line \in Seq(PhyFrame) /\ (macRev.state = "RECEIVING" => macRev.pdu \in Pdu)
  BY DEF IInv, Types
<1>b. Unsent /\ Handshake /\ InOrder /\ Dormant /\ Armed
  BY DEF IInv
<1>d. \A S : /\ Cnt(mbox["LINK"], S) \in Nat
            /\ Cnt(mbox["LINK_MAC"], S) \in Nat
            /\ Cnt(mbox["LINK_PHY"], S) \in Nat
  BY <1>a, BoxFacts, Tasks
<1>c. UNCHANGED <<phy, late>>
  BY DEF MacStep
<1>1. CASE MacInitLower
  <2> DEFINE m == [sig |-> "INIT"]
  <2>1. /\ box # <<>> /\ Head(box).sig = "INIT" /\ fsm["LINK_MAC"] = "init"
        /\ Finish("LINK_MAC", Post("LINK_PHY", m))
        /\ UNCHANGED <<fsm, pool, timer, due, line, fatal, macSend, pduFifo, macRev>>
    BY <1>1 DEF MacInitLower, Handling, macVars
  <2>2. m \in PhyMsgs /\ m.sig = "INIT"
    BY Posted
  <2> HIDE DEF m
  <2>3. /\ Boxes' /\ mbox'["LINK_PHY"] = Append(mbox["LINK_PHY"], m)
        /\ mbox'["LINK_MAC"] = Tail(box) /\ mbox'["LINK"] = mbox["LINK"]
        /\ Loses(mbox'["LINK_MAC"], mbox["LINK_MAC"], Head(box))
        /\ Gains(mbox'["LINK_PHY"], mbox["LINK_PHY"], m)
    BY <1>a, <2>1, <2>2, FinishPost, Tasks
  <2>4. \A S : Cnt(mbox'["LINK_MAC"], S) = Cnt(mbox["LINK_MAC"], S) - One("INIT" \in S)
    BY <2>1, <2>3 DEF Loses
  <2>5. \A S : Cnt(mbox'["LINK_PHY"], S) = Cnt(mbox["LINK_PHY"], S) + One("INIT" \in S)
    BY <2>2, <2>3 DEF Gains
  <2>6. Types'
    BY <1>a, <1>c, <2>1, <2>3 DEF Types, TypeOK
  <2>7. Unsent' /\ Dormant' /\ Armed'
    <3>1. /\ Cnt(mbox'["LINK_PHY"], {"FRAME_SEND_REQ", "FRAME_SEND_TO"})
               = Cnt(mbox["LINK_PHY"], {"FRAME_SEND_REQ", "FRAME_SEND_TO"})
          /\ Cnt(mbox'["LINK_PHY"], {"FRAME_SEND_TO"}) = Cnt(mbox["LINK_PHY"], {"FRAME_SEND_TO"})
      BY <1>d, <2>5 DEF One
    <3>2. /\ Cnt(mbox'["LINK_MAC"], {"FRAME_SEND_DONE", "FRAME_SEND_ERR", "FRAME_SEND_TO"})
               = Cnt(mbox["LINK_MAC"], {"FRAME_SEND_DONE", "FRAME_SEND_ERR", "FRAME_SEND_TO"})
          /\ Cnt(mbox'["LINK_MAC"], {"FRAME_REV_TO"}) = Cnt(mbox["LINK_MAC"], {"FRAME_REV_TO"})
      BY <1>d, <2>4 DEF One
    <3>. QED  BY <1>b, <1>c, <2>1, <3>1, <3>2 DEF Unsent, Dormant, Armed
  <2>8. Handshake'
    <3>1. /\ Cnt(mbox'["LINK_PHY"], {"INIT"}) = Cnt(mbox["LINK_PHY"], {"INIT"}) + 1
          /\ Cnt(mbox'["LINK_MAC"], {"INIT"}) = Cnt(mbox["LINK_MAC"], {"INIT"}) - 1
          /\ Cnt(mbox'["LINK_MAC"], {"PHY_LAYER_STARTED"}) = Cnt(mbox["LINK_MAC"], {"PHY_LAYER_STARTED"})
      BY <1>d, <2>4, <2>5 DEF One
    <3>2. Inits' = Inits
      BY <1>d, <2>3, <3>1 DEF Inits
    <3>. QED  BY <1>b, <2>1, <2>3, <3>1, <3>2 DEF Handshake
  <2>9. InOrder'
    <3>1. Ordered(Tail(box), MacEarly, "PHY_LAYER_STARTED")
      BY <1>a, <1>b, <2>1, OrderedTail, Tasks DEF Boxes, InOrder, MacEarly
    <3>2. Cnt(mbox'["LINK_PHY"], {"FRAME_SEND_REQ", "FRAME_SEND_TO"})
            = Cnt(mbox["LINK_PHY"], {"FRAME_SEND_REQ", "FRAME_SEND_TO"})
      BY <1>d, <2>5 DEF One
    <3>. QED  BY <1>b, <2>1, <2>3, <3>1, <3>2 DEF InOrder
  <2>. QED  BY <2>6, <2>7, <2>8, <2>9 DEF IInv
<1>2. CASE MacStart
  <2> DEFINE m == [sig |-> "MAC_LAYER_STARTED"]
  <2>1. /\ box # <<>> /\ Head(box).sig = "PHY_LAYER_STARTED" /\ fsm["LINK_MAC"] = "init"
        /\ pduFifo' = <<>> /\ macSend' = [macSend EXCEPT !.state = "IDLE", !.seq = 0]
        /\ \E s \in 0 .. MacSeqMod - 1 : macRev' = [macRev EXCEPT !.state = "IDLE", !.seq = s]
        /\ fsm' = [fsm EXCEPT !["LINK_MAC"] = "handle"]
        /\ Finish("LINK_MAC", Post("LINK", m))
        /\ UNCHANGED <<pool, timer, due, line, fatal>>
    BY <1>2 DEF MacStart, Handling
  <2>2. m \in LinkMsgs /\ m.sig = "MAC_LAYER_STARTED"
    BY Posted
  <2> HIDE DEF m
  <2>3. /\ Boxes' /\ mbox'["LINK"] = Append(mbox["LINK"], m) /\ mbox'["LINK_PHY"] = mbox["LINK_PHY"]
        /\ Loses(mbox'["LINK_MAC"], mbox["LINK_MAC"], Head(box))
        /\ Gains(mbox'["LINK"], mbox["LINK"], m)
    <3>1. "LINK" \in Task \ {"LINK_MAC"} /\ "LINK_PHY" \in Task \ {"LINK_MAC", "LINK"}
          /\ "LINK_MAC" \in Task /\ m \in MsgsOf("LINK")
      BY <2>2, Tasks
    <3>. QED  BY <1>a, <2>1, <3>1, FinishPost
  <2>4. \A S : Cnt(mbox'["LINK_MAC"], S) = Cnt(mbox["LINK_MAC"], S) - One("PHY_LAYER_STARTED" \in S)
    BY <2>1, <2>3 DEF Loses
  <2>5. \A S : Cnt(mbox'["LINK"], S) = Cnt(mbox["LINK"], S) + One("MAC_LAYER_STARTED" \in S)
    BY <2>2, <2>3 DEF Gains
  <2>6. /\ macSend' \in MacSender /\ macSend'.pdu = macSend.pdu /\ macSend'.state = "IDLE"
        /\ macRev' \in MacReceiver /\ macRev'.state = "IDLE"
    <3>1. 0 \in 0 .. MacSeqMod - 1
      BY BoundsAreNat
    <3>2. macSend' \in MacSender /\ macSend'.pdu = macSend.pdu /\ macSend'.state = "IDLE"
      BY <1>a, <2>1, <3>1 DEF TypeOK, MacSender
    <3>3. macRev' \in MacReceiver /\ macRev'.state = "IDLE"
      BY <1>a, <2>1 DEF TypeOK, MacReceiver
    <3>. QED  BY <3>2, <3>3
  <2>7. /\ fsm' \in [Task -> {"init", "handle"}] /\ fsm'["LINK_MAC"] = "handle"
        /\ fsm'["LINK"] = fsm["LINK"] /\ fsm'["LINK_PHY"] = fsm["LINK_PHY"]
    BY <1>a, <2>1, Tasks DEF TypeOK
  <2>8. Types'
    <3>1. pduFifo' \in Seq(Pdu) /\ Len(pduFifo') <= FifoSize
      BY <2>1, Numbers
    <3>. QED  BY <1>a, <1>c, <2>1, <2>3, <2>6, <2>7, <3>1 DEF Types, TypeOK
  <2>9. Unsent'
    BY <1>b, <1>c, <1>d, <2>1, <2>3, <2>4, <2>6 DEF Unsent, One
  <2>10. Dormant' /\ Armed'
    BY <1>b, <1>c, <2>1, <2>3, <2>6, <2>7 DEF Dormant, Armed
  <2>11. Handshake'
    <3>1. /\ Cnt(mbox'["LINK"], {"MAC_LAYER_STARTED"}) = Cnt(mbox["LINK"], {"MAC_LAYER_STARTED"}) + 1
          /\ Cnt(mbox'["LINK"], {"INIT"}) = Cnt(mbox["LINK"], {"INIT"})
          /\ Cnt(mbox'["LINK_MAC"], {"INIT"}) = Cnt(mbox["LINK_MAC"], {"INIT"})
          /\ Cnt(mbox'["LINK_MAC"], {"PHY_LAYER_STARTED"}) = Cnt(mbox["LINK_MAC"], {"PHY_LAYER_STARTED"}) - 1
      BY <1>d, <2>4, <2>5 DEF One
    <3>2. Inits' = Inits /\ Inits \in Nat
      BY <1>d, <2>3, <3>1 DEF Inits
    <3>3. Cnt(mbox["LINK_MAC"], {"PHY_LAYER_STARTED"}) # 0
      BY <1>a, <2>1, HeadCounts, Tasks DEF Boxes
    <3>. QED  BY <1>b, <1>d, <2>1, <2>7, <3>1, <3>2, <3>3 DEF Handshake, One
  <2>12. InOrder'
    <3>1. fsm["LINK"] = "init" => Ordered(mbox'["LINK"], LinkEarly, "MAC_LAYER_STARTED")
      BY <1>a, <1>b, <2>2, <2>3, LinkOrder DEF LinkEarly
    <3>. QED  BY <1>b, <2>3, <2>7, <3>1 DEF InOrder
  <2>. QED  BY <2>8, <2>9, <2>10, <2>11, <2>12 DEF IInv
<1>3. CASE MacDrop
  <2>1. box # <<>> /\ Head(box).sig \notin {"INIT", "PHY_LAYER_STARTED"} /\ fsm["LINK_MAC"] = "init"
    BY <1>3 DEF MacDrop, Drop
  <2>2. Head(box).sig \in MacEarly
    BY <1>a, <1>b, <2>1, OrderedTail, Tasks DEF Boxes, InOrder, MacEarly
  <2>. QED  BY <2>1, <2>2 DEF MacEarly
<1>4. CASE MacSendReq
  <2>1. MacHandling("FRAME_SEND_REQ") /\ macRev' = macRev
    BY <1>4 DEF MacSendReq
  <2>2. box # <<>> /\ Head(box).sig = "FRAME_SEND_REQ" /\ fsm["LINK_MAC"] = "handle"
    BY <2>1 DEF MacHandling, Handling
  <2>3. MacMsg.pdu \in Pdu
    BY <1>a, <2>2, HeadIsMsg, MsgFields, Tasks DEF MacMsg
  <2>4. CASE macSend.state = "IDLE"
    <3> DEFINE n == PduMsg("FRAME_SEND_START", MacMsg.pdu)
    <3>1. /\ macSend' = [macSend EXCEPT !.state = "SENDING"]
          /\ Finish("LINK_MAC", Post("LINK_MAC", n))
          /\ UNCHANGED <<fsm, pool, timer, due, line, fatal, pduFifo>>
      BY <1>4, <2>4 DEF MacSendReq
    <3>2. n \in MacMsgs /\ n.sig = "FRAME_SEND_START"
      BY <2>3, Posted DEF PduMsg
    <3> HIDE DEF n
    <3>3. /\ Boxes' /\ Handshake' /\ InOrder'
          /\ mbox'["LINK"] = mbox["LINK"] /\ mbox'["LINK_PHY"] = mbox["LINK_PHY"]
          /\ \A S : Cnt(mbox'["LINK_MAC"], S) = Cnt(mbox["LINK_MAC"], S)
                                               - One("FRAME_SEND_REQ" \in S) + One(n.sig \in S)
      BY <2>1, <3>1, <3>2, MacStarts DEF Openers
    <3>4. macSend' \in MacSender /\ macSend'.pdu = macSend.pdu
      BY <1>a, <3>1 DEF TypeOK, MacSender
    <3>5. Types'
      BY <1>a, <1>c, <2>1, <3>1, <3>3, <3>4 DEF Types, TypeOK
    <3>6. Unsent' /\ Dormant' /\ Armed'
      BY <1>b, <1>c, <1>d, <2>1, <2>2, <3>1, <3>2, <3>3, <3>4 DEF Unsent, Dormant, Armed, One
    <3>. QED  BY <3>3, <3>5, <3>6 DEF IInv
  <2>5. CASE macSend.state = "SENDING" /\ Len(pduFifo) < FifoSize
    <3>1. /\ pduFifo' = Append(pduFifo, MacMsg.pdu) /\ Finish("LINK_MAC", NoPost)
          /\ UNCHANGED <<fsm, pool, timer, due, line, fatal, macSend>>
      <4>1. ~(Len(pduFifo) = FifoSize)
        BY <2>5, Numbers
      <4>. QED  BY <1>4, <2>5, <4>1 DEF MacSendReq
    <3>2. /\ Boxes' /\ Handshake' /\ InOrder'
          /\ mbox'["LINK"] = mbox["LINK"] /\ mbox'["LINK_PHY"] = mbox["LINK_PHY"]
          /\ \A S : Cnt(mbox'["LINK_MAC"], S) = Cnt(mbox["LINK_MAC"], S) - One("FRAME_SEND_REQ" \in S)
      BY <2>1, <3>1, MacFinishes DEF Openers
    <3>3. pduFifo' \in Seq(Pdu) /\ Len(pduFifo') <= FifoSize
      <4>1. pduFifo \in Seq(Pdu)
        BY <1>a DEF TypeOK
      <4>2. pduFifo' \in Seq(Pdu) /\ Len(pduFifo') = Len(pduFifo) + 1 /\ Len(pduFifo) \in Nat
        BY <2>3, <3>1, <4>1
      <4>. QED  BY <2>5, <4>2, Numbers
    <3>4. Types'
      BY <1>a, <1>c, <2>1, <3>1, <3>2, <3>3 DEF Types, TypeOK
    <3>5. Unsent' /\ Dormant' /\ Armed'
      <4>1. /\ Cnt(mbox'["LINK_MAC"], {"FRAME_SEND_DONE", "FRAME_SEND_ERR", "FRAME_SEND_TO"})
                 = Cnt(mbox["LINK_MAC"], {"FRAME_SEND_DONE", "FRAME_SEND_ERR", "FRAME_SEND_TO"})
            /\ Cnt(mbox'["LINK_MAC"], {"FRAME_REV_TO"}) = Cnt(mbox["LINK_MAC"], {"FRAME_REV_TO"})
        BY <1>d, <3>2 DEF One
      <4>. QED  BY <1>b, <1>c, <2>1, <2>2, <3>1, <3>2, <4>1 DEF Unsent, Dormant, Armed
    <3>. QED  BY <3>2, <3>4, <3>5 DEF IInv
  <2>6. CASE macSend.state = "SENDING" /\ Len(pduFifo) = FifoSize
    <3>1. ~(Len(pduFifo) < FifoSize)
      BY <2>6, Numbers
    <3>. QED  BY <1>4, <1>c, <2>6, <3>1, FatalKeeps DEF MacSendReq, Fatal
  <2>. QED  BY <1>4, <2>4, <2>5, <2>6 DEF MacSendReq
<1>5. CASE MacSendStart
  <2> DEFINE s == [macSend EXCEPT !.retry = 0, !.pdu = MacMsg.pdu, !.seq = (@ + 1) % MacSeqMod,
                                  !.frame = [seq |-> macSend.seq, fidx |-> 0,
                                             fnum |-> pool[MacMsg.pdu]]]
  <2>1. MacHandling("FRAME_SEND_START") /\ macRev' = macRev
    BY <1>5 DEF MacSendStart
  <2>2. box # <<>> /\ Head(box).sig = "FRAME_SEND_START"
    BY <2>1 DEF MacHandling, Handling
  <2>3. MacMsg.pdu \in Pdu
    BY <1>a, <2>2, HeadIsMsg, MsgFields, Tasks DEF MacMsg
  <2>4. CASE link_mac_frame_send_req(s)
    <3>1. s \in MacSender /\ s.pdu # None
      <4>1. /\ macSend \in MacSender /\ macSend.seq \in 0 .. MacSeqMod - 1
            /\ pool[MacMsg.pdu] \in 0..MaxFrames /\ MacMsg.pdu # None
        BY <1>a, <2>3, NoneIsNoPdu DEF TypeOK, MacSender
      <4>2. (macSend.seq + 1) % MacSeqMod \in 0 .. MacSeqMod - 1
        <5>1. macSend.seq + 1 \in Nat
          BY <4>1, BoundsAreNat
        <5>. QED  BY <5>1, Numbers
      <4>3. [seq |-> macSend.seq, fidx |-> 0, fnum |-> pool[MacMsg.pdu]] \in Frame
        BY <4>1 DEF Frame
      <4>4. 0 \in Counter
        BY DEF Counter
      <4>. QED  BY <2>3, <4>1, <4>2, <4>3, <4>4 DEF MacSender
    <3> HIDE DEF s
    <3>. QED  BY <1>c, <2>1, <2>4, <3>1, MacTransmitsIInv
  <2>5. CASE ~link_mac_frame_send_req(s)
    BY <1>5, <1>c, <2>5, FatalKeeps DEF MacSendStart, Fatal
  <2>. QED  BY <2>4, <2>5
<1>6. CASE MacSendDone
  <2> DEFINE s == [macSend EXCEPT !.frame.fidx = @ + 1]
  <2>1. MacHandling("FRAME_SEND_DONE") /\ macRev' = macRev
    BY <1>6 DEF MacSendDone
  <2>2. macSend.pdu # None
    BY <2>1, MacHadPdu
  <2>3. s \in MacSender /\ s.pdu # None
    <3> DEFINE f == [macSend.frame EXCEPT !.fidx = @ + 1]
    <3>1. macSend \in MacSender /\ f \in Frame
      <4>1. macSend \in MacSender /\ macSend.frame \in Frame
        BY <1>a DEF TypeOK, MacSender
      <4>2. \A g \in Frame : [g EXCEPT !.fidx = @ + 1] \in Frame
        BY DEF Frame
      <4>. QED  BY <4>1, <4>2
    <3>2. s = [macSend EXCEPT !.frame = f]
      BY <3>1
    <3> HIDE DEF f, s
    <3>. QED  BY <2>2, <3>1, <3>2 DEF MacSender
  <2>4. \/ link_mac_frame_send_req(s)
        \/ timer_remove_attr(MacSendTo) /\ link_mac_frame_send_end(s, "SEND_DONE")
        \/ /\ timer_remove_attr(MacSendTo) /\ Finish("LINK_MAC", NoPost)
           /\ UNCHANGED <<fsm, pool, due, line, fatal, macSend, pduFifo>>
    BY <1>6 DEF MacSendDone
  <2> HIDE DEF s
  <2>5. CASE link_mac_frame_send_req(s)
    BY <1>c, <2>1, <2>3, <2>5, MacTransmitsIInv
  <2>6. CASE timer_remove_attr(MacSendTo) /\ link_mac_frame_send_end(s, "SEND_DONE")
    <3>1. timer' = [timer EXCEPT ![MacSendTo] = 0]
      BY <2>6 DEF timer_remove_attr
    <3>. QED  BY <1>c, <2>1, <2>3, <2>6, <3>1, MacEndsIInv
  <2>7. CASE /\ timer_remove_attr(MacSendTo) /\ Finish("LINK_MAC", NoPost)
             /\ UNCHANGED <<fsm, pool, due, line, fatal, macSend, pduFifo>>
    <3>1. timer' = [timer EXCEPT ![MacSendTo] = 0]
      BY <2>7 DEF timer_remove_attr
    <3>2. /\ Boxes' /\ Handshake' /\ InOrder' /\ mbox'["LINK_PHY"] = mbox["LINK_PHY"]
          /\ \A S : Cnt(mbox'["LINK_MAC"], S) = Cnt(mbox["LINK_MAC"], S) - One("FRAME_SEND_DONE" \in S)
      BY <2>1, <2>7, MacFinishes DEF Openers
    <3>3. /\ timer' \in [TimerKey -> 0..MacTo] /\ fsm["LINK_MAC"] = "handle"
          /\ timer'[PhySendTo] = timer[PhySendTo] /\ timer'[MacRevTo] = timer[MacRevTo]
      BY <1>a, <2>1, <3>1, TimerCleared, Tasks DEF TypeOK, MacHandling, Handling
    <3>4. Types'
      BY <1>a, <1>c, <2>1, <2>7, <3>2, <3>3 DEF Types, TypeOK
    <3>5. Unsent' /\ Dormant' /\ Armed'
      BY <1>b, <1>c, <1>d, <2>1, <2>2, <2>7, <3>2, <3>3 DEF Unsent, Dormant, Armed, One
    <3>. QED  BY <3>2, <3>4, <3>5 DEF IInv
  <2>. QED  BY <2>4, <2>5, <2>6, <2>7
<1>7. ASSUME NEW sig \in {"FRAME_SEND_ERR", "FRAME_SEND_TO"}, MacHandling(sig), macRev' = macRev,
             Resend \/ (Abandon /\ timer' \in {timer, [timer EXCEPT ![MacSendTo] = 0]})
      PROVE  IInv'
  <2> DEFINE again == [macSend EXCEPT !.retry = Increment(@), !.frame.fidx = 0]
             given == [macSend EXCEPT !.retry = Increment(@)]
  <2>1. macSend.pdu # None
    BY <1>7, MacHadPdu
  <2>2. Increment(macSend.retry) \in Counter
    BY <1>a, Numbers DEF TypeOK, MacSender
  <2>3. again \in MacSender /\ again.pdu # None /\ given \in MacSender /\ given.pdu # None
    BY <1>a, <2>1, <2>2 DEF TypeOK, MacSender, Frame
  <2>4. CASE Resend
    <3>1. link_mac_frame_send_req(again)
      BY <2>4 DEF Resend
    <3> HIDE DEF again, given
    <3>. QED  BY <1>7, <1>c, <2>3, <3>1, MacTransmitsIInv
  <2>5. CASE Abandon /\ timer' \in {timer, [timer EXCEPT ![MacSendTo] = 0]}
    <3>1. link_mac_frame_send_end(given, "SEND_ERR")
      BY <2>5 DEF Abandon
    <3> HIDE DEF again, given
    <3>. QED  BY <1>7, <1>c, <2>3, <2>5, <3>1, MacEndsIInv
  <2>. QED  BY <1>7, <2>4, <2>5
<1>8. CASE MacSendErr
  BY <1>7, <1>8 DEF MacSendErr, timer_remove_attr
<1>9. CASE MacSendTimeout
  BY <1>7, <1>9 DEF MacSendTimeout
<1>10. CASE MacFrameRev
  <2>1. MacHandling("FRAME_REV") /\ UNCHANGED <<macSend, pduFifo>>
    BY <1>10 DEF MacFrameRev
  <2>2. box # <<>> /\ Head(box).sig = "FRAME_REV" /\ fsm["LINK_MAC"] = "handle"
    BY <2>1 DEF MacHandling, Handling
  <2>3. MacMsg.frame \in AnyFrame
    BY <1>a, <2>2, HeadIsMsg, MsgFields, Tasks DEF MacMsg
  <2>4. CASE Opens
    <3>1. CASE FreePdu = {}
      BY <1>10, <1>c, <2>1, <2>4, <3>1, FatalKeeps DEF MacFrameRev, Fatal, Opens, Continues
    <3>2. CASE FreePdu # {}
      <4>1. PICK p \in FreePdu :
              /\ pool' = [pool EXCEPT ![p] = 1]
              /\ Accept([state |-> "RECEIVING", pdu |-> p, seq |-> MacMsg.frame.seq])
              /\ UNCHANGED <<fsm, due, line, fatal>>
        BY <1>10, <2>4, <3>2 DEF MacFrameRev, Opens, Continues
      <4> DEFINE r == [state |-> "RECEIVING", pdu |-> p, seq |-> MacMsg.frame.seq]
      <4>2. r \in MacReceiver /\ r.pdu # None /\ Accept(r)
        BY <2>3, <4>1, NoneIsNoPdu DEF FreePdu, MacReceiver, AnyFrame
      <4>3. pool' \in [Pdu -> 0..MaxFrames]
        BY <1>a, <4>1, BoundsAreNat DEF FreePdu, TypeOK
      <4> HIDE DEF r
      <4>. QED  BY <1>c, <2>1, <4>1, <4>2, <4>3, MacAcceptsIInv
    <3>. QED  BY <3>1, <3>2
  <2>5. CASE Continues
    <3>1. Accept(macRev) /\ UNCHANGED <<fsm, pool, due, line, fatal>>
      BY <1>10, <2>5 DEF MacFrameRev, Opens, Continues
    <3>2. macRev \in MacReceiver /\ macRev.pdu # None /\ pool' \in [Pdu -> 0..MaxFrames]
      BY <1>a, <2>5, <3>1, NoneIsNoPdu DEF TypeOK, Continues
    <3>. QED  BY <1>c, <2>1, <3>1, <3>2, MacAcceptsIInv
  <2>6. CASE ~Opens /\ ~Continues
    <3>1. Finish("LINK_MAC", NoPost) /\ UNCHANGED <<fsm, pool, timer, due, line, fatal, macRev>>
      BY <1>10, <2>6 DEF MacFrameRev
    <3>2. /\ Boxes' /\ Handshake' /\ InOrder' /\ mbox'["LINK_PHY"] = mbox["LINK_PHY"]
          /\ \A S : Cnt(mbox'["LINK_MAC"], S) = Cnt(mbox["LINK_MAC"], S) - One("FRAME_REV" \in S)
      BY <2>1, <3>1, MacFinishes DEF Openers
    <3>3. Types'
      BY <1>a, <1>c, <2>1, <3>1, <3>2 DEF Types, TypeOK
    <3>4. Unsent' /\ Dormant' /\ Armed'
      BY <1>b, <1>c, <1>d, <2>1, <3>1, <3>2 DEF Unsent, Dormant, Armed, One
    <3>. QED  BY <3>2, <3>3, <3>4 DEF IInv
  <2>. QED  BY <2>4, <2>5, <2>6
<1>11. CASE MacRevTimeout
  <2>1. MacHandling("FRAME_REV_TO") /\ UNCHANGED <<macSend, pduFifo>>
    BY <1>11 DEF MacRevTimeout
  <2>2. fsm["LINK_MAC"] = "handle"
    BY <2>1 DEF MacHandling, Handling
  <2>3. CASE macRev.state = "RECEIVING" /\ pool[macRev.pdu] = 0
    BY <1>11, <1>c, <2>1, <2>3, FatalKeeps DEF MacRevTimeout, Fatal
  <2>4. CASE ~(macRev.state = "RECEIVING" /\ pool[macRev.pdu] = 0)
    <3>1. /\ Finish("LINK_MAC", NoPost) /\ UNCHANGED <<fsm, timer, due, line, fatal>>
          /\ \/ /\ pool' = [pool EXCEPT ![macRev.pdu] = 0]
                /\ macRev' = [macRev EXCEPT !.state = "IDLE", !.pdu = None]
             \/ UNCHANGED <<pool, macRev>> /\ macRev.state = "IDLE"
      BY <1>11, <2>4 DEF MacRevTimeout
    <3>2. /\ Boxes' /\ Handshake' /\ InOrder' /\ mbox'["LINK_PHY"] = mbox["LINK_PHY"]
          /\ \A S : Cnt(mbox'["LINK_MAC"], S) = Cnt(mbox["LINK_MAC"], S) - One("FRAME_REV_TO" \in S)
      BY <2>1, <3>1, MacFinishes DEF Openers
    <3>3. macRev' \in MacReceiver /\ macRev'.state = "IDLE" /\ pool' \in [Pdu -> 0..MaxFrames]
      <4>1. macRev' \in MacReceiver /\ macRev'.state = "IDLE"
        BY <1>a, <3>1 DEF TypeOK, MacReceiver
      <4>2. pool \in [Pdu -> 0..MaxFrames] /\ 0 \in 0..MaxFrames
        BY <1>a, BoundsAreNat DEF TypeOK
      <4>3. pool' \in [Pdu -> 0..MaxFrames]
        BY <3>1, <4>2
      <4>. QED  BY <4>1, <4>3
    <3>4. Types'
      BY <1>a, <1>c, <2>1, <3>1, <3>2, <3>3 DEF Types, TypeOK
    <3>5. Unsent' /\ Dormant' /\ Armed'
      BY <1>b, <1>c, <1>d, <2>1, <2>2, <3>1, <3>2, <3>3 DEF Unsent, Dormant, Armed, One
    <3>. QED  BY <3>2, <3>4, <3>5 DEF IInv
  <2>. QED  BY <2>3, <2>4
<1>. QED  BY <1>1, <1>2, <1>3, <1>4, <1>5, <1>6, <1>8, <1>9, <1>10, <1>11 DEF MacStep, MacNext

-----------------------------------------------------------------------------
(* The LINK task. *)
LEMMA LinkIInv ==
  ASSUME IInv, LinkStep
  PROVE  IInv'
<1> DEFINE box == mbox["LINK"]
<1>a. TypeOK /\ Boxes /\ line \in Seq(PhyFrame) /\ (macRev.state = "RECEIVING" => macRev.pdu \in Pdu)
  BY DEF IInv, Types
<1>b. Unsent /\ Handshake /\ InOrder /\ Dormant /\ Armed
  BY DEF IInv
<1>c. UNCHANGED <<phy, macSend, pduFifo, macRev, late>>
  BY DEF LinkStep, macVars
<1>d. \A S : /\ Cnt(mbox["LINK"], S) \in Nat
            /\ Cnt(mbox["LINK_MAC"], S) \in Nat
            /\ Cnt(mbox["LINK_PHY"], S) \in Nat
  BY <1>a, BoxFacts, Tasks
<1>1. CASE LinkInit
  <2> DEFINE m == [sig |-> "INIT"]
  <2>1. /\ box # <<>> /\ Head(box).sig = "INIT" /\ fsm["LINK"] = "init"
        /\ pool' = [p \in Pdu |-> 0] /\ Finish("LINK", Post("LINK_MAC", m))
        /\ UNCHANGED <<fsm, timer, due, line, fatal>>
    BY <1>1 DEF LinkInit, Handling
  <2>2. m \in MacMsgs /\ m.sig = "INIT"
    BY Posted
  <2> HIDE DEF m
  <2>3. /\ Boxes' /\ mbox'["LINK_MAC"] = Append(mbox["LINK_MAC"], m)
        /\ mbox'["LINK"] = Tail(box) /\ mbox'["LINK_PHY"] = mbox["LINK_PHY"]
        /\ Loses(mbox'["LINK"], mbox["LINK"], Head(box))
        /\ Gains(mbox'["LINK_MAC"], mbox["LINK_MAC"], m)
    BY <1>a, <2>1, <2>2, FinishPost, Tasks
  <2>4. \A S : Cnt(mbox'["LINK"], S) = Cnt(mbox["LINK"], S) - One("INIT" \in S)
    BY <2>1, <2>3 DEF Loses
  <2>5. \A S : Cnt(mbox'["LINK_MAC"], S) = Cnt(mbox["LINK_MAC"], S) + One("INIT" \in S)
    BY <2>2, <2>3 DEF Gains
  <2>6. Types'
    <3>1. pool' \in [Pdu -> 0..MaxFrames]
      BY <2>1, BoundsAreNat
    <3>. QED  BY <1>a, <1>c, <2>1, <2>3, <3>1 DEF Types, TypeOK
  <2>7. Unsent' /\ Dormant' /\ Armed'
    <3>1. /\ Cnt(mbox'["LINK_MAC"], {"FRAME_SEND_DONE", "FRAME_SEND_ERR", "FRAME_SEND_TO"})
               = Cnt(mbox["LINK_MAC"], {"FRAME_SEND_DONE", "FRAME_SEND_ERR", "FRAME_SEND_TO"})
          /\ Cnt(mbox'["LINK_MAC"], {"FRAME_REV_TO"}) = Cnt(mbox["LINK_MAC"], {"FRAME_REV_TO"})
      BY <1>d, <2>5 DEF One
    <3>. QED  BY <1>b, <1>c, <2>1, <2>3, <3>1 DEF Unsent, Dormant, Armed
  <2>8. Handshake'
    <3>1. /\ Cnt(mbox'["LINK"], {"INIT"}) = Cnt(mbox["LINK"], {"INIT"}) - 1
          /\ Cnt(mbox'["LINK_MAC"], {"INIT"}) = Cnt(mbox["LINK_MAC"], {"INIT"}) + 1
          /\ Cnt(mbox'["LINK_MAC"], {"PHY_LAYER_STARTED"}) = Cnt(mbox["LINK_MAC"], {"PHY_LAYER_STARTED"})
          /\ Cnt(mbox'["LINK"], {"MAC_LAYER_STARTED"}) = Cnt(mbox["LINK"], {"MAC_LAYER_STARTED"})
      BY <1>d, <2>4, <2>5 DEF One
    <3>2. Inits' = Inits
      BY <1>d, <2>3, <3>1 DEF Inits
    <3>. QED  BY <1>b, <2>1, <2>3, <3>1, <3>2 DEF Handshake
  <2>9. InOrder'
    <3>1. Ordered(Tail(box), LinkEarly, "MAC_LAYER_STARTED")
      BY <1>a, <1>b, <2>1, OrderedTail, Tasks DEF Boxes, InOrder, LinkEarly
    <3>2. fsm["LINK_MAC"] = "init" => Ordered(mbox'["LINK_MAC"], MacEarly, "PHY_LAYER_STARTED")
      BY <1>a, <1>b, <2>2, <2>3, MacOrder DEF MacEarly
    <3>. QED  BY <1>b, <2>1, <2>3, <3>1, <3>2 DEF InOrder
  <2>. QED  BY <2>6, <2>7, <2>8, <2>9 DEF IInv
<1>2. CASE LinkStart
  <2>1. /\ box # <<>> /\ Head(box).sig = "MAC_LAYER_STARTED" /\ fsm["LINK"] = "init"
        /\ fsm' = [fsm EXCEPT !["LINK"] = "handle"] /\ Finish("LINK", NoPost)
        /\ UNCHANGED <<pool, timer, due, line, fatal>>
    BY <1>2 DEF LinkStart, Handling
  <2>2. /\ Boxes' /\ mbox'["LINK_MAC"] = mbox["LINK_MAC"] /\ mbox'["LINK_PHY"] = mbox["LINK_PHY"]
        /\ Loses(mbox'["LINK"], mbox["LINK"], Head(box))
    BY <1>a, <2>1, FinishNoPost, Tasks
  <2>3. \A S : Cnt(mbox'["LINK"], S) = Cnt(mbox["LINK"], S) - One("MAC_LAYER_STARTED" \in S)
    BY <2>1, <2>2 DEF Loses
  <2>4. /\ fsm' \in [Task -> {"init", "handle"}] /\ fsm'["LINK"] = "handle"
        /\ fsm'["LINK_MAC"] = fsm["LINK_MAC"] /\ fsm'["LINK_PHY"] = fsm["LINK_PHY"]
    BY <1>a, <2>1, Tasks DEF TypeOK
  <2>5. Types'
    BY <1>a, <1>c, <2>1, <2>2, <2>4 DEF Types, TypeOK
  <2>6. Unsent' /\ Dormant' /\ Armed'
    BY <1>b, <1>c, <2>1, <2>2, <2>4 DEF Unsent, Dormant, Armed
  <2>7. Handshake'
    <3>1. /\ Cnt(mbox'["LINK"], {"INIT"}) = Cnt(mbox["LINK"], {"INIT"})
          /\ Cnt(mbox'["LINK"], {"MAC_LAYER_STARTED"}) = Cnt(mbox["LINK"], {"MAC_LAYER_STARTED"}) - 1
      BY <1>d, <2>3 DEF One
    <3>2. Inits' = Inits /\ Inits \in Nat
      BY <1>d, <2>2, <3>1 DEF Inits
    <3>3. Cnt(mbox["LINK"], {"MAC_LAYER_STARTED"}) # 0
      BY <1>a, <2>1, HeadCounts, Tasks DEF Boxes
    <3>. QED  BY <1>b, <1>d, <2>1, <2>2, <2>4, <3>1, <3>2, <3>3 DEF Handshake, One
  <2>8. InOrder'
    BY <1>b, <2>2, <2>4 DEF InOrder
  <2>. QED  BY <2>5, <2>6, <2>7, <2>8 DEF IInv
<1>3. CASE LinkDrop
  <2>1. /\ box # <<>> /\ Head(box).sig \notin {"INIT", "MAC_LAYER_STARTED"} /\ fsm["LINK"] = "init"
        /\ Finish("LINK", NoPost) /\ UNCHANGED <<fsm, pool, timer, due, line, fatal>>
    BY <1>3 DEF LinkDrop, Drop
  <2>2. /\ Head(box).sig = "SEND_MSG" /\ Ordered(Tail(box), LinkEarly, "MAC_LAYER_STARTED")
    <3>1. Ordered(box, LinkEarly, "MAC_LAYER_STARTED") /\ "MAC_LAYER_STARTED" \in LinkEarly
          /\ box \in Seq(AllMsgs)
      BY <1>a, <1>b, <2>1, Tasks DEF InOrder, LinkEarly, Boxes
    <3>2. Head(box).sig \in LinkEarly /\ Ordered(Tail(box), LinkEarly, "MAC_LAYER_STARTED")
      BY <2>1, <3>1, OrderedTail
    <3>. QED  BY <2>1, <3>2 DEF LinkEarly
  <2>3. /\ Boxes' /\ mbox'["LINK_MAC"] = mbox["LINK_MAC"] /\ mbox'["LINK_PHY"] = mbox["LINK_PHY"]
        /\ mbox'["LINK"] = Tail(box) /\ Loses(mbox'["LINK"], mbox["LINK"], Head(box))
    BY <1>a, <2>1, FinishNoPost, Tasks
  <2>4. \A S : Cnt(mbox'["LINK"], S) = Cnt(mbox["LINK"], S) - One("SEND_MSG" \in S)
    BY <2>2, <2>3 DEF Loses
  <2>5. /\ Cnt(mbox'["LINK"], {"INIT"}) = Cnt(mbox["LINK"], {"INIT"})
        /\ Cnt(mbox'["LINK"], {"MAC_LAYER_STARTED"}) = Cnt(mbox["LINK"], {"MAC_LAYER_STARTED"})
    BY <1>d, <2>4 DEF One
  <2>6. Types'
    BY <1>a, <1>c, <2>1, <2>3 DEF Types, TypeOK
  <2>7. Unsent' /\ Dormant' /\ Armed'
    BY <1>b, <1>c, <2>1, <2>3 DEF Unsent, Dormant, Armed
  <2>8. Handshake' /\ InOrder'
    BY <1>b, <2>1, <2>2, <2>3, <2>5 DEF Handshake, Inits, InOrder
  <2>. QED  BY <2>6, <2>7, <2>8 DEF IInv
<1>4. CASE LinkSendMsg
  <2>1. LinkHandling("SEND_MSG") /\ fsm["LINK"] = "handle" /\ box # <<>> /\ Head(box).sig = "SEND_MSG"
    BY <1>4 DEF LinkSendMsg, LinkHandling, Handling
  <2>2. CASE FreePdu = {}
    BY <1>4, <1>c, <2>2, FatalKeeps DEF LinkSendMsg, Fatal
  <2>3. ASSUME NEW p \in FreePdu, pool' = [pool EXCEPT ![p] = LinkMsg.frames],
               Finish("LINK", Post("LINK_MAC", [sig |-> "FRAME_SEND_REQ", pdu |-> p])),
               UNCHANGED <<fsm, timer, due, line, fatal>>
        PROVE  IInv'
    <3> DEFINE m == PduMsg("FRAME_SEND_REQ", p)
    <3>1. m \in MacMsgs /\ m.sig = "FRAME_SEND_REQ" /\ Finish("LINK", Post("LINK_MAC", m))
      BY <2>3, Posted DEF FreePdu, PduMsg
    <3> HIDE DEF m
    <3>2. /\ Boxes' /\ Handshake' /\ InOrder' /\ mbox'["LINK_PHY"] = mbox["LINK_PHY"]
          /\ Gains(mbox'["LINK_MAC"], mbox["LINK_MAC"], m)
      BY <2>1, <2>3, <3>1, LinkSends DEF Openers
    <3>3. \A S : Cnt(mbox'["LINK_MAC"], S) = Cnt(mbox["LINK_MAC"], S) + One("FRAME_SEND_REQ" \in S)
      BY <3>1, <3>2 DEF Gains
    <3>4. Types'
      <4>1. LinkMsg.frames \in 0..MaxFrames
        BY <1>a, <2>1, HeadIsMsg, MsgFields, Tasks DEF LinkMsg
      <4>2. pool' \in [Pdu -> 0..MaxFrames]
        BY <1>a, <2>3, <4>1 DEF TypeOK
      <4>. QED  BY <1>a, <1>c, <2>3, <3>2, <4>2 DEF Types, TypeOK
    <3>5. Unsent' /\ Dormant' /\ Armed'
      <4>1. /\ Cnt(mbox'["LINK_MAC"], {"FRAME_SEND_DONE", "FRAME_SEND_ERR", "FRAME_SEND_TO"})
                 = Cnt(mbox["LINK_MAC"], {"FRAME_SEND_DONE", "FRAME_SEND_ERR", "FRAME_SEND_TO"})
            /\ Cnt(mbox'["LINK_MAC"], {"FRAME_REV_TO"}) = Cnt(mbox["LINK_MAC"], {"FRAME_REV_TO"})
        BY <1>d, <3>3 DEF One
      <4>. QED  BY <1>b, <1>c, <2>3, <3>2, <4>1 DEF Unsent, Dormant, Armed
    <3>. QED  BY <3>2, <3>4, <3>5 DEF IInv
  <2>. QED  BY <1>4, <2>2, <2>3 DEF LinkSendMsg
<1>5. ASSUME NEW sig \in {"SEND_DONE", "SEND_ERR", "REV_MSG"}, LinkHandling(sig),
             NEW code, link_pdu_free(LinkMsg.pdu, code)
      PROVE  IInv'
  <2>1. CASE pool[LinkMsg.pdu] # 0
    <3>1. /\ pool' = [pool EXCEPT ![LinkMsg.pdu] = 0] /\ Finish("LINK", NoPost)
          /\ UNCHANGED <<fsm, timer, due, line, fatal>>
      BY <1>5, <2>1 DEF link_pdu_free
    <3>2. /\ Boxes' /\ Handshake' /\ InOrder' /\ mbox'["LINK_PHY"] = mbox["LINK_PHY"]
          /\ mbox'["LINK_MAC"] = mbox["LINK_MAC"]
      BY <1>5, <3>1, LinkFinishes DEF Openers
    <3>3. pool' \in [Pdu -> 0..MaxFrames]
      <4>1. pool \in [Pdu -> 0..MaxFrames] /\ 0 \in 0..MaxFrames
        BY <1>a, BoundsAreNat DEF TypeOK
      <4>. QED  BY <3>1, <4>1
    <3>4. Types'
      BY <1>a, <1>c, <3>1, <3>2, <3>3 DEF Types, TypeOK
    <3>5. Unsent' /\ Dormant' /\ Armed'
      BY <1>b, <1>c, <3>1, <3>2 DEF Unsent, Dormant, Armed
    <3>. QED  BY <3>2, <3>4, <3>5 DEF IInv
  <2>2. CASE pool[LinkMsg.pdu] = 0
    BY <1>5, <1>c, <2>2, FatalKeeps DEF link_pdu_free, Fatal
  <2>. QED  BY <2>1, <2>2
<1>6. CASE LinkSendDone \/ LinkSendErr \/ LinkRevMsg
  BY <1>5, <1>6 DEF LinkSendDone, LinkSendErr, LinkRevMsg
<1>. QED  BY <1>1, <1>2, <1>3, <1>4, <1>6 DEF LinkStep, LinkNext

-----------------------------------------------------------------------------
(* The client, the peer and the timer thread. *)
LEMMA LateType ==
  ASSUME late \in 0..MaxLate, NEW b \in BOOLEAN, CountLate(b)
  PROVE  late' \in 0..MaxLate
  BY LimitsAreNat DEF CountLate, OneIf

(* A message arrives from outside the stack. *)
LEMMA ComesIInv ==
  ASSUME IInv, NEW t \in {"LINK", "LINK_PHY"}, NEW m \in MsgsOf(t),
         m.sig \in {"SEND_MSG", "FRAME_REV", "FRAME_REV_CS_ERR"},
         mbox' = [mbox EXCEPT ![t] = Append(@, m)],
         UNCHANGED <<fsm, pool, timer, due, phy, macSend, pduFifo, macRev>>,
         late' \in 0..MaxLate, line' \in Seq(PhyFrame), Len(line') <= LineMax
  PROVE  IInv'
<1>a. TypeOK /\ Boxes /\ line \in Seq(PhyFrame) /\ (macRev.state = "RECEIVING" => macRev.pdu \in Pdu)
  BY DEF IInv, Types
<1>b. Unsent /\ Handshake /\ InOrder /\ Dormant /\ Armed
  BY DEF IInv
<1>d. \A S : /\ Cnt(mbox["LINK"], S) \in Nat
            /\ Cnt(mbox["LINK_MAC"], S) \in Nat
            /\ Cnt(mbox["LINK_PHY"], S) \in Nat
  BY <1>a, BoxFacts, Tasks
<1>1. t \in Task /\ (t = "LINK" => m \in LinkMsgs /\ m.sig = "SEND_MSG")
  BY Tasks, MsgFields
<1>2. /\ mbox' = [mbox EXCEPT ![t] = Append(@, m)]
      /\ UNCHANGED <<fsm, pool, timer, due, phy, macSend, pduFifo, macRev>>
  OBVIOUS
<1>3. /\ Boxes' /\ mbox'[t] = Append(mbox[t], m) /\ mbox'["LINK_MAC"] = mbox["LINK_MAC"]
      /\ \A u \in Task \ {t} : mbox'[u] = mbox[u]
      /\ Gains(mbox'[t], mbox[t], m)
  BY <1>a, <1>1, <1>2, BoxAppend, Tasks
<1>4. ASSUME NEW S, m.sig \notin S
      PROVE  /\ Cnt(mbox'["LINK"], S) = Cnt(mbox["LINK"], S)
             /\ Cnt(mbox'["LINK_PHY"], S) = Cnt(mbox["LINK_PHY"], S)
  <2>1. Cnt(mbox'[t], S) = Cnt(mbox[t], S) + 0
    BY <1>3, <1>4 DEF One, Gains
  <2>2. Cnt(mbox'[t], S) = Cnt(mbox[t], S)
    <3>1. Cnt(mbox[t], S) \in Nat
      BY <1>a, <1>1, BoxFacts
    <3>. QED  BY <2>1, <3>1
  <2>3. t = "LINK" => mbox'["LINK_PHY"] = mbox["LINK_PHY"]
    BY <1>3, Tasks
  <2>4. t = "LINK_PHY" => mbox'["LINK"] = mbox["LINK"]
    BY <1>3, Tasks
  <2>. QED  BY <2>2, <2>3, <2>4
<1>5. late' \in 0..MaxLate
  OBVIOUS
<1>7. Types'
  BY <1>a, <1>2, <1>3, <1>5 DEF Types, TypeOK
<1>8. Unsent' /\ Dormant' /\ Armed'
  <2>1. /\ Cnt(mbox'["LINK_PHY"], {"FRAME_SEND_REQ", "FRAME_SEND_TO"})
             = Cnt(mbox["LINK_PHY"], {"FRAME_SEND_REQ", "FRAME_SEND_TO"})
        /\ Cnt(mbox'["LINK_PHY"], {"FRAME_SEND_TO"}) = Cnt(mbox["LINK_PHY"], {"FRAME_SEND_TO"})
    BY <1>4
  <2>. QED  BY <1>b, <1>2, <1>3, <2>1 DEF Unsent, Dormant, Armed
<1>9. Handshake'
  <2>1. /\ Cnt(mbox'["LINK"], {"INIT"}) = Cnt(mbox["LINK"], {"INIT"})
        /\ Cnt(mbox'["LINK_PHY"], {"INIT"}) = Cnt(mbox["LINK_PHY"], {"INIT"})
        /\ Cnt(mbox'["LINK"], {"MAC_LAYER_STARTED"}) = Cnt(mbox["LINK"], {"MAC_LAYER_STARTED"})
    BY <1>4
  <2>. QED  BY <1>b, <1>2, <1>3, <2>1 DEF Handshake, Inits
<1>10. InOrder'
  <2>1. fsm["LINK"] = "init" => Ordered(mbox'["LINK"], LinkEarly, "MAC_LAYER_STARTED")
    <3>1. CASE t = "LINK"
      BY <1>a, <1>b, <1>1, <1>3, <3>1, LinkOrder DEF LinkEarly
    <3>2. CASE t = "LINK_PHY"
      BY <1>b, <1>3, <3>2, Tasks DEF InOrder
    <3>. QED  BY <3>1, <3>2
  <2>2. Cnt(mbox'["LINK_PHY"], {"FRAME_SEND_REQ", "FRAME_SEND_TO"})
          = Cnt(mbox["LINK_PHY"], {"FRAME_SEND_REQ", "FRAME_SEND_TO"})
    BY <1>4
  <2>. QED  BY <1>b, <1>2, <1>3, <2>1, <2>2 DEF InOrder
<1>. QED  BY <1>7, <1>8, <1>9, <1>10 DEF IInv

LEMMA ArrivesIInv ==
  ASSUME IInv, NEW t \in {"LINK", "LINK_PHY"}, NEW m \in MsgsOf(t),
         m.sig \in {"SEND_MSG", "FRAME_REV", "FRAME_REV_CS_ERR"}, Arrives(t, m),
         line' \in Seq(PhyFrame), Len(line') <= LineMax
  PROVE  IInv'
<1>1. late' \in 0..MaxLate
  BY LateType DEF Arrives, IInv, Types, TypeOK, TimerFree
<1>. QED  BY <1>1, ComesIInv DEF Arrives, macVars

LEMMA ClientIInv ==
  ASSUME IInv, ClientSends
  PROVE  IInv'
<1>1. PICK n \in 1..MaxFrames : Arrives("LINK", [sig |-> "SEND_MSG", frames |-> n])
  BY DEF ClientSends
<1> DEFINE m == [sig |-> "SEND_MSG", frames |-> n]
<1>2. /\ m \in MsgsOf("LINK") /\ m.sig = "SEND_MSG"
      /\ line' \in Seq(PhyFrame) /\ Len(line') <= LineMax
  BY Tasks DEF LinkMsgs, ClientSends, IInv, Types, TypeOK
<1>3. Arrives("LINK", m)
  BY <1>1
<1> HIDE DEF m
<1>. QED  BY <1>2, <1>3, ArrivesIInv

LEMMA PeerIInv ==
  ASSUME IInv, PeerHears \/ PeerSends \/ PeerGarbled
  PROVE  IInv'
<1>a. line \in Seq(PhyFrame) /\ Len(line) <= LineMax
  BY DEF IInv, Types, TypeOK
<1>1. ASSUME NEW sig \in {"FRAME_REV", "FRAME_REV_CS_ERR"}, NEW f \in PhyFrame,
             Arrives("LINK_PHY", [sig |-> sig, frame |-> f]),
             line' \in Seq(PhyFrame), Len(line') <= LineMax
      PROVE  IInv'
  <2> DEFINE m == [sig |-> sig, frame |-> f]
  <2>1. m \in MsgsOf("LINK_PHY") /\ m.sig = sig /\ Arrives("LINK_PHY", m)
    BY <1>1, Posted, Tasks
  <2> HIDE DEF m
  <2>. QED  BY <1>1, <2>1, ArrivesIInv
<1>2. CASE PeerHears
  <2>1. line # <<>> /\ line' = Tail(line)
    BY <1>2 DEF PeerHears
  <2>2. Head(line) \in PhyFrame /\ line' \in Seq(PhyFrame) /\ Len(line') <= LineMax
    <3>1. Len(Tail(line)) = Len(line) - 1 /\ Len(line) \in Nat
      BY <1>a, <2>1
    <3>. QED  BY <1>a, <2>1, <3>1, BoundsAreNat
  <2>3. ASSUME NEW type \in {"ACK", "NACK"},
               Arrives("LINK_PHY", [sig |-> "FRAME_REV", frame |-> Answer(type, Head(line).seq)])
        PROVE  IInv'
    <3>1. Answer(type, Head(line).seq) \in PhyFrame
      BY <1>a, <2>2, AnswerType DEF PhyFrame
    <3>. QED  BY <1>1, <2>2, <2>3, <3>1
  <2>4. CASE UNCHANGED <<mbox, fsm, pool, timer, due, fatal, phy, macVars, late>>
    BY <2>2, <2>4 DEF macVars, IInv, Types, TypeOK, Boxes, Unsent, Handshake, Inits, InOrder,
                      Dormant, Armed
  <2>. QED  BY <1>2, <2>3, <2>4 DEF PeerHears
<1>3. CASE PeerSends
  <2>1. PICK f \in PeerFrame :
          Arrives("LINK_PHY", [sig |-> "FRAME_REV", frame |-> [type |-> "REQ", seq |-> 0, mac |-> f]])
    BY <1>3 DEF PeerSends
  <2>2. [type |-> "REQ", seq |-> 0, mac |-> f] \in PhyFrame
    BY PeerFrameIsFrame, BoundsAreNat DEF PhyFrame
  <2>. QED  BY <1>1, <1>3, <1>a, <2>1, <2>2 DEF PeerSends
<1>4. CASE PeerGarbled
  <2>1. Answer("NACK", 0) \in PhyFrame
    BY <1>a, AnswerType, BoundsAreNat
  <2>. QED  BY <1>1, <1>4, <1>a, <2>1 DEF PeerGarbled
<1>. QED  BY <1>2, <1>3, <1>4

(* All the timers count down at once. *)
LEMMA TickedIInv ==
  ASSUME IInv, due = {},
         timer' = [k \in TimerKey |-> IF timer[k] = 0 THEN 0 ELSE timer[k] - 1],
         due' = {k \in TimerKey : timer[k] = 1}, late' \in 0..MaxLate,
         UNCHANGED <<mbox, fsm, pool, line, phy, macSend, pduFifo, macRev>>
  PROVE  IInv'
<1>a. TypeOK /\ Boxes /\ line \in Seq(PhyFrame) /\ (macRev.state = "RECEIVING" => macRev.pdu \in Pdu)
  BY DEF IInv, Types
<1>b. Unsent /\ Handshake /\ InOrder /\ Dormant /\ Armed
  BY DEF IInv
<1>d. \A S : /\ Cnt(mbox["LINK"], S) \in Nat
            /\ Cnt(mbox["LINK_MAC"], S) \in Nat
            /\ Cnt(mbox["LINK_PHY"], S) \in Nat
  BY <1>a, BoxFacts, Tasks
<1>1. /\ due = {} /\ late' \in 0..MaxLate
      /\ timer' = [k \in TimerKey |-> IF timer[k] = 0 THEN 0 ELSE timer[k] - 1]
      /\ due' = {k \in TimerKey : timer[k] = 1}
      /\ UNCHANGED <<mbox, fsm, pool, line, phy, macSend, pduFifo, macRev>>
  OBVIOUS
<1>2. \A k \in TimerKey : /\ timer[k] \in 0..MacTo /\ timer'[k] \in 0..MacTo
                          /\ timer[k] = 0 => timer'[k] = 0 /\ k \notin due'
                          /\ timer[k] # 0 => timer'[k] # 0 \/ k \in due'
  <2> SUFFICES ASSUME NEW k \in TimerKey
               PROVE  /\ timer[k] \in 0..MacTo /\ timer'[k] \in 0..MacTo
                      /\ timer[k] = 0 => timer'[k] = 0 /\ k \notin due'
                      /\ timer[k] # 0 => timer'[k] # 0 \/ k \in due'
    OBVIOUS
  <2>1. timer[k] \in 0..MacTo /\ MacTo \in Nat
    BY <1>a, Numbers DEF TypeOK
  <2>2. timer'[k] = (IF timer[k] = 0 THEN 0 ELSE timer[k] - 1) /\ (k \in due' <=> timer[k] = 1)
    BY <1>1
  <2>. QED  BY <2>1, <2>2
<1>3. timer' \in [TimerKey -> 0..MacTo] /\ due' \subseteq TimerKey
  BY <1>1, <1>2
<1>4. late' \in 0..MaxLate
  BY <1>1
<1>5. Types'
  BY <1>a, <1>1, <1>3, <1>4 DEF Types, TypeOK, Boxes
<1>6. Unsent' /\ Dormant' /\ Armed'
  BY <1>b, <1>1, <1>2, Tasks DEF Unsent, Dormant, Armed
<1>7. Handshake' /\ InOrder'
  BY <1>b, <1>1 DEF Handshake, Inits, InOrder
<1>. QED  BY <1>5, <1>6, <1>7 DEF IInv

LEMMA TickIInv ==
  ASSUME IInv, Tick
  PROVE  IInv'
<1>1. late' \in 0..MaxLate
  BY LateType DEF Tick, IInv, Types, TypeOK
<1>. QED  BY <1>1, TickedIInv DEF Tick, macVars

LEMMA ExpireIInv ==
  ASSUME IInv, NEW k \in TimerKey, Expire(k)
  PROVE  IInv'
<1>a. TypeOK /\ Boxes /\ line \in Seq(PhyFrame) /\ (macRev.state = "RECEIVING" => macRev.pdu \in Pdu)
  BY DEF IInv, Types
<1>b. Unsent /\ Handshake /\ InOrder /\ Dormant /\ Armed
  BY DEF IInv
<1>d. \A S : /\ Cnt(mbox["LINK"], S) \in Nat
            /\ Cnt(mbox["LINK_MAC"], S) \in Nat
            /\ Cnt(mbox["LINK_PHY"], S) \in Nat
  BY <1>a, BoxFacts, Tasks
<1> DEFINE m == [sig |-> k[2]]
           t == k[1]
<1>1. /\ k \in due /\ due' = due \ {k} /\ mbox' = [mbox EXCEPT ![t] = Append(@, m)]
      /\ UNCHANGED <<fsm, pool, timer, line, fatal, phy, macSend, pduFifo, macRev, late>>
  BY DEF Expire, macVars
<1>2. /\ t \in {"LINK_MAC", "LINK_PHY"} /\ m \in MsgsOf(t)
      /\ m.sig \in {"FRAME_SEND_TO", "FRAME_REV_TO"}
      /\ k = PhySendTo => t = "LINK_PHY" /\ m.sig = "FRAME_SEND_TO"
      /\ k = MacSendTo => t = "LINK_MAC" /\ m.sig = "FRAME_SEND_TO"
      /\ k = MacRevTo => t = "LINK_MAC" /\ m.sig = "FRAME_REV_TO"
      /\ k \in {PhySendTo, MacSendTo, MacRevTo}
  BY Posted, Tasks DEF TimerKey, PhySendTo, MacSendTo, MacRevTo
<1> HIDE DEF m, t
<1>3. fsm[t] = "handle"
  BY <1>a, <1>b, <1>1, <1>2, Tasks DEF Dormant, TypeOK
<1>4. t \in Task /\ mbox \in [Task -> Seq(AllMsgs)]
  BY <1>a, <1>2, Tasks DEF Boxes
<1>5. /\ Boxes' /\ mbox'[t] = Append(mbox[t], m) /\ mbox'["LINK"] = mbox["LINK"]
      /\ \A u \in Task \ {t} : mbox'[u] = mbox[u]
      /\ \A S : Cnt(mbox'[t], S) = Cnt(mbox[t], S) + One(m.sig \in S)
  BY <1>a, <1>1, <1>2, <1>4, BoxAppend, Tasks DEF Gains
<1>6. /\ t = "LINK_PHY" => mbox'["LINK_MAC"] = mbox["LINK_MAC"]
      /\ t = "LINK_MAC" => mbox'["LINK_PHY"] = mbox["LINK_PHY"]
  BY <1>5, Tasks
<1>7. Types'
  BY <1>a, <1>1, <1>5 DEF Types, TypeOK
<1>8. CASE k = PhySendTo
  <2>1. \A S : Cnt(mbox'["LINK_PHY"], S) = Cnt(mbox["LINK_PHY"], S) + One("FRAME_SEND_TO" \in S)
    BY <1>2, <1>5, <1>8
  <2>2. Cnt(mbox'["LINK_PHY"], {"FRAME_SEND_TO"}) # 0
    BY <1>d, <2>1 DEF One
  <2>3. Cnt(mbox'["LINK_PHY"], {"INIT"}) = Cnt(mbox["LINK_PHY"], {"INIT"})
    BY <1>d, <2>1 DEF One
  <2>4. macSend.pdu # None
    BY <1>b, <1>1, <1>8 DEF Unsent
  <2>5. Unsent' /\ Dormant' /\ Armed'
    BY <1>b, <1>1, <1>2, <1>6, <1>8, <2>2, <2>4, Tasks DEF Unsent, Dormant, Armed
  <2>6. Handshake' /\ InOrder'
    BY <1>b, <1>1, <1>2, <1>3, <1>5, <1>6, <1>8, <2>3 DEF Handshake, Inits, InOrder
  <2>. QED  BY <1>7, <2>5, <2>6 DEF IInv
<1>9. CASE k = MacSendTo \/ k = MacRevTo
  <2>0. t = "LINK_MAC"
    BY <1>2, <1>9
  <2>1. \A S : Cnt(mbox'["LINK_MAC"], S) = Cnt(mbox["LINK_MAC"], S) + One(m.sig \in S)
    BY <2>0, <1>5
  <2>2. /\ Cnt(mbox'["LINK_MAC"], {"FRAME_REV_TO"})
             = Cnt(mbox["LINK_MAC"], {"FRAME_REV_TO"}) + One(k = MacRevTo)
        /\ Cnt(mbox'["LINK_MAC"], {"INIT"}) = Cnt(mbox["LINK_MAC"], {"INIT"})
        /\ Cnt(mbox'["LINK_MAC"], {"PHY_LAYER_STARTED"}) = Cnt(mbox["LINK_MAC"], {"PHY_LAYER_STARTED"})
    BY <1>2, <1>9, <1>d, <2>1, Tasks DEF One
  <2>3. k = MacSendTo => macSend.pdu # None
    BY <1>b, <1>1 DEF Unsent
  <2>4. k = MacRevTo => Cnt(mbox'["LINK_MAC"], {"FRAME_SEND_DONE", "FRAME_SEND_ERR", "FRAME_SEND_TO"})
                          = Cnt(mbox["LINK_MAC"], {"FRAME_SEND_DONE", "FRAME_SEND_ERR", "FRAME_SEND_TO"})
    BY <1>2, <1>d, <2>1 DEF One
  <2>5. Unsent' /\ Dormant' /\ Armed'
    <3>1. Unsent'
      BY <1>b, <1>1, <1>6, <1>9, <2>0, <2>3, <2>4, Tasks DEF Unsent
    <3>2. Dormant'
      BY <1>b, <1>1, <1>3, <1>9, <2>0, Tasks DEF Dormant
    <3>3. Armed'
      BY <1>b, <1>d, <1>1, <1>6, <1>9, <2>0, <2>2, Tasks DEF Armed, One
    <3>. QED  BY <3>1, <3>2, <3>3
  <2>6. Handshake' /\ InOrder'
    BY <1>b, <1>1, <1>3, <1>5, <1>6, <2>0, <2>2 DEF Handshake, Inits, InOrder
  <2>. QED  BY <1>7, <2>5, <2>6 DEF IInv
<1>. QED  BY <1>2, <1>8, <1>9

-----------------------------------------------------------------------------
LEMMA StutterIInv ==
  ASSUME IInv, UNCHANGED vars
  PROVE  IInv'
BY FatalKeeps DEF vars, baseVars, macVars

LEMMA NextIInv ==
  ASSUME IInv, [Next]_vars
  PROVE  IInv'
BY PhyIInv, MacIInv, LinkIInv, ClientIInv, PeerIInv, TickIInv, ExpireIInv, StutterIInv DEF Next

LEMMA AlwaysIInv == Spec => []IInv
<1>1. Init => IInv
  BY InitIInv
<1>2. IInv /\ [Next]_vars => IInv'
  BY NextIInv
<1>. QED  BY <1>1, <1>2, PTL DEF Spec

(* The counts of the properties are those of the invariant. *)
LEMMA CountIsCnt ==
  ASSUME Boxes, NEW t \in Task, NEW S
  PROVE  Count(t, S) = Cnt(mbox[t], S)
<1>1. mbox[t] \in Seq(AllMsgs)
  BY BoxFacts
<1>2. \A i \in DOMAIN mbox[t] : mbox[t][i] \in AllMsgs
  BY <1>1
<1>3. InMailbox(t, S) = Places(mbox[t], With(S))
  BY <1>1, <1>2 DEF InMailbox, Places, With
<1>. QED  BY <1>3 DEF Count, Cnt, Occ

(* The types of the stack, the sizes of its queues and the range of its timers. *)
THEOREM LinkTypes == Spec => []TypeOK
<1>1. IInv => TypeOK
  BY DEF IInv, Types
<1>. QED  BY <1>1, AlwaysIInv, PTL

(* Nothing that the layers send each other while they start is dropped. *)
THEOREM LinkStartupLossless == Spec => []StartupLossless
<1>1. ASSUME IInv PROVE StartupLossless
  <2>a. TypeOK /\ Boxes /\ InOrder
    BY <1>1 DEF IInv, Types
  <2>1. ASSUME fsm["LINK"] = "init", mbox["LINK"] # <<>>
        PROVE  Head(mbox["LINK"]).sig \in LinkEarly
    BY <2>a, <2>1, OrderedTail, Tasks DEF Boxes, InOrder, LinkEarly
  <2>2. ASSUME fsm["LINK_MAC"] = "init", mbox["LINK_MAC"] # <<>>
        PROVE  Head(mbox["LINK_MAC"]).sig \in MacEarly
    BY <2>a, <2>2, OrderedTail, Tasks DEF Boxes, InOrder, MacEarly
  <2>3. ASSUME fsm["LINK_PHY"] = "init", mbox["LINK_PHY"] # <<>>
        PROVE  Head(mbox["LINK_PHY"]).sig \in {"INIT", "FRAME_REV", "FRAME_REV_CS_ERR"}
    <3>1. Head(mbox["LINK_PHY"]).sig \notin {"FRAME_SEND_REQ", "FRAME_SEND_TO"}
      BY <2>a, <2>3, HeadCounts, Tasks DEF Boxes, InOrder
    <3>. QED  BY <2>a, <2>3, <3>1, HeadIsMsg, MsgFields, Tasks
  <2>. QED  BY <2>1, <2>2, <2>3 DEF StartupLossless, Outside, Task, LinkEarly, MacEarly
<1>. QED  BY <1>1, AlwaysIInv, PTL

(* A transmission of the PHY layer has its timeout to come, in any order of events. *)
THEOREM LinkPhyArmed == Spec => []PhyArmed
<1>1. ASSUME IInv PROVE PhyArmed
  <2>1. Boxes /\ Armed /\ PhySendTo[1] = "LINK_PHY" /\ PhySendTo[2] = "FRAME_SEND_TO"
    BY <1>1 DEF IInv, Types, PhySendTo
  <2>2. Count("LINK_PHY", {"FRAME_SEND_TO"}) = Cnt(mbox["LINK_PHY"], {"FRAME_SEND_TO"})
    BY <2>1, CountIsCnt, Tasks
  <2>. QED  BY <2>1, <2>2 DEF PhyArmed, Coming, Armed
<1>. QED  BY <1>1, AlwaysIInv, PTL

(* A PDU that is received in part has its timeout to come. *)
THEOREM LinkRevArmed == Spec => []RevArmed
<1>1. ASSUME IInv PROVE RevArmed
  <2>1. Boxes /\ Armed /\ MacRevTo[1] = "LINK_MAC" /\ MacRevTo[2] = "FRAME_REV_TO"
    BY <1>1 DEF IInv, Types, MacRevTo
  <2>2. Count("LINK_MAC", {"FRAME_REV_TO"}) = Cnt(mbox["LINK_MAC"], {"FRAME_REV_TO"})
    BY <2>1, CountIsCnt, Tasks
  <2>. QED  BY <2>1, <2>2 DEF RevArmed, Coming, Armed
<1>. QED  BY <1>1, AlwaysIInv, PTL

-----------------------------------------------------------------------------
(* While the timer thread and the tasks do not overtake each other: every PDU
   has one owner, one frame is in flight, the process only stops for want of a
   PDU, and the timeout of the MAC layer outlasts the retries of the PHY layer. *)
(* The sender holds a PDU: it is SENDING and has taken the PDU to start with. *)
Holds == macSend.state = "SENDING" /\ Cnt(mbox["LINK_MAC"], {"FRAME_SEND_START"}) = 0

(* The owners of a PDU, counted: messages, fifo, sender, receiver. *)
Owned ==
  \A p \in Pdu :
    Car(mbox["LINK"], p) + Car(mbox["LINK_MAC"], p) + Occ(pduFifo, {p})
      + One(Holds /\ macSend.pdu = p) + One(macRev.pdu = p)
    = One(pool[p] # 0)

(* The one frame in flight: asked for, transmitted, or reported. *)
InFlight ==
  Cnt(mbox["LINK_PHY"], {"FRAME_SEND_REQ"}) + One(phy.send = "SENDING")
    + Cnt(mbox["LINK_MAC"], {"FRAME_SEND_DONE", "FRAME_SEND_ERR"})
  = One(Holds)

(* At most one PDU is about to be started, and it is the sender that starts it. *)
Starting ==
  /\ Cnt(mbox["LINK_MAC"], {"FRAME_SEND_START"}) <= 1
  /\ Cnt(mbox["LINK_MAC"], {"FRAME_SEND_START"}) # 0 => macSend.state = "SENDING"

Receiving == macRev.state = "IDLE" <=> macRev.pdu = None

(* Until the MAC layer starts, nothing is in use. *)
Fresh == fsm["LINK_MAC"] = "init" => pduFifo = <<>> /\ \A p \in Pdu : pool[p] = 0

(* A transmission has exactly one timeout: running, expired or posted, and then it
   is what the PHY layer handles next.                                      *)
PhyTimer ==
  /\ One(timer[PhySendTo] # 0) + One(PhySendTo \in due)
       + Cnt(mbox["LINK_PHY"], {"FRAME_SEND_TO"})
     = One(phy.send = "SENDING")
  /\ PhySendTo \in due => mbox["LINK_PHY"] = <<>>
  /\ Cnt(mbox["LINK_PHY"], {"FRAME_SEND_TO"}) # 0 => Head(mbox["LINK_PHY"]).sig = "FRAME_SEND_TO"

(* The timer of the MAC layer runs while it holds a PDU and never expires. *)
MacTimer ==
  /\ timer[MacSendTo] # 0 <=> Holds
  /\ MacSendTo \notin due
  /\ Cnt(mbox["LINK_MAC"], {"FRAME_SEND_TO"}) = 0

(* What the PHY layer may still need for the repetitions after `retry`; the
   timer of the MAC layer leaves at least that much.                        *)
Left(retry) == (MaxRetry + 1 - retry) * PhyTo
Budget ==
  /\ Cnt(mbox["LINK_PHY"], {"FRAME_SEND_REQ"}) # 0 => timer[MacSendTo] = MacTo
  /\ phy.send = "SENDING" =>
       /\ phy.retry <= MaxRetry + 1
       /\ timer[MacSendTo] >= timer[PhySendTo] + Left(phy.retry)
       /\ phy.retry = MaxRetry + 1 => timer[MacSendTo] >= timer[PhySendTo] + 1

Safe == /\ Owned /\ InFlight /\ Starting /\ Receiving /\ Fresh
        /\ PhyTimer /\ MacTimer /\ Budget /\ OnlyExhaustion

-----------------------------------------------------------------------------
LEMMA LeftFacts ==
  /\ MaxRetry \in Nat /\ PhyTo \in Nat /\ PhyTo >= 1 /\ MaxRetry <= 254
  /\ \A r \in 0 .. MaxRetry + 1 : Left(r) \in Nat
  /\ MacTo \in Nat /\ MacTo >= PhyTo + Left(0)
  /\ Left(MaxRetry + 1) = 0
  /\ \A r \in 0..MaxRetry : Left(r) = PhyTo + Left(r + 1)
<1>1. MaxRetry \in Nat /\ PhyTo \in Nat /\ PhyTo >= 1 /\ MaxRetry <= 254
  BY BoundsAreNat, MaxRetryIsSmall
<1>2. ASSUME NEW a \in Nat, NEW n \in Nat PROVE a * n \in Nat /\ (a + 1) * n = a * n + n
  OBVIOUS
<1>3. ASSUME NEW r \in 0 .. MaxRetry + 1 PROVE Left(r) \in Nat
  <2>1. MaxRetry + 1 - r \in Nat
    BY <1>1
  <2>. QED  BY <1>1, <1>2, <2>1 DEF Left
<1>4. Left(MaxRetry + 1) = 0
  <2>1. MaxRetry + 1 - (MaxRetry + 1) = 0
    BY <1>1
  <2>. QED  BY <1>1, <2>1 DEF Left
<1>5. ASSUME NEW r \in 0..MaxRetry PROVE Left(r) = PhyTo + Left(r + 1)
  <2> DEFINE a == MaxRetry - r
  <2>1. a \in Nat /\ MaxRetry + 1 - r = a + 1 /\ MaxRetry + 1 - (r + 1) = a
    BY <1>1
  <2> HIDE DEF a
  <2>2. Left(r) = (a + 1) * PhyTo /\ Left(r + 1) = a * PhyTo
    BY <2>1 DEF Left
  <2>3. a * PhyTo \in Nat /\ (a + 1) * PhyTo = a * PhyTo + PhyTo
    BY <1>1, <1>2, <2>1
  <2>. QED  BY <1>1, <2>2, <2>3
<1>6. MacTo \in Nat /\ MacTo >= PhyTo + Left(0)
  <2> DEFINE x == MaxRetry * PhyTo
  <2>1. x \in Nat /\ (MaxRetry + 1) * PhyTo = x + PhyTo
    BY <1>1, <1>2
  <2>2. Left(0) = x + PhyTo
    BY <1>1, <2>1 DEF Left
  <2>3. MacTo = 2 * x + 2 * PhyTo
    BY <1>1, <2>1 DEF MacTo
  <2> HIDE DEF x
  <2>. QED  BY <1>1, <2>1, <2>2, <2>3
<1>. QED  BY <1>1, <1>3, <1>4, <1>5, <1>6

LEMMA PduSigsAre ==
  PduSigs = {"FRAME_SEND_REQ", "FRAME_SEND_START", "SEND_DONE", "SEND_ERR", "REV_MSG"}
  BY DEF PduSigs

(* The owners of the PDUs do not change when no message about one comes or goes. *)
LEMMA OwnersKept ==
  ASSUME Safe, UNCHANGED <<macSend, pduFifo, macRev, pool, fatal>>,
         fsm'["LINK_MAC"] = "init" => fsm["LINK_MAC"] = "init",
         \A p : Car(mbox'["LINK"], p) = Car(mbox["LINK"], p),
         \A p : Car(mbox'["LINK_MAC"], p) = Car(mbox["LINK_MAC"], p),
         Cnt(mbox'["LINK_MAC"], {"FRAME_SEND_START"}) = Cnt(mbox["LINK_MAC"], {"FRAME_SEND_START"})
  PROVE  (Holds' <=> Holds) /\ Owned' /\ Starting' /\ Receiving' /\ Fresh' /\ OnlyExhaustion'
<1>1. Holds' <=> Holds
  BY DEF Holds
<1>2. Owned'
  BY <1>1 DEF Safe, Owned, One
<1>. QED  BY <1>1, <1>2 DEF Safe, Starting, Receiving, Fresh, OnlyExhaustion

(* The PHY layer handles a message: no timeout is left over in its mailbox. *)
LEMMA PhyTook ==
  ASSUME IInv, Safe, mbox["LINK_PHY"] # <<>>, NEW sig, Head(mbox["LINK_PHY"]).sig = sig,
         \A S : Cnt(mbox'["LINK_PHY"], S) = Cnt(mbox["LINK_PHY"], S) - One(sig \in S)
  PROVE  /\ PhySendTo \notin due
         /\ Cnt(mbox'["LINK_PHY"], {"FRAME_SEND_TO"}) = 0
         /\ Cnt(mbox["LINK_PHY"], {"FRAME_SEND_REQ"}) \in Nat
         /\ Cnt(mbox'["LINK_PHY"], {"FRAME_SEND_REQ"})
              = Cnt(mbox["LINK_PHY"], {"FRAME_SEND_REQ"}) - One(sig = "FRAME_SEND_REQ")
         /\ sig = "FRAME_SEND_REQ" => Cnt(mbox["LINK_PHY"], {"FRAME_SEND_REQ"}) # 0
         /\ sig = "FRAME_SEND_TO" => timer[PhySendTo] = 0 /\ phy.send = "SENDING"
         /\ sig # "FRAME_SEND_TO" => (timer[PhySendTo] # 0 <=> phy.send = "SENDING")
<1>1. mbox["LINK_PHY"] \in Seq(AllMsgs) /\ PhyTimer
  BY Tasks DEF IInv, Types, Boxes, Safe
<1>2. \A S : Cnt(mbox["LINK_PHY"], S) \in Nat
  BY <1>1, CntNat
<1>3. PhySendTo \notin due
  BY <1>1 DEF PhyTimer
<1>4. Cnt(mbox'["LINK_PHY"], {"FRAME_SEND_TO"}) = Cnt(mbox["LINK_PHY"], {"FRAME_SEND_TO"})
                                                   - One(sig = "FRAME_SEND_TO")
  BY DEF One
<1>5. Cnt(mbox'["LINK_PHY"], {"FRAME_SEND_REQ"}) = Cnt(mbox["LINK_PHY"], {"FRAME_SEND_REQ"})
                                                   - One(sig = "FRAME_SEND_REQ")
  BY DEF One
<1>6. /\ sig = "FRAME_SEND_TO" => Cnt(mbox["LINK_PHY"], {"FRAME_SEND_TO"}) # 0
      /\ sig = "FRAME_SEND_REQ" => Cnt(mbox["LINK_PHY"], {"FRAME_SEND_REQ"}) # 0
  BY <1>1, HeadCounts
<1>7. One(timer[PhySendTo] # 0) + 0 + Cnt(mbox["LINK_PHY"], {"FRAME_SEND_TO"})
        = One(phy.send = "SENDING")
  BY <1>1, <1>3 DEF PhyTimer, One
<1>8. sig # "FRAME_SEND_TO" => Cnt(mbox["LINK_PHY"], {"FRAME_SEND_TO"}) = 0
  BY <1>1 DEF PhyTimer
<1>9. CASE sig = "FRAME_SEND_TO"
  BY <1>2, <1>3, <1>4, <1>5, <1>6, <1>7, <1>9 DEF One
<1>10. CASE sig # "FRAME_SEND_TO"
  BY <1>2, <1>3, <1>4, <1>5, <1>6, <1>7, <1>8, <1>10 DEF One
<1>. QED  BY <1>9, <1>10

LEMMA PhyOwners ==
  ASSUME IInv, Safe, UNCHANGED <<macSend, pduFifo, macRev, pool, fatal, due>>,
         fsm'["LINK_MAC"] = fsm["LINK_MAC"], timer'[MacSendTo] = timer[MacSendTo],
         mbox'["LINK"] = mbox["LINK"],
         \/ mbox'["LINK_MAC"] = mbox["LINK_MAC"]
         \/ \E m \in MacMsgs : /\ m.sig \notin {"FRAME_SEND_REQ", "FRAME_SEND_START", "FRAME_SEND_TO"}
                               /\ Gains(mbox'["LINK_MAC"], mbox["LINK_MAC"], m)
  PROVE  /\ (Holds' <=> Holds) /\ Owned' /\ Starting' /\ Receiving' /\ Fresh' /\ OnlyExhaustion'
         /\ MacTimer'
<1>1. /\ \A S : Cnt(mbox["LINK_MAC"], S) \in Nat
      /\ \A p : Car(mbox["LINK_MAC"], p) \in Nat
  BY BoxFacts, Tasks DEF IInv, Types
<1>2. /\ \A p : Car(mbox'["LINK_MAC"], p) = Car(mbox["LINK_MAC"], p)
      /\ Cnt(mbox'["LINK_MAC"], {"FRAME_SEND_START"}) = Cnt(mbox["LINK_MAC"], {"FRAME_SEND_START"})
      /\ Cnt(mbox'["LINK_MAC"], {"FRAME_SEND_TO"}) = Cnt(mbox["LINK_MAC"], {"FRAME_SEND_TO"})
  <2>1. CASE mbox'["LINK_MAC"] = mbox["LINK_MAC"]
    BY <2>1
  <2>2. ASSUME NEW m \in MacMsgs,
               m.sig \notin {"FRAME_SEND_REQ", "FRAME_SEND_START", "FRAME_SEND_TO"},
               Gains(mbox'["LINK_MAC"], mbox["LINK_MAC"], m)
        PROVE  /\ \A p : Car(mbox'["LINK_MAC"], p) = Car(mbox["LINK_MAC"], p)
               /\ \A S \in {{"FRAME_SEND_START"}, {"FRAME_SEND_TO"}} :
                    Cnt(mbox'["LINK_MAC"], S) = Cnt(mbox["LINK_MAC"], S)
    <3>1. m.sig \notin PduSigs
      BY <2>2, PduSigsAre, MsgFields
    <3>2. \A p : Car(mbox'["LINK_MAC"], p) = Car(mbox["LINK_MAC"], p)
      BY <1>1, <2>2, <3>1 DEF Gains, One
    <3>3. /\ Cnt(mbox'["LINK_MAC"], {"FRAME_SEND_START"}) = Cnt(mbox["LINK_MAC"], {"FRAME_SEND_START"})
          /\ Cnt(mbox'["LINK_MAC"], {"FRAME_SEND_TO"}) = Cnt(mbox["LINK_MAC"], {"FRAME_SEND_TO"})
      BY <1>1, <2>2 DEF Gains, One
    <3>. QED  BY <3>2, <3>3
  <2>. QED  BY <2>1, <2>2
<1>3. (Holds' <=> Holds) /\ Owned' /\ Starting' /\ Receiving' /\ Fresh' /\ OnlyExhaustion'
  BY <1>2, OwnersKept
<1>. QED  BY <1>2, <1>3 DEF MacTimer, Safe

(* What the PHY layer does while it sends nothing. *)
LEMMA PhyQuiet ==
  ASSUME IInv, Safe, UNCHANGED <<macSend, pduFifo, macRev, pool, fatal, due, timer>>,
         fsm'["LINK_MAC"] = fsm["LINK_MAC"], mbox["LINK_PHY"] # <<>>, mbox'["LINK"] = mbox["LINK"],
         phy'.send = phy.send, phy.send = "SENDING" => phy' = phy,
         NEW sig, Head(mbox["LINK_PHY"]).sig = sig, sig \notin {"FRAME_SEND_TO", "FRAME_SEND_REQ"},
         \A S : Cnt(mbox'["LINK_PHY"], S) = Cnt(mbox["LINK_PHY"], S) - One(sig \in S),
         \/ mbox'["LINK_MAC"] = mbox["LINK_MAC"]
         \/ \E m \in MacMsgs : /\ m.sig \in {"FRAME_REV", "PHY_LAYER_STARTED"}
                               /\ Gains(mbox'["LINK_MAC"], mbox["LINK_MAC"], m)
  PROVE  Safe'
<1>1. /\ (Holds' <=> Holds) /\ Owned' /\ Starting' /\ Receiving' /\ Fresh' /\ OnlyExhaustion'
      /\ MacTimer'
  BY PhyOwners
<1>2. /\ PhySendTo \notin due /\ Cnt(mbox'["LINK_PHY"], {"FRAME_SEND_TO"}) = 0
      /\ Cnt(mbox["LINK_PHY"], {"FRAME_SEND_REQ"}) \in Nat
      /\ Cnt(mbox'["LINK_PHY"], {"FRAME_SEND_REQ"}) = Cnt(mbox["LINK_PHY"], {"FRAME_SEND_REQ"})
      /\ timer[PhySendTo] # 0 <=> phy.send = "SENDING"
  BY PhyTook DEF One
<1>3. Cnt(mbox'["LINK_MAC"], {"FRAME_SEND_DONE", "FRAME_SEND_ERR"})
        = Cnt(mbox["LINK_MAC"], {"FRAME_SEND_DONE", "FRAME_SEND_ERR"})
  <2>1. Cnt(mbox["LINK_MAC"], {"FRAME_SEND_DONE", "FRAME_SEND_ERR"}) \in Nat
    BY BoxFacts, Tasks DEF IInv, Types
  <2>. QED  BY <2>1 DEF Gains, One
<1>4. InFlight'
  BY <1>1, <1>2, <1>3 DEF Safe, InFlight, One
<1>5. PhyTimer'
  BY <1>2 DEF PhyTimer, One
<1>6. Budget'
  BY <1>2 DEF Safe, Budget
<1>. QED  BY <1>1, <1>4, <1>5, <1>6 DEF Safe

(* The frame is reported, as done or as given up, and the sender is idle. *)
LEMMA PhyEnds ==
  ASSUME IInv, Safe, NEW sig \in {"FRAME_SEND_TO", "FRAME_REV"}, PhyHandling(sig),
         phy.send = "SENDING", phy'.send = "IDLE", timer'[PhySendTo] = 0,
         timer'[MacSendTo] = timer[MacSendTo],
         NEW m \in MacMsgs, m.sig \in {"FRAME_SEND_DONE", "FRAME_SEND_ERR"},
         Finish("LINK_PHY", Post("LINK_MAC", m)),
         UNCHANGED <<macSend, pduFifo, macRev, pool, fatal, due, fsm>>
  PROVE  Safe'
<1>0. mbox["LINK_PHY"] # <<>> /\ Head(mbox["LINK_PHY"]).sig = sig
  BY DEF PhyHandling, Handling
<1>1. /\ mbox'["LINK"] = mbox["LINK"] /\ Gains(mbox'["LINK_MAC"], mbox["LINK_MAC"], m)
      /\ \A S : Cnt(mbox'["LINK_PHY"], S) = Cnt(mbox["LINK_PHY"], S) - One(sig \in S)
  BY PhyTells DEF Openers
<1>2. /\ (Holds' <=> Holds) /\ Owned' /\ Starting' /\ Receiving' /\ Fresh' /\ OnlyExhaustion'
      /\ MacTimer'
  BY <1>1, PhyOwners
<1>3. /\ PhySendTo \notin due /\ Cnt(mbox'["LINK_PHY"], {"FRAME_SEND_TO"}) = 0
      /\ Cnt(mbox["LINK_PHY"], {"FRAME_SEND_REQ"}) \in Nat
      /\ Cnt(mbox'["LINK_PHY"], {"FRAME_SEND_REQ"}) = Cnt(mbox["LINK_PHY"], {"FRAME_SEND_REQ"})
  BY <1>0, <1>1, PhyTook DEF One
<1>4. /\ Cnt(mbox["LINK_MAC"], {"FRAME_SEND_DONE", "FRAME_SEND_ERR"}) \in Nat
      /\ Cnt(mbox'["LINK_MAC"], {"FRAME_SEND_DONE", "FRAME_SEND_ERR"})
           = Cnt(mbox["LINK_MAC"], {"FRAME_SEND_DONE", "FRAME_SEND_ERR"}) + 1
  <2>1. Cnt(mbox["LINK_MAC"], {"FRAME_SEND_DONE", "FRAME_SEND_ERR"}) \in Nat
    BY BoxFacts, Tasks DEF IInv, Types
  <2>. QED  BY <1>1, <2>1 DEF Gains, One
<1>5. InFlight' /\ Cnt(mbox'["LINK_PHY"], {"FRAME_SEND_REQ"}) = 0
  BY <1>2, <1>3, <1>4 DEF Safe, InFlight, One
<1>6. PhyTimer'
  BY <1>3 DEF PhyTimer, One
<1>7. Budget'
  BY <1>5 DEF Budget
<1>. QED  BY <1>2, <1>5, <1>6, <1>7 DEF Safe

(* The frame is sent once more. *)
LEMMA PhyRepeats ==
  ASSUME IInv, Safe, NEW sig \in {"FRAME_SEND_TO", "FRAME_REV"}, PhyHandling(sig),
         phy.send = "SENDING", phy.retry \in 0..MaxRetry,
         sig = "FRAME_SEND_TO" => phy.retry < MaxRetry,
         phy'.send = "SENDING", phy'.retry = Increment(phy.retry),
         timer' = [timer EXCEPT ![PhySendTo] = PhyTo], Finish("LINK_PHY", NoPost),
         UNCHANGED <<macSend, pduFifo, macRev, pool, fatal, due, fsm>>
  PROVE  Safe'
<1>0. mbox["LINK_PHY"] # <<>> /\ Head(mbox["LINK_PHY"]).sig = sig
  BY DEF PhyHandling, Handling
<1>1. /\ mbox'["LINK"] = mbox["LINK"] /\ mbox'["LINK_MAC"] = mbox["LINK_MAC"]
      /\ \A S : Cnt(mbox'["LINK_PHY"], S) = Cnt(mbox["LINK_PHY"], S) - One(sig \in S)
  BY PhyFinishes DEF Openers
<1>2. /\ timer'[PhySendTo] = PhyTo /\ timer'[MacSendTo] = timer[MacSendTo] /\ PhyTo # 0
      /\ timer[PhySendTo] \in Nat /\ timer[MacSendTo] \in Nat
  BY Numbers, Tasks DEF IInv, Types, TypeOK
<1>3. /\ (Holds' <=> Holds) /\ Owned' /\ Starting' /\ Receiving' /\ Fresh' /\ OnlyExhaustion'
      /\ MacTimer'
  BY <1>1, <1>2, PhyOwners
<1>4. /\ PhySendTo \notin due /\ Cnt(mbox'["LINK_PHY"], {"FRAME_SEND_TO"}) = 0
      /\ Cnt(mbox["LINK_PHY"], {"FRAME_SEND_REQ"}) \in Nat
      /\ Cnt(mbox'["LINK_PHY"], {"FRAME_SEND_REQ"}) = Cnt(mbox["LINK_PHY"], {"FRAME_SEND_REQ"})
      /\ sig # "FRAME_SEND_TO" => timer[PhySendTo] # 0
  BY <1>0, <1>1, PhyTook DEF One
<1>5. InFlight' /\ Cnt(mbox'["LINK_PHY"], {"FRAME_SEND_REQ"}) = 0
  <2>1. Cnt(mbox["LINK_MAC"], {"FRAME_SEND_DONE", "FRAME_SEND_ERR"}) \in Nat
    BY BoxFacts, Tasks DEF IInv, Types
  <2>. QED  BY <1>1, <1>3, <1>4, <2>1 DEF Safe, InFlight, One
<1>6. PhyTimer'
  BY <1>2, <1>4 DEF PhyTimer, One
<1>7. Budget'
  <2> DEFINE r == phy.retry
  <2>1. /\ timer[MacSendTo] >= timer[PhySendTo] + Left(r)
        /\ r \in 0..MaxRetry /\ r + 1 \in 0 .. MaxRetry + 1 /\ MaxRetry \in Nat
    BY LeftFacts DEF Safe, Budget
  <2>2. phy'.retry = r + 1
    BY <2>1, LeftFacts DEF Increment
  <2>3. Left(r) = PhyTo + Left(r + 1) /\ Left(r) \in Nat /\ Left(r + 1) \in Nat /\ PhyTo \in Nat
    BY <2>1, LeftFacts
  <2>4. timer[MacSendTo] >= PhyTo + Left(r + 1)
    BY <1>2, <2>1, <2>3
  <2>5. r + 1 = MaxRetry + 1 => timer[MacSendTo] >= PhyTo + 1
    <3>1. r + 1 = MaxRetry + 1 => sig # "FRAME_SEND_TO"
      BY <2>1
    <3>. QED  BY <1>2, <1>4, <2>1, <2>3, <3>1
  <2> HIDE DEF r
  <2>6. r + 1 <= MaxRetry + 1
    BY <2>1
  <2>. QED  BY <1>2, <1>5, <2>2, <2>4, <2>5, <2>6 DEF Budget
<1>. QED  BY <1>3, <1>5, <1>6, <1>7 DEF Safe

LEMMA TimeoutInTime ==
  ASSUME IInv, Safe, PhyHandling("FRAME_SEND_TO")
  PROVE  phy.send = "SENDING" /\ timer[PhySendTo] = 0
<1>1. mbox["LINK_PHY"] \in Seq(AllMsgs) /\ Cnt(mbox["LINK_PHY"], {"FRAME_SEND_TO"}) \in Nat
  BY BoxFacts, Tasks DEF IInv, Types
<1>2. Cnt(mbox["LINK_PHY"], {"FRAME_SEND_TO"}) # 0
  BY <1>1, HeadCounts DEF PhyHandling, Handling
<1>. QED  BY <1>1, <1>2 DEF Safe, PhyTimer, One

LEMMA PhyAsked ==
  ASSUME IInv, Safe, PhyHandling("FRAME_SEND_REQ")
  PROVE  /\ phy.send = "IDLE" /\ Holds
         /\ Cnt(mbox["LINK_PHY"], {"FRAME_SEND_REQ"}) = 1
         /\ Cnt(mbox["LINK_MAC"], {"FRAME_SEND_DONE", "FRAME_SEND_ERR"}) = 0
<1>1. /\ mbox["LINK_PHY"] \in Seq(AllMsgs) /\ Cnt(mbox["LINK_PHY"], {"FRAME_SEND_REQ"}) \in Nat
      /\ Cnt(mbox["LINK_MAC"], {"FRAME_SEND_DONE", "FRAME_SEND_ERR"}) \in Nat
      /\ phy.send \in {"IDLE", "SENDING"}
  BY BoxFacts, Tasks DEF IInv, Types, TypeOK, PhyState
<1>2. Cnt(mbox["LINK_PHY"], {"FRAME_SEND_REQ"}) # 0
  BY <1>1, HeadCounts DEF PhyHandling, Handling
<1>. QED  BY <1>1, <1>2 DEF Safe, InFlight, One

LEMMA PhySafe ==
  ASSUME IInv, Safe, PhyStep
  PROVE  Safe'
<1> DEFINE box == mbox["LINK_PHY"]
<1>a. TypeOK /\ Boxes /\ InOrder /\ Dormant
  BY DEF IInv, Types
<1>c. UNCHANGED <<macSend, pduFifo, macRev>>
  BY DEF PhyStep, macVars
<1>d. phy.retry \in Nat
  <2>1. phy.retry \in Counter
    BY <1>a DEF TypeOK, PhyState
  <2>. QED  BY <2>1 DEF Counter
<1>1. CASE PhyStart
  <2> DEFINE m == [sig |-> "PHY_LAYER_STARTED"]
  <2>1. /\ box # <<>> /\ Head(box).sig = "INIT" /\ fsm["LINK_PHY"] = "init"
        /\ phy' = [phy EXCEPT !.send = "IDLE", !.retry = 0]
        /\ fsm' = [fsm EXCEPT !["LINK_PHY"] = "handle"]
        /\ Finish("LINK_PHY", Post("LINK_MAC", m))
        /\ UNCHANGED <<pool, timer, due, line, fatal>>
    BY <1>1 DEF PhyStart, Handling
  <2>2. m \in MacMsgs /\ m.sig = "PHY_LAYER_STARTED"
    BY Posted
  <2> HIDE DEF m
  <2>3. /\ mbox'["LINK"] = mbox["LINK"]
        /\ Loses(mbox'["LINK_PHY"], mbox["LINK_PHY"], Head(box))
        /\ Gains(mbox'["LINK_MAC"], mbox["LINK_MAC"], m)
    BY <1>a, <2>1, <2>2, FinishPost, Tasks
  <2>4. \A S : Cnt(mbox'["LINK_PHY"], S) = Cnt(mbox["LINK_PHY"], S) - One("INIT" \in S)
    BY <2>1, <2>3 DEF Loses
  <2>5. phy.send = "IDLE" /\ phy'.send = "IDLE" /\ fsm'["LINK_MAC"] = fsm["LINK_MAC"]
    BY <1>a, <2>1, Tasks DEF Dormant, TypeOK, PhyState
  <2>. QED  BY <1>c, <2>1, <2>2, <2>3, <2>4, <2>5, PhyQuiet
<1>2. CASE PhyDrop
  <2>1. /\ box # <<>> /\ Head(box).sig # "INIT" /\ fsm["LINK_PHY"] = "init"
        /\ Finish("LINK_PHY", NoPost)
        /\ UNCHANGED <<fsm, pool, timer, due, line, fatal, phy>>
    BY <1>2 DEF PhyDrop, Drop
  <2>2. /\ mbox'["LINK"] = mbox["LINK"] /\ mbox'["LINK_MAC"] = mbox["LINK_MAC"]
        /\ Loses(mbox'["LINK_PHY"], mbox["LINK_PHY"], Head(box))
    BY <1>a, <2>1, FinishNoPost, Tasks
  <2>3. \A S : Cnt(mbox'["LINK_PHY"], S) = Cnt(mbox["LINK_PHY"], S) - One(Head(box).sig \in S)
    BY <2>2 DEF Loses
  <2>4. Head(box).sig \notin {"FRAME_SEND_REQ", "FRAME_SEND_TO"}
    BY <1>a, <2>1, HeadCounts, Tasks DEF Boxes, InOrder
  <2>. QED  BY <1>c, <2>1, <2>2, <2>3, <2>4, PhyQuiet
<1>3. CASE PhySendReq
  <2>1. PhyHandling("FRAME_SEND_REQ")
    BY <1>3 DEF PhySendReq
  <2>2. /\ phy.send = "IDLE" /\ Holds /\ Cnt(mbox["LINK_PHY"], {"FRAME_SEND_REQ"}) = 1
        /\ Cnt(mbox["LINK_MAC"], {"FRAME_SEND_DONE", "FRAME_SEND_ERR"}) = 0
    BY <2>1, PhyAsked
  <2>3. /\ Finish("LINK_PHY", NoPost) /\ UNCHANGED <<fsm, pool, due, fatal>>
        /\ phy'.send = "SENDING" /\ phy'.retry = 0 /\ timer' = [timer EXCEPT ![PhySendTo] = PhyTo]
    BY <1>3, <2>2 DEF PhySendReq, link_phy_frame_send, timer_set
  <2>4. box # <<>> /\ Head(box).sig = "FRAME_SEND_REQ"
    BY <2>1 DEF PhyHandling, Handling
  <2>5. /\ mbox'["LINK"] = mbox["LINK"] /\ mbox'["LINK_MAC"] = mbox["LINK_MAC"]
        /\ \A S : Cnt(mbox'["LINK_PHY"], S) = Cnt(mbox["LINK_PHY"], S) - One("FRAME_SEND_REQ" \in S)
    BY <2>1, <2>3, PhyFinishes DEF Openers
  <2>6. /\ timer'[PhySendTo] = PhyTo /\ timer'[MacSendTo] = timer[MacSendTo] /\ PhyTo # 0
    BY <1>a, <2>3, Numbers, Tasks DEF TypeOK
  <2>7. /\ (Holds' <=> Holds) /\ Owned' /\ Starting' /\ Receiving' /\ Fresh' /\ OnlyExhaustion'
        /\ MacTimer'
    BY <1>c, <2>3, <2>5, <2>6, PhyOwners
  <2>8. /\ PhySendTo \notin due /\ Cnt(mbox'["LINK_PHY"], {"FRAME_SEND_TO"}) = 0
        /\ Cnt(mbox'["LINK_PHY"], {"FRAME_SEND_REQ"}) = 0
    BY <2>2, <2>4, <2>5, PhyTook DEF One
  <2>9. InFlight'
    BY <2>2, <2>3, <2>5, <2>7, <2>8 DEF InFlight, One
  <2>10. PhyTimer'
    BY <2>3, <2>6, <2>8 DEF PhyTimer, One
  <2>11. Budget'
    <3>1. timer[MacSendTo] = MacTo
      BY <2>2 DEF Safe, Budget
    <3>2. MacTo >= PhyTo + Left(0) /\ 0 <= MaxRetry + 1 /\ 0 # MaxRetry + 1
      BY LeftFacts
    <3>. QED  BY <2>3, <2>6, <2>8, <3>1, <3>2 DEF Budget
  <2>. QED  BY <2>7, <2>9, <2>10, <2>11 DEF Safe
<1>4. ASSUME NEW counted, counted = [phy EXCEPT !.retry = Increment(@)],
             NEW sig \in {"FRAME_SEND_TO", "FRAME_REV"}, PhyHandling(sig), phy.send = "SENDING",
             GiveUp(counted), UNCHANGED <<fsm, pool, due, fatal>>,
             timer'[PhySendTo] = 0, timer'[MacSendTo] = timer[MacSendTo]
      PROVE  Safe'
  <2> DEFINE m == [sig |-> "FRAME_SEND_ERR"]
  <2>1. m \in MacMsgs /\ m.sig = "FRAME_SEND_ERR" /\ Finish("LINK_PHY", Post("LINK_MAC", m))
    BY <1>4, Posted DEF GiveUp
  <2>2. phy'.send = "IDLE"
    BY <1>a, <1>4 DEF GiveUp, TypeOK, PhyState
  <2> HIDE DEF m
  <2>. QED  BY <1>c, <1>4, <2>1, <2>2, PhyEnds
<1>5. ASSUME NEW counted, counted = [phy EXCEPT !.retry = Increment(@)],
             NEW sig \in {"FRAME_SEND_TO", "FRAME_REV"}, PhyHandling(sig), phy.send = "SENDING",
             phy.retry <= MaxRetry, sig = "FRAME_SEND_TO" => phy.retry < MaxRetry,
             link_phy_frame_send(counted), Finish("LINK_PHY", NoPost),
             UNCHANGED <<fsm, pool, due, fatal>>
      PROVE  Safe'
  <2>1. counted.send = "SENDING" /\ counted.retry = Increment(phy.retry) /\ phy.retry \in 0..MaxRetry
    <3>1. counted.send = "SENDING" /\ counted.retry = Increment(phy.retry)
      BY <1>a, <1>5 DEF TypeOK, PhyState
    <3>2. phy.retry \in Nat /\ MaxRetry \in Nat
      BY <1>d, LeftFacts
    <3>. QED  BY <1>5, <3>1, <3>2
  <2>2. phy' = counted /\ timer' = [timer EXCEPT ![PhySendTo] = PhyTo]
    BY <1>5, <2>1 DEF link_phy_frame_send, timer_set
  <2>. QED  BY <1>c, <1>5, <2>1, <2>2, PhyRepeats
<1>6. CASE PhySendTimeout
  <2> DEFINE counted == [phy EXCEPT !.retry = Increment(@)]
  <2>1. /\ PhyHandling("FRAME_SEND_TO") /\ UNCHANGED <<fsm, pool, due, fatal>>
        /\ \/ GiveUp(counted) /\ UNCHANGED <<line, timer>>
           \/ phy.retry < MaxRetry /\ link_phy_frame_send(counted) /\ Finish("LINK_PHY", NoPost)
    BY <1>6 DEF PhySendTimeout
  <2>2. phy.send = "SENDING" /\ timer[PhySendTo] = 0
    BY <2>1, TimeoutInTime
  <2>3. phy.retry < MaxRetry => phy.retry <= MaxRetry
    BY <1>d, LeftFacts
  <2> HIDE DEF counted
  <2>4. CASE GiveUp(counted) /\ UNCHANGED <<line, timer>>
    BY <1>4, <2>1, <2>2, <2>4 DEF counted
  <2>5. CASE phy.retry < MaxRetry /\ link_phy_frame_send(counted) /\ Finish("LINK_PHY", NoPost)
    BY <1>5, <2>1, <2>2, <2>3, <2>5 DEF counted
  <2>. QED  BY <2>1, <2>4, <2>5
<1>7. CASE PhyRevReq
  <2> DEFINE m == [sig |-> "FRAME_REV", frame |-> Received.mac]
  <2>1. /\ PhyHandling("FRAME_REV") /\ Finish("LINK_PHY", Post("LINK_MAC", m))
        /\ UNCHANGED <<fsm, pool, timer, due, fatal, phy>>
    BY <1>7 DEF PhyRevReq
  <2>2. box # <<>> /\ Head(box).sig = "FRAME_REV"
    BY <2>1 DEF PhyHandling, Handling
  <2>3. m \in MacMsgs /\ m.sig = "FRAME_REV"
    <3>1. Received \in PhyFrame
      BY <1>a, <2>2, HeadIsMsg, MsgFields, Tasks DEF Received
    <3>. QED  BY <3>1, Posted DEF PhyFrame
  <2> HIDE DEF m
  <2>4. /\ mbox'["LINK"] = mbox["LINK"] /\ Gains(mbox'["LINK_MAC"], mbox["LINK_MAC"], m)
        /\ \A S : Cnt(mbox'["LINK_PHY"], S) = Cnt(mbox["LINK_PHY"], S) - One("FRAME_REV" \in S)
    BY <2>1, <2>3, PhyTells DEF Openers
  <2>. QED  BY <1>c, <2>1, <2>2, <2>3, <2>4, PhyQuiet
<1>8. CASE PhyRevAck
  <2> DEFINE m == [sig |-> "FRAME_SEND_DONE"]
  <2>1. /\ PhyHandling("FRAME_REV") /\ phy.send = "SENDING" /\ Finish("LINK_PHY", Post("LINK_MAC", m))
        /\ timer' = [timer EXCEPT ![PhySendTo] = 0] /\ phy' = [phy EXCEPT !.send = "IDLE"]
        /\ UNCHANGED <<fsm, pool, due, line, fatal>>
    BY <1>8 DEF PhyRevAck, IsAnswer, timer_remove_attr
  <2>2. m \in MacMsgs /\ m.sig = "FRAME_SEND_DONE"
    BY Posted
  <2> HIDE DEF m
  <2>3. phy'.send = "IDLE" /\ timer'[PhySendTo] = 0 /\ timer'[MacSendTo] = timer[MacSendTo]
    BY <1>a, <2>1, Tasks DEF TypeOK, PhyState
  <2>. QED  BY <1>c, <2>1, <2>2, <2>3, PhyEnds
<1>9. CASE PhyRevNack
  <2> DEFINE counted == [phy EXCEPT !.retry = Increment(@)]
  <2>1. /\ PhyHandling("FRAME_REV") /\ phy.send = "SENDING" /\ UNCHANGED <<fsm, pool, due, fatal>>
        /\ \/ timer_remove_attr(PhySendTo) /\ GiveUp(counted)
           \/ phy.retry <= MaxRetry /\ link_phy_frame_send(counted) /\ Finish("LINK_PHY", NoPost)
    BY <1>9 DEF PhyRevNack, IsAnswer
  <2> HIDE DEF counted
  <2>2. CASE timer_remove_attr(PhySendTo) /\ GiveUp(counted)
    <3>1. timer'[PhySendTo] = 0 /\ timer'[MacSendTo] = timer[MacSendTo]
      BY <1>a, <2>2, Tasks DEF timer_remove_attr, TypeOK
    <3>. QED  BY <1>4, <2>1, <2>2, <3>1 DEF counted
  <2>3. CASE phy.retry <= MaxRetry /\ link_phy_frame_send(counted) /\ Finish("LINK_PHY", NoPost)
    BY <1>5, <2>1, <2>3 DEF counted
  <2>. QED  BY <2>1, <2>2, <2>3
<1>10. ASSUME NEW sig \in {"FRAME_REV", "FRAME_REV_CS_ERR"}, PhyHandling(sig),
              Finish("LINK_PHY", NoPost), UNCHANGED <<fsm, pool, timer, due, fatal, phy>>
       PROVE  Safe'
  <2>1. box # <<>> /\ Head(box).sig = sig
    BY <1>10 DEF PhyHandling, Handling
  <2>2. /\ mbox'["LINK"] = mbox["LINK"] /\ mbox'["LINK_MAC"] = mbox["LINK_MAC"]
        /\ \A S : Cnt(mbox'["LINK_PHY"], S) = Cnt(mbox["LINK_PHY"], S) - One(sig \in S)
    BY <1>10, PhyFinishes DEF Openers
  <2>. QED  BY <1>c, <1>10, <2>1, <2>2, PhyQuiet
<1>11. CASE PhyRevStale
  BY <1>10, <1>11 DEF PhyRevStale
<1>12. CASE PhyRevChecksumError
  BY <1>10, <1>12 DEF PhyRevChecksumError
<1>. QED  BY <1>1, <1>2, <1>3, <1>6, <1>7, <1>8, <1>9, <1>11, <1>12 DEF PhyStep, PhyNext

-----------------------------------------------------------------------------
LEMMA HeadCarries ==
  ASSUME NEW s \in Seq(AllMsgs), s # <<>>, Head(s).sig \in PduSigs
  PROVE  Car(s, Head(s).pdu) # 0
<1>1. 1 \in 1..Len(s) /\ Head(s) = s[1] /\ Head(s) \in AllMsgs
  OBVIOUS
<1>2. s[1] \in CarryingPdu(Head(s).pdu)
  BY <1>1 DEF CarryingPdu
<1>. QED  BY <1>1, <1>2, OccZero DEF Car

LEMMA MacCounts ==
  ASSUME IInv
  PROVE  /\ \A S : Cnt(mbox["LINK_MAC"], S) \in Nat /\ Cnt(mbox["LINK_PHY"], S) \in Nat
         /\ \A p : Car(mbox["LINK_MAC"], p) \in Nat /\ Car(mbox["LINK"], p) \in Nat
         /\ \A p : Occ(pduFifo, {p}) \in Nat
         /\ \A S : mbox["LINK_MAC"] # <<>> /\ Head(mbox["LINK_MAC"]).sig \in S
                     => Cnt(mbox["LINK_MAC"], S) # 0
         /\ phy.send \in {"IDLE", "SENDING"} /\ macSend.state \in {"IDLE", "SENDING"}
<1>1. /\ Boxes /\ pduFifo \in Seq(Pdu) /\ phy.send \in {"IDLE", "SENDING"}
      /\ macSend.state \in {"IDLE", "SENDING"}
  BY DEF IInv, Types, TypeOK, PhyState, MacSender
<1>2. mbox["LINK_MAC"] \in Seq(AllMsgs)
  BY <1>1, Tasks DEF Boxes
<1>3. \A p : Occ(pduFifo, {p}) \in Nat
  BY <1>1, PlacesFinite
<1>4. /\ \A S : Cnt(mbox["LINK_MAC"], S) \in Nat /\ Cnt(mbox["LINK_PHY"], S) \in Nat
      /\ \A p : Car(mbox["LINK_MAC"], p) \in Nat /\ Car(mbox["LINK"], p) \in Nat
  BY <1>1, BoxFacts, Tasks
<1>. QED  BY <1>1, <1>2, <1>3, <1>4, HeadCounts

(* A PDU that a message carries is in use. *)
LEMMA MacInUse ==
  ASSUME IInv, Safe, mbox["LINK_MAC"] # <<>>,
         MacMsg.sig \in {"FRAME_SEND_REQ", "FRAME_SEND_START"}
  PROVE  /\ MacMsg.pdu \in Pdu /\ pool[MacMsg.pdu] # 0
         /\ Car(mbox["LINK_MAC"], MacMsg.pdu) = 1 /\ Occ(pduFifo, {MacMsg.pdu}) = 0
<1> DEFINE p == MacMsg.pdu
<1>1. p \in Pdu /\ mbox["LINK_MAC"] \in Seq(AllMsgs)
  BY HeadIsMsg, MsgFields, Tasks DEF IInv, Types, Boxes, MacMsg
<1>2. Car(mbox["LINK_MAC"], p) # 0
  BY <1>1, HeadCarries, PduSigsAre DEF MacMsg
<1>3. Car(mbox["LINK"], p) + Car(mbox["LINK_MAC"], p) + Occ(pduFifo, {p})
        + One(Holds /\ macSend.pdu = p) + One(macRev.pdu = p) = One(pool[p] # 0)
  BY <1>1 DEF Safe, Owned
<1> HIDE DEF p
<1>4. pool[p] # 0 /\ Car(mbox["LINK_MAC"], p) = 1 /\ Occ(pduFifo, {p}) = 0
  <2>1. /\ Car(mbox["LINK_MAC"], p) \in Nat /\ Car(mbox["LINK"], p) \in Nat
        /\ Occ(pduFifo, {p}) \in Nat
    BY MacCounts
  <2>2. Car(mbox["LINK_MAC"], p) # 0
    BY <1>2 DEF p
  <2>. QED  BY <1>3, <2>1, <2>2 DEF One
<1>. QED  BY <1>1, <1>4 DEF p

(* When the result of a frame is there, nothing else is. *)
LEMMA MacResult ==
  ASSUME IInv, Safe, NEW sig \in {"FRAME_SEND_DONE", "FRAME_SEND_ERR"}, MacHandling(sig)
  PROVE  /\ Holds /\ phy.send = "IDLE" /\ Cnt(mbox["LINK_PHY"], {"FRAME_SEND_REQ"}) = 0
         /\ Cnt(mbox["LINK_MAC"], {"FRAME_SEND_DONE", "FRAME_SEND_ERR"}) = 1
<1>1. Cnt(mbox["LINK_MAC"], {"FRAME_SEND_DONE", "FRAME_SEND_ERR"}) # 0
  BY MacCounts DEF MacHandling, Handling
<1>. QED  BY <1>1, MacCounts DEF Safe, InFlight, One

(* When a PDU is to be started, the sender holds none and its PDU is in use. *)
LEMMA MacToStart ==
  ASSUME IInv, Safe, MacHandling("FRAME_SEND_START")
  PROVE  /\ ~Holds /\ macSend.state = "SENDING" /\ MacMsg.pdu \in Pdu /\ pool[MacMsg.pdu] # 0
         /\ phy.send = "IDLE" /\ Cnt(mbox["LINK_PHY"], {"FRAME_SEND_REQ"}) = 0
         /\ Cnt(mbox["LINK_MAC"], {"FRAME_SEND_DONE", "FRAME_SEND_ERR"}) = 0
         /\ Cnt(mbox["LINK_MAC"], {"FRAME_SEND_START"}) = 1
<1>0. mbox["LINK_MAC"] # <<>> /\ MacMsg.sig = "FRAME_SEND_START"
  BY DEF MacHandling, Handling, MacMsg
<1>1. Cnt(mbox["LINK_MAC"], {"FRAME_SEND_START"}) = 1 /\ macSend.state = "SENDING"
  BY <1>0, MacCounts DEF Safe, Starting, MacMsg
<1>2. ~Holds
  BY <1>1 DEF Holds
<1>3. /\ phy.send = "IDLE" /\ Cnt(mbox["LINK_PHY"], {"FRAME_SEND_REQ"}) = 0
      /\ Cnt(mbox["LINK_MAC"], {"FRAME_SEND_DONE", "FRAME_SEND_ERR"}) = 0
  <2>1. /\ Cnt(mbox["LINK_PHY"], {"FRAME_SEND_REQ"}) \in Nat
        /\ Cnt(mbox["LINK_MAC"], {"FRAME_SEND_DONE", "FRAME_SEND_ERR"}) \in Nat
        /\ phy.send \in {"IDLE", "SENDING"}
    BY MacCounts
  <2>. QED  BY <1>2, <2>1, SMTT(20) DEF Safe, InFlight, One
<1>4. MacMsg.pdu \in Pdu /\ pool[MacMsg.pdu] # 0
  BY <1>0, MacInUse
<1>. QED  BY <1>1, <1>2, <1>3, <1>4

(* The MAC layer sends a frame of the PDU it has or starts with. *)
LEMMA MacTransmits ==
  ASSUME IInv, Safe, NEW sig \in {"FRAME_SEND_START", "FRAME_SEND_DONE", "FRAME_SEND_ERR"},
         MacHandling(sig), NEW s \in MacSender, s.state = "SENDING",
         s.pdu = IF sig = "FRAME_SEND_START" THEN MacMsg.pdu ELSE macSend.pdu,
         link_mac_frame_send_req(s), UNCHANGED <<macRev, phy>>
  PROVE  Safe'
<1> DEFINE m == [sig |-> "FRAME_SEND_REQ", frame |-> s.frame]
<1>1. /\ macSend' = s /\ Finish("LINK_MAC", Post("LINK_PHY", m))
      /\ timer' = [timer EXCEPT ![MacSendTo] = MacTo] /\ due = {}
      /\ UNCHANGED <<fsm, pool, due, line, fatal, pduFifo>>
  BY DEF link_mac_frame_send_req, timer_set, TimerFree
<1>2. m \in PhyMsgs /\ m.sig = "FRAME_SEND_REQ"
  BY Posted DEF MacSender
<1> HIDE DEF m
<1>3. /\ mbox'["LINK"] = mbox["LINK"]
      /\ \A S : Cnt(mbox'["LINK_MAC"], S) = Cnt(mbox["LINK_MAC"], S) - One(sig \in S)
      /\ Loses(mbox'["LINK_MAC"], mbox["LINK_MAC"], Head(mbox["LINK_MAC"]))
      /\ Gains(mbox'["LINK_PHY"], mbox["LINK_PHY"], m)
  BY <1>1, <1>2, MacAsks DEF Openers
<1>4. \A S : Cnt(mbox'["LINK_PHY"], S) = Cnt(mbox["LINK_PHY"], S) + One("FRAME_SEND_REQ" \in S)
  BY <1>2, <1>3 DEF Gains
<1>5. /\ phy.send = "IDLE" /\ Cnt(mbox["LINK_PHY"], {"FRAME_SEND_REQ"}) = 0
      /\ Cnt(mbox["LINK_MAC"], {"FRAME_SEND_DONE", "FRAME_SEND_ERR"})
           = One(sig \in {"FRAME_SEND_DONE", "FRAME_SEND_ERR"})
      /\ Cnt(mbox["LINK_MAC"], {"FRAME_SEND_START"}) = One(sig = "FRAME_SEND_START")
      /\ macSend.state = "SENDING" /\ (Holds <=> sig # "FRAME_SEND_START")
  BY MacResult, MacToStart DEF One, Holds
<1>6. /\ Cnt(mbox'["LINK_MAC"], {"FRAME_SEND_START"}) = 0
      /\ Cnt(mbox'["LINK_MAC"], {"FRAME_SEND_DONE", "FRAME_SEND_ERR"}) = 0
      /\ Cnt(mbox'["LINK_MAC"], {"FRAME_SEND_TO"}) = Cnt(mbox["LINK_MAC"], {"FRAME_SEND_TO"})
  BY <1>3, <1>5, MacCounts DEF One
<1>7. /\ Cnt(mbox'["LINK_PHY"], {"FRAME_SEND_REQ"}) = 1
      /\ Cnt(mbox'["LINK_PHY"], {"FRAME_SEND_TO"}) = Cnt(mbox["LINK_PHY"], {"FRAME_SEND_TO"})
  BY <1>4, <1>5, MacCounts DEF One
<1>8. /\ timer'[MacSendTo] = MacTo /\ MacTo # 0 /\ timer'[PhySendTo] = timer[PhySendTo]
  BY <1>1, Numbers, Tasks DEF IInv, Types, TypeOK
<1>9. Holds' /\ fsm["LINK_MAC"] = "handle"
  BY <1>1, <1>6 DEF Holds, MacHandling, Handling
<1>10. Owned'
  <2> SUFFICES ASSUME NEW p \in Pdu
               PROVE  Car(mbox'["LINK"], p) + Car(mbox'["LINK_MAC"], p) + Occ(pduFifo', {p})
                        + One(Holds' /\ macSend'.pdu = p) + One(macRev'.pdu = p)
                      = One(pool'[p] # 0)
    BY DEF Owned
  <2>1. Car(mbox["LINK"], p) + Car(mbox["LINK_MAC"], p) + Occ(pduFifo, {p})
          + One(Holds /\ macSend.pdu = p) + One(macRev.pdu = p) = One(pool[p] # 0)
    BY DEF Safe, Owned
  <2>2. Car(mbox'["LINK_MAC"], p) = Car(mbox["LINK_MAC"], p)
                                    - One(sig = "FRAME_SEND_START" /\ MacMsg.pdu = p)
    <3>1. Head(mbox["LINK_MAC"]).sig = sig /\ (sig \in PduSigs <=> sig = "FRAME_SEND_START")
      BY PduSigsAre DEF MacHandling, Handling
    <3>. QED  BY <1>3, <3>1 DEF Loses, MacMsg, One
  <2>3. One(Holds' /\ macSend'.pdu = p)
          = One(Holds /\ macSend.pdu = p) + One(sig = "FRAME_SEND_START" /\ MacMsg.pdu = p)
    BY <1>1, <1>5, <1>9 DEF One
  <2>4. /\ Car(mbox["LINK_MAC"], p) \in Nat /\ Car(mbox["LINK"], p) \in Nat
        /\ Occ(pduFifo, {p}) \in Nat
    BY MacCounts
  <2>5. /\ mbox'["LINK"] = mbox["LINK"] /\ pduFifo' = pduFifo /\ macRev' = macRev /\ pool' = pool
    BY <1>1, <1>3
  <2>. QED  BY <2>1, <2>2, <2>3, <2>4, <2>5 DEF One
<1>11. InFlight'
  BY <1>5, <1>6, <1>7, <1>9 DEF InFlight, One
<1>12. Starting' /\ Receiving' /\ Fresh' /\ OnlyExhaustion'
  <2>1. Starting'
    BY <1>6 DEF Starting
  <2>2. Receiving' /\ OnlyExhaustion'
    BY <1>1 DEF Safe, Receiving, OnlyExhaustion
  <2>3. Fresh'
    BY <1>1, <1>9 DEF Fresh
  <2>. QED  BY <2>1, <2>2, <2>3
<1>13. PhyTimer'
  BY <1>1, <1>5, <1>7, <1>8, MacCounts DEF Safe, PhyTimer, One
<1>14. MacTimer' /\ Budget'
  BY <1>1, <1>5, <1>6, <1>8, <1>9 DEF Safe, MacTimer, Budget
<1>. QED  BY <1>10, <1>11, <1>12, <1>13, <1>14 DEF Safe

-----------------------------------------------------------------------------
(* A step that does not concern the frame in flight, its timers or the sender. *)
LEMMA SenderKept ==
  ASSUME Safe, UNCHANGED <<macSend, phy>>,
         timer'[PhySendTo] = timer[PhySendTo], timer'[MacSendTo] = timer[MacSendTo],
         PhySendTo \in due' <=> PhySendTo \in due, MacSendTo \in due' <=> MacSendTo \in due,
         mbox'["LINK_PHY"] = mbox["LINK_PHY"],
         Cnt(mbox'["LINK_MAC"], {"FRAME_SEND_START"}) = Cnt(mbox["LINK_MAC"], {"FRAME_SEND_START"}),
         Cnt(mbox'["LINK_MAC"], {"FRAME_SEND_DONE", "FRAME_SEND_ERR"})
           = Cnt(mbox["LINK_MAC"], {"FRAME_SEND_DONE", "FRAME_SEND_ERR"}),
         Cnt(mbox'["LINK_MAC"], {"FRAME_SEND_TO"}) = Cnt(mbox["LINK_MAC"], {"FRAME_SEND_TO"})
  PROVE  (Holds' <=> Holds) /\ InFlight' /\ Starting' /\ PhyTimer' /\ MacTimer' /\ Budget'
<1>1. Holds' <=> Holds
  BY DEF Holds
<1>2. InFlight'
  BY <1>1 DEF Safe, InFlight, One
<1>3. Starting' /\ MacTimer'
  BY <1>1 DEF Safe, Starting, MacTimer
<1>4. PhyTimer'
  BY DEF Safe, PhyTimer
<1>5. Budget'
  BY DEF Safe, Budget
<1>. QED  BY <1>1, <1>2, <1>3, <1>4, <1>5

(* The sum of the owners before a step, as numbers. *)
LEMMA Owners ==
  ASSUME IInv, Safe, NEW p \in Pdu
  PROVE  /\ Car(mbox["LINK"], p) \in Nat /\ Car(mbox["LINK_MAC"], p) \in Nat
         /\ Occ(pduFifo, {p}) \in Nat
         /\ Car(mbox["LINK"], p) + Car(mbox["LINK_MAC"], p) + Occ(pduFifo, {p})
              + One(Holds /\ macSend.pdu = p) + One(macRev.pdu = p) = One(pool[p] # 0)
  BY MacCounts DEF Safe, Owned

(* The MAC layer ends a PDU and starts the next one that waits. *)
LEMMA MacEnds ==
  ASSUME IInv, Safe, NEW sig \in {"FRAME_SEND_DONE", "FRAME_SEND_ERR"}, MacHandling(sig),
         NEW s \in MacSender, s.state = "SENDING", s.pdu = macSend.pdu,
         NEW report \in {"SEND_DONE", "SEND_ERR"}, link_mac_frame_send_end(s, report),
         timer' = [timer EXCEPT ![MacSendTo] = 0], UNCHANGED <<macRev, phy>>
  PROVE  Safe'
<1> DEFINE m == PduMsg(report, s.pdu)
           queue == pduFifo
<1>a. TypeOK /\ Boxes
  BY DEF IInv, Types
<1>1. /\ Holds /\ phy.send = "IDLE" /\ Cnt(mbox["LINK_PHY"], {"FRAME_SEND_REQ"}) = 0
      /\ Cnt(mbox["LINK_MAC"], {"FRAME_SEND_DONE", "FRAME_SEND_ERR"}) = 1
      /\ Cnt(mbox["LINK_MAC"], {"FRAME_SEND_START"}) = 0
  BY MacResult DEF Holds
<1>2. UNCHANGED <<fsm, pool, due, line, fatal>> /\ fsm["LINK_MAC"] = "handle"
  BY DEF link_mac_frame_send_end, MacHandling, Handling
<1>3. /\ timer'[MacSendTo] = 0 /\ timer'[PhySendTo] = timer[PhySendTo]
  BY <1>a, TimerCleared, Tasks DEF TypeOK
<1>4. s.pdu \in Pdu /\ s.pdu # None
  <2>1. s.pdu # None
    BY MacHadPdu
  <2>. QED  BY <2>1 DEF MacSender
<1>5. m \in LinkMsgs /\ m.sig = report /\ m.pdu = s.pdu
  BY <1>4, Posted DEF PduMsg
<1>6. sig \notin Openers /\ m.sig \notin Openers /\ sig \notin PduSigs /\ m.sig \in PduSigs
  BY <1>5, PduSigsAre DEF Openers
<1>7. Head(mbox["LINK_MAC"]).sig = sig
  BY DEF MacHandling, Handling
<1>8. CASE pduFifo # <<>>
  <2> DEFINE n == PduMsg("FRAME_SEND_START", Head(pduFifo))
  <2>1. /\ pduFifo' = Tail(pduFifo) /\ macSend' = s
        /\ Finish("LINK_MAC", [Post("LINK", m) EXCEPT !["LINK_MAC"] = <<n>>])
    BY <1>8 DEF link_mac_frame_send_end
  <2>2. /\ Head(pduFifo) \in Pdu /\ n \in MacMsgs
        /\ n.sig = "FRAME_SEND_START" /\ n.pdu = Head(pduFifo)
    <3>1. Head(pduFifo) \in Pdu
      BY <1>a, <1>8 DEF TypeOK
    <3>. QED  BY <3>1, Posted DEF PduMsg
  <2> HIDE DEF m, n
  <2>3. n.sig \notin Openers /\ n.sig \in PduSigs
    BY <2>2, PduSigsAre DEF Openers
  <2>4. /\ mbox'["LINK_PHY"] = mbox["LINK_PHY"]
        /\ \A S : Cnt(mbox'["LINK_MAC"], S) = Cnt(mbox["LINK_MAC"], S) - One(sig \in S) + One(n.sig \in S)
        /\ Trades(mbox'["LINK_MAC"], mbox["LINK_MAC"], Head(mbox["LINK_MAC"]), n)
        /\ Gains(mbox'["LINK"], mbox["LINK"], m)
    BY <1>2, <1>5, <1>6, <2>1, <2>2, <2>3, MacReportsStarts
  <2>5. /\ Cnt(mbox'["LINK_MAC"], {"FRAME_SEND_START"}) = 1
        /\ Cnt(mbox'["LINK_MAC"], {"FRAME_SEND_DONE", "FRAME_SEND_ERR"}) = 0
        /\ Cnt(mbox'["LINK_MAC"], {"FRAME_SEND_TO"}) = Cnt(mbox["LINK_MAC"], {"FRAME_SEND_TO"})
    BY <1>1, <2>2, <2>4, MacCounts DEF One
  <2>6. ~Holds'
    BY <2>5 DEF Holds
  <2>7. Owned'
    <3> SUFFICES ASSUME NEW p \in Pdu
                 PROVE  Car(mbox'["LINK"], p) + Car(mbox'["LINK_MAC"], p) + Occ(pduFifo', {p})
                          + One(Holds' /\ macSend'.pdu = p) + One(macRev'.pdu = p)
                        = One(pool'[p] # 0)
      BY DEF Owned
    <3>1. Car(mbox'["LINK"], p) = Car(mbox["LINK"], p) + One(s.pdu = p)
      BY <1>5, <1>6, <2>4 DEF Gains, One
    <3>2. Car(mbox'["LINK_MAC"], p) = Car(mbox["LINK_MAC"], p) - 0 + One(Head(pduFifo) = p)
      BY <1>6, <1>7, <2>2, <2>3, <2>4 DEF Trades, One
    <3>3. Occ(pduFifo, {p}) = One(Head(pduFifo) = p) + Occ(pduFifo', {p}) /\ Occ(pduFifo', {p}) \in Nat
      <4>1. pduFifo \in Seq(Pdu) /\ Tail(pduFifo) \in Seq(Pdu)
        BY <1>a, <1>8 DEF TypeOK
      <4>2. Occ(pduFifo, {p}) = One(Head(pduFifo) \in {p}) + Occ(Tail(pduFifo), {p})
        BY <1>8, <4>1, OccTail
      <4>3. Occ(Tail(pduFifo), {p}) \in Nat
        BY <4>1, PlacesFinite
      <4>. QED  BY <2>1, <4>2, <4>3 DEF One
    <3>4. /\ Car(mbox["LINK"], p) \in Nat /\ Car(mbox["LINK_MAC"], p) \in Nat
          /\ Car(mbox["LINK"], p) + Car(mbox["LINK_MAC"], p) + Occ(pduFifo, {p})
               + One(s.pdu = p) + One(macRev.pdu = p) = One(pool[p] # 0)
      BY <1>1, Owners DEF One
    <3>5. One(Holds' /\ macSend'.pdu = p) = 0 /\ macRev' = macRev /\ pool' = pool
      BY <1>2, <2>6 DEF One
    <3>. QED  BY <3>1, <3>2, <3>3, <3>4, <3>5 DEF One
  <2>8. InFlight' /\ Starting'
    BY <1>1, <2>1, <2>4, <2>5, <2>6 DEF InFlight, Starting, One
  <2>9. Receiving' /\ Fresh' /\ OnlyExhaustion'
    BY <1>2 DEF Safe, Receiving, Fresh, OnlyExhaustion
  <2>10. PhyTimer'
    BY <1>2, <1>3, <2>4 DEF Safe, PhyTimer
  <2>11. MacTimer' /\ Budget'
    BY <1>1, <1>2, <1>3, <2>4, <2>5, <2>6 DEF Safe, MacTimer, Budget
  <2>. QED  BY <2>7, <2>8, <2>9, <2>10, <2>11 DEF Safe
<1>9. CASE pduFifo = <<>>
  <2>1. /\ pduFifo' = pduFifo /\ macSend' = [s EXCEPT !.state = "IDLE"]
        /\ Finish("LINK_MAC", Post("LINK", m))
    BY <1>9 DEF link_mac_frame_send_end
  <2>2. macSend'.state = "IDLE"
    BY <2>1 DEF MacSender
  <2> HIDE DEF m
  <2>4. /\ mbox'["LINK_PHY"] = mbox["LINK_PHY"]
        /\ \A S : Cnt(mbox'["LINK_MAC"], S) = Cnt(mbox["LINK_MAC"], S) - One(sig \in S)
        /\ Loses(mbox'["LINK_MAC"], mbox["LINK_MAC"], Head(mbox["LINK_MAC"]))
        /\ Gains(mbox'["LINK"], mbox["LINK"], m)
    BY <1>2, <1>5, <1>6, <2>1, MacReports
  <2>5. /\ Cnt(mbox'["LINK_MAC"], {"FRAME_SEND_START"}) = 0
        /\ Cnt(mbox'["LINK_MAC"], {"FRAME_SEND_DONE", "FRAME_SEND_ERR"}) = 0
        /\ Cnt(mbox'["LINK_MAC"], {"FRAME_SEND_TO"}) = Cnt(mbox["LINK_MAC"], {"FRAME_SEND_TO"})
    BY <1>1, <2>4, MacCounts DEF One
  <2>6. ~Holds'
    BY <2>2 DEF Holds
  <2>7. Owned'
    <3> SUFFICES ASSUME NEW p \in Pdu
                 PROVE  Car(mbox'["LINK"], p) + Car(mbox'["LINK_MAC"], p) + Occ(pduFifo', {p})
                          + One(Holds' /\ macSend'.pdu = p) + One(macRev'.pdu = p)
                        = One(pool'[p] # 0)
      BY DEF Owned
    <3>1. Car(mbox'["LINK"], p) = Car(mbox["LINK"], p) + One(s.pdu = p)
      BY <1>5, <1>6, <2>4 DEF Gains, One
    <3>2. Car(mbox'["LINK_MAC"], p) = Car(mbox["LINK_MAC"], p) - 0
      BY <1>6, <1>7, <2>4 DEF Loses, One
    <3>4. /\ Car(mbox["LINK"], p) \in Nat /\ Car(mbox["LINK_MAC"], p) \in Nat
          /\ Occ(pduFifo, {p}) \in Nat
          /\ Car(mbox["LINK"], p) + Car(mbox["LINK_MAC"], p) + Occ(pduFifo, {p})
               + One(s.pdu = p) + One(macRev.pdu = p) = One(pool[p] # 0)
      BY <1>1, Owners DEF One
    <3>5. /\ One(Holds' /\ macSend'.pdu = p) = 0 /\ macRev' = macRev /\ pool' = pool
          /\ pduFifo' = pduFifo
      BY <1>2, <2>1, <2>6 DEF One
    <3>. QED  BY <3>1, <3>2, <3>4, <3>5 DEF One
  <2>8. InFlight' /\ Starting'
    BY <1>1, <2>4, <2>5, <2>6 DEF InFlight, Starting, One
  <2>9. Receiving' /\ Fresh' /\ OnlyExhaustion'
    BY <1>2 DEF Safe, Receiving, Fresh, OnlyExhaustion
  <2>10. PhyTimer'
    BY <1>2, <1>3, <2>4 DEF Safe, PhyTimer
  <2>11. MacTimer' /\ Budget'
    BY <1>1, <1>2, <1>3, <2>4, <2>5, <2>6 DEF Safe, MacTimer, Budget
  <2>. QED  BY <2>7, <2>8, <2>9, <2>10, <2>11 DEF Safe
<1>. QED  BY <1>8, <1>9

(* It takes a frame of the PDU it receives. *)
LEMMA MacAccepts ==
  ASSUME IInv, Safe, MacHandling("FRAME_REV"),
         NEW r \in MacReceiver, r.state = "RECEIVING", r.pdu \in Pdu, Accept(r),
         \A p \in Pdu : One(pool'[p] # 0) + One(macRev.pdu = p) = One(pool[p] # 0) + One(r.pdu = p),
         UNCHANGED <<fsm, due, fatal, macSend, pduFifo, phy>>
  PROVE  Safe'
<1> DEFINE m == PduMsg("REV_MSG", r.pdu)
           last == MacMsg.frame.fidx = MacMsg.frame.fnum - 1
<1>a. TypeOK /\ Boxes
  BY DEF IInv, Types
<1>1. Head(mbox["LINK_MAC"]).sig = "FRAME_REV" /\ fsm["LINK_MAC"] = "handle"
  BY DEF MacHandling, Handling
<1>2. timer'[PhySendTo] = timer[PhySendTo] /\ timer'[MacSendTo] = timer[MacSendTo]
  BY <1>a, Tasks DEF Accept, timer_set, timer_remove_attr, TypeOK
<1>3. m \in LinkMsgs /\ m.sig = "REV_MSG" /\ m.pdu = r.pdu
  BY Posted DEF PduMsg
<1>4. "FRAME_REV" \notin Openers /\ "REV_MSG" \notin Openers /\ "FRAME_REV" \notin PduSigs
      /\ "REV_MSG" \in PduSigs
  BY PduSigsAre DEF Openers
<1>5. /\ last => macRev' = [r EXCEPT !.state = "IDLE", !.pdu = None] /\ Finish("LINK_MAC", Post("LINK", m))
      /\ ~last => macRev' = r /\ Finish("LINK_MAC", NoPost)
  BY DEF Accept
<1> HIDE DEF m, last
<1>6. /\ mbox'["LINK_PHY"] = mbox["LINK_PHY"]
      /\ \A S : Cnt(mbox'["LINK_MAC"], S) = Cnt(mbox["LINK_MAC"], S) - One("FRAME_REV" \in S)
      /\ Loses(mbox'["LINK_MAC"], mbox["LINK_MAC"], Head(mbox["LINK_MAC"]))
      /\ last => Gains(mbox'["LINK"], mbox["LINK"], m)
      /\ ~last => mbox'["LINK"] = mbox["LINK"]
  <2>1. CASE last
    BY <1>3, <1>4, <1>5, <2>1, MacReports
  <2>2. CASE ~last
    BY <1>4, <1>5, <2>2, MacFinishes
  <2>. QED  BY <2>1, <2>2
<1>7. /\ Cnt(mbox'["LINK_MAC"], {"FRAME_SEND_START"}) = Cnt(mbox["LINK_MAC"], {"FRAME_SEND_START"})
      /\ Cnt(mbox'["LINK_MAC"], {"FRAME_SEND_DONE", "FRAME_SEND_ERR"})
           = Cnt(mbox["LINK_MAC"], {"FRAME_SEND_DONE", "FRAME_SEND_ERR"})
      /\ Cnt(mbox'["LINK_MAC"], {"FRAME_SEND_TO"}) = Cnt(mbox["LINK_MAC"], {"FRAME_SEND_TO"})
  BY <1>6, MacCounts DEF One
<1>8. (Holds' <=> Holds) /\ InFlight' /\ Starting' /\ PhyTimer' /\ MacTimer' /\ Budget'
  BY <1>2, <1>6, <1>7, SenderKept
<1>9. /\ last => macRev'.state = "IDLE" /\ macRev'.pdu = None
      /\ ~last => macRev'.state = "RECEIVING" /\ macRev'.pdu = r.pdu
      /\ r.pdu # None /\ None \notin Pdu
  BY <1>5, NoneIsNoPdu DEF MacReceiver
<1>10. Receiving' /\ Fresh' /\ OnlyExhaustion'
  BY <1>1, <1>9 DEF Safe, Receiving, Fresh, OnlyExhaustion
<1>11. Owned'
  <2> SUFFICES ASSUME NEW p \in Pdu
               PROVE  Car(mbox'["LINK"], p) + Car(mbox'["LINK_MAC"], p) + Occ(pduFifo', {p})
                        + One(Holds' /\ macSend'.pdu = p) + One(macRev'.pdu = p)
                      = One(pool'[p] # 0)
    BY DEF Owned
  <2>1. Car(mbox'["LINK"], p) + One(macRev'.pdu = p) = Car(mbox["LINK"], p) + One(r.pdu = p)
        /\ Car(mbox'["LINK"], p) \in Nat
    <3>1. Car(mbox["LINK"], p) \in Nat
      BY MacCounts
    <3>2. CASE last
      <4>1. Car(mbox'["LINK"], p) = Car(mbox["LINK"], p) + One(r.pdu = p)
        BY <1>3, <1>4, <1>6, <3>2 DEF Gains, One
      <4>. QED  BY <1>9, <3>1, <3>2, <4>1 DEF One
    <3>3. CASE ~last
      BY <1>6, <1>9, <3>1, <3>3
    <3>. QED  BY <3>2, <3>3
  <2>2. Car(mbox'["LINK_MAC"], p) = Car(mbox["LINK_MAC"], p) - 0
    BY <1>1, <1>4, <1>6 DEF Loses, One
  <2>3. /\ Car(mbox["LINK"], p) \in Nat /\ Car(mbox["LINK_MAC"], p) \in Nat
        /\ Occ(pduFifo, {p}) \in Nat
        /\ Car(mbox["LINK"], p) + Car(mbox["LINK_MAC"], p) + Occ(pduFifo, {p})
             + One(Holds /\ macSend.pdu = p) + One(macRev.pdu = p) = One(pool[p] # 0)
    BY Owners
  <2>4. One(Holds' /\ macSend'.pdu = p) = One(Holds /\ macSend.pdu = p) /\ pduFifo' = pduFifo
    BY <1>8
  <2>5. One(pool'[p] # 0) + One(macRev.pdu = p) = One(pool[p] # 0) + One(r.pdu = p)
    OBVIOUS
  <2>6. /\ One(Holds /\ macSend.pdu = p) \in Nat /\ One(macRev.pdu = p) \in Nat
        /\ One(macRev'.pdu = p) \in Nat /\ One(r.pdu = p) \in Nat
        /\ One(pool[p] # 0) \in Nat /\ One(pool'[p] # 0) \in Nat
    BY DEF One
  <2>8. Car(mbox'["LINK"], p) + Car(mbox["LINK_MAC"], p) + Occ(pduFifo, {p})
          + One(Holds /\ macSend.pdu = p) + One(macRev'.pdu = p) = One(pool'[p] # 0)
    <3> DEFINE a == Car(mbox["LINK"], p)
               a1 == Car(mbox'["LINK"], p)
               b == Car(mbox["LINK_MAC"], p) + Occ(pduFifo, {p})
               d == One(Holds /\ macSend.pdu = p)
               e == One(macRev.pdu = p)
               e1 == One(macRev'.pdu = p)
               f == One(pool[p] # 0)
               f1 == One(pool'[p] # 0)
               g == One(r.pdu = p)
    <3>1. /\ a \in Nat /\ a1 \in Nat /\ b \in Nat /\ d \in Nat /\ e \in Nat /\ e1 \in Nat
          /\ f \in Nat /\ f1 \in Nat /\ g \in Nat
      BY <2>1, <2>3, <2>6
    <3>2. a + b + d + e = f /\ a1 + e1 = a + g /\ f1 + e = f + g
      BY <2>1, <2>3, <2>5
    <3>3. a1 + b + d + e1 = f1
      <4> HIDE DEF a, a1, b, d, e, e1, f, f1, g
      <4>. QED  BY <3>1, <3>2
    <3>. QED  BY <2>1, <2>3, <2>6, <3>3
  <2>9. Car(mbox'["LINK_MAC"], p) = Car(mbox["LINK_MAC"], p) /\ Occ(pduFifo', {p}) = Occ(pduFifo, {p})
    BY <2>2, <2>3, <2>4
  <2>. QED  BY <2>4, <2>8, <2>9
<1>. QED  BY <1>8, <1>10, <1>11 DEF Safe

(* The process stops for want of a PDU: nothing else changes. *)
LEMMA FatalSafe ==
  ASSUME Safe, Fatal("LINK_PDU 01"), UNCHANGED <<phy, macSend, pduFifo, macRev>>
  PROVE  Safe'
<1>1. UNCHANGED <<mbox, fsm, pool, timer, due, phy, macSend, pduFifo, macRev>>
      /\ fatal' = "LINK_PDU 01"
  BY DEF Fatal
<1>2. (Holds' <=> Holds) /\ Starting' /\ Receiving' /\ Fresh' /\ PhyTimer' /\ Budget'
  BY <1>1 DEF Safe, Holds, Starting, Receiving, Fresh, PhyTimer, Budget
<1>3. Owned' /\ InFlight' /\ MacTimer'
  BY <1>1, <1>2 DEF Safe, Owned, InFlight, MacTimer, One
<1>. QED  BY <1>1, <1>2, <1>3 DEF Safe, OnlyExhaustion

(* Before the PHY layer starts, the message that starts it is on its way. *)
LEMMA NotStarted ==
  ASSUME IInv, NEW t \in Task, mbox[t] # <<>>, Head(mbox[t]).sig = "INIT"
  PROVE  /\ fsm["LINK_PHY"] = "init" /\ fsm["LINK_MAC"] = "init" /\ fsm["LINK"] = "init"
<1>1. Boxes /\ Handshake
  BY DEF IInv, Types
<1>2. /\ Cnt(mbox["LINK"], {"INIT"}) \in Nat /\ Cnt(mbox["LINK_MAC"], {"INIT"}) \in Nat
      /\ Cnt(mbox["LINK_PHY"], {"INIT"}) \in Nat
      /\ Cnt(mbox["LINK_MAC"], {"PHY_LAYER_STARTED"}) \in Nat
      /\ Cnt(mbox["LINK"], {"MAC_LAYER_STARTED"}) \in Nat
  BY <1>1, BoxFacts, Tasks
<1>3. Cnt(mbox[t], {"INIT"}) # 0
  BY <1>1, HeadCounts DEF Boxes
<1>4. Inits \in Nat /\ Inits # 0
  BY <1>2, <1>3, Tasks DEF Inits
<1>. QED  BY <1>1, <1>2, <1>4 DEF Handshake, One

(* A PDU for the MAC layer to send is started or waits in the fifo, which has room. *)
LEMMA MacQueues ==
  ASSUME IInv, Safe, MacSendReq, UNCHANGED phy
  PROVE  Safe'
<1> DEFINE q == MacMsg.pdu
<1>a. TypeOK /\ Boxes /\ pduFifo \in Seq(Pdu)
  BY DEF IInv, Types, TypeOK
<1>1. MacHandling("FRAME_SEND_REQ") /\ macRev' = macRev
  BY DEF MacSendReq
<1>2. /\ mbox["LINK_MAC"] # <<>> /\ Head(mbox["LINK_MAC"]).sig = "FRAME_SEND_REQ"
      /\ MacMsg = Head(mbox["LINK_MAC"]) /\ fsm["LINK_MAC"] = "handle"
  BY <1>1 DEF MacHandling, Handling, MacMsg
<1>3. /\ q \in Pdu /\ Car(mbox["LINK_MAC"], q) = 1 /\ Occ(pduFifo, {q}) = 0
  BY <1>2, MacInUse
<1>4. "FRAME_SEND_REQ" \notin Openers /\ "FRAME_SEND_REQ" \in PduSigs
  BY PduSigsAre DEF Openers
<1>5. CASE macSend.state = "IDLE"
  <2> DEFINE n == PduMsg("FRAME_SEND_START", q)
  <2>1. /\ macSend' = [macSend EXCEPT !.state = "SENDING"] /\ Finish("LINK_MAC", Post("LINK_MAC", n))
        /\ UNCHANGED <<fsm, pool, timer, due, line, fatal, pduFifo>>
    BY <1>5 DEF MacSendReq
  <2>2. n \in MacMsgs /\ n.sig = "FRAME_SEND_START" /\ n.pdu = q
    BY <1>3, Posted DEF PduMsg
  <2>3. macSend'.state = "SENDING"
    BY <1>a, <2>1 DEF TypeOK, MacSender
  <2> HIDE DEF n
  <2>4. n.sig \notin Openers /\ n.sig \in PduSigs
    BY <2>2, PduSigsAre DEF Openers
  <2>5. /\ mbox'["LINK"] = mbox["LINK"] /\ mbox'["LINK_PHY"] = mbox["LINK_PHY"]
        /\ \A S : Cnt(mbox'["LINK_MAC"], S) = Cnt(mbox["LINK_MAC"], S)
                                              - One("FRAME_SEND_REQ" \in S) + One(n.sig \in S)
        /\ Trades(mbox'["LINK_MAC"], mbox["LINK_MAC"], Head(mbox["LINK_MAC"]), n)
    BY <1>1, <1>4, <2>1, <2>2, <2>4, MacStarts
  <2>6. ~Holds /\ Cnt(mbox["LINK_MAC"], {"FRAME_SEND_START"}) = 0
    BY <1>5 DEF Holds, Safe, Starting
  <2>7. /\ Cnt(mbox'["LINK_MAC"], {"FRAME_SEND_START"}) = 1
        /\ Cnt(mbox'["LINK_MAC"], {"FRAME_SEND_DONE", "FRAME_SEND_ERR"})
             = Cnt(mbox["LINK_MAC"], {"FRAME_SEND_DONE", "FRAME_SEND_ERR"})
        /\ Cnt(mbox'["LINK_MAC"], {"FRAME_SEND_TO"}) = Cnt(mbox["LINK_MAC"], {"FRAME_SEND_TO"})
    BY <2>2, <2>5, <2>6, MacCounts DEF One
  <2>8. ~Holds'
    BY <2>7 DEF Holds
  <2>9. Owned'
    <3> SUFFICES ASSUME NEW p \in Pdu
                 PROVE  Car(mbox'["LINK"], p) + Car(mbox'["LINK_MAC"], p) + Occ(pduFifo', {p})
                          + One(Holds' /\ macSend'.pdu = p) + One(macRev'.pdu = p)
                        = One(pool'[p] # 0)
      BY DEF Owned
    <3>1. Car(mbox'["LINK_MAC"], p) = Car(mbox["LINK_MAC"], p) - One(q = p) + One(q = p)
      BY <1>2, <1>4, <2>2, <2>4, <2>5 DEF Trades, One
    <3>2. Car(mbox'["LINK_MAC"], p) = Car(mbox["LINK_MAC"], p)
      BY <3>1, MacCounts DEF One
    <3>3. One(Holds' /\ macSend'.pdu = p) = One(Holds /\ macSend.pdu = p)
      BY <2>6, <2>8 DEF One
    <3>4. pduFifo' = pduFifo /\ mbox'["LINK"] = mbox["LINK"] /\ macRev' = macRev /\ pool' = pool
      BY <1>1, <2>1, <2>5
    <3>. QED  BY <3>2, <3>3, <3>4, Owners
  <2>10. InFlight' /\ Starting'
    BY <2>3, <2>5, <2>6, <2>7, <2>8 DEF Safe, InFlight, Starting, One
  <2>11. Receiving' /\ Fresh' /\ OnlyExhaustion'
    BY <1>1, <1>2, <2>1 DEF Safe, Receiving, Fresh, OnlyExhaustion
  <2>12. PhyTimer' /\ MacTimer' /\ Budget'
    BY <2>1, <2>5, <2>6, <2>7, <2>8 DEF Safe, PhyTimer, MacTimer, Budget
  <2>. QED  BY <2>9, <2>10, <2>11, <2>12 DEF Safe
<1>6. Len(pduFifo) < FifoSize
  <2>1. ASSUME NEW p \in Pdu PROVE Occ(pduFifo, {p}) <= 1
    <3>1. /\ Car(mbox["LINK"], p) \in Nat /\ Car(mbox["LINK_MAC"], p) \in Nat
          /\ Occ(pduFifo, {p}) \in Nat
          /\ Car(mbox["LINK"], p) + Car(mbox["LINK_MAC"], p) + Occ(pduFifo, {p})
               + One(Holds /\ macSend.pdu = p) + One(macRev.pdu = p) = One(pool[p] # 0)
      BY Owners
    <3>. QED  BY <3>1 DEF One
  <2>. QED  BY <1>a, <1>3, <2>1, PduIsFinite, CountedOnceIsShort DEF FifoSize
<1>7. CASE macSend.state = "SENDING"
  <2>1. /\ pduFifo' = Append(pduFifo, q) /\ Finish("LINK_MAC", NoPost)
        /\ UNCHANGED <<fsm, pool, timer, due, line, fatal, macSend>>
    <3>1. ~(Len(pduFifo) = FifoSize)
      BY <1>6, Numbers
    <3>. QED  BY <1>7, <3>1 DEF MacSendReq
  <2>2. /\ mbox'["LINK"] = mbox["LINK"] /\ mbox'["LINK_PHY"] = mbox["LINK_PHY"]
        /\ \A S : Cnt(mbox'["LINK_MAC"], S) = Cnt(mbox["LINK_MAC"], S) - One("FRAME_SEND_REQ" \in S)
        /\ Loses(mbox'["LINK_MAC"], mbox["LINK_MAC"], Head(mbox["LINK_MAC"]))
    BY <1>1, <1>4, <2>1, MacFinishes
  <2>3. /\ Cnt(mbox'["LINK_MAC"], {"FRAME_SEND_START"}) = Cnt(mbox["LINK_MAC"], {"FRAME_SEND_START"})
        /\ Cnt(mbox'["LINK_MAC"], {"FRAME_SEND_DONE", "FRAME_SEND_ERR"})
             = Cnt(mbox["LINK_MAC"], {"FRAME_SEND_DONE", "FRAME_SEND_ERR"})
        /\ Cnt(mbox'["LINK_MAC"], {"FRAME_SEND_TO"}) = Cnt(mbox["LINK_MAC"], {"FRAME_SEND_TO"})
    BY <2>2, MacCounts DEF One
  <2>4. (Holds' <=> Holds) /\ InFlight' /\ Starting' /\ PhyTimer' /\ MacTimer' /\ Budget'
    BY <2>1, <2>2, <2>3, SenderKept
  <2>5. Owned'
    <3> SUFFICES ASSUME NEW p \in Pdu
                 PROVE  Car(mbox'["LINK"], p) + Car(mbox'["LINK_MAC"], p) + Occ(pduFifo', {p})
                          + One(Holds' /\ macSend'.pdu = p) + One(macRev'.pdu = p)
                        = One(pool'[p] # 0)
      BY DEF Owned
    <3>1. Car(mbox'["LINK_MAC"], p) = Car(mbox["LINK_MAC"], p) - One(q = p)
      BY <1>2, <1>4, <2>2 DEF Loses, One
    <3>2. Occ(pduFifo', {p}) = Occ(pduFifo, {p}) + One(q = p)
      <4>1. Occ(Append(pduFifo, q), {p}) = Occ(pduFifo, {p}) + One(q \in {p})
        BY <1>a, <1>3, OccAppend
      <4>. QED  BY <2>1, <4>1 DEF One
    <3>3. One(Holds' /\ macSend'.pdu = p) = One(Holds /\ macSend.pdu = p)
      BY <2>1, <2>4
    <3>4. mbox'["LINK"] = mbox["LINK"] /\ macRev' = macRev /\ pool' = pool
      BY <1>1, <2>1, <2>2
    <3>5. /\ Car(mbox["LINK"], p) \in Nat /\ Car(mbox["LINK_MAC"], p) \in Nat
          /\ Occ(pduFifo, {p}) \in Nat
          /\ Car(mbox["LINK"], p) + Car(mbox["LINK_MAC"], p) + Occ(pduFifo, {p})
               + One(Holds /\ macSend.pdu = p) + One(macRev.pdu = p) = One(pool[p] # 0)
      BY Owners
    <3>6. Car(mbox'["LINK_MAC"], p) + Occ(pduFifo', {p}) = Car(mbox["LINK_MAC"], p) + Occ(pduFifo, {p})
      BY <3>1, <3>2, <3>5 DEF One
    <3>7. Car(mbox'["LINK_MAC"], p) \in Int /\ Occ(pduFifo', {p}) \in Int
      BY <3>1, <3>2, <3>5 DEF One
    <3>. QED  BY <3>3, <3>4, <3>5, <3>6, <3>7 DEF One
  <2>6. Receiving' /\ Fresh' /\ OnlyExhaustion'
    BY <1>1, <1>2, <2>1 DEF Safe, Receiving, Fresh, OnlyExhaustion
  <2>. QED  BY <2>4, <2>5, <2>6 DEF Safe
<1>. QED  BY <1>5, <1>7, MacCounts

(* It ignores a frame, or gives up the PDU it receives. *)
LEMMA MacIgnores ==
  ASSUME IInv, Safe, NEW sig \in {"FRAME_REV", "FRAME_REV_TO"}, MacHandling(sig),
         Finish("LINK_MAC", NoPost), Receiving',
         \A p \in Pdu : One(pool'[p] # 0) + One(macRev.pdu = p)
                          = One(pool[p] # 0) + One(macRev'.pdu = p),
         UNCHANGED <<fsm, timer, due, fatal, macSend, pduFifo, phy>>
  PROVE  Safe'
<1>1. Head(mbox["LINK_MAC"]).sig = sig /\ fsm["LINK_MAC"] = "handle"
      /\ sig \notin Openers /\ sig \notin PduSigs
  BY PduSigsAre DEF MacHandling, Handling, Openers
<1>2. /\ mbox'["LINK"] = mbox["LINK"] /\ mbox'["LINK_PHY"] = mbox["LINK_PHY"]
      /\ \A S : Cnt(mbox'["LINK_MAC"], S) = Cnt(mbox["LINK_MAC"], S) - One(sig \in S)
      /\ Loses(mbox'["LINK_MAC"], mbox["LINK_MAC"], Head(mbox["LINK_MAC"]))
  BY <1>1, MacFinishes
<1>3. /\ Cnt(mbox'["LINK_MAC"], {"FRAME_SEND_START"}) = Cnt(mbox["LINK_MAC"], {"FRAME_SEND_START"})
      /\ Cnt(mbox'["LINK_MAC"], {"FRAME_SEND_DONE", "FRAME_SEND_ERR"})
           = Cnt(mbox["LINK_MAC"], {"FRAME_SEND_DONE", "FRAME_SEND_ERR"})
      /\ Cnt(mbox'["LINK_MAC"], {"FRAME_SEND_TO"}) = Cnt(mbox["LINK_MAC"], {"FRAME_SEND_TO"})
  BY <1>2, MacCounts DEF One
<1>4. (Holds' <=> Holds) /\ InFlight' /\ Starting' /\ PhyTimer' /\ MacTimer' /\ Budget'
  BY <1>2, <1>3, SenderKept
<1>5. Owned'
  <2> SUFFICES ASSUME NEW p \in Pdu
               PROVE  Car(mbox'["LINK"], p) + Car(mbox'["LINK_MAC"], p) + Occ(pduFifo', {p})
                        + One(Holds' /\ macSend'.pdu = p) + One(macRev'.pdu = p)
                      = One(pool'[p] # 0)
    BY DEF Owned
  <2>1. Car(mbox'["LINK_MAC"], p) = Car(mbox["LINK_MAC"], p)
    BY <1>1, <1>2, MacCounts DEF Loses, One
  <2>2. /\ One(Holds' /\ macSend'.pdu = p) = One(Holds /\ macSend.pdu = p) /\ pduFifo' = pduFifo
        /\ mbox'["LINK"] = mbox["LINK"]
    BY <1>2, <1>4
  <2>3. /\ Car(mbox["LINK"], p) \in Nat /\ Car(mbox["LINK_MAC"], p) \in Nat
        /\ Occ(pduFifo, {p}) \in Nat
        /\ Car(mbox["LINK"], p) + Car(mbox["LINK_MAC"], p) + Occ(pduFifo, {p})
             + One(Holds /\ macSend.pdu = p) + One(macRev.pdu = p) = One(pool[p] # 0)
    BY Owners
  <2>4. Car(mbox["LINK"], p) + Car(mbox["LINK_MAC"], p) + Occ(pduFifo, {p})
          + One(Holds /\ macSend.pdu = p) + One(macRev'.pdu = p) = One(pool'[p] # 0)
    <3> DEFINE b == Car(mbox["LINK"], p) + Car(mbox["LINK_MAC"], p) + Occ(pduFifo, {p})
               d == One(Holds /\ macSend.pdu = p)
               e == One(macRev.pdu = p)
               e1 == One(macRev'.pdu = p)
               f == One(pool[p] # 0)
               f1 == One(pool'[p] # 0)
    <3>1. b \in Nat /\ d \in Nat /\ e \in Nat /\ e1 \in Nat /\ f \in Nat /\ f1 \in Nat
      BY <2>3 DEF One
    <3>2. b + d + e = f /\ f1 + e = f + e1
      BY <2>3
    <3>3. b + d + e1 = f1
      <4> HIDE DEF b, d, e, e1, f, f1
      <4>. QED  BY <3>1, <3>2
    <3>. QED  BY <3>3
  <2>. QED  BY <2>1, <2>2, <2>4
<1>6. Fresh' /\ OnlyExhaustion'
  BY <1>1 DEF Safe, Fresh, OnlyExhaustion
<1>. QED  BY <1>4, <1>5, <1>6 DEF Safe

LEMMA MacSafe ==
  ASSUME IInv, Safe, MacStep
  PROVE  Safe'
<1> DEFINE box == mbox["LINK_MAC"]
<1>a. TypeOK /\ Boxes /\ InOrder /\ Dormant /\ (macRev.state = "RECEIVING" => macRev.pdu \in Pdu)
  BY DEF IInv, Types
<1>c. phy' = phy
  BY DEF MacStep
<1>d. \A S : Cnt(mbox["LINK_MAC"], S) \in Nat /\ Cnt(mbox["LINK_PHY"], S) \in Nat
  BY MacCounts
<1>e. \A p : Car(mbox["LINK_MAC"], p) \in Nat /\ Car(mbox["LINK"], p) \in Nat
  BY MacCounts
<1>1. CASE MacInitLower
  <2> DEFINE m == [sig |-> "INIT"]
  <2>1. /\ box # <<>> /\ Head(box).sig = "INIT" /\ Finish("LINK_MAC", Post("LINK_PHY", m))
        /\ UNCHANGED <<fsm, pool, timer, due, line, fatal, macSend, pduFifo, macRev>>
    BY <1>1 DEF MacInitLower, Handling, macVars
  <2>2. m \in PhyMsgs /\ m.sig = "INIT"
    BY Posted
  <2> HIDE DEF m
  <2>3. /\ mbox'["LINK"] = mbox["LINK"]
        /\ Loses(mbox'["LINK_MAC"], mbox["LINK_MAC"], Head(box))
        /\ Gains(mbox'["LINK_PHY"], mbox["LINK_PHY"], m)
    BY <1>a, <2>1, <2>2, FinishPost, Tasks
  <2>4. fsm["LINK_PHY"] = "init"
    BY <2>1, NotStarted, Tasks
  <2>5. /\ phy.send = "IDLE" /\ timer[PhySendTo] = 0 /\ PhySendTo \notin due
        /\ Cnt(mbox["LINK_PHY"], {"FRAME_SEND_REQ", "FRAME_SEND_TO"}) = 0
    BY <1>a, <2>4 DEF Dormant, InOrder
  <2>6. /\ Cnt(mbox["LINK_PHY"], {"FRAME_SEND_REQ"}) = 0
        /\ Cnt(mbox["LINK_PHY"], {"FRAME_SEND_TO"}) = 0
    BY <1>a, <2>5, CntZero, Tasks DEF Boxes
  <2>7. \A S : Cnt(mbox'["LINK_PHY"], S) = Cnt(mbox["LINK_PHY"], S) + One("INIT" \in S)
    BY <2>2, <2>3 DEF Gains
  <2>8. /\ Cnt(mbox'["LINK_PHY"], {"FRAME_SEND_REQ"}) = 0
        /\ Cnt(mbox'["LINK_PHY"], {"FRAME_SEND_TO"}) = 0
    BY <2>6, <2>7 DEF One
  <2>9. \A S : Cnt(mbox'["LINK_MAC"], S) = Cnt(mbox["LINK_MAC"], S) - One("INIT" \in S)
    BY <2>1, <2>3 DEF Loses
  <2>10. /\ Cnt(mbox'["LINK_MAC"], {"FRAME_SEND_START"}) = Cnt(mbox["LINK_MAC"], {"FRAME_SEND_START"})
         /\ Cnt(mbox'["LINK_MAC"], {"FRAME_SEND_DONE", "FRAME_SEND_ERR"})
              = Cnt(mbox["LINK_MAC"], {"FRAME_SEND_DONE", "FRAME_SEND_ERR"})
         /\ Cnt(mbox'["LINK_MAC"], {"FRAME_SEND_TO"}) = Cnt(mbox["LINK_MAC"], {"FRAME_SEND_TO"})
    BY <1>d, <2>9 DEF One
  <2>11. \A p : Car(mbox'["LINK_MAC"], p) = Car(mbox["LINK_MAC"], p)
    <3>1. Head(box).sig \notin PduSigs
      BY <2>1, PduSigsAre
    <3>. QED  BY <1>e, <2>3, <3>1 DEF Loses, One
  <2>12. (Holds' <=> Holds) /\ Owned' /\ Starting' /\ Receiving' /\ Fresh' /\ OnlyExhaustion'
    BY <2>1, <2>3, <2>10, <2>11, OwnersKept
  <2>13. InFlight'
    BY <1>c, <2>6, <2>8, <2>10, <2>12 DEF Safe, InFlight, One
  <2>14. PhyTimer' /\ MacTimer' /\ Budget'
    BY <1>c, <2>1, <2>5, <2>8, <2>10, <2>12 DEF Safe, PhyTimer, MacTimer, Budget, One
  <2>. QED  BY <2>12, <2>13, <2>14 DEF Safe
<1>2. CASE MacStart
  <2> DEFINE m == [sig |-> "MAC_LAYER_STARTED"]
  <2>1. /\ box # <<>> /\ Head(box).sig = "PHY_LAYER_STARTED" /\ fsm["LINK_MAC"] = "init"
        /\ pduFifo' = <<>> /\ macSend' = [macSend EXCEPT !.state = "IDLE", !.seq = 0]
        /\ \E s \in 0 .. MacSeqMod - 1 : macRev' = [macRev EXCEPT !.state = "IDLE", !.seq = s]
        /\ fsm' = [fsm EXCEPT !["LINK_MAC"] = "handle"]
        /\ Finish("LINK_MAC", Post("LINK", m))
        /\ UNCHANGED <<pool, timer, due, line, fatal>>
    BY <1>2 DEF MacStart, Handling
  <2>2. m \in LinkMsgs /\ m.sig = "MAC_LAYER_STARTED"
    BY Posted
  <2> HIDE DEF m
  <2>3. /\ mbox'["LINK_PHY"] = mbox["LINK_PHY"]
        /\ Loses(mbox'["LINK_MAC"], mbox["LINK_MAC"], Head(box))
        /\ Gains(mbox'["LINK"], mbox["LINK"], m)
    <3>1. "LINK" \in Task \ {"LINK_MAC"} /\ "LINK_PHY" \in Task \ {"LINK_MAC", "LINK"}
          /\ "LINK_MAC" \in Task /\ m \in MsgsOf("LINK")
      BY <2>2, Tasks
    <3>. QED  BY <1>a, <2>1, <3>1, FinishPost
  <2>4. macSend'.state = "IDLE" /\ macRev'.state = "IDLE" /\ macRev'.pdu = macRev.pdu
    BY <1>a, <2>1 DEF TypeOK, MacSender, MacReceiver
  <2>5. /\ macSend.state = "IDLE" /\ macRev.state = "IDLE" /\ pduFifo = <<>>
        /\ fsm'["LINK_MAC"] = "handle"
    BY <1>a, <2>1, Tasks DEF Dormant, Safe, Fresh, TypeOK
  <2>6. ~Holds /\ ~Holds'
    BY <2>4, <2>5 DEF Holds
  <2>7. \A S : Cnt(mbox'["LINK_MAC"], S) = Cnt(mbox["LINK_MAC"], S) - One("PHY_LAYER_STARTED" \in S)
    BY <2>1, <2>3 DEF Loses
  <2>8. /\ Cnt(mbox'["LINK_MAC"], {"FRAME_SEND_START"}) = Cnt(mbox["LINK_MAC"], {"FRAME_SEND_START"})
        /\ Cnt(mbox'["LINK_MAC"], {"FRAME_SEND_DONE", "FRAME_SEND_ERR"})
             = Cnt(mbox["LINK_MAC"], {"FRAME_SEND_DONE", "FRAME_SEND_ERR"})
        /\ Cnt(mbox'["LINK_MAC"], {"FRAME_SEND_TO"}) = Cnt(mbox["LINK_MAC"], {"FRAME_SEND_TO"})
    BY <1>d, <2>7 DEF One
  <2>9. /\ \A p : Car(mbox'["LINK_MAC"], p) = Car(mbox["LINK_MAC"], p)
        /\ \A p : Car(mbox'["LINK"], p) = Car(mbox["LINK"], p)
    <3>1. Head(box).sig \notin PduSigs /\ m.sig \notin PduSigs
      BY <2>1, <2>2, PduSigsAre
    <3>. QED  BY <1>e, <2>3, <3>1 DEF Loses, Gains, One
  <2>10. Owned' /\ InFlight'
    <3>1. Owned'
      BY <2>1, <2>4, <2>5, <2>6, <2>9 DEF Safe, Owned, One
    <3>2. InFlight'
      BY <1>c, <2>3, <2>6, <2>8 DEF Safe, InFlight, One
    <3>. QED  BY <3>1, <3>2
  <2>11. Starting' /\ Receiving' /\ Fresh' /\ OnlyExhaustion'
    <3>1. Cnt(mbox["LINK_MAC"], {"FRAME_SEND_START"}) = 0
      BY <2>5 DEF Safe, Starting
    <3>2. Starting' /\ OnlyExhaustion'
      BY <2>1, <2>8, <3>1 DEF Safe, Starting, OnlyExhaustion
    <3>3. Receiving' /\ Fresh'
      BY <2>4, <2>5 DEF Safe, Receiving, Fresh
    <3>. QED  BY <3>2, <3>3
  <2>12. PhyTimer' /\ MacTimer' /\ Budget'
    BY <1>c, <2>1, <2>3, <2>6, <2>8 DEF Safe, PhyTimer, MacTimer, Budget
  <2>. QED  BY <2>10, <2>11, <2>12 DEF Safe
<1>3. CASE MacDrop
  <2>1. box # <<>> /\ Head(box).sig \notin {"INIT", "PHY_LAYER_STARTED"} /\ fsm["LINK_MAC"] = "init"
    BY <1>3 DEF MacDrop, Drop
  <2>2. Head(box).sig \in MacEarly
    BY <1>a, <2>1, OrderedTail, Tasks DEF Boxes, InOrder, MacEarly
  <2>. QED  BY <2>1, <2>2 DEF MacEarly
<1>4. CASE MacSendReq
  BY <1>4, <1>c, MacQueues
<1>5. CASE MacSendStart
  <2> DEFINE s == [macSend EXCEPT !.retry = 0, !.pdu = MacMsg.pdu, !.seq = (@ + 1) % MacSeqMod,
                                  !.frame = [seq |-> macSend.seq, fidx |-> 0,
                                             fnum |-> pool[MacMsg.pdu]]]
  <2>1. MacHandling("FRAME_SEND_START") /\ macRev' = macRev
    BY <1>5 DEF MacSendStart
  <2>2. macSend.state = "SENDING" /\ MacMsg.pdu \in Pdu /\ pool[MacMsg.pdu] # 0
    BY <2>1, MacToStart
  <2>3. link_mac_frame_send_req(s)
    BY <1>5, <2>2 DEF MacSendStart
  <2>4. s \in MacSender /\ s.state = "SENDING" /\ s.pdu = MacMsg.pdu
    <3>1. /\ macSend \in MacSender /\ macSend.seq \in 0 .. MacSeqMod - 1
          /\ pool[MacMsg.pdu] \in 0..MaxFrames
      BY <1>a, <2>2 DEF TypeOK, MacSender
    <3>2. (macSend.seq + 1) % MacSeqMod \in 0 .. MacSeqMod - 1
      <4>1. macSend.seq + 1 \in Nat
        BY <3>1, BoundsAreNat
      <4>. QED  BY <4>1, Numbers
    <3>3. [seq |-> macSend.seq, fidx |-> 0, fnum |-> pool[MacMsg.pdu]] \in Frame
      BY <3>1 DEF Frame
    <3>4. 0 \in Counter
      BY DEF Counter
    <3>. QED  BY <2>2, <3>1, <3>2, <3>3, <3>4 DEF MacSender
  <2> HIDE DEF s
  <2>. QED  BY <1>c, <2>1, <2>3, <2>4, MacTransmits
<1>6. CASE MacSendDone
  <2> DEFINE s == [macSend EXCEPT !.frame.fidx = @ + 1]
  <2>1. MacHandling("FRAME_SEND_DONE") /\ macRev' = macRev
    BY <1>6 DEF MacSendDone
  <2>2. macSend.state = "SENDING"
    BY <2>1, MacResult DEF Holds
  <2>3. s \in MacSender /\ s.state = "SENDING" /\ s.pdu = macSend.pdu
    <3> DEFINE f == [macSend.frame EXCEPT !.fidx = @ + 1]
    <3>1. macSend \in MacSender /\ f \in Frame
      <4>1. macSend \in MacSender /\ macSend.frame \in Frame
        BY <1>a DEF TypeOK, MacSender
      <4>2. \A g \in Frame : [g EXCEPT !.fidx = @ + 1] \in Frame
        BY DEF Frame
      <4>. QED  BY <4>1, <4>2
    <3>2. s = [macSend EXCEPT !.frame = f]
      BY <3>1
    <3> HIDE DEF f, s
    <3>. QED  BY <2>2, <3>1, <3>2 DEF MacSender
  <2>4. \/ link_mac_frame_send_req(s)
        \/ timer_remove_attr(MacSendTo) /\ link_mac_frame_send_end(s, "SEND_DONE")
    BY <1>6, <2>2 DEF MacSendDone
  <2> HIDE DEF s
  <2>5. CASE link_mac_frame_send_req(s)
    BY <1>c, <2>1, <2>3, <2>5, MacTransmits
  <2>6. CASE timer_remove_attr(MacSendTo) /\ link_mac_frame_send_end(s, "SEND_DONE")
    <3>1. timer' = [timer EXCEPT ![MacSendTo] = 0]
      BY <2>6 DEF timer_remove_attr
    <3>. QED  BY <1>c, <2>1, <2>3, <2>6, <3>1, MacEnds
  <2>. QED  BY <2>4, <2>5, <2>6
<1>7. CASE MacSendErr
  <2> DEFINE again == [macSend EXCEPT !.retry = Increment(@), !.frame.fidx = 0]
             given == [macSend EXCEPT !.retry = Increment(@)]
  <2>1. MacHandling("FRAME_SEND_ERR") /\ macRev' = macRev
    BY <1>7 DEF MacSendErr
  <2>2. macSend.state = "SENDING" /\ Increment(macSend.retry) \in Counter
    BY <1>a, <2>1, MacResult, Numbers DEF Holds, TypeOK, MacSender
  <2>3. /\ again \in MacSender /\ again.state = "SENDING" /\ again.pdu = macSend.pdu
        /\ given \in MacSender /\ given.state = "SENDING" /\ given.pdu = macSend.pdu
    BY <1>a, <2>2 DEF TypeOK, MacSender, Frame
  <2>4. \/ link_mac_frame_send_req(again)
        \/ timer_remove_attr(MacSendTo) /\ link_mac_frame_send_end(given, "SEND_ERR")
    BY <1>7 DEF MacSendErr, Resend, Abandon
  <2> HIDE DEF again, given
  <2>5. CASE link_mac_frame_send_req(again)
    BY <1>c, <2>1, <2>3, <2>5, MacTransmits
  <2>6. CASE timer_remove_attr(MacSendTo) /\ link_mac_frame_send_end(given, "SEND_ERR")
    <3>1. timer' = [timer EXCEPT ![MacSendTo] = 0]
      BY <2>6 DEF timer_remove_attr
    <3>. QED  BY <1>c, <2>1, <2>3, <2>6, <3>1, MacEnds
  <2>. QED  BY <2>4, <2>5, <2>6
<1>8. CASE MacSendTimeout
  <2>1. Cnt(mbox["LINK_MAC"], {"FRAME_SEND_TO"}) # 0
    BY <1>8, MacCounts DEF MacSendTimeout, MacHandling, Handling
  <2>. QED  BY <2>1 DEF Safe, MacTimer
<1>9. CASE MacFrameRev
  <2>1. MacHandling("FRAME_REV") /\ UNCHANGED <<macSend, pduFifo>>
    BY <1>9 DEF MacFrameRev
  <2>2. MacMsg.frame \in AnyFrame
    BY <1>a, <2>1, HeadIsMsg, MsgFields, Tasks DEF MacMsg, MacHandling, Handling
  <2>3. CASE Opens
    <3>1. CASE FreePdu = {}
      BY <1>9, <1>c, <2>1, <2>3, <3>1, FatalSafe DEF MacFrameRev, Opens, Continues
    <3>2. CASE FreePdu # {}
      <4>1. PICK q \in FreePdu :
              /\ pool' = [pool EXCEPT ![q] = 1]
              /\ Accept([state |-> "RECEIVING", pdu |-> q, seq |-> MacMsg.frame.seq])
              /\ UNCHANGED <<fsm, due, line, fatal>>
        BY <1>9, <2>3, <3>2 DEF MacFrameRev, Opens, Continues
      <4> DEFINE r == [state |-> "RECEIVING", pdu |-> q, seq |-> MacMsg.frame.seq]
      <4>2. r \in MacReceiver /\ r.state = "RECEIVING" /\ r.pdu = q /\ q \in Pdu /\ Accept(r)
        BY <2>2, <4>1 DEF FreePdu, MacReceiver, AnyFrame
      <4> HIDE DEF r
      <4>3. macRev.pdu = None /\ pool[q] = 0
        BY <2>3, <4>1 DEF Safe, Receiving, Opens, FreePdu
      <4>4. \A p \in Pdu : One(pool'[p] # 0) + One(macRev.pdu = p) = One(pool[p] # 0) + One(r.pdu = p)
        <5>1. \A p \in Pdu : pool'[p] = IF p = q THEN 1 ELSE pool[p]
          BY <1>a, <4>1 DEF TypeOK
        <5>2. \A p \in Pdu : macRev.pdu # p
          BY <4>3, NoneIsNoPdu
        <5>. QED  BY <4>2, <4>3, <5>1, <5>2 DEF One
      <4>. QED  BY <1>c, <2>1, <4>1, <4>2, <4>4, MacAccepts
    <3>. QED  BY <3>1, <3>2
  <2>4. CASE Continues
    <3>1. Accept(macRev) /\ UNCHANGED <<fsm, pool, due, line, fatal>>
      BY <1>9, <2>4 DEF MacFrameRev, Opens, Continues
    <3>2. macRev \in MacReceiver /\ macRev.state = "RECEIVING" /\ macRev.pdu \in Pdu
      BY <1>a, <2>4 DEF TypeOK, Continues
    <3>. QED  BY <1>c, <2>1, <3>1, <3>2, MacAccepts
  <2>5. CASE ~Opens /\ ~Continues
    <3>1. Finish("LINK_MAC", NoPost) /\ UNCHANGED <<fsm, pool, timer, due, line, fatal, macRev>>
      BY <1>9, <2>5 DEF MacFrameRev
    <3>2. Receiving'
      BY <3>1 DEF Safe, Receiving
    <3>. QED  BY <1>c, <2>1, <3>1, <3>2, MacIgnores
  <2>. QED  BY <2>3, <2>4, <2>5
<1>10. CASE MacRevTimeout
  <2>1. MacHandling("FRAME_REV_TO") /\ UNCHANGED <<macSend, pduFifo>>
    BY <1>10 DEF MacRevTimeout
  <2>2. CASE macRev.state = "IDLE"
    <3>1. Finish("LINK_MAC", NoPost) /\ UNCHANGED <<fsm, pool, timer, due, line, fatal, macRev>>
      BY <1>10, <2>2 DEF MacRevTimeout
    <3>2. Receiving'
      BY <3>1 DEF Safe, Receiving
    <3>. QED  BY <1>c, <2>1, <3>1, <3>2, MacIgnores
  <2>3. CASE macRev.state = "RECEIVING"
    <3> DEFINE q == macRev.pdu
    <3>1. q \in Pdu /\ pool[q] # 0
      <4>1. q \in Pdu
        BY <1>a, <2>3
      <4>2. /\ Car(mbox["LINK"], q) \in Nat /\ Car(mbox["LINK_MAC"], q) \in Nat
            /\ Occ(pduFifo, {q}) \in Nat
            /\ Car(mbox["LINK"], q) + Car(mbox["LINK_MAC"], q) + Occ(pduFifo, {q})
                 + One(Holds /\ macSend.pdu = q) + One(macRev.pdu = q) = One(pool[q] # 0)
        BY <4>1, Owners
      <4>. QED  BY <4>1, <4>2 DEF One
    <3>2. /\ pool' = [pool EXCEPT ![q] = 0] /\ macRev' = [macRev EXCEPT !.state = "IDLE", !.pdu = None]
          /\ Finish("LINK_MAC", NoPost) /\ UNCHANGED <<fsm, timer, due, line, fatal>>
      BY <1>10, <2>3, <3>1 DEF MacRevTimeout
    <3>3. macRev'.state = "IDLE" /\ macRev'.pdu = None
      BY <1>a, <3>2 DEF TypeOK, MacReceiver
    <3>4. \A p \in Pdu : One(pool'[p] # 0) + One(macRev.pdu = p) = One(pool[p] # 0) + One(macRev'.pdu = p)
      <4>1. \A p \in Pdu : pool'[p] = IF p = q THEN 0 ELSE pool[p]
        BY <1>a, <3>2 DEF TypeOK
      <4>2. \A p \in Pdu : macRev'.pdu # p
        BY <3>3, NoneIsNoPdu
      <4>. QED  BY <3>1, <4>1, <4>2 DEF One
    <3>5. Receiving'
      BY <3>3 DEF Receiving
    <3>. QED  BY <1>c, <2>1, <3>2, <3>4, <3>5, MacIgnores
  <2>. QED  BY <1>a, <2>2, <2>3 DEF TypeOK, MacReceiver
<1>. QED  BY <1>1, <1>2, <1>3, <1>4, <1>5, <1>6, <1>7, <1>8, <1>9, <1>10 DEF MacStep, MacNext

-----------------------------------------------------------------------------
(* A step that concerns no PDU and no frame in flight. *)
LEMMA AllKept ==
  ASSUME Safe, UNCHANGED <<macSend, pduFifo, macRev, pool, fatal, phy>>,
         fsm'["LINK_MAC"] = fsm["LINK_MAC"],
         timer'[PhySendTo] = timer[PhySendTo], timer'[MacSendTo] = timer[MacSendTo],
         PhySendTo \in due' <=> PhySendTo \in due, MacSendTo \in due' <=> MacSendTo \in due,
         mbox'["LINK_PHY"] = mbox["LINK_PHY"],
         \A p : Car(mbox'["LINK"], p) = Car(mbox["LINK"], p),
         \A p : Car(mbox'["LINK_MAC"], p) = Car(mbox["LINK_MAC"], p),
         Cnt(mbox'["LINK_MAC"], {"FRAME_SEND_START"}) = Cnt(mbox["LINK_MAC"], {"FRAME_SEND_START"}),
         Cnt(mbox'["LINK_MAC"], {"FRAME_SEND_DONE", "FRAME_SEND_ERR"})
           = Cnt(mbox["LINK_MAC"], {"FRAME_SEND_DONE", "FRAME_SEND_ERR"}),
         Cnt(mbox'["LINK_MAC"], {"FRAME_SEND_TO"}) = Cnt(mbox["LINK_MAC"], {"FRAME_SEND_TO"})
  PROVE  Safe'
<1>1. Owned' /\ Receiving' /\ Fresh' /\ OnlyExhaustion'
  BY OwnersKept
<1>2. InFlight' /\ Starting' /\ PhyTimer' /\ MacTimer' /\ Budget'
  BY SenderKept
<1>. QED  BY <1>1, <1>2 DEF Safe

(* LINK starts last. *)
LEMMA LinkStartsLast ==
  ASSUME IInv, fsm["LINK"] = "handle"
  PROVE  fsm["LINK_MAC"] # "init"
<1>1. Boxes /\ Handshake
  BY DEF IInv, Types
<1>2. /\ Cnt(mbox["LINK"], {"INIT"}) \in Nat /\ Cnt(mbox["LINK_MAC"], {"INIT"}) \in Nat
      /\ Cnt(mbox["LINK_PHY"], {"INIT"}) \in Nat
      /\ Cnt(mbox["LINK_MAC"], {"PHY_LAYER_STARTED"}) \in Nat
      /\ Cnt(mbox["LINK"], {"MAC_LAYER_STARTED"}) \in Nat
  BY <1>1, BoxFacts, Tasks
<1>3. Inits \in Nat
  BY <1>2 DEF Inits
<1>. QED  BY <1>1, <1>2, <1>3 DEF Handshake, One

(* A PDU that ended or was received is freed: it was in use. *)
LEMMA LinkFrees ==
  ASSUME IInv, Safe, NEW sig \in {"SEND_DONE", "SEND_ERR", "REV_MSG"}, LinkHandling(sig),
         NEW code, link_pdu_free(LinkMsg.pdu, code), UNCHANGED <<phy, macSend, pduFifo, macRev>>
  PROVE  Safe'
<1> DEFINE q == LinkMsg.pdu
<1>a. TypeOK /\ Boxes
  BY DEF IInv, Types
<1>1. /\ mbox["LINK"] # <<>> /\ Head(mbox["LINK"]).sig = sig /\ fsm["LINK"] = "handle"
      /\ LinkMsg = Head(mbox["LINK"]) /\ sig \notin Openers /\ sig \in PduSigs
  BY PduSigsAre DEF LinkHandling, Handling, LinkMsg, Openers
<1>2. q \in Pdu /\ Car(mbox["LINK"], q) # 0
  BY <1>a, <1>1, HeadIsMsg, MsgFields, HeadCarries, Tasks DEF Boxes
<1>3. pool[q] # 0
  <2>1. /\ Car(mbox["LINK"], q) \in Nat /\ Car(mbox["LINK_MAC"], q) \in Nat
        /\ Occ(pduFifo, {q}) \in Nat
        /\ Car(mbox["LINK"], q) + Car(mbox["LINK_MAC"], q) + Occ(pduFifo, {q})
             + One(Holds /\ macSend.pdu = q) + One(macRev.pdu = q) = One(pool[q] # 0)
    BY <1>2, Owners
  <2>2. ASSUME NEW a \in Nat, NEW b \in Nat, NEW c \in Nat, NEW d \in Nat, NEW e \in Nat, NEW f,
               a + b + c + d + e = f, a # 0
        PROVE  f # 0
    BY <2>2
  <2>3. One(Holds /\ macSend.pdu = q) \in Nat /\ One(macRev.pdu = q) \in Nat
    BY DEF One
  <2>4. One(pool[q] # 0) # 0
    BY <1>2, <2>1, <2>2, <2>3
  <2>. QED  BY <2>4 DEF One
<1>4. /\ pool' = [pool EXCEPT ![q] = 0] /\ Finish("LINK", NoPost)
      /\ UNCHANGED <<fsm, timer, due, line, fatal>>
  BY <1>3 DEF link_pdu_free
<1>5. /\ mbox'["LINK_MAC"] = mbox["LINK_MAC"] /\ mbox'["LINK_PHY"] = mbox["LINK_PHY"]
      /\ Loses(mbox'["LINK"], mbox["LINK"], Head(mbox["LINK"]))
  BY <1>1, <1>4, LinkFinishes
<1>6. (Holds' <=> Holds) /\ InFlight' /\ Starting' /\ PhyTimer' /\ MacTimer' /\ Budget'
  BY <1>4, <1>5, SenderKept
<1>7. Owned'
  <2> SUFFICES ASSUME NEW p \in Pdu
               PROVE  Car(mbox'["LINK"], p) + Car(mbox'["LINK_MAC"], p) + Occ(pduFifo', {p})
                        + One(Holds' /\ macSend'.pdu = p) + One(macRev'.pdu = p)
                      = One(pool'[p] # 0)
    BY DEF Owned
  <2>1. Car(mbox'["LINK"], p) = Car(mbox["LINK"], p) - One(q = p)
    BY <1>1, <1>5 DEF Loses, One
  <2>2. pool'[p] = IF p = q THEN 0 ELSE pool[p]
    BY <1>a, <1>4 DEF TypeOK
  <2>3. One(pool'[p] # 0) = One(pool[p] # 0) - One(q = p)
    BY <1>3, <2>2 DEF One
  <2>4. /\ One(Holds' /\ macSend'.pdu = p) = One(Holds /\ macSend.pdu = p)
        /\ pduFifo' = pduFifo /\ mbox'["LINK_MAC"] = mbox["LINK_MAC"] /\ macRev' = macRev
    BY <1>5, <1>6
  <2>5. /\ Car(mbox["LINK"], p) \in Nat /\ Car(mbox["LINK_MAC"], p) \in Nat
        /\ Occ(pduFifo, {p}) \in Nat
        /\ Car(mbox["LINK"], p) + Car(mbox["LINK_MAC"], p) + Occ(pduFifo, {p})
             + One(Holds /\ macSend.pdu = p) + One(macRev.pdu = p) = One(pool[p] # 0)
    BY Owners
  <2>6. /\ One(Holds /\ macSend.pdu = p) \in Nat /\ One(macRev.pdu = p) \in Nat
        /\ One(pool[p] # 0) \in Nat /\ One(q = p) \in Nat
    BY DEF One
  <2>7. (Car(mbox["LINK"], p) - One(q = p)) + Car(mbox["LINK_MAC"], p) + Occ(pduFifo, {p})
          + One(Holds /\ macSend.pdu = p) + One(macRev.pdu = p) = One(pool[p] # 0) - One(q = p)
    <3> DEFINE a == Car(mbox["LINK"], p)
               b == Car(mbox["LINK_MAC"], p) + Occ(pduFifo, {p})
               d == One(Holds /\ macSend.pdu = p)
               e == One(macRev.pdu = p)
               f == One(pool[p] # 0)
               g == One(q = p)
    <3>1. a \in Nat /\ b \in Nat /\ d \in Nat /\ e \in Nat /\ f \in Nat /\ g \in Nat
      BY <2>5, <2>6
    <3>2. a + b + d + e = f
      BY <2>5, <2>6
    <3>3. (a - g) + b + d + e = f - g
      <4> HIDE DEF a, b, d, e, f, g
      <4>. QED  BY <3>1, <3>2
    <3>. QED  BY <2>5, <2>6, <3>3
  <2>. QED  BY <2>1, <2>3, <2>4, <2>7
<1>8. Receiving' /\ Fresh' /\ OnlyExhaustion'
  <2>1. fsm'["LINK_MAC"] # "init"
    BY <1>1, <1>4, LinkStartsLast
  <2>. QED  BY <1>4, <2>1 DEF Safe, Receiving, Fresh, OnlyExhaustion
<1>. QED  BY <1>6, <1>7, <1>8 DEF Safe

(* A message of the client becomes a PDU on its way to the MAC layer. *)
LEMMA LinkForwards ==
  ASSUME IInv, Safe, LinkSendMsg, UNCHANGED <<phy, macSend, pduFifo, macRev>>
  PROVE  Safe'
<1>a. TypeOK /\ Boxes
  BY DEF IInv, Types
<1>1. /\ LinkHandling("SEND_MSG") /\ mbox["LINK"] # <<>> /\ Head(mbox["LINK"]).sig = "SEND_MSG"
      /\ fsm["LINK"] = "handle" /\ LinkMsg = Head(mbox["LINK"])
  BY DEF LinkSendMsg, LinkHandling, Handling, LinkMsg
<1>2. LinkMsg.frames # 0
  <2>1. LinkMsg.frames \in 1..MaxFrames
    BY <1>a, <1>1, HeadIsMsg, MsgFields, Tasks
  <2>. QED  BY <2>1, BoundsAreNat
<1>3. CASE FreePdu = {}
  BY <1>3, FatalSafe DEF LinkSendMsg
<1>4. CASE FreePdu # {}
  <2>1. PICK q \in FreePdu :
          /\ pool' = [pool EXCEPT ![q] = LinkMsg.frames]
          /\ Finish("LINK", Post("LINK_MAC", [sig |-> "FRAME_SEND_REQ", pdu |-> q]))
          /\ UNCHANGED <<fsm, timer, due, line, fatal>>
    BY <1>4 DEF LinkSendMsg
  <2> DEFINE m == PduMsg("FRAME_SEND_REQ", q)
  <2>2. /\ q \in Pdu /\ pool[q] = 0 /\ m \in MacMsgs /\ m.sig = "FRAME_SEND_REQ" /\ m.pdu = q
        /\ Finish("LINK", Post("LINK_MAC", m))
    BY <2>1, Posted DEF FreePdu, PduMsg
  <2> HIDE DEF m
  <2>3. /\ "SEND_MSG" \notin Openers /\ "SEND_MSG" \notin PduSigs
        /\ m.sig \notin Openers /\ m.sig \in PduSigs
    BY <2>2, PduSigsAre DEF Openers
  <2>4. /\ mbox'["LINK_PHY"] = mbox["LINK_PHY"]
        /\ Loses(mbox'["LINK"], mbox["LINK"], Head(mbox["LINK"]))
        /\ Gains(mbox'["LINK_MAC"], mbox["LINK_MAC"], m)
    BY <1>1, <2>1, <2>2, <2>3, LinkSends
  <2>5. \A S : Cnt(mbox'["LINK_MAC"], S) = Cnt(mbox["LINK_MAC"], S) + One("FRAME_SEND_REQ" \in S)
    BY <2>2, <2>4 DEF Gains
  <2>6. /\ Cnt(mbox'["LINK_MAC"], {"FRAME_SEND_START"}) = Cnt(mbox["LINK_MAC"], {"FRAME_SEND_START"})
        /\ Cnt(mbox'["LINK_MAC"], {"FRAME_SEND_DONE", "FRAME_SEND_ERR"})
             = Cnt(mbox["LINK_MAC"], {"FRAME_SEND_DONE", "FRAME_SEND_ERR"})
        /\ Cnt(mbox'["LINK_MAC"], {"FRAME_SEND_TO"}) = Cnt(mbox["LINK_MAC"], {"FRAME_SEND_TO"})
    BY <2>5, MacCounts DEF One
  <2>7. (Holds' <=> Holds) /\ InFlight' /\ Starting' /\ PhyTimer' /\ MacTimer' /\ Budget'
    BY <2>1, <2>4, <2>6, SenderKept
  <2>8. Owned'
    <3> SUFFICES ASSUME NEW p \in Pdu
                 PROVE  Car(mbox'["LINK"], p) + Car(mbox'["LINK_MAC"], p) + Occ(pduFifo', {p})
                          + One(Holds' /\ macSend'.pdu = p) + One(macRev'.pdu = p)
                        = One(pool'[p] # 0)
      BY DEF Owned
    <3>1. Car(mbox'["LINK"], p) = Car(mbox["LINK"], p)
      BY <1>1, <2>3, <2>4, MacCounts DEF Loses, One
    <3>2. Car(mbox'["LINK_MAC"], p) = Car(mbox["LINK_MAC"], p) + One(q = p)
      BY <2>2, <2>3, <2>4 DEF Gains, One
    <3>3. pool'[p] = IF p = q THEN LinkMsg.frames ELSE pool[p]
      BY <1>a, <2>1 DEF TypeOK
    <3>4. One(pool'[p] # 0) = One(pool[p] # 0) + One(q = p)
      BY <1>2, <2>2, <3>3 DEF One
    <3>5. /\ One(Holds' /\ macSend'.pdu = p) = One(Holds /\ macSend.pdu = p)
          /\ pduFifo' = pduFifo /\ macRev' = macRev
      BY <2>7
    <3>6. /\ Car(mbox["LINK"], p) \in Nat /\ Car(mbox["LINK_MAC"], p) \in Nat
          /\ Occ(pduFifo, {p}) \in Nat
          /\ Car(mbox["LINK"], p) + Car(mbox["LINK_MAC"], p) + Occ(pduFifo, {p})
               + One(Holds /\ macSend.pdu = p) + One(macRev.pdu = p) = One(pool[p] # 0)
      BY Owners
    <3>7. /\ One(Holds /\ macSend.pdu = p) \in Nat /\ One(macRev.pdu = p) \in Nat
          /\ One(pool[p] # 0) \in Nat /\ One(q = p) \in Nat
      BY DEF One
    <3>8. Car(mbox["LINK"], p) + (Car(mbox["LINK_MAC"], p) + One(q = p)) + Occ(pduFifo, {p})
            + One(Holds /\ macSend.pdu = p) + One(macRev.pdu = p) = One(pool[p] # 0) + One(q = p)
      <4> DEFINE a == Car(mbox["LINK"], p)
                 b == Car(mbox["LINK_MAC"], p)
                 c == Occ(pduFifo, {p})
                 d == One(Holds /\ macSend.pdu = p)
                 e == One(macRev.pdu = p)
                 f == One(pool[p] # 0)
                 g == One(q = p)
      <4>1. /\ a \in Nat /\ b \in Nat /\ c \in Nat /\ d \in Nat /\ e \in Nat /\ f \in Nat /\ g \in Nat
            /\ a + b + c + d + e = f
        BY <3>6, <3>7
      <4>2. a + (b + g) + c + d + e = f + g
        <5> HIDE DEF a, b, c, d, e, f, g
        <5>. QED  BY <4>1
      <4>. QED  BY <4>2
    <3>. QED  BY <3>1, <3>2, <3>4, <3>5, <3>8
  <2>9. Receiving' /\ Fresh' /\ OnlyExhaustion'
    <3>1. fsm'["LINK_MAC"] # "init"
      BY <1>1, <2>1, LinkStartsLast
    <3>. QED  BY <2>1, <3>1 DEF Safe, Receiving, Fresh, OnlyExhaustion
  <2>. QED  BY <2>7, <2>8, <2>9 DEF Safe
<1>. QED  BY <1>3, <1>4

LEMMA LinkSafe ==
  ASSUME IInv, Safe, LinkStep
  PROVE  Safe'
<1> DEFINE box == mbox["LINK"]
<1>a. TypeOK /\ Boxes /\ InOrder
  BY DEF IInv, Types
<1>c. UNCHANGED <<phy, macSend, pduFifo, macRev>>
  BY DEF LinkStep, macVars
<1>1. CASE LinkInit
  <2> DEFINE m == [sig |-> "INIT"]
  <2>1. /\ box # <<>> /\ Head(box).sig = "INIT" /\ pool' = [p \in Pdu |-> 0]
        /\ Finish("LINK", Post("LINK_MAC", m)) /\ UNCHANGED <<fsm, timer, due, line, fatal>>
    BY <1>1 DEF LinkInit, Handling
  <2>2. m \in MacMsgs /\ m.sig = "INIT" /\ "INIT" \notin PduSigs
    BY Posted, PduSigsAre
  <2> HIDE DEF m
  <2>3. /\ mbox'["LINK_PHY"] = mbox["LINK_PHY"]
        /\ Loses(mbox'["LINK"], mbox["LINK"], Head(box))
        /\ Gains(mbox'["LINK_MAC"], mbox["LINK_MAC"], m)
    <3>1. "LINK_MAC" \in Task \ {"LINK"} /\ "LINK_PHY" \in Task \ {"LINK", "LINK_MAC"}
          /\ "LINK" \in Task /\ m \in MsgsOf("LINK_MAC")
      BY <2>2, Tasks
    <3>. QED  BY <1>a, <2>1, <3>1, FinishPost
  <2>4. pool' = pool
    <3>1. \A p \in Pdu : pool[p] = 0
      BY <2>1, NotStarted, Tasks DEF Safe, Fresh
    <3>. QED  BY <1>a, <2>1, <3>1 DEF TypeOK
  <2>5. /\ \A p : Car(mbox'["LINK"], p) = Car(mbox["LINK"], p)
        /\ \A p : Car(mbox'["LINK_MAC"], p) = Car(mbox["LINK_MAC"], p)
    BY <2>1, <2>2, <2>3, MacCounts DEF Loses, Gains, One
  <2>6. \A S : Cnt(mbox'["LINK_MAC"], S) = Cnt(mbox["LINK_MAC"], S) + One("INIT" \in S)
    BY <2>2, <2>3 DEF Gains
  <2>7. /\ Cnt(mbox'["LINK_MAC"], {"FRAME_SEND_START"}) = Cnt(mbox["LINK_MAC"], {"FRAME_SEND_START"})
        /\ Cnt(mbox'["LINK_MAC"], {"FRAME_SEND_DONE", "FRAME_SEND_ERR"})
             = Cnt(mbox["LINK_MAC"], {"FRAME_SEND_DONE", "FRAME_SEND_ERR"})
        /\ Cnt(mbox'["LINK_MAC"], {"FRAME_SEND_TO"}) = Cnt(mbox["LINK_MAC"], {"FRAME_SEND_TO"})
    BY <2>6, MacCounts DEF One
  <2>. QED  BY <1>c, <2>1, <2>3, <2>4, <2>5, <2>7, AllKept
<1>2. ASSUME box # <<>>, Head(box).sig \notin PduSigs, Finish("LINK", NoPost),
             fsm'["LINK_MAC"] = fsm["LINK_MAC"], UNCHANGED <<pool, timer, due, line, fatal>>
      PROVE  Safe'
  <2>1. /\ mbox'["LINK_MAC"] = mbox["LINK_MAC"] /\ mbox'["LINK_PHY"] = mbox["LINK_PHY"]
        /\ Loses(mbox'["LINK"], mbox["LINK"], Head(box))
    BY <1>a, <1>2, FinishNoPost, Tasks
  <2>2. \A p : Car(mbox'["LINK"], p) = Car(mbox["LINK"], p)
    BY <1>2, <2>1, MacCounts DEF Loses, One
  <2>. QED  BY <1>2, <1>c, <2>1, <2>2, AllKept
<1>3. CASE LinkStart
  <2>1. /\ box # <<>> /\ Head(box).sig = "MAC_LAYER_STARTED" /\ Finish("LINK", NoPost)
        /\ fsm' = [fsm EXCEPT !["LINK"] = "handle"] /\ UNCHANGED <<pool, timer, due, line, fatal>>
    BY <1>3 DEF LinkStart, Handling
  <2>2. fsm'["LINK_MAC"] = fsm["LINK_MAC"]
    BY <1>a, <2>1, Tasks DEF TypeOK
  <2>. QED  BY <1>2, <2>1, <2>2, PduSigsAre
<1>4. CASE LinkDrop
  <2>1. /\ box # <<>> /\ Head(box).sig \notin {"INIT", "MAC_LAYER_STARTED"} /\ fsm["LINK"] = "init"
        /\ Finish("LINK", NoPost) /\ UNCHANGED <<fsm, pool, timer, due, line, fatal>>
    BY <1>4 DEF LinkDrop, Drop
  <2>2. Head(box).sig \in LinkEarly
    BY <1>a, <2>1, OrderedTail, Tasks DEF Boxes, InOrder, LinkEarly
  <2>3. Head(box).sig \notin PduSigs
    BY <2>1, <2>2, PduSigsAre DEF LinkEarly
  <2>. QED  BY <1>2, <2>1, <2>3
<1>5. CASE LinkSendMsg
  BY <1>5, <1>c, LinkForwards
<1>6. CASE LinkSendDone
  BY <1>6, <1>c, LinkFrees DEF LinkSendDone
<1>7. CASE LinkSendErr
  BY <1>7, <1>c, LinkFrees DEF LinkSendErr
<1>8. CASE LinkRevMsg
  BY <1>8, <1>c, LinkFrees DEF LinkRevMsg
<1>. QED  BY <1>1, <1>3, <1>4, <1>5, <1>6, <1>7, <1>8 DEF LinkStep, LinkNext

-----------------------------------------------------------------------------
(* The timer thread and the tasks do not overtake each other. *)
LEMMA NotLate ==
  ASSUME MaxLate = 0, IInv, NEW b, CountLate(b)
  PROVE  ~b
<1>1. late \in 0..0
  BY DEF IInv, Types, TypeOK
<1>. QED  BY <1>1 DEF CountLate

(* A message arrives for the PHY layer from the line. *)
LEMMA ComesSafe ==
  ASSUME IInv, Safe, due = {},
         NEW m \in PhyMsgs, m.sig \in {"FRAME_REV", "FRAME_REV_CS_ERR"},
         mbox' = [mbox EXCEPT !["LINK_PHY"] = Append(@, m)],
         UNCHANGED <<fsm, pool, timer, due, fatal, phy, macSend, pduFifo, macRev>>
  PROVE  Safe'
<1> DEFINE box == mbox["LINK_PHY"]
<1>a. TypeOK /\ Boxes
  BY DEF IInv, Types
<1>1. UNCHANGED <<fsm, pool, timer, due, fatal, phy, macSend, pduFifo, macRev>>
  OBVIOUS
<1>2. /\ mbox'["LINK"] = mbox["LINK"] /\ mbox'["LINK_MAC"] = mbox["LINK_MAC"]
      /\ mbox'["LINK_PHY"] = Append(box, m) /\ Gains(mbox'["LINK_PHY"], box, m)
  BY <1>a, BoxAppend, Tasks
<1>3. due = {}
  OBVIOUS
<1>4. box \in Seq(AllMsgs) /\ \A S : Cnt(box, S) \in Nat
  BY <1>a, BoxFacts, Tasks
<1>5. /\ Cnt(mbox'["LINK_PHY"], {"FRAME_SEND_REQ"}) = Cnt(box, {"FRAME_SEND_REQ"})
      /\ Cnt(mbox'["LINK_PHY"], {"FRAME_SEND_TO"}) = Cnt(box, {"FRAME_SEND_TO"})
  BY <1>2, <1>4 DEF Gains, One
<1>6. (Holds' <=> Holds) /\ Owned' /\ Starting' /\ Receiving' /\ Fresh' /\ OnlyExhaustion'
  BY <1>1, <1>2, OwnersKept
<1>7. InFlight' /\ MacTimer' /\ Budget'
  BY <1>1, <1>2, <1>5, <1>6 DEF Safe, InFlight, MacTimer, Budget, One
<1>8. PhyTimer'
  <2>1. Cnt(box, {"FRAME_SEND_TO"}) # 0 => Head(mbox'["LINK_PHY"]) = Head(box)
    <3>1. Cnt(box, {"FRAME_SEND_TO"}) # 0 => box # <<>>
      BY CntEmpty
    <3>2. m \in AllMsgs
      BY DEF AllMsgs
    <3>. QED  BY <1>2, <1>4, <3>1, <3>2
  <2>. QED  BY <1>1, <1>3, <1>5, <2>1 DEF Safe, PhyTimer
<1>. QED  BY <1>6, <1>7, <1>8 DEF Safe

LEMMA ReceivesSafe ==
  ASSUME MaxLate = 0, IInv, Safe, NEW m \in PhyMsgs, m.sig \in {"FRAME_REV", "FRAME_REV_CS_ERR"},
         Arrives("LINK_PHY", m)
  PROVE  Safe'
<1>1. due = {}
  BY NotLate DEF Arrives, TimerFree
<1>. QED  BY <1>1, ComesSafe DEF Arrives, macVars

LEMMA PeerSafe ==
  ASSUME MaxLate = 0, IInv, Safe, PeerHears \/ PeerSends \/ PeerGarbled
  PROVE  Safe'
<1>1. CASE PeerHears
  <2>1. CASE UNCHANGED <<mbox, fsm, pool, timer, due, fatal, phy, macVars, late>>
    BY <2>1, AllKept DEF macVars
  <2>2. ASSUME NEW type \in {"ACK", "NACK"}, Head(line).type = "REQ", line # <<>>,
               Arrives("LINK_PHY", [sig |-> "FRAME_REV", frame |-> Answer(type, Head(line).seq)])
        PROVE  Safe'
    <3> DEFINE m == [sig |-> "FRAME_REV", frame |-> Answer(type, Head(line).seq)]
    <3>1. Head(line) \in PhyFrame
      BY <2>2 DEF IInv, Types
    <3>2. Answer(type, Head(line).seq) \in PhyFrame
      <4>1. Head(line).seq \in 0 .. PhySeqMod - 1 /\ line \in Seq(PhyFrame) /\ Len(line) <= LineMax
        BY <3>1 DEF PhyFrame, IInv, Types, TypeOK
      <4>. QED  BY <4>1, AnswerType
    <3>3. m \in PhyMsgs /\ m.sig = "FRAME_REV"
      BY <3>2, Posted
    <3> HIDE DEF m
    <3>. QED  BY <2>2, <3>3, ReceivesSafe DEF m
  <2>. QED  BY <1>1, <2>1, <2>2 DEF PeerHears
<1>2. CASE PeerSends
  <2>1. PICK f \in PeerFrame :
          Arrives("LINK_PHY", [sig |-> "FRAME_REV", frame |-> [type |-> "REQ", seq |-> 0, mac |-> f]])
    BY <1>2 DEF PeerSends
  <2> DEFINE m == [sig |-> "FRAME_REV", frame |-> [type |-> "REQ", seq |-> 0, mac |-> f]]
  <2>2. m \in PhyMsgs /\ m.sig = "FRAME_REV"
    <3>1. f \in AnyFrame /\ 0 \in 0 .. PhySeqMod - 1
      BY PeerFrameIsFrame, BoundsAreNat
    <3>2. [type |-> "REQ", seq |-> 0, mac |-> f] \in PhyFrame
      BY <3>1 DEF PhyFrame
    <3>. QED  BY <3>2, Posted
  <2> HIDE DEF m
  <2>. QED  BY <2>1, <2>2, ReceivesSafe DEF m
<1>3. CASE PeerGarbled
  <2> DEFINE m == [sig |-> "FRAME_REV_CS_ERR", frame |-> Answer("NACK", 0)]
  <2>1. Arrives("LINK_PHY", m)
    BY <1>3 DEF PeerGarbled
  <2>2. m \in PhyMsgs /\ m.sig = "FRAME_REV_CS_ERR"
    <3>1. Answer("NACK", 0) \in PhyFrame
      <4>1. 0 \in 0 .. PhySeqMod - 1 /\ line \in Seq(PhyFrame) /\ Len(line) <= LineMax
        BY BoundsAreNat DEF IInv, Types, TypeOK
      <4>. QED  BY <4>1, AnswerType
    <3>. QED  BY <3>1, Posted
  <2> HIDE DEF m
  <2>. QED  BY <2>1, <2>2, ReceivesSafe
<1>. QED  BY <1>1, <1>2, <1>3

LEMMA ClientSafe ==
  ASSUME IInv, Safe, ClientSends
  PROVE  Safe'
<1>a. Boxes
  BY DEF IInv, Types
<1>1. PICK n \in 1..MaxFrames : Arrives("LINK", [sig |-> "SEND_MSG", frames |-> n])
  BY DEF ClientSends
<1> DEFINE m == [sig |-> "SEND_MSG", frames |-> n]
<1>2. m \in LinkMsgs /\ m.sig \notin PduSigs
  BY Posted, PduSigsAre
<1>3. /\ mbox' = [mbox EXCEPT !["LINK"] = Append(@, m)]
      /\ UNCHANGED <<fsm, pool, timer, due, fatal, phy, macSend, pduFifo, macRev>>
  BY <1>1 DEF Arrives, macVars
<1> HIDE DEF m
<1>4. /\ mbox'["LINK_MAC"] = mbox["LINK_MAC"] /\ mbox'["LINK_PHY"] = mbox["LINK_PHY"]
      /\ Gains(mbox'["LINK"], mbox["LINK"], m)
  BY <1>a, <1>2, <1>3, BoxAppend, Tasks
<1>5. \A p : Car(mbox'["LINK"], p) = Car(mbox["LINK"], p)
  BY <1>2, <1>4, MacCounts DEF Gains, One
<1>. QED  BY <1>3, <1>4, <1>5, AllKept

(* The retry counter of the PHY layer, once it is at most one past its limit. *)
LEMMA RetryRange == \A r \in Counter : r <= MaxRetry + 1 => r \in 0 .. MaxRetry + 1
<1>1. MaxRetry \in Nat
  BY LeftFacts
<1>2. SUFFICES ASSUME NEW r \in Counter, r <= MaxRetry + 1 PROVE r \in 0 .. MaxRetry + 1
  OBVIOUS
<1>3. r \in Nat
  BY DEF Counter
<1>. QED  BY <1>1, <1>2, <1>3

(* A tick finds the tasks idle: the timer of the MAC layer has more than one tick left. *)
LEMMA TickedSafe ==
  ASSUME IInv, Safe, due = {}, \A t \in Task : mbox[t] = <<>>,
         timer' = [k \in TimerKey |-> IF timer[k] = 0 THEN 0 ELSE timer[k] - 1],
         due' = {k \in TimerKey : timer[k] = 1},
         UNCHANGED <<mbox, fsm, pool, fatal, phy, macSend, pduFifo, macRev>>
  PROVE  Safe'
<1>a. TypeOK
  BY DEF IInv, Types
<1>1. /\ due = {} /\ timer' = [k \in TimerKey |-> IF timer[k] = 0 THEN 0 ELSE timer[k] - 1]
      /\ due' = {k \in TimerKey : timer[k] = 1}
      /\ UNCHANGED <<mbox, fsm, pool, fatal, phy, macSend, pduFifo, macRev>>
  OBVIOUS
<1>2. \A t \in Task : mbox[t] = <<>>
  OBVIOUS
<1>3. \A t \in Task : \A S : Cnt(mbox[t], S) = 0
  BY <1>2, CntEmpty
<1>4. (Holds' <=> Holds) /\ Owned' /\ Starting' /\ Receiving' /\ Fresh' /\ OnlyExhaustion'
  BY <1>1, OwnersKept
<1>5. Holds <=> phy.send = "SENDING"
  <2>1. 0 + One(phy.send = "SENDING") + 0 = One(Holds)
    BY <1>3, Tasks DEF Safe, InFlight
  <2>. QED  BY <2>1 DEF One
<1>6. timer[PhySendTo] # 0 <=> phy.send = "SENDING"
  <2>1. One(timer[PhySendTo] # 0) + 0 + 0 = One(phy.send = "SENDING")
    BY <1>1, <1>3, Tasks DEF Safe, PhyTimer, One
  <2>. QED  BY <2>1 DEF One
<1>7. /\ timer[PhySendTo] \in Nat /\ timer[MacSendTo] \in Nat
      /\ timer[MacSendTo] # 0 <=> Holds
  <2>1. timer[PhySendTo] \in 0..MacTo /\ timer[MacSendTo] \in 0..MacTo
    BY <1>a, Tasks DEF TypeOK
  <2>2. timer[PhySendTo] \in Nat /\ timer[MacSendTo] \in Nat
    <3>1. MacTo \in Nat
      BY Numbers
    <3>. QED  BY <2>1, <3>1
  <2>3. timer[MacSendTo] # 0 <=> Holds
    BY DEF Safe, MacTimer
  <2>. QED  BY <2>2, <2>3
<1>8. ASSUME phy.send = "SENDING"
      PROVE  /\ timer[PhySendTo] >= 1 /\ timer[MacSendTo] >= 2 /\ Left(phy.retry) \in Nat
             /\ phy.retry <= MaxRetry + 1 /\ timer[MacSendTo] >= timer[PhySendTo] + Left(phy.retry)
             /\ phy.retry = MaxRetry + 1 => timer[MacSendTo] >= timer[PhySendTo] + 1
  <2>1. /\ phy.retry <= MaxRetry + 1 /\ timer[MacSendTo] >= timer[PhySendTo] + Left(phy.retry)
        /\ phy.retry = MaxRetry + 1 => timer[MacSendTo] >= timer[PhySendTo] + 1
    BY <1>8 DEF Safe, Budget
  <2>2. phy.retry \in 0 .. MaxRetry + 1
    <3>1. phy.retry \in Counter
      BY <1>a DEF TypeOK, PhyState
    <3>. QED  BY <2>1, <3>1, RetryRange
  <2>3. Left(phy.retry) \in Nat
    BY <2>2, LeftFacts
  <2>4. timer[PhySendTo] >= 1
    BY <1>6, <1>7, <1>8
  <2>5. CASE phy.retry = MaxRetry + 1
    BY <1>7, <2>1, <2>3, <2>4, <2>5
  <2>6. CASE phy.retry # MaxRetry + 1
    <3>1. phy.retry \in 0..MaxRetry /\ phy.retry + 1 \in 0 .. MaxRetry + 1
      <4>1. MaxRetry \in Nat
        BY LeftFacts
      <4>. QED  BY <2>2, <2>6, <4>1
    <3>2. Left(phy.retry) = PhyTo + Left(phy.retry + 1) /\ Left(phy.retry + 1) \in Nat
          /\ PhyTo \in Nat /\ PhyTo >= 1
      BY <3>1, LeftFacts
    <3>. QED  BY <1>7, <2>1, <2>3, <2>4, <3>2
  <2>. QED  BY <2>5, <2>6
<1>9. /\ timer'[PhySendTo] = IF timer[PhySendTo] = 0 THEN 0 ELSE timer[PhySendTo] - 1
      /\ timer'[MacSendTo] = IF timer[MacSendTo] = 0 THEN 0 ELSE timer[MacSendTo] - 1
      /\ PhySendTo \in due' <=> timer[PhySendTo] = 1
      /\ MacSendTo \in due' <=> timer[MacSendTo] = 1
  BY <1>1, Tasks
<1>10. InFlight'
  BY <1>1, <1>4 DEF Safe, InFlight, One
<1>11. PhyTimer'
  <2>1. mbox["LINK_PHY"] = <<>> /\ Cnt(mbox["LINK_PHY"], {"FRAME_SEND_TO"}) = 0
    BY <1>2, <1>3, Tasks
  <2>2. CASE phy.send = "SENDING"
    BY <1>1, <1>7, <1>8, <1>9, <2>1, <2>2 DEF PhyTimer, One
  <2>3. CASE phy.send # "SENDING"
    BY <1>1, <1>6, <1>7, <1>9, <2>1, <2>3 DEF PhyTimer, One
  <2>. QED  BY <2>2, <2>3
<1>12. MacTimer'
  <2>1. Cnt(mbox'["LINK_MAC"], {"FRAME_SEND_TO"}) = 0
    BY <1>1, <1>3, Tasks
  <2>2. CASE Holds
    BY <1>4, <1>5, <1>7, <1>8, <1>9, <2>1, <2>2 DEF MacTimer
  <2>3. CASE ~Holds
    BY <1>4, <1>7, <1>9, <2>1, <2>3 DEF MacTimer
  <2>. QED  BY <2>2, <2>3
<1>13. Budget'
  <2>1. Cnt(mbox'["LINK_PHY"], {"FRAME_SEND_REQ"}) = 0 /\ phy' = phy
    BY <1>1, <1>3, Tasks
  <2>2. ASSUME phy.send = "SENDING"
        PROVE  /\ timer'[MacSendTo] >= timer'[PhySendTo] + Left(phy.retry)
               /\ phy.retry = MaxRetry + 1 => timer'[MacSendTo] >= timer'[PhySendTo] + 1
    BY <1>7, <1>8, <1>9, <2>2
  <2>. QED  BY <1>8, <2>1, <2>2 DEF Budget
<1>. QED  BY <1>4, <1>10, <1>11, <1>12, <1>13 DEF Safe

LEMMA TickSafe ==
  ASSUME MaxLate = 0, IInv, Safe, Tick
  PROVE  Safe'
<1>1. \A t \in Task : mbox[t] = <<>>
  BY NotLate DEF Tick
<1>. QED  BY <1>1, TickedSafe DEF Tick, macVars

(* The timer thread posts a timeout: the PHY layer has nothing else to handle. *)
LEMMA ExpireSafe ==
  ASSUME IInv, Safe, NEW k \in TimerKey, Expire(k)
  PROVE  Safe'
<1>a. TypeOK /\ Boxes
  BY DEF IInv, Types
<1>1. /\ k \in due /\ due' = due \ {k}
      /\ UNCHANGED <<fsm, pool, timer, line, fatal, phy, macSend, pduFifo, macRev>>
  BY DEF Expire, macVars
<1>2. CASE k = PhySendTo
  <2> DEFINE m == [sig |-> "FRAME_SEND_TO"]
  <2>1. m \in PhyMsgs /\ m.sig = "FRAME_SEND_TO" /\ mbox' = [mbox EXCEPT !["LINK_PHY"] = Append(@, m)]
    BY <1>2, Posted DEF Expire, PhySendTo
  <2> HIDE DEF m
  <2>2. /\ mbox'["LINK"] = mbox["LINK"] /\ mbox'["LINK_MAC"] = mbox["LINK_MAC"]
        /\ mbox'["LINK_PHY"] = Append(mbox["LINK_PHY"], m)
        /\ Gains(mbox'["LINK_PHY"], mbox["LINK_PHY"], m)
    BY <1>a, <2>1, BoxAppend, Tasks
  <2>3. mbox["LINK_PHY"] = <<>>
    BY <1>1, <1>2 DEF Safe, PhyTimer
  <2>4. /\ Cnt(mbox["LINK_PHY"], {"FRAME_SEND_REQ"}) = 0 /\ Cnt(mbox["LINK_PHY"], {"FRAME_SEND_TO"}) = 0
    BY <2>3, CntEmpty
  <2>5. /\ Cnt(mbox'["LINK_PHY"], {"FRAME_SEND_REQ"}) = 0 /\ Cnt(mbox'["LINK_PHY"], {"FRAME_SEND_TO"}) = 1
        /\ Head(mbox'["LINK_PHY"]) = m
    BY <2>1, <2>2, <2>3, <2>4 DEF Gains, One
  <2>6. (Holds' <=> Holds) /\ Owned' /\ Starting' /\ Receiving' /\ Fresh' /\ OnlyExhaustion'
    BY <1>1, <2>2, OwnersKept
  <2>7. PhySendTo \notin due' /\ (MacSendTo \in due' <=> MacSendTo \in due)
    BY <1>1, <1>2, Tasks
  <2>8. PhyTimer'
    BY <1>1, <1>2, <2>1, <2>4, <2>5, <2>7 DEF Safe, PhyTimer, One
  <2>9. InFlight' /\ MacTimer' /\ Budget'
    BY <1>1, <2>2, <2>4, <2>5, <2>6, <2>7 DEF Safe, InFlight, MacTimer, Budget, One
  <2>. QED  BY <2>6, <2>8, <2>9 DEF Safe
<1>3. CASE k = MacSendTo
  BY <1>1, <1>3 DEF Safe, MacTimer
<1>4. CASE k = MacRevTo
  <2> DEFINE m == [sig |-> "FRAME_REV_TO"]
  <2>1. m \in MacMsgs /\ m.sig = "FRAME_REV_TO" /\ mbox' = [mbox EXCEPT !["LINK_MAC"] = Append(@, m)]
    BY <1>4, Posted DEF Expire, MacRevTo
  <2> HIDE DEF m
  <2>2. /\ mbox'["LINK"] = mbox["LINK"] /\ mbox'["LINK_PHY"] = mbox["LINK_PHY"]
        /\ Gains(mbox'["LINK_MAC"], mbox["LINK_MAC"], m)
    BY <1>a, <2>1, BoxAppend, Tasks
  <2>3. \A p : Car(mbox'["LINK_MAC"], p) = Car(mbox["LINK_MAC"], p)
    BY <2>1, <2>2, MacCounts, PduSigsAre DEF Gains, One
  <2>4. \A S : Cnt(mbox'["LINK_MAC"], S) = Cnt(mbox["LINK_MAC"], S) + One("FRAME_REV_TO" \in S)
    BY <2>1, <2>2 DEF Gains
  <2>5. /\ Cnt(mbox'["LINK_MAC"], {"FRAME_SEND_START"}) = Cnt(mbox["LINK_MAC"], {"FRAME_SEND_START"})
        /\ Cnt(mbox'["LINK_MAC"], {"FRAME_SEND_DONE", "FRAME_SEND_ERR"})
             = Cnt(mbox["LINK_MAC"], {"FRAME_SEND_DONE", "FRAME_SEND_ERR"})
        /\ Cnt(mbox'["LINK_MAC"], {"FRAME_SEND_TO"}) = Cnt(mbox["LINK_MAC"], {"FRAME_SEND_TO"})
    BY <2>4, MacCounts DEF One
  <2>6. (PhySendTo \in due' <=> PhySendTo \in due) /\ (MacSendTo \in due' <=> MacSendTo \in due)
    BY <1>1, <1>4, Tasks
  <2>. QED  BY <1>1, <2>2, <2>3, <2>5, <2>6, AllKept
<1>. QED  BY <1>2, <1>3, <1>4 DEF TimerKey

LEMMA InitSafe == Init => Safe
<1> SUFFICES ASSUME Init PROVE Safe
  OBVIOUS
<1>1. /\ mbox = [t \in Task |-> IF t = "LINK" THEN <<[sig |-> "INIT"]>> ELSE <<>>]
      /\ pool = [p \in Pdu |-> 0] /\ timer = [k \in TimerKey |-> 0] /\ due = {}
      /\ fatal = "none" /\ phy.send = "IDLE" /\ macSend.state = "IDLE" /\ pduFifo = <<>>
      /\ macRev.state = "IDLE" /\ macRev.pdu = None
  BY DEF Init, BaseInit, PhyInit, MacInit
<1>2. mbox["LINK_MAC"] = <<>> /\ mbox["LINK_PHY"] = <<>> /\ mbox["LINK"] = <<[sig |-> "INIT"]>>
  BY <1>1, Tasks
<1>3. /\ \A S : Cnt(mbox["LINK_MAC"], S) = 0 /\ Cnt(mbox["LINK_PHY"], S) = 0
      /\ \A p : Car(mbox["LINK_MAC"], p) = 0
  BY <1>2, CntEmpty
<1>4. \A p : Car(mbox["LINK"], p) = 0
  <2> DEFINE m == [sig |-> "INIT"]
  <2>1. m \in AllMsgs /\ m.sig \notin PduSigs
    BY Posted, PduSigsAre DEF AllMsgs
  <2>2. mbox["LINK"] = <<m>>
    BY <1>2
  <2> HIDE DEF m
  <2>. QED  BY <2>1, <2>2, OccOne DEF Car, CarryingPdu, One
<1>5. \A p : Occ(pduFifo, {p}) = 0
  BY <1>1, OccEmpty
<1>6. ~Holds
  BY <1>1 DEF Holds
<1>7. timer[PhySendTo] = 0 /\ timer[MacSendTo] = 0
  BY <1>1, Tasks
<1>8. Owned
  BY <1>1, <1>3, <1>4, <1>5, <1>6, NoneIsNoPdu DEF Owned, One
<1>9. InFlight /\ Starting /\ Receiving /\ Fresh
  <2>1. One(FALSE) = 0 /\ One(phy.send = "SENDING") = 0 /\ One(Holds) = 0
    BY <1>1, <1>6 DEF One
  <2>2. InFlight
    BY <1>3, <2>1 DEF InFlight
  <2>3. Cnt(mbox["LINK_MAC"], {"FRAME_SEND_START"}) = 0
    BY <1>3
  <2>4. Starting
    BY <2>3 DEF Starting
  <2>5. Receiving
    BY <1>1 DEF Receiving
  <2>6. Fresh
    BY <1>1 DEF Fresh
  <2>. QED  BY <2>2, <2>4, <2>5, <2>6
<1>10. PhyTimer /\ MacTimer /\ Budget /\ OnlyExhaustion
  <2>1. PhyTimer
    BY <1>1, <1>3, <1>7 DEF PhyTimer, One
  <2>2. MacTimer
    BY <1>1, <1>3, <1>6, <1>7 DEF MacTimer
  <2>3. Budget /\ OnlyExhaustion
    BY <1>1, <1>3 DEF Budget, OnlyExhaustion
  <2>. QED  BY <2>1, <2>2, <2>3
<1>. QED  BY <1>8, <1>9, <1>10 DEF Safe

LEMMA NextSafe ==
  ASSUME MaxLate = 0, IInv, Safe, [Next]_vars
  PROVE  Safe'
<1>1. CASE UNCHANGED vars
  BY <1>1, AllKept DEF vars, baseVars, macVars
<1>. QED  BY <1>1, PhySafe, MacSafe, LinkSafe, ClientSafe, PeerSafe, TickSafe, ExpireSafe DEF Next

LEMMA AlwaysSafe ==
  ASSUME MaxLate = 0
  PROVE  Spec => [](IInv /\ Safe)
<1>1. Init => IInv /\ Safe
  BY InitIInv, InitSafe
<1>2. IInv /\ Safe /\ [Next]_vars => (IInv /\ Safe)'
  BY NextIInv, NextSafe
<1>. QED  BY <1>1, <1>2, PTL DEF Spec

-----------------------------------------------------------------------------
(* Without overtaking, every PDU of the pool has exactly one owner, there is one
   frame in flight while the sender holds a PDU, and the process never stops
   but for want of a PDU (link_data.cpp, link_mac.cpp, link_phy.cpp, link.cpp). *)
THEOREM LinkStackSafe ==
  ASSUME MaxLate = 0
  PROVE  Spec => []StackSafe
<1>1. ASSUME IInv, Safe PROVE StackSafe
  <2>a. Boxes /\ pduFifo \in Seq(Pdu)
    BY <1>1 DEF IInv, Types, TypeOK
  <2>1. SenderHolds <=> Holds
    BY <2>a, CountIsCnt, Tasks DEF SenderHolds, Holds
  <2>2. \A b \in BOOLEAN : OneIf(b) = One(b)
    BY DEF OneIf, One
  <2>3. ASSUME NEW t \in Task, NEW p PROVE Carrying(t, p) = Places(mbox[t], CarryingPdu(p))
    <3>1. mbox[t] \in Seq(AllMsgs)
      BY <2>a DEF Boxes
    <3>2. \A i \in DOMAIN mbox[t] : mbox[t][i] \in AllMsgs
      BY <3>1
    <3>. QED  BY <3>2 DEF Carrying, InMailbox, Places, CarryingPdu
  <2>4. OneOwner
    <3> SUFFICES ASSUME NEW p \in Pdu
                 PROVE  Cardinality(Carrying("LINK", p)) + Cardinality(Carrying("LINK_MAC", p))
                          + Cardinality({i \in DOMAIN pduFifo : pduFifo[i] = p})
                          + OneIf(SenderHolds /\ macSend.pdu = p) + OneIf(macRev.pdu = p)
                        = OneIf(pool[p] # 0)
      BY DEF OneOwner
    <3>1. /\ Cardinality(Carrying("LINK", p)) = Car(mbox["LINK"], p)
          /\ Cardinality(Carrying("LINK_MAC", p)) = Car(mbox["LINK_MAC"], p)
      BY <2>3, Tasks DEF Car, Occ
    <3>2. Cardinality({i \in DOMAIN pduFifo : pduFifo[i] = p}) = Occ(pduFifo, {p})
      <4>1. {i \in DOMAIN pduFifo : pduFifo[i] = p} = Places(pduFifo, {p})
        BY DEF Places
      <4>. QED  BY <4>1 DEF Occ
    <3>3. /\ OneIf(SenderHolds /\ macSend.pdu = p) = One(Holds /\ macSend.pdu = p)
          /\ OneIf(macRev.pdu = p) = One(macRev.pdu = p) /\ OneIf(pool[p] # 0) = One(pool[p] # 0)
      BY <2>1 DEF OneIf, One
    <3>. QED  BY <1>1, <3>1, <3>2, <3>3 DEF Safe, Owned
  <2>5. OneFrameInFlight
    <3>1. /\ Count("LINK_PHY", {"FRAME_SEND_REQ"}) = Cnt(mbox["LINK_PHY"], {"FRAME_SEND_REQ"})
          /\ Count("LINK_MAC", {"FRAME_SEND_DONE", "FRAME_SEND_ERR"})
               = Cnt(mbox["LINK_MAC"], {"FRAME_SEND_DONE", "FRAME_SEND_ERR"})
      BY <2>a, CountIsCnt, Tasks
    <3>2. OneIf(SenderHolds) = One(Holds) /\ OneIf(phy.send = "SENDING") = One(phy.send = "SENDING")
      BY <2>1 DEF OneIf, One
    <3>. QED  BY <1>1, <3>1, <3>2 DEF Safe, InFlight, OneFrameInFlight
  <2>. QED  BY <1>1, <2>4, <2>5 DEF Safe, StackSafe
<1>2. Spec => [](IInv /\ Safe)
  BY AlwaysSafe
<1>. QED  BY <1>1, <1>2, PTL

(* Without overtaking, the timeout of the MAC layer outlasts the retries of the PHY
   layer and never fires, for every number of retries and every interval
   (link_phy_get_send_frame_to doubled, link_mac.cpp).                       *)
THEOREM LinkMacBackstop ==
  ASSUME MaxLate = 0
  PROVE  Spec => []MacBackstop
<1>1. Safe => MacBackstop
  BY DEF Safe, MacTimer, MacBackstop
<1>2. Spec => [](IInv /\ Safe)
  BY AlwaysSafe
<1>. QED  BY <1>1, <1>2, PTL
=============================================================================
