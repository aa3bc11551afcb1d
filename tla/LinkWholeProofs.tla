-------------------------- MODULE LinkWholeProofs --------------------------
(***************************************************************************)
(* Two boards and a line, for every number of PDUs and of frames: as long  *)
(* as there are no more faults than it takes to give two frames up, the    *)
(* PDUs that board B is given are PDUs that were sent, whole; with fewer,  *)
(* every PDU that A reports has been given to B.                           *)
(*                                                                         *)
(* The invariant WholeInv follows the frames of a PDU from the line of     *)
(* PDUs at A (LineUp) to the ones that B has gathered (Prefix): the frame  *)
(* that the sender holds, those on their way and those that wait at B come *)
(* after the frame they follow (InOrderly), an acknowledgement that has    *)
(* not yet been read tells the truth (Truth), and what is left of a PDU    *)
(* the sender is done with has reached B (Rest).  That fails only when a   *)
(* frame was given up, which Account (LinkPairProofs) makes rare enough.   *)
(*                                                                         *)
(* ArrivedInv adds what becomes of it at B: the receiver does not give up  *)
(* what it has gathered (Timely), hands over what it is done with          *)
(* (Delivered) and so has every PDU the sender is done with (Landed), of   *)
(* which A is told (Reports).                                              *)
(***************************************************************************)
EXTENDS LinkPairProofs

-----------------------------------------------------------------------------
(* The PDUs stand in line in the order in which they were sent: the one that may
   start, the ones that wait in the fifo, the requests on their way to the MAC
   layer and the messages on their way to the LINK task.                    *)
Waits(sig) == Cnt(mbox["LINK_MAC"], {sig})
Place(s, sig, i) == Cnt(SubSeq(s, 1, i), {sig})
Worth(q, m) == IF m.sig = "SEND_MSG" THEN m.frames ELSE q[m.pdu]
InLine(s, sig, q, z, from) ==
  \A i \in 1..Len(s) : s[i].sig = sig => Worth(q, s[i]) = z[from + Place(s, sig, i)]
FifoInLine(s, q, z, from) == \A i \in 1..Len(s) : q[s[i]] = z[from + i]
StartTo(mac, n) == n + Cnt(mac, {"FRAME_SEND_START"})
FifoTo(mac, fifo, n) == StartTo(mac, n) + Len(fifo)
AskedTo(mac, fifo, n) == FifoTo(mac, fifo, n) + Cnt(mac, {"FRAME_SEND_REQ"})
Lined(mac, link, fifo, q, z, n) ==
  /\ Len(z) = AskedTo(mac, fifo, n) + Cnt(link, {"SEND_MSG"})
  /\ InLine(mac, "FRAME_SEND_START", q, z, n)
  /\ FifoInLine(fifo, q, z, StartTo(mac, n))
  /\ InLine(mac, "FRAME_SEND_REQ", q, z, FifoTo(mac, fifo, n))
  /\ InLine(link, "SEND_MSG", q, z, AskedTo(mac, fifo, n))
LineUp == /\ Lined(mbox["LINK_MAC"], mbox["LINK"], pduFifo, pool, size, macSend.seq)
          /\ macSend.state = "IDLE" => pduFifo = <<>>

-----------------------------------------------------------------------------
(* A frame of a PDU that was sent. *)
Genuine(f) == f.seq < Len(size) /\ f.fnum = size[f.seq + 1] /\ f.fidx < f.fnum

(* The frames on their way to the MAC layer of B, and those in its mailbox. *)
OutboundOf(l, b) == {l[i].mac : i \in {k \in 1..Len(l) : l[k].type = "REQ"}}
                    \cup {b[i].frame.mac : i \in {k \in 1..Len(b) : b[k] \in Asks}}
Outbound == OutboundOf(line, mboxB["LINK_PHY"])
EarsOf(M) == {i \in 1..Len(M) : M[i].sig = "FRAME_REV"}
BeforeOf(M, i) == {M[k].frame : k \in {e \in EarsOf(M) : e < i}}
WaitingOf(M) == {M[k].frame : k \in EarsOf(M)}
Ears == EarsOf(mboxB["LINK_MAC"])
HeardAt(i) == mboxB["LINK_MAC"][i].frame
Waiting == WaitingOf(mboxB["LINK_MAC"])
NoTimeout == dueB = {} /\ \A i \in 1..Len(mboxB["LINK_MAC"]) : i \in Ears

(* The receiver R, which holds the frames C, has met frame j of PDU s, or is done
   with its PDU.  One that still waits for the rest of an older PDU ignores it:
   then G, the number of frames that were given up, is at least 2.          *)
Has(R, C, quiet, G, s, j) ==
  \/ R.state = "RECEIVING" /\ R.seq = s /\ \E f \in C : j <= f.fidx
  \/ R.state = "IDLE" /\ R.seq = s
  \/ R.state = "RECEIVING" /\ R.seq < s /\ G >= 2 /\ quiet

(* It waits for the receiver among the frames W, or the receiver has it and
   none of W is of an older PDU.                                            *)
Seen(G, s, j) == Has(macRevB, slots[macRevB.pdu], NoTimeout, G, s, j)
Met(W, G, s, j) ==
  \/ \E f \in W : f.seq = s /\ f.fidx = j
  \/ Seen(G, s, j) /\ \A f \in W : s <= f.seq
Reached(G, s, j) == (\A f \in Outbound : s <= f.seq) /\ Met(Waiting, G, s, j)

(* No frame is sent before the one it follows has reached B. *)
Ready(G, f) == Genuine(f) /\ (f.fidx > 0 => Reached(G, f.seq, f.fidx - 1))
Follows(G, i) == Met(BeforeOf(mboxB["LINK_MAC"], i), G, HeardAt(i).seq, HeardAt(i).fidx - 1)
InOrderly(G) ==
  /\ Holds => Ready(G, macSend.frame)
  /\ \A f \in Outbound : Ready(G, f)
  /\ \A i \in Ears : Genuine(HeardAt(i)) /\ (HeardAt(i).fidx > 0 => Follows(G, i))
(* What the PHY layer sends is the frame that the MAC layer holds. *)
Same ==
  /\ Sending => phy.frame = macSend.frame
  /\ \A i \in 1..Len(mbox["LINK_PHY"]) :
       mbox["LINK_PHY"][i].sig = "FRAME_SEND_REQ" => mbox["LINK_PHY"][i].frame = macSend.frame

(* What says that a frame has arrived says the truth. *)
Acked == Occ(lineB, CurrentOf("ACK")) + Occ(mbox["LINK_PHY"], Current(Grants)) # 0
Truth(G) ==
  (Sending /\ Acked) \/ (Holds /\ Waits("FRAME_SEND_DONE") # 0)
    => Reached(G, macSend.frame.seq, macSend.frame.fidx)

(* The receiver holds the beginning of a PDU that was sent, and whole ones wait
   for the LINK task or were given to it.                                   *)
FrameOf(s, k) == [seq |-> s, fidx |-> k, fnum |-> size[s + 1]]
Beginning(s, m) == {FrameOf(s, k) : k \in 0..m}
Prefix ==
  /\ macRevB.state = "RECEIVING" =>
       /\ macRevB.seq < Len(size)
       /\ \E m \in 0 .. size[macRevB.seq + 1] - 2 : slots[macRevB.pdu] = Beginning(macRevB.seq, m)
  /\ \A j \in 1..Len(mboxB["LINK"]) : \E s \in Sent : slots[Told(j)] = FramesOf(s)
  /\ \A i \in 1..Len(given) : \E s \in Sent : given[i] = FramesOf(s)

(* A PDU that the sender is done with has reached B whole, as long as something
   of it is left and it was not given up.                                   *)
Abroad(r) ==
  \/ macRevB.state = "RECEIVING" /\ macRevB.seq = r
  \/ \E i \in Ears : HeardAt(i).seq = r
  \/ \E f \in Outbound : f.seq = r
Over(r) == r < macSend.frame.seq \/ (r = macSend.frame.seq /\ ~Holds)
Rest(G) == \A r \in Sent : Over(r) /\ Abroad(r) /\ G < 2 => Reached(G, r, size[r + 1] - 1)

(* A PDU is tried again only when a frame was given up. *)
Tried(G) == Holds => macSend.retry + Waits("FRAME_SEND_ERR") <= G

Data(G) == InOrderly(G) /\ Truth(G) /\ Rest(G) /\ Tried(G)

(* The inductive invariant. *)
Intact == Same /\ Prefix /\ Carries /\ \E G \in Nat : Account(G) /\ Data(G)
WholeInv == Base /\ Room /\ LineUp /\ (faults <= Enough => Intact)

-----------------------------------------------------------------------------
(* The place of a message among those of its kind, as its mailbox moves on. *)
LEMMA PlaceFacts ==
  ASSUME NEW s \in Seq(AllMsgs), NEW sig, NEW i \in 1..Len(s)
  PROVE  /\ Place(s, sig, i) \in Nat /\ Place(s, sig, i) <= Cnt(s, {sig})
         /\ s[i].sig = sig => Place(s, sig, i) >= 1
<1> DEFINE a == SubSeq(s, 1, i)
           b == SubSeq(s, i + 1, Len(s))
<1>0. Len(s) \in Nat /\ i \in Nat /\ 1 <= i /\ i <= Len(s) /\ \A j \in 1..Len(s) : s[j] \in AllMsgs
  OBVIOUS
<1>1. a \in Seq(AllMsgs) /\ Len(a) = i /\ \A j \in 1..i : a[j] = s[j]
  <2>1. \A j \in 1..i : s[j] \in AllMsgs
    BY <1>0
  <2>. QED  BY <1>0, <2>1, SubSeqProperties
<1>2. b \in Seq(AllMsgs) /\ Len(b) = Len(s) - i /\ \A j \in 1 .. Len(s) - i : b[j] = s[i + j]
  <2>1. \A j \in i + 1 .. Len(s) : s[j] \in AllMsgs
    BY <1>0
  <2>. QED  BY <1>0, <2>1, SubSeqProperties
<1>3. a \o b = s
  <2>1. a \o b \in Seq(AllMsgs) /\ Len(a \o b) = Len(s)
    BY <1>0, <1>1, <1>2
  <2>2. \A j \in 1..Len(s) : (a \o b)[j] = s[j]
    <3> HIDE DEF a, b
    <3>. TAKE j \in 1..Len(s)
    <3>1. CASE j <= i
      BY <1>0, <1>1, <1>2, <3>1
    <3>2. CASE j > i
      <4>1. j - i \in 1 .. Len(s) - i /\ i + (j - i) = j
        BY <1>0, <3>2
      <4>2. (a \o b)[j] = b[j - i]
        BY <1>0, <1>1, <1>2, <3>2
      <4>. QED  BY <1>2, <4>1, <4>2
    <3>3. j <= i \/ j > i
      BY <1>0
    <3>. QED  BY <3>1, <3>2, <3>3
  <2>. QED  BY <2>1, <2>2, SeqEqual
<1> HIDE DEF a, b
<1>4. Cnt(s, {sig}) = Cnt(a, {sig}) + Cnt(b, {sig}) /\ Cnt(a, {sig}) \in Nat /\ Cnt(b, {sig}) \in Nat
  BY <1>1, <1>2, <1>3, OccConcat, CntNat DEF Cnt
<1>5. s[i].sig = sig => Cnt(a, {sig}) # 0
  BY <1>0, <1>1, CntZero
<1>. QED  BY <1>4, <1>5 DEF Place, a

LEMMA PlaceTail ==
  ASSUME NEW s \in Seq(AllMsgs), s # <<>>, NEW sig, NEW i \in 1..Len(Tail(s))
  PROVE  Place(s, sig, i + 1) = One(Head(s).sig = sig) + Place(Tail(s), sig, i)
<1>0. /\ Len(s) \in Nat /\ 1 \in 1..Len(s) /\ i + 1 \in 1..Len(s) /\ i + 1 \in Nat /\ Tail(s) \in Seq(AllMsgs)
      /\ Len(Tail(s)) = Len(s) - 1 /\ i \in Nat /\ 1 <= i /\ Head(s) = s[1]
  BY TailAt
<1> DEFINE t == SubSeq(s, 1, i + 1)
           u == SubSeq(Tail(s), 1, i)
<1>1. t \in Seq(AllMsgs) /\ Len(t) = i + 1 /\ \A j \in 1 .. i + 1 : t[j] = s[j]
  <2>1. \A j \in 1 .. i + 1 : s[j] \in AllMsgs
    BY <1>0
  <2>. QED  BY <1>0, <2>1, SubSeqProperties
<1>2. u \in Seq(AllMsgs) /\ Len(u) = i /\ \A j \in 1..i : u[j] = Tail(s)[j]
  <2>1. \A j \in 1..i : Tail(s)[j] \in AllMsgs
    BY <1>0
  <2>. QED  BY <1>0, <2>1, SubSeqProperties
<1> HIDE DEF t, u
<1>3. t # <<>> /\ Head(t) = Head(s)
  <2>1. 1 \in 1 .. i + 1
    BY <1>0
  <2>2. t # <<>>
    BY <1>0, <1>1
  <2>. QED  BY <1>0, <1>1, <2>1, <2>2
<1>4. Tail(t) = u
  <2>1. Tail(t) \in Seq(AllMsgs) /\ Len(Tail(t)) = i
    BY <1>0, <1>1, <1>3
  <2>2. \A j \in 1..i : Tail(t)[j] = u[j]
    <3>. TAKE j \in 1..i
    <3>1. Tail(t)[j] = t[j + 1] /\ j + 1 \in 1 .. i + 1
      BY <1>0, <1>1, <1>3, <2>1
    <3>2. u[j] = s[j + 1]
      BY <1>0, <1>2, TailAt
    <3>. QED  BY <1>1, <3>1, <3>2
  <2>. QED  BY <1>2, <2>1, <2>2, SeqEqual
<1>5. Cnt(u, {sig}) = Cnt(t, {sig}) - One(Head(s).sig \in {sig}) /\ Cnt(t, {sig}) \in Nat /\ Cnt(u, {sig}) \in Nat
  <2>1. Cnt(t, {sig}) \in Nat /\ Cnt(u, {sig}) \in Nat
    BY <1>1, <1>2, CntNat
  <2>2. Cnt(Tail(t), {sig}) = Cnt(t, {sig}) - One(Head(t).sig \in {sig})
    BY <1>1, <1>3, CntTail
  <2>. QED  BY <1>3, <1>4, <2>1, <2>2
<1>6. Cnt(t, {sig}) = Place(s, sig, i + 1) /\ Cnt(u, {sig}) = Place(Tail(s), sig, i)
  BY DEF Place, t, u
<1>. QED  BY <1>5, <1>6 DEF One

LEMMA PlaceAppend ==
  ASSUME NEW s \in Seq(AllMsgs), NEW m \in AllMsgs, NEW sig
  PROVE  /\ \A i \in 1..Len(s) : Place(Append(s, m), sig, i) = Place(s, sig, i)
         /\ m.sig = sig => Place(Append(s, m), sig, Len(s) + 1) = Cnt(s, {sig}) + 1
<1>0. Append(s, m) \in Seq(AllMsgs) /\ Len(Append(s, m)) = Len(s) + 1 /\ Len(s) \in Nat
  BY AppendAt
<1>1. ASSUME NEW i \in 1..Len(s)
      PROVE  Place(Append(s, m), sig, i) = Place(s, sig, i)
  <2>1. /\ SubSeq(s, 1, i) \in Seq(AllMsgs) /\ Len(SubSeq(s, 1, i)) = i
        /\ \A j \in 1..i : SubSeq(s, 1, i)[j] = s[j]
    <3>1. \A j \in 1..i : s[j] \in AllMsgs
      BY <1>0
    <3>. QED  BY <1>0, <3>1, SubSeqProperties
  <2>2. /\ SubSeq(Append(s, m), 1, i) \in Seq(AllMsgs) /\ Len(SubSeq(Append(s, m), 1, i)) = i
        /\ \A j \in 1..i : SubSeq(Append(s, m), 1, i)[j] = Append(s, m)[j]
    <3>1. \A j \in 1..i : Append(s, m)[j] \in AllMsgs
      BY <1>0
    <3>. QED  BY <1>0, <3>1, SubSeqProperties
  <2>3. \A j \in 1..i : Append(s, m)[j] = s[j]
    BY <1>0, AppendAt
  <2>4. SubSeq(Append(s, m), 1, i) = SubSeq(s, 1, i)
    BY <2>1, <2>2, <2>3, SeqEqual
  <2>. QED  BY <2>4 DEF Place
<1>2. SubSeq(Append(s, m), 1, Len(s) + 1) = Append(s, m)
  BY <1>0, SubSeqFull
<1>. QED  BY <1>1, <1>2, CntAppend DEF Place, One

(* A mailbox that is in line stays so when it loses its head, when it gains
   the message that stands next, and when a PDU of none of its messages changes. *)
LEMMA InLineTail ==
  ASSUME NEW s \in Seq(AllMsgs), s # <<>>, NEW sig, NEW q, NEW z, NEW from \in Nat, NEW to \in Nat,
         to = from + One(Head(s).sig = sig), InLine(s, sig, q, z, from)
  PROVE  InLine(Tail(s), sig, q, z, to)
<1> SUFFICES ASSUME NEW i \in 1..Len(Tail(s)), Tail(s)[i].sig = sig
             PROVE  Worth(q, Tail(s)[i]) = z[to + Place(Tail(s), sig, i)]
  BY DEF InLine
<1>0. Tail(s) \in Seq(AllMsgs)
  BY TailAt
<1>1. i + 1 \in 1..Len(s) /\ Tail(s)[i] = s[i + 1]
  BY TailAt
<1>2. Place(s, sig, i + 1) = One(Head(s).sig = sig) + Place(Tail(s), sig, i) /\ Place(Tail(s), sig, i) \in Nat
  <2>1. Place(s, sig, i + 1) = One(Head(s).sig = sig) + Place(Tail(s), sig, i)
    BY PlaceTail
  <2>2. Place(Tail(s), sig, i) \in Nat
    BY <1>0, PlaceFacts
  <2>. QED  BY <2>1, <2>2
<1>3. from + Place(s, sig, i + 1) = to + Place(Tail(s), sig, i)
  BY <1>2 DEF One
<1>4. Worth(q, s[i + 1]) = z[from + Place(s, sig, i + 1)]
  BY <1>1 DEF InLine
<1>. QED  BY <1>1, <1>3, <1>4

LEMMA InLineAppend ==
  ASSUME NEW s \in Seq(AllMsgs), NEW m \in AllMsgs, NEW sig, NEW q, NEW z, NEW from \in Nat,
         InLine(s, sig, q, z, from), m.sig = sig => Worth(q, m) = z[from + Cnt(s, {sig}) + 1]
  PROVE  InLine(Append(s, m), sig, q, z, from)
<1> SUFFICES ASSUME NEW i \in 1..Len(Append(s, m)), Append(s, m)[i].sig = sig
             PROVE  Worth(q, Append(s, m)[i]) = z[from + Place(Append(s, m), sig, i)]
  BY DEF InLine
<1>1. CASE i \in 1..Len(s)
  <2>1. Append(s, m)[i] = s[i]
    BY <1>1, AppendAt
  <2>2. Place(Append(s, m), sig, i) = Place(s, sig, i)
    BY <1>1, PlaceAppend
  <2>. QED  BY <1>1, <2>1, <2>2 DEF InLine
<1>2. CASE i = Len(s) + 1
  <2>1. Append(s, m)[i] = m /\ Cnt(s, {sig}) \in Nat
    BY <1>2, AppendAt, CntNat
  <2>2. Place(Append(s, m), sig, i) = Cnt(s, {sig}) + 1
    BY <1>2, <2>1, PlaceAppend
  <2>3. from + Place(Append(s, m), sig, i) = from + Cnt(s, {sig}) + 1
    BY <2>1, <2>2
  <2>. QED  BY <2>1, <2>3
<1>. QED  BY <1>1, <1>2, AppendAt

LEMMA InLineMoves ==
  ASSUME NEW s \in Seq(AllMsgs), NEW sig, NEW q, NEW z, NEW from \in Nat, InLine(s, sig, q, z, from),
         NEW q2, NEW z2, NEW to \in Nat, to = from \/ Cnt(s, {sig}) = 0,
         \A i \in 1..Len(s) : s[i].sig = sig => Worth(q2, s[i]) = Worth(q, s[i]),
         \A k \in 1 .. from + Cnt(s, {sig}) : z2[k] = z[k]
  PROVE  InLine(s, sig, q2, z2, to)
<1> SUFFICES ASSUME NEW i \in 1..Len(s), s[i].sig = sig
             PROVE  Worth(q2, s[i]) = z2[to + Place(s, sig, i)]
  BY DEF InLine
<1>1. /\ Place(s, sig, i) \in Nat /\ Place(s, sig, i) >= 1 /\ Place(s, sig, i) <= Cnt(s, {sig})
      /\ Cnt(s, {sig}) \in Nat
  BY PlaceFacts, CntNat
<1>2. to = from /\ from + Place(s, sig, i) \in 1 .. from + Cnt(s, {sig})
  BY <1>1
<1>3. Worth(q, s[i]) = z[from + Place(s, sig, i)]
  BY DEF InLine
<1>. QED  BY <1>2, <1>3

LEMMA InLineHead ==
  ASSUME NEW s \in Seq(AllMsgs), s # <<>>, NEW sig, NEW q, NEW z, NEW from \in Nat,
         InLine(s, sig, q, z, from), Head(s).sig = sig
  PROVE  Worth(q, Head(s)) = z[from + 1]
<1>1. Head(s) = s[1] /\ 1 \in 1..Len(s) /\ Len(s) \in Nat
  BY TailAt
<1>2. Place(s, sig, 1) = 1
  <2>1. SubSeq(s, 1, 1) \in Seq(AllMsgs) /\ Len(SubSeq(s, 1, 1)) = 1 /\ SubSeq(s, 1, 1)[1] = s[1]
    <3>1. \A j \in 1..1 : s[j] \in AllMsgs
      BY <1>1
    <3>. QED  BY <3>1, SubSeqProperties
  <2>2. SubSeq(s, 1, 1) = <<s[1]>>
    <3>1. s[1] \in AllMsgs
      BY <1>1
    <3>2. <<s[1]>> \in Seq(AllMsgs) /\ Len(<<s[1]>>) = 1 /\ <<s[1]>>[1] = s[1]
      BY <3>1
    <3>3. \A j \in 1..1 : SubSeq(s, 1, 1)[j] = <<s[1]>>[j]
      BY <2>1, <3>2
    <3>. QED  BY <2>1, <3>2, <3>3, SeqEqual
  <2>3. Occ(<<s[1]>>, With({sig})) = 1
    <3>1. s[1] \in AllMsgs
      BY <1>1
    <3>. QED  BY <1>1, <3>1, OccOne DEF One, With
  <2>. QED  BY <2>2, <2>3 DEF Place, Cnt
<1>. QED  BY <1>1, <1>2 DEF InLine

-----------------------------------------------------------------------------
(* The line of the PDUs through every step of the tasks of A. *)
LineTypes(mac, link, fifo, q, z, n) ==
  /\ mac \in Seq(AllMsgs) /\ link \in Seq(AllMsgs) /\ fifo \in Seq(Pdu)
  /\ q \in [Pdu -> Nat] /\ z \in Seq(1..MaxFrames) /\ n \in Nat
(* p is the PDU of no message and of no place of the fifo. *)
Apart(p, mac, fifo) ==
  /\ \A i \in 1..Len(mac) : mac[i].sig \in Starts => mac[i].pdu \in Pdu \ {p}
  /\ \A i \in 1..Len(fifo) : fifo[i] \in Pdu \ {p}

LEMMA LineSums ==
  ASSUME NEW mac, NEW link, NEW fifo, NEW q, NEW z, NEW n, LineTypes(mac, link, fifo, q, z, n)
  PROVE  /\ Cnt(mac, {"FRAME_SEND_START"}) \in Nat /\ Cnt(mac, {"FRAME_SEND_REQ"}) \in Nat
         /\ Cnt(link, {"SEND_MSG"}) \in Nat /\ Len(fifo) \in Nat /\ n \in Nat /\ Len(z) \in Nat
         /\ StartTo(mac, n) \in Nat /\ FifoTo(mac, fifo, n) \in Nat /\ AskedTo(mac, fifo, n) \in Nat
         /\ StartTo(mac, n) = n + Cnt(mac, {"FRAME_SEND_START"})
         /\ FifoTo(mac, fifo, n) = StartTo(mac, n) + Len(fifo)
         /\ AskedTo(mac, fifo, n) = FifoTo(mac, fifo, n) + Cnt(mac, {"FRAME_SEND_REQ"})
<1>1. /\ Cnt(mac, {"FRAME_SEND_START"}) \in Nat /\ Cnt(mac, {"FRAME_SEND_REQ"}) \in Nat
      /\ Cnt(link, {"SEND_MSG"}) \in Nat /\ Len(fifo) \in Nat /\ n \in Nat /\ Len(z) \in Nat
  BY CntNat DEF LineTypes
<1>. QED  BY <1>1 DEF StartTo, FifoTo, AskedTo

(* A message that orders nothing. *)
LEMMA LineMacNoise ==
  ASSUME NEW mac, NEW link, NEW fifo, NEW q, NEW z, NEW n, LineTypes(mac, link, fifo, q, z, n),
         Lined(mac, link, fifo, q, z, n)
  PROVE  /\ \A m \in AllMsgs : m.sig \notin Starts => Lined(Append(mac, m), link, fifo, q, z, n)
         /\ mac # <<>> /\ Head(mac).sig \notin Starts => Lined(Tail(mac), link, fifo, q, z, n)
<1>1. mac \in Seq(AllMsgs) /\ n \in Nat /\ FifoTo(mac, fifo, n) \in Nat
  BY LineSums DEF LineTypes
<1>2. ASSUME NEW box \in Seq(AllMsgs), Cnt(box, {"FRAME_SEND_START"}) = Cnt(mac, {"FRAME_SEND_START"}),
             Cnt(box, {"FRAME_SEND_REQ"}) = Cnt(mac, {"FRAME_SEND_REQ"}),
             InLine(box, "FRAME_SEND_START", q, z, n),
             InLine(box, "FRAME_SEND_REQ", q, z, FifoTo(mac, fifo, n))
      PROVE  Lined(box, link, fifo, q, z, n)
  <2>1. /\ StartTo(box, n) = StartTo(mac, n) /\ FifoTo(box, fifo, n) = FifoTo(mac, fifo, n)
        /\ AskedTo(box, fifo, n) = AskedTo(mac, fifo, n)
    BY <1>2 DEF StartTo, FifoTo, AskedTo
  <2>. QED  BY <1>2, <2>1 DEF Lined
<1>3. InLine(mac, "FRAME_SEND_START", q, z, n) /\ InLine(mac, "FRAME_SEND_REQ", q, z, FifoTo(mac, fifo, n))
  BY DEF Lined
<1>4. Cnt(mac, {"FRAME_SEND_START"}) \in Nat /\ Cnt(mac, {"FRAME_SEND_REQ"}) \in Nat
  BY LineSums
<1>5. ASSUME NEW m \in AllMsgs, m.sig \notin Starts
      PROVE  Lined(Append(mac, m), link, fifo, q, z, n)
  <2>1. m.sig # "FRAME_SEND_START" /\ m.sig # "FRAME_SEND_REQ"
    BY <1>5 DEF Starts
  <2>2. Append(mac, m) \in Seq(AllMsgs)
    BY <1>1
  <2>3. /\ Cnt(Append(mac, m), {"FRAME_SEND_START"}) = Cnt(mac, {"FRAME_SEND_START"})
        /\ Cnt(Append(mac, m), {"FRAME_SEND_REQ"}) = Cnt(mac, {"FRAME_SEND_REQ"})
    BY <1>1, <1>4, <2>1, CntAppend DEF One
  <2>4. /\ InLine(Append(mac, m), "FRAME_SEND_START", q, z, n)
        /\ InLine(Append(mac, m), "FRAME_SEND_REQ", q, z, FifoTo(mac, fifo, n))
    BY <1>1, <1>3, <2>1, InLineAppend
  <2>. QED  BY <1>2, <2>2, <2>3, <2>4
<1>6. ASSUME mac # <<>>, Head(mac).sig \notin Starts
      PROVE  Lined(Tail(mac), link, fifo, q, z, n)
  <2>1. Head(mac).sig # "FRAME_SEND_START" /\ Head(mac).sig # "FRAME_SEND_REQ"
    BY <1>6 DEF Starts
  <2>2. Tail(mac) \in Seq(AllMsgs)
    BY <1>1, <1>6
  <2>3. /\ Cnt(Tail(mac), {"FRAME_SEND_START"}) = Cnt(mac, {"FRAME_SEND_START"})
        /\ Cnt(Tail(mac), {"FRAME_SEND_REQ"}) = Cnt(mac, {"FRAME_SEND_REQ"})
    BY <1>1, <1>4, <1>6, <2>1, CntTail DEF One
  <2>4. /\ n = n + One(Head(mac).sig = "FRAME_SEND_START")
        /\ FifoTo(mac, fifo, n) = FifoTo(mac, fifo, n) + One(Head(mac).sig = "FRAME_SEND_REQ")
    BY <1>1, <2>1 DEF One
  <2>5. /\ InLine(Tail(mac), "FRAME_SEND_START", q, z, n)
        /\ InLine(Tail(mac), "FRAME_SEND_REQ", q, z, FifoTo(mac, fifo, n))
    BY <1>1, <1>3, <1>6, <2>4, InLineTail
  <2>. QED  BY <1>2, <2>2, <2>3, <2>5
<1>. QED  BY <1>5, <1>6

LEMMA LineLinkNoise ==
  ASSUME NEW mac, NEW link, NEW fifo, NEW q, NEW z, NEW n, LineTypes(mac, link, fifo, q, z, n),
         Lined(mac, link, fifo, q, z, n)
  PROVE  /\ \A m \in AllMsgs : m.sig # "SEND_MSG" => Lined(mac, Append(link, m), fifo, q, z, n)
         /\ link # <<>> /\ Head(link).sig # "SEND_MSG" => Lined(mac, Tail(link), fifo, q, z, n)
<1>1. link \in Seq(AllMsgs) /\ AskedTo(mac, fifo, n) \in Nat /\ Cnt(link, {"SEND_MSG"}) \in Nat
  BY LineSums DEF LineTypes
<1>2. InLine(link, "SEND_MSG", q, z, AskedTo(mac, fifo, n))
  BY DEF Lined
<1>3. ASSUME NEW m \in AllMsgs, m.sig # "SEND_MSG"
      PROVE  Lined(mac, Append(link, m), fifo, q, z, n)
  <2>1. Cnt(Append(link, m), {"SEND_MSG"}) = Cnt(link, {"SEND_MSG"})
    BY <1>1, <1>3, CntAppend DEF One
  <2>2. InLine(Append(link, m), "SEND_MSG", q, z, AskedTo(mac, fifo, n))
    BY <1>1, <1>2, <1>3, InLineAppend
  <2>. QED  BY <2>1, <2>2 DEF Lined
<1>4. ASSUME link # <<>>, Head(link).sig # "SEND_MSG"
      PROVE  Lined(mac, Tail(link), fifo, q, z, n)
  <2>1. Cnt(Tail(link), {"SEND_MSG"}) = Cnt(link, {"SEND_MSG"})
    BY <1>1, <1>4, CntTail DEF One
  <2>2. AskedTo(mac, fifo, n) = AskedTo(mac, fifo, n) + One(Head(link).sig = "SEND_MSG")
    BY <1>1, <1>4 DEF One
  <2>3. InLine(Tail(link), "SEND_MSG", q, z, AskedTo(mac, fifo, n))
    BY <1>1, <1>2, <1>4, <2>2, InLineTail
  <2>. QED  BY <2>1, <2>3 DEF Lined
<1>. QED  BY <1>3, <1>4

LEMMA LineOrders ==
  ASSUME NEW mac, NEW link, NEW fifo, NEW q, NEW z, NEW n, LineTypes(mac, link, fifo, q, z, n),
         Lined(mac, link, fifo, q, z, n), fifo = <<>>, Cnt(mac, {"FRAME_SEND_START"}) = 0,
         mac # <<>>, Head(mac).sig = "FRAME_SEND_REQ",
         NEW m \in AllMsgs, m.sig = "FRAME_SEND_START", m.pdu = Head(mac).pdu
  PROVE  Lined(Append(Tail(mac), m), link, fifo, q, z, n)
<1> DEFINE reqs == Cnt(mac, {"FRAME_SEND_REQ"})
           box == Append(Tail(mac), m)
<1>t. mac \in Seq(AllMsgs) /\ Tail(mac) \in Seq(AllMsgs) /\ n \in Nat /\ Len(fifo) = 0
  BY TailAt DEF LineTypes
<1>s. /\ reqs \in Nat /\ StartTo(mac, n) = n + Cnt(mac, {"FRAME_SEND_START"})
      /\ FifoTo(mac, fifo, n) = StartTo(mac, n) + Len(fifo) /\ AskedTo(mac, fifo, n) = FifoTo(mac, fifo, n) + reqs
  BY LineSums
<1>1. /\ mac \in Seq(AllMsgs) /\ Tail(mac) \in Seq(AllMsgs) /\ n \in Nat /\ reqs \in Nat
      /\ StartTo(mac, n) = n /\ FifoTo(mac, fifo, n) = n /\ AskedTo(mac, fifo, n) = n + reqs
  BY <1>t, <1>s
<1>2. /\ InLine(mac, "FRAME_SEND_START", q, z, n) /\ InLine(mac, "FRAME_SEND_REQ", q, z, n)
      /\ Len(z) = n + reqs + Cnt(link, {"SEND_MSG"}) /\ InLine(link, "SEND_MSG", q, z, n + reqs)
  BY <1>1 DEF Lined
<1>3. Worth(q, Head(mac)) = z[n + 1]
  <2>1. InLine(mac, "FRAME_SEND_REQ", q, z, n)
    BY <1>2
  <2> HIDE DEF reqs, box
  <2>2. n \in Nat /\ mac \in Seq(AllMsgs)
    BY <1>t
  <2>. QED  BY <2>1, <2>2, InLineHead
<1>4. Worth(q, m) = z[n + 1]
  BY <1>3 DEF Worth
<1>5. /\ Cnt(Tail(mac), {"FRAME_SEND_START"}) = 0 /\ Cnt(box, {"FRAME_SEND_START"}) = 1
      /\ Cnt(box, {"FRAME_SEND_REQ"}) = reqs - 1
  <2>1. Cnt(Tail(mac), {"FRAME_SEND_START"}) = 0 /\ Cnt(Tail(mac), {"FRAME_SEND_REQ"}) = reqs - 1
    BY <1>1, CntTail DEF One
  <2> HIDE DEF reqs
  <2>2. /\ Cnt(box, {"FRAME_SEND_START"}) = Cnt(Tail(mac), {"FRAME_SEND_START"}) + 1
        /\ Cnt(box, {"FRAME_SEND_REQ"}) = Cnt(Tail(mac), {"FRAME_SEND_REQ"}) + 0
    <3>1. /\ Cnt(box, {"FRAME_SEND_START"})
             = Cnt(Tail(mac), {"FRAME_SEND_START"}) + One(m.sig \in {"FRAME_SEND_START"})
          /\ Cnt(box, {"FRAME_SEND_REQ"})
             = Cnt(Tail(mac), {"FRAME_SEND_REQ"}) + One(m.sig \in {"FRAME_SEND_REQ"})
      BY <1>1, CntAppend
    <3>. QED  BY <3>1 DEF One
  <2>. QED  BY <1>1, <2>1, <2>2
<1>6. InLine(box, "FRAME_SEND_START", q, z, n)
  <2>1. n = n + One(Head(mac).sig = "FRAME_SEND_START") /\ n + Cnt(Tail(mac), {"FRAME_SEND_START"}) + 1 = n + 1
    BY <1>1, <1>5 DEF One
  <2>2. InLine(Tail(mac), "FRAME_SEND_START", q, z, n)
    BY <1>1, <1>2, <2>1, InLineTail
  <2>. QED  BY <1>1, <1>4, <2>1, <2>2, InLineAppend
<1>7. InLine(box, "FRAME_SEND_REQ", q, z, n + 1)
  <2>1. n + 1 = n + One(Head(mac).sig = "FRAME_SEND_REQ") /\ n + 1 \in Nat
    BY <1>1 DEF One
  <2>2. InLine(Tail(mac), "FRAME_SEND_REQ", q, z, n + 1)
    BY <1>1, <1>2, <2>1, InLineTail
  <2>. QED  BY <1>1, <2>1, <2>2, InLineAppend
<1> HIDE DEF reqs, box
<1>8. StartTo(box, n) = n + 1 /\ FifoTo(box, fifo, n) = n + 1 /\ AskedTo(box, fifo, n) = n + reqs
  BY <1>1, <1>5 DEF StartTo, FifoTo, AskedTo
<1>9. FifoInLine(fifo, q, z, n + 1)
  BY DEF FifoInLine
<1>. QED  BY <1>2, <1>6, <1>7, <1>8, <1>9 DEF Lined, box

LEMMA LineDefers ==
  ASSUME NEW mac, NEW link, NEW fifo, NEW q, NEW z, NEW n, LineTypes(mac, link, fifo, q, z, n),
         Lined(mac, link, fifo, q, z, n),
         mac # <<>>, Head(mac).sig = "FRAME_SEND_REQ", Head(mac).pdu \in Pdu
  PROVE  Lined(Tail(mac), link, Append(fifo, Head(mac).pdu), q, z, n)
<1> DEFINE reqs == Cnt(mac, {"FRAME_SEND_REQ"})
           longer == Append(fifo, Head(mac).pdu)
           to == FifoTo(mac, fifo, n)
<1>t. mac \in Seq(AllMsgs) /\ Tail(mac) \in Seq(AllMsgs) /\ n \in Nat /\ fifo \in Seq(Pdu)
  BY TailAt DEF LineTypes
<1>1. /\ mac \in Seq(AllMsgs) /\ Tail(mac) \in Seq(AllMsgs) /\ n \in Nat /\ reqs \in Nat
      /\ fifo \in Seq(Pdu) /\ Len(fifo) \in Nat /\ StartTo(mac, n) \in Nat
      /\ to = StartTo(mac, n) + Len(fifo) /\ AskedTo(mac, fifo, n) = to + reqs /\ to \in Nat
  BY <1>t, LineSums
<1>2. /\ InLine(mac, "FRAME_SEND_START", q, z, n) /\ InLine(mac, "FRAME_SEND_REQ", q, z, to)
      /\ Len(z) = AskedTo(mac, fifo, n) + Cnt(link, {"SEND_MSG"})
      /\ InLine(link, "SEND_MSG", q, z, AskedTo(mac, fifo, n)) /\ FifoInLine(fifo, q, z, StartTo(mac, n))
  BY DEF Lined
<1>3. q[Head(mac).pdu] = z[to + 1]
  <2>1. InLine(mac, "FRAME_SEND_REQ", q, z, to) /\ to \in Nat /\ mac \in Seq(AllMsgs)
    BY <1>1, <1>2
  <2> HIDE DEF to
  <2>2. Worth(q, Head(mac)) = z[to + 1]
    BY <2>1, InLineHead
  <2>. QED  BY <2>2 DEF Worth
<1>4. /\ Cnt(Tail(mac), {"FRAME_SEND_START"}) = Cnt(mac, {"FRAME_SEND_START"})
      /\ Cnt(Tail(mac), {"FRAME_SEND_REQ"}) = reqs - 1
  <2>1. Cnt(mac, {"FRAME_SEND_START"}) \in Nat
    BY LineSums
  <2>. QED  BY <1>t, <1>1, <2>1, CntTail DEF One
<1>5. longer \in Seq(Pdu) /\ Len(longer) = Len(fifo) + 1
  BY <1>1
<1> HIDE DEF to
<1>6. FifoInLine(longer, q, z, StartTo(mac, n))
  <2>1. \A i \in 1..Len(fifo) : longer[i] = fifo[i] /\ q[fifo[i]] = z[StartTo(mac, n) + i]
    BY <1>1, <1>2, AppendAt DEF FifoInLine
  <2>2. longer[Len(fifo) + 1] = Head(mac).pdu
    BY <1>1, AppendAt
  <2>3. StartTo(mac, n) + (Len(fifo) + 1) = to + 1
    BY <1>1
  <2>4. \A i \in 1..Len(longer) : i \in 1..Len(fifo) \/ i = Len(fifo) + 1
    BY <1>1, <1>5
  <2>. QED  BY <1>3, <2>1, <2>2, <2>3, <2>4 DEF FifoInLine
<1>7. InLine(Tail(mac), "FRAME_SEND_START", q, z, n) /\ InLine(Tail(mac), "FRAME_SEND_REQ", q, z, to + 1)
  <2>1. n = n + One(Head(mac).sig = "FRAME_SEND_START") /\ to + 1 = to + One(Head(mac).sig = "FRAME_SEND_REQ")
        /\ to + 1 \in Nat
    BY <1>1 DEF One
  <2>. QED  BY <1>1, <1>2, <2>1, InLineTail
<1> HIDE DEF reqs, longer
<1>8. /\ StartTo(Tail(mac), n) = StartTo(mac, n) /\ FifoTo(Tail(mac), longer, n) = to + 1
      /\ AskedTo(Tail(mac), longer, n) = AskedTo(mac, fifo, n)
  <2>1. StartTo(Tail(mac), n) = StartTo(mac, n)
    BY <1>4 DEF StartTo
  <2>2. FifoTo(Tail(mac), longer, n) = to + 1
    BY <1>1, <1>5, <2>1 DEF FifoTo
  <2>. QED  BY <1>1, <1>4, <2>1, <2>2 DEF AskedTo
<1>. QED  BY <1>2, <1>6, <1>7, <1>8 DEF Lined, longer

LEMMA LineStarts ==
  ASSUME NEW mac, NEW link, NEW fifo, NEW q, NEW z, NEW n, LineTypes(mac, link, fifo, q, z, n),
         Lined(mac, link, fifo, q, z, n), Cnt(mac, {"FRAME_SEND_START"}) = 1,
         mac # <<>>, Head(mac).sig = "FRAME_SEND_START"
  PROVE  /\ Lined(Tail(mac), link, fifo, q, z, n + 1)
         /\ n + 1 \in 1..Len(z) /\ q[Head(mac).pdu] = z[n + 1]
<1> DEFINE reqs == Cnt(mac, {"FRAME_SEND_REQ"})
           to == FifoTo(mac, fifo, n)
<1>t. mac \in Seq(AllMsgs) /\ Tail(mac) \in Seq(AllMsgs) /\ n \in Nat
  BY TailAt DEF LineTypes
<1>1. /\ mac \in Seq(AllMsgs) /\ Tail(mac) \in Seq(AllMsgs) /\ n \in Nat /\ reqs \in Nat
      /\ Len(fifo) \in Nat /\ StartTo(mac, n) = n + 1 /\ Len(z) \in Nat
      /\ to = StartTo(mac, n) + Len(fifo) /\ AskedTo(mac, fifo, n) = to + reqs /\ to \in Nat
      /\ Cnt(link, {"SEND_MSG"}) \in Nat
  BY <1>t, LineSums
<1>2. /\ InLine(mac, "FRAME_SEND_START", q, z, n) /\ InLine(mac, "FRAME_SEND_REQ", q, z, to)
      /\ Len(z) = AskedTo(mac, fifo, n) + Cnt(link, {"SEND_MSG"})
      /\ InLine(link, "SEND_MSG", q, z, AskedTo(mac, fifo, n)) /\ FifoInLine(fifo, q, z, n + 1)
  BY <1>1 DEF Lined
<1>3. q[Head(mac).pdu] = z[n + 1]
  BY <1>1, <1>2, InLineHead DEF Worth
<1>4. Cnt(Tail(mac), {"FRAME_SEND_START"}) = 0 /\ Cnt(Tail(mac), {"FRAME_SEND_REQ"}) = reqs
  BY <1>1, CntTail DEF One
<1> HIDE DEF to
<1>5. InLine(Tail(mac), "FRAME_SEND_START", q, z, n + 1) /\ InLine(Tail(mac), "FRAME_SEND_REQ", q, z, to)
  <2>1. n + 1 = n + One(Head(mac).sig = "FRAME_SEND_START") /\ to = to + One(Head(mac).sig = "FRAME_SEND_REQ")
        /\ n + 1 \in Nat
    BY <1>1 DEF One
  <2>. QED  BY <1>1, <1>2, <2>1, InLineTail
<1> HIDE DEF reqs
<1>6. /\ StartTo(Tail(mac), n + 1) = n + 1 /\ FifoTo(Tail(mac), fifo, n + 1) = to
      /\ AskedTo(Tail(mac), fifo, n + 1) = AskedTo(mac, fifo, n)
  <2>1. StartTo(Tail(mac), n + 1) = n + 1
    BY <1>1, <1>4 DEF StartTo
  <2>2. FifoTo(Tail(mac), fifo, n + 1) = to
    BY <1>1, <2>1 DEF FifoTo
  <2>. QED  BY <1>1, <1>4, <2>1, <2>2 DEF AskedTo
<1>7. Lined(Tail(mac), link, fifo, q, z, n + 1)
  BY <1>2, <1>5, <1>6 DEF Lined
<1>8. n + 1 \in 1..Len(z)
  BY <1>1, <1>2
<1>. QED  BY <1>3, <1>7, <1>8

LEMMA LineNext ==
  ASSUME NEW mac, NEW link, NEW fifo, NEW q, NEW z, NEW n, LineTypes(mac, link, fifo, q, z, n),
         Lined(mac, link, fifo, q, z, n), Cnt(mac, {"FRAME_SEND_START"}) = 0, fifo # <<>>,
         NEW m \in AllMsgs, m.sig = "FRAME_SEND_START", m.pdu = Head(fifo)
  PROVE  Lined(Append(mac, m), link, Tail(fifo), q, z, n)
<1> DEFINE reqs == Cnt(mac, {"FRAME_SEND_REQ"})
           to == FifoTo(mac, fifo, n)
           box == Append(mac, m)
<1>t. /\ mac \in Seq(AllMsgs) /\ n \in Nat /\ fifo \in Seq(Pdu) /\ Len(Tail(fifo)) = Len(fifo) - 1
  BY DEF LineTypes
<1>s. /\ reqs \in Nat /\ Len(fifo) \in Nat /\ StartTo(mac, n) = n + Cnt(mac, {"FRAME_SEND_START"})
      /\ to = StartTo(mac, n) + Len(fifo) /\ AskedTo(mac, fifo, n) = to + reqs /\ to \in Nat
  BY LineSums
<1>1. /\ mac \in Seq(AllMsgs) /\ n \in Nat /\ reqs \in Nat /\ fifo \in Seq(Pdu)
      /\ Len(fifo) \in Nat /\ StartTo(mac, n) = n /\ Len(Tail(fifo)) = Len(fifo) - 1
      /\ to = n + Len(fifo) /\ AskedTo(mac, fifo, n) = to + reqs /\ to \in Nat
  <2>1. StartTo(mac, n) = n
    BY <1>t, <1>s
  <2>. QED  BY <1>t, <1>s, <2>1
<1>2. /\ InLine(mac, "FRAME_SEND_START", q, z, n) /\ InLine(mac, "FRAME_SEND_REQ", q, z, to)
      /\ Len(z) = AskedTo(mac, fifo, n) + Cnt(link, {"SEND_MSG"})
      /\ InLine(link, "SEND_MSG", q, z, AskedTo(mac, fifo, n)) /\ FifoInLine(fifo, q, z, n)
  BY <1>1 DEF Lined
<1>3. q[Head(fifo)] = z[n + 1]
  BY <1>1, <1>2, TailAt DEF FifoInLine
<1>4. Cnt(box, {"FRAME_SEND_START"}) = 1 /\ Cnt(box, {"FRAME_SEND_REQ"}) = reqs
  BY <1>1, CntAppend DEF One
<1> HIDE DEF to
<1>5. InLine(box, "FRAME_SEND_START", q, z, n) /\ InLine(box, "FRAME_SEND_REQ", q, z, to)
  <2>1. n + Cnt(mac, {"FRAME_SEND_START"}) + 1 = n + 1
    BY <1>1
  <2>2. Worth(q, m) = z[n + 1]
    BY <1>3 DEF Worth
  <2>. QED  BY <1>1, <1>2, <2>1, <2>2, InLineAppend
<1>6. FifoInLine(Tail(fifo), q, z, n + 1)
  <2>. SUFFICES ASSUME NEW i \in 1..Len(Tail(fifo))
                PROVE  q[Tail(fifo)[i]] = z[n + 1 + i]
    BY DEF FifoInLine
  <2>1. i + 1 \in 1..Len(fifo) /\ Tail(fifo)[i] = fifo[i + 1] /\ i \in Nat
    BY <1>1, TailAt
  <2>2. q[fifo[i + 1]] = z[n + (i + 1)]
    BY <1>2, <2>1 DEF FifoInLine
  <2>3. n + (i + 1) = n + 1 + i
    BY <1>1, <2>1
  <2>. QED  BY <2>1, <2>2, <2>3
<1> HIDE DEF reqs, box
<1>7. /\ StartTo(box, n) = n + 1 /\ FifoTo(box, Tail(fifo), n) = to
      /\ AskedTo(box, Tail(fifo), n) = AskedTo(mac, fifo, n)
  <2>1. StartTo(box, n) = n + 1
    BY <1>1, <1>4 DEF StartTo
  <2>2. FifoTo(box, Tail(fifo), n) = to
    BY <1>1, <2>1 DEF FifoTo
  <2>. QED  BY <1>1, <1>4, <2>1, <2>2 DEF AskedTo
<1>. QED  BY <1>2, <1>5, <1>6, <1>7 DEF Lined, box

LEMMA LinePool ==
  ASSUME NEW mac, NEW link, NEW fifo, NEW q, NEW z, NEW n, LineTypes(mac, link, fifo, q, z, n),
         Lined(mac, link, fifo, q, z, n), NEW p \in Pdu, Apart(p, mac, fifo), NEW v,
         NEW r, r = [q EXCEPT ![p] = v]
  PROVE  Lined(mac, link, fifo, r, z, n)
<1>1. \A x \in Pdu \ {p} : r[x] = q[x]
  BY DEF LineTypes
<1>2. /\ mac \in Seq(AllMsgs) /\ link \in Seq(AllMsgs) /\ n \in Nat /\ FifoTo(mac, fifo, n) \in Nat
      /\ AskedTo(mac, fifo, n) \in Nat
  BY LineSums DEF LineTypes
<1>3. /\ InLine(mac, "FRAME_SEND_START", q, z, n) /\ FifoInLine(fifo, q, z, StartTo(mac, n))
      /\ InLine(mac, "FRAME_SEND_REQ", q, z, FifoTo(mac, fifo, n))
      /\ InLine(link, "SEND_MSG", q, z, AskedTo(mac, fifo, n))
      /\ Len(z) = AskedTo(mac, fifo, n) + Cnt(link, {"SEND_MSG"})
  BY DEF Lined
<1>4. ASSUME NEW sig \in Starts, NEW i \in 1..Len(mac), mac[i].sig = sig
      PROVE  Worth(r, mac[i]) = Worth(q, mac[i])
  <2>1. mac[i].pdu \in Pdu \ {p} /\ mac[i].sig # "SEND_MSG"
    BY <1>4 DEF Apart, Starts
  <2>. QED  BY <1>1, <2>1 DEF Worth
<1>5. "FRAME_SEND_START" \in Starts /\ "FRAME_SEND_REQ" \in Starts
  BY DEF Starts
<1>6. InLine(mac, "FRAME_SEND_START", r, z, n)
  BY <1>2, <1>3, <1>4, <1>5, InLineMoves
<1>7. InLine(mac, "FRAME_SEND_REQ", r, z, FifoTo(mac, fifo, n))
  BY <1>2, <1>3, <1>4, <1>5, InLineMoves
<1>8. InLine(link, "SEND_MSG", r, z, AskedTo(mac, fifo, n))
  BY <1>3 DEF InLine, Worth
<1>9. FifoInLine(fifo, r, z, StartTo(mac, n))
  BY <1>1, <1>3 DEF FifoInLine, Apart
<1>. QED  BY <1>3, <1>6, <1>7, <1>8, <1>9 DEF Lined

LEMMA LineAsks ==
  ASSUME NEW mac, NEW link, NEW fifo, NEW q, NEW z, NEW n, LineTypes(mac, link, fifo, q, z, n),
         Lined(mac, link, fifo, q, z, n), link # <<>>, Head(link).sig = "SEND_MSG",
         NEW m \in AllMsgs, m.sig = "FRAME_SEND_REQ", q[m.pdu] = Head(link).frames
  PROVE  Lined(Append(mac, m), Tail(link), fifo, q, z, n)
<1> DEFINE box == Append(mac, m)
           reqs == Cnt(mac, {"FRAME_SEND_REQ"})
           to == FifoTo(mac, fifo, n)
<1>t. mac \in Seq(AllMsgs) /\ link \in Seq(AllMsgs) /\ n \in Nat /\ box \in Seq(AllMsgs) /\ Tail(link) \in Seq(AllMsgs)
  BY TailAt DEF LineTypes
<1>1. /\ reqs \in Nat /\ to \in Nat /\ AskedTo(mac, fifo, n) = to + reqs /\ to + reqs \in Nat
      /\ Cnt(mac, {"FRAME_SEND_START"}) \in Nat /\ Cnt(link, {"SEND_MSG"}) \in Nat
  BY LineSums
<1>2. /\ InLine(mac, "FRAME_SEND_START", q, z, n) /\ InLine(mac, "FRAME_SEND_REQ", q, z, to)
      /\ Len(z) = to + reqs + Cnt(link, {"SEND_MSG"})
      /\ InLine(link, "SEND_MSG", q, z, to + reqs) /\ FifoInLine(fifo, q, z, StartTo(mac, n))
  BY <1>1 DEF Lined
<1> HIDE DEF to
<1>3. Worth(q, m) = z[to + reqs + 1]
  <2>1. InLine(link, "SEND_MSG", q, z, to + reqs)
    BY <1>2
  <2> HIDE DEF reqs, box
  <2>2. PICK from \in Nat : from = to + reqs
    BY <1>1
  <2>a. InLine(link, "SEND_MSG", q, z, from)
    BY <2>1, <2>2
  <2>b. link \in Seq(AllMsgs)
    BY <1>t
  <2>3. Worth(q, Head(link)) = z[from + 1]
    BY <2>a, <2>b, InLineHead
  <2>. QED  BY <2>2, <2>3 DEF Worth
<1>4. /\ Cnt(box, {"FRAME_SEND_START"}) = Cnt(mac, {"FRAME_SEND_START"})
      /\ Cnt(box, {"FRAME_SEND_REQ"}) = reqs + 1 /\ Cnt(Tail(link), {"SEND_MSG"}) = Cnt(link, {"SEND_MSG"}) - 1
  <2>1. Cnt(Tail(link), {"SEND_MSG"}) = Cnt(link, {"SEND_MSG"}) - 1
    BY <1>t, CntTail DEF One
  <2>2. /\ Cnt(box, {"FRAME_SEND_START"}) = Cnt(mac, {"FRAME_SEND_START"}) + 0
        /\ Cnt(box, {"FRAME_SEND_REQ"}) = reqs + 1
    BY <1>t, CntAppend DEF One
  <2>. QED  BY <1>1, <2>1, <2>2
<1>5. InLine(box, "FRAME_SEND_START", q, z, n) /\ InLine(box, "FRAME_SEND_REQ", q, z, to)
  BY <1>t, <1>1, <1>2, <1>3, InLineAppend
<1>6. InLine(Tail(link), "SEND_MSG", q, z, to + reqs + 1)
  <2> HIDE DEF reqs, box
  <2>1. to + reqs + 1 = to + reqs + One(Head(link).sig = "SEND_MSG") /\ to + reqs + 1 \in Nat
    BY <1>1 DEF One
  <2>. QED  BY <1>t, <1>1, <1>2, <2>1, InLineTail
<1> HIDE DEF reqs, box
<1>7. StartTo(box, n) = StartTo(mac, n) /\ FifoTo(box, fifo, n) = to /\ AskedTo(box, fifo, n) = to + reqs + 1
  <2>1. StartTo(box, n) = StartTo(mac, n)
    BY <1>4 DEF StartTo
  <2>2. FifoTo(box, fifo, n) = to
    BY <2>1 DEF FifoTo, to
  <2>. QED  BY <1>1, <1>4, <2>1, <2>2 DEF AskedTo
<1>8. Len(z) = to + reqs + 1 + Cnt(Tail(link), {"SEND_MSG"})
  BY <1>1, <1>2, <1>4
<1>. QED  BY <1>2, <1>5, <1>6, <1>7, <1>8 DEF Lined, box

LEMMA LineRequest ==
  ASSUME NEW mac, NEW link, NEW fifo, NEW q, NEW z, NEW n, LineTypes(mac, link, fifo, q, z, n),
         Lined(mac, link, fifo, q, z, n), NEW k \in 1..MaxFrames,
         NEW m \in AllMsgs, m.sig = "SEND_MSG", m.frames = k
  PROVE  Lined(mac, Append(link, m), fifo, q, Append(z, k), n)
<1> DEFINE longer == Append(z, k)
           to == AskedTo(mac, fifo, n)
           more == Cnt(link, {"SEND_MSG"})
<1>t. /\ mac \in Seq(AllMsgs) /\ link \in Seq(AllMsgs) /\ n \in Nat /\ z \in Seq(1..MaxFrames)
      /\ Append(link, m) \in Seq(AllMsgs) /\ fifo \in Seq(Pdu)
  BY DEF LineTypes
<1>1. /\ to \in Nat /\ more \in Nat /\ FifoTo(mac, fifo, n) \in Nat /\ StartTo(mac, n) \in Nat /\ Len(fifo) \in Nat
      /\ FifoTo(mac, fifo, n) = StartTo(mac, n) + Len(fifo) /\ Len(z) \in Nat
      /\ to = FifoTo(mac, fifo, n) + Cnt(mac, {"FRAME_SEND_REQ"}) /\ Cnt(mac, {"FRAME_SEND_REQ"}) \in Nat
      /\ StartTo(mac, n) = n + Cnt(mac, {"FRAME_SEND_START"}) /\ Cnt(mac, {"FRAME_SEND_START"}) \in Nat
  BY LineSums
<1>2. /\ InLine(mac, "FRAME_SEND_START", q, z, n) /\ FifoInLine(fifo, q, z, StartTo(mac, n))
      /\ InLine(mac, "FRAME_SEND_REQ", q, z, FifoTo(mac, fifo, n))
      /\ InLine(link, "SEND_MSG", q, z, to) /\ Len(z) = to + more
  BY DEF Lined
<1>3. /\ \A i \in 1..Len(z) : longer[i] = z[i]
      /\ longer[Len(z) + 1] = k /\ Len(longer) = Len(z) + 1
  BY <1>t, AppendAt
<1> HIDE DEF longer, to, more
<1>4. /\ n + Cnt(mac, {"FRAME_SEND_START"}) <= Len(z)
      /\ FifoTo(mac, fifo, n) + Cnt(mac, {"FRAME_SEND_REQ"}) <= Len(z)
      /\ to + more <= Len(z) /\ StartTo(mac, n) + Len(fifo) <= Len(z)
  BY <1>1, <1>2
<1>5. \A j \in Nat : j <= Len(z) => \A i \in 1..j : longer[i] = z[i]
  BY <1>1, <1>3
<1>6. /\ \A i \in 1 .. n + Cnt(mac, {"FRAME_SEND_START"}) : longer[i] = z[i]
      /\ \A i \in 1 .. FifoTo(mac, fifo, n) + Cnt(mac, {"FRAME_SEND_REQ"}) : longer[i] = z[i]
      /\ \A i \in 1 .. to + more : longer[i] = z[i]
      /\ \A i \in 1 .. StartTo(mac, n) + Len(fifo) : longer[i] = z[i]
  <2>1. \A a, b \in Nat : a + b \in Nat
    OBVIOUS
  <2>2. /\ n + Cnt(mac, {"FRAME_SEND_START"}) \in Nat
        /\ FifoTo(mac, fifo, n) + Cnt(mac, {"FRAME_SEND_REQ"}) \in Nat
        /\ to + more \in Nat /\ StartTo(mac, n) + Len(fifo) \in Nat
    BY <1>t, <1>1, <2>1
  <2>. QED  BY <1>4, <1>5, <2>2
<1>7. InLine(mac, "FRAME_SEND_START", q, longer, n)
  BY <1>t, <1>2, <1>6, InLineMoves
<1>8. InLine(mac, "FRAME_SEND_REQ", q, longer, FifoTo(mac, fifo, n))
  BY <1>t, <1>1, <1>2, <1>6, InLineMoves
<1>9. InLine(Append(link, m), "SEND_MSG", q, longer, to)
  <2>1. \A i \in 1 .. to + Cnt(link, {"SEND_MSG"}) : longer[i] = z[i]
    BY <1>6 DEF more
  <2>2. InLine(link, "SEND_MSG", q, longer, to)
    BY <1>t, <1>1, <1>2, <2>1, InLineMoves
  <2>3. Worth(q, m) = longer[to + Cnt(link, {"SEND_MSG"}) + 1]
    BY <1>1, <1>2, <1>3 DEF Worth, more
  <2>. QED  BY <1>t, <1>1, <2>2, <2>3, InLineAppend
<1>10. FifoInLine(fifo, q, longer, StartTo(mac, n))
  <2>. SUFFICES ASSUME NEW i \in 1..Len(fifo)
                PROVE  q[fifo[i]] = longer[StartTo(mac, n) + i]
    BY DEF FifoInLine
  <2>1. StartTo(mac, n) + i \in 1 .. StartTo(mac, n) + Len(fifo)
    BY <1>1
  <2>. QED  BY <1>2, <1>6, <2>1 DEF FifoInLine
<1>11. Len(longer) = to + Cnt(Append(link, m), {"SEND_MSG"})
  <2>1. Cnt(Append(link, m), {"SEND_MSG"}) = more + 1
    BY <1>t, CntAppend DEF One, more
  <2>. QED  BY <1>1, <1>2, <1>3, <2>1
<1>. QED  BY <1>7, <1>8, <1>9, <1>10, <1>11 DEF Lined, longer, to

LEMMA LineFacts ==
  ASSUME Base
  PROVE  /\ LineTypes(mbox["LINK_MAC"], mbox["LINK"], pduFifo, pool, size, macSend.seq)
         /\ macSend \in MacSender
         /\ \A m \in MacMsgs : m \in AllMsgs
         /\ \A m \in LinkMsgs : m \in AllMsgs
         /\ \A p \in Pdu : /\ PduMsg("FRAME_SEND_START", p) \in AllMsgs /\ PduMsg("FRAME_SEND_REQ", p) \in AllMsgs
                           /\ PduMsg("SEND_DONE", p) \in AllMsgs /\ PduMsg("SEND_ERR", p) \in AllMsgs
<1>1. /\ IInv /\ size \in Seq(1..MaxFrames) /\ \A t \in Task : mbox[t] \in Seq(AllMsgs)
  BY BaseFacts
<1>2. macSend \in MacSender /\ macSend.seq \in Nat /\ pduFifo \in Seq(Pdu)
  BY <1>1, Upstream
<1>3. pool \in [Pdu -> Nat]
  BY <1>1 DEF IInv, Types, TypeOK
<1>4. (\A m \in MacMsgs : m \in AllMsgs) /\ (\A m \in LinkMsgs : m \in AllMsgs)
  BY DEF AllMsgs
<1>5. \A p \in Pdu : /\ PduMsg("FRAME_SEND_START", p) \in MacMsgs /\ PduMsg("FRAME_SEND_REQ", p) \in MacMsgs
                     /\ PduMsg("SEND_DONE", p) \in LinkMsgs /\ PduMsg("SEND_ERR", p) \in LinkMsgs
  BY Posted
<1>6. "LINK_MAC" \in Task /\ "LINK" \in Task
  BY Tasks
<1>. QED  BY <1>1, <1>2, <1>3, <1>4, <1>5, <1>6 DEF LineTypes

LEMMA LineApart ==
  ASSUME Base, NEW p \in Pdu,
         \/ pool[p] = 0
         \/ mbox["LINK"] # <<>> /\ LinkMsg.sig \in {"SEND_DONE", "SEND_ERR"} /\ LinkMsg.pdu = p
  PROVE  Apart(p, mbox["LINK_MAC"], pduFifo)
<1>0. /\ IInv /\ Safe /\ mbox["LINK_MAC"] \in Seq(AllMsgs) /\ mbox["LINK"] \in Seq(AllMsgs) /\ pduFifo \in Seq(Pdu)
      /\ mbox["LINK_MAC"] \in Seq(MacMsgs)
  BY BaseFacts, LineFacts, Tasks DEF LineTypes
<1>1. /\ Car(mbox["LINK"], p) \in Nat /\ Car(mbox["LINK_MAC"], p) \in Nat /\ Occ(pduFifo, {p}) \in Nat
      /\ Car(mbox["LINK"], p) + Car(mbox["LINK_MAC"], p) + Occ(pduFifo, {p})
           + One(Holds /\ macSend.pdu = p) + One(macRev.pdu = p) = One(pool[p] # 0)
  BY <1>0, Owners
<1>2. pool[p] # 0 => Car(mbox["LINK"], p) >= 1
  <2>1. ASSUME pool[p] # 0
        PROVE  Car(mbox["LINK"], p) >= 1
    <3>1. mbox["LINK"] # <<>> /\ LinkMsg.sig \in {"SEND_DONE", "SEND_ERR"} /\ LinkMsg.pdu = p
      BY <2>1
    <3>2. Head(mbox["LINK"]).sig \in PduSigs /\ Head(mbox["LINK"]).pdu = p
      BY <3>1 DEF LinkMsg, PduSigs
    <3>3. Car(Tail(mbox["LINK"]), p) = Car(mbox["LINK"], p) - 1 /\ Car(Tail(mbox["LINK"]), p) \in Nat
      <4>1. Tail(mbox["LINK"]) \in Seq(AllMsgs)
        BY <1>0, <3>1
      <4>. QED  BY <1>0, <3>1, <3>2, <4>1, CntTail, CntNat DEF One
    <3>. QED  BY <1>1, <3>3
  <2>. QED  BY <2>1
<1>3. Car(mbox["LINK_MAC"], p) = 0 /\ Occ(pduFifo, {p}) = 0
  BY <1>1, <1>2 DEF One
<1>4. \A i \in 1..Len(mbox["LINK_MAC"]) : mbox["LINK_MAC"][i] \notin CarryingPdu(p)
  BY <1>0, <1>3, OccZero DEF Car
<1>5. \A i \in 1..Len(pduFifo) : pduFifo[i] \notin {p} /\ pduFifo[i] \in Pdu
  BY <1>0, <1>3, OccZero
<1>6. \A i \in 1..Len(mbox["LINK_MAC"]) : mbox["LINK_MAC"][i] \in MacMsgs /\ mbox["LINK_MAC"][i] \in AllMsgs
  BY <1>0
<1>7. ASSUME NEW i \in 1..Len(mbox["LINK_MAC"]), mbox["LINK_MAC"][i].sig \in Starts
      PROVE  mbox["LINK_MAC"][i].pdu \in Pdu \ {p}
  <2>1. mbox["LINK_MAC"][i].pdu \in Pdu
    BY <1>6, <1>7, MsgFields DEF Starts
  <2>2. mbox["LINK_MAC"][i].sig \in PduSigs
    BY <1>7 DEF Starts, PduSigs
  <2>. QED  BY <1>4, <1>6, <2>1, <2>2 DEF CarryingPdu
<1>. QED  BY <1>5, <1>7 DEF Apart

LEMMA LineUpMac ==
  ASSUME Base, LineUp, MacOfA
  PROVE  LineUp'
<1> DEFINE mac == mbox["LINK_MAC"]
           link == mbox["LINK"]
<1>0. /\ LineTypes(mac, link, pduFifo, pool, size, macSend.seq) /\ mac # <<>> /\ MacMsg = Head(mac)
      /\ mac \in Seq(AllMsgs) /\ macSend \in MacSender /\ Safe /\ pduFifo \in Seq(Pdu)
      /\ macSend.state \in {"IDLE", "SENDING"}
  <2>1. IInv /\ Safe
    BY BaseFacts
  <2>. QED  BY <2>1, LineFacts, MacCounts DEF MacOfA, MacMsg, LineTypes
<1>1. Lined(mac, link, pduFifo, pool, size, macSend.seq) /\ (macSend.state = "IDLE" => pduFifo = <<>>)
  BY DEF LineUp
<1>2. pool' = pool /\ size' = size
  BY DEF MacOfA
<1>3. /\ Cnt(mac, {"FRAME_SEND_START"}) \in Nat /\ Cnt(mac, {"FRAME_SEND_START"}) <= 1
      /\ Cnt(mac, {"FRAME_SEND_START"}) # 0 => macSend.state = "SENDING"
  BY <1>0, LineSums DEF Safe, Starting
<1>4. Head(mac).sig \in Starts => Head(mac).pdu \in Pdu
  <2>1. Head(mac) \in MacMsgs
    BY <1>0 DEF MacOfA
  <2>. QED  BY <2>1, MsgFields DEF Starts
<1>5. CASE MacOrders
  <2>1. Head(mac).sig = "FRAME_SEND_REQ" /\ macSend.state = "IDLE" /\ pduFifo = <<>> /\ pduFifo' = pduFifo
    BY <1>0, <1>1, <1>5 DEF MacOrders
  <2>2. PICK m \in AllMsgs : m = PduMsg("FRAME_SEND_START", Head(mac).pdu)
    BY <1>4, <2>1, LineFacts DEF Starts
  <2>3. /\ mbox'["LINK_MAC"] = Append(Tail(mac), m) /\ mbox'["LINK"] = link
        /\ macSend'.seq = macSend.seq /\ macSend'.state = "SENDING"
    BY <1>0, <1>5, <2>2 DEF MacOrders, MacSender
  <2>4. m.sig = "FRAME_SEND_START" /\ m.pdu = Head(mac).pdu
    BY <2>2 DEF PduMsg
  <2>5. Cnt(mac, {"FRAME_SEND_START"}) = 0
    BY <1>3, <2>1
  <2>6. Lined(Append(Tail(mac), m), link, pduFifo, pool, size, macSend.seq)
    BY <1>0, <1>1, <2>1, <2>4, <2>5, LineOrders
  <2>. QED  BY <1>2, <2>1, <2>3, <2>6 DEF LineUp
<1>6. CASE MacDefers
  <2>1. /\ Head(mac).sig = "FRAME_SEND_REQ" /\ macSend' = macSend /\ pduFifo' = Append(pduFifo, Head(mac).pdu)
        /\ mbox'["LINK_MAC"] = Tail(mac) /\ mbox'["LINK"] = link /\ macSend.state = "SENDING"
    BY <1>0, <1>6 DEF MacDefers
  <2>2. Head(mac).pdu \in Pdu
    BY <1>4, <2>1 DEF Starts
  <2>3. Lined(Tail(mac), link, Append(pduFifo, Head(mac).pdu), pool, size, macSend.seq)
    BY <1>0, <1>1, <2>1, <2>2, LineDefers
  <2>. QED  BY <1>2, <2>1, <2>3 DEF LineUp
<1>7. CASE MacFirst
  <2>1. /\ Head(mac).sig = "FRAME_SEND_START" /\ pduFifo' = pduFifo
        /\ mbox'["LINK_MAC"] = Tail(mac) /\ mbox'["LINK"] = link
        /\ macSend'.seq = macSend.seq + 1 /\ macSend'.state = "SENDING"
    <3>1. Head(mac).sig = "FRAME_SEND_START"
      BY <1>0, <1>7 DEF MacFirst
    <3>2. PICK s : /\ s = [macSend EXCEPT !.retry = 0, !.pdu = MacMsg.pdu, !.seq = @ + 1,
                              !.frame = [seq |-> macSend.seq, fidx |-> 0, fnum |-> pool[MacMsg.pdu]]]
                   /\ MacSends(s)
      BY <1>7 DEF MacFirst
    <3>3. s.seq = macSend.seq + 1
      BY <1>0, <3>2 DEF MacSender
    <3>. QED  BY <3>1, <3>2, <3>3 DEF MacSends
  <2>2. Cnt(mac, {"FRAME_SEND_START"}) = 1
    <3>1. Cnt(mac, {"FRAME_SEND_START"}) # 0
      BY <1>0, <2>1, HeadCounts
    <3>. QED  BY <1>3, <3>1
  <2>3. Lined(Tail(mac), link, pduFifo, pool, size, macSend.seq + 1)
    BY <1>0, <1>1, <2>1, <2>2, LineStarts
  <2>. QED  BY <1>2, <2>1, <2>3 DEF LineUp
<1>8. CASE MacGoesOn \/ MacRepeats
  <2>1. /\ Head(mac).sig \in {"FRAME_SEND_DONE", "FRAME_SEND_ERR"} /\ pduFifo' = pduFifo
        /\ mbox'["LINK_MAC"] = Tail(mac) /\ mbox'["LINK"] = link
        /\ macSend'.seq = macSend.seq /\ macSend'.state = "SENDING"
    <3>1. Head(mac).sig \in {"FRAME_SEND_DONE", "FRAME_SEND_ERR"}
      BY <1>0, <1>8 DEF MacGoesOn, MacRepeats
    <3>2. PICK s : /\ \/ s = [macSend EXCEPT !.frame.fidx = @ + 1]
                      \/ s = [macSend EXCEPT !.retry = 1, !.frame.fidx = 0]
                   /\ MacSends(s)
      BY <1>8 DEF MacGoesOn, MacRepeats
    <3>3. s.seq = macSend.seq
      BY <1>0, <3>2 DEF MacSender
    <3>. QED  BY <3>1, <3>2, <3>3 DEF MacSends
  <2>2. Lined(Tail(mac), link, pduFifo, pool, size, macSend.seq)
    BY <1>0, <1>1, <2>1, LineMacNoise DEF Starts
  <2>. QED  BY <1>2, <2>1, <2>2 DEF LineUp
<1>9. CASE MacSucceeds \/ MacAbandons
  <2>1. Head(mac).sig \in {"FRAME_SEND_DONE", "FRAME_SEND_ERR"} /\ \E r \in {"SEND_DONE", "SEND_ERR"} : MacIsDone(r)
    BY <1>0, <1>9 DEF MacSucceeds, MacAbandons
  <2>2. PICK r \in {"SEND_DONE", "SEND_ERR"} : MacIsDone(r)
    BY <2>1
  <2>3. Cnt(mac, {"FRAME_SEND_START"}) = 0 /\ macSend'.seq = macSend.seq /\ Holds
    BY <2>2 DEF MacIsDone, Holds
  <2>4. Lined(Tail(mac), link, pduFifo, pool, size, macSend.seq)
    BY <1>0, <1>1, <2>1, LineMacNoise DEF Starts
  <2>5. PICK d \in AllMsgs : d = PduMsg(r, macSend.pdu)
    <3>1. macSend.pdu # None
      <4>1. IInv /\ Cnt(mac, {"FRAME_SEND_DONE", "FRAME_SEND_ERR", "FRAME_SEND_TO"}) # 0
        BY <1>0, <2>1, BaseFacts, HeadCounts
      <4>. QED  BY <4>1 DEF IInv, Unsent
    <3>2. macSend.pdu \in Pdu
      BY <1>0, <3>1 DEF MacSender
    <3>. QED  BY <3>2, LineFacts
  <2>6. d.sig # "SEND_MSG" /\ mbox'["LINK"] = Append(link, d)
    BY <2>2, <2>5 DEF PduMsg, MacIsDone
  <2>7. LineTypes(Tail(mac), link, pduFifo, pool, size, macSend.seq)
    BY <1>0 DEF LineTypes
  <2>8. Lined(Tail(mac), Append(link, d), pduFifo, pool, size, macSend.seq)
    BY <2>4, <2>6, <2>7, LineLinkNoise
  <2>9. CASE pduFifo = <<>>
    <3>1. pduFifo' = pduFifo /\ mbox'["LINK_MAC"] = Tail(mac)
      BY <2>2, <2>9 DEF MacIsDone
    <3>. QED  BY <1>2, <2>3, <2>6, <2>8, <2>9, <3>1 DEF LineUp
  <2>10. CASE pduFifo # <<>>
    <3>1. /\ pduFifo' = Tail(pduFifo) /\ macSend'.state = "SENDING"
          /\ mbox'["LINK_MAC"] = Append(Tail(mac), PduMsg("FRAME_SEND_START", Head(pduFifo)))
      BY <2>2, <2>10 DEF MacIsDone
    <3>2. PICK m \in AllMsgs : m = PduMsg("FRAME_SEND_START", Head(pduFifo))
      <4>1. Head(pduFifo) \in Pdu
        BY <1>0, <2>10
      <4>. QED  BY <4>1, LineFacts
    <3>3. m.sig = "FRAME_SEND_START" /\ m.pdu = Head(pduFifo)
      BY <3>2 DEF PduMsg
    <3>4. Cnt(Tail(mac), {"FRAME_SEND_START"}) = 0
      BY <1>0, <2>1, <2>3, CntTail DEF One
    <3>5. LineTypes(Tail(mac), Append(link, d), pduFifo, pool, size, macSend.seq)
      BY <2>7, AppendAt DEF LineTypes
    <3>6. Lined(Append(Tail(mac), m), Append(link, d), Tail(pduFifo), pool, size, macSend.seq)
      BY <2>8, <2>10, <3>3, <3>4, <3>5, LineNext
    <3>. QED  BY <1>2, <2>3, <2>6, <3>1, <3>2, <3>6 DEF LineUp
  <2>. QED  BY <2>9, <2>10
<1>. QED  BY <1>5, <1>6, <1>7, <1>8, <1>9 DEF MacOfA

LEMMA LineUpLink ==
  ASSUME Base, LineUp, LinkOfA
  PROVE  LineUp'
<1> DEFINE mac == mbox["LINK_MAC"]
           link == mbox["LINK"]
<1>0. /\ LineTypes(mac, link, pduFifo, pool, size, macSend.seq) /\ link # <<>> /\ LinkMsg = Head(link)
      /\ link \in Seq(AllMsgs) /\ mac \in Seq(AllMsgs) /\ Head(link) \in LinkMsgs /\ pool \in [Pdu -> Nat]
  BY LineFacts DEF LinkOfA, LinkMsg, LineTypes
<1>1. Lined(mac, link, pduFifo, pool, size, macSend.seq) /\ (macSend.state = "IDLE" => pduFifo = <<>>)
  BY DEF LineUp
<1>2. size' = size /\ macSend' = macSend /\ pduFifo' = pduFifo
  BY DEF LinkOfA
<1>3. CASE LinkReleases
  <2>1. /\ Head(link).sig \in {"SEND_DONE", "SEND_ERR"} /\ pool' = [pool EXCEPT ![Head(link).pdu] = 0]
        /\ mbox'["LINK"] = Tail(link) /\ mbox'["LINK_MAC"] = mac
    BY <1>0, <1>3 DEF LinkReleases
  <2>2. Head(link).pdu \in Pdu
    BY <1>0, <2>1, MsgFields
  <2>3. Apart(Head(link).pdu, mac, pduFifo)
    BY <1>0, <2>1, <2>2, LineApart
  <2>4. Lined(mac, link, pduFifo, pool', size, macSend.seq)
    BY <1>0, <1>1, <2>1, <2>2, <2>3, LinePool
  <2>5. LineTypes(mac, link, pduFifo, pool', size, macSend.seq)
    BY <1>0, <2>1 DEF LineTypes
  <2>6. Lined(mac, Tail(link), pduFifo, pool', size, macSend.seq)
    BY <1>0, <2>1, <2>4, <2>5, LineLinkNoise
  <2>. QED  BY <1>1, <1>2, <2>1, <2>6 DEF LineUp
<1>4. CASE LinkDies
  <2>1. mbox' = mbox /\ pool' = pool
    BY <1>4 DEF LinkDies
  <2>. QED  BY <1>1, <1>2, <2>1 DEF LineUp
<1>5. ASSUME NEW p \in Pdu, LinkAccepts(p)
      PROVE  LineUp'
  <2>1. /\ Head(link).sig = "SEND_MSG" /\ pool[p] = 0 /\ pool' = [pool EXCEPT ![p] = Head(link).frames]
        /\ mbox'["LINK"] = Tail(link) /\ mbox'["LINK_MAC"] = Append(mac, PduMsg("FRAME_SEND_REQ", p))
    BY <1>0, <1>5 DEF LinkAccepts
  <2>2. PICK m \in AllMsgs : m = PduMsg("FRAME_SEND_REQ", p)
    BY LineFacts
  <2>3. m.sig = "FRAME_SEND_REQ" /\ m.pdu = p
    BY <2>2 DEF PduMsg
  <2>4. Apart(p, mac, pduFifo)
    BY <2>1, LineApart
  <2>5. Lined(mac, link, pduFifo, pool', size, macSend.seq)
    BY <1>0, <1>1, <2>1, <2>4, LinePool
  <2>6. Head(link).frames \in Nat
    BY <1>0, <2>1, MsgFields
  <2>7. LineTypes(mac, link, pduFifo, pool', size, macSend.seq) /\ pool'[m.pdu] = Head(link).frames
    BY <1>0, <2>1, <2>3, <2>6 DEF LineTypes
  <2>8. Lined(Append(mac, m), Tail(link), pduFifo, pool', size, macSend.seq)
    BY <1>0, <2>1, <2>3, <2>5, <2>7, LineAsks
  <2>. QED  BY <1>1, <1>2, <2>1, <2>2, <2>8 DEF LineUp
<1>. QED  BY <1>3, <1>4, <1>5 DEF LinkOfA

LEMMA LineUpRequests ==
  ASSUME Base, LineUp, NEW n \in 1..MaxFrames, Requests(n)
  PROVE  LineUp'
<1> DEFINE mac == mbox["LINK_MAC"]
           link == mbox["LINK"]
<1>0. LineTypes(mac, link, pduFifo, pool, size, macSend.seq) /\ mbox \in [Task -> Seq(AllMsgs)] /\ "LINK" \in Task
      /\ "LINK_MAC" \in Task
  <2>1. Boxes
    BY BaseFacts
  <2>. QED  BY <2>1, LineFacts, Tasks DEF Boxes
<1>1. Lined(mac, link, pduFifo, pool, size, macSend.seq) /\ (macSend.state = "IDLE" => pduFifo = <<>>)
  BY DEF LineUp
<1>2. PICK m : m = [sig |-> "SEND_MSG", frames |-> n]
  OBVIOUS
<1>3. m \in AllMsgs /\ m.sig = "SEND_MSG" /\ m.frames = n
  BY <1>2, Posted DEF AllMsgs
<1>4. /\ mbox'["LINK"] = Append(link, m) /\ mbox'["LINK_MAC"] = mac /\ size' = Append(size, n)
      /\ UNCHANGED <<pool, macSend, pduFifo>>
  BY <1>0, <1>2 DEF Requests
<1>5. Lined(mac, Append(link, m), pduFifo, pool, Append(size, n), macSend.seq)
  BY <1>0, <1>1, <1>3, LineRequest
<1>. QED  BY <1>1, <1>4, <1>5 DEF LineUp

LEMMA LineUpKept ==
  ASSUME Base, LineUp, PairSteps
  PROVE  LineUp'
<1>1. CASE PhyOfA
  <2>0. mbox'["LINK"] = mbox["LINK"] /\ UNCHANGED <<pool, macSend, pduFifo, size>>
    BY <1>1 DEF PhyOfA
  <2>1. LineTypes(mbox["LINK_MAC"], mbox["LINK"], pduFifo, pool, size, macSend.seq)
    BY LineFacts
  <2>2. Lined(mbox["LINK_MAC"], mbox["LINK"], pduFifo, pool, size, macSend.seq) /\ (macSend.state = "IDLE" => pduFifo = <<>>)
    BY DEF LineUp
  <2>3. CASE mbox'["LINK_MAC"] = mbox["LINK_MAC"]
    BY <2>0, <2>2, <2>3 DEF LineUp
  <2>4. ASSUME NEW sig \in {"FRAME_SEND_DONE", "FRAME_SEND_ERR"},
               mbox'["LINK_MAC"] = Append(mbox["LINK_MAC"], [sig |-> sig])
        PROVE  LineUp'
    <3>1. PICK m : m = [sig |-> sig]
      OBVIOUS
    <3>2. m \in AllMsgs /\ m.sig \notin Starts
      BY <3>1, Posted DEF AllMsgs, Starts
    <3>3. Lined(Append(mbox["LINK_MAC"], m), mbox["LINK"], pduFifo, pool, size, macSend.seq)
      BY <2>1, <2>2, <3>2, LineMacNoise
    <3>. QED  BY <2>0, <2>2, <2>4, <3>1, <3>3 DEF LineUp
  <2>5. \/ mbox'["LINK_MAC"] = mbox["LINK_MAC"]
        \/ \E sig \in {"FRAME_SEND_DONE", "FRAME_SEND_ERR"} : mbox'["LINK_MAC"] = Append(mbox["LINK_MAC"], [sig |-> sig])
    BY <1>1 DEF PhyOfA, PhyBegins, PhyAgain, PhyFails, PhySucceeds, PhyPasses, PhyObjects, Transmits, PhyAnswered
  <2>. QED  BY <2>3, <2>4, <2>5
<1>2. CASE MacOfA
  BY <1>2, LineUpMac
<1>3. CASE LinkOfA
  BY <1>3, LineUpLink
<1>4. CASE \E n \in 1..MaxFrames : Requests(n)
  BY <1>4, LineUpRequests
<1>5. CASE ExpiresA \/ ReachesA \/ ReachesB \/ Ticks \/ PhyOfB \/ MacOfB \/ LinkOfB \/ ExpiresB \/ Idles
  <2>1. UNCHANGED <<pool, macSend, pduFifo, size>>
    BY <1>5 DEF ExpiresA, ReachesA, ReachesB, Ticks, PhyOfB, MacOfB, LinkOfB, ExpiresB, Idles, AStays
  <2>2. mbox'["LINK"] = mbox["LINK"] /\ mbox'["LINK_MAC"] = mbox["LINK_MAC"]
    <3>1. mbox \in [Task -> Seq(AllMsgs)] /\ Task = {"LINK", "LINK_MAC", "LINK_PHY"}
      <4>1. Boxes
        BY BaseFacts
      <4>. QED  BY <4>1 DEF Boxes, Task
    <3>. QED  BY <1>5, <3>1 DEF ExpiresA, ReachesA, ReachesB, Ticks, PhyOfB, MacOfB, LinkOfB, ExpiresB, Idles, AStays
  <2>. QED  BY <2>1, <2>2 DEF LineUp
<1>. QED  BY <1>1, <1>2, <1>3, <1>4, <1>5 DEF PairSteps

-----------------------------------------------------------------------------
(* The frames on their way to B in the order in which A sent them. *)
LEMMA OutboundIs ==
  \A f : f \in Outbound <=>
    \/ \E i \in 1..Len(line) : line[i].type = "REQ" /\ line[i].mac = f
    \/ \E i \in 1..Len(mboxB["LINK_PHY"]) :
         mboxB["LINK_PHY"][i] \in Asks /\ mboxB["LINK_PHY"][i].frame.mac = f
  BY DEF Outbound, OutboundOf

Pipe ==
  /\ macSend.frame.seq \in Nat /\ macRevB.seq \in Nat
  /\ \A f \in Outbound : f \in AnyFrame /\ f.seq \in Nat /\ f.seq <= macSend.frame.seq
  /\ \A i \in Ears : /\ HeardAt(i) \in AnyFrame /\ HeardAt(i).seq \in Nat /\ HeardAt(i).seq <= macSend.frame.seq
                     /\ \A f \in Outbound : HeardAt(i).seq <= f.seq
  /\ \A i, k \in Ears : i < k => HeardAt(i).seq <= HeardAt(k).seq
  /\ macRevB.state = "RECEIVING" =>
       /\ macRevB.seq <= macSend.frame.seq
       /\ \A f \in Outbound : macRevB.seq <= f.seq
       /\ \A i \in Ears : macRevB.seq <= HeardAt(i).seq

LEMMA PipeFacts == Base => Pipe
<1> SUFFICES ASSUME Base
             PROVE  Pipe
  OBVIOUS
<1>0. /\ line \in Seq(PhyFrame) /\ mboxB["LINK_PHY"] \in Seq(WireMsgs) /\ mboxB["LINK_MAC"] \in Seq(HeardMsgs)
      /\ IInv /\ Receives
  BY BaseFacts
<1>1. macSend.frame.seq \in Nat /\ macRevB.seq \in Nat /\ phy.frame.seq \in SeqNo /\ macSend.frame.seq \in SeqNo
  BY <1>0, Upstream DEF SeqNo, Receives, MacReceiver
<1>2. PICK b0, b1, b2 \in SeqNo : Upper(b2) /\ Lower(b0, b1, b2) /\ Newest(b0)
  BY DEF Base, PairInv, Passing
<1>3. \A n \in SeqNo : n \in Nat
  BY DEF SeqNo
<1>4. b2 <= phy.frame.seq /\ phy.frame.seq <= macSend.frame.seq /\ b0 <= b1 /\ b1 <= b2
  BY <1>2 DEF Upper, Lower, Rising
<1>5. \A i \in 1..Len(line) : line[i].type = "REQ" =>
        line[i].mac \in AnyFrame /\ line[i].mac.seq \in b2..phy.frame.seq
  <2>0. \A i \in 1..Len(line) : line[i] \in PhyFrame
    BY <1>0
  <2>a. \A f \in PhyFrame : f.mac \in AnyFrame
    BY DEF PhyFrame
  <2>1. \A i \in 1..Len(line) : line[i].mac \in AnyFrame
    BY <2>0, <2>a
  <2>. QED  BY <1>2, <2>1, Stages DEF Upper, Rising
<1>6. \A i \in 1..Len(mboxB["LINK_PHY"]) : mboxB["LINK_PHY"][i] \in Asks =>
        mboxB["LINK_PHY"][i].frame.mac \in AnyFrame /\ mboxB["LINK_PHY"][i].frame.mac.seq \in b1..b2
  <2>0. \A i \in 1..Len(mboxB["LINK_PHY"]) : mboxB["LINK_PHY"][i] \in WireMsgs
    BY <1>0
  <2>b. \A m \in WireMsgs : m.frame \in PhyFrame
    BY DEF WireMsgs
  <2>a. \A f \in PhyFrame : f.mac \in AnyFrame
    BY DEF PhyFrame
  <2>1. \A i \in 1..Len(mboxB["LINK_PHY"]) : mboxB["LINK_PHY"][i].frame.mac \in AnyFrame
    BY <2>0, <2>a, <2>b
  <2>. QED  BY <1>2, <2>1, Stages DEF Lower, Rising, Asks
<1>7. \A i \in Ears : HeardAt(i) \in AnyFrame /\ HeardAt(i).seq \in b0..b1
  <2>1. \A i \in Ears : mboxB["LINK_MAC"][i].frame \in AnyFrame
    BY <1>0, BFields DEF Ears, EarsOf
  <2>. QED  BY <1>2, <2>1, Stages DEF Lower, Rising, Ears, EarsOf, HeardAt
<1>8. \A i, k \in Ears : i < k => HeardAt(i).seq <= HeardAt(k).seq
  BY <1>2, Stages DEF Lower, Rising, Ears, EarsOf, HeardAt
<1>9. macRevB.state = "RECEIVING" => macRevB.seq <= b0
  BY <1>2 DEF Newest
<1>10. \A f \in Outbound : f \in AnyFrame /\ f.seq \in Nat /\ b1 <= f.seq /\ f.seq <= macSend.frame.seq
  <2>. TAKE f \in Outbound
  <2>1. CASE \E i \in 1..Len(line) : line[i].type = "REQ" /\ line[i].mac = f
    BY <1>1, <1>3, <1>4, <1>5, <2>1
  <2>2. CASE \E i \in 1..Len(mboxB["LINK_PHY"]) : mboxB["LINK_PHY"][i] \in Asks /\ mboxB["LINK_PHY"][i].frame.mac = f
    BY <1>1, <1>3, <1>4, <1>6, <2>2
  <2>. QED  BY <2>1, <2>2, OutboundIs
<1>11. \A i \in Ears : HeardAt(i) \in AnyFrame /\ HeardAt(i).seq \in Nat /\ b0 <= HeardAt(i).seq /\ HeardAt(i).seq <= b1
  BY <1>3, <1>7
<1>12. b0 \in Nat /\ b1 \in Nat /\ b2 \in Nat /\ phy.frame.seq \in Nat /\ b1 <= macSend.frame.seq
  BY <1>1, <1>3, <1>4
<1>. QED  BY <1>1, <1>4, <1>8, <1>9, <1>10, <1>11, <1>12 DEF Pipe

LEMMA PipeNext == Base' => (Pipe)'
<1>1. Base => Pipe
  BY PipeFacts
<1>. QED  BY <1>1, PTL

-----------------------------------------------------------------------------
(* What waits in a mailbox of the MAC layer of B, without its first message and
   with one more.                                                           *)
LEMMA EarsTail ==
  ASSUME NEW M \in Seq(HeardMsgs), M # <<>>
  PROVE  /\ \A i \in EarsOf(Tail(M)) : i + 1 \in EarsOf(M) /\ Tail(M)[i] = M[i + 1] /\ i \in Nat
         /\ Head(M).sig # "FRAME_REV" =>
              /\ WaitingOf(M) = WaitingOf(Tail(M))
              /\ \A i \in EarsOf(Tail(M)) : BeforeOf(M, i + 1) = BeforeOf(Tail(M), i)
         /\ Head(M).sig = "FRAME_REV" =>
              /\ 1 \in EarsOf(M) /\ M[1].frame = Head(M).frame
              /\ WaitingOf(M) = {Head(M).frame} \cup WaitingOf(Tail(M))
              /\ \A i \in EarsOf(Tail(M)) : BeforeOf(M, i + 1) = {Head(M).frame} \cup BeforeOf(Tail(M), i)
         /\ (\A i \in 1..Len(M) : i \in EarsOf(M)) => \A i \in 1..Len(Tail(M)) : i \in EarsOf(Tail(M))
<1> DEFINE T == Tail(M)
<1>1. /\ Head(M) = M[1] /\ 1 \in 1..Len(M) /\ Len(M) \in Nat /\ Len(T) \in Nat
      /\ \A i \in 1..Len(T) : i + 1 \in 1..Len(M) /\ T[i] = M[i + 1] /\ i \in Nat /\ 1 <= i
      /\ \A i \in 1..Len(M) : i = 1 \/ (i - 1 \in 1..Len(T) /\ M[i] = T[i - 1])
  BY TailAt
<1> HIDE DEF T
<1>2. \A i \in EarsOf(T) : i \in 1..Len(T) /\ i + 1 \in EarsOf(M) /\ T[i] = M[i + 1] /\ i \in Nat
  BY <1>1 DEF EarsOf
<1>3. \A i \in EarsOf(M) : i = 1 \/ (i - 1 \in EarsOf(T) /\ M[i] = T[i - 1])
  BY <1>1 DEF EarsOf
<1>4. (1 \in EarsOf(M) <=> Head(M).sig = "FRAME_REV") /\ M[1].frame = Head(M).frame
  BY <1>1 DEF EarsOf
<1>5. \A i \in EarsOf(M) : i \in Nat /\ 1 <= i
  BY <1>1 DEF EarsOf
<1>6. ASSUME NEW f
      PROVE  f \in WaitingOf(M) <=> (Head(M).sig = "FRAME_REV" /\ f = Head(M).frame) \/ f \in WaitingOf(T)
  <2>1. CASE f \in WaitingOf(M)
    <3>1. PICK k \in EarsOf(M) : f = M[k].frame
      BY <2>1 DEF WaitingOf
    <3>2. k = 1 \/ (k - 1 \in EarsOf(T) /\ M[k] = T[k - 1])
      BY <1>3
    <3>. QED  BY <1>4, <3>1, <3>2 DEF WaitingOf
  <2>2. CASE f \in WaitingOf(T)
    <3>1. PICK k \in EarsOf(T) : f = T[k].frame
      BY <2>2 DEF WaitingOf
    <3>. QED  BY <1>2, <3>1, <2>2 DEF WaitingOf
  <2>3. CASE Head(M).sig = "FRAME_REV" /\ f = Head(M).frame
    BY <1>4, <2>3 DEF WaitingOf
  <2>. QED  BY <2>1, <2>2, <2>3
<1>7. ASSUME NEW i \in EarsOf(T), NEW f
      PROVE  f \in BeforeOf(M, i + 1) <=> (Head(M).sig = "FRAME_REV" /\ f = Head(M).frame) \/ f \in BeforeOf(T, i)
  <2>0. i \in Nat /\ 1 <= i
    BY <1>1, <1>2
  <2>1. CASE f \in BeforeOf(M, i + 1)
    <3>1. PICK k \in EarsOf(M) : k < i + 1 /\ f = M[k].frame
      BY <2>1 DEF BeforeOf
    <3>2. CASE k = 1
      <4>1. 1 \in EarsOf(M) /\ f = M[1].frame
        BY <3>1, <3>2
      <4>. QED  BY <1>4, <2>1, <4>1
    <3>3. CASE k - 1 \in EarsOf(T) /\ M[k] = T[k - 1]
      <4>1. k - 1 < i
        BY <1>5, <2>0, <3>1
      <4>. QED  BY <3>1, <3>3, <4>1 DEF BeforeOf
    <3>. QED  BY <1>3, <3>2, <3>3
  <2>2. CASE f \in BeforeOf(T, i)
    <3>1. PICK k \in EarsOf(T) : k < i /\ f = T[k].frame
      BY <2>2 DEF BeforeOf
    <3>2. k + 1 \in EarsOf(M) /\ T[k] = M[k + 1] /\ k + 1 < i + 1
      BY <1>2, <2>0, <3>1
    <3>. QED  BY <3>1, <3>2, <2>2 DEF BeforeOf
  <2>3. CASE Head(M).sig = "FRAME_REV" /\ f = Head(M).frame
    <3>1. 1 < i + 1
      BY <2>0
    <3>. QED  BY <1>4, <2>3, <3>1 DEF BeforeOf
  <2>. QED  BY <2>1, <2>2, <2>3
<1>8. (\A i \in 1..Len(M) : i \in EarsOf(M)) => \A i \in 1..Len(T) : i \in EarsOf(T)
  BY <1>1 DEF EarsOf
<1>9. Head(M).sig # "FRAME_REV" =>
        /\ WaitingOf(M) = WaitingOf(T)
        /\ \A i \in EarsOf(T) : BeforeOf(M, i + 1) = BeforeOf(T, i)
  BY <1>6, <1>7
<1>10. Head(M).sig = "FRAME_REV" =>
         /\ WaitingOf(M) = {Head(M).frame} \cup WaitingOf(T)
         /\ \A i \in EarsOf(T) : BeforeOf(M, i + 1) = {Head(M).frame} \cup BeforeOf(T, i)
  BY <1>6, <1>7
<1>. QED  BY <1>2, <1>4, <1>8, <1>9, <1>10 DEF T

LEMMA EarsAppend ==
  ASSUME NEW M \in Seq(HeardMsgs), NEW x \in HeardMsgs
  PROVE  /\ \A i \in EarsOf(M) : /\ i \in EarsOf(Append(M, x)) /\ Append(M, x)[i] = M[i]
                                 /\ BeforeOf(Append(M, x), i) = BeforeOf(M, i)
         /\ x.sig = "FRAME_REV" =>
              /\ WaitingOf(Append(M, x)) = WaitingOf(M) \cup {x.frame}
              /\ \A i \in EarsOf(Append(M, x)) :
                   i \in EarsOf(M) \/ (Append(M, x)[i] = x /\ BeforeOf(Append(M, x), i) = WaitingOf(M))
              /\ (\A i \in 1..Len(M) : i \in EarsOf(M)) =>
                   \A i \in 1..Len(Append(M, x)) : i \in EarsOf(Append(M, x))
         /\ x.sig # "FRAME_REV" => EarsOf(Append(M, x)) = EarsOf(M) /\ WaitingOf(Append(M, x)) = WaitingOf(M)
<1> DEFINE N == Append(M, x)
<1>1. /\ Len(M) \in Nat /\ Len(N) = Len(M) + 1
      /\ \A i \in 1..Len(M) : i \in 1..Len(N) /\ N[i] = M[i] /\ i <= Len(M)
      /\ N[Len(M) + 1] = x /\ Len(M) + 1 \in 1..Len(N)
      /\ \A i \in 1..Len(N) : i \in 1..Len(M) \/ i = Len(M) + 1
  BY AppendAt
<1> HIDE DEF N
<1>2. \A i \in EarsOf(M) : i \in EarsOf(N) /\ N[i] = M[i] /\ i \in Nat /\ i < Len(M) + 1
  BY <1>1 DEF EarsOf
<1>3. \A i \in EarsOf(N) : i \in EarsOf(M) \/ (i = Len(M) + 1 /\ x.sig = "FRAME_REV")
  BY <1>1 DEF EarsOf
<1>4. x.sig = "FRAME_REV" => Len(M) + 1 \in EarsOf(N)
  BY <1>1 DEF EarsOf
<1>5. ASSUME NEW i \in EarsOf(M)
      PROVE  BeforeOf(N, i) = BeforeOf(M, i)
  <2>1. i < Len(M) + 1 /\ i \in Nat
    BY <1>2
  <2>2. \A k \in EarsOf(N) : k < i => k \in EarsOf(M)
    BY <1>1, <1>3, <2>1
  <2>3. \A f : f \in BeforeOf(N, i) <=> \E k \in EarsOf(N) : k < i /\ f = N[k].frame
    BY DEF BeforeOf
  <2>4. \A f : f \in BeforeOf(M, i) <=> \E k \in EarsOf(M) : k < i /\ f = M[k].frame
    BY DEF BeforeOf
  <2>5. \A f : f \in BeforeOf(N, i) <=> f \in BeforeOf(M, i)
    BY <1>2, <2>2, <2>3, <2>4
  <2>. QED  BY <2>5
<1>6. ASSUME NEW i \in EarsOf(N), i \notin EarsOf(M)
      PROVE  N[i] = x /\ BeforeOf(N, i) = WaitingOf(M)
  <2>1. i = Len(M) + 1 /\ N[i] = x
    BY <1>1, <1>3, <1>6
  <2>2. \A k \in EarsOf(N) : k < i <=> k \in EarsOf(M)
    BY <1>1, <1>2, <1>3, <2>1
  <2>3. \A f : f \in BeforeOf(N, i) <=> \E k \in EarsOf(N) : k < i /\ f = N[k].frame
    BY DEF BeforeOf
  <2>4. \A f : f \in WaitingOf(M) <=> \E k \in EarsOf(M) : f = M[k].frame
    BY DEF WaitingOf
  <2>5. \A f : f \in BeforeOf(N, i) <=> f \in WaitingOf(M)
    BY <1>2, <2>2, <2>3, <2>4
  <2>. QED  BY <2>1, <2>5
<1>7. \A f : f \in WaitingOf(N) <=> f \in WaitingOf(M) \/ (x.sig = "FRAME_REV" /\ f = x.frame)
  <2>3. \A f : f \in WaitingOf(N) <=> \E k \in EarsOf(N) : f = N[k].frame
    BY DEF WaitingOf
  <2>4. \A f : f \in WaitingOf(M) <=> \E k \in EarsOf(M) : f = M[k].frame
    BY DEF WaitingOf
  <2>. QED  BY <1>1, <1>2, <1>3, <1>4, <2>3, <2>4
<1>8. x.sig = "FRAME_REV" => WaitingOf(N) = WaitingOf(M) \cup {x.frame}
  BY <1>7
<1>9. x.sig # "FRAME_REV" => EarsOf(N) = EarsOf(M) /\ WaitingOf(N) = WaitingOf(M)
  BY <1>2, <1>3, <1>7
<1>10. x.sig = "FRAME_REV" /\ (\A i \in 1..Len(M) : i \in EarsOf(M)) => \A i \in 1..Len(N) : i \in EarsOf(N)
  BY <1>1, <1>2, <1>4
<1>. QED  BY <1>2, <1>5, <1>6, <1>8, <1>9, <1>10 DEF N

-----------------------------------------------------------------------------
(* What the receiver has met it does not forget, until it has met a later PDU. *)

LEMMA EarsKept ==
  ASSUME NEW M \in Seq(HeardMsgs), NEW x \in HeardMsgs
  PROVE  \A k \in EarsOf(M) : Append(M, x)[k] = M[k] /\ BeforeOf(Append(M, x), k) = BeforeOf(M, k)
BY EarsAppend

\* The frames that wait at the receiver stay, or the first is taken away, or one more comes.
LEMMA HasGrows ==
  ASSUME NEW R, NEW C, NEW quiet, NEW R2, NEW C2, NEW quiet2, NEW G \in Nat, NEW H \in Nat, G <= H,
         NEW s, NEW j,
         R2 = R, R.state = "RECEIVING" => C \subseteq C2,
         quiet /\ G >= 2 => quiet2, Has(R, C, quiet, G, s, j)
  PROVE  Has(R2, C2, quiet2, H, s, j)
<1>1. G >= 2 => H >= 2
  OBVIOUS
<1>. QED  BY <1>1 DEF Has

(* The steps that are not of the MAC layer of B. *)
ReceiverStays ==
  /\ macRevB' = macRevB
  /\ macRevB.state = "RECEIVING" => slots'[macRevB.pdu] = slots[macRevB.pdu]

LEMMA ReceiverKept ==
  ASSUME Base, PairSteps
  PROVE  /\ ReceiverStays \/ MacOfB
         /\ dueB' = {} \/ Ticks \/ dueB # {}
         /\ \/ UNCHANGED mboxB \/ MacOfB \/ ExpiresB
            \/ mboxB'["LINK_MAC"] = mboxB["LINK_MAC"]
            \/ PhyOfB /\ WireMsg \in Asks
               /\ mboxB'["LINK_MAC"]
                    = Append(mboxB["LINK_MAC"], [sig |-> "FRAME_REV", frame |-> WireMsg.frame.mac])
<1>1. CASE BStays
  BY <1>1 DEF ReceiverStays, BStays, boardB
<1>2. CASE ReachesA \/ ReachesB \/ Ticks \/ ExpiresB \/ PhyOfB
  <2>1. UNCHANGED <<macRevB, slots>>
    BY <1>2 DEF ReachesA, ReachesB, Ticks, ExpiresB, PhyOfB
  <2>2. dueB' = {} \/ Ticks \/ dueB # {}
    BY <1>2 DEF ReachesA, ReachesB, Ticks, ExpiresB, PhyOfB
  <2>3. \/ UNCHANGED mboxB \/ ExpiresB
        \/ mboxB'["LINK_MAC"] = mboxB["LINK_MAC"]
        \/ PhyOfB /\ WireMsg \in Asks
           /\ mboxB'["LINK_MAC"]
                = Append(mboxB["LINK_MAC"], [sig |-> "FRAME_REV", frame |-> WireMsg.frame.mac])
    <3>1. CASE ReachesA \/ Ticks
      BY <3>1 DEF ReachesA, Ticks
    <3>2. CASE ReachesB
      <4>1. mboxB \in [Task -> Seq(BMsgs)]
        BY BaseFacts DEF Receives
      <4>. QED  BY <3>2, <4>1, Tasks DEF ReachesB
    <3>3. CASE PhyOfB
      BY <3>3 DEF PhyOfB
    <3>. QED  BY <1>2, <3>1, <3>2, <3>3
  <2>. QED  BY <2>1, <2>2, <2>3 DEF ReceiverStays
<1>3. CASE LinkOfB
  <2>1. macRevB' = macRevB /\ dueB' = dueB /\ mboxB'["LINK_MAC"] = mboxB["LINK_MAC"]
    BY <1>3 DEF LinkOfB
  <2>2. Told(1) # macRevB.pdu
    <3>1. mboxB["LINK"] # <<>> /\ mboxB["LINK"] \in Seq(RevMsgs) /\ Owns
      BY <1>3, BaseFacts DEF LinkOfB
    <3>2. 1 \in 1..Len(mboxB["LINK"])
      BY <3>1, TailAt
    <3>. QED  BY <3>1, <3>2 DEF Owns
  <2>3. slots'[macRevB.pdu] = slots[macRevB.pdu] \/ macRevB.state # "RECEIVING"
    <3>1. slots' = [slots EXCEPT ![Told(1)] = {}]
      BY <1>3 DEF LinkOfB
    <3>. QED  BY <2>2, <3>1
  <2>. QED  BY <2>1, <2>3 DEF ReceiverStays
<1>4. CASE MacOfB
  BY <1>4 DEF MacOfB
<1>5. PhyOfA \/ MacOfA \/ LinkOfA \/ (\E n \in 1..MaxFrames : Requests(n)) \/ ExpiresA \/ Idles => BStays
  BY DEF PhyOfA, MacOfA, LinkOfA, Requests, ExpiresA, Idles
<1>. QED  BY <1>1, <1>2, <1>3, <1>4, <1>5 DEF PairSteps

LEMMA EarFacts ==
  ASSUME Base, mboxB["LINK_MAC"] # <<>>
  PROVE  /\ HeardMsg \in HeardMsgs /\ HeardMsg.sig \in {"FRAME_REV", "FRAME_REV_TO"} /\ dueB = {}
         /\ \A i \in 1..Len(Tail(mboxB["LINK_MAC"])) : i \in EarsOf(Tail(mboxB["LINK_MAC"]))
         /\ HeardMsg.sig = "FRAME_REV" =>
              /\ 1 \in Ears /\ HeardAt(1) = HeardMsg.frame /\ HeardMsg.frame \in AnyFrame
              /\ HeardMsg.frame \in Waiting /\ HeardMsg.frame.seq \in Nat /\ HeardMsg.frame.fidx \in Nat
              /\ \A f \in Waiting : f.seq \in Nat /\ HeardMsg.frame.seq <= f.seq
              /\ \A f \in Outbound : HeardMsg.frame.seq <= f.seq
              /\ HeardMsg.frame.seq <= macSend.frame.seq
              /\ macRevB.state = "RECEIVING" => macRevB.seq <= HeardMsg.frame.seq
<1> DEFINE M == mboxB["LINK_MAC"]
<1>1. M \in Seq(HeardMsgs) /\ Punctual /\ Pipe
  BY BaseFacts, PipeFacts
<1>2. /\ Head(M) = M[1] /\ Head(M) \in HeardMsgs /\ 1 \in 1..Len(M)
      /\ \A i \in 1..Len(Tail(M)) : i + 1 \in 1..Len(M) /\ Tail(M)[i] = M[i + 1] /\ i \in Nat /\ 1 <= i
  BY <1>1, TailAt
<1>3. dueB = {}
  BY <1>1 DEF Punctual
<1>4. \A m \in HeardMsgs : /\ m.sig \in {"FRAME_REV", "FRAME_REV_TO"}
                           /\ m.sig = "FRAME_REV" => m.frame \in AnyFrame
  BY DEF HeardMsgs
<1>5. ASSUME NEW i \in 1..Len(Tail(M))
      PROVE  i \in EarsOf(Tail(M))
  <2>1. i + 1 # 1 /\ i + 1 \in 1..Len(M) /\ Tail(M)[i] = M[i + 1]
    BY <1>2
  <2>2. M[i + 1].sig # "FRAME_REV_TO"
    BY <1>1, <2>1 DEF Punctual
  <2>3. M[i + 1] \in HeardMsgs
    BY <1>1, <2>1
  <2>. QED  BY <1>4, <2>1, <2>2, <2>3 DEF EarsOf
<1>6. ASSUME HeardMsg.sig = "FRAME_REV"
      PROVE  /\ 1 \in Ears /\ HeardAt(1) = HeardMsg.frame /\ HeardMsg.frame \in AnyFrame
             /\ HeardMsg.frame \in Waiting /\ HeardMsg.frame.seq \in Nat /\ HeardMsg.frame.fidx \in Nat
             /\ \A f \in Waiting : f.seq \in Nat /\ HeardMsg.frame.seq <= f.seq
             /\ \A f \in Outbound : HeardMsg.frame.seq <= f.seq
             /\ HeardMsg.frame.seq <= macSend.frame.seq
             /\ macRevB.state = "RECEIVING" => macRevB.seq <= HeardMsg.frame.seq
  <2>1. 1 \in Ears /\ HeardAt(1) = HeardMsg.frame
    BY <1>2, <1>6 DEF Ears, EarsOf, HeardAt, HeardMsg
  <2>2. HeardMsg.frame \in AnyFrame
    BY <1>2, <1>4, <1>6 DEF HeardMsg
  <2>3. HeardMsg.frame \in Waiting
    BY <2>1 DEF Waiting, WaitingOf, Ears, HeardAt
  <2>4. HeardMsg.frame.seq \in Nat /\ HeardMsg.frame.fidx \in Nat
    BY <2>2 DEF AnyFrame
  <2>5. ASSUME NEW f \in Waiting PROVE f.seq \in Nat /\ HeardMsg.frame.seq <= f.seq
    <3>1. PICK i \in Ears : f = HeardAt(i)
      BY DEF Waiting, WaitingOf, Ears, HeardAt
    <3>2. i \in 1..Len(M)
      BY DEF Ears, EarsOf
    <3>3. i = 1 \/ 1 < i
      BY <3>2
    <3>4. 1 < i => HeardAt(1).seq <= HeardAt(i).seq
      BY <1>1, <2>1 DEF Pipe
    <3>6. HeardAt(i).seq \in Nat
      BY <1>1 DEF Pipe
    <3>5. i = 1 => HeardMsg.frame.seq <= HeardAt(i).seq
      BY <2>1, <2>4
    <3>. QED  BY <2>1, <3>1, <3>3, <3>4, <3>5, <3>6
  <2>. QED  BY <1>1, <2>1, <2>2, <2>3, <2>4, <2>5 DEF Pipe
<1>. QED  BY <1>2, <1>3, <1>4, <1>5, <1>6 DEF HeardMsg

(* A receiver that waits for the rest of a PDU hears of a later one only when
   frames were given up.                                                    *)
LEMMA LeftBehind ==
  ASSUME Base, Prefix, NEW G \in Nat, Rest(G), mboxB["LINK_MAC"] # <<>>, HeardMsg.sig = "FRAME_REV",
         macRevB.state = "RECEIVING", macRevB.seq # HeardMsg.frame.seq
  PROVE  G >= 2 /\ macRevB.seq < HeardMsg.frame.seq
<1> DEFINE r == macRevB.seq
           n == size[r + 1]
<1>1. Pipe /\ r \in Nat /\ size \in Seq(1..MaxFrames) /\ macSend.frame.seq \in Nat
  BY BaseFacts, PipeFacts DEF Pipe
<1>2. /\ HeardMsg.frame.seq \in Nat /\ r <= HeardMsg.frame.seq /\ HeardMsg.frame.seq <= macSend.frame.seq
      /\ \A f \in Waiting : f.seq \in Nat /\ HeardMsg.frame.seq <= f.seq
  BY EarFacts
<1>3. r < HeardMsg.frame.seq /\ r < macSend.frame.seq
  BY <1>1, <1>2
<1>4. PICK m \in 0 .. n - 2 : slots[macRevB.pdu] = Beginning(r, m)
  BY DEF Prefix
<1>5. r \in Sent /\ n \in Nat
  <2>1. r < Len(size) /\ Len(size) \in Nat
    BY <1>1 DEF Prefix
  <2>2. r + 1 \in 1..Len(size)
    BY <1>1, <2>1
  <2>3. n \in 1..MaxFrames
    <3>1. \A i \in 1..Len(size) : size[i] \in 1..MaxFrames
      <4>1. \A S : size \in Seq(S) => \A i \in 1..Len(size) : size[i] \in S
        OBVIOUS
      <4>. QED  BY <1>1, <4>1
    <3>. QED  BY <2>2, <3>1
  <2>4. \A k \in 1..MaxFrames : k \in Nat
    OBVIOUS
  <2>5. r \in 0 .. Len(size) - 1
    BY <1>1, <2>1
  <2>. QED  BY <2>3, <2>4, <2>5 DEF Sent
<1>6. ASSUME G < 2 PROVE FALSE
  <2>1. Over(r) /\ Abroad(r)
    BY <1>3 DEF Over, Abroad
  <2>2. Met(Waiting, G, r, n - 1)
    BY <1>5, <1>6, <2>1 DEF Rest, Reached
  <2>3. ~\E f \in Waiting : f.seq = r
    BY <1>2, <1>3
  <2>4. Seen(G, r, n - 1)
    BY <2>2, <2>3 DEF Met
  <2>5. \E f \in slots[macRevB.pdu] : n - 1 <= f.fidx
    BY <1>1, <1>6, <2>4 DEF Seen, Has
  <2>6. PICK k \in 0..m : n - 1 <= FrameOf(r, k).fidx
    BY <1>4, <2>5 DEF Beginning
  <2>7. n - 1 <= k
    BY <2>6 DEF FrameOf
  <2>. QED  BY <1>4, <1>5, <2>6, <2>7
<1>. QED  BY <1>3, <1>6

LEMMA ReceiverWorks ==
  ASSUME Base, Prefix, NEW G \in Nat, NEW H \in Nat, G <= H, Rest(G), MacOfB
  PROVE  \/ UNCHANGED <<mboxB, macRevB, slots, dueB>>
         \/ /\ mboxB["LINK_MAC"] # <<>> /\ mboxB'["LINK_MAC"] = Tail(mboxB["LINK_MAC"]) /\ NoTimeout'
            /\ HeardMsg.sig # "FRAME_REV" => \A s, j : Seen(G, s, j) => Seen(H, s, j)'
            /\ HeardMsg.sig = "FRAME_REV" =>
                 \A s, j : s = HeardMsg.frame.seq =>
                   /\ j = HeardMsg.frame.fidx => Seen(H, s, j)'
                   /\ Seen(G, s, j) => Seen(H, s, j)'
<1>1. mboxB["LINK_MAC"] # <<>> /\ dueB' = dueB
  BY DEF MacOfB
<1>2. CASE UNCHANGED <<mboxB, macRevB, slots>>
  BY <1>1, <1>2
<1>3. ASSUME MacPasses \/ MacForgets \/ \E q \in Pdu : MacTakes(q)
      PROVE  mboxB'["LINK_MAC"] = Tail(mboxB["LINK_MAC"]) /\ NoTimeout'
  <2>1. mboxB'["LINK_MAC"] = Tail(mboxB["LINK_MAC"])
    BY <1>3 DEF MacPasses, MacForgets, MacTakes
  <2>2. dueB = {} /\ \A i \in 1..Len(Tail(mboxB["LINK_MAC"])) : i \in EarsOf(Tail(mboxB["LINK_MAC"]))
    BY <1>1, EarFacts
  <2>. QED  BY <1>1, <2>1, <2>2 DEF NoTimeout, Ears
<1>a. HeardMsg.sig # "FRAME_REV" => ~NoTimeout
  <2>1. mboxB["LINK_MAC"] \in Seq(HeardMsgs)
    BY BaseFacts
  <2>2. HeardMsg = mboxB["LINK_MAC"][1] /\ 1 \in 1..Len(mboxB["LINK_MAC"])
    BY <1>1, <2>1, TailAt DEF HeardMsg
  <2>. QED  BY <2>2 DEF NoTimeout, Ears, EarsOf
<1>4. CASE MacPasses
  <2>1. macRevB' = macRevB /\ slots' = slots /\ mboxB'["LINK_MAC"] = Tail(mboxB["LINK_MAC"]) /\ NoTimeout'
    BY <1>3, <1>4 DEF MacPasses
  <2>2. ASSUME HeardMsg.sig # "FRAME_REV"
        PROVE  \A s, j : Seen(G, s, j) => Seen(H, s, j)'
    BY <1>a, <2>1, <2>2 DEF Seen, Has
  <2>3. ASSUME HeardMsg.sig = "FRAME_REV", NEW s, NEW j, s = HeardMsg.frame.seq
        PROVE  Seen(H, s, j)'
    <3>1. CASE macRevB.state = "IDLE" /\ macRevB.seq = HeardMsg.frame.seq
      BY <2>1, <2>3, <3>1 DEF Seen, Has
    <3>2. CASE macRevB.state = "RECEIVING" /\ macRevB.seq # HeardMsg.frame.seq
      <4>1. G >= 2 /\ macRevB.seq < HeardMsg.frame.seq
        BY <1>1, <2>3, <3>2, LeftBehind
      <4>2. H >= 2
        BY <4>1
      <4>. QED  BY <2>1, <2>3, <3>2, <4>1, <4>2 DEF Seen, Has
    <3>. QED  BY <1>4, <2>3, <3>1, <3>2 DEF MacPasses
  <2>. QED  BY <1>1, <2>1, <2>2, <2>3
<1>5. CASE MacForgets
  <2>1. HeardMsg.sig # "FRAME_REV" /\ mboxB'["LINK_MAC"] = Tail(mboxB["LINK_MAC"]) /\ NoTimeout'
    BY <1>3, <1>5 DEF MacForgets
  <2>2. macRevB.state = "RECEIVING" /\ macRevB'.state = "IDLE" /\ macRevB'.seq = macRevB.seq
    <3>1. macRevB \in MacReceiver
      BY BaseFacts DEF Receives
    <3>. QED  BY <1>5, <3>1 DEF MacForgets, MacReceiver
  <2>3. ASSUME NEW s, NEW j, Seen(G, s, j)
        PROVE  Seen(H, s, j)'
    BY <1>a, <2>1, <2>2, <2>3 DEF Seen, Has
  <2>. QED  BY <1>1, <2>1, <2>3
<1>6. ASSUME NEW q \in Pdu, MacTakes(q)
      PROVE  /\ HeardMsg.sig = "FRAME_REV"
             /\ \A s, j : s = HeardMsg.frame.seq =>
                   /\ j = HeardMsg.frame.fidx => Seen(H, s, j)'
                   /\ Seen(G, s, j) => Seen(H, s, j)'
  <2> DEFINE h == HeardMsg.frame
  <2>1. HeardMsg.sig = "FRAME_REV" /\ Takes(q, h) /\ slots' = [slots EXCEPT ![q] = @ \cup {h}]
    BY <1>6 DEF MacTakes
  <2>2. slots \in [Pdu -> SUBSET AnyFrame]
    BY BaseFacts DEF Receives
  <2>3. slots'[q] = slots[q] \cup {h}
    BY <2>1, <2>2
  <2>4. \/ macRevB'.state = "RECEIVING" /\ macRevB'.pdu = q /\ macRevB'.seq = h.seq
        \/ macRevB'.state = "IDLE" /\ macRevB'.seq = h.seq
    BY <1>6 DEF MacTakes
  <2>5. h.seq \in Nat /\ h.fidx \in Nat
    BY <1>1, <2>1, EarFacts
  <2>6. ASSUME NEW s, NEW j, s = h.seq, j = h.fidx
        PROVE  Seen(H, s, j)'
    <3>1. h \in slots'[q] /\ j <= h.fidx
      BY <2>3, <2>5, <2>6
    <3>2. \E f \in slots'[q] : j <= f.fidx
      BY <3>1
    <3>. QED  BY <2>4, <2>6, <3>2 DEF Seen, Has
  <2>7. ASSUME NEW s, NEW j, s = h.seq, Seen(G, s, j)
        PROVE  Seen(H, s, j)'
    <3>1. macRevB.state = "RECEIVING" /\ macRevB.seq = h.seq /\ macRevB.pdu = q
      BY <2>1, <2>5, <2>7 DEF Takes, Seen, Has
    <3>2. \E f \in slots[q] : j <= f.fidx
      BY <2>5, <2>7, <3>1 DEF Seen, Has
    <3>3. \E f \in slots'[q] : j <= f.fidx
      BY <2>3, <3>2
    <3>. QED  BY <2>4, <2>7, <3>3 DEF Seen, Has
  <2>. QED  BY <2>1, <2>6, <2>7
<1>7. CASE \E q \in Pdu : MacTakes(q)
  BY <1>1, <1>3, <1>6, <1>7
<1>. QED  BY <1>2, <1>4, <1>5, <1>7 DEF MacOfB

-----------------------------------------------------------------------------
(* How the mailbox of the MAC layer of B changes. *)
BoxStays == ReceiverStays /\ mboxB'["LINK_MAC"] = mboxB["LINK_MAC"]
BoxGrows(h) ==
  /\ ReceiverStays /\ h \in Outbound /\ h \in AnyFrame
  /\ mboxB'["LINK_MAC"] = Append(mboxB["LINK_MAC"], [sig |-> "FRAME_REV", frame |-> h])
BoxTimes ==
  /\ ReceiverStays /\ dueB # {} /\ mboxB["LINK_MAC"] = <<>>
  /\ mboxB'["LINK_MAC"] = Append(mboxB["LINK_MAC"], [sig |-> "FRAME_REV_TO"])
BoxTaken == MacOfB /\ mboxB["LINK_MAC"] # <<>> /\ mboxB'["LINK_MAC"] = Tail(mboxB["LINK_MAC"])
BoxSteps == BoxStays \/ (\E h : BoxGrows(h)) \/ BoxTimes \/ BoxTaken

LEMMA BoxStepsCover ==
  ASSUME Base, PairSteps
  PROVE  BoxSteps
<1>0. Pipe /\ mboxB["LINK_PHY"] \in Seq(WireMsgs) /\ mboxB \in [Task -> Seq(BMsgs)] /\ Punctual
  BY BaseFacts, PipeFacts DEF Receives
<1>1. CASE MacOfB
  <2>1. CASE UNCHANGED <<mboxB, macRevB, slots>>
    BY <2>1 DEF BoxSteps, BoxStays, ReceiverStays
  <2>2. CASE MacPasses \/ MacForgets \/ \E q \in Pdu : MacTakes(q)
    BY <1>1, <2>2 DEF BoxSteps, BoxTaken, MacOfB, MacPasses, MacForgets, MacTakes
  <2>. QED  BY <1>1, <2>1, <2>2 DEF MacOfB
<1>2. CASE ReceiverStays
  <2>1. CASE ExpiresB
    <3>1. mboxB'["LINK_MAC"] = Append(mboxB["LINK_MAC"], [sig |-> "FRAME_REV_TO"])
      BY <1>0, <2>1, Tasks DEF ExpiresB
    <3>2. dueB # {}
      BY <2>1 DEF ExpiresB
    <3>. QED  BY <1>0, <1>2, <3>1, <3>2 DEF BoxSteps, BoxTimes, Punctual
  <2>2. ASSUME PhyOfB, WireMsg \in Asks,
               mboxB'["LINK_MAC"]
                 = Append(mboxB["LINK_MAC"], [sig |-> "FRAME_REV", frame |-> WireMsg.frame.mac])
        PROVE  BoxSteps
    <3>1. mboxB["LINK_PHY"] # <<>>
      BY <2>2 DEF PhyOfB
    <3>2. WireMsg = mboxB["LINK_PHY"][1] /\ 1 \in 1..Len(mboxB["LINK_PHY"])
      BY <1>0, <3>1, TailAt DEF WireMsg
    <3>3. WireMsg.frame.mac \in Outbound
      BY <2>2, <3>2, OutboundIs
    <3>. QED  BY <1>0, <1>2, <2>2, <3>3 DEF BoxSteps, BoxGrows, Pipe
  <2>. QED  BY <1>1, <1>2, <2>1, <2>2, ReceiverKept DEF BoxSteps, BoxStays
<1>. QED  BY <1>1, <1>2, ReceiverKept

LEMMA MetStays ==
  ASSUME Base, PairSteps, NEW G \in Nat, NEW H \in Nat, G <= H, Ticks => G < 2,
         BoxStays \/ (\E h : BoxGrows(h)) \/ BoxTimes, NEW W, NEW s, NEW j, Met(W, G, s, j)
  PROVE  Met(W, H, s, j)'
<1>1. ReceiverStays
  BY DEF BoxStays, BoxGrows, BoxTimes
<1>2. NoTimeout /\ G >= 2 => NoTimeout'
  <2> SUFFICES ASSUME NoTimeout, G >= 2
               PROVE  NoTimeout'
    OBVIOUS
  <2>0. dueB = {} /\ mboxB["LINK_MAC"] \in Seq(HeardMsgs)
    BY BaseFacts DEF NoTimeout
  <2>1. ~Ticks
    OBVIOUS
  <2>2. dueB' = {}
    BY <2>0, <2>1, ReceiverKept
  <2>3. CASE BoxStays
    BY <2>2, <2>3 DEF BoxStays, NoTimeout, Ears
  <2>4. ASSUME NEW h, BoxGrows(h) PROVE NoTimeout'
    <3> DEFINE x == [sig |-> "FRAME_REV", frame |-> h]
    <3>1. x \in HeardMsgs /\ x.sig = "FRAME_REV"
      BY <2>4 DEF BoxGrows, HeardMsgs
    <3> HIDE DEF x
    <3>2. \A i \in 1..Len(mboxB["LINK_MAC"]) : i \in EarsOf(mboxB["LINK_MAC"])
      BY DEF NoTimeout, Ears
    <3>3. \A i \in 1..Len(Append(mboxB["LINK_MAC"], x)) : i \in EarsOf(Append(mboxB["LINK_MAC"], x))
      BY <2>0, <3>1, <3>2, EarsAppend
    <3>4. mboxB'["LINK_MAC"] = Append(mboxB["LINK_MAC"], x)
      BY <2>4 DEF BoxGrows, x
    <3>. QED  BY <2>2, <3>3, <3>4 DEF NoTimeout, Ears
  <2>5. ~BoxTimes
    BY <2>0 DEF BoxTimes
  <2>. QED  BY <2>3, <2>4, <2>5
<1>3. Seen(G, s, j) => Seen(H, s, j)'
  <2>1. ASSUME NEW R2, NEW C2, NEW quiet2, R2 = macRevB', C2 = slots'[macRevB'.pdu], quiet2 = NoTimeout', Seen(G, s, j)
        PROVE  Has(R2, C2, quiet2, H, s, j)
    <3>1. R2 = macRevB /\ (macRevB.state = "RECEIVING" => slots[macRevB.pdu] \subseteq C2)
      BY <1>1, <2>1 DEF ReceiverStays
    <3>2. NoTimeout /\ G >= 2 => quiet2
      BY <1>2, <2>1
    <3>3. Has(macRevB, slots[macRevB.pdu], NoTimeout, G, s, j)
      BY <2>1 DEF Seen
    <3>. QED  BY <3>1, <3>2, <3>3, HasGrows
  <2>. QED  BY <2>1 DEF Seen
<1>. QED  BY <1>3 DEF Met

LEMMA MetMore ==
  ASSUME NEW W, NEW h, NEW G, NEW s, NEW j, Met(W, G, s, j), s <= h.seq
  PROVE  Met(W \cup {h}, G, s, j)
BY DEF Met

LEMMA MetWorks ==
  ASSUME Base, Prefix, NEW G \in Nat, NEW H \in Nat, G <= H, Rest(G), BoxTaken,
         NEW V, NEW s \in Nat, NEW j
  PROVE  /\ HeardMsg.sig # "FRAME_REV" /\ Met(V, G, s, j) => Met(V, H, s, j)'
         /\ /\ HeardMsg.sig = "FRAME_REV" /\ Met({HeardMsg.frame} \cup V, G, s, j)
            /\ HeardMsg.frame.seq <= s /\ \A f \in V : HeardMsg.frame.seq <= f.seq
            => Met(V, H, s, j)'
<1>0. /\ mboxB["LINK_MAC"] # <<>> /\ mboxB'["LINK_MAC"] = Tail(mboxB["LINK_MAC"]) /\ MacOfB
      /\ mboxB["LINK_MAC"] \in Seq(HeardMsgs) /\ mboxB \in [Task -> Seq(BMsgs)]
  BY BaseFacts DEF BoxTaken, Receives
<1>1. ~UNCHANGED mboxB
  <2>1. mboxB'["LINK_MAC"] # mboxB["LINK_MAC"]
    <3>1. Len(Tail(mboxB["LINK_MAC"])) + 1 = Len(mboxB["LINK_MAC"]) /\ Len(mboxB["LINK_MAC"]) \in Nat
      BY <1>0, TailAt
    <3>2. \A k \in Nat : k + 1 # k
      OBVIOUS
    <3>. QED  BY <1>0, <3>1, <3>2
  <2>. QED  BY <2>1
<1>2. /\ HeardMsg.sig # "FRAME_REV" => \A q, k : Seen(G, q, k) => Seen(H, q, k)'
      /\ HeardMsg.sig = "FRAME_REV" =>
           \A q, k : q = HeardMsg.frame.seq =>
                   /\ k = HeardMsg.frame.fidx => Seen(H, q, k)'
                   /\ Seen(G, q, k) => Seen(H, q, k)'
  BY <1>0, <1>1, ReceiverWorks
<1>3. HeardMsg.sig # "FRAME_REV" /\ Met(V, G, s, j) => Met(V, H, s, j)'
  BY <1>2 DEF Met
<1>4. ASSUME HeardMsg.sig = "FRAME_REV", Met({HeardMsg.frame} \cup V, G, s, j),
             HeardMsg.frame.seq <= s, \A f \in V : HeardMsg.frame.seq <= f.seq
      PROVE  Met(V, H, s, j)'
  <2> DEFINE h == HeardMsg.frame
  <2>0. h.seq \in Nat
    BY <1>0, <1>4, EarFacts
  <2>1. CASE \E f \in V : f.seq = s /\ f.fidx = j
    BY <2>1 DEF Met
  <2>2. CASE h.seq = s /\ h.fidx = j
    <3>1. Seen(H, s, j)'
      BY <1>2, <1>4, <2>2
    <3>2. \A f \in V : s <= f.seq
      BY <1>4, <2>2
    <3>. QED  BY <3>1, <3>2 DEF Met
  <2>3. CASE Seen(G, s, j) /\ \A f \in {h} \cup V : s <= f.seq
    <3>0. s <= h.seq
      BY <2>3
    <3>1. s = h.seq
      BY <1>4, <2>0, <3>0
    <3>2. Seen(H, s, j)'
      BY <1>2, <1>4, <2>3, <3>1
    <3>. QED  BY <2>3, <3>2 DEF Met
  <2>. QED  BY <1>4, <2>1, <2>2, <2>3 DEF Met
<1>. QED  BY <1>3, <1>4

-----------------------------------------------------------------------------
(* Only the frame that the sender holds joins those on their way to B. *)
LEMMA OutboundSets ==
  \A l, b, f : f \in OutboundOf(l, b) <=>
    \/ \E i \in 1..Len(l) : l[i].type = "REQ" /\ l[i].mac = f
    \/ \E i \in 1..Len(b) : b[i] \in Asks /\ b[i].frame.mac = f
  BY DEF OutboundOf

LEMMA OutboundAppend ==
  ASSUME NEW l \in Seq(PhyFrame), NEW x \in PhyFrame, NEW b, NEW f \in OutboundOf(Append(l, x), b)
  PROVE  f \in OutboundOf(l, b) \/ (x.type = "REQ" /\ f = x.mac)
<1>0. (\E i \in 1..Len(Append(l, x)) : Append(l, x)[i].type = "REQ" /\ Append(l, x)[i].mac = f)
      \/ (\E i \in 1..Len(b) : b[i] \in Asks /\ b[i].frame.mac = f)
  BY DEF OutboundOf
<1>1. CASE \E i \in 1..Len(Append(l, x)) : Append(l, x)[i].type = "REQ" /\ Append(l, x)[i].mac = f
  <2>1. PICK i \in 1..Len(Append(l, x)) : Append(l, x)[i].type = "REQ" /\ Append(l, x)[i].mac = f
    BY <1>1
  <2>2. (i \in 1..Len(l) /\ Append(l, x)[i] = l[i]) \/ Append(l, x)[i] = x
    BY <2>1, AppendAt
  <2>. QED  BY <2>1, <2>2, OutboundSets
<1>2. CASE \E i \in 1..Len(b) : b[i] \in Asks /\ b[i].frame.mac = f
  BY <1>2, OutboundSets
<1>. QED  BY <1>0, <1>1, <1>2

LEMMA OutboundTail ==
  ASSUME NEW l \in Seq(PhyFrame), l # <<>>, NEW b, NEW f \in OutboundOf(Tail(l), b)
  PROVE  f \in OutboundOf(l, b)
<1>0. (\E i \in 1..Len(Tail(l)) : Tail(l)[i].type = "REQ" /\ Tail(l)[i].mac = f)
      \/ (\E i \in 1..Len(b) : b[i] \in Asks /\ b[i].frame.mac = f)
  BY DEF OutboundOf
<1>1. CASE \E i \in 1..Len(Tail(l)) : Tail(l)[i].type = "REQ" /\ Tail(l)[i].mac = f
  <2>1. PICK i \in 1..Len(Tail(l)) : Tail(l)[i].type = "REQ" /\ Tail(l)[i].mac = f
    BY <1>1
  <2>2. i + 1 \in 1..Len(l) /\ Tail(l)[i] = l[i + 1]
    BY <2>1, TailAt
  <2>. QED  BY <2>1, <2>2, OutboundSets
<1>2. CASE \E i \in 1..Len(b) : b[i] \in Asks /\ b[i].frame.mac = f
  BY <1>2, OutboundSets
<1>. QED  BY <1>0, <1>1, <1>2

LEMMA OutboundHeard ==
  ASSUME NEW l \in Seq(PhyFrame), l # <<>>, NEW b \in Seq(WireMsgs),
         NEW m \in WireMsgs, m.frame = Head(l), NEW f \in OutboundOf(Tail(l), Append(b, m))
  PROVE  f \in OutboundOf(l, b)
<1>0. (\E i \in 1..Len(Tail(l)) : Tail(l)[i].type = "REQ" /\ Tail(l)[i].mac = f)
      \/ (\E i \in 1..Len(Append(b, m)) : Append(b, m)[i] \in Asks /\ Append(b, m)[i].frame.mac = f)
  BY DEF OutboundOf
<1>1. CASE \E i \in 1..Len(Tail(l)) : Tail(l)[i].type = "REQ" /\ Tail(l)[i].mac = f
  <2>1. f \in OutboundOf(Tail(l), b)
    BY <1>1, OutboundSets
  <2>. QED  BY <2>1, OutboundTail
<1>2. CASE \E i \in 1..Len(Append(b, m)) : Append(b, m)[i] \in Asks /\ Append(b, m)[i].frame.mac = f
  <2>1. PICK i \in 1..Len(Append(b, m)) : Append(b, m)[i] \in Asks /\ Append(b, m)[i].frame.mac = f
    BY <1>2
  <2>2. (i \in 1..Len(b) /\ Append(b, m)[i] = b[i]) \/ Append(b, m)[i] = m
    BY <2>1, AppendAt
  <2>3. l[1] = Head(l) /\ 1 \in 1..Len(l)
    BY TailAt
  <2>4. m \in Asks => m.frame.type = "REQ"
    BY WireKinds
  <2>. QED  BY <2>1, <2>2, <2>3, <2>4, OutboundSets
<1>. QED  BY <1>0, <1>1, <1>2

LEMMA OutboundPassed ==
  ASSUME NEW l, NEW b \in Seq(WireMsgs), b # <<>>, NEW f \in OutboundOf(l, Tail(b))
  PROVE  f \in OutboundOf(l, b)
<1>0. (\E i \in 1..Len(Tail(b)) : Tail(b)[i] \in Asks /\ Tail(b)[i].frame.mac = f)
      \/ (\E i \in 1..Len(l) : l[i].type = "REQ" /\ l[i].mac = f)
  BY DEF OutboundOf
<1>1. CASE \E i \in 1..Len(Tail(b)) : Tail(b)[i] \in Asks /\ Tail(b)[i].frame.mac = f
  <2>1. PICK i \in 1..Len(Tail(b)) : Tail(b)[i] \in Asks /\ Tail(b)[i].frame.mac = f
    BY <1>1
  <2>2. i + 1 \in 1..Len(b) /\ Tail(b)[i] = b[i + 1]
    BY <2>1, TailAt
  <2>. QED  BY <2>1, <2>2, OutboundSets
<1>2. CASE \E i \in 1..Len(l) : l[i].type = "REQ" /\ l[i].mac = f
  BY <1>2, OutboundSets
<1>. QED  BY <1>0, <1>1, <1>2

(* What one frame in flight comes to. *)
LEMMA OnlyOne ==
  ASSUME Base
  PROVE  /\ Sending \/ Waits("FRAME_SEND_DONE") # 0 \/ Waits("FRAME_SEND_ERR") # 0 => Holds
         /\ Sending => Waits("FRAME_SEND_DONE") = 0 /\ Waits("FRAME_SEND_ERR") = 0
         /\ Sending \/ Waits("FRAME_SEND_DONE") # 0 \/ Waits("FRAME_SEND_ERR") # 0 \/ ~Holds =>
              \A i \in 1..Len(mbox["LINK_PHY"]) : mbox["LINK_PHY"][i].sig # "FRAME_SEND_REQ"
         /\ Waits("FRAME_SEND_DONE") # 0 \/ Waits("FRAME_SEND_ERR") # 0 \/ ~Holds => ~Sending
         /\ (\E i \in 1..Len(mbox["LINK_PHY"]) : mbox["LINK_PHY"][i].sig = "FRAME_SEND_REQ") =>
              Holds /\ ~Sending /\ Waits("FRAME_SEND_DONE") = 0 /\ Waits("FRAME_SEND_ERR") = 0
         /\ Waits("FRAME_SEND_DONE") \in Nat /\ Waits("FRAME_SEND_ERR") \in Nat
         /\ ~Holds => Waits("FRAME_SEND_DONE") = 0 /\ Waits("FRAME_SEND_ERR") = 0
<1> DEFINE answers == Cnt(mbox["LINK_MAC"], {"FRAME_SEND_DONE", "FRAME_SEND_ERR"})
           asks == Cnt(mbox["LINK_PHY"], {"FRAME_SEND_REQ"})
<1>1. mbox["LINK_MAC"] \in Seq(AllMsgs) /\ mbox["LINK_PHY"] \in Seq(AllMsgs) /\ InFlight
  BY BaseFacts, Tasks DEF Safe
<1>2. /\ answers \in Nat /\ asks \in Nat
      /\ Waits("FRAME_SEND_DONE") \in Nat /\ Waits("FRAME_SEND_ERR") \in Nat
  BY <1>1, CntNat DEF Waits
<1>3. answers = 0 <=> Waits("FRAME_SEND_DONE") = 0 /\ Waits("FRAME_SEND_ERR") = 0
  BY <1>1, CntZero DEF Waits
<1>4. asks = 0 <=> \A i \in 1..Len(mbox["LINK_PHY"]) : mbox["LINK_PHY"][i].sig # "FRAME_SEND_REQ"
  BY <1>1, CntZero
<1>5. asks + One(Sending) + answers = One(Holds)
  BY <1>1 DEF InFlight, Sending
<1> HIDE DEF answers, asks
<1>6. /\ Sending \/ answers # 0 => Holds
      /\ Sending => answers = 0 /\ asks = 0
      /\ answers # 0 => asks = 0 /\ ~Sending
      /\ ~Holds => asks = 0 /\ ~Sending /\ answers = 0
      /\ asks # 0 => Holds /\ ~Sending /\ answers = 0
  BY <1>2, <1>5 DEF One
<1>. QED  BY <1>2, <1>3, <1>4, <1>6

Emitted == PhyOfA /\ (PhyBegins \/ PhyAgain) /\ Holds

LEMMA OutboundSteps ==
  ASSUME Fits, Base, Room, faults <= Enough, Same, PairSteps, NEW f, f \in Outbound'
  PROVE  f \in Outbound \/ (Emitted /\ f = macSend.frame)
<1>0. /\ line \in Seq(PhyFrame) /\ mboxB["LINK_PHY"] \in Seq(WireMsgs)
      /\ mboxB \in [Task -> Seq(BMsgs)] /\ mbox["LINK_PHY"] \in Seq(PhyMsgs)
  BY BaseFacts DEF Receives
<1>a. f \in OutboundOf(line', mboxB'["LINK_PHY"])
  BY DEF Outbound
<1>b. Outbound = OutboundOf(line, mboxB["LINK_PHY"])
  BY DEF Outbound
<1>1. CASE line' = line /\ mboxB'["LINK_PHY"] = mboxB["LINK_PHY"]
  BY <1>1, <1>a, <1>b
<1>2. CASE PhyOfA
  <2>0. mboxB' = mboxB
    BY <1>2 DEF PhyOfA, BStays, boardB
  <2>1. CASE PhyBegins \/ PhyAgain
    <3> DEFINE x == Request(phy')
    <3>1. line' = Append(line, x) /\ x \in PhyFrame
      BY <1>2, <2>1, LineRoom
    <3>2. x.mac = phy'.frame
      BY DEF Request
    <3>3. phy'.frame = macSend.frame /\ Holds
      <4>1. CASE PhyBegins
        <5>1. mbox["LINK_PHY"] # <<>> /\ PhyMsg.sig = "FRAME_SEND_REQ" /\ Holds /\ phy'.frame = PhyMsg.frame
          BY <1>2, <4>1 DEF PhyOfA, PhyBegins
        <5>2. PhyMsg = mbox["LINK_PHY"][1] /\ 1 \in 1..Len(mbox["LINK_PHY"])
          BY <1>0, <5>1, TailAt DEF PhyMsg
        <5>. QED  BY <5>1, <5>2 DEF Same
      <4>2. CASE PhyAgain
        <5>1. Sending
          BY <1>2, <4>2, PhyClock
        <5>2. phy'.frame = phy.frame
          <6>1. phy \in PhyState
            BY BaseFacts
          <6>. QED  BY <4>2, <6>1 DEF PhyAgain, PhyState
        <5>. QED  BY <5>1, <5>2, OnlyOne DEF Same
      <4>. QED  BY <2>1, <4>1, <4>2
    <3> HIDE DEF x
    <3>4. f \in OutboundOf(line, mboxB["LINK_PHY"]) \/ f = x.mac
      BY <1>0, <1>a, <2>0, <3>1, OutboundAppend
    <3>. QED  BY <1>2, <1>b, <2>1, <3>2, <3>3, <3>4 DEF Emitted
  <2>2. CASE PhyObjects
    <3> DEFINE x == Answer("NACK", PhyMsg.frame.seq)
    <3>1. line' = Append(line, x) /\ x \in PhyFrame
      BY <1>2, <2>2, LineRoom
    <3>2. x.type # "REQ"
      BY DEF Answer
    <3> HIDE DEF x
    <3>. QED  BY <1>0, <1>a, <1>b, <2>0, <3>1, <3>2, OutboundAppend
  <2>3. CASE PhyFails \/ PhySucceeds \/ PhyPasses
    BY <1>1, <1>2, <2>0, <2>3, LineRoom
  <2>. QED  BY <1>2, <2>1, <2>2, <2>3 DEF PhyOfA
<1>3. CASE ReachesB
  <2>1. line # <<>> /\ line' = Tail(line)
    BY <1>3 DEF ReachesB
  <2>2. CASE mboxB' = mboxB
    BY <1>0, <1>a, <1>b, <2>1, <2>2, OutboundTail
  <2>3. ASSUME NEW m \in WireMsgs, ComesToB(m) PROVE f \in Outbound
    <3>1. mboxB'["LINK_PHY"] = Append(mboxB["LINK_PHY"], m) /\ m.frame = Head(line)
      BY <2>3 DEF ComesToB
    <3>. QED  BY <1>0, <1>a, <1>b, <2>1, <3>1, OutboundHeard
  <2>. QED  BY <1>3, <2>2, <2>3, ReachedBCounts
<1>4. CASE PhyOfB
  <2>1. mboxB["LINK_PHY"] # <<>> /\ mboxB'["LINK_PHY"] = Tail(mboxB["LINK_PHY"]) /\ line' = line
    BY <1>4 DEF PhyOfB, AStays
  <2>. QED  BY <1>0, <1>a, <1>b, <2>1, OutboundPassed
<1>5. CASE ExpiresB
  BY <1>1, <1>5, <1>0, Tasks DEF ExpiresB, AStays
<1>6. CASE MacOfA \/ LinkOfA \/ (\E n \in 1..MaxFrames : Requests(n)) \/ ExpiresA \/ ReachesA \/ Ticks
           \/ MacOfB \/ LinkOfB \/ Idles
  BY <1>1, <1>6 DEF MacOfA, LinkOfA, Requests, ExpiresA, ReachesA, Ticks, MacOfB, LinkOfB, Idles, AStays,
                    BStays, boardB
<1>. QED  BY <1>2, <1>3, <1>4, <1>5, <1>6 DEF PairSteps

LEMMA SizeAt ==
  ASSUME Base
  PROVE  /\ Len(size) \in Nat
         /\ \A s \in Nat : s < Len(size) => size[s + 1] \in Nat /\ 1 <= size[s + 1] /\ s \in Sent
         /\ \A s \in Sent : s \in Nat /\ s < Len(size)
<1>1. size \in Seq(1..MaxFrames)
  BY BaseFacts
<1>2. Len(size) \in Nat /\ \A i \in 1..Len(size) : size[i] \in 1..MaxFrames
  <2>1. \A S : size \in Seq(S) => Len(size) \in Nat /\ \A i \in 1..Len(size) : size[i] \in S
    OBVIOUS
  <2>. QED  BY <1>1, <2>1
<1>3. \A k \in 1..MaxFrames : k \in Nat /\ 1 <= k
  OBVIOUS
<1>4. ASSUME NEW s \in Nat, s < Len(size)
      PROVE  size[s + 1] \in Nat /\ 1 <= size[s + 1] /\ s \in Sent
  <2>1. s + 1 \in 1..Len(size) /\ s \in 0 .. Len(size) - 1
    BY <1>2, <1>4
  <2>. QED  BY <1>2, <1>3, <2>1 DEF Sent
<1>5. ASSUME NEW s \in Sent PROVE s \in Nat /\ s < Len(size)
  BY <1>2 DEF Sent
<1>. QED  BY <1>2, <1>4, <1>5

-----------------------------------------------------------------------------
Sound(G) ==
  /\ Base /\ Room /\ LineUp /\ faults <= Enough
  /\ Same /\ Prefix /\ Carries /\ G \in Nat /\ Account(G) /\ Data(G)
Moves(G, H) == Fits /\ Sound(G) /\ PairSteps /\ H \in Nat /\ G <= H /\ (Ticks => G < 2)

LEMMA SoundFacts ==
  ASSUME NEW G, NEW H, Moves(G, H)
  PROVE  /\ Fits /\ Base /\ Room /\ LineUp /\ faults <= Enough /\ Same /\ Prefix /\ Carries
         /\ G \in Nat /\ H \in Nat /\ G <= H /\ Account(G) /\ PairSteps /\ (Ticks => G < 2)
         /\ InOrderly(G) /\ Truth(G) /\ Rest(G) /\ Tried(G) /\ Pipe
         /\ macSend.frame.seq \in Nat /\ macRevB.seq \in Nat
         /\ \A f \in Outbound : f \in AnyFrame /\ f.seq \in Nat /\ f.seq <= macSend.frame.seq
         /\ \A i \in Ears : HeardAt(i) \in AnyFrame /\ HeardAt(i).seq \in Nat
         /\ BoxSteps
BY PipeFacts, BoxStepsCover DEF Moves, Sound, Data, Pipe

LEMMA ReachedKept ==
  ASSUME NEW G, NEW H, Moves(G, H), NEW s \in Nat, NEW j, s <= macSend.frame.seq,
         BoxTaken /\ HeardMsg.sig = "FRAME_REV" => HeardMsg.frame.seq <= s,
         Reached(G, s, j)
  PROVE  Reached(H, s, j)'
<1>0. /\ Fits /\ Base /\ Room /\ faults <= Enough /\ Same /\ Prefix /\ PairSteps /\ (Ticks => G < 2)
      /\ G \in Nat /\ H \in Nat /\ G <= H /\ Rest(G) /\ BoxSteps
      /\ mboxB["LINK_MAC"] \in Seq(HeardMsgs)
  BY SoundFacts, BaseFacts
<1>1. ASSUME NEW f, f \in Outbound' PROVE s <= f.seq
  <2>1. f \in Outbound \/ f = macSend.frame
    BY <1>0, <1>1, OutboundSteps
  <2>. QED  BY <2>1 DEF Reached
<1>2. Met(Waiting, G, s, j)
  BY DEF Reached
<1>3. ASSUME NEW V, V = Waiting' PROVE Met(V, H, s, j)'
  <2>1. CASE BoxStays
    <3>1. V = Waiting
      BY <1>3, <2>1 DEF BoxStays, Waiting
    <3>. QED  BY <1>0, <1>2, <2>1, <3>1, MetStays
  <2>2. ASSUME NEW h, BoxGrows(h) PROVE Met(V, H, s, j)'
    <3> DEFINE x == [sig |-> "FRAME_REV", frame |-> h]
    <3>1. x \in HeardMsgs /\ x.sig = "FRAME_REV" /\ x.frame = h /\ h \in Outbound
      BY <2>2 DEF BoxGrows, HeardMsgs
    <3>2. mboxB'["LINK_MAC"] = Append(mboxB["LINK_MAC"], x)
      BY <2>2 DEF BoxGrows
    <3> HIDE DEF x
    <3>3. V = Waiting \cup {h}
      BY <1>0, <1>3, <3>1, <3>2, EarsAppend DEF Waiting
    <3>4. s <= h.seq
      BY <3>1 DEF Reached
    <3>5. Met(V, G, s, j)
      BY <1>2, <3>3, <3>4, MetMore
    <3>. QED  BY <1>0, <2>2, <3>5, MetStays
  <2>3. CASE BoxTimes
    <3> DEFINE x == [sig |-> "FRAME_REV_TO"]
    <3>1. x \in HeardMsgs /\ x.sig # "FRAME_REV"
      BY DEF HeardMsgs
    <3>2. mboxB'["LINK_MAC"] = Append(mboxB["LINK_MAC"], x)
      BY <2>3 DEF BoxTimes
    <3> HIDE DEF x
    <3>3. V = Waiting
      BY <1>0, <1>3, <3>1, <3>2, EarsAppend DEF Waiting
    <3>. QED  BY <1>0, <1>2, <2>3, <3>3, MetStays
  <2>4. CASE BoxTaken
    <3>1. mboxB["LINK_MAC"] # <<>> /\ V = WaitingOf(Tail(mboxB["LINK_MAC"]))
      BY <1>3, <2>4 DEF BoxTaken, Waiting
    <3>2. CASE HeardMsg.sig # "FRAME_REV"
      <4>1. Waiting = V
        BY <1>0, <3>1, <3>2, EarsTail DEF Waiting, HeardMsg
      <4>. QED  BY <1>0, <1>2, <2>4, <3>2, <4>1, MetWorks
    <3>3. CASE HeardMsg.sig = "FRAME_REV"
      <4>1. Waiting = {HeardMsg.frame} \cup V
        BY <1>0, <3>1, <3>3, EarsTail DEF Waiting, HeardMsg
      <4>2. \A f \in V : HeardMsg.frame.seq <= f.seq
        BY <1>0, <3>1, <3>3, <4>1, EarFacts
      <4>3. HeardMsg.frame.seq <= s
        BY <2>4, <3>3
      <4>. QED  BY <1>0, <1>2, <2>4, <3>3, <4>1, <4>2, <4>3, MetWorks
    <3>. QED  BY <3>2, <3>3
  <2>. QED  BY <1>0, <2>1, <2>2, <2>3, <2>4 DEF BoxSteps
<1>4. Met(Waiting, H, s, j)'
  <2>1. \A V : V = Waiting' => Met(V, H, s, j)'
    BY <1>3
  <2>. QED  BY <2>1 DEF Met
<1>. QED  BY <1>1, <1>4 DEF Reached

(* What waits at the receiver keeps its place behind what it follows. *)
LEMMA HeardKept ==
  ASSUME NEW G, NEW H, Moves(G, H), NEW i, i \in Ears', NEW f, f = HeardAt(i)'
  PROVE  f \in AnyFrame /\ Genuine(f) /\ (f.fidx > 0 => Follows(H, i)')
<1> DEFINE M == mboxB["LINK_MAC"]
<1>0. /\ Fits /\ Base /\ Room /\ faults <= Enough /\ Same /\ Prefix /\ PairSteps /\ (Ticks => G < 2)
      /\ G \in Nat /\ H \in Nat /\ G <= H /\ Rest(G) /\ BoxSteps /\ InOrderly(G)
      /\ \A k \in Ears : HeardAt(k) \in AnyFrame /\ HeardAt(k).seq \in Nat
  BY SoundFacts
<1>a. M \in Seq(HeardMsgs)
  BY <1>0, BaseFacts
<1>b. \A k \in Ears : Genuine(HeardAt(k)) /\ (HeardAt(k).fidx > 0 => Follows(G, k))
  BY <1>0 DEF InOrderly
<1>s. ASSUME NEW W, W = BeforeOf(M, i)', f.fidx > 0 => Met(W, H, f.seq, f.fidx - 1)'
      PROVE  f.fidx > 0 => Follows(H, i)'
  BY <1>s DEF Follows, Met
<1>1. ASSUME i \in Ears, f = HeardAt(i), BeforeOf(M, i)' = BeforeOf(M, i),
             BoxStays \/ (\E h : BoxGrows(h)) \/ BoxTimes
      PROVE  f \in AnyFrame /\ Genuine(f) /\ (f.fidx > 0 => Follows(H, i)')
  <2> DEFINE W == BeforeOf(M, i)
  <2>1. f \in AnyFrame /\ Genuine(f) /\ (f.fidx > 0 => Met(W, G, f.seq, f.fidx - 1))
    BY <1>0, <1>1, <1>b DEF Follows
  <2>2. f.fidx > 0 => Met(W, H, f.seq, f.fidx - 1)'
    BY <1>0, <1>1, <2>1, MetStays
  <2>3. ASSUME NEW X, X = W
        PROVE  f.fidx > 0 => Met(X, H, f.seq, f.fidx - 1)'
    <3>1. f.fidx > 0 => Met(X, G, f.seq, f.fidx - 1)
      BY <2>1, <2>3
    <3>. QED  BY <1>0, <1>1, <3>1, MetStays
  <2>. QED  BY <1>1, <1>s, <2>1, <2>3
<1>2. CASE BoxStays
  BY <1>1, <1>2 DEF BoxStays, Ears, HeardAt
<1>3. ASSUME NEW h, BoxGrows(h)
      PROVE  f \in AnyFrame /\ Genuine(f) /\ (f.fidx > 0 => Follows(H, i)')
  <2> DEFINE x == [sig |-> "FRAME_REV", frame |-> h]
  <2>1. x \in HeardMsgs /\ x.sig = "FRAME_REV" /\ x.frame = h /\ h \in Outbound /\ h \in AnyFrame
    BY <1>3 DEF BoxGrows, HeardMsgs
  <2>2. M' = Append(M, x)
    BY <1>3 DEF BoxGrows
  <2> HIDE DEF x
  <2>3. i \in EarsOf(Append(M, x)) /\ f = Append(M, x)[i].frame
    BY <2>2 DEF Ears, HeardAt
  <2>4. CASE i \in EarsOf(M)
    <3>0. \A k \in EarsOf(M) : Append(M, x)[k] = M[k] /\ BeforeOf(Append(M, x), k) = BeforeOf(M, k)
      BY <1>a, <2>1, EarsKept
    <3>1. Append(M, x)[i] = M[i] /\ BeforeOf(Append(M, x), i) = BeforeOf(M, i)
      BY <2>4, <3>0
    <3>. QED  BY <1>1, <1>3, <2>2, <2>3, <2>4, <3>1 DEF Ears, HeardAt
  <2>5. CASE Append(M, x)[i] = x /\ BeforeOf(Append(M, x), i) = WaitingOf(M)
    <3>1. f = h
      BY <2>1, <2>3, <2>5
    <3>2. Ready(G, f)
      BY <1>0, <2>1, <3>1 DEF InOrderly
    <3>3. f.fidx > 0 => Met(Waiting, G, f.seq, f.fidx - 1)
      BY <3>2 DEF Ready, Reached
    <3>4. ASSUME NEW X, X = Waiting
          PROVE  f.fidx > 0 => Met(X, H, f.seq, f.fidx - 1)'
      <4>1. f.fidx > 0 => Met(X, G, f.seq, f.fidx - 1)
        BY <3>3, <3>4
      <4>. QED  BY <1>0, <1>3, <4>1, MetStays
    <3>5. BeforeOf(M, i)' = Waiting
      BY <2>2, <2>5 DEF Waiting
    <3>. QED  BY <1>s, <2>1, <3>1, <3>2, <3>4, <3>5 DEF Ready
  <2>6. i \in EarsOf(M) \/ (Append(M, x)[i] = x /\ BeforeOf(Append(M, x), i) = WaitingOf(M))
    <3>1. \A k \in EarsOf(Append(M, x)) :
            k \in EarsOf(M) \/ (Append(M, x)[k] = x /\ BeforeOf(Append(M, x), k) = WaitingOf(M))
      BY <1>a, <2>1, EarsAppend
    <3>. QED  BY <2>3, <3>1
  <2>. QED  BY <2>4, <2>5, <2>6
<1>4. CASE BoxTimes
  <2> DEFINE x == [sig |-> "FRAME_REV_TO"]
  <2>1. x \in HeardMsgs /\ x.sig # "FRAME_REV"
    BY DEF HeardMsgs
  <2>2. M' = Append(M, x)
    BY <1>4 DEF BoxTimes
  <2> HIDE DEF x
  <2>3. i \in EarsOf(M)
    BY <1>a, <2>1, <2>2, EarsAppend DEF Ears
  <2>4. Append(M, x)[i] = M[i] /\ BeforeOf(Append(M, x), i) = BeforeOf(M, i)
    <3>1. \A k \in EarsOf(M) : /\ k \in EarsOf(Append(M, x)) /\ Append(M, x)[k] = M[k]
                                /\ BeforeOf(Append(M, x), k) = BeforeOf(M, k)
      BY <1>a, <2>1, EarsAppend
    <3>. QED  BY <2>3, <3>1
  <2>. QED  BY <1>1, <1>4, <2>2, <2>3, <2>4 DEF Ears, HeardAt
<1>5. CASE BoxTaken
  <2>1. M # <<>> /\ M' = Tail(M)
    BY <1>5 DEF BoxTaken
  <2>2. i \in EarsOf(Tail(M)) /\ f = Tail(M)[i].frame
    BY <2>1 DEF Ears, HeardAt
  <2> DEFINE k == i + 1
  <2>3. k \in EarsOf(M) /\ f = HeardAt(k)
    BY <1>a, <2>1, <2>2, EarsTail DEF HeardAt
  <2> HIDE DEF k
  <2>4. f \in AnyFrame /\ Genuine(f) /\ f.seq \in Nat /\ (f.fidx > 0 => Met(BeforeOf(M, k), G, f.seq, f.fidx - 1))
    BY <1>0, <1>b, <2>3 DEF Follows, Ears
  <2>5. ASSUME NEW V, V = BeforeOf(M, i)', f.fidx > 0
        PROVE  Met(V, H, f.seq, f.fidx - 1)'
    <3>1. V = BeforeOf(Tail(M), i)
      BY <2>1, <2>5
    <3>2. CASE HeardMsg.sig # "FRAME_REV"
      <4>1. BeforeOf(M, k) = V
        BY <1>a, <2>1, <2>2, <3>1, <3>2, EarsTail DEF HeardMsg, k
      <4>. QED  BY <1>0, <1>5, <2>4, <2>5, <3>2, <4>1, MetWorks
    <3>3. CASE HeardMsg.sig = "FRAME_REV"
      <4>1. BeforeOf(M, k) = {HeardMsg.frame} \cup V
        BY <1>a, <2>1, <2>2, <3>1, <3>3, EarsTail DEF HeardMsg, k
      <4>2. f \in Waiting /\ V \subseteq Waiting
        BY <2>3, <4>1 DEF Waiting, WaitingOf, BeforeOf, HeardAt
      <4>3. HeardMsg.frame.seq <= f.seq /\ \A g \in V : HeardMsg.frame.seq <= g.seq
        BY <1>0, <2>1, <3>3, <4>2, EarFacts
      <4>4. Met({HeardMsg.frame} \cup V, G, f.seq, f.fidx - 1)
        BY <2>4, <2>5, <4>1
      <4>. QED  BY <1>0, <1>5, <2>4, <3>3, <4>3, <4>4, MetWorks
    <3>. QED  BY <3>2, <3>3
  <2>. QED  BY <1>s, <2>4, <2>5
<1>. QED  BY <1>0, <1>2, <1>3, <1>4, <1>5 DEF BoxSteps

-----------------------------------------------------------------------------
(* What is in flight when a frame is sent, when one is answered, and when none is. *)
Alone ==
  /\ Sending => Holds /\ Waits("FRAME_SEND_DONE") = 0 /\ Waits("FRAME_SEND_ERR") = 0
  /\ ~Holds => ~Sending /\ Waits("FRAME_SEND_DONE") = 0 /\ Waits("FRAME_SEND_ERR") = 0
  /\ (\E i \in 1..Len(mbox["LINK_PHY"]) : mbox["LINK_PHY"][i].sig = "FRAME_SEND_REQ") =>
       Holds /\ ~Sending /\ Waits("FRAME_SEND_DONE") = 0 /\ Waits("FRAME_SEND_ERR") = 0

LEMMA AloneNext == Base' => Alone'
<1>1. Base => Alone
  BY OnlyOne DEF Alone
<1>. QED  BY <1>1, PTL

LEMMA SizeSteps ==
  ASSUME PairSteps
  PROVE  \/ size' = size
         \/ \E n \in 1..MaxFrames : Requests(n) /\ size' = Append(size, n)
BY DEF PairSteps, PhyOfA, MacOfA, LinkOfA, Requests, ExpiresA, ReachesA, ReachesB, Ticks, PhyOfB, MacOfB,
       LinkOfB, ExpiresB, Idles, AStays, BStays

LEMMA SizeKept ==
  ASSUME Base, PairSteps
  PROVE  /\ Len(size') \in Nat /\ Len(size) <= Len(size')
         /\ \A s \in Nat : s < Len(size) => s < Len(size') /\ size'[s + 1] = size[s + 1]
<1>1. size \in Seq(1..MaxFrames) /\ Len(size) \in Nat
  <2>1. \A S : size \in Seq(S) => Len(size) \in Nat
    OBVIOUS
  <2>. QED  BY <2>1, BaseFacts
<1>2. CASE size' = size
  BY <1>1, <1>2
<1>3. ASSUME NEW n \in 1..MaxFrames, size' = Append(size, n)
      PROVE  /\ Len(size') \in Nat /\ Len(size) <= Len(size')
             /\ \A s \in Nat : s < Len(size) => s < Len(size') /\ size'[s + 1] = size[s + 1]
  <2> DEFINE z == Append(size, n)
  <2>1. Len(z) = Len(size) + 1 /\ \A i \in 1..Len(size) : z[i] = size[i]
    BY <1>1, AppendAt
  <2> HIDE DEF z
  <2>2. Len(z) \in Nat /\ Len(size) <= Len(z) /\ \A s \in Nat : s < Len(size) => s < Len(z) /\ z[s + 1] = size[s + 1]
    BY <1>1, <2>1
  <2>. QED  BY <1>3, <2>2 DEF z
<1>. QED  BY <1>2, <1>3, SizeSteps

LEMMA GenuineKept ==
  ASSUME Base, PairSteps, NEW f, f.seq \in Nat, Genuine(f)
  PROVE  Genuine(f)'
BY SizeKept DEF Genuine

LEMMA ReadyKept ==
  ASSUME NEW G, NEW H, Moves(G, H), NEW f, f.seq \in Nat, f.seq <= macSend.frame.seq, Ready(G, f),
         BoxTaken /\ HeardMsg.sig = "FRAME_REV" => HeardMsg.frame.seq <= f.seq
  PROVE  Ready(H, f)'
<1>1. Base /\ PairSteps
  BY SoundFacts
<1>2. Genuine(f)'
  BY <1>1, GenuineKept DEF Ready
<1>3. f.fidx > 0 => Reached(H, f.seq, f.fidx - 1)'
  BY ReachedKept DEF Ready
<1>. QED  BY <1>2, <1>3 DEF Ready

(* What the sender holds, and what it is told. *)
LEMMA SenderStays ==
  ASSUME Base, PairSteps, ~MacOfA
  PROVE  /\ macSend' = macSend /\ Holds' = Holds
         /\ PhyOfA /\ PhyFails => Waits("FRAME_SEND_ERR")' = Waits("FRAME_SEND_ERR") + 1
         /\ ~(PhyOfA /\ PhyFails) => Waits("FRAME_SEND_ERR")' = Waits("FRAME_SEND_ERR")
         /\ ~(PhyOfA /\ PhySucceeds) => Waits("FRAME_SEND_DONE")' = Waits("FRAME_SEND_DONE")
<1> DEFINE M == mbox["LINK_MAC"]
<1>1. /\ M \in Seq(AllMsgs) /\ Boxes
      /\ [sig |-> "FRAME_SEND_DONE"] \in AllMsgs /\ [sig |-> "FRAME_SEND_ERR"] \in AllMsgs
      /\ \A p \in Pdu : PduMsg("FRAME_SEND_REQ", p) \in AllMsgs
  BY BaseFacts, Tasks, LineFacts, Posted
<1>2. \A sig : Waits(sig) \in Nat
  BY <1>1, CntNat DEF Waits
<1>3. ASSUME macSend' = macSend, M' = M
      PROVE  /\ macSend' = macSend /\ Holds' = Holds /\ \A sig : Waits(sig)' = Waits(sig)
             /\ ~PhyFails /\ ~PhySucceeds
  <2>1. macSend' = macSend /\ Holds' = Holds /\ \A sig : Waits(sig)' = Waits(sig)
    BY <1>3 DEF Holds, Waits
  <2>2. \A m \in AllMsgs : Append(M, m) # M
    <3>1. \A m \in AllMsgs : Len(Append(M, m)) = Len(M) + 1 /\ Len(M) \in Nat
      BY <1>1, AppendAt
    <3>2. \A k \in Nat : k + 1 # k
      OBVIOUS
    <3>. QED  BY <3>1, <3>2
  <2>. QED  BY <1>1, <1>3, <2>1, <2>2 DEF PhyFails, PhySucceeds, PhyAnswered
<1>4. ASSUME NEW m \in AllMsgs, macSend' = macSend, M' = Append(M, m), m.sig # "FRAME_SEND_START"
      PROVE  /\ macSend' = macSend /\ Holds' = Holds
             /\ \A sig : sig # m.sig => Waits(sig)' = Waits(sig)
             /\ \A sig : sig = m.sig => Waits(sig)' = Waits(sig) + 1
  <2>1. \A sig : Waits(sig)' = Waits(sig) + One(m.sig \in {sig})
    BY <1>1, <1>4, CntAppend DEF Waits
  <2>2. \A sig : sig # m.sig => Waits(sig)' = Waits(sig)
    <3>1. \A sig : sig # m.sig => One(m.sig \in {sig}) = 0
      BY DEF One
    <3>. QED  BY <1>2, <2>1, <3>1
  <2>3. \A sig : sig = m.sig => Waits(sig)' = Waits(sig) + 1
    <3>1. \A sig : sig = m.sig => One(m.sig \in {sig}) = 1
      BY DEF One
    <3>. QED  BY <2>1, <3>1
  <2>4. Holds' = Holds
    BY <1>4, <2>2 DEF Holds, Waits
  <2>. QED  BY <1>4, <2>2, <2>3, <2>4
<1>5. CASE PhyOfA
  <2>1. macSend' = macSend
    BY <1>5 DEF PhyOfA
  <2>2. CASE PhyFails
    <3>1. M' = Append(M, [sig |-> "FRAME_SEND_ERR"])
      BY <2>2 DEF PhyFails, PhyAnswered
    <3>2. ~PhySucceeds
      <4>1. PhySucceeds => M' = Append(M, [sig |-> "FRAME_SEND_DONE"])
        BY DEF PhySucceeds, PhyAnswered
      <4>2. Append(M, [sig |-> "FRAME_SEND_ERR"]) # Append(M, [sig |-> "FRAME_SEND_DONE"])
        <5>1. Append(M, [sig |-> "FRAME_SEND_ERR"])[Len(M) + 1] = [sig |-> "FRAME_SEND_ERR"]
          BY <1>1, AppendAt
        <5>2. Append(M, [sig |-> "FRAME_SEND_DONE"])[Len(M) + 1] = [sig |-> "FRAME_SEND_DONE"]
          BY <1>1, AppendAt
        <5>3. [sig |-> "FRAME_SEND_ERR"] # [sig |-> "FRAME_SEND_DONE"]
          <6>1. [sig |-> "FRAME_SEND_ERR"].sig # [sig |-> "FRAME_SEND_DONE"].sig
            OBVIOUS
          <6>. QED  BY <6>1
        <5>. QED  BY <5>1, <5>2, <5>3
      <4>. QED  BY <3>1, <4>1, <4>2
    <3>3. PICK m \in AllMsgs : m.sig = "FRAME_SEND_ERR" /\ M' = Append(M, m)
      BY <1>1, <3>1
    <3>. QED  BY <1>4, <1>5, <2>1, <2>2, <3>2, <3>3
  <2>3. CASE PhySucceeds /\ ~PhyFails
    <3>1. M' = Append(M, [sig |-> "FRAME_SEND_DONE"])
      BY <2>3 DEF PhySucceeds, PhyAnswered
    <3>3. PICK m \in AllMsgs : m.sig = "FRAME_SEND_DONE" /\ M' = Append(M, m)
      BY <1>1, <3>1
    <3>. QED  BY <1>4, <1>5, <2>1, <2>3, <3>3
  <2>4. CASE ~PhySucceeds /\ ~PhyFails
    <3>1. M' = M
      BY <1>5, <2>4 DEF PhyOfA, PhyBegins, PhyAgain, Transmits, PhyPasses, PhyObjects
    <3>. QED  BY <1>3, <2>1, <2>4, <3>1
  <2>. QED  BY <2>2, <2>3, <2>4
<1>6. CASE LinkOfA
  <2>0. macSend' = macSend /\ ~PhyOfA
    <3>1. LinkOfA => mbox'["LINK_PHY"] = mbox["LINK_PHY"]
      BY DEF LinkOfA
    <3>2. PhyOfA => mbox'["LINK_PHY"] = Tail(mbox["LINK_PHY"]) /\ mbox["LINK_PHY"] # <<>>
      BY DEF PhyOfA
    <3>3. mbox["LINK_PHY"] \in Seq(PhyMsgs)
      BY BaseFacts
    <3>4. mbox["LINK_PHY"] # <<>> => Tail(mbox["LINK_PHY"]) # mbox["LINK_PHY"]
      <4>1. mbox["LINK_PHY"] # <<>> =>
              Len(Tail(mbox["LINK_PHY"])) + 1 = Len(mbox["LINK_PHY"]) /\ Len(mbox["LINK_PHY"]) \in Nat
        BY <3>3, TailAt
      <4>2. \A k \in Nat : k + 1 # k
        OBVIOUS
      <4>. QED  BY <4>1, <4>2
    <3>. QED  BY <1>6, <3>1, <3>2, <3>4 DEF LinkOfA
  <2>1. CASE LinkReleases \/ LinkDies
    BY <1>3, <2>0, <2>1 DEF LinkReleases, LinkDies
  <2>2. ASSUME NEW p \in Pdu, LinkAccepts(p)
        PROVE  /\ macSend' = macSend /\ Holds' = Holds
               /\ Waits("FRAME_SEND_ERR")' = Waits("FRAME_SEND_ERR")
               /\ Waits("FRAME_SEND_DONE")' = Waits("FRAME_SEND_DONE")
    <3>1. PICK m \in AllMsgs : m.sig = "FRAME_SEND_REQ" /\ M' = Append(M, m)
      BY <1>1, <2>2 DEF LinkAccepts, PduMsg
    <3>. QED  BY <1>4, <2>0, <3>1
  <2>. QED  BY <1>6, <2>0, <2>1, <2>2 DEF LinkOfA
<1>7. CASE \/ (\E n \in 1..MaxFrames : Requests(n)) \/ ExpiresA \/ ReachesA \/ ReachesB \/ Ticks
           \/ PhyOfB \/ MacOfB \/ LinkOfB \/ ExpiresB \/ Idles
  <2>0. mbox \in [Task -> Seq(AllMsgs)] /\ "LINK" # "LINK_MAC" /\ "LINK_PHY" # "LINK_MAC"
    BY <1>1 DEF Boxes
  <2>1. macSend' = macSend
    BY <1>7 DEF Requests, ExpiresA, ReachesA, ReachesB, Ticks, PhyOfB, MacOfB, LinkOfB, ExpiresB, Idles, AStays
  <2>2. CASE (\E n \in 1..MaxFrames : Requests(n)) \/ ExpiresA \/ ReachesA
    <3>1. M' = M
      BY <2>0, <2>2, Tasks DEF Requests, ExpiresA, ReachesA
    <3>. QED  BY <1>3, <2>1, <3>1
  <2>3. CASE ReachesB \/ Ticks \/ PhyOfB \/ MacOfB \/ LinkOfB \/ ExpiresB \/ Idles
    <3>1. M' = M
      BY <2>3 DEF ReachesB, Ticks, PhyOfB, MacOfB, LinkOfB, ExpiresB, Idles, AStays
    <3>. QED  BY <1>3, <2>1, <3>1
  <2>. QED  BY <1>7, <2>2, <2>3
<1>. QED  BY <1>5, <1>6, <1>7 DEF PairSteps

-----------------------------------------------------------------------------
(* The sender after a step of its own. *)
SendsOne ==
  /\ \E i \in 1..Len(mbox["LINK_PHY"]) : mbox["LINK_PHY"][i].sig = "FRAME_SEND_REQ"
  /\ \A i \in 1..Len(mbox["LINK_PHY"]) :
       mbox["LINK_PHY"][i].sig = "FRAME_SEND_REQ" => mbox["LINK_PHY"][i].frame = macSend.frame

LEMMA SenderFacts ==
  ASSUME Base, MacOfA
  PROVE  /\ mbox["LINK_MAC"] \in Seq(AllMsgs) /\ mbox["LINK_PHY"] \in Seq(PhyMsgs) /\ mbox["LINK_MAC"] # <<>>
         /\ MacMsg = Head(mbox["LINK_MAC"]) /\ MacMsg \in MacMsgs /\ macSend \in MacSender
         /\ pduFifo \in Seq(Pdu) /\ macSend.state \in {"IDLE", "SENDING"}
         /\ MacMsg.sig \in Starts => MacMsg.pdu \in Pdu /\ pool[MacMsg.pdu] \in 0..MaxFrames
         /\ \A p \in Pdu : PduMsg("FRAME_SEND_START", p) \in AllMsgs
         /\ \A sig : MacMsg.sig = sig => Waits(sig) # 0
<1>1. IInv /\ Safe
  BY BaseFacts
<1>2. pool \in [Pdu -> 0..MaxFrames]
  BY <1>1 DEF IInv, Types, TypeOK
<1>3. MacMsg \in MacMsgs
  BY DEF MacOfA
<1>4. MacMsg.sig \in Starts => MacMsg.pdu \in Pdu
  BY <1>3, MsgFields DEF Starts
<1>5. mbox["LINK_MAC"] \in Seq(AllMsgs) /\ mbox["LINK_MAC"] # <<>> /\ MacMsg = Head(mbox["LINK_MAC"])
  BY BaseFacts, Tasks DEF MacOfA, MacMsg
<1>6. \A sig : MacMsg.sig = sig => Waits(sig) # 0
  BY <1>5, HeadCounts DEF Waits
<1>. QED  BY <1>1, <1>2, <1>3, <1>4, <1>5, <1>6, LineFacts, BaseFacts, MacCounts DEF LineTypes

LEMMA SenderSends ==
  ASSUME Base, MacOfA, NEW s, MacSends(s), s.frame \in Frame,
         \A i \in 1..Len(mbox["LINK_PHY"]) : mbox["LINK_PHY"][i].sig # "FRAME_SEND_REQ"
  PROVE  SendsOne' /\ macSend' = s
<1> DEFINE P == mbox["LINK_PHY"]
           x == [sig |-> "FRAME_SEND_REQ", frame |-> s.frame]
<1>0. P \in Seq(PhyMsgs) /\ \A f \in Frame : [sig |-> "FRAME_SEND_REQ", frame |-> f] \in PhyMsgs
  BY BaseFacts, Posted
<1>1. x \in PhyMsgs /\ x.sig = "FRAME_SEND_REQ" /\ x.frame = macSend'.frame
  BY <1>0 DEF MacSends
<1>2. mbox'["LINK_PHY"] = Append(P, x) /\ macSend' = s
  BY DEF MacSends
<1> HIDE DEF x
<1>3. /\ \A i \in 1..Len(P) : Append(P, x)[i] = P[i]
      /\ Append(P, x)[Len(P) + 1] = x /\ Len(P) + 1 \in 1..Len(Append(P, x))
      /\ \A i \in 1..Len(Append(P, x)) : i \in 1..Len(P) \/ i = Len(P) + 1
  BY <1>0, <1>1, AppendAt
<1>. QED  BY <1>1, <1>2, <1>3 DEF SendsOne

LEMMA SenderFirst ==
  ASSUME Base, MacOfA, MacFirst
  PROVE  /\ SendsOne' /\ macSend'.retry = 0
         /\ macSend'.frame = [seq |-> macSend.seq, fidx |-> 0, fnum |-> pool[MacMsg.pdu]]
<1>1. PICK s : /\ s = [macSend EXCEPT !.retry = 0, !.pdu = MacMsg.pdu, !.seq = @ + 1,
                          !.frame = [seq |-> macSend.seq, fidx |-> 0, fnum |-> pool[MacMsg.pdu]]]
               /\ MacSends(s)
  BY DEF MacFirst
<1>2. s.frame = [seq |-> macSend.seq, fidx |-> 0, fnum |-> pool[MacMsg.pdu]] /\ s.retry = 0
  BY <1>1, SenderFacts DEF MacSender
<1>3. s.frame \in Frame
  <2>1. macSend.seq \in 0 .. MacSeqMod - 1
    BY SenderFacts DEF MacSender
  <2>2. pool[MacMsg.pdu] \in 0..MaxFrames
    BY SenderFacts DEF MacFirst, Starts
  <2>. QED  BY <1>2, <2>1, <2>2 DEF Frame
<1>4. \A i \in 1..Len(mbox["LINK_PHY"]) : mbox["LINK_PHY"][i].sig # "FRAME_SEND_REQ"
  BY OnlyOne DEF MacFirst
<1>. QED  BY <1>1, <1>2, <1>3, <1>4, SenderSends

LEMMA SenderGoesOn ==
  ASSUME Base, MacOfA, MacGoesOn
  PROVE  /\ SendsOne' /\ Holds /\ Waits("FRAME_SEND_DONE") # 0 /\ macSend.frame.fidx + 1 < macSend.frame.fnum
         /\ macSend'.frame = [macSend.frame EXCEPT !.fidx = @ + 1] /\ macSend'.retry = macSend.retry
<1>1. PICK s : s = [macSend EXCEPT !.frame.fidx = @ + 1] /\ MacSends(s)
  BY DEF MacGoesOn
<1>2. s.frame = [macSend.frame EXCEPT !.fidx = @ + 1] /\ s.retry = macSend.retry
  BY <1>1, SenderFacts DEF MacSender
<1>3. s.frame \in Frame
  <2>1. macSend.frame \in Frame
    BY SenderFacts DEF MacSender
  <2>. QED  BY <1>2, <2>1 DEF Frame
<1>4. Holds /\ Waits("FRAME_SEND_DONE") # 0 /\ macSend.frame.fidx + 1 < macSend.frame.fnum
  BY SenderFacts DEF MacGoesOn
<1>5. \A i \in 1..Len(mbox["LINK_PHY"]) : mbox["LINK_PHY"][i].sig # "FRAME_SEND_REQ"
  BY <1>4, OnlyOne
<1>. QED  BY <1>1, <1>2, <1>3, <1>4, <1>5, SenderSends

LEMMA SenderRepeats ==
  ASSUME Base, MacOfA, MacRepeats
  PROVE  /\ SendsOne' /\ Holds /\ Waits("FRAME_SEND_ERR") # 0 /\ macSend.retry = 0
         /\ macSend'.frame = [macSend.frame EXCEPT !.fidx = 0] /\ macSend'.retry = 1
<1>1. PICK s : s = [macSend EXCEPT !.retry = 1, !.frame.fidx = 0] /\ MacSends(s)
  BY DEF MacRepeats
<1>2. s.frame = [macSend.frame EXCEPT !.fidx = 0] /\ s.retry = 1
  BY <1>1, SenderFacts DEF MacSender
<1>3. s.frame \in Frame
  <2>1. macSend.frame \in Frame
    BY SenderFacts DEF MacSender
  <2>. QED  BY <1>2, <2>1 DEF Frame
<1>4. Holds /\ Waits("FRAME_SEND_ERR") # 0 /\ macSend.retry = 0
  BY SenderFacts DEF MacRepeats
<1>5. \A i \in 1..Len(mbox["LINK_PHY"]) : mbox["LINK_PHY"][i].sig # "FRAME_SEND_REQ"
  BY <1>4, OnlyOne
<1>. QED  BY <1>1, <1>2, <1>3, <1>4, <1>5, SenderSends

LEMMA SenderDefers ==
  ASSUME Base, MacOfA, MacDefers
  PROVE  /\ macSend' = macSend /\ Holds' = Holds /\ mbox'["LINK_PHY"] = mbox["LINK_PHY"]
         /\ Waits("FRAME_SEND_DONE")' = Waits("FRAME_SEND_DONE")
         /\ Waits("FRAME_SEND_ERR")' = Waits("FRAME_SEND_ERR")
<1> DEFINE M == mbox["LINK_MAC"]
<1>1. M \in Seq(AllMsgs) /\ M # <<>> /\ Head(M).sig = "FRAME_SEND_REQ" /\ M' = Tail(M) /\ macSend' = macSend
  BY SenderFacts DEF MacDefers
<1>2. \A sig : Waits(sig) \in Nat
  BY <1>1, CntNat DEF Waits
<1>3. \A sig : Waits(sig)' = Waits(sig) - One(Head(M).sig \in {sig})
  BY <1>1, CntTail DEF Waits
<1>4. \A sig : sig # "FRAME_SEND_REQ" => Waits(sig)' = Waits(sig)
  <2>1. \A sig : sig # "FRAME_SEND_REQ" => One(Head(M).sig \in {sig}) = 0
    BY <1>1 DEF One
  <2>2. \A n \in Nat : n - 0 = n
    OBVIOUS
  <2>. QED  BY <1>2, <1>3, <2>1, <2>2
<1>. QED  BY <1>1, <1>4 DEF MacDefers, Holds, Waits

LEMMA SenderRests ==
  ASSUME Base, MacOfA, MacOrders \/ MacSucceeds \/ MacAbandons
  PROVE  /\ ~Holds' /\ macSend'.frame.seq = macSend.frame.seq /\ mbox'["LINK_PHY"] = mbox["LINK_PHY"]
         /\ MacOrders => ~Holds
         /\ MacSucceeds => Holds /\ Waits("FRAME_SEND_DONE") # 0
         /\ MacAbandons => Holds /\ Waits("FRAME_SEND_ERR") # 0
<1> DEFINE M == mbox["LINK_MAC"]
<1>0. M \in Seq(AllMsgs) /\ M # <<>> /\ MacMsg = Head(M) /\ pduFifo \in Seq(Pdu)
  BY SenderFacts
<1>a. Tail(M) \in Seq(AllMsgs)
  BY <1>0, TailAt
<1>1. ASSUME NEW p \in Pdu, M' = Append(Tail(M), PduMsg("FRAME_SEND_START", p))
      PROVE  ~Holds'
  <2>1. PICK m \in AllMsgs : m.sig = "FRAME_SEND_START" /\ M' = Append(Tail(M), m)
    BY <1>1, SenderFacts DEF PduMsg
  <2>2. Len(Tail(M)) + 1 \in 1..Len(M') /\ M'[Len(Tail(M)) + 1].sig = "FRAME_SEND_START"
    BY <1>a, <2>1, AppendAt
  <2>3. Append(Tail(M), m) \in Seq(AllMsgs)
    BY <1>a, <2>1
  <2>4. Cnt(Append(Tail(M), m), {"FRAME_SEND_START"}) # 0
    BY <2>1, <2>2, <2>3, CntZero
  <2>. QED  BY <2>1, <2>4 DEF Holds
<1>2. CASE MacOrders
  <2>1. MacMsg.pdu \in Pdu
    BY <1>2, SenderFacts DEF MacOrders, Starts
  <2>2. macSend'.frame.seq = macSend.frame.seq
    BY <1>2, SenderFacts DEF MacOrders, MacSender
  <2>3. ~Holds' /\ ~Holds
    BY <1>0, <1>1, <1>2, <2>1 DEF MacOrders, Holds
  <2>4. ~MacSucceeds /\ ~MacAbandons
    BY <1>2 DEF MacOrders, MacSucceeds, MacAbandons
  <2>. QED  BY <1>2, <2>2, <2>3, <2>4 DEF MacOrders
<1>3. ASSUME NEW report, MacIsDone(report)
      PROVE  ~Holds' /\ Holds /\ macSend'.frame.seq = macSend.frame.seq /\ mbox'["LINK_PHY"] = mbox["LINK_PHY"]
  <2>1. CASE pduFifo # <<>>
    <3>1. Head(pduFifo) \in Pdu
      BY <1>0, <2>1
    <3>2. M' = Append(Tail(M), PduMsg("FRAME_SEND_START", Head(pduFifo)))
      BY <1>3, <2>1 DEF MacIsDone
    <3>. QED  BY <1>1, <1>3, <3>1, <3>2 DEF MacIsDone
  <2>2. CASE pduFifo = <<>>
    BY <1>3, <2>2 DEF MacIsDone, Holds
  <2>. QED  BY <2>1, <2>2
<1>4. CASE MacSucceeds
  BY <1>3, <1>4, SenderFacts DEF MacSucceeds, MacOrders, MacAbandons
<1>5. CASE MacAbandons
  BY <1>3, <1>5, SenderFacts DEF MacSucceeds, MacOrders, MacAbandons
<1>. QED  BY <1>2, <1>4, <1>5

LEMMA SameKept ==
  ASSUME Base, Base', PairSteps, Same
  PROVE  Same'
<1> DEFINE P == mbox["LINK_PHY"]
<1>0. P \in Seq(PhyMsgs) /\ Alone' /\ Boxes
  BY BaseFacts, AloneNext
<1>1. ASSUME ~Holds' PROVE Same'
  BY <1>0, <1>1 DEF Alone, Same
<1>2. ASSUME SendsOne' PROVE Same'
  BY <1>0, <1>2 DEF Alone, Same, SendsOne
<1>3. CASE MacOfA
  <2>1. CASE MacFirst \/ MacGoesOn \/ MacRepeats
    BY <1>2, <1>3, <2>1, SenderFirst, SenderGoesOn, SenderRepeats
  <2>2. CASE MacOrders \/ MacSucceeds \/ MacAbandons
    BY <1>1, <1>3, <2>2, SenderRests
  <2>3. CASE MacDefers
    <3>1. macSend' = macSend /\ P' = P /\ phy' = phy
      BY <1>3, <2>3, SenderDefers DEF MacOfA
    <3>. QED  BY <3>1 DEF Same, Sending
  <2>. QED  BY <1>3, <2>1, <2>2, <2>3 DEF MacOfA
<1>4. CASE PhyOfA
  <2>1. P # <<>> /\ P' = Tail(P) /\ macSend' = macSend
    BY <1>4 DEF PhyOfA
  <2>2. ASSUME NEW i \in 1..Len(P'), P'[i].sig = "FRAME_SEND_REQ"
        PROVE  P'[i].frame = macSend.frame
    <3>1. i + 1 \in 1..Len(P) /\ P'[i] = P[i + 1]
      BY <1>0, <2>1, <2>2, TailAt
    <3>. QED  BY <2>2, <3>1 DEF Same
  <2>3. Sending' => phy'.frame = macSend.frame
    <3>1. CASE PhyBegins
      <4>1. PhyMsg.sig = "FRAME_SEND_REQ" /\ phy'.frame = PhyMsg.frame
        BY <3>1 DEF PhyBegins
      <4>2. PhyMsg = P[1] /\ 1 \in 1..Len(P)
        BY <1>0, <2>1, TailAt DEF PhyMsg
      <4>. QED  BY <4>1, <4>2 DEF Same
    <3>2. CASE PhyAgain
      <4>1. Sending
        BY <1>4, <3>2, PhyClock
      <4>2. phy'.frame = phy.frame
        <5>1. phy \in PhyState
          BY BaseFacts
        <5>. QED  BY <3>2, <5>1 DEF PhyAgain, PhyState
      <4>. QED  BY <4>1, <4>2 DEF Same
    <3>3. CASE PhyFails \/ PhySucceeds
      BY <1>4, <3>3, PhyClock
    <3>4. CASE PhyPasses \/ PhyObjects
      <4>1. phy' = phy
        BY <3>4 DEF PhyPasses, PhyObjects
      <4>. QED  BY <4>1 DEF Same, Sending
    <3>. QED  BY <1>4, <3>1, <3>2, <3>3, <3>4 DEF PhyOfA
  <2>. QED  BY <2>1, <2>2, <2>3 DEF Same
<1>5. ASSUME macSend' = macSend, phy' = phy, NEW m \in PhyMsgs, m.sig # "FRAME_SEND_REQ", P' = Append(P, m)
      PROVE  Same'
  <2>1. ASSUME NEW i \in 1..Len(P'), P'[i].sig = "FRAME_SEND_REQ"
        PROVE  P'[i].frame = macSend.frame
    <3>1. (i \in 1..Len(P) /\ P'[i] = P[i]) \/ P'[i] = m
      BY <1>0, <1>5, <2>1, AppendAt
    <3>. QED  BY <1>5, <2>1, <3>1 DEF Same
  <2>. QED  BY <1>5, <2>1 DEF Same, Sending
<1>6. ASSUME macSend' = macSend, phy' = phy, P' = P
      PROVE  Same'
  BY <1>6 DEF Same, Sending
<1>7. CASE ReachesA
  <2>1. macSend' = macSend /\ phy' = phy
    BY <1>7 DEF ReachesA
  <2>2. ASSUME NEW m \in PhyMsgs, ComesToA(m) PROVE Same'
    <3>1. P' = Append(P, m) /\ m.sig # "FRAME_SEND_REQ"
      BY <2>2 DEF ComesToA
    <3>. QED  BY <1>5, <2>1, <3>1
  <2>. QED  BY <1>6, <1>7, <2>1, <2>2, ReachedACounts
<1>8. CASE ExpiresA
  <2>1. PICK m \in PhyMsgs : m = [sig |-> "FRAME_SEND_TO"]
    BY Posted
  <2>2. P' = Append(P, m) /\ m.sig # "FRAME_SEND_REQ"
    BY <1>0, <1>8, <2>1, Tasks DEF ExpiresA, Boxes
  <2>. QED  BY <1>5, <1>8, <2>2 DEF ExpiresA
<1>9. CASE \E n \in 1..MaxFrames : Requests(n)
  <2>1. P' = P
    BY <1>0, <1>9, Tasks DEF Requests, Boxes
  <2>. QED  BY <1>6, <1>9, <2>1 DEF Requests
<1>10. CASE LinkOfA \/ ReachesB \/ Ticks \/ PhyOfB \/ MacOfB \/ LinkOfB \/ ExpiresB \/ Idles
  BY <1>6, <1>10 DEF LinkOfA, ReachesB, Ticks, PhyOfB, MacOfB, LinkOfB, ExpiresB, Idles, AStays
<1>. QED  BY <1>3, <1>4, <1>7, <1>8, <1>9, <1>10 DEF PairSteps

LEMMA FrontKept ==
  ASSUME NEW G, NEW H, Moves(G, H), Base'
  PROVE  Holds' => Ready(H, macSend.frame)'
<1>0. /\ Base /\ PairSteps /\ G \in Nat /\ H \in Nat /\ Truth(G) /\ LineUp /\ macSend.frame.seq \in Nat
      /\ Holds => Ready(G, macSend.frame)
  BY SoundFacts DEF InOrderly
<1>1. BoxTaken /\ HeardMsg.sig = "FRAME_REV" => HeardMsg.frame.seq <= macSend.frame.seq
  BY <1>0, EarFacts DEF BoxTaken
<1>2. macSend.frame.fidx \in Nat /\ macSend.frame \in Frame
  <2>1. macSend \in MacSender
    BY <1>0, LineFacts
  <2>. QED  BY <2>1 DEF MacSender, Frame
<1>3. ASSUME NEW g, g = macSend'.frame, Ready(H, g)'
      PROVE  Ready(H, macSend.frame)'
  BY <1>3 DEF Ready, Genuine, Reached, Met, Seen, Has
<1>4. ASSUME NEW g, g = macSend'.frame, g.seq \in Nat, Genuine(g), g.fidx = 0
      PROVE  Ready(H, macSend.frame)'
  <2>1. Genuine(g)'
    BY <1>0, <1>4, GenuineKept
  <2>2. ~(g.fidx > 0)
    BY <1>4
  <2>3. Ready(H, g)'
    BY <2>1, <2>2 DEF Ready
  <2>. QED  BY <1>3, <1>4, <2>3
<1>5. CASE Holds' = Holds /\ macSend' = macSend
  <2>1. ASSUME NEW f, f = macSend.frame, Holds PROVE Ready(H, f)'
    <3>1. Ready(G, f) /\ f.seq \in Nat /\ f.seq <= macSend.frame.seq
      BY <1>0, <2>1
    <3>. QED  BY <1>1, <2>1, <3>1, ReadyKept
  <2>2. ASSUME Holds' PROVE Ready(H, macSend.frame)'
    BY <1>3, <1>5, <2>1, <2>2
  <2>. QED  BY <2>2
<1>6. ASSUME MacOfA, MacFirst PROVE Ready(H, macSend.frame)'
  <2>1. PICK g : g = [seq |-> macSend.seq, fidx |-> 0, fnum |-> pool[MacMsg.pdu]] /\ g = macSend'.frame
    BY <1>0, <1>6, SenderFirst
  <2>2. PICK n : n = macSend.seq /\ n \in Nat /\ n + 1 \in 1..Len(size) /\ pool[MacMsg.pdu] = size[n + 1]
    <3> DEFINE mac == mbox["LINK_MAC"]
    <3>1. /\ LineTypes(mac, mbox["LINK"], pduFifo, pool, size, macSend.seq)
          /\ Lined(mac, mbox["LINK"], pduFifo, pool, size, macSend.seq) /\ macSend.seq \in Nat
      BY <1>0, LineFacts, LineSums DEF LineUp
    <3>2. mac # <<>> /\ mac \in Seq(AllMsgs) /\ MacMsg = Head(mac) /\ Head(mac).sig = "FRAME_SEND_START"
      BY <1>0, <1>6, SenderFacts DEF MacFirst
    <3>3. Cnt(mac, {"FRAME_SEND_START"}) # 0 /\ Cnt(mac, {"FRAME_SEND_START"}) \in Nat
      BY <3>2, HeadCounts, CntNat
    <3>4. Cnt(mac, {"FRAME_SEND_START"}) <= 1
      BY <1>0, BaseFacts DEF Safe, Starting
    <3>5. Cnt(mac, {"FRAME_SEND_START"}) = 1
      BY <3>3, <3>4
    <3>. QED  BY <3>1, <3>2, <3>5, LineStarts
  <2>3. n < Len(size) /\ size[n + 1] \in Nat /\ 1 <= size[n + 1]
    <3>1. Len(size) \in Nat
      BY <1>0, SizeAt
    <3>2. n < Len(size)
      BY <2>2, <3>1
    <3>. QED  BY <1>0, <2>2, <3>2, SizeAt
  <2>4. g.seq = n /\ g.fidx = 0 /\ g.fnum = size[n + 1]
    BY <2>1, <2>2
  <2>5. Genuine(g)
    BY <2>3, <2>4 DEF Genuine
  <2>. QED  BY <1>4, <2>1, <2>2, <2>4, <2>5
<1>7. ASSUME MacOfA, MacRepeats PROVE Ready(H, macSend.frame)'
  <2>1. PICK g : g = [macSend.frame EXCEPT !.fidx = 0] /\ g = macSend'.frame
    BY <1>0, <1>7, SenderRepeats
  <2>2. g.seq = macSend.frame.seq /\ g.fidx = 0 /\ g.fnum = macSend.frame.fnum
    BY <1>2, <2>1 DEF Frame
  <2>3. Genuine(macSend.frame)
    BY <1>0, <1>7, SenderRepeats DEF Ready
  <2>4. Genuine(g)
    <3>1. macSend.frame.fidx < macSend.frame.fnum /\ macSend.frame.fnum \in Nat
      <4>1. size[macSend.frame.seq + 1] \in Nat
        BY <1>0, <2>3, SizeAt DEF Genuine
      <4>. QED  BY <2>3, <4>1 DEF Genuine
    <3>2. 0 < macSend.frame.fnum
      BY <1>2, <3>1
    <3>. QED  BY <2>2, <2>3, <3>2 DEF Genuine
  <2>. QED  BY <1>0, <1>4, <2>1, <2>2, <2>4
<1>8. ASSUME MacOfA, MacGoesOn PROVE Ready(H, macSend.frame)'
  <2>1. PICK g : g = [macSend.frame EXCEPT !.fidx = @ + 1] /\ g = macSend'.frame
    BY <1>0, <1>8, SenderGoesOn
  <2>2. PICK s, j : s = macSend.frame.seq /\ j = macSend.frame.fidx /\ s \in Nat /\ j \in Nat
    BY <1>0, <1>2
  <2>3. g.seq = s /\ g.fidx = j + 1 /\ g.fnum = macSend.frame.fnum
    BY <1>2, <2>1, <2>2 DEF Frame
  <2>4. Holds /\ Waits("FRAME_SEND_DONE") # 0 /\ j + 1 < macSend.frame.fnum
    BY <1>0, <1>8, <2>2, SenderGoesOn
  <2>5. Reached(G, s, j)
    BY <1>0, <2>2, <2>4 DEF Truth
  <2>6. Reached(H, s, j)'
    <3>1. s <= macSend.frame.seq
      BY <2>2
    <3>. QED  BY <1>1, <2>2, <2>5, <3>1, ReachedKept
  <2>7. Genuine(g)
    BY <1>0, <2>2, <2>3, <2>4 DEF Ready, Genuine
  <2>8. Genuine(g)'
    BY <1>0, <2>2, <2>3, <2>7, GenuineKept
  <2>9. g.fidx - 1 = j
    BY <2>2, <2>3
  <2>10. Reached(H, g.seq, g.fidx - 1)'
    <3>1. \A q, k : q = s /\ k = j => Reached(H, q, k)'
      BY <2>6
    <3>. QED  BY <2>3, <2>9, <3>1
  <2>. QED  BY <1>3, <2>1, <2>8, <2>10 DEF Ready
<1>9. CASE MacOfA
  <2>1. CASE MacOrders \/ MacSucceeds \/ MacAbandons
    BY <1>0, <1>9, <2>1, SenderRests
  <2>2. CASE MacDefers
    BY <1>0, <1>5, <1>9, <2>2, SenderDefers
  <2>. QED  BY <1>6, <1>7, <1>8, <1>9, <2>1, <2>2 DEF MacOfA
<1>. QED  BY <1>0, <1>5, <1>9, SenderStays

LEMMA TriedKept ==
  ASSUME NEW G, NEW H, Moves(G, H), Base', PhyOfA /\ PhyFails => H = G + 1
  PROVE  Tried(H)'
<1>0. /\ Base /\ PairSteps /\ G \in Nat /\ H \in Nat /\ G <= H
      /\ Holds => macSend.retry + Waits("FRAME_SEND_ERR") <= G
      /\ Alone' /\ Waits("FRAME_SEND_ERR") \in Nat
  BY SoundFacts, AloneNext, OnlyOne DEF Tried
<1>1. macSend.retry \in Nat
  <2>1. macSend \in MacSender
    BY <1>0, LineFacts
  <2>2. \A c \in Counter : c \in Nat
    BY DEF Counter
  <2>. QED  BY <2>1, <2>2 DEF MacSender
<1>2. ASSUME NEW r \in Nat, NEW w \in Nat, r = macSend'.retry, w = Waits("FRAME_SEND_ERR")', r + w <= H
      PROVE  Tried(H)'
  BY <1>2 DEF Tried
<1>3. ASSUME ~Holds' PROVE Tried(H)'
  BY <1>3 DEF Tried
<1>4. ASSUME SendsOne' PROVE Waits("FRAME_SEND_ERR")' = 0
  BY <1>0, <1>4 DEF Alone, SendsOne
<1>5. PICK r, w \in Nat : r = macSend.retry /\ w = Waits("FRAME_SEND_ERR") /\ (Holds => r + w <= G)
  BY <1>0, <1>1
<1>6. CASE MacOfA
  <2>1. CASE MacFirst
    BY <1>0, <1>2, <1>4, <1>6, <2>1, SenderFirst
  <2>2. CASE MacGoesOn
    <3>1. macSend'.retry = r /\ Waits("FRAME_SEND_ERR")' = 0 /\ Holds
      BY <1>0, <1>4, <1>5, <1>6, <2>2, SenderGoesOn
    <3>2. r + 0 <= H
      BY <1>0, <1>5, <3>1
    <3>. QED  BY <1>2, <3>1, <3>2
  <2>3. CASE MacRepeats
    <3>1. macSend'.retry = 1 /\ Waits("FRAME_SEND_ERR")' = 0 /\ Holds /\ w # 0
      BY <1>0, <1>4, <1>5, <1>6, <2>3, SenderRepeats
    <3>2. 1 + 0 <= H
      BY <1>0, <1>5, <3>1
    <3>. QED  BY <1>2, <3>1, <3>2
  <2>4. CASE MacOrders \/ MacSucceeds \/ MacAbandons
    BY <1>0, <1>3, <1>6, <2>4, SenderRests
  <2>5. CASE MacDefers
    <3>1. macSend'.retry = r /\ Waits("FRAME_SEND_ERR")' = w /\ Holds' = Holds
      BY <1>0, <1>5, <1>6, <2>5, SenderDefers
    <3>2. Holds => r + w <= H
      BY <1>0, <1>5
    <3>. QED  BY <1>2, <1>3, <3>1, <3>2
  <2>. QED  BY <1>6, <2>1, <2>2, <2>3, <2>4, <2>5 DEF MacOfA
<1>7. CASE ~MacOfA
  <2>1. macSend'.retry = r /\ Holds' = Holds
    BY <1>0, <1>5, <1>7, SenderStays
  <2>2. CASE PhyOfA /\ PhyFails
    <3>1. Waits("FRAME_SEND_ERR")' = w + 1 /\ H = G + 1
      BY <1>0, <1>5, <1>7, <2>2, SenderStays
    <3>2. Holds => r + (w + 1) <= H
      BY <1>0, <1>5, <3>1
    <3>. QED  BY <1>2, <1>3, <2>1, <3>1, <3>2
  <2>3. CASE ~(PhyOfA /\ PhyFails)
    <3>1. Waits("FRAME_SEND_ERR")' = w
      BY <1>0, <1>5, <1>7, <2>3, SenderStays
    <3>2. Holds => r + w <= H
      BY <1>0, <1>5
    <3>. QED  BY <1>2, <1>3, <2>1, <3>1, <3>2
  <2>. QED  BY <2>2, <2>3
<1>. QED  BY <1>6, <1>7

-----------------------------------------------------------------------------
(* An answer that says yes to the frame that is being sent. *)
Granting ==
  \/ \E i \in 1..Len(lineB) : lineB[i] \in CurrentOf("ACK")
  \/ \E i \in 1..Len(mbox["LINK_PHY"]) : mbox["LINK_PHY"][i] \in Current(Grants)

LEMMA AckedIs == Base => (Acked <=> Granting)
<1> SUFFICES ASSUME Base PROVE Acked <=> Granting
  OBVIOUS
<1>1. lineB \in Seq(PhyFrame) /\ mbox["LINK_PHY"] \in Seq(PhyMsgs)
  BY BaseFacts
<1>2. PICK n, m \in Nat : n = Occ(lineB, CurrentOf("ACK")) /\ m = Occ(mbox["LINK_PHY"], Current(Grants))
  BY LedgerNat
<1>3. n = 0 <=> ~\E i \in 1..Len(lineB) : lineB[i] \in CurrentOf("ACK")
  BY <1>1, <1>2, OccZero
<1>4. m = 0 <=> ~\E i \in 1..Len(mbox["LINK_PHY"]) : mbox["LINK_PHY"][i] \in Current(Grants)
  BY <1>1, <1>2, OccZero
<1>5. n + m = 0 <=> n = 0 /\ m = 0
  BY <1>2
<1>6. Acked <=> n + m # 0
  BY <1>2 DEF Acked
<1>. QED  BY <1>3, <1>4, <1>5, <1>6 DEF Granting

LEMMA AckedNext == Base' => (Acked <=> Granting)'
<1>1. Base => (Acked <=> Granting)
  BY AckedIs
<1>. QED  BY <1>1, PTL

LEMMA BeginsUnacked ==
  ASSUME NEW G, NEW H, Moves(G, H), Base', PhyOfA, PhyBegins
  PROVE  ~Acked'
<1> DEFINE L == lineB
           P == mbox["LINK_PHY"]
<1>1. /\ Fits /\ Base /\ Room /\ faults <= Enough /\ PairSteps /\ G \in Nat /\ Account(G)
      /\ P \in Seq(PhyMsgs)
  BY SoundFacts, BaseFacts
<1>2. ~Sending /\ phy'.seq = (phy.seq + 1) % PhySeqMod
  BY <1>1, PhyClock DEF PhyBegins
<1>3. Unused(phy'.seq)
  <2>1. PICK a1, a2, a3 \in Nat : Window(a1, a2, a3, G + One(Sending)) /\ Paid(G)
    BY <1>1 DEF Account, Windowed
  <2>. QED  BY <1>1, <1>2, <2>1, NextUnused
<1>4. L' = L /\ P # <<>> /\ P' = Tail(P)
  BY DEF PhyOfA, BStays, boardB
<1>5. \A i \in 1..Len(P') : \E k \in 1..Len(P) : P[k] = P'[i]
  BY <1>1, <1>4, TailAt
<1>6. \A i \in 1..Len(L') : L'[i] \notin CurrentOf("ACK")'
  BY <1>3, <1>4 DEF Unused, CurrentOf
<1>7. \A i \in 1..Len(P') : P'[i] \notin Current(Grants)'
  BY <1>3, <1>5 DEF Unused, Current
<1>. QED  BY <1>6, <1>7, AckedNext DEF Granting

LEMMA AckedKept ==
  ASSUME NEW G, NEW H, Moves(G, H), Base', Acked', ~(PhyOfA /\ PhyBegins)
  PROVE  Acked \/ (PhyOfB /\ WireMsg \in Current(Asks))
<1> DEFINE L == lineB
           P == mbox["LINK_PHY"]
<1>0. /\ Fits /\ Base /\ Room /\ faults <= Enough /\ PairSteps /\ G \in Nat /\ Account(G)
  BY SoundFacts
<1>a. L \in Seq(PhyFrame) /\ P \in Seq(PhyMsgs) /\ phy \in PhyState
  BY <1>0, BaseFacts
<1>b. Granting' /\ (Granting => Acked)
  BY <1>0, AckedIs, AckedNext
<1>c. phy'.seq = phy.seq => Current(Grants)' = Current(Grants) /\ CurrentOf("ACK")' = CurrentOf("ACK")
  BY SameCurrent
<1>1. ASSUME phy'.seq = phy.seq,
             \A i \in 1..Len(L') : L'[i] \in CurrentOf("ACK") => \E k \in 1..Len(L) : L[k] = L'[i],
             \A i \in 1..Len(P') : P'[i] \in Current(Grants) =>
               (\E k \in 1..Len(P) : P[k] = P'[i]) \/ (\E k \in 1..Len(L) : L[k] \in CurrentOf("ACK"))
      PROVE  Acked
  <2>1. CASE \E i \in 1..Len(L') : L'[i] \in CurrentOf("ACK")
    BY <1>1, <1>b, <2>1 DEF Granting
  <2>2. CASE \E i \in 1..Len(P') : P'[i] \in Current(Grants)
    BY <1>1, <1>b, <2>2 DEF Granting
  <2>3. Granting' => (\E i \in 1..Len(L') : L'[i] \in CurrentOf("ACK")')
                     \/ (\E i \in 1..Len(P') : P'[i] \in Current(Grants)')
    BY DEF Granting
  <2>. QED  BY <1>1, <1>b, <1>c, <2>1, <2>2, <2>3
<1>2. CASE PhyOfA
  <2>1. L' = L /\ P # <<>> /\ P' = Tail(P)
    BY <1>2 DEF PhyOfA, BStays, boardB
  <2>2. \A i \in 1..Len(P') : \E k \in 1..Len(P) : P[k] = P'[i]
    BY <1>a, <2>1, TailAt
  <2>0. ~PhyBegins
    BY <1>2
  <2>3. phy'.seq = phy.seq
    BY <1>a, <1>2, <2>0 DEF PhyOfA, PhyAgain, PhyFails, PhySucceeds, PhyPasses, PhyObjects, PhyAnswered, PhyState
  <2>. QED  BY <1>1, <2>1, <2>2, <2>3
<1>3. CASE PhyOfB
  <2>1. P' = P /\ phy' = phy
    BY <1>3 DEF PhyOfB, AStays
  <2>2. WireMsg \in WireMsgs /\ WireMsg.frame \in PhyFrame /\ WireMsg.frame.seq \in 0 .. PhySeqMod - 1
    BY <1>0, <1>3, BPhyHeads DEF PhyOfB
  <2>3. ASSUME NEW t \in {"ACK", "NACK"}, lineB' = B!Written(Answer(t, WireMsg.frame.seq)),
               t = "ACK" => WireMsg \in Asks
        PROVE  Acked \/ WireMsg \in Current(Asks)
    <3> DEFINE x == Answer(t, WireMsg.frame.seq)
    <3>1. L' = Append(L, x) /\ x \in PhyFrame /\ x.type = t /\ x.seq = WireMsg.frame.seq
      BY <1>0, <1>3, <2>2, <2>3, BLineRoom, AnswersTyped
    <3> HIDE DEF x
    <3>2. CASE x \in CurrentOf("ACK")
      BY <2>3, <3>1, <3>2 DEF CurrentOf, OfType, Current
    <3>3. CASE x \notin CurrentOf("ACK")
      <4>1. \A i \in 1..Len(L') : L'[i] \in CurrentOf("ACK") => \E k \in 1..Len(L) : L[k] = L'[i]
        BY <1>a, <3>1, <3>3, AppendAt
      <4>. QED  BY <1>1, <2>1, <4>1
    <3>. QED  BY <3>2, <3>3
  <2>4. CASE lineB' = lineB
    BY <1>1, <1>3, <2>1, <2>4 DEF PhyOfB
  <2>. QED  BY <1>3, <2>3, <2>4 DEF PhyOfB
<1>4. CASE ReachesA
  <2>1. phy' = phy /\ Len(L) # 0 /\ L # <<>> /\ L' = Tail(L)
    BY <1>4, <1>a DEF ReachesA
  <2>2. /\ \A i \in 1..Len(L') : \E k \in 1..Len(L) : L[k] = L'[i]
        /\ Head(L) = L[1] /\ 1 \in 1..Len(L)
    BY <1>a, <2>1, TailAt
  <2>3. CASE mbox' = mbox
    BY <1>1, <2>1, <2>2, <2>3
  <2>4. ASSUME NEW m \in PhyMsgs, ComesToA(m) PROVE Acked
    <3>1. P' = Append(P, m) /\ m \in WireMsgs /\ m.frame = Head(L)
      BY <2>4 DEF ComesToA
    <3>2. m \in Current(Grants) => L[1] \in CurrentOf("ACK")
      <4>1. m \in Grants => m.frame.type = "ACK"
        BY DEF Grants
      <4>2. L[1] \in PhyFrame
        BY <1>a, <2>2
      <4>. QED  BY <2>2, <3>1, <4>1, <4>2 DEF Current, CurrentOf, OfType
    <3>3. \A i \in 1..Len(P') : P'[i] \in Current(Grants) =>
            (\E k \in 1..Len(P) : P[k] = P'[i]) \/ (\E k \in 1..Len(L) : L[k] \in CurrentOf("ACK"))
      BY <1>a, <2>2, <3>1, <3>2, AppendAt
    <3>. QED  BY <1>1, <2>1, <2>2, <3>3
  <2>. QED  BY <1>0, <1>4, <2>3, <2>4, ReachedACounts
<1>5. CASE LedgerStays
  <2>1. lineB' = lineB /\ phy' = phy
    BY <1>5 DEF LedgerStays
  <2>2. CASE P' = P
    BY <1>1, <2>1, <2>2
  <2>3. ASSUME NEW m, m \notin WireMsgs, P' = Append(P, m) PROVE Acked
    <3>1. \A i \in 1..Len(P') : (i \in 1..Len(P) /\ P'[i] = P[i]) \/ P'[i] = m
      BY <1>a, <2>3
    <3>2. m \notin Current(Grants)
      BY <2>3, WireKinds DEF Current
    <3>3. \A i \in 1..Len(P') : P'[i] \in Current(Grants) => \E k \in 1..Len(P) : P[k] = P'[i]
      BY <3>1, <3>2
    <3>. QED  BY <1>1, <2>1, <3>3
  <2>. QED  BY <1>5, <2>2, <2>3 DEF LedgerStays
<1>6. CASE Ticks \/ ReachesB
  <2>1. lineB' = lineB /\ phy' = phy /\ P' = P
    BY <1>6 DEF Ticks, ReachesB
  <2>. QED  BY <1>1, <2>1
<1>. QED  BY <1>0, <1>2, <1>3, <1>4, <1>5, <1>6, LedgerSteps

LEMMA InOrderlyKept ==
  ASSUME NEW G, NEW H, Moves(G, H), Base'
  PROVE  InOrderly(H)'
<1>0. /\ Fits /\ Base /\ Room /\ faults <= Enough /\ Same /\ PairSteps
      /\ macSend.frame.seq \in Nat /\ InOrderly(G)
      /\ \A f \in Outbound : f \in AnyFrame /\ f.seq \in Nat /\ f.seq <= macSend.frame.seq
  BY SoundFacts
<1>1. Holds' => Ready(H, macSend.frame)'
  BY FrontKept
<1>2. ASSUME NEW f, f \in Outbound' PROVE Ready(H, f)'
  <2>1. f \in Outbound \/ (Holds /\ f = macSend.frame)
    BY <1>0, <1>2, OutboundSteps DEF Emitted
  <2>2. f.seq \in Nat /\ f.seq <= macSend.frame.seq /\ Ready(G, f)
    BY <1>0, <2>1 DEF InOrderly
  <2>3. ASSUME BoxTaken, HeardMsg.sig = "FRAME_REV" PROVE HeardMsg.frame.seq <= f.seq
    BY <1>0, <2>1, <2>3, EarFacts DEF BoxTaken
  <2>. QED  BY <2>2, <2>3, ReadyKept
<1>3. ASSUME NEW i, i \in Ears'
      PROVE  Genuine(HeardAt(i))' /\ (HeardAt(i)'.fidx > 0 => Follows(H, i)')
  <2>1. PICK f : f = HeardAt(i)'
    OBVIOUS
  <2>2. f \in AnyFrame /\ Genuine(f) /\ (f.fidx > 0 => Follows(H, i)')
    BY <1>3, <2>1, HeardKept
  <2>3. f.seq \in Nat
    BY <2>2 DEF AnyFrame
  <2>4. Genuine(f)'
    BY <1>0, <2>2, <2>3, GenuineKept
  <2>. QED  BY <2>1, <2>2, <2>4 DEF Genuine
<1>. QED  BY <1>1, <1>2, <1>3 DEF InOrderly

(* The frame that is acknowledged is in the mailbox of the MAC layer of B. *)
LEMMA AskReaches ==
  ASSUME NEW G, NEW H, Moves(G, H), Base', Sending, PhyOfB, WireMsg \in Current(Asks)
  PROVE  Reached(H, macSend.frame.seq, macSend.frame.fidx)'
<1>0. Base /\ Same /\ Carries /\ mboxB["LINK_PHY"] \in Seq(WireMsgs) /\ mboxB["LINK_MAC"] \in Seq(HeardMsgs)
  BY SoundFacts, BaseFacts
<1>a. mboxB["LINK_PHY"] # <<>> /\ macSend' = macSend
  BY DEF PhyOfB, AStays
<1>b. WireMsg = mboxB["LINK_PHY"][1] /\ 1 \in 1..Len(mboxB["LINK_PHY"])
  BY <1>0, <1>a, TailAt DEF WireMsg
<1>1. WireMsg.frame.mac = macSend.frame
  BY <1>0, <1>b DEF Carries, Same
<1> DEFINE M == mboxB["LINK_MAC"]
           x == [sig |-> "FRAME_REV", frame |-> WireMsg.frame.mac]
<1>2. M' = Append(M, x)
  <2>1. WireMsg \in Asks /\ WireMsg \notin Broken
    BY DEF Current, Asks, Broken
  <2>. QED  BY <2>1 DEF PhyOfB
<1>3. x \in HeardMsgs /\ x.sig = "FRAME_REV" /\ x.frame = macSend.frame
  <2>1. macSend.frame \in AnyFrame
    <3>1. WireMsg.frame \in PhyFrame /\ WireMsg.frame.type = "REQ"
      BY <1>0, BPhyHeads DEF PhyOfB, Current, Asks
    <3>2. macSend \in MacSender
      BY <1>0, LineFacts
    <3>. QED  BY <3>2 DEF MacSender, Frame, AnyFrame
  <2>. QED  BY <1>1, <2>1 DEF HeardMsgs
<1> HIDE DEF x
<1>4. Len(M) + 1 \in 1..Len(M') /\ M'[Len(M) + 1] = x
  BY <1>0, <1>2, <1>3, AppendAt
<1>5. PICK i : i \in Ears' /\ HeardAt(i)' = macSend.frame
  BY <1>3, <1>4 DEF Ears, EarsOf, HeardAt
<1>6. \A f \in Outbound' : macSend.frame.seq <= f.seq
  BY <1>5, PipeNext DEF Pipe
<1>7. macSend.frame \in Waiting'
  BY <1>5 DEF Waiting, WaitingOf, Ears, HeardAt
<1>8. ASSUME NEW g, g = macSend.frame PROVE Reached(H, g.seq, g.fidx)'
  BY <1>6, <1>7, <1>8 DEF Reached, Met
<1>. QED  BY <1>a, <1>8 DEF Reached, Met, Seen, Has

LEMMA TruthKept ==
  ASSUME NEW G, NEW H, Moves(G, H), Base'
  PROVE  Truth(H)'
<1>0. /\ Base /\ PairSteps /\ Truth(G) /\ macSend.frame.seq \in Nat /\ Alone'
  BY SoundFacts, AloneNext
<1> DEFINE Says == (Sending /\ Acked) \/ (Holds /\ Waits("FRAME_SEND_DONE") # 0)
           Goal == Reached(H, macSend.frame.seq, macSend.frame.fidx)'
<1> SUFFICES ASSUME Says' PROVE Goal
  BY DEF Truth
<1>a. BoxTaken /\ HeardMsg.sig = "FRAME_REV" => HeardMsg.frame.seq <= macSend.frame.seq
  BY <1>0, EarFacts DEF BoxTaken
<1>1. ASSUME Says, macSend' = macSend PROVE Goal
  <2>1. PICK s, j : s = macSend.frame.seq /\ j = macSend.frame.fidx
    OBVIOUS
  <2>2. Reached(G, s, j) /\ s \in Nat /\ s <= macSend.frame.seq
    BY <1>0, <1>1, <2>1 DEF Truth
  <2>3. Reached(H, s, j)'
    BY <1>a, <2>1, <2>2, ReachedKept
  <2>. QED  BY <1>1, <2>1, <2>3 DEF Reached, Met, Seen, Has
<1>2. CASE PhyOfA /\ PhyBegins
  <2>1. ~Acked'
    BY <1>0, <1>2, BeginsUnacked
  <2>2. Sending'
    BY <1>2 DEF PhyBegins, Sending
  <2>3. Waits("FRAME_SEND_DONE")' = 0
    BY <1>0, <2>2 DEF Alone
  <2>. QED  BY <2>1, <2>3
<1>3. ASSUME ~(PhyOfA /\ PhyBegins), macSend' = macSend, Holds' = Holds,
             (PhyOfA /\ PhySucceeds) \/ Waits("FRAME_SEND_DONE")' = Waits("FRAME_SEND_DONE")
      PROVE  Goal
  <2>1. Sending' => Sending
    <3>1. CASE PhyOfA
      BY <1>3, <3>1 DEF PhyOfA, PhyAgain, PhyFails, PhySucceeds, PhyPasses, PhyObjects, PhyAnswered, Refused,
                        TimedOut, Sending
    <3>2. CASE phy' = phy
      BY <3>2 DEF Sending
    <3>. QED  BY <1>0, <3>1, <3>2 DEF PairSteps, MacOfA, LinkOfA, Requests, ExpiresA, ReachesA, ReachesB, Ticks,
                    PhyOfB, MacOfB, LinkOfB, ExpiresB, Idles, AStays
  <2>2. CASE Sending' /\ Acked'
    <3>1. Acked \/ (PhyOfB /\ WireMsg \in Current(Asks))
      BY <1>0, <1>3, <2>2, AckedKept
    <3>. QED  BY <1>0, <1>1, <1>3, <2>1, <2>2, <3>1, AskReaches
  <2>3. CASE PhyOfA /\ PhySucceeds
    <3>1. Sending /\ PhyMsg \in Current(Grants) /\ mbox["LINK_PHY"] # <<>> /\ mbox["LINK_PHY"] \in Seq(PhyMsgs)
      BY <1>0, <2>3, BaseFacts DEF PhyOfA, PhySucceeds, Granted
    <3>2. PhyMsg = mbox["LINK_PHY"][1] /\ 1 \in 1..Len(mbox["LINK_PHY"])
      BY <3>1, TailAt DEF PhyMsg
    <3>3. Acked
      BY <1>0, <3>1, <3>2, AckedIs DEF Granting
    <3>. QED  BY <1>1, <1>3, <3>1, <3>3
  <2>. QED  BY <1>1, <1>3, <2>2, <2>3
<1>4. CASE MacOfA
  <2>1. CASE MacFirst \/ MacGoesOn \/ MacRepeats
    <3>1. SendsOne'
      BY <1>0, <1>4, <2>1, SenderFirst, SenderGoesOn, SenderRepeats
    <3>. QED  BY <1>0, <3>1 DEF Alone, SendsOne
  <2>2. CASE MacOrders \/ MacSucceeds \/ MacAbandons
    <3>1. ~Holds'
      BY <1>0, <1>4, <2>2, SenderRests
    <3>. QED  BY <1>0, <3>1 DEF Alone
  <2>3. CASE MacDefers
    <3>1. /\ macSend' = macSend /\ Holds' = Holds
          /\ Waits("FRAME_SEND_DONE")' = Waits("FRAME_SEND_DONE")
      BY <1>0, <1>4, <2>3, SenderDefers
    <3>. QED  BY <1>2, <1>3, <3>1
  <2>. QED  BY <1>4, <2>1, <2>2, <2>3 DEF MacOfA
<1>. QED  BY <1>0, <1>2, <1>3, <1>4, SenderStays

(* What is left of a PDU was there before the step, or is a frame that A writes. *)
LEMMA AbroadSteps ==
  ASSUME NEW G, NEW H, Moves(G, H), G < 2, NEW r, Abroad(r)'
  PROVE  \/ Emitted /\ r = macSend.frame.seq
         \/ Abroad(r) /\ (BoxTaken /\ HeardMsg.sig = "FRAME_REV" => HeardMsg.frame.seq <= r)
<1> DEFINE M == mboxB["LINK_MAC"]
           h == HeardMsg.frame
           Goal == \/ Emitted /\ r = macSend.frame.seq
                   \/ Abroad(r) /\ (BoxTaken /\ HeardMsg.sig = "FRAME_REV" => HeardMsg.frame.seq <= r)
<1>0. /\ Fits /\ Base /\ Room /\ faults <= Enough /\ Same /\ PairSteps /\ Prefix /\ G \in Nat /\ Rest(G)
      /\ BoxSteps /\ M \in Seq(HeardMsgs) /\ macRevB.seq \in Nat
  BY SoundFacts, BaseFacts
<1>1. ASSUME BoxTaken, HeardMsg.sig = "FRAME_REV"
      PROVE  /\ h.seq \in Nat /\ 1 \in Ears /\ HeardAt(1) = h
             /\ \A f \in Waiting \cup Outbound : h.seq <= f.seq
             /\ macRevB.state = "RECEIVING" => macRevB.seq = h.seq
  <2>1. M # <<>>
    BY <1>1 DEF BoxTaken
  <2>2. macRevB.state = "RECEIVING" => macRevB.seq = h.seq
    <3>1. ~(G >= 2)
      BY <1>0
    <3>. QED  BY <1>0, <1>1, <2>1, <3>1, LeftBehind
  <2>. QED  BY <1>0, <1>1, <2>1, <2>2, EarFacts
<1>2. CASE macRevB'.state = "RECEIVING" /\ macRevB'.seq = r
  <2>1. CASE macRevB' = macRevB
    <3>1. Abroad(r)
      BY <1>2, <2>1 DEF Abroad
    <3>2. ASSUME BoxTaken, HeardMsg.sig = "FRAME_REV" PROVE h.seq <= r
      <4>1. macRevB.seq = h.seq /\ h.seq \in Nat
        BY <1>1, <1>2, <2>1, <3>2
      <4>. QED  BY <1>2, <2>1, <4>1
    <3>. QED  BY <3>1, <3>2
  <2>2. ASSUME NEW q \in Pdu, MacOfB, MacTakes(q) PROVE Goal
    <3>a. BoxTaken /\ HeardMsg.sig = "FRAME_REV"
      BY <2>2 DEF MacTakes, BoxTaken, MacOfB
    <3>b. macRevB'.seq = h.seq
      BY <2>2 DEF MacTakes
    <3>1. BoxTaken /\ HeardMsg.sig = "FRAME_REV" /\ macRevB'.seq = h.seq
      BY <3>a, <3>b
    <3>2. Abroad(r) /\ h.seq <= r
      <4>1. h.seq \in Nat /\ 1 \in Ears /\ HeardAt(1) = h /\ h.seq = r
        BY <1>1, <1>2, <3>1
      <4>. QED  BY <4>1 DEF Abroad
    <3>. QED  BY <3>2
  <2>3. ~(MacOfB /\ MacForgets)
    <3>1. MacForgets => macRevB'.state = "IDLE"
      <4>1. macRevB \in MacReceiver
        BY <1>0, BaseFacts DEF Receives
      <4>. QED  BY <4>1 DEF MacForgets, MacReceiver
    <3>. QED  BY <1>2, <3>1
  <2>. QED  BY <1>0, <2>1, <2>2, <2>3, ReceiverKept DEF ReceiverStays, MacOfB, MacPasses
<1>3. ASSUME NEW i, i \in Ears', HeardAt(i)'.seq = r PROVE Goal
  <2>1. CASE BoxTaken
    <3>1. M # <<>> /\ M' = Tail(M)
      BY <2>1 DEF BoxTaken
    <3>2. i + 1 \in Ears /\ HeardAt(i + 1).seq = r
      BY <1>0, <1>3, <3>1, EarsTail DEF Ears, HeardAt
    <3>3. HeardAt(i + 1) \in Waiting
      BY <3>2 DEF Waiting, WaitingOf, Ears, HeardAt
    <3>. QED  BY <1>1, <3>2, <3>3 DEF Abroad
  <2>2. CASE ~BoxTaken /\ BoxStays
    BY <1>3, <2>2 DEF BoxStays, Abroad, Ears, HeardAt
  <2>3. ASSUME ~BoxTaken, NEW x \in HeardMsgs, M' = Append(M, x),
               x.sig = "FRAME_REV" => x.frame \in Outbound
        PROVE  Goal
    <3>1. i \in EarsOf(Append(M, x)) /\ Append(M, x)[i].frame.seq = r
      BY <1>3, <2>3 DEF Ears, HeardAt
    <3>2. (i \in EarsOf(M) /\ Append(M, x)[i] = M[i]) \/ (x.sig = "FRAME_REV" /\ Append(M, x)[i] = x)
      <4>1. \A k \in EarsOf(M) : Append(M, x)[k] = M[k]
        BY <1>0, EarsAppend
      <4>2. x.sig = "FRAME_REV" => \A k \in EarsOf(Append(M, x)) : k \in EarsOf(M) \/ Append(M, x)[k] = x
        <5>1. x.sig = "FRAME_REV" =>
                \A k \in EarsOf(Append(M, x)) :
                  k \in EarsOf(M) \/ (Append(M, x)[k] = x /\ BeforeOf(Append(M, x), k) = WaitingOf(M))
          BY <1>0, EarsAppend
        <5>. QED  BY <5>1
      <4>3. x.sig # "FRAME_REV" => EarsOf(Append(M, x)) = EarsOf(M)
        BY <1>0, EarsAppend
      <4>. QED  BY <3>1, <4>1, <4>2, <4>3
    <3>. QED  BY <2>3, <3>1, <3>2 DEF Abroad, Ears, HeardAt
  <2>4. ASSUME ~BoxTaken, NEW g, BoxGrows(g) PROVE Goal
    <3>1. PICK x : x = [sig |-> "FRAME_REV", frame |-> g]
      OBVIOUS
    <3>2. x \in HeardMsgs /\ M' = Append(M, x) /\ (x.sig = "FRAME_REV" => x.frame \in Outbound)
      BY <2>4, <3>1 DEF BoxGrows, HeardMsgs
    <3>. QED  BY <2>3, <2>4, <3>2
  <2>5. CASE ~BoxTaken /\ BoxTimes
    <3>1. PICK x : x = [sig |-> "FRAME_REV_TO"]
      OBVIOUS
    <3>2. x \in HeardMsgs /\ M' = Append(M, x) /\ x.sig # "FRAME_REV"
      BY <2>5, <3>1 DEF BoxTimes, HeardMsgs
    <3>. QED  BY <2>3, <2>5, <3>2
  <2>. QED  BY <1>0, <2>1, <2>2, <2>4, <2>5 DEF BoxSteps
<1>4. ASSUME NEW f, f \in Outbound', f.seq = r PROVE Goal
  <2>1. f \in Outbound \/ (Emitted /\ f = macSend.frame)
    BY <1>0, <1>4, OutboundSteps
  <2>. QED  BY <1>1, <1>4, <2>1 DEF Abroad
<1>. QED  BY <1>2, <1>3, <1>4 DEF Abroad

(* Nothing is left of a PDU that was not sent. *)
LEMMA AbroadSent ==
  ASSUME Prefix, NEW G, InOrderly(G), NEW r, Abroad(r)
  PROVE  r < Len(size)
BY DEF Prefix, InOrderly, Ready, Genuine, Abroad

LEMMA SizeNext == Base' => (\A s \in Sent : s \in Nat /\ s < Len(size))'
<1>1. Base => \A s \in Sent : s \in Nat /\ s < Len(size)
  BY SizeAt
<1>. QED  BY <1>1, PTL

LEMMA RestKept ==
  ASSUME NEW G, NEW H, Moves(G, H), Base'
  PROVE  Rest(H)'
<1>0. /\ Base /\ PairSteps /\ Truth(G) /\ Tried(G) /\ Prefix /\ InOrderly(G) /\ Rest(G) /\ Pipe
      /\ G \in Nat /\ H \in Nat /\ G <= H /\ macSend.frame.seq \in Nat /\ Alone'
  BY SoundFacts, AloneNext
<1>1. SUFFICES ASSUME NEW r, r \in Sent', Over(r)', Abroad(r)', H < 2
               PROVE  Reached(H, r, size[r + 1] - 1)'
  BY DEF Rest
<1>2. G < 2 /\ r \in Nat
  BY <1>0, <1>1, SizeNext
<1>3. ~(Emitted /\ r = macSend.frame.seq)
  <2>1. SUFFICES ASSUME Emitted, r = macSend.frame.seq PROVE FALSE
    OBVIOUS
  <2>2. mbox'["LINK_MAC"] = mbox["LINK_MAC"] /\ macSend' = macSend /\ Holds
    BY <2>1 DEF Emitted, PhyOfA, PhyBegins, PhyAgain, Transmits
  <2>3. Holds'
    BY <2>2 DEF Holds
  <2>4. ~(r < macSend.frame.seq)
    BY <1>2, <2>1
  <2>. QED  BY <1>1, <2>2, <2>3, <2>4 DEF Over
<1>4. Abroad(r) /\ (BoxTaken /\ HeardMsg.sig = "FRAME_REV" => HeardMsg.frame.seq <= r)
  BY <1>1, <1>2, <1>3, AbroadSteps
<1>5. r < Len(size) /\ r \in Sent /\ size[r + 1] \in Nat /\ 1 <= size[r + 1] /\ size'[r + 1] = size[r + 1]
  BY <1>0, <1>2, <1>4, AbroadSent, SizeAt, SizeKept
<1>6. r <= macSend.frame.seq
  <2>1. \A f \in Outbound : f.seq <= macSend.frame.seq
    BY <1>0 DEF Pipe
  <2>2. \A i \in Ears : HeardAt(i).seq <= macSend.frame.seq
    BY <1>0 DEF Pipe
  <2>3. macRevB.state = "RECEIVING" => macRevB.seq <= macSend.frame.seq
    BY <1>0 DEF Pipe
  <2>. QED  BY <1>4, <2>1, <2>2, <2>3 DEF Abroad
<1>7. ASSUME NEW j, j = size[r + 1] - 1, Reached(G, r, j)
      PROVE  Reached(H, r, size[r + 1] - 1)'
  <2>1. Reached(H, r, j)'
    BY <1>2, <1>4, <1>6, <1>7, ReachedKept
  <2>2. ASSUME NEW k, k = size'[r + 1] - 1 PROVE Reached(H, r, k)'
    <3>1. k = j
      BY <1>5, <1>7, <2>2
    <3>. QED  BY <2>1, <3>1
  <2>. QED  BY <2>2 DEF Reached, Met, Seen, Has
<1>8. CASE Over(r)
  <2>1. PICK j : j = size[r + 1] - 1
    OBVIOUS
  <2>2. Reached(G, r, j)
    BY <1>0, <1>2, <1>4, <1>5, <1>8, <2>1 DEF Rest
  <2>. QED  BY <1>7, <2>1, <2>2
<1>9. CASE ~Over(r)
  <2>1. r = macSend.frame.seq /\ Holds
    <3>1. ~(r < macSend.frame.seq)
      BY <1>9 DEF Over
    <3>2. r = macSend.frame.seq
      BY <1>0, <1>2, <1>6, <3>1
    <3>. QED  BY <1>9, <3>2 DEF Over
  <2>2. ASSUME Holds', macSend'.frame.seq = macSend.frame.seq PROVE FALSE
    <3>1. ~(r < r)
      BY <1>2
    <3>. QED  BY <1>1, <2>1, <2>2, <3>1 DEF Over
  <2>3. MacOfA
    BY <1>0, <2>1, <2>2, SenderStays
  <2>4. ASSUME SendsOne', macSend'.frame.seq = macSend.frame.seq PROVE FALSE
    BY <1>0, <2>2, <2>4 DEF Alone, SendsOne
  <2>5. macSend.frame \in Frame /\ macSend.retry \in Nat
    <3>1. macSend \in MacSender
      BY <1>0, LineFacts
    <3>2. \A c \in Counter : c \in Nat
      BY DEF Counter
    <3>. QED  BY <3>1, <3>2 DEF MacSender
  <2>6. ~MacFirst
    BY <2>1 DEF MacFirst
  <2>7. ~MacGoesOn
    <3>1. MacGoesOn => macSend'.frame.seq = macSend.frame.seq /\ SendsOne'
      <4>1. \A f \in Frame : [f EXCEPT !.fidx = @ + 1].seq = f.seq
        BY DEF Frame
      <4>. QED  BY <1>0, <2>3, <2>5, <4>1, SenderGoesOn
    <3>. QED  BY <2>4, <3>1
  <2>8. ~MacRepeats
    <3>1. MacRepeats => macSend'.frame.seq = macSend.frame.seq /\ SendsOne'
      <4>1. \A f \in Frame : [f EXCEPT !.fidx = 0].seq = f.seq
        BY DEF Frame
      <4>. QED  BY <1>0, <2>3, <2>5, <4>1, SenderRepeats
    <3>. QED  BY <2>4, <3>1
  <2>9. ~MacDefers /\ ~MacOrders
    BY <1>0, <2>1, <2>2, <2>3, SenderDefers, SenderRests
  <2>10. ASSUME MacSucceeds PROVE Reached(H, r, size[r + 1] - 1)'
    <3>1. Waits("FRAME_SEND_DONE") # 0 /\ macSend.frame.fidx + 1 >= macSend.frame.fnum
      BY <1>0, <2>3, <2>10, SenderRests DEF MacSucceeds
    <3>2. PICK j : j = macSend.frame.fidx
      OBVIOUS
    <3>3. Reached(G, r, j)
      BY <1>0, <2>1, <3>1, <3>2 DEF Truth
    <3>4. Genuine(macSend.frame)
      BY <1>0, <2>1 DEF InOrderly, Ready
    <3>5. j \in Nat /\ j < size[r + 1] /\ j + 1 >= size[r + 1]
      BY <2>1, <2>5, <3>1, <3>2, <3>4 DEF Genuine, Frame
    <3>6. j = size[r + 1] - 1
      BY <1>5, <3>5
    <3>. QED  BY <1>7, <3>3, <3>6
  <2>11. ~MacAbandons
    <3>1. SUFFICES ASSUME MacAbandons PROVE FALSE
      OBVIOUS
    <3>2. Waits("FRAME_SEND_ERR") # 0 /\ macSend.retry >= 1
      BY <1>0, <2>3, <3>1, SenderRests DEF MacAbandons
    <3>3. PICK a, b \in Nat : a = macSend.retry /\ b = Waits("FRAME_SEND_ERR")
      BY <1>0, <2>5, OnlyOne
    <3>4. a + b <= G
      BY <1>0, <2>1, <3>3 DEF Tried
    <3>. QED  BY <1>0, <1>2, <3>2, <3>3, <3>4
  <2>. QED  BY <2>3, <2>6, <2>7, <2>8, <2>9, <2>10, <2>11 DEF MacOfA
<1>. QED  BY <1>8, <1>9

(* When two frames were given up, all the faults are spent: time passes only
   when nothing is on its way.                                              *)
LEMMA SettledThen ==
  ASSUME Base, Base', NEW G \in Nat, Paid(G), G >= 2, faults' <= Enough, Ticks
  PROVE  ~Sending /\ ~Holds /\ line = <<>> /\ mboxB["LINK_PHY"] = <<>> /\ mboxB["LINK_MAC"] = <<>>
<1>1. /\ mbox["LINK_PHY"] = <<>> /\ mbox["LINK_MAC"] = <<>>
      /\ mboxB["LINK_PHY"] = <<>> /\ mboxB["LINK_MAC"] = <<>>
  BY Tasks DEF Ticks, Idle
<1>2. PICK k \in Nat : k = MaxRetry + 1 /\ k # 0
  <2>1. MaxRetry \in Nat
    BY LeftFacts
  <2>. QED  BY <2>1
<1>3. PICK e, w, r \in Nat : e = faults /\ w = Owed /\ r = phy.retry
  BY BaseFacts, LedgerNat
<1>4. PICK b \in Nat : b = One(line # <<>> \/ lineB # <<>>)
  BY DEF One
<1>5. k * G + w <= e /\ e + b <= 2 * k
  <2>1. faults' = e + b
    BY <1>3, <1>4 DEF Ticks
  <2>. QED  BY <1>2, <1>3, <2>1 DEF Paid, Enough
<1>6. w = 0 /\ b = 0
  <2>1. PICK d \in Nat : G = 2 + d
    <3>1. G - 2 \in Nat /\ G = 2 + (G - 2)
      OBVIOUS
    <3>. QED  BY <3>1
  <2>2. k * G = 2 * k + k * d /\ k * d \in Nat
    BY <1>2, <2>1
  <2>. QED  BY <1>2, <1>5, <2>2
<1>7. line = <<>> /\ lineB = <<>>
  BY <1>4, <1>6 DEF One
<1>8. ~Sending
  <2>1. SUFFICES ASSUME Sending PROVE FALSE
    OBVIOUS
  <2>2. Hope = 0 /\ Negative = 0
    <3>1. \A M : Occ(<<>>, M) = 0
      BY OccEmpty
    <3>. QED  BY <1>1, <1>7, <3>1 DEF Hope, Negative
  <2>3. Owed = r + 1 \/ Owed = r + 1 + 0
    BY <1>3, <2>1, <2>2 DEF Owed, Cost
  <2>. QED  BY <1>3, <1>6, <2>3
<1>9. ~Holds
  <2>1. InFlight
    BY BaseFacts DEF Safe
  <2>2. Cnt(<<>>, {"FRAME_SEND_REQ"}) = 0 /\ Cnt(<<>>, {"FRAME_SEND_DONE", "FRAME_SEND_ERR"}) = 0
    BY CntEmpty
  <2>3. 0 + One(Sending) + 0 = One(Holds)
    BY <1>1, <2>1, <2>2 DEF InFlight, Sending
  <2>. QED  BY <1>8, <2>3 DEF One
<1>. QED  BY <1>1, <1>7, <1>8, <1>9

LEMMA TicksSettle ==
  ASSUME Base, Base', NEW G \in Nat, Account(G), G >= 2, faults' <= Enough, Ticks
  PROVE  Data(G)'
<1>1. ~Sending /\ ~Holds /\ line = <<>> /\ mboxB["LINK_PHY"] = <<>> /\ mboxB["LINK_MAC"] = <<>>
  BY SettledThen DEF Account
<1>2. UNCHANGED <<mbox, line, phy, macSend, mboxB>>
  BY DEF Ticks
<1>3. ~Sending' /\ ~Holds'
  BY <1>1, <1>2 DEF Sending, Holds
<1>4. Outbound' = {} /\ Ears' = {}
  <2>1. line' = <<>> /\ mboxB'["LINK_PHY"] = <<>> /\ mboxB'["LINK_MAC"] = <<>>
    BY <1>1, <1>2
  <2>2. Len(<<>>) = 0 /\ 1..0 = {}
    OBVIOUS
  <2>. QED  BY <2>1, <2>2 DEF Outbound, OutboundOf, Ears, EarsOf
<1>5. InOrderly(G)'
  BY <1>3, <1>4 DEF InOrderly
<1>6. Truth(G)'
  BY <1>3 DEF Truth
<1>7. Rest(G)'
  <2>1. ~(G < 2)
    OBVIOUS
  <2>. QED  BY <2>1 DEF Rest
<1>8. Tried(G)'
  BY <1>3 DEF Tried
<1>. QED  BY <1>5, <1>6, <1>7, <1>8 DEF Data

-----------------------------------------------------------------------------
(* The frames that the receiver gathers are the beginning of a PDU, and all of it
   when the last one comes.                                                 *)
WholePdu(F) == \E s \in Sent : F = FramesOf(s)
Begun(s, F) == s < Len(size) /\ \E m \in 0 .. size[s + 1] - 2 : F = Beginning(s, m)

LEMMA FramesStay ==
  ASSUME Base, PairSteps
  PROVE  /\ \A F : WholePdu(F) => WholePdu(F)'
         /\ \A s \in Nat : \A F : Begun(s, F) => Begun(s, F)'
<1>1. /\ \A s \in Nat : s < Len(size) => s < Len(size') /\ size'[s + 1] = size[s + 1]
      /\ \A s \in Sent : s \in Nat /\ s < Len(size)
      /\ Len(size) \in Nat /\ Len(size') \in Nat
  BY SizeKept, SizeAt
<1>2. ASSUME NEW F, WholePdu(F) PROVE WholePdu(F)'
  <2>1. PICK s \in Sent : F = FramesOf(s)
    BY <1>2 DEF WholePdu
  <2>2. s \in Nat /\ s < Len(size') /\ size'[s + 1] = size[s + 1]
    BY <1>1
  <2>3. FramesOf(s)' = FramesOf(s)
    BY <2>2 DEF FramesOf
  <2>4. s \in Sent'
    <3>1. \A n \in Nat : s < n => s \in 0 .. n - 1
      BY <2>2
    <3>. QED  BY <1>1, <2>2, <3>1 DEF Sent
  <2>. QED  BY <2>1, <2>3, <2>4 DEF WholePdu
<1>3. ASSUME NEW s \in Nat, NEW F, Begun(s, F) PROVE Begun(s, F)'
  <2>1. s < Len(size') /\ size'[s + 1] = size[s + 1]
    BY <1>1, <1>3 DEF Begun
  <2>2. \A m : Beginning(s, m)' = Beginning(s, m)
    BY <2>1 DEF Beginning, FrameOf
  <2>. QED  BY <1>3, <2>1, <2>2 DEF Begun
<1>. QED  BY <1>2, <1>3

(* The frame that the receiver hears is one of the PDU, and not beyond the next. *)
LEMMA HeardNext ==
  ASSUME Base, NEW G, InOrderly(G), mboxB["LINK_MAC"] # <<>>, HeardMsg.sig = "FRAME_REV",
         NEW s, NEW k, s = HeardMsg.frame.seq, k = HeardMsg.frame.fidx
  PROVE  /\ s \in Nat /\ s < Len(size) /\ k \in Nat /\ k < size[s + 1] /\ size[s + 1] \in Nat
         /\ HeardMsg.frame = FrameOf(s, k) /\ HeardMsg.frame.fnum = size[s + 1]
         /\ k > 0 => Seen(G, s, k - 1)
<1> DEFINE h == HeardMsg.frame
<1>1. 1 \in Ears /\ HeardAt(1) = h /\ h \in AnyFrame /\ h.seq \in Nat /\ h.fidx \in Nat
  BY EarFacts
<1>2. Genuine(h) /\ (h.fidx > 0 => Follows(G, 1))
  BY <1>1 DEF InOrderly
<1>3. BeforeOf(mboxB["LINK_MAC"], 1) = {}
  <2>1. \A i \in EarsOf(mboxB["LINK_MAC"]) : ~(i < 1)
    <3>1. \A i \in 1..Len(mboxB["LINK_MAC"]) : ~(i < 1)
      OBVIOUS
    <3>. QED  BY <3>1 DEF EarsOf
  <2>. QED  BY <2>1 DEF BeforeOf
<1>4. k > 0 => Seen(G, s, k - 1)
  BY <1>1, <1>2, <1>3 DEF Follows, Met
<1>5. h = FrameOf(s, k)
  BY <1>1, <1>2 DEF FrameOf, Genuine, AnyFrame
<1>6. size[s + 1] \in Nat
  BY <1>1, <1>2, SizeAt DEF Genuine
<1>. QED  BY <1>1, <1>2, <1>4, <1>5, <1>6 DEF Genuine

LEMMA Extends ==
  ASSUME NEW s, NEW m \in Nat, NEW k \in Nat, k <= m + 1
  PROVE  Beginning(s, m) \cup {FrameOf(s, k)} = Beginning(s, IF k <= m THEN m ELSE k)
<1>1. CASE k <= m
  <2>1. k \in 0..m
    BY <1>1
  <2>. QED  BY <1>1, <2>1 DEF Beginning
<1>2. CASE k = m + 1
  <2>1. 0..k = (0..m) \cup {k}
    BY <1>2
  <2>2. ~(k <= m)
    BY <1>2
  <2>. QED  BY <2>1, <2>2 DEF Beginning
<1>. QED  BY <1>1, <1>2

LEMMA Gathers ==
  ASSUME Base, Prefix, NEW G, InOrderly(G), MacOfB, NEW q \in Pdu, MacTakes(q)
  PROVE  /\ HeardMsg.frame.fidx # HeardMsg.frame.fnum - 1 => Begun(HeardMsg.frame.seq, slots'[q])
         /\ HeardMsg.frame.fidx = HeardMsg.frame.fnum - 1 =>
              HeardMsg.frame.seq \in Sent /\ slots'[q] = FramesOf(HeardMsg.frame.seq)
         /\ \A j \in 1..Len(mboxB["LINK"]) : Told(j) # q
<1>0. /\ mboxB["LINK_MAC"] # <<>> /\ HeardMsg.sig = "FRAME_REV" /\ Takes(q, HeardMsg.frame)
      /\ slots' = [slots EXCEPT ![q] = @ \cup {HeardMsg.frame}]
      /\ slots \in [Pdu -> SUBSET AnyFrame] /\ Owns
  BY BaseFacts DEF MacOfB, MacTakes, Receives
<1>1. PICK s, k : s = HeardMsg.frame.seq /\ k = HeardMsg.frame.fidx
  OBVIOUS
<1>2. /\ s \in Nat /\ s < Len(size) /\ k \in Nat /\ k < size[s + 1] /\ size[s + 1] \in Nat
      /\ HeardMsg.frame = FrameOf(s, k) /\ HeardMsg.frame.fnum = size[s + 1]
      /\ k > 0 => Seen(G, s, k - 1)
  BY <1>0, <1>1, HeardNext
<1>3. PICK n \in Nat : n = size[s + 1] /\ k < n
  BY <1>2
<1>4. slots'[q] = slots[q] \cup {FrameOf(s, k)}
  BY <1>0, <1>2
<1>5. ASSUME NEW m \in 0 .. n - 1, k = n - 1 => m = n - 1, k # n - 1 => m <= n - 2,
             slots'[q] = Beginning(s, m)
      PROVE  /\ k # n - 1 => Begun(s, slots'[q])
             /\ k = n - 1 => s \in Sent /\ slots'[q] = FramesOf(s)
  <2>1. k # n - 1 => m \in 0 .. n - 2
    BY <1>5
  <2>2. k = n - 1 => slots'[q] = FramesOf(s)
    BY <1>3, <1>5 DEF FramesOf, Beginning, FrameOf
  <2>3. s \in Sent
    BY <1>2, SizeAt
  <2>. QED  BY <1>2, <1>3, <1>5, <2>1, <2>2, <2>3 DEF Begun
<1>6. CASE macRevB.state = "IDLE" /\ macRevB.seq # s /\ poolB[q] = 0
  <2>1. k = 0
    <3>1. ~Seen(G, s, k - 1)
      BY <1>6 DEF Seen, Has
    <3>2. ~(k > 0)
      BY <1>2, <3>1
    <3>. QED  BY <1>2, <3>2
  <2>2. slots[q] = {}
    BY <1>0, <1>6 DEF Owns
  <2>3. slots'[q] = Beginning(s, 0)
    <3>1. 0..0 = {0}
      OBVIOUS
    <3>. QED  BY <1>4, <2>1, <2>2, <3>1 DEF Beginning
  <2>4. \A j \in 1..Len(mboxB["LINK"]) : Told(j) # q
    BY <1>0, <1>6 DEF Owns
  <2>5. /\ 0 \in 0 .. n - 1 /\ (k = n - 1 => 0 = n - 1) /\ (k # n - 1 => 0 <= n - 2)
    BY <1>3, <2>1
  <2>6. /\ k # n - 1 => Begun(s, slots'[q])
        /\ k = n - 1 => s \in Sent /\ slots'[q] = FramesOf(s)
    BY <1>5, <2>3, <2>5
  <2>. QED  BY <1>1, <1>2, <1>3, <2>4, <2>6
<1>7. CASE macRevB.state = "RECEIVING" /\ macRevB.seq = s /\ macRevB.pdu = q
  <2>1. PICK m \in 0 .. n - 2 : slots[q] = Beginning(s, m)
    BY <1>3, <1>7 DEF Prefix
  <2>2. k <= m + 1
    <3>1. CASE k > 0
      <4>0. ~(s < s)
        BY <1>2
      <4>1. \E f \in slots[q] : k - 1 <= f.fidx
        BY <1>2, <1>7, <3>1, <4>0 DEF Seen, Has
      <4>2. PICK i \in 0..m : k - 1 <= FrameOf(s, i).fidx
        BY <2>1, <4>1 DEF Beginning
      <4>3. k - 1 <= i
        BY <4>2 DEF FrameOf
      <4>. QED  BY <1>2, <2>1, <4>3
    <3>2. CASE ~(k > 0)
      BY <1>2, <3>2
    <3>. QED  BY <3>1, <3>2
  <2>3. PICK m2 : m2 = IF k <= m THEN m ELSE k
    OBVIOUS
  <2>4. slots'[q] = Beginning(s, m2)
    <3>1. m \in Nat
      BY <2>1
    <3>. QED  BY <1>2, <1>4, <2>1, <2>2, <2>3, <3>1, Extends
  <2>5. m2 \in 0 .. n - 1 /\ (k = n - 1 => m2 = n - 1) /\ (k # n - 1 => m2 <= n - 2)
    BY <1>2, <1>3, <2>1, <2>2, <2>3
  <2>6. /\ k # n - 1 => Begun(s, slots'[q])
        /\ k = n - 1 => s \in Sent /\ slots'[q] = FramesOf(s)
    BY <1>5, <2>4, <2>5
  <2>7. \A j \in 1..Len(mboxB["LINK"]) : Told(j) # q
    BY <1>0, <1>7 DEF Owns
  <2>. QED  BY <1>1, <1>2, <1>3, <2>6, <2>7
<1>. QED  BY <1>0, <1>1, <1>6, <1>7 DEF Takes

LEMMA PrefixIs ==
  Prefix <=>
    /\ macRevB.state = "RECEIVING" => Begun(macRevB.seq, slots[macRevB.pdu])
    /\ \A j \in 1..Len(mboxB["LINK"]) : WholePdu(slots[Told(j)])
    /\ \A i \in 1..Len(given) : WholePdu(given[i])
BY DEF Prefix, Begun, WholePdu

LEMMA PrefixKept ==
  ASSUME NEW G, NEW H, Moves(G, H), Base'
  PROVE  Prefix'
<1> DEFINE L == mboxB["LINK"]
<1>0. /\ Base /\ PairSteps /\ Prefix /\ InOrderly(G) /\ macRevB.seq \in Nat /\ Owns
      /\ L \in Seq(RevMsgs) /\ slots \in [Pdu -> SUBSET AnyFrame] /\ given \in Seq(SUBSET AnyFrame)
      /\ macRevB \in MacReceiver /\ (macRevB.state = "IDLE" <=> macRevB.pdu = None)
  BY SoundFacts, BaseFacts DEF Receives
<1>a. /\ macRevB.state = "RECEIVING" => Begun(macRevB.seq, slots[macRevB.pdu])
      /\ \A j \in 1..Len(L) : WholePdu(slots[Told(j)])
      /\ \A i \in 1..Len(given) : WholePdu(given[i])
  BY <1>0, PrefixIs
<1>b. \A j \in 1..Len(L) : Told(j) \in Pdu
  <2>1. \A m \in RevMsgs : m.pdu \in Pdu
    BY DEF RevMsgs
  <2>2. \A j \in 1..Len(L) : L[j] \in RevMsgs
    BY <1>0
  <2>. QED  BY <2>1, <2>2 DEF Told
<1>c. /\ \A F : WholePdu(F) => WholePdu(F)'
      /\ \A s \in Nat : \A F : Begun(s, F) => Begun(s, F)'
  BY <1>0, FramesStay
<1>d. macRevB'.seq \in Nat
  <2>1. Base => macRevB.seq \in Nat
    BY PipeFacts DEF Pipe
  <2>. QED  BY <2>1, PipeNext DEF Pipe
<1>1. ASSUME NEW R, R = macRevB', NEW C, C = slots', NEW K, K = L', NEW D, D = given',
             R.seq \in Nat,
             R.state = "RECEIVING" => Begun(R.seq, C[R.pdu]),
             \A j \in 1..Len(K) : WholePdu(C[K[j].pdu]),
             \A i \in 1..Len(D) : WholePdu(D[i])
      PROVE  Prefix'
  <2>1. macRevB'.state = "RECEIVING" => Begun(macRevB.seq, slots[macRevB.pdu])'
    <3>1. ASSUME R.state = "RECEIVING" PROVE Begun(R.seq, C[R.pdu])'
      BY <1>1, <1>c, <3>1
    <3>. QED  BY <1>1, <3>1 DEF Begun
  <2>2. \A j \in 1..Len(K) : WholePdu(C[K[j].pdu])'
    BY <1>1, <1>c
  <2>3. \A i \in 1..Len(D) : WholePdu(D[i])'
    BY <1>1, <1>c
  <2>4. (\A j \in 1..Len(L) : WholePdu(slots[Told(j)]))'
    BY <1>1, <2>2 DEF Told, WholePdu
  <2>5. (\A i \in 1..Len(given) : WholePdu(given[i]))'
    BY <1>1, <2>3 DEF WholePdu
  <2>. QED  BY <2>1, <2>4, <2>5, PrefixIs DEF Prefix, Begun, WholePdu
<1>2. CASE macRevB' = macRevB /\ slots' = slots /\ L' = L /\ given' = given
  BY <1>0, <1>1, <1>2, <1>a DEF Told
<1>3. ASSUME MacOfB, MacForgets PROVE Prefix'
  <2>1. macRevB'.state = "IDLE" /\ L' = L /\ given' = given
    BY <1>0, <1>3 DEF MacForgets, MacOfB, MacReceiver
  <2>2. slots' = [slots EXCEPT ![macRevB.pdu] = {}]
    BY <1>3 DEF MacForgets
  <2>3. \A j \in 1..Len(L) : slots'[Told(j)] = slots[Told(j)]
    BY <1>0, <1>b, <2>2 DEF Owns
  <2>4. \A j \in 1..Len(L) : WholePdu(slots'[L[j].pdu])
    BY <1>a, <2>3 DEF Told
  <2>5. macRevB'.state # "RECEIVING"
    BY <2>1
  <2>6. \A i \in 1..Len(given') : WholePdu(given'[i])
    BY <1>a, <2>1
  <2>7. ASSUME NEW R, R = macRevB', NEW C, C = slots' PROVE Prefix'
    BY <1>1, <1>d, <2>1, <2>4, <2>5, <2>6, <2>7
  <2>. QED  BY <2>7
<1>4. ASSUME MacOfB, NEW q \in Pdu, MacTakes(q) PROVE Prefix'
  <2>0. given' = given /\ slots' = [slots EXCEPT ![q] = @ \cup {HeardMsg.frame}]
    BY <1>4 DEF MacOfB, MacTakes
  <2>1. /\ HeardMsg.frame.fidx # HeardMsg.frame.fnum - 1 => Begun(HeardMsg.frame.seq, slots'[q])
        /\ HeardMsg.frame.fidx = HeardMsg.frame.fnum - 1 => WholePdu(slots'[q])
        /\ \A j \in 1..Len(L) : Told(j) # q
    BY <1>0, <1>4, Gathers DEF WholePdu
  <2>2. \A j \in 1..Len(L) : slots'[Told(j)] = slots[Told(j)]
    BY <1>0, <1>b, <2>0, <2>1
  <2>3. \A j \in 1..Len(L) : WholePdu(slots'[L[j].pdu])
    BY <1>a, <2>2 DEF Told
  <2>4. \A i \in 1..Len(given') : WholePdu(given'[i])
    BY <1>a, <2>0
  <2>5. CASE /\ HeardMsg.frame.fidx # HeardMsg.frame.fnum - 1 /\ L' = L
             /\ macRevB' = [state |-> "RECEIVING", pdu |-> q, seq |-> HeardMsg.frame.seq]
    <3>1. Begun(macRevB'.seq, slots'[macRevB'.pdu])
      BY <2>1, <2>5
    <3>2. \A j \in 1..Len(L') : WholePdu(slots'[L'[j].pdu])
      BY <2>3, <2>5
    <3>3. ASSUME NEW R, R = macRevB', NEW C, C = slots', NEW K, K = L' PROVE Prefix'
      <4>1. Begun(R.seq, C[R.pdu]) /\ (\A j \in 1..Len(K) : WholePdu(C[K[j].pdu]))
        BY <3>1, <3>2, <3>3
      <4>. QED  BY <1>1, <1>d, <2>4, <3>3, <4>1
    <3>. QED  BY <3>3
  <2>6. CASE /\ HeardMsg.frame.fidx = HeardMsg.frame.fnum - 1 /\ L' = Append(L, PduMsg("REV_MSG", q))
             /\ macRevB' = [state |-> "IDLE", pdu |-> None, seq |-> HeardMsg.frame.seq]
    <3>1. PICK x : x = PduMsg("REV_MSG", q)
      OBVIOUS
    <3>2. x \in RevMsgs /\ x.pdu = q /\ L' = Append(L, x)
      BY <2>6, <3>1 DEF PduMsg, RevMsgs
    <3>3. \A j \in 1..Len(L') : (j \in 1..Len(L) /\ L'[j] = L[j]) \/ L'[j] = x
      BY <1>0, <3>2, AppendAt
    <3>4. \A j \in 1..Len(L') : WholePdu(slots'[L'[j].pdu])
      BY <2>1, <2>3, <2>6, <3>2, <3>3
    <3>5. macRevB'.state # "RECEIVING"
      BY <2>6
    <3>6. ASSUME NEW R, R = macRevB', NEW C, C = slots', NEW K, K = L' PROVE Prefix'
      <4>1. R.state # "RECEIVING" /\ (\A j \in 1..Len(K) : WholePdu(C[K[j].pdu]))
        BY <3>4, <3>5, <3>6
      <4>. QED  BY <1>1, <1>d, <2>4, <3>6, <4>1
    <3>. QED  BY <3>6
  <2>. QED  BY <1>4, <2>5, <2>6 DEF MacTakes
<1>5. CASE LinkOfB
  <2>0. /\ L # <<>> /\ given' = Append(given, slots[Told(1)]) /\ slots' = [slots EXCEPT ![Told(1)] = {}]
        /\ L' = Tail(L) /\ macRevB' = macRevB
    BY <1>5 DEF LinkOfB
  <2>1. /\ 1 \in 1..Len(L)
        /\ \A j \in 1..Len(Tail(L)) : j + 1 \in 1..Len(L) /\ Tail(L)[j] = L[j + 1] /\ 1 < j + 1
    BY <1>0, <2>0, TailAt
  <2>2. \A j \in 1..Len(L') : WholePdu(slots'[L'[j].pdu])
    <3>1. ASSUME NEW j \in 1..Len(L') PROVE WholePdu(slots'[L'[j].pdu])
      <4>1. PICK k \in 1..Len(L) : 1 < k /\ L'[j] = L[k]
        BY <2>0, <2>1, <3>1
      <4>2. Told(k) # Told(1) /\ Told(k) \in Pdu
        BY <1>0, <1>b, <2>1, <4>1 DEF Owns
      <4>3. slots'[Told(k)] = slots[Told(k)]
        BY <1>0, <2>0, <4>2
      <4>. QED  BY <1>a, <4>1, <4>3 DEF Told
    <3>. QED  BY <3>1
  <2>3. \A i \in 1..Len(given') : WholePdu(given'[i])
    <3>1. slots[Told(1)] \in SUBSET AnyFrame
      BY <1>0, <1>b, <2>1
    <3>2. \A i \in 1..Len(given') : (i \in 1..Len(given) /\ given'[i] = given[i]) \/ given'[i] = slots[Told(1)]
      BY <1>0, <2>0, <3>1, AppendAt
    <3>. QED  BY <1>a, <2>1, <3>2
  <2>4. macRevB'.state = "RECEIVING" => Begun(macRevB'.seq, slots'[macRevB'.pdu])
    <3>1. ASSUME macRevB.state = "RECEIVING" PROVE slots'[macRevB.pdu] = slots[macRevB.pdu]
      <4>1. macRevB.pdu # Told(1) /\ macRevB.pdu \in Pdu
        BY <1>0, <2>1, <3>1 DEF Owns, MacReceiver
      <4>. QED  BY <1>0, <2>0, <4>1
    <3>. QED  BY <1>a, <2>0, <3>1
  <2>5. ASSUME NEW C, C = slots', NEW K, K = L', NEW D, D = given' PROVE Prefix'
    <3>1. PICK R : R = macRevB'
      OBVIOUS
    <3>2. /\ R.state = "RECEIVING" => Begun(R.seq, C[R.pdu])
          /\ \A j \in 1..Len(K) : WholePdu(C[K[j].pdu])
          /\ \A i \in 1..Len(D) : WholePdu(D[i])
      BY <2>2, <2>3, <2>4, <2>5, <3>1
    <3>. QED  BY <1>1, <1>d, <2>5, <3>1, <3>2
  <2>. QED  BY <2>5
<1>6. CASE MacOfB
  <2>1. MacPasses => macRevB' = macRevB /\ slots' = slots /\ L' = L /\ given' = given
    BY <1>6 DEF MacPasses, MacOfB
  <2>2. UNCHANGED <<mboxB, macRevB, slots>> => macRevB' = macRevB /\ slots' = slots /\ L' = L /\ given' = given
    BY <1>6 DEF MacOfB
  <2>. QED  BY <1>2, <1>3, <1>4, <1>6, <2>1, <2>2 DEF MacOfB
<1>7. CASE ~MacOfB /\ ~LinkOfB
  <2>1. mboxB \in [Task -> Seq(BMsgs)]
    BY <1>0, BaseFacts DEF Receives
  <2>2. \A M : [mboxB EXCEPT !["LINK_PHY"] = M]["LINK"] = L /\ [mboxB EXCEPT !["LINK_MAC"] = M]["LINK"] = L
    BY <2>1, Tasks
  <2>3. macRevB' = macRevB /\ slots' = slots /\ L' = L /\ given' = given
    BY <1>0, <1>7, <2>2 DEF PairSteps, PhyOfA, MacOfA, LinkOfA, Requests, ExpiresA, ReachesA, ReachesB, Ticks,
       PhyOfB, ExpiresB, Idles, AStays, BStays, boardB
  <2>. QED  BY <1>2, <2>3
<1>. QED  BY <1>5, <1>6, <1>7

-----------------------------------------------------------------------------
(* A step keeps the invariant. *)
LEMMA TicksIntact ==
  ASSUME Fits, Base, Base', Room, Same, Prefix, Carries, PairSteps, faults <= Enough, faults' <= Enough,
         NEW G \in Nat, Account(G), G >= 2, Ticks
  PROVE  Intact'
<1>1. Same'
  BY SameKept
<1>2. ~(PhyOfA /\ PhyFails)
  <2>1. PhyOfA => mbox["LINK_PHY"] # <<>>
    BY DEF PhyOfA
  <2>2. mbox["LINK_PHY"] = <<>>
    BY Tasks DEF Ticks, Idle
  <2>. QED  BY <2>1, <2>2
<1>3. Account(G)' /\ Carries'
  BY <1>2, AccountKept
<1>4. Prefix'
  <2>1. UNCHANGED <<size, mboxB, macRevB, slots, given>>
    BY DEF Ticks
  <2>2. /\ macRevB.state = "RECEIVING" => Begun(macRevB.seq, slots[macRevB.pdu])
        /\ \A j \in 1..Len(mboxB["LINK"]) : WholePdu(slots[Told(j)])
        /\ \A i \in 1..Len(given) : WholePdu(given[i])
    BY PrefixIs
  <2>3. \A F : WholePdu(F) => WholePdu(F)'
    BY FramesStay
  <2>4. (macRevB.state = "RECEIVING" => Begun(macRevB.seq, slots[macRevB.pdu]))'
    <3>1. macRevB' = macRevB /\ size' = size /\ slots' = slots
      BY <2>1
    <3>2. ASSUME macRevB.state = "RECEIVING"
          PROVE  macRevB.seq < Len(size) /\ \E m \in 0 .. size[macRevB.seq + 1] - 2 :
                   slots[macRevB.pdu] = {[seq |-> macRevB.seq, fidx |-> k, fnum |-> size[macRevB.seq + 1]] : k \in 0..m}
      BY <2>2, <3>2 DEF Begun, Beginning, FrameOf
    <3>. QED  BY <3>1, <3>2 DEF Begun, Beginning, FrameOf
  <2>5. ASSUME NEW F, F = [j \in 1..Len(mboxB["LINK"]) |-> slots[Told(j)]]
        PROVE  (\A j \in 1..Len(mboxB["LINK"]) : WholePdu(slots[Told(j)]))'
    <3>1. \A j \in 1..Len(mboxB["LINK"]) : WholePdu(F[j])'
      BY <2>2, <2>3, <2>5
    <3>2. 1..Len(mboxB'["LINK"]) = 1..Len(mboxB["LINK"]) /\ \A j : slots'[Told(j)'] = slots[Told(j)]
      BY <2>1 DEF Told
    <3>. QED  BY <2>5, <3>1, <3>2 DEF WholePdu
  <2>6. (\A i \in 1..Len(given) : WholePdu(given[i]))'
    <3>1. \A i \in 1..Len(given) : WholePdu(given[i]) => (\A F : F = given[i] => WholePdu(F)')
      BY <2>3
    <3>. QED  BY <2>1, <2>2, <3>1 DEF WholePdu
  <2>. QED  BY <2>4, <2>5, <2>6, PrefixIs DEF Prefix, Begun, WholePdu
<1>5. Data(G)'
  BY TicksSettle
<1>. QED  BY <1>1, <1>3, <1>4, <1>5 DEF Intact

LEMMA MovesIntact ==
  ASSUME Base', NEW G \in Nat, NEW H \in Nat, Moves(G, H),
         H = IF PhyOfA /\ PhyFails THEN G + 1 ELSE G
  PROVE  Intact'
<1>0. /\ Fits /\ Base /\ Room /\ faults <= Enough /\ PairSteps /\ Same /\ Carries /\ Account(G)
  BY SoundFacts
<1>1. Same'
  BY <1>0, SameKept
<1>2. Prefix'
  BY PrefixKept
<1>3. Account(H)' /\ Carries'
  BY <1>0, AccountKept
<1>4. InOrderly(H)' /\ Truth(H)' /\ Rest(H)'
  BY InOrderlyKept, TruthKept, RestKept
<1>5. Tried(H)'
  BY TriedKept
<1>. QED  BY <1>1, <1>2, <1>3, <1>4, <1>5 DEF Intact, Data

LEMMA NextWholeInv ==
  ASSUME Fits, WholeInv, [PairNext]_pairVars
  PROVE  WholeInv'
<1>1. Base /\ Room /\ LineUp /\ PairSteps /\ Base' /\ faults \in Nat
  BY BaseSteps, BaseFacts DEF WholeInv
<1>2. Room' /\ LineUp'
  BY <1>1, RoomKept, LineUpKept
<1>3. ASSUME faults' <= Enough PROVE Intact'
  <2>1. faults <= Enough
    <3>1. faults' \in Nat /\ faults <= faults'
      BY <1>1, FaultsGrow
    <3>. QED  BY <1>1, <1>3, <3>1, EnoughNat
  <2>2. PICK G \in Nat : Account(G) /\ Data(G)
    BY <2>1 DEF WholeInv, Intact
  <2>3. Same /\ Prefix /\ Carries
    BY <2>1 DEF WholeInv, Intact
  <2>4. CASE Ticks /\ G >= 2
    BY <1>1, <1>3, <2>1, <2>2, <2>3, <2>4, TicksIntact DEF WholeInv
  <2>5. CASE ~(Ticks /\ G >= 2)
    <3>1. PICK H \in Nat : G <= H /\ H = IF PhyOfA /\ PhyFails THEN G + 1 ELSE G
      <4>1. G + 1 \in Nat /\ G <= G + 1 /\ G <= G
        OBVIOUS
      <4>. QED  BY <4>1
    <3>2. Ticks => G < 2
      BY <2>5
    <3>3. Moves(G, H)
      BY <1>1, <2>1, <2>2, <2>3, <3>1, <3>2 DEF Moves, Sound
    <3>. QED  BY <1>1, <3>1, <3>3, MovesIntact
  <2>. QED  BY <2>4, <2>5
<1>. QED  BY <1>1, <1>2, <1>3 DEF WholeInv

-----------------------------------------------------------------------------
(* It holds at the start, when nothing is on its way. *)
LEMMA PairInitSafe == PairInit => Safe
<1> SUFFICES ASSUME PairInit PROVE Safe
  OBVIOUS
<1>1. /\ mbox = [t \in Task |-> <<>>] /\ fsm["LINK_MAC"] = "handle"
      /\ pool = [p \in Pdu |-> 0] /\ timer = [k \in TimerKey |-> 0] /\ due = {}
      /\ fatal = "none" /\ phy.send = "IDLE" /\ macSend.state = "IDLE" /\ pduFifo = <<>>
      /\ macRev.state = "IDLE" /\ macRev.pdu = None
  BY Tasks DEF PairInit, PhyInit, MacInit
<1>2. mbox["LINK_MAC"] = <<>> /\ mbox["LINK_PHY"] = <<>> /\ mbox["LINK"] = <<>>
  BY <1>1, Tasks
<1>3. /\ \A S : Cnt(mbox["LINK_MAC"], S) = 0 /\ Cnt(mbox["LINK_PHY"], S) = 0
      /\ \A p : Car(mbox["LINK_MAC"], p) = 0 /\ Car(mbox["LINK"], p) = 0
  BY <1>2, CntEmpty
<1>4. \A p : Occ(pduFifo, {p}) = 0
  BY <1>1, OccEmpty
<1>5. ~Holds
  BY <1>1 DEF Holds
<1>6. timer[PhySendTo] = 0 /\ timer[MacSendTo] = 0
  BY <1>1, Tasks
<1>7. Owned
  BY <1>1, <1>3, <1>4, <1>5, NoneIsNoPdu DEF Owned, One
<1>8. InFlight /\ Starting /\ Receiving /\ Fresh
  <2>1. One(FALSE) = 0 /\ One(phy.send = "SENDING") = 0 /\ One(Holds) = 0
    BY <1>1, <1>5 DEF One
  <2>2. InFlight
    BY <1>3, <2>1 DEF InFlight
  <2>3. Starting
    BY <1>3 DEF Starting
  <2>4. Receiving /\ Fresh
    BY <1>1 DEF Receiving, Fresh
  <2>. QED  BY <2>2, <2>3, <2>4
<1>9. PhyTimer /\ MacTimer /\ Budget /\ OnlyExhaustion
  <2>1. PhyTimer
    BY <1>1, <1>3, <1>6 DEF PhyTimer, One
  <2>2. MacTimer
    BY <1>1, <1>3, <1>5, <1>6 DEF MacTimer
  <2>3. Budget /\ OnlyExhaustion
    BY <1>1, <1>3 DEF Budget, OnlyExhaustion
  <2>. QED  BY <2>1, <2>2, <2>3
<1>. QED  BY <1>7, <1>8, <1>9 DEF Safe

LEMMA InitWholeInv == PairInit => WholeInv
<1> SUFFICES ASSUME PairInit PROVE WholeInv
  OBVIOUS
<1>1. /\ mbox["LINK"] = <<>> /\ mbox["LINK_MAC"] = <<>> /\ mbox["LINK_PHY"] = <<>> /\ mboxB = mbox
      /\ line = <<>> /\ lineB = <<>> /\ size = <<>> /\ given = <<>> /\ pduFifo = <<>> /\ dueB = {} /\ due = {}
      /\ macSend.seq = 0 /\ macSend.state = "IDLE" /\ phy.send = "IDLE" /\ macRevB.state = "IDLE"
      /\ macRev.state = "IDLE" /\ timer[MacRevTo] = 0 /\ timer[PhySendTo] = 0 /\ faults = 0
  BY Tasks DEF PairInit, PhyInit, MacInit
<1>a. mboxB["LINK"] = <<>> /\ mboxB["LINK_MAC"] = <<>> /\ mboxB["LINK_PHY"] = <<>>
  BY <1>1
<1>b. Len(<<>>) = 0 /\ 1..0 = {} /\ \A M : Occ(<<>>, M) = 0 /\ Cnt(<<>>, M) = 0
  BY OccEmpty, CntEmpty
<1>c. ~Sending /\ ~TimedOut /\ ~Holds
  BY <1>1 DEF Sending, TimedOut, Holds
<1>2. Base
  <2>1. Answers
    BY <1>1, <1>b DEF Answers
  <2>2. Punctual
    BY <1>1, <1>a, <1>b DEF Punctual
  <2>. QED  BY <1>1, <2>1, <2>2, PairInitInv, PairInitSafe DEF Base
<1>3. Room
  <2>1. Flying = 0 /\ One(TimedOut) = 0 /\ One(Sending) = 0
    BY <1>1, <1>a, <1>b, <1>c DEF Flying, One
  <2>. QED  BY <1>1, <2>1 DEF Room
<1>4. LineUp
  <2>1. Lined(mbox["LINK_MAC"], mbox["LINK"], pduFifo, pool, size, macSend.seq)
    BY <1>1, <1>b DEF Lined, InLine, FifoInLine, AskedTo, FifoTo, StartTo
  <2>. QED  BY <1>1, <2>1 DEF LineUp
<1>5. Same /\ Carries
  BY <1>1, <1>a, <1>b, <1>c DEF Same, Carries
<1>6. Prefix
  BY <1>1, <1>a, <1>b DEF Prefix
<1>7. Account(0)
  <2>1. Negative = 0
    BY <1>1, <1>a, <1>b DEF Negative
  <2>2. Paid(0)
    <3>1. \A k \in Nat : (k + 1) * 0 = 0
      OBVIOUS
    <3>2. (MaxRetry + 1) * 0 = 0
      BY <3>1, LeftFacts
    <3>. QED  BY <1>1, <1>c, <2>1, <3>2 DEF Paid, Owed
  <2>3. Window(0, 0, 0, 0 + One(Sending))
    <3>1. 0 + One(Sending) = 0
      BY <1>c DEF One
    <3>. QED  BY <1>1, <1>a, <1>b, <3>1 DEF Window, Down
  <2>. QED  BY <2>2, <2>3 DEF Account, Windowed
<1>8. Data(0)
  <2>1. Outbound = {} /\ Ears = {}
    BY <1>1, <1>a, <1>b DEF Outbound, OutboundOf, Ears, EarsOf
  <2>2. InOrderly(0) /\ Truth(0) /\ Tried(0)
    BY <1>c, <2>1 DEF InOrderly, Truth, Tried
  <2>3. Rest(0)
    BY <1>1, <2>1 DEF Rest, Abroad
  <2>. QED  BY <2>2, <2>3 DEF Data
<1>. QED  BY <1>2, <1>3, <1>4, <1>5, <1>6, <1>7, <1>8 DEF WholeInv, Intact

(* While the line has no more faults than it takes to give two frames up, every
   PDU that board B gives to its LINK task is one that was sent, whole: for any
   number of PDUs, of any number of frames.                                 *)
THEOREM PairWhole == Fits => (PairSpec => []Whole)
<1> SUFFICES ASSUME Fits PROVE PairSpec => []Whole
  OBVIOUS
<1>1. PairInit => WholeInv
  BY InitWholeInv
<1>2. WholeInv /\ [PairNext]_pairVars => WholeInv'
  BY NextWholeInv
<1>3. WholeInv => Whole
  <2>1. SUFFICES ASSUME WholeInv, faults <= Enough PROVE \A i \in DOMAIN given : \E s \in Sent : given[i] = FramesOf(s)
    BY DEF Whole, Enough
  <2>2. Prefix
    BY <2>1 DEF WholeInv, Intact
  <2>3. DOMAIN given = 1..Len(given)
    BY <2>1, BaseFacts DEF WholeInv, Receives
  <2>. QED  BY <2>2, <2>3 DEF Prefix
<1>. QED  BY <1>1, <1>2, <1>3, PTL DEF PairSpec

-----------------------------------------------------------------------------
(* What the receiver has yet to wait for the frame that is being sent: every
   refusal that is on its way costs an attempt less than it would take to time
   out, and what has nothing left to be answered waits for its timeout.     *)
Prompt == timer[PhySendTo] <= PhyTo
Wait == IF Sending /\ Hope = 0 /\ Negative = 0 THEN timer[PhySendTo] ELSE 0
Delay == PhyTo * Negative + Wait

LEMMA ClockFacts ==
  ASSUME Base
  PROVE  /\ timer \in [TimerKey -> 0..MacTo] /\ timer[PhySendTo] \in Nat
         /\ timerB[MacRevTo] \in Nat /\ MacTo \in Nat /\ PhyTo \in Nat /\ PhyTo >= 1
         /\ MacTo = PhyTo * Enough
<1>1. timer \in [TimerKey -> 0..MacTo] /\ timerB \in [TimerKey -> Nat]
  BY BaseFacts DEF IInv, Types, TypeOK, Receives
<1>2. timer[PhySendTo] \in 0..MacTo /\ timerB[MacRevTo] \in Nat
  BY <1>1, Tasks
<1>3. MacTo \in Nat /\ PhyTo \in Nat /\ PhyTo >= 1 /\ MaxRetry \in Nat
  BY LeftFacts
<1>4. timer[PhySendTo] \in Nat
  BY <1>2, <1>3
<1>5. MacTo = PhyTo * Enough
  <2>1. PICK r, p \in Nat : r = MaxRetry /\ p = PhyTo
    BY <1>3
  <2>2. 2 * (r + 1) * p = p * (2 * (r + 1))
    BY <2>1
  <2>. QED  BY <2>1, <2>2 DEF MacTo, Enough
<1>. QED  BY <1>1, <1>2, <1>3, <1>4, <1>5

LEMMA PromptKept ==
  ASSUME Base, PairSteps, Prompt
  PROVE  Prompt'
<1>1. timer \in [TimerKey -> 0..MacTo] /\ timer[PhySendTo] \in Nat /\ PhyTo \in Nat /\ PhySendTo \in TimerKey
  BY ClockFacts, Tasks
<1>2. CASE timer'[PhySendTo] = timer[PhySendTo]
  BY <1>2 DEF Prompt
<1>3. CASE timer'[PhySendTo] = PhyTo \/ timer'[PhySendTo] = 0
  BY <1>1, <1>3 DEF Prompt
<1>4. CASE Ticks
  <2>1. PICK t \in Nat : t = timer[PhySendTo] /\ t <= PhyTo
    BY <1>1 DEF Prompt
  <2>2. timer'[PhySendTo] = IF t = 0 THEN 0 ELSE t - 1
    BY <1>1, <1>4, <2>1 DEF Ticks
  <2>3. t = 0 \/ t - 1 <= PhyTo
    BY <1>1, <2>1
  <2>. QED  BY <1>1, <2>1, <2>2, <2>3 DEF Prompt
<1>5. CASE PhyOfA
  <2>1. \A n : [timer EXCEPT ![PhySendTo] = n][PhySendTo] = n
    BY <1>1
  <2>2. \/ timer' = [timer EXCEPT ![PhySendTo] = PhyTo] \/ timer' = [timer EXCEPT ![PhySendTo] = 0]
        \/ timer' = timer
    BY <1>5 DEF PhyOfA, PhyBegins, PhyAgain, PhyFails, PhySucceeds, PhyPasses, PhyObjects, Transmits, PhyAnswered
  <2>. QED  BY <1>2, <1>3, <2>1, <2>2
<1>6. CASE LedgerStays \/ PhyOfB \/ ReachesA \/ ReachesB
  BY <1>2, <1>6 DEF LedgerStays, PhyOfB, AStays, ReachesA, ReachesB
<1>. QED  BY <1>4, <1>5, <1>6, LedgerSteps

LEMMA DelayNat ==
  ASSUME Base
  PROVE  Wait \in Nat /\ Negative \in Nat /\ PhyTo * Negative \in Nat /\ Delay \in Nat
<1>1. Negative \in Nat /\ PhyTo \in Nat /\ timer[PhySendTo] \in Nat
  BY LedgerNat, ClockFacts
<1>2. Wait \in Nat
  BY <1>1 DEF Wait
<1>3. \A a, b \in Nat : a * b \in Nat
  OBVIOUS
<1>4. \A a, b \in Nat : a + b \in Nat
  OBVIOUS
<1>. QED  BY <1>1, <1>2, <1>3, <1>4 DEF Delay

LEMMA DelayNext == Base' => (Wait \in Nat /\ Negative \in Nat /\ PhyTo * Negative \in Nat /\ Delay \in Nat)'
<1>1. Base => Wait \in Nat /\ Negative \in Nat /\ PhyTo * Negative \in Nat /\ Delay \in Nat
  BY DelayNat
<1>. QED  BY <1>1, PTL

LEMMA Products ==
  /\ \A a, b \in Nat : a * b \in Nat
  /\ \A a, b \in Nat : a * (b + 1) = a * b + a
  /\ \A a, b, c \in Nat : b <= c => a * b <= a * c
  /\ \A a \in Nat : a * 0 = 0
<1>1. \A a, b \in Nat : a * b \in Nat
  OBVIOUS
<1>2. \A a, b \in Nat : a * (b + 1) = a * b + a
  OBVIOUS
<1>3. \A a, b, c \in Nat : b <= c => a * b <= a * c
  <2>. SUFFICES ASSUME NEW a \in Nat, NEW b \in Nat, NEW c \in Nat, b <= c PROVE a * b <= a * c
    OBVIOUS
  <2>1. PICK d \in Nat : c = b + d
    OBVIOUS
  <2>2. a * c = a * b + a * d /\ a * b \in Nat /\ a * d \in Nat
    BY <2>1
  <2>. QED  BY <2>2
<1>4. \A a \in Nat : a * 0 = 0
  OBVIOUS
<1>. QED  BY <1>1, <1>2, <1>3, <1>4

LEMMA Sums ==
  ASSUME NEW p \in Nat, NEW e \in Nat, NEW N \in Nat, NEW W \in Nat, NEW n \in Nat, NEW v \in Nat,
         NEW f \in Nat, v <= p, v # 0 => n = 0,
         \/ f = e /\ n = N /\ v <= W
         \/ f = e /\ N = n + 1
         \/ f = e + 1 /\ n <= N + 1
  PROVE  p * n + v + p * e <= p * N + W + p * f
<1>1. PICK a, b, c \in Nat : a = p * n /\ b = p * e /\ c = p * N
  BY Products
<1>2. CASE f = e /\ n = N /\ v <= W
  BY <1>1, <1>2
<1>3. CASE f = e /\ N = n + 1
  <2>1. c = a + p
    BY <1>1, <1>3, Products
  <2>2. a + v + b <= c + W + b
    BY <2>1
  <2>. QED  BY <1>1, <1>3, <2>2
<1>4. CASE f = e + 1 /\ n <= N + 1
  <2>1. p * f = b + p
    BY <1>1, <1>4, Products
  <2>2. a + v <= c + p
    <3>1. CASE v = 0
      <4>1. N + 1 \in Nat
        OBVIOUS
      <4>2. p * n <= p * (N + 1)
        BY <1>4, <4>1, Products
      <4>3. p * (N + 1) = c + p
        BY <1>1, Products
      <4>4. a <= c + p
        BY <1>1, <4>2, <4>3
      <4>. QED  BY <3>1, <4>4
    <3>2. CASE v # 0
      <4>1. n = 0
        BY <3>2
      <4>2. a = 0
        BY <1>1, <4>1, Products
      <4>. QED  BY <4>2
    <3>. QED  BY <3>1, <3>2
  <2>3. a + v + b <= c + W + (b + p)
    BY <2>2
  <2>. QED  BY <1>1, <2>1, <2>3
<1>. QED  BY <1>2, <1>3, <1>4

(* A task never adds to the delay; the line adds an attempt for every fault. *)
LEMMA DelayKept ==
  ASSUME Fits, Base, Base', Room, PairSteps, Prompt, faults <= Enough, ~Ticks
  PROVE  Delay' + PhyTo * faults <= Delay + PhyTo * faults'
<1>1. PICK p, e, N, w, W \in Nat : /\ p = PhyTo /\ e = faults /\ N = Negative /\ w = timer[PhySendTo] /\ W = Wait
  BY BaseFacts, ClockFacts, DelayNat
<1>2. PICK n, v, f \in Nat : n = Negative' /\ v = Wait' /\ f = faults'
  BY DelayNext, OwedNext
<1>3. Delay = p * N + W /\ Delay' = p * n + v
  BY <1>1, <1>2 DEF Delay
<1>4. Prompt'
  BY PromptKept
<1>5. v <= p /\ (v # 0 => n = 0)
  <2>1. v = 0 \/ (v = timer'[PhySendTo] /\ n = 0)
    BY <1>2 DEF Wait
  <2>2. timer'[PhySendTo] <= p
    BY <1>1, <1>4 DEF Prompt
  <2>3. 0 <= p
    BY <1>1
  <2>. QED  BY <2>1, <2>2, <2>3
<1>6. SUFFICES \/ f = e /\ n = N /\ v <= W
               \/ f = e /\ N = n + 1
               \/ f = e + 1 /\ n <= N + 1
  <2>1. p * n + v + p * e <= p * N + W + p * f
    BY <1>5, <1>6, Sums
  <2>. QED  BY <1>1, <1>2, <1>3, <2>1
<1>7. CASE PhyOfA
  <2>1. f = e /\ (n = N \/ N = 1 + n)
    BY <1>1, <1>2, <1>7, NegativeOfA DEF PhyOfA
  <2>2. v = 0 \/ (n = N => v = W) \/ N = 1 + n
    <3>1. CASE PhyBegins \/ PhyAgain
      <4>1. Hope' # 0
        BY <1>7, <3>1, HopeWritten
      <4>. QED  BY <1>2, <4>1 DEF Wait
    <3>2. CASE PhyFails \/ PhySucceeds
      <4>1. ~Sending'
        BY <1>7, <3>2, PhyClock
      <4>. QED  BY <1>2, <4>1 DEF Wait
    <3>3. CASE PhyPasses \/ PhyObjects
      <4>1. UNCHANGED <<phy, timer>> /\ (Sending' <=> Sending)
        BY <1>7, <3>3, PhyClock DEF Sending
      <4>2. CASE ~Sending
        BY <1>2, <4>1, <4>2 DEF Wait
      <4>3. CASE Sending
        <5>1. Hope' = Hope
          BY <1>7, <3>3, <4>3, HopePassed
        <5>2. n = N => v = W
          BY <1>1, <1>2, <4>1, <5>1 DEF Wait
        <5>. QED  BY <5>2
      <4>. QED  BY <4>2, <4>3
    <3>. QED  BY <1>7, <3>1, <3>2, <3>3 DEF PhyOfA
  <2>3. (v = 0 \/ v = W) => v <= W
    OBVIOUS
  <2>4. 1 + n = n + 1
    OBVIOUS
  <2>. QED  BY <2>1, <2>2, <2>3, <2>4
<1>8. CASE LedgerStays \/ PhyOfB
  <2>1. f = e /\ n = N /\ Hope' = Hope
    BY <1>1, <1>2, <1>8, QuietLedger, OwedOfB
  <2>2. phy' = phy /\ timer'[PhySendTo] = timer[PhySendTo]
    BY <1>8 DEF LedgerStays, PhyOfB, AStays
  <2>3. v = W
    BY <1>1, <1>2, <2>1, <2>2 DEF Wait, Sending
  <2>. QED  BY <2>1, <2>3
<1>9. CASE ReachesA \/ ReachesB
  <2>1. Disturbs /\ phy' = phy /\ timer'[PhySendTo] = timer[PhySendTo]
    BY <1>9, OwedReachesA, OwedReachesB DEF ReachesA, ReachesB
  <2>2. CASE f = e /\ n = N /\ Hope' = Hope
    <3>1. v = W
      BY <1>1, <1>2, <2>1, <2>2 DEF Wait, Sending
    <3>. QED  BY <2>2, <3>1
  <2>. QED  BY <1>1, <1>2, <2>1, <2>2 DEF Disturbs
<1>. QED  BY <1>7, <1>8, <1>9, LedgerSteps

(* It is paid for by the faults there were. *)
LEMMA DelayPaid ==
  ASSUME Base, Prompt, NEW G \in Nat, Paid(G)
  PROVE  Delay <= PhyTo * faults
<1>1. PICK p, e, N, W, o, r \in Nat : /\ p = PhyTo /\ e = faults /\ N = Negative /\ W = Wait /\ o = Owed
                                      /\ r = phy.retry
  BY BaseFacts, ClockFacts, DelayNat, LedgerNat
<1>2. o <= e
  <2>1. PICK k \in Nat : k = MaxRetry + 1
    BY EnoughNat
  <2>2. k * G \in Nat /\ k * G + o <= e
    BY <1>1, <2>1 DEF Paid
  <2>. QED  BY <1>1, <2>2
<1>3. CASE Sending /\ Hope = 0 /\ N = 0
  <2>1. W <= p
    BY <1>1, <1>3 DEF Wait, Prompt
  <2>2. o = r + 1 \/ o = r + 1 + 0
    BY <1>1, <1>3 DEF Owed, Cost
  <2>3. e >= 1
    BY <1>1, <1>2, <2>2
  <2>4. p * N = 0 /\ p * 1 <= p * e /\ p * 1 = p
    BY <1>1, <1>3, <2>3
  <2>. QED  BY <1>1, <2>1, <2>4 DEF Delay
<1>4. CASE ~(Sending /\ Hope = 0 /\ N = 0)
  <2>1. W = 0
    BY <1>1, <1>4 DEF Wait
  <2>2. N <= o
    <3>1. PICK c \in Nat : c = Cost /\ N <= c
      BY <1>1, LedgerNat
    <3>2. o = N \/ o = r + 1 + N \/ o = r + c
      BY <1>1, <3>1 DEF Owed
    <3>. QED  BY <1>1, <3>1, <3>2
  <2>3. N <= e
    BY <1>1, <1>2, <2>2
  <2>4. p * N <= p * e /\ p * N + 0 = p * N
    BY <1>1, <2>3
  <2>. QED  BY <1>1, <2>1, <2>4 DEF Delay
<1>. QED  BY <1>3, <1>4

-----------------------------------------------------------------------------
(* The receiver that waits for the rest of a PDU does not give it up: what is
   left of its timeout covers what is still to be waited for, as long as there
   are too few faults to give a PDU up.                                      *)
Few == faults < Enough
Timely == macRevB.state = "RECEIVING" =>
            NoTimeout /\ MacTo + Delay <= timerB[MacRevTo] + PhyTo * faults

LEMMA FewPaid ==
  ASSUME Base, NEW G \in Nat, Paid(G), Few
  PROVE  G < 2
<1>1. PICK k \in Nat : k = MaxRetry + 1
  BY EnoughNat
<1>2. PICK o, e \in Nat : o = Owed /\ e = faults
  BY BaseFacts, LedgerNat
<1>3. k * G + o <= e /\ e < 2 * k
  BY <1>1, <1>2 DEF Paid, Few, Enough
<1>4. SUFFICES ASSUME G >= 2 PROVE FALSE
  OBVIOUS
<1>5. PICK d \in Nat : G = 2 + d
  <2>1. G - 2 \in Nat /\ G = 2 + (G - 2)
    BY <1>4
  <2>. QED  BY <2>1
<1>6. k * G = 2 * k + k * d /\ k * d \in Nat
  BY <1>1, <1>5
<1>. QED  BY <1>1, <1>2, <1>3, <1>6

(* A PDU is only gathered while its sender holds it or something of it is left. *)
LEMMA GatheredIsLeft ==
  ASSUME Base, Prefix, NEW G \in Nat, Rest(G), G < 2, Outbound = {}, Waiting = {},
         macRevB.state = "RECEIVING"
  PROVE  Holds
<1> DEFINE r == macRevB.seq
           n == size[r + 1]
<1>1. Pipe /\ r \in Nat /\ size \in Seq(1..MaxFrames) /\ macSend.frame.seq \in Nat /\ r <= macSend.frame.seq
  BY BaseFacts, PipeFacts DEF Pipe
<1>2. PICK m \in 0 .. n - 2 : slots[macRevB.pdu] = Beginning(r, m)
  BY DEF Prefix
<1>3. r \in Sent /\ n \in Nat
  <2>1. r < Len(size)
    BY DEF Prefix
  <2>. QED  BY <1>1, <2>1, SizeAt
<1>4. SUFFICES ASSUME ~Holds PROVE FALSE
  OBVIOUS
<1>5. Over(r) /\ Abroad(r)
  <2>1. r < macSend.frame.seq \/ r = macSend.frame.seq
    BY <1>1
  <2>. QED  BY <1>4, <2>1 DEF Over, Abroad
<1>6. Met(Waiting, G, r, n - 1)
  BY <1>3, <1>5 DEF Rest, Reached
<1>7. Seen(G, r, n - 1)
  BY <1>6 DEF Met
<1>8. \E f \in slots[macRevB.pdu] : n - 1 <= f.fidx
  BY <1>1, <1>7 DEF Seen, Has
<1>9. PICK k \in 0..m : n - 1 <= FrameOf(r, k).fidx
  BY <1>2, <1>8 DEF Beginning
<1>10. n - 1 <= k
  BY <1>9 DEF FrameOf
<1>. QED  BY <1>2, <1>3, <1>9, <1>10

LEMMA TickedNumbers ==
  ASSUME NEW p \in Nat, p >= 1, NEW e \in Nat, NEW N \in Nat, NEW W \in Nat, NEW v \in Nat, NEW f \in Nat,
         \/ f = e /\ W = v + 1
         \/ f = e + 1 /\ v <= W
  PROVE  p * N + v + p * e + 1 <= p * N + W + p * f
<1>1. PICK a, b \in Nat : a = p * N /\ b = p * e
  BY Products
<1>2. CASE f = e /\ W = v + 1
  <2>1. a + v + b + 1 <= a + W + b
    BY <1>2
  <2>. QED  BY <1>1, <1>2, <2>1
<1>3. CASE f = e + 1 /\ v <= W
  <2>1. p * f = b + p
    BY <1>1, <1>3, Products
  <2>2. a + v + b + 1 <= a + W + (b + p)
    BY <1>3
  <2>. QED  BY <1>1, <2>1, <2>2
<1>. QED  BY <1>2, <1>3

(* While a PDU is gathered, every tick is paid for by a fault or taken off. *)
LEMMA DelayTicks ==
  ASSUME Base, Base', Prefix, NEW G \in Nat, Rest(G), G < 2, Ticks, macRevB.state = "RECEIVING"
  PROVE  Delay' + PhyTo * faults + 1 <= Delay + PhyTo * faults'
<1>1. PICK p, e, N, W \in Nat : p = PhyTo /\ p >= 1 /\ e = faults /\ N = Negative /\ W = Wait
  BY BaseFacts, ClockFacts, DelayNat
<1>2. PICK v, f \in Nat : v = Wait' /\ f = faults'
  BY DelayNext, OwedNext
<1>3. Negative' = N /\ Hope' = Hope
  BY <1>1, OwedTicks
<1>4. Delay = p * N + W /\ Delay' = p * N + v
  BY <1>1, <1>2, <1>3 DEF Delay
<1>5. SUFFICES \/ f = e /\ W = v + 1
               \/ f = e + 1 /\ v <= W
  <2>1. p * N + v + p * e + 1 <= p * N + W + p * f
    BY <1>1, <1>5, TickedNumbers
  <2>. QED  BY <1>1, <1>2, <1>4, <2>1
<1>6. UNCHANGED <<phy, line, lineB, mbox, mboxB>> /\ \A t \in Task : mbox[t] = <<>> /\ mboxB[t] = <<>>
  BY DEF Ticks, Idle
<1>7. PICK w \in Nat : w = timer[PhySendTo] /\ timer'[PhySendTo] = IF w = 0 THEN 0 ELSE w - 1
  <2>1. PhySendTo \in TimerKey /\ timer[PhySendTo] \in Nat
    BY ClockFacts, Tasks
  <2>2. timer'[PhySendTo] = IF timer[PhySendTo] = 0 THEN 0 ELSE timer[PhySendTo] - 1
    BY <2>1 DEF Ticks
  <2>. QED  BY <2>1, <2>2
<1>8. \/ W = 0 /\ v = 0
      \/ W = w /\ v = IF w = 0 THEN 0 ELSE w - 1
  BY <1>1, <1>2, <1>3, <1>6, <1>7 DEF Wait, Sending
<1>9. v <= W
  BY <1>8
<1>10. CASE line = <<>> /\ lineB = <<>>
  <2>1. f = e
    <3>1. faults' = faults + 0
      BY <1>10 DEF Ticks, One
    <3>. QED  BY <1>1, <1>2, <3>1
  <2>2. /\ mbox["LINK_PHY"] = <<>> /\ mbox["LINK_MAC"] = <<>>
        /\ mboxB["LINK_PHY"] = <<>> /\ mboxB["LINK_MAC"] = <<>>
    BY <1>6, Tasks
  <2>3. Negative = 0 /\ Hope = 0
    <3>1. \A M : Occ(<<>>, M) = 0
      BY OccEmpty
    <3>. QED  BY <1>10, <2>2, <3>1 DEF Hope, Negative
  <2>4. Sending
    <3>1. Outbound = {} /\ Waiting = {}
      BY <1>10, <2>2 DEF Outbound, OutboundOf, Waiting, WaitingOf, EarsOf
    <3>2. Holds
      BY <3>1, GatheredIsLeft
    <3>3. InFlight
      BY BaseFacts DEF Safe
    <3>4. Cnt(<<>>, {"FRAME_SEND_REQ"}) = 0 /\ Cnt(<<>>, {"FRAME_SEND_DONE", "FRAME_SEND_ERR"}) = 0
      BY CntEmpty
    <3>5. 0 + One(Sending) + 0 = One(Holds)
      BY <2>2, <3>3, <3>4 DEF InFlight, Sending
    <3>. QED  BY <3>2, <3>5 DEF One
  <2>5. w # 0
    <3>1. PhyTimer /\ PhySendTo \notin due
      BY BaseFacts DEF Safe, Ticks
    <3>2. Cnt(<<>>, {"FRAME_SEND_TO"}) = 0
      BY CntEmpty
    <3>3. One(timer[PhySendTo] # 0) + 0 + 0 = 1
      BY <2>2, <2>4, <3>1, <3>2 DEF PhyTimer, Sending, One
    <3>. QED  BY <1>7, <3>3 DEF One
  <2>6. W = w /\ v = w - 1
    <3>1. W = w
      BY <1>1, <1>7, <2>3, <2>4 DEF Wait
    <3>. QED  BY <1>8, <2>5, <3>1
  <2>. QED  BY <2>1, <2>5, <2>6
<1>11. CASE ~(line = <<>> /\ lineB = <<>>)
  <2>1. faults' = faults + 1
    BY <1>11 DEF Ticks, One
  <2>. QED  BY <1>1, <1>2, <1>9, <2>1
<1>. QED  BY <1>10, <1>11

LEMMA HeardInTime ==
  ASSUME Base, mboxB["LINK_MAC"] # <<>>, HeardMsg.sig = "FRAME_REV"
  PROVE  NoTimeout
<1> DEFINE M == mboxB["LINK_MAC"]
<1>1. M \in Seq(HeardMsgs) /\ M # <<>>
  BY BaseFacts
<1>2. /\ dueB = {} /\ 1 \in Ears
      /\ \A i \in 1..Len(Tail(M)) : i \in EarsOf(Tail(M))
  BY EarFacts
<1>3. \A i \in EarsOf(Tail(M)) : i + 1 \in EarsOf(M)
  BY <1>1, EarsTail
<1>4. \A i \in 1..Len(M) : i = 1 \/ i - 1 \in 1..Len(Tail(M))
  BY <1>1, TailAt
<1>5. ASSUME NEW i \in 1..Len(M) PROVE i \in Ears
  <2>1. (i - 1) + 1 = i
    OBVIOUS
  <2>2. CASE i - 1 \in 1..Len(Tail(M))
    BY <1>2, <1>3, <2>1, <2>2 DEF Ears
  <2>. QED  BY <1>2, <1>4, <2>2
<1>. QED  BY <1>2, <1>5 DEF NoTimeout

LEMMA NoTimeoutKept ==
  ASSUME Base, PairSteps, NoTimeout, ~Ticks
  PROVE  NoTimeout'
<1> DEFINE M == mboxB["LINK_MAC"]
<1>1. M \in Seq(HeardMsgs) /\ dueB = {} /\ (\A i \in 1..Len(M) : i \in EarsOf(M))
  BY BaseFacts DEF NoTimeout, Ears
<1>2. dueB' = {}
  BY <1>1, ReceiverKept
<1>3. PICK V : V = mboxB'["LINK_MAC"]
  OBVIOUS
<1>4. SUFFICES \A i \in 1..Len(V) : i \in EarsOf(V)
  BY <1>2, <1>3 DEF NoTimeout, Ears
<1>5. BoxSteps
  BY BoxStepsCover
<1>6. CASE BoxStays
  BY <1>1, <1>3, <1>6 DEF BoxStays
<1>7. ASSUME NEW h, BoxGrows(h) PROVE \A i \in 1..Len(V) : i \in EarsOf(V)
  <2>1. h \in AnyFrame /\ V = Append(M, [sig |-> "FRAME_REV", frame |-> h])
    BY <1>3, <1>7 DEF BoxGrows
  <2>2. PICK x \in HeardMsgs : x = [sig |-> "FRAME_REV", frame |-> h] /\ x.sig = "FRAME_REV"
    BY <2>1, BFields
  <2>3. \A i \in 1..Len(Append(M, x)) : i \in EarsOf(Append(M, x))
    BY <1>1, <2>2, EarsAppend
  <2>. QED  BY <2>1, <2>2, <2>3
<1>8. CASE BoxTaken
  BY <1>3, <1>8, EarFacts DEF BoxTaken
<1>9. ~BoxTimes
  BY <1>1 DEF BoxTimes
<1>. QED  BY <1>5, <1>6, <1>7, <1>8, <1>9 DEF BoxSteps

LEMMA ReceiverClock ==
  ASSUME Base, PairSteps
  PROVE  MacOfB \/ Ticks \/ (timerB' = timerB /\ macRevB' = macRevB)
<1>1. CASE BStays
  BY <1>1 DEF BStays, boardB
<1>. QED  BY <1>1 DEF PairSteps, PhyOfA, MacOfA, LinkOfA, Requests, ExpiresA, ReachesA, ReachesB,
                      PhyOfB, LinkOfB, ExpiresB, Idles

LEMMA TimelyKept ==
  ASSUME NEW G, NEW H, Moves(G, H), G < 2, Base', Prompt, Timely, Few'
  PROVE  Timely'
<1>1. /\ Fits /\ Base /\ Room /\ Prefix /\ G \in Nat /\ Rest(G) /\ Paid(G) /\ PairSteps /\ faults <= Enough
  BY SoundFacts DEF Account
<1> SUFFICES ASSUME macRevB'.state = "RECEIVING"
             PROVE  NoTimeout' /\ MacTo + Delay' <= timerB'[MacRevTo] + PhyTo * faults'
  BY DEF Timely
<1>2. PICK p, e, D, t, M \in Nat : /\ p = PhyTo /\ e = faults /\ D = Delay /\ t = timerB[MacRevTo] /\ M = MacTo
                                   /\ p >= 1
  BY <1>1, BaseFacts, ClockFacts, DelayNat
<1>3. PICK d, f \in Nat : d = Delay' /\ f = faults' /\ f < Enough
  BY DelayNext, OwedNext DEF Few
<1>4. PICK b, c \in Nat : b = p * e /\ c = p * f
  BY <1>2, <1>3, Products
<1>5. ~Ticks => d + b <= D + c
  BY <1>1, <1>2, <1>3, <1>4, DelayKept
<1>6. CASE ~Ticks /\ timerB' = timerB /\ macRevB' = macRevB
  <2>1. NoTimeout /\ M + D <= t + b
    BY <1>2, <1>4, <1>6 DEF Timely
  <2>2. NoTimeout'
    BY <1>1, <1>6, <2>1, NoTimeoutKept
  <2>3. M + d <= t + c
    BY <1>5, <1>6, <2>1
  <2>. QED  BY <1>2, <1>3, <1>4, <1>6, <2>2, <2>3
<1>7. CASE ~Ticks /\ MacOfB
  <2>1. CASE HeardMsg.sig = "FRAME_REV" /\ timerB'[MacRevTo] = MacTo
    <3>1. mboxB["LINK_MAC"] # <<>>
      BY <1>7 DEF MacOfB
    <3>2. NoTimeout'
      BY <1>1, <1>7, <2>1, <3>1, HeardInTime, NoTimeoutKept
    <3>3. D <= b
      BY <1>1, <1>2, <1>4, DelayPaid
    <3>4. M + d <= M + c
      BY <1>5, <1>7, <3>3
    <3>. QED  BY <1>2, <1>3, <1>4, <2>1, <3>2, <3>4
  <2>2. (HeardMsg.sig = "FRAME_REV" /\ timerB'[MacRevTo] = MacTo) \/ UNCHANGED <<timerB, macRevB>>
    BY <1>7 DEF MacOfB, RevClock
  <2>. QED  BY <1>6, <1>7, <2>1, <2>2
<1>8. CASE Ticks
  <2>1. macRevB' = macRevB /\ mboxB' = mboxB
    BY <1>8 DEF Ticks
  <2>2. NoTimeout /\ M + D <= t + b
    BY <1>2, <1>4, <2>1 DEF Timely
  <2>3. d + b + 1 <= D + c
    BY <1>1, <1>2, <1>3, <1>4, <1>8, <2>1, DelayTicks
  <2>4. c + p <= M
    <3>1. PICK k \in Nat : k = Enough
      BY EnoughNat
    <3>2. p * (f + 1) <= p * k
      <4>1. \A x, y \in Nat : x + 1 \in Nat /\ (x < y => x + 1 <= y)
        OBVIOUS
      <4>2. f + 1 \in Nat /\ f + 1 <= k
        BY <1>3, <3>1, <4>1
      <4>. QED  BY <4>2, Products
    <3>3. p * (f + 1) = c + p
      BY <1>2, <1>3, <1>4, Products
    <3>4. M = p * k
      BY <1>1, <1>2, <3>1, ClockFacts
    <3>. QED  BY <3>2, <3>3, <3>4
  <2>5. t >= 2 /\ M + d <= (t - 1) + c
    BY <1>2, <2>2, <2>3, <2>4
  <2>6. timerB'[MacRevTo] = t - 1
    <3>1. timerB'[MacRevTo] = IF t = 0 THEN 0 ELSE t - 1
      BY <1>2, <1>8 DEF Ticks
    <3>. QED  BY <2>5, <3>1
  <2>7. dueB' = {}
    <3>1. dueB' \subseteq {MacRevTo} /\ (MacRevTo \in dueB' <=> t = 1)
      BY <1>2, <1>8 DEF Ticks
    <3>. QED  BY <2>5, <3>1
  <2>8. NoTimeout'
    BY <2>1, <2>2, <2>7 DEF NoTimeout, Ears
  <2>. QED  BY <1>2, <1>3, <1>4, <2>5, <2>6, <2>8
<1>. QED  BY <1>1, <1>6, <1>7, <1>8, ReceiverClock

-----------------------------------------------------------------------------
(* A PDU is in hand when the LINK task of B was given it, or is told of it. *)
Handed(D, K, C, F) == \/ \E i \in 1..Len(D) : D[i] = F
                      \/ \E j \in 1..Len(K) : C[K[j].pdu] = F
InHand(s) == Handed(given, mboxB["LINK"], slots, FramesOf(s))

LEMMA HandSteps ==
  ASSUME Base, PairSteps
  PROVE  (given' = given /\ slots' = slots /\ mboxB'["LINK"] = mboxB["LINK"]) \/ MacOfB \/ LinkOfB
<1>1. \A t \in Task : \A v : [mboxB EXCEPT ![t] = v] # mboxB => TRUE
  OBVIOUS
<1>2. mboxB \in [Task -> Seq(BMsgs)]
  BY BaseFacts DEF Receives
<1>3. "LINK" \in Task /\ "LINK_PHY" \in Task /\ "LINK_MAC" \in Task
  BY Tasks
<1>4. CASE BStays
  BY <1>4 DEF BStays, boardB
<1>5. CASE ReachesA \/ Ticks \/ PhyOfB
  BY <1>5 DEF ReachesA, Ticks, PhyOfB
<1>6. CASE ReachesB \/ ExpiresB
  BY <1>2, <1>3, <1>6 DEF ReachesB, ExpiresB
<1>. QED  BY <1>4, <1>5, <1>6 DEF PairSteps, PhyOfA, MacOfA, LinkOfA, Requests, ExpiresA, Idles

LEMMA ToldPdus ==
  ASSUME Base
  PROVE  /\ mboxB["LINK"] \in Seq(RevMsgs) /\ slots \in [Pdu -> SUBSET AnyFrame]
         /\ given \in Seq(SUBSET AnyFrame)
         /\ \A j \in 1..Len(mboxB["LINK"]) : Told(j) \in Pdu /\ Told(j) # macRevB.pdu
         /\ \A i, j \in 1..Len(mboxB["LINK"]) : i < j => Told(i) # Told(j)
<1>1. mboxB["LINK"] \in Seq(RevMsgs) /\ Owns /\ Receives
  BY BaseFacts
<1>2. \A m \in RevMsgs : m.pdu \in Pdu
  BY DEF RevMsgs
<1>3. \A j \in 1..Len(mboxB["LINK"]) : mboxB["LINK"][j] \in RevMsgs
  BY <1>1
<1>. QED  BY <1>1, <1>2, <1>3 DEF Told, Owns, Receives

LEMMA HandedKept ==
  ASSUME NEW G, NEW H, Moves(G, H), NEW F, Handed(given, mboxB["LINK"], slots, F)
  PROVE  Handed(given', mboxB'["LINK"], slots', F)
<1> DEFINE L == mboxB["LINK"]
<1>1. Base /\ PairSteps /\ Prefix /\ InOrderly(G)
  BY SoundFacts
<1>2. /\ L \in Seq(RevMsgs) /\ slots \in [Pdu -> SUBSET AnyFrame] /\ given \in Seq(SUBSET AnyFrame)
      /\ \A j \in 1..Len(L) : L[j].pdu \in Pdu /\ L[j].pdu # macRevB.pdu
      /\ \A i, j \in 1..Len(L) : i < j => L[i].pdu # L[j].pdu
  BY <1>1, ToldPdus DEF Told
<1>3. \/ \E i \in 1..Len(given) : given[i] = F
      \/ \E j \in 1..Len(L) : slots[L[j].pdu] = F
  BY DEF Handed
<1>4. ASSUME NEW K, K = L', NEW C, C = slots', given' = given,
             \A j \in 1..Len(L) : j \in 1..Len(K) /\ K[j] = L[j] /\ C[L[j].pdu] = slots[L[j].pdu]
      PROVE  Handed(given', L', slots', F)
  <2>1. Handed(given, K, C, F)
    BY <1>3, <1>4 DEF Handed
  <2>. QED  BY <1>4, <2>1
<1>5. CASE given' = given /\ slots' = slots /\ L' = L
  BY <1>3, <1>5 DEF Handed
<1>6. ASSUME MacOfB, MacForgets PROVE Handed(given', L', slots', F)
  <2>1. given' = given /\ L' = L /\ slots' = [slots EXCEPT ![macRevB.pdu] = {}]
    BY <1>6 DEF MacOfB, MacForgets
  <2>2. PICK C : C = [slots EXCEPT ![macRevB.pdu] = {}]
    OBVIOUS
  <2>3. \A j \in 1..Len(L) : C[L[j].pdu] = slots[L[j].pdu]
    BY <1>2, <2>2
  <2>. QED  BY <1>4, <2>1, <2>2, <2>3
<1>7. ASSUME MacOfB, NEW q \in Pdu, MacTakes(q) PROVE Handed(given', L', slots', F)
  <2>1. given' = given /\ slots' = [slots EXCEPT ![q] = @ \cup {HeardMsg.frame}]
    BY <1>7 DEF MacOfB, MacTakes
  <2>2. \A j \in 1..Len(L) : L[j].pdu # q
    BY <1>1, <1>7, Gathers DEF Told
  <2>3. PICK C : C = [slots EXCEPT ![q] = @ \cup {HeardMsg.frame}]
    OBVIOUS
  <2>4. \A j \in 1..Len(L) : C[L[j].pdu] = slots[L[j].pdu]
    BY <1>2, <2>2, <2>3
  <2>5. PICK K : K = L'
    OBVIOUS
  <2>6. K = L \/ K = Append(L, PduMsg("REV_MSG", q))
    BY <1>7, <2>5 DEF MacTakes
  <2>7. \A j \in 1..Len(L) : j \in 1..Len(K) /\ K[j] = L[j]
    BY <1>2, <2>6, AppendAt DEF PduMsg, RevMsgs
  <2>8. \A j \in 1..Len(L) : j \in 1..Len(K) /\ K[j] = L[j] /\ C[L[j].pdu] = slots[L[j].pdu]
    BY <2>4, <2>7
  <2>9. K = L' /\ C = slots' /\ given' = given
    BY <2>1, <2>3, <2>5
  <2>. QED  BY <1>4, <2>8, <2>9
<1>8. ASSUME LinkOfB PROVE Handed(given', L', slots', F)
  <2>1. /\ L # <<>> /\ given' = Append(given, slots[L[1].pdu])
        /\ slots' = [slots EXCEPT ![L[1].pdu] = {}] /\ L' = Tail(L)
    BY <1>8 DEF LinkOfB, Told
  <2>2. /\ 1 \in 1..Len(L)
        /\ \A j \in 1..Len(L) : j = 1 \/ (j - 1 \in 1..Len(Tail(L)) /\ L[j] = Tail(L)[j - 1])
    BY <1>2, <2>1, TailAt
  <2>3. PICK x : x = slots[L[1].pdu] /\ x \in SUBSET AnyFrame
    BY <1>2, <2>2
  <2>4. PICK D, C : D = Append(given, x) /\ C = [slots EXCEPT ![L[1].pdu] = {}]
    OBVIOUS
  <2>5. /\ \A i \in 1..Len(given) : i \in 1..Len(D) /\ D[i] = given[i]
        /\ D[Len(given) + 1] = x /\ Len(given) + 1 \in 1..Len(D)
    BY <1>2, <2>3, <2>4, AppendAt
  <2>6. ASSUME NEW j \in 1..Len(L), slots[L[j].pdu] = F
        PROVE  (\E i \in 1..Len(D) : D[i] = F) \/ \E i \in 1..Len(Tail(L)) : C[Tail(L)[i].pdu] = F
    <3>1. CASE j = 1
      BY <2>3, <2>5, <2>6, <3>1
    <3>2. CASE j # 1
      <4>1. j - 1 \in 1..Len(Tail(L)) /\ L[j] = Tail(L)[j - 1]
        BY <2>2, <3>2
      <4>2. 1 < j
        BY <3>2
      <4>3. L[j].pdu # L[1].pdu /\ L[j].pdu \in Pdu
        BY <1>2, <2>2, <4>2
      <4>4. C[L[j].pdu] = F
        BY <1>2, <2>4, <2>6, <4>3
      <4>. QED  BY <4>1, <4>4
    <3>. QED  BY <3>1, <3>2
  <2>7. Handed(D, Tail(L), C, F)
    BY <1>3, <2>5, <2>6 DEF Handed
  <2>. QED  BY <2>1, <2>3, <2>4, <2>7
<1>9. ASSUME MacOfB PROVE Handed(given', L', slots', F)
  <2>1. given' = given
    BY <1>9 DEF MacOfB
  <2>2. MacPasses => L' = L /\ slots' = slots
    BY DEF MacPasses
  <2>. QED  BY <1>5, <1>6, <1>7, <1>9, <2>1, <2>2 DEF MacOfB
<1>. QED  BY <1>1, <1>5, <1>8, <1>9, HandSteps

LEMMA FramesSame ==
  ASSUME Base, PairSteps, NEW s \in Sent
  PROVE  s \in Sent' /\ FramesOf(s)' = FramesOf(s) /\ size'[s + 1] = size[s + 1]
<1>1. s \in Nat /\ s < Len(size') /\ size'[s + 1] = size[s + 1] /\ Len(size') \in Nat
  BY SizeKept, SizeAt
<1>2. \A n \in Nat : s < n => s \in 0 .. n - 1
  BY <1>1
<1>. QED  BY <1>1, <1>2 DEF Sent, FramesOf

LEMMA InHandKept ==
  ASSUME NEW G, NEW H, Moves(G, H), NEW s \in Sent, InHand(s)
  PROVE  InHand(s)'
<1>1. Base /\ PairSteps
  BY SoundFacts
<1>2. PICK F : F = FramesOf(s) /\ F = FramesOf(s)'
  BY <1>1, FramesSame
<1>3. Handed(given', mboxB'["LINK"], slots', F)
  BY <1>2, HandedKept DEF InHand
<1>. QED  BY <1>2, <1>3 DEF InHand

(* The last frame of a PDU hands it over. *)
LEMMA HandsOver ==
  ASSUME NEW G, NEW H, Moves(G, H), MacOfB, NEW q \in Pdu, MacTakes(q), macRevB'.state = "IDLE",
         NEW s, s = HeardMsg.frame.seq
  PROVE  s \in Sent /\ macRevB'.seq = s /\ InHand(s)'
<1> DEFINE L == mboxB["LINK"]
<1>1. Base /\ PairSteps /\ Prefix /\ InOrderly(G) /\ L \in Seq(RevMsgs)
  BY SoundFacts, ToldPdus
<1>2. /\ HeardMsg.frame.fidx = HeardMsg.frame.fnum - 1
      /\ L' = Append(L, PduMsg("REV_MSG", q))
      /\ macRevB' = [state |-> "IDLE", pdu |-> None, seq |-> HeardMsg.frame.seq]
  BY DEF MacTakes
<1>3. s \in Sent /\ slots'[q] = FramesOf(s)
  BY <1>1, <1>2, Gathers
<1>4. PICK x \in RevMsgs : x = PduMsg("REV_MSG", q) /\ x.pdu = q
  BY BFields
<1>5. Append(L, x)[Len(L) + 1] = x /\ Len(L) + 1 \in 1..Len(Append(L, x))
  BY <1>1, AppendAt
<1>6. PICK K : K = L' /\ \E j \in 1..Len(K) : K[j].pdu = q
  BY <1>2, <1>4, <1>5
<1>7. PICK F : F = FramesOf(s) /\ F = FramesOf(s)'
  BY <1>1, <1>3, FramesSame
<1>8. Handed(given', K, slots', F)
  BY <1>3, <1>6, <1>7 DEF Handed
<1>9. InHand(s)'
  BY <1>6, <1>7, <1>8 DEF InHand
<1>. QED  BY <1>2, <1>3, <1>9

-----------------------------------------------------------------------------
(* What the receiver is done with was handed over. *)
Unopened == macRevB.seq = first /\ given = <<>> /\ mboxB["LINK"] = <<>>
Delivered == macRevB.state = "IDLE" => Unopened \/ (macRevB.seq \in Sent /\ InHand(macRevB.seq))

LEMMA DeliveredKept ==
  ASSUME NEW G, NEW H, Moves(G, H), Base', first' = first, Timely, Delivered
  PROVE  Delivered'
<1>1. /\ Base /\ PairSteps /\ macRevB \in MacReceiver /\ macRevB.state \in {"IDLE", "RECEIVING"}
  BY SoundFacts, BaseFacts DEF Receives, MacReceiver
<1> SUFFICES ASSUME macRevB'.state = "IDLE"
             PROVE  Unopened' \/ (macRevB.seq \in Sent /\ InHand(macRevB.seq))'
  BY DEF Delivered
<1>2. PICK r : r = macRevB'.seq
  OBVIOUS
<1>3. SUFFICES Unopened' \/ (r \in Sent' /\ InHand(r)')
  BY <1>2 DEF InHand, FramesOf
<1>4. CASE macRevB' = macRevB /\ macRevB.seq \in Sent /\ InHand(macRevB.seq)
  <2>1. r \in Sent /\ InHand(r)
    BY <1>2, <1>4
  <2>2. InHand(r)'
    BY <2>1, InHandKept
  <2>3. r \in Sent'
    BY <1>1, <2>1, FramesSame
  <2>. QED  BY <2>2, <2>3
<1>5. CASE macRevB' = macRevB /\ Unopened
  <2>1. ~LinkOfB
    BY <1>5 DEF LinkOfB, Unopened
  <2>2. (given' = given /\ mboxB'["LINK"] = mboxB["LINK"]) \/ MacOfB
    BY <1>1, <2>1, HandSteps
  <2>3. CASE given' = given /\ mboxB'["LINK"] = mboxB["LINK"]
    BY <1>5, <2>3 DEF Unopened
  <2>4. CASE MacOfB
    <3>1. CASE \E q \in Pdu : MacTakes(q)
      <4>1. PICK q \in Pdu : MacTakes(q)
        BY <3>1
      <4>2. PICK s : s = HeardMsg.frame.seq
        OBVIOUS
      <4>3. s \in Sent /\ macRevB'.seq = s /\ InHand(s)'
        BY <2>4, <4>1, <4>2, HandsOver
      <4>4. s \in Sent'
        BY <1>1, <4>3, FramesSame
      <4>. QED  BY <1>2, <4>3, <4>4
    <3>2. CASE ~\E q \in Pdu : MacTakes(q)
      <4>1. given' = given /\ mboxB'["LINK"] = mboxB["LINK"]
        BY <2>4, <3>2 DEF MacOfB, MacPasses, MacForgets
      <4>. QED  BY <2>3, <4>1
    <3>. QED  BY <3>1, <3>2
  <2>. QED  BY <2>2, <2>3, <2>4
<1>6. CASE macRevB' = macRevB
  <2>1. macRevB.state = "IDLE"
    BY <1>6
  <2>. QED  BY <1>4, <1>5, <1>6, <2>1 DEF Delivered
<1>7. ASSUME MacOfB, NEW q \in Pdu, MacTakes(q) PROVE Unopened' \/ (r \in Sent' /\ InHand(r)')
  <2>1. PICK s : s = HeardMsg.frame.seq
    OBVIOUS
  <2>2. s \in Sent /\ macRevB'.seq = s /\ InHand(s)'
    BY <1>7, <2>1, HandsOver
  <2>3. s \in Sent'
    BY <1>1, <2>2, FramesSame
  <2>. QED  BY <1>2, <2>2, <2>3
<1>8. MacOfB => ~MacForgets
  <2>1. SUFFICES ASSUME MacOfB, MacForgets PROVE FALSE
    OBVIOUS
  <2>2. macRevB.state = "RECEIVING" /\ HeardMsg.sig = "FRAME_REV_TO" /\ mboxB["LINK_MAC"] # <<>>
    BY <2>1 DEF MacOfB, MacForgets
  <2>3. \A i \in 1..Len(mboxB["LINK_MAC"]) : i \in Ears
    BY <2>2 DEF Timely, NoTimeout
  <2>4. Head(mboxB["LINK_MAC"]) = mboxB["LINK_MAC"][1] /\ 1 \in 1..Len(mboxB["LINK_MAC"])
    BY <1>1, <2>2, BaseFacts, TailAt
  <2>5. HeardMsg.sig = "FRAME_REV"
    BY <2>3, <2>4 DEF Ears, EarsOf, HeardMsg
  <2>. QED  BY <2>2, <2>5
<1>9. macRevB' = macRevB \/ MacOfB
  BY <1>1, ReceiverKept DEF ReceiverStays
<1>10. MacOfB => macRevB' = macRevB \/ \E q \in Pdu : MacTakes(q)
  BY <1>8 DEF MacOfB, MacPasses
<1>. QED  BY <1>6, <1>7, <1>9, <1>10

-----------------------------------------------------------------------------
(* The PDUs that the sender is done with. *)
Ended(s) == s + One(Holds) < macSend.seq

(* The frame of the sender is of the last PDU that it has begun. *)
Numbered == Holds \/ macSend.seq > 0 => macSend.frame.seq + 1 = macSend.seq

(* A step that ends one. *)
EndsOne == MacOfA /\ (MacSucceeds \/ MacAbandons)

LEMMA SeqNat == Base => macSend.seq \in Nat /\ macSend.frame.seq \in Nat /\ macSend \in MacSender
<1>1. ASSUME Base PROVE macSend.seq \in Nat /\ macSend.frame.seq \in Nat /\ macSend \in MacSender
  BY <1>1, LineFacts, PipeFacts DEF LineTypes, Pipe
<1>. QED  BY <1>1

LEMMA SeqNatNext == Base' => (macSend.seq \in Nat /\ macSend.frame.seq \in Nat)'
<1>1. Base => macSend.seq \in Nat /\ macSend.frame.seq \in Nat
  BY SeqNat
<1>. QED  BY <1>1, PTL

LEMMA EndedSteps ==
  ASSUME Base, Base', PairSteps, Numbered
  PROVE  /\ Numbered'
         /\ EndsOne => /\ Holds /\ ~Holds' /\ macSend'.seq = macSend.seq
                       /\ macSend'.frame.seq = macSend.frame.seq
         /\ ~EndsOne => macSend'.seq + One(Holds) = macSend.seq + One(Holds')
<1>1. macSend.seq \in Nat /\ macSend.frame.seq \in Nat /\ macSend \in MacSender /\ macSend.frame \in Frame
  BY SeqNat DEF MacSender
<1>2. macSend'.seq \in Nat /\ macSend'.frame.seq \in Nat
  BY SeqNatNext
<1>3. \A n \in Nat : n + 0 = n /\ n + 1 + 0 = n + 1
  OBVIOUS
<1>4. ASSUME macSend'.seq = macSend.seq, macSend'.frame.seq = macSend.frame.seq, Holds' <=> Holds
      PROVE  Numbered' /\ macSend'.seq + One(Holds) = macSend.seq + One(Holds')
  BY <1>4 DEF Numbered, One
<1>5. CASE EndsOne
  <2>1. Holds /\ ~Holds' /\ macSend'.frame.seq = macSend.frame.seq
    BY <1>5, SenderRests DEF EndsOne
  <2>2. macSend'.seq = macSend.seq
    BY <1>5 DEF EndsOne, MacSucceeds, MacAbandons, MacIsDone
  <2>3. Numbered'
    BY <2>1, <2>2 DEF Numbered
  <2>. QED  BY <1>5, <2>1, <2>2, <2>3
<1>6. CASE ~MacOfA
  <2>1. ~EndsOne
    BY <1>6 DEF EndsOne
  <2>2. macSend' = macSend /\ (Holds' <=> Holds)
    BY <1>6, SenderStays
  <2>. QED  BY <1>4, <2>1, <2>2
<1>7. CASE MacOfA /\ ~EndsOne
  <2>0. Alone'
    BY AloneNext
  <2>1. SendsOne' => Holds'
    BY <2>0 DEF SendsOne, Alone
  <2>2. CASE MacOrders
    <3>1. ~Holds /\ ~Holds' /\ macSend'.frame.seq = macSend.frame.seq
      BY <1>7, <2>2, SenderRests
    <3>2. macSend'.seq = macSend.seq
      BY <1>1, <2>2 DEF MacOrders, MacSender
    <3>. QED  BY <1>4, <1>7, <3>1, <3>2
  <2>3. CASE MacDefers
    <3>1. macSend' = macSend /\ (Holds' <=> Holds)
      BY <1>7, <2>3, SenderDefers
    <3>. QED  BY <1>4, <1>7, <3>1
  <2>4. CASE MacFirst
    <3>1. Holds' /\ ~Holds /\ macSend'.frame.seq = macSend.seq
      BY <1>7, <2>1, <2>4, SenderFirst DEF MacFirst
    <3>2. macSend'.seq = macSend.seq + 1
      <4>1. PICK s : /\ s = [macSend EXCEPT !.retry = 0, !.pdu = MacMsg.pdu, !.seq = @ + 1,
                               !.frame = [seq |-> macSend.seq, fidx |-> 0, fnum |-> pool[MacMsg.pdu]]]
                     /\ MacSends(s)
        BY <2>4 DEF MacFirst
      <4>2. s.seq = macSend.seq + 1
        BY <1>1, <4>1 DEF MacSender
      <4>. QED  BY <4>1, <4>2 DEF MacSends
    <3>3. Numbered'
      BY <3>1, <3>2 DEF Numbered
    <3>4. One(Holds) = 0 /\ One(Holds') = 1
      BY <3>1 DEF One
    <3>5. macSend'.seq + One(Holds) = macSend.seq + One(Holds')
      <4>1. macSend'.seq + 0 = macSend.seq + 1
        BY <1>1, <1>3, <3>2
      <4>. QED  BY <3>4, <4>1
    <3>. QED  BY <1>7, <3>3, <3>5
  <2>5. CASE MacGoesOn \/ MacRepeats
    <3>1. Holds' /\ Holds
      BY <1>7, <2>1, <2>5, SenderGoesOn, SenderRepeats
    <3>2. PICK s : /\ \/ s = [macSend EXCEPT !.frame.fidx = @ + 1]
                      \/ s = [macSend EXCEPT !.retry = 1, !.frame.fidx = 0]
                   /\ MacSends(s)
      BY <2>5 DEF MacGoesOn, MacRepeats
    <3>3. s.seq = macSend.seq
      BY <1>1, <3>2 DEF MacSender
    <3>4. macSend'.frame.seq = macSend.frame.seq
      <4>1. PICK k : macSend'.frame = [macSend.frame EXCEPT !.fidx = k]
        BY <1>7, <2>5, SenderGoesOn, SenderRepeats
      <4>2. [macSend.frame EXCEPT !.fidx = k].seq = macSend.frame.seq
        BY <1>1 DEF Frame
      <4>. QED  BY <4>1, <4>2
    <3>. QED  BY <1>4, <1>7, <3>1, <3>2, <3>3, <3>4 DEF MacSends
  <2>. QED  BY <1>7, <2>2, <2>3, <2>4, <2>5 DEF MacOfA, EndsOne
<1>. QED  BY <1>5, <1>6, <1>7

(* Only a PDU whose last frame was acknowledged ends as long as nothing was given up twice. *)
LEMMA NoneAbandoned ==
  ASSUME Base, NEW G \in Nat, Tried(G), G < 2
  PROVE  ~(MacOfA /\ MacAbandons)
<1>1. SUFFICES ASSUME MacOfA, MacAbandons PROVE FALSE
  OBVIOUS
<1>2. Holds /\ Waits("FRAME_SEND_ERR") # 0
  BY <1>1, SenderRests
<1>3. PICK w \in Nat : w = Waits("FRAME_SEND_ERR")
  BY OnlyOne
<1>4. PICK r \in Nat : r = macSend.retry /\ r >= 1
  <2>1. macSend.retry \in Nat
    <3>1. Counter \subseteq Nat
      BY DEF Counter
    <3>. QED  BY <3>1, SeqNat DEF MacSender
  <2>. QED  BY <1>1, <2>1 DEF MacAbandons
<1>5. r + w <= G
  BY <1>2, <1>3, <1>4 DEF Tried
<1>. QED  BY <1>2, <1>3, <1>4, <1>5

-----------------------------------------------------------------------------
(* A PDU that the sender is done with is in hand, or its last frame waits. *)
LastOf(s) == FrameOf(s, size[s + 1] - 1)
Landed == \A s \in Sent : Ended(s) /\ ~TakenForOld(s) => InHand(s) \/ LastOf(s) \in Waiting

(* What the receiver has seen the last frame of is in hand. *)
LEMMA SeenInHand ==
  ASSUME Base, Prefix, Delivered, Landed, NEW G \in Nat, G < 2, NEW s \in Sent, ~TakenForOld(s),
         s >= 1 => Ended(s - 1), Seen(G, s, size[s + 1] - 1), \A f \in Waiting : s <= f.seq
  PROVE  InHand(s)
<1>1. s \in Nat /\ s < Len(size) /\ size[s + 1] \in Nat /\ Len(size) \in Nat
  BY SizeAt
<1>2. PICK n \in Nat : n = size[s + 1]
  BY <1>1
<1>3. CASE macRevB.state = "RECEIVING" /\ macRevB.seq = s /\ \E f \in slots[macRevB.pdu] : n - 1 <= f.fidx
  <2>1. PICK m \in 0 .. n - 2 : slots[macRevB.pdu] = Beginning(s, m)
    BY <1>2, <1>3 DEF Prefix
  <2>2. PICK k \in 0..m : n - 1 <= FrameOf(s, k).fidx
    BY <1>3, <2>1 DEF Beginning
  <2>3. n - 1 <= k
    BY <2>2 DEF FrameOf
  <2>4. FALSE
    BY <1>2, <2>1, <2>2, <2>3
  <2>. QED  BY <2>4
<1>4. CASE macRevB.state = "IDLE" /\ macRevB.seq = s
  <2>1. Unopened \/ InHand(s)
    BY <1>4 DEF Delivered
  <2>2. ASSUME Unopened PROVE FALSE
    <3>1. first = s /\ given = <<>> /\ mboxB["LINK"] = <<>>
      BY <1>4, <2>2 DEF Unopened
    <3>2. s # 0
      BY <3>1 DEF TakenForOld
    <3>3. s - 1 \in Nat /\ s - 1 < Len(size) /\ s >= 1 /\ ~(s <= s - 1)
      BY <1>1, <3>2
    <3>4. s - 1 \in Sent
      BY <3>3, SizeAt
    <3>5. ~TakenForOld(s - 1) /\ Ended(s - 1)
      BY <3>1, <3>2, <3>3 DEF TakenForOld
    <3>6. InHand(s - 1) \/ LastOf(s - 1) \in Waiting
      BY <3>4, <3>5 DEF Landed
    <3>7. ~InHand(s - 1)
      <4>1. \A i : i \notin 1..0
        OBVIOUS
      <4>2. Len(given) = 0 /\ Len(mboxB["LINK"]) = 0
        BY <3>1
      <4>. QED  BY <4>1, <4>2 DEF InHand, Handed
    <3>8. LastOf(s - 1).seq = s - 1
      BY DEF LastOf, FrameOf
    <3>. QED  BY <3>3, <3>6, <3>7, <3>8
  <2>. QED  BY <2>1, <2>2
<1>5. ~(G >= 2)
  OBVIOUS
<1>. QED  BY <1>2, <1>3, <1>4, <1>5 DEF Seen, Has

LEMMA HeadLands ==
  ASSUME NEW G, NEW H, Moves(G, H), G < 2, Delivered, Landed, NEW s \in Sent, Ended(s), ~TakenForOld(s),
         BoxTaken, HeardMsg.sig = "FRAME_REV", HeardMsg.frame = LastOf(s)
  PROVE  InHand(s)'
<1>1. /\ Base /\ Prefix /\ G \in Nat /\ Rest(G) /\ InOrderly(G) /\ MacOfB /\ mboxB["LINK_MAC"] # <<>>
      /\ mboxB'["LINK_MAC"] = Tail(mboxB["LINK_MAC"])
  BY SoundFacts DEF BoxTaken
<1>2. s \in Nat /\ s < Len(size) /\ size[s + 1] \in Nat
  BY <1>1, SizeAt
<1>3. HeardMsg.frame.seq = s /\ HeardMsg.frame.fidx = size[s + 1] - 1 /\ HeardMsg.frame.fnum = size[s + 1]
  BY DEF LastOf, FrameOf
<1>4. CASE \E q \in Pdu : MacTakes(q)
  <2>1. PICK q \in Pdu : MacTakes(q)
    BY <1>4
  <2>2. macRevB'.state = "IDLE"
    BY <1>3, <2>1 DEF MacTakes
  <2>. QED  BY <1>1, <1>3, <2>1, <2>2, HandsOver
<1>5. CASE MacPasses
  <2>1. ~(macRevB.state = "RECEIVING" /\ macRevB.seq # HeardMsg.frame.seq)
    <3>1. ~(G >= 2)
      BY <1>1
    <3>. QED  BY <1>1, <3>1, LeftBehind
  <2>2. macRevB.state = "IDLE" /\ macRevB.seq = s
    BY <1>3, <1>5, <2>1 DEF MacPasses
  <2>3. Seen(G, s, size[s + 1] - 1)
    BY <2>2 DEF Seen, Has
  <2>4. \A f \in Waiting : s <= f.seq
    BY <1>1, <1>3, EarFacts
  <2>5. s >= 1 => Ended(s - 1)
    <3>1. macSend.seq \in Nat
      BY <1>1, SeqNat
    <3>. QED  BY <1>2, <3>1 DEF Ended, One
  <2>6. InHand(s)
    BY <1>1, <2>3, <2>4, <2>5, SeenInHand
  <2>. QED  BY <2>6, InHandKept
<1>6. ~MacForgets
  BY DEF MacForgets
<1>7. mboxB' # mboxB
  <2>1. PICK M \in Seq(HeardMsgs) : M = mboxB["LINK_MAC"] /\ M # <<>>
    BY <1>1, BaseFacts
  <2>2. Len(Tail(M)) # Len(M)
    <3>1. Len(M) \in Nat /\ Len(Tail(M)) \in Nat /\ Len(Tail(M)) + 1 = Len(M)
      BY <2>1, TailAt
    <3>. QED  BY <3>1
  <2>. QED  BY <1>1, <2>1, <2>2
<1>. QED  BY <1>1, <1>4, <1>5, <1>6, <1>7 DEF MacOfB

LEMMA WaitingKept ==
  ASSUME Base, PairSteps, NEW f \in Waiting
  PROVE  f \in Waiting' \/ (BoxTaken /\ HeardMsg.sig = "FRAME_REV" /\ HeardMsg.frame = f)
<1> DEFINE M == mboxB["LINK_MAC"]
<1>1. M \in Seq(HeardMsgs) /\ f \in WaitingOf(M)
  BY BaseFacts DEF Waiting
<1>2. PICK V : V = mboxB'["LINK_MAC"]
  OBVIOUS
<1>3. SUFFICES f \in WaitingOf(V) \/ (BoxTaken /\ HeardMsg.sig = "FRAME_REV" /\ HeardMsg.frame = f)
  BY <1>2 DEF Waiting
<1>4. CASE BoxStays
  BY <1>1, <1>2, <1>4 DEF BoxStays
<1>5. CASE BoxTimes \/ \E h : BoxGrows(h)
  <2>1. PICK x \in HeardMsgs : V = Append(M, x)
    BY <1>2, <1>5, BFields DEF BoxTimes, BoxGrows
  <2>2. WaitingOf(M) \subseteq WaitingOf(Append(M, x))
    BY <1>1, EarsAppend
  <2>. QED  BY <1>1, <2>1, <2>2
<1>6. CASE BoxTaken
  <2>1. M # <<>> /\ V = Tail(M)
    BY <1>2, <1>6 DEF BoxTaken
  <2>. QED  BY <1>1, <1>6, <2>1, EarsTail DEF HeardMsg
<1>. QED  BY <1>4, <1>5, <1>6, BoxStepsCover DEF BoxSteps

(* A PDU that the sender is done with now has arrived. *)
LEMMA EndLands ==
  ASSUME NEW G, NEW H, Moves(G, H), G < 2, Delivered, Landed, Numbered, EndsOne, Holds,
         NEW s \in Sent, s + 1 = macSend.seq, ~TakenForOld(s)
  PROVE  InHand(s) \/ LastOf(s) \in Waiting
<1>1. /\ Base /\ Prefix /\ G \in Nat /\ Truth(G) /\ InOrderly(G) /\ Tried(G)
  BY SoundFacts
<1>2. s \in Nat /\ macSend.seq \in Nat /\ macSend.frame.seq \in Nat
  BY <1>1, SizeAt, SeqNat
<1>3. macSend.frame.seq = s
  <2>1. macSend.frame.seq + 1 = s + 1
    BY DEF Numbered
  <2>. QED  BY <1>2, <2>1
<1>4. PICK n, k \in Nat : n = size[s + 1] /\ k = macSend.frame.fidx
  <2>1. macSend.frame.fidx \in Nat
    BY <1>1, SeqNat DEF MacSender, Frame
  <2>. QED  BY <2>1, <1>1, <1>2, SizeAt
<1>5. MacOfA /\ MacSucceeds
  BY <1>1, NoneAbandoned DEF EndsOne
<1>6. k = n - 1
  <2>1. Genuine(macSend.frame)
    BY <1>1 DEF InOrderly, Ready
  <2>2. macSend.frame.fnum = n /\ k < n
    BY <1>3, <1>4, <2>1 DEF Genuine
  <2>3. k + 1 >= n
    BY <1>4, <1>5, <2>2 DEF MacSucceeds
  <2>. QED  BY <2>2, <2>3
<1>7. Met(Waiting, G, s, n - 1)
  <2>1. Waits("FRAME_SEND_DONE") # 0
    BY <1>1, <1>5, SenderRests
  <2>. QED  BY <1>1, <1>3, <1>4, <1>6, <2>1 DEF Truth, Reached
<1>8. ASSUME NEW f \in Waiting, f.seq = s, f.fidx = n - 1 PROVE f = LastOf(s)
  <2>1. PICK i \in Ears : f = HeardAt(i)
    BY DEF Waiting, WaitingOf, Ears, HeardAt
  <2>2. Genuine(f)
    BY <1>1, <2>1 DEF InOrderly
  <2>3. f \in AnyFrame
    BY <1>1, <2>1, PipeFacts DEF Pipe
  <2>. QED  BY <1>4, <1>8, <2>2, <2>3 DEF Genuine, AnyFrame, LastOf, FrameOf
<1>9. CASE Seen(G, s, n - 1) /\ \A f \in Waiting : s <= f.seq
  <2>1. s >= 1 => Ended(s - 1)
    BY <1>2 DEF Ended, One
  <2>2. InHand(s)
    BY <1>1, <1>4, <1>9, <2>1, SeenInHand
  <2>. QED  BY <2>2
<1>. QED  BY <1>7, <1>8, <1>9 DEF Met

LEMMA LandedKept ==
  ASSUME NEW G, NEW H, Moves(G, H), G < 2, Base', first' = first, Delivered, Landed, Numbered
  PROVE  Landed'
<1>1. Base /\ PairSteps /\ macSend.seq \in Nat
  BY SoundFacts, SeqNat
<1>2. macSend'.seq \in Nat
  BY SeqNatNext
<1> SUFFICES ASSUME NEW s, s \in Sent', Ended(s)', ~TakenForOld(s)'
             PROVE  InHand(s)' \/ LastOf(s)' \in Waiting'
  BY DEF Landed
<1>3. ~TakenForOld(s)
  BY DEF TakenForOld
<1>4. s \in Sent
  <2>1. s \in Nat
    BY SizeNext
  <2>2. CASE size' = size
    BY <2>2 DEF Sent
  <2>3. CASE \E n \in 1..MaxFrames : Requests(n)
    <3>1. macSend' = macSend
      BY <2>3 DEF Requests
    <3>2. s < macSend.seq
      BY <1>1, <2>1, <3>1 DEF Ended, One
    <3>3. macSend.seq <= Len(size) /\ Len(size) \in Nat
      <4>1. IInv /\ Agenda
        BY <1>1, BaseFacts
      <4>. QED  BY <4>1, AgendaFacts
    <3>4. s < Len(size)
      BY <1>1, <2>1, <3>2, <3>3
    <3>. QED  BY <1>1, <2>1, <3>4, SizeAt
  <2>. QED  BY <1>1, <2>2, <2>3, SizeSteps
<1>5. s \in Nat /\ LastOf(s)' = LastOf(s)
  <2>1. size'[s + 1] = size[s + 1]
    BY <1>1, <1>4, FramesSame
  <2>. QED  BY <1>1, <1>4, <2>1, SizeAt DEF LastOf, FrameOf
<1>6. ASSUME LastOf(s) \in Waiting, BoxTaken => Ended(s)
      PROVE  InHand(s)' \/ LastOf(s)' \in Waiting'
  <2>1. \/ LastOf(s) \in Waiting'
        \/ BoxTaken /\ HeardMsg.sig = "FRAME_REV" /\ HeardMsg.frame = LastOf(s)
    <3>1. PICK f \in Waiting : f = LastOf(s)
      BY <1>6
    <3>2. f \in Waiting' \/ (BoxTaken /\ HeardMsg.sig = "FRAME_REV" /\ HeardMsg.frame = f)
      BY <1>1, WaitingKept
    <3>. QED  BY <3>1, <3>2
  <2>. QED  BY <1>3, <1>4, <1>5, <1>6, <2>1, HeadLands
<1>7. ASSUME InHand(s) PROVE InHand(s)'
  BY <1>4, <1>7, InHandKept
<1>8. CASE Ended(s)
  BY <1>3, <1>4, <1>6, <1>7, <1>8 DEF Landed
<1>9. CASE ~Ended(s)
  <2>1. PICK m, x \in Nat : m = macSend.seq /\ x = macSend'.seq
    BY <1>1, <1>2
  <2>2. PICK h, g \in {0, 1} : /\ h = One(Holds) /\ g = One(Holds')
                               /\ Holds <=> h = 1
    BY DEF One
  <2>3. s + g < x /\ ~(s + h < m)
    BY <1>9, <2>1, <2>2 DEF Ended, One
  <2>4. EndsOne
    <3>1. ~EndsOne => x + h = m + g
      BY <1>1, <2>1, <2>2, EndedSteps
    <3>. QED  BY <1>5, <2>1, <2>2, <2>3, <3>1
  <2>5. Holds /\ x = m /\ g = 0
    BY <1>1, <2>1, <2>2, <2>4, EndedSteps DEF One
  <2>6. s + 1 = macSend.seq
    <3>1. s \in Nat /\ g = 0 /\ h = 1 /\ x = m
      BY <1>5, <2>2, <2>5
    <3>2. s + 1 = m
      BY <2>3, <3>1
    <3>. QED  BY <2>1, <3>2
  <2>7. InHand(s) \/ LastOf(s) \in Waiting
    BY <1>3, <1>4, <2>4, <2>5, <2>6, EndLands
  <2>8. ~BoxTaken
    <3>1. mboxB' = mboxB
      BY <2>4 DEF EndsOne, MacOfA, BStays, boardB
    <3>2. BoxTaken => mboxB["LINK_MAC"] # <<>> /\ mboxB["LINK_MAC"] = Tail(mboxB["LINK_MAC"])
      BY <3>1 DEF BoxTaken
    <3>3. \A M \in Seq(HeardMsgs) : M # <<>> => M # Tail(M)
      <4>1. \A M \in Seq(HeardMsgs) : M # <<>> => Len(Tail(M)) + 1 = Len(M) /\ Len(M) \in Nat /\ Len(Tail(M)) \in Nat
        BY TailAt
      <4>2. \A k \in Nat : k + 1 # k
        OBVIOUS
      <4>. QED  BY <4>1, <4>2
    <3>. QED  BY <1>1, <3>2, <3>3, BaseFacts
  <2>. QED  BY <1>6, <1>7, <2>7, <2>8
<1>. QED  BY <1>8, <1>9

-----------------------------------------------------------------------------
(* What the LINK task of A is told: a report, or a message in its mailbox. *)
Reports ==
  /\ reports \in Seq({"DONE"}) /\ Cnt(mbox["LINK"], {"SEND_ERR"}) = 0
  /\ Len(reports) + Cnt(mbox["LINK"], {"SEND_DONE"}) + One(Holds) = macSend.seq
Asked == reports' = reports /\ \E m \in AllMsgs : m.sig = "SEND_MSG" /\ mbox'["LINK"] = Append(mbox["LINK"], m)
Reported ==
  /\ mbox["LINK"] # <<>> /\ mbox'["LINK"] = Tail(mbox["LINK"])
  /\ \/ LinkMsg.sig = "SEND_MSG" /\ reports' = reports
     \/ LinkMsg.sig = "SEND_DONE" /\ reports' = Append(reports, "DONE")
     \/ LinkMsg.sig = "SEND_ERR"
Untold == reports' = reports /\ mbox'["LINK"] = mbox["LINK"]

LEMMA LinkReports ==
  ASSUME Base, fatal' # "LINK_PDU 02",
         \/ LinkSendMsg /\ reports' = reports
         \/ IsTold(LinkSendDone, "DONE") \/ IsTold(LinkSendErr, "ERR")
  PROVE  Untold \/ Reported
<1>a. IInv
  BY BaseFacts
<1>b. ASSUME NEW code, Fatal(code) PROVE UNCHANGED mbox
  BY <1>b DEF Fatal
<1>c. ASSUME NEW sig \in {"SEND_MSG", "SEND_DONE", "SEND_ERR"}, LinkHandling(sig)
      PROVE  sig \notin Openers /\ mbox["LINK"] # <<>> /\ LinkMsg.sig = sig
  BY <1>c DEF LinkHandling, Handling, LinkMsg, Openers
<1>1. CASE LinkSendMsg /\ reports' = reports
  <2>1. LinkHandling("SEND_MSG")
    BY <1>1 DEF LinkSendMsg
  <2>2. CASE Fatal("LINK_PDU 01")
    BY <1>1, <2>2 DEF Fatal, Untold
  <2>3. ASSUME NEW p \in FreePdu, Finish("LINK", Post("LINK_MAC", [sig |-> "FRAME_SEND_REQ", pdu |-> p])),
               UNCHANGED <<fsm, timer, due, line, fatal>>
        PROVE  Reported
    <3>1. PICK m : m = PduMsg("FRAME_SEND_REQ", p)
      OBVIOUS
    <3>2. m \in MacMsgs /\ m.sig = "FRAME_SEND_REQ" /\ m.sig \notin Openers
      BY <3>1, Posted DEF PduMsg, FreePdu, Openers
    <3>3. Finish("LINK", Post("LINK_MAC", m)) /\ fsm' = fsm
      BY <2>3, <3>1 DEF PduMsg
    <3>4. mbox'["LINK"] = Tail(mbox["LINK"])
      BY <1>a, <1>c, <2>1, <3>2, <3>3, LinkSends
    <3>. QED  BY <1>1, <1>c, <2>1, <3>4 DEF Reported
  <2>. QED  BY <1>1, <2>2, <2>3 DEF LinkSendMsg
<1>2. ASSUME NEW sig \in {"SEND_DONE", "SEND_ERR"}, LinkHandling(sig), link_pdu_free(LinkMsg.pdu, "LINK_PDU 02"),
             sig = "SEND_DONE" => reports' = Append(reports, "DONE")
      PROVE  Reported
  <2>1. Finish("LINK", NoPost) /\ fsm' = fsm
    BY <1>2 DEF link_pdu_free, Fatal
  <2>2. sig \notin Openers /\ mbox["LINK"] # <<>> /\ LinkMsg.sig = sig
    BY <1>2, <1>c
  <2>3. mbox'["LINK"] = Tail(mbox["LINK"])
    BY <1>a, <1>2, <2>1, <2>2, LinkFinishes
  <2>. QED  BY <1>2, <2>2, <2>3 DEF Reported
<1>3. CASE IsTold(LinkSendDone, "DONE")
  <2>1. LinkHandling("SEND_DONE") /\ link_pdu_free(LinkMsg.pdu, "LINK_PDU 02") /\ reports' = Append(reports, "DONE")
    BY <1>3 DEF IsTold, LinkSendDone
  <2>. QED  BY <1>2, <2>1
<1>4. CASE IsTold(LinkSendErr, "ERR")
  <2>1. LinkHandling("SEND_ERR") /\ link_pdu_free(LinkMsg.pdu, "LINK_PDU 02")
    BY <1>4 DEF IsTold, LinkSendErr
  <2>. QED  BY <1>2, <2>1
<1>. QED  BY <1>1, <1>3, <1>4

LEMMA Tells ==
  ASSUME Base, Safe', [PairNext]_pairVars
  PROVE  first' = first /\ (Untold \/ Asked \/ Reported \/ (EndsOne /\ reports' = reports))
<1>a. IInv /\ Safe /\ Agenda /\ Answers /\ Boxes
  BY BaseFacts
<1>b. mbox \in [Task -> Seq(AllMsgs)] /\ Task = {"LINK", "LINK_MAC", "LINK_PHY"}
  BY <1>a DEF Boxes, Task
<1>c. ASSUME NEW v, mbox' = [mbox EXCEPT !["LINK_PHY"] = v], reports' = reports PROVE Untold
  BY <1>b, <1>c DEF Untold
<1>d. ASSUME mbox' = mbox, reports' = reports PROVE Untold
  BY <1>d DEF Untold
<1>0. first' = first
  BY DEF PairNext, Sends, StepA, StepB, Carry, PairTick, PairExpire, pairVars
<1>1. CASE Sends
  <2>1. PICK n \in 1..MaxFrames : Arrives("LINK", [sig |-> "SEND_MSG", frames |-> n])
    BY <1>1 DEF Sends
  <2>2. PICK m : m = [sig |-> "SEND_MSG", frames |-> n]
    OBVIOUS
  <2>3. m \in AllMsgs /\ m.sig = "SEND_MSG"
    BY <2>2, Posted DEF AllMsgs
  <2>4. mbox'["LINK"] = Append(mbox["LINK"], m)
    BY <1>b, <2>1, <2>2 DEF Arrives
  <2>5. Asked
    BY <1>1, <2>3, <2>4 DEF Sends, Asked
  <2>. QED  BY <1>0, <2>5
<1>2. CASE StepA
  <2>1. CASE PhyStep /\ reports' = reports
    <3>1. mbox'["LINK"] = mbox["LINK"]
      BY <1>a, <2>1, PhyEffect
    <3>. QED  BY <1>0, <2>1, <3>1 DEF Untold
  <2>2. CASE MacStep /\ reports' = reports
    <3>1. MacOfA
      <4>1. UNCHANGED <<faults, size>> /\ BStays
        BY <1>2 DEF StepA, BStays
      <4>. QED  BY <1>a, <2>2, <4>1, MacEffect DEF MacOfA
    <3>2. EndsOne \/ mbox'["LINK"] = mbox["LINK"]
      BY <3>1 DEF MacOfA, EndsOne, MacOrders, MacDefers, MacFirst, MacGoesOn, MacRepeats, MacSends
    <3>. QED  BY <1>0, <2>2, <3>2 DEF Untold
  <2>3. CASE \/ LinkSendMsg /\ reports' = reports
             \/ IsTold(LinkSendDone, "DONE") \/ IsTold(LinkSendErr, "ERR")
    <3>1. fatal' # "LINK_PDU 02"
      BY DEF Safe, OnlyExhaustion
    <3>. QED  BY <1>0, <2>3, <3>1, LinkReports
  <2>. QED  BY <1>2, <2>1, <2>2, <2>3 DEF StepA
<1>3. CASE StepB
  BY <1>0, <1>3, <1>d DEF StepB, boardA, baseVars
<1>4. CASE Carry
  <2>1. reports' = reports
    BY <1>4 DEF Carry
  <2>2. CASE CarryToB
    BY <1>0, <1>d, <2>1, <2>2 DEF CarryToB
  <2>3. CASE CarryToA
    BY <1>0, <1>c, <1>d, <2>1, <2>3 DEF CarryToA, Carried
  <2>. QED  BY <1>4, <2>2, <2>3 DEF Carry
<1>5. CASE PairTick
  BY <1>0, <1>5, <1>d DEF PairTick
<1>6. CASE PairExpire
  <2>0. reports' = reports
    BY <1>6 DEF PairExpire
  <2>1. ASSUME NEW k \in TimerKey, Expire(k), UNCHANGED boardB
        PROVE  Untold
    <3>1. k = PhySendTo
      BY <1>a, <2>1 DEF Expire, TimerKey, Answers, Safe, MacTimer
    <3>. QED  BY <1>c, <2>0, <2>1, <3>1 DEF Expire, PhySendTo
  <2>2. ASSUME NEW k \in TimerKey, B!Expire(k), UNCHANGED boardA
        PROVE  Untold
    BY <1>d, <2>0, <2>2 DEF boardA, baseVars
  <2>. QED  BY <1>0, <1>6, <2>1, <2>2 DEF PairExpire, ExpireA, ExpireB
<1>7. CASE UNCHANGED pairVars
  BY <1>0, <1>7, <1>d DEF pairVars, boardA, baseVars
<1>. QED  BY <1>1, <1>2, <1>3, <1>4, <1>5, <1>6, <1>7 DEF PairNext

(* The report of a PDU that the sender is done with, told apart from every other message. *)
LEMMA EndTells ==
  ASSUME Base, EndsOne
  PROVE  \E d \in AllMsgs : /\ mbox'["LINK"] = Append(mbox["LINK"], d)
                            /\ \/ d.sig = "SEND_DONE" /\ MacSucceeds
                               \/ d.sig = "SEND_ERR" /\ MacAbandons
<1>1. PICK r \in {"SEND_DONE", "SEND_ERR"} :
        MacIsDone(r) /\ \/ r = "SEND_DONE" /\ MacSucceeds
                        \/ r = "SEND_ERR" /\ MacAbandons
  BY DEF EndsOne, MacSucceeds, MacAbandons
<1>2. /\ mbox["LINK_MAC"] # <<>> /\ Head(mbox["LINK_MAC"]).sig \in {"FRAME_SEND_DONE", "FRAME_SEND_ERR"}
      /\ mbox["LINK_MAC"] \in Seq(AllMsgs) /\ macSend \in MacSender
  <2>1. mbox["LINK_MAC"] \in Seq(AllMsgs)
    BY BaseFacts, Tasks
  <2>2. mbox["LINK_MAC"] # <<>> /\ MacMsg.sig \in {"FRAME_SEND_DONE", "FRAME_SEND_ERR"}
    BY DEF EndsOne, MacOfA, MacSucceeds, MacAbandons
  <2>. QED  BY <2>1, <2>2, SeqNat DEF MacMsg
<1>3. macSend.pdu \in Pdu
  <2>1. Cnt(mbox["LINK_MAC"], {"FRAME_SEND_DONE", "FRAME_SEND_ERR", "FRAME_SEND_TO"}) # 0
    BY <1>2, HeadCounts
  <2>2. macSend.pdu # None
    BY <2>1, BaseFacts DEF IInv, Unsent
  <2>. QED  BY <1>2, <2>2 DEF MacSender
<1>4. PICK d \in AllMsgs : d = PduMsg(r, macSend.pdu)
  BY <1>3, LineFacts
<1>5. d.sig = r
  BY <1>4 DEF PduMsg
<1>6. mbox'["LINK"] = Append(mbox["LINK"], d)
  BY <1>1, <1>4 DEF MacIsDone
<1>. QED  BY <1>1, <1>5, <1>6

LEMMA AppendApart ==
  ASSUME NEW S, NEW s \in Seq(S), NEW x \in S, NEW y \in S
  PROVE  /\ Append(s, x) # s /\ (s # <<>> => Append(s, x) # Tail(s))
         /\ Append(s, x) = Append(s, y) => x = y
<1>1. Len(s) \in Nat /\ Len(Append(s, x)) = Len(s) + 1
  BY AppendAt
<1>2. Append(s, x) # s
  <2>1. \A n \in Nat : n + 1 # n
    OBVIOUS
  <2>. QED  BY <1>1, <2>1
<1>3. ASSUME s # <<>> PROVE Append(s, x) # Tail(s)
  <2>1. Len(Tail(s)) \in Nat /\ Len(Tail(s)) + 1 = Len(s)
    BY <1>3, TailAt
  <2>2. \A n, k \in Nat : k + 1 = n => n + 1 # k
    OBVIOUS
  <2>. QED  BY <1>1, <2>1, <2>2
<1>4. Append(s, x)[Len(s) + 1] = x /\ Append(s, y)[Len(s) + 1] = y
  BY AppendAt
<1>. QED  BY <1>2, <1>3, <1>4

LEMMA EndAlone ==
  ASSUME Base, EndsOne
  PROVE  ~Untold /\ ~Asked /\ ~Reported
<1>1. PICK d \in AllMsgs : mbox'["LINK"] = Append(mbox["LINK"], d) /\ d.sig # "SEND_MSG"
  BY EndTells
<1>2. mbox["LINK"] \in Seq(AllMsgs)
  BY BaseFacts, Tasks
<1>3. ~Untold /\ ~Reported
  BY <1>1, <1>2, AppendApart DEF Untold, Reported
<1>4. ASSUME NEW m \in AllMsgs, m.sig = "SEND_MSG", mbox'["LINK"] = Append(mbox["LINK"], m)
      PROVE  FALSE
  <2>1. Append(mbox["LINK"], d) = Append(mbox["LINK"], m)
    BY <1>1, <1>4
  <2>2. d = m
    BY <1>2, <2>1, AppendApart
  <2>. QED  BY <1>1, <1>4, <2>2
<1>. QED  BY <1>3, <1>4 DEF Asked

LEMMA ReportsKept ==
  ASSUME Base, Base', [PairNext]_pairVars, NEW G \in Nat, Tried(G), G < 2, Numbered, Reports
  PROVE  Reports'
<1>a. mbox["LINK"] \in Seq(AllMsgs) /\ PairSteps
  BY BaseFacts, BaseSteps, Tasks
<1>b. first' = first /\ (Untold \/ Asked \/ Reported \/ (EndsOne /\ reports' = reports))
  BY BaseFacts, Tells DEF Base
<1>c. reports \in Seq({"DONE"}) /\ Cnt(mbox["LINK"], {"SEND_ERR"}) = 0
  BY DEF Reports
<1>d. Holds \in BOOLEAN /\ Holds' \in BOOLEAN
  BY DEF Holds
<1>e. PICK n, c, h, q \in Nat : /\ n = Len(reports) /\ c = Cnt(mbox["LINK"], {"SEND_DONE"}) /\ h = One(Holds)
                                /\ q = macSend.seq /\ n + c + h = q
  <2>1. Len(reports) \in Nat /\ Cnt(mbox["LINK"], {"SEND_DONE"}) \in Nat /\ One(Holds) \in Nat /\ macSend.seq \in Nat
    BY <1>a, <1>c, CntNat, SeqNat DEF One
  <2>. QED  BY <2>1 DEF Reports
<1>f. PICK g, r \in Nat : g = One(Holds') /\ r = macSend'.seq
  <2>1. One(Holds') \in Nat /\ macSend'.seq \in Nat
    BY SeqNatNext DEF One
  <2>. QED  BY <2>1
<1>g. One(TRUE) = 1 /\ One(FALSE) = 0 /\ \A k \in Nat : k + 0 = k /\ k - 0 = k
  BY DEF One
<1>1. CASE EndsOne
  <2>1. reports' = reports
    BY <1>1, <1>b, EndAlone
  <2>2. PICK d \in AllMsgs : mbox'["LINK"] = Append(mbox["LINK"], d) /\ d.sig = "SEND_DONE"
    <3>1. ~MacAbandons
      BY <1>1, NoneAbandoned DEF EndsOne
    <3>. QED  BY <1>1, <3>1, EndTells
  <2>3. Cnt(mbox'["LINK"], {"SEND_DONE"}) = c + 1 /\ Cnt(mbox'["LINK"], {"SEND_ERR"}) = 0
    <3>1. \A S : Cnt(Append(mbox["LINK"], d), S) = Cnt(mbox["LINK"], S) + One(d.sig \in S)
      BY <1>a, CntAppend
    <3>2. One(d.sig \in {"SEND_DONE"}) = 1 /\ One(d.sig \in {"SEND_ERR"}) = 0
      BY <2>2 DEF One
    <3>3. /\ Cnt(Append(mbox["LINK"], d), {"SEND_DONE"}) = c + 1
          /\ Cnt(Append(mbox["LINK"], d), {"SEND_ERR"}) = 0 + 0
      BY <1>c, <1>e, <3>1, <3>2
    <3>. QED  BY <2>2, <3>3
  <2>4. h = 1 /\ g = 0 /\ r = q
    <3>1. Holds /\ ~Holds' /\ macSend'.seq = macSend.seq
      BY <1>1, <1>a, EndedSteps
    <3>2. One(Holds) = 1 /\ One(Holds') = 0
      BY <3>1 DEF One
    <3>. QED  BY <1>e, <1>f, <3>1, <3>2
  <2>5. n + (c + 1) + g = r
    BY <1>e, <2>4
  <2>. QED  BY <1>c, <1>e, <1>f, <2>1, <2>3, <2>5 DEF Reports
<1>2. CASE ~EndsOne
  <2>1. r + h = q + g
    <3>1. macSend'.seq + One(Holds) = macSend.seq + One(Holds')
      BY <1>2, <1>a, EndedSteps
    <3>. QED  BY <1>e, <1>f, <3>1
  <2>2. ASSUME NEW m \in Nat, m = Len(reports'), reports' \in Seq({"DONE"}),
               NEW d \in Nat, d = Cnt(mbox'["LINK"], {"SEND_DONE"}), m + d = n + c,
               Cnt(mbox'["LINK"], {"SEND_ERR"}) = 0
        PROVE  Reports'
    <3>1. m + d = n + c /\ n + c + h = q /\ r + h = q + g
      BY <1>e, <2>1, <2>2
    <3>2. m + d + g = r
      BY <3>1
    <3>. QED  BY <1>f, <2>2, <3>2 DEF Reports
  <2>3. CASE Untold
    BY <1>c, <1>e, <2>2, <2>3 DEF Untold
  <2>4. CASE Asked
    <3>1. PICK x \in AllMsgs : x.sig = "SEND_MSG" /\ mbox'["LINK"] = Append(mbox["LINK"], x)
      BY <2>4 DEF Asked
    <3>2. \A S : Cnt(Append(mbox["LINK"], x), S) = Cnt(mbox["LINK"], S) + One(x.sig \in S)
      BY <1>a, CntAppend
    <3>3. One(x.sig \in {"SEND_DONE"}) = 0 /\ One(x.sig \in {"SEND_ERR"}) = 0
      BY <3>1 DEF One
    <3>4. Cnt(mbox'["LINK"], {"SEND_DONE"}) = c + 0 /\ Cnt(mbox'["LINK"], {"SEND_ERR"}) = 0 + 0
      BY <1>c, <1>e, <3>1, <3>2, <3>3
    <3>5. c + 0 = c /\ 0 + 0 = 0 /\ reports' = reports
      BY <2>4 DEF Asked
    <3>. QED  BY <1>c, <1>e, <2>2, <3>4, <3>5
  <2>5. CASE Reported
    <3>1. mbox["LINK"] # <<>> /\ mbox'["LINK"] = Tail(mbox["LINK"]) /\ LinkMsg = Head(mbox["LINK"])
      BY <2>5 DEF Reported, LinkMsg
    <3>2. \A S : Cnt(Tail(mbox["LINK"]), S) = Cnt(mbox["LINK"], S) - One(LinkMsg.sig \in S)
      BY <1>a, <3>1, CntTail
    <3>3. LinkMsg.sig # "SEND_ERR"
      BY <1>a, <1>c, <3>1, HeadCounts
    <3>4. Cnt(mbox'["LINK"], {"SEND_ERR"}) = 0
      <4>1. One(LinkMsg.sig \in {"SEND_ERR"}) = 0
        BY <3>3 DEF One
      <4>2. Cnt(Tail(mbox["LINK"]), {"SEND_ERR"}) = 0 - 0
        BY <1>c, <3>2, <4>1
      <4>. QED  BY <3>1, <4>2
    <3>5. CASE LinkMsg.sig = "SEND_MSG" /\ reports' = reports
      <4>1. One(LinkMsg.sig \in {"SEND_DONE"}) = 0
        BY <3>5 DEF One
      <4>2. Cnt(mbox'["LINK"], {"SEND_DONE"}) = c - 0
        BY <1>e, <3>1, <3>2, <4>1
      <4>3. Cnt(mbox'["LINK"], {"SEND_DONE"}) = c
        BY <1>g, <4>2
      <4>. QED  BY <1>c, <1>e, <2>2, <3>4, <3>5, <4>3
    <3>6. CASE LinkMsg.sig = "SEND_DONE" /\ reports' = Append(reports, "DONE")
      <4>1. One(LinkMsg.sig \in {"SEND_DONE"}) = 1
        BY <3>6 DEF One
      <4>2. Cnt(mbox'["LINK"], {"SEND_DONE"}) = c - 1 /\ c # 0
        BY <1>a, <1>e, <3>1, <3>2, <3>6, <4>1, HeadCounts
      <4>3. PICK d \in Nat : d = c - 1
        BY <4>2
      <4>4. reports' \in Seq({"DONE"}) /\ Len(reports') = n + 1
        BY <1>c, <1>e, <3>6
      <4>5. n + 1 \in Nat /\ (n + 1) + d = n + c
        BY <4>3
      <4>. QED  BY <2>2, <3>4, <4>2, <4>3, <4>4, <4>5
    <3>. QED  BY <2>5, <3>3, <3>5, <3>6 DEF Reported
  <2>. QED  BY <1>2, <1>b, <2>3, <2>4, <2>5
<1>. QED  BY <1>1, <1>2

-----------------------------------------------------------------------------
(* A report is true: every PDU that ended is in hand, and there is no other report. *)
ArrivedInv ==
  /\ WholeInv /\ Prompt /\ Numbered
  /\ Few => Timely /\ Delivered /\ Landed /\ Reports

LEMMA NextArrivedInv ==
  ASSUME Fits, ArrivedInv, [PairNext]_pairVars
  PROVE  ArrivedInv'
<1>1. /\ WholeInv /\ Prompt /\ Numbered /\ Base /\ Room /\ LineUp /\ PairSteps /\ Base'
      /\ faults \in Nat /\ faults' \in Nat /\ faults <= faults'
  <2>1. Base
    BY DEF ArrivedInv, WholeInv
  <2>. QED  BY <2>1, BaseSteps, BaseFacts, FaultsGrow DEF ArrivedInv, WholeInv
<1>2. WholeInv' /\ Prompt' /\ Numbered'
  BY <1>1, NextWholeInv, PromptKept, EndedSteps
<1>3. ASSUME Few' PROVE Timely' /\ Delivered' /\ Landed' /\ Reports'
  <2>1. Few /\ faults <= Enough
    <3>1. PICK e, f, n \in Nat : e = faults /\ f = faults' /\ n = Enough
      BY <1>1, EnoughNat
    <3>2. f < n
      BY <1>3, <3>1, EnoughNat DEF Few, Enough
    <3>3. e < n /\ e <= n
      BY <1>1, <3>1, <3>2
    <3>. QED  BY <3>1, <3>3 DEF Few
  <2>2. PICK G \in Nat : Account(G) /\ Data(G)
    BY <1>1, <2>1 DEF WholeInv, Intact
  <2>3. Same /\ Prefix /\ Carries
    BY <1>1, <2>1 DEF WholeInv, Intact
  <2>4. G < 2 /\ Tried(G)
    BY <1>1, <2>1, <2>2, FewPaid DEF Account, Data
  <2>5. PICK H \in Nat : G <= H /\ H = IF PhyOfA /\ PhyFails THEN G + 1 ELSE G
    <3>1. G + 1 \in Nat /\ G <= G + 1 /\ G <= G
      OBVIOUS
    <3>. QED  BY <3>1
  <2>6. Moves(G, H)
    BY <1>1, <2>1, <2>2, <2>3, <2>4, <2>5 DEF Moves, Sound
  <2>7. Timely /\ Delivered /\ Landed /\ Reports
    BY <2>1 DEF ArrivedInv
  <2>8. first' = first
    BY <1>1, BaseFacts, Tells DEF Base
  <2>9. Timely'
    BY <1>1, <1>3, <2>4, <2>6, <2>7, TimelyKept
  <2>10. Delivered'
    BY <1>1, <2>6, <2>7, <2>8, DeliveredKept
  <2>11. Landed'
    BY <1>1, <2>4, <2>6, <2>7, <2>8, LandedKept
  <2>12. Reports'
    BY <1>1, <2>4, <2>7, ReportsKept
  <2>. QED  BY <2>9, <2>10, <2>11, <2>12
<1>. QED  BY <1>2, <1>3 DEF ArrivedInv

LEMMA InitArrivedInv == PairInit => ArrivedInv
<1> SUFFICES ASSUME PairInit PROVE ArrivedInv
  OBVIOUS
<1>1. /\ mbox["LINK"] = <<>> /\ mbox["LINK_MAC"] = <<>> /\ mboxB = mbox /\ size = <<>> /\ given = <<>>
      /\ reports = <<>> /\ macSend.seq = 0 /\ macSend.state = "IDLE" /\ macRevB.seq = first
      /\ macRevB.state = "IDLE" /\ timer[PhySendTo] = 0
  BY Tasks DEF PairInit, PhyInit, MacInit
<1>2. ~Holds
  BY <1>1 DEF Holds
<1>3. WholeInv /\ Base
  BY InitWholeInv DEF WholeInv
<1>4. Prompt
  BY <1>1, <1>3, ClockFacts DEF Prompt
<1>5. Numbered
  BY <1>1, <1>2 DEF Numbered
<1>6. Timely
  BY <1>1 DEF Timely
<1>7. Delivered
  BY <1>1 DEF Delivered, Unopened
<1>8. Landed
  <2>1. \A s : s \notin 0 .. 0 - 1
    OBVIOUS
  <2>2. Len(<<>>) = 0
    OBVIOUS
  <2>. QED  BY <1>1, <2>1, <2>2 DEF Landed, Sent
<1>9. Reports
  <2>1. One(Holds) = 0 /\ Len(<<>>) = 0 /\ \A S : Cnt(<<>>, S) = 0
    BY <1>2, CntEmpty DEF One
  <2>. QED  BY <1>1, <2>1 DEF Reports
<1>. QED  BY <1>3, <1>4, <1>5, <1>6, <1>7, <1>8, <1>9 DEF ArrivedInv

(* What is in hand has been given when the tasks of B are done with their messages. *)
LEMMA ArrivedIs ==
  ASSUME ArrivedInv, Few, Idle(mboxB), NEW s \in Sent, s < Len(reports), ~TakenForOld(s)
  PROVE  reports[s + 1] = "DONE" /\ Arrived_B(s)
<1>1. Base /\ Landed /\ Reports
  BY DEF ArrivedInv, WholeInv
<1>2. mboxB["LINK"] = <<>> /\ mboxB["LINK_MAC"] = <<>>
  BY Tasks DEF Idle
<1>3. s \in Nat
  BY <1>1, SizeAt
<1>4. reports \in Seq({"DONE"}) /\ Len(reports) \in Nat
  BY <1>1 DEF Reports
<1>5. reports[s + 1] = "DONE"
  <2>1. s + 1 \in 1..Len(reports)
    BY <1>3, <1>4
  <2>. QED  BY <1>4, <2>1
<1>6. Ended(s)
  <2>1. mbox["LINK"] \in Seq(AllMsgs) /\ macSend.seq \in Nat
    BY <1>1, BaseFacts, SeqNat, Tasks
  <2>2. PICK n, c, h, q \in Nat : /\ n = Len(reports) /\ c = Cnt(mbox["LINK"], {"SEND_DONE"})
                                  /\ h = One(Holds) /\ q = macSend.seq /\ n + c + h = q
    <3>1. Cnt(mbox["LINK"], {"SEND_DONE"}) \in Nat /\ One(Holds) \in Nat
      BY <2>1, CntNat DEF One
    <3>. QED  BY <1>1, <1>4, <2>1, <3>1 DEF Reports
  <2>3. s + h < q
    BY <1>3, <2>2
  <2>. QED  BY <2>2, <2>3 DEF Ended
<1>7. InHand(s) \/ LastOf(s) \in Waiting
  BY <1>1, <1>6 DEF Landed
<1>8. \A i : i \notin 1..0
  OBVIOUS
<1>9. Len(<<>>) = 0
  OBVIOUS
<1>10. Waiting = {}
  BY <1>2, <1>8, <1>9 DEF Waiting, WaitingOf, EarsOf
<1>11. \E i \in 1..Len(given) : given[i] = FramesOf(s)
  <2>1. Len(mboxB["LINK"]) = 0
    BY <1>2, <1>9
  <2>. QED  BY <1>7, <1>8, <1>10, <2>1 DEF InHand, Handed
<1>12. DOMAIN given = 1..Len(given)
  BY <1>1, ToldPdus
<1>. QED  BY <1>5, <1>11, <1>12 DEF Arrived_B

(* While the line has fewer faults than it takes to give two frames up, every PDU
   that board A is told the end of was acknowledged, and board B has it: the reports
   of the sender are true, for any number of PDUs of any number of frames.       *)
THEOREM PairReported == Fits => (PairSpec => []ReportedArrived)
<1> SUFFICES ASSUME Fits PROVE PairSpec => []ReportedArrived
  OBVIOUS
<1>1. PairInit => ArrivedInv
  BY InitArrivedInv
<1>2. ArrivedInv /\ [PairNext]_pairVars => ArrivedInv'
  BY NextArrivedInv
<1>3. ArrivedInv => ReportedArrived
  <2>1. Few <=> faults < 2 * (MaxRetry + 1)
    BY DEF Few, Enough
  <2>. QED  BY <2>1, ArrivedIs DEF ReportedArrived
<1>. QED  BY <1>1, <1>2, <1>3, PTL DEF PairSpec
=============================================================================
