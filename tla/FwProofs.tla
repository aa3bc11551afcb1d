------------------------------ MODULE FwProofs ------------------------------
(***************************************************************************)
(* Proofs about the firmware transfer, for files and packets of every size *)
(* and any number of losses, resends and late timeouts.                    *)
(***************************************************************************)
EXTENDS FwUpdate, Integers, Counting, TLAPS

LEMMA Numbers ==
  /\ PacketSize \in Nat /\ PacketSize > 0 /\ Word \in Nat /\ RetryMax \in Nat
  /\ \A n \in File : n \in Nat /\ n + PacketSize < Word
  BY PacketSizeIsPos, BinLensFit, RetryMaxIsNat DEF File

(* The types of the mailboxes do not mention what is counted. *)
LEMMA FwTypesInit == Init => TypeOK
<1> SUFFICES ASSUME Init PROVE TypeOK
  OBVIOUS
<1>1. /\ 0 \in File /\ 0 \in 0 .. Word - 1 /\ 0 \in 0..PacketSize /\ 0 \in 0..255 /\ 0 \in 0..MaxOta
      /\ 0 \in 0..(RetryMax + 2) /\ 0 \in 0..MaxLoss /\ 0 \in 0..MaxLate
  BY Numbers, FwBounds DEF File
<1>2. dev \in [phase : {"idle", "transfer", "updating"}, len : File, got : Nat, intact : BOOLEAN]
  BY <1>1 DEF Init
<1>3. mailbox \in Seq(Signal) /\ toDev \in Seq(Message) /\ toFw \in Seq(Answer)
  BY DEF Init
<1>. QED  BY <1>1, <1>2, <1>3 DEF Init, TypeOK

LEMMA HandleTypes ==
  ASSUME TypeOK, NEW s, NEW posts \in Seq(Signal), Handle(s, posts)
  PROVE  /\ mailbox' \in Seq(Signal) /\ toFw' \in Seq(Answer) /\ otas' \in 0..MaxOta
         /\ dev' \in [phase : {"idle", "transfer", "updating"}, len : File, got : Nat, intact : BOOLEAN]
         /\ lost' \in 0..MaxLoss /\ late' \in 0..MaxLate
         /\ lostAnswer' \in BOOLEAN /\ lostEnd' \in BOOLEAN
<1>1. mailbox \in Seq(Signal) /\ mailbox # <<>>
  BY DEF TypeOK, Handle
<1>2. Tail(mailbox) \in Seq(Signal)
  BY <1>1
<1>3. mailbox' = Tail(mailbox) \o posts
  BY DEF Handle
<1>4. mailbox' \in Seq(Signal)
  BY <1>2, <1>3
<1>. QED  BY <1>4 DEF Handle, outside, TypeOK

LEMMA PostsTypes == /\ <<>> \in Seq(Signal) /\ <<"SM_UPDATE_RES_OK">> \in Seq(Signal)
                    /\ <<"TRANFER_REQ">> \in Seq(Signal)
  BY DEF Signal

LEMMA SendTypes ==
  ASSUME TypeOK, NEW s \in Request, NEW from \in 0..NoBytes, Send(s, from)
  PROVE  toDev' \in Seq(Message)
<1>1. [sig |-> s, file |-> file, from |-> from] \in Message
  BY DEF Message, TypeOK
<1>. QED  BY <1>1 DEF Send, TypeOK

(* A packet is no longer than it can be and begins at the index. *)
LEMMA PacketTypes ==
  ASSUME TypeOK, packet_len' = Least(Remain, PacketSize)
  PROVE  /\ Remain \in 0 .. Word - 1 /\ packet_len' \in 0..PacketSize /\ packet_len' <= Remain
         /\ (index + packet_len') % Word \in 0 .. Word - 1
         /\ FirmwareRead(index, packet_len') \in 0..NoBytes
<1>1. index \in 0 .. Word - 1 /\ bin_len \in Nat /\ Word \in Nat /\ PacketSize \in Nat /\ Word > 0
  BY Numbers DEF TypeOK
<1>2. bin_len + Word - index \in Nat
  BY <1>1
<1>3. Remain \in 0 .. Word - 1
  BY <1>1, <1>2 DEF Remain
<1>4. packet_len' \in 0..PacketSize /\ packet_len' <= Remain
  BY <1>1, <1>3 DEF Least
<1>5. (index + packet_len') % Word \in 0 .. Word - 1
  BY <1>1, <1>4
<1>6. FirmwareRead(index, packet_len') \in {NoBytes, index}
  BY DEF FirmwareRead
<1>. QED  BY <1>1, <1>3, <1>4, <1>5, <1>6 DEF NoBytes

LEMMA AnswerTypes ==
  ASSUME NEW a \in Answer, NEW q \in Seq(Answer)
  PROVE  Append(q, a) \in Seq(Answer)
  OBVIOUS

LEMMA FwTypesStep == TypeOK /\ [Next]_vars => TypeOK'
<1> SUFFICES ASSUME TypeOK, [Next]_vars PROVE TypeOK'
  OBVIOUS
<1>a. /\ PacketSize \in Nat /\ PacketSize > 0 /\ Word \in Nat /\ RetryMax \in Nat /\ 0 \in 0 .. Word - 1
      /\ \A n \in File : n \in Nat /\ n + PacketSize < Word
      /\ MaxOta \in Nat /\ MaxLoss \in Nat /\ MaxLate \in Nat /\ 0 \in 0 .. NoBytes
      /\ BinLens \subseteq File /\ 0 \in 0..(RetryMax + 2) /\ 0 \in 0..255
  BY Numbers, FwBounds DEF File, NoBytes
<1>b. /\ file \in File /\ bin_len \in File /\ index \in 0 .. Word - 1 /\ packet_len \in 0..PacketSize
      /\ retry \in 0..255 /\ timers \subseteq Timeout /\ mailbox \in Seq(Signal)
      /\ toDev \in Seq(Message) /\ toFw \in Seq(Answer)
      /\ open \in BOOLEAN /\ otas \in 0..MaxOta /\ resent \in 0..(RetryMax + 2)
      /\ dev \in [phase : {"idle", "transfer", "updating"}, len : File, got : Nat, intact : BOOLEAN]
      /\ lost \in 0..MaxLoss /\ late \in 0..MaxLate /\ lostAnswer \in BOOLEAN /\ lostEnd \in BOOLEAN
  BY DEF TypeOK
<1>c. ASSUME NEW s, NEW posts \in Seq(Signal), Handle(s, posts),
             file' \in File, bin_len' \in File, index' \in 0 .. Word - 1, packet_len' \in 0..PacketSize,
             retry' \in 0..255, timers' \subseteq Timeout, toDev' \in Seq(Message),
             open' \in BOOLEAN, resent' \in 0..(RetryMax + 2)
      PROVE  TypeOK'
  BY <1>c, HandleTypes DEF TypeOK
<1>1. CASE OtaReq
  BY <1>1, <1>a, <1>b, <1>c, PostsTypes DEF OtaReq, Report
<1>2. CASE SmUpdateResOk
  <2>1. toDev' \in Seq(Message)
    BY <1>2, <1>a, SendTypes DEF SmUpdateResOk, Request
  <2>. QED  BY <1>2, <2>1, <1>a, <1>b, <1>c, PostsTypes DEF SmUpdateResOk, Set, Timeout, task, history
<1>3. CASE CurrentInfoRes
  <2>1. toDev' \in Seq(Message)
    BY <1>3, <1>a, <1>b, SendTypes DEF CurrentInfoRes, Request
  <2>. QED  BY <1>3, <2>1, <1>a, <1>b, <1>c, PostsTypes
            DEF CurrentInfoRes, Remove, FirmwareGetInfo, Report, history
<1>4. CASE UpdateResOk
  BY <1>4, <1>a, <1>b, <1>c, PostsTypes DEF UpdateResOk
<1>5. CASE TranferReq
  <2>1. packet_len' = Least(Remain, PacketSize) /\ index' = (index + packet_len') % Word
    BY <1>5 DEF TranferReq
  <2>2. toDev' \in Seq(Message)
    BY <1>5, <2>1, PacketTypes, SendTypes DEF TranferReq, Request
  <2>3. packet_len' \in 0..PacketSize /\ index' \in 0 .. Word - 1
    BY <2>1, PacketTypes
  <2>4. timers' \subseteq Timeout
    BY <1>5, <1>b DEF TranferReq, Set, Timeout
  <2>5. Handle("TRANFER_REQ", <<>>) /\ retry' = 0 /\ UNCHANGED <<file, bin_len, open, resent>>
    BY <1>5 DEF TranferReq, history
  <2>. QED  BY <2>2, <2>3, <2>4, <2>5, <1>a, <1>b, <1>c, PostsTypes
<1>6. CASE TransferResOk
  BY <1>6, <1>a, <1>b, <1>c, PostsTypes DEF TransferResOk, Remove, task
<1>7. CASE PackedTimeout
  <2>1. (retry + 1) % 256 \in 0..255
    BY <1>b
  <2>2. (index + Word - packet_len) % Word \in 0 .. Word - 1
    <3>1. index + Word - packet_len \in Nat /\ Word > 0
      <4>1. PacketSize < Word
        BY <1>a, <1>b
      <4>. QED  BY <1>a, <1>b, <4>1
    <3>. QED  BY <3>1, <1>a
  <2>3. Least(resent + 1, RetryMax + 2) \in 0..(RetryMax + 2)
    BY <1>a, <1>b DEF Least
  <2>4. index' \in 0 .. Word - 1 /\ resent' \in 0..(RetryMax + 2) /\ open' \in BOOLEAN
    BY <1>7, <2>2, <2>3, <1>b DEF PackedTimeout, Report
  <2>. QED  BY <1>7, <2>1, <2>4, <1>b, <1>c, PostsTypes DEF PackedTimeout
<1>8. CASE InternalUpdateReq
  <2>1. toDev' \in Seq(Message)
    BY <1>8, <1>a, SendTypes DEF InternalUpdateReq, Request
  <2>. QED  BY <1>8, <2>1, <1>a, <1>b, <1>c, PostsTypes DEF InternalUpdateReq, Timeout, task, history
<1>9. CASE TransferChecksumErr \/ UpdateCompleted
  BY <1>9, <1>b, <1>c, PostsTypes DEF TransferChecksumErr, UpdateCompleted, Remove, Report, task
<1>10. CASE OnlyReport
  <2>1. PICK s : Handle(s, <<>>)
    BY <1>10 DEF OnlyReport
  <2>. QED  BY <1>10, <2>1, <1>b, <1>c, PostsTypes DEF OnlyReport, Report, task
<1>11. CASE Ask
  <2>1. mailbox' \in Seq(Signal)
    BY <1>11, <1>b DEF Ask, Signal
  <2>2. otas' \in 0..MaxOta
    BY <1>11, <1>a, <1>b DEF Ask
  <2>. QED  BY <1>11, <2>1, <2>2, <1>b DEF Ask, TypeOK, task
<1>12. CASE Arrive
  <2>1. toFw' \in Seq(Answer) /\ Head(toFw) \in Signal
    BY <1>12, <1>b DEF Arrive, Signal
  <2>2. mailbox' \in Seq(Signal)
    BY <1>12, <2>1, <1>b DEF Arrive
  <2>. QED  BY <1>12, <2>1, <2>2, <1>b DEF Arrive, TypeOK, task
<1>13. CASE LoseRequest
  <2>1. toDev' \in Seq(Message) /\ lost' \in 0..MaxLoss /\ lostEnd' \in BOOLEAN
    BY <1>13, <1>a, <1>b DEF LoseRequest
  <2>. QED  BY <1>13, <2>1, <1>b DEF LoseRequest, TypeOK, task
<1>14. CASE LoseAnswer
  <2>1. toFw' \in Seq(Answer) /\ lost' \in 0..MaxLoss /\ lostEnd' \in BOOLEAN /\ lostAnswer' \in BOOLEAN
    BY <1>14, <1>a, <1>b DEF LoseAnswer
  <2>. QED  BY <1>14, <2>1, <1>b DEF LoseAnswer, TypeOK, task
<1>15. CASE Device
  <2>1. dev' \in [phase : {"idle", "transfer", "updating"}, len : File, got : Nat, intact : BOOLEAN]
        /\ toFw' \in Seq(Answer) /\ toDev' \in Seq(Message)
    <3>1. CASE dev.phase = "updating" /\ dev' = [dev EXCEPT !.phase = "idle"]
               /\ toFw' = Append(toFw, "UPDATE_COMPLETED") /\ UNCHANGED toDev
      <4>1. "UPDATE_COMPLETED" \in Answer
        BY DEF Answer
      <4>2. toFw' \in Seq(Answer)
        BY <3>1, <4>1, <1>b, AnswerTypes
      <4>. QED  BY <3>1, <4>2, <1>b
    <3>2. CASE toDev # <<>> /\ toDev' = Tail(toDev)
               /\ (DevOffer(Head(toDev)) \/ DevPacket(Head(toDev)) \/ DevOther(Head(toDev)))
      <4> DEFINE m == Head(toDev)
      <4>0. m \in Message /\ toDev' \in Seq(Message)
        BY <3>2, <1>b
      <4>1. toDev' \in Seq(Message) /\ m.file \in File
        BY <4>0 DEF Message
      <4>2. CASE DevOffer(m)
        <5>1. "UPDATE_RES_OK" \in Answer /\ "UPDATE_BUSY" \in Answer
          BY DEF Answer
        <5>2. toFw' \in Seq(Answer)
          BY <4>2, <5>1, <1>b, AnswerTypes DEF DevOffer
        <5>3. dev' \in [phase : {"idle", "transfer", "updating"}, len : File, got : Nat, intact : BOOLEAN]
          <6>1. CASE dev' = [phase |-> "transfer", len |-> m.file, got |-> 0, intact |-> TRUE]
            <7> HIDE DEF m
            <7>. QED  BY <4>1, <6>1
          <6>2. CASE UNCHANGED dev
            BY <6>2, <1>b
          <6>. QED  BY <4>2, <6>1, <6>2 DEF DevOffer
        <5>. QED  BY <4>1, <5>2, <5>3
      <4>3. CASE DevPacket(m)
        <5>1. Least(dev.got + PacketSize, dev.len) \in Nat
          BY <1>a, <1>b DEF Least
        <5>2. PICK a \in Answer : toFw' = Append(toFw, a)
          BY <4>3 DEF DevPacket, Answer
        <5>3. dev' \in [phase : {"idle", "transfer", "updating"}, len : File, got : Nat, intact : BOOLEAN]
          BY <4>3, <5>1, <1>b DEF DevPacket
        <5>. QED  BY <4>1, <5>2, <5>3, <1>b
      <4>4. CASE DevOther(m)
        <5>1. "CURRENT_INFO_RES" \in Answer
          BY DEF Answer
        <5>2. toFw' \in Seq(Answer)
          BY <4>4, <5>1, <1>b, AnswerTypes DEF DevOther
        <5>3. dev' \in [phase : {"idle", "transfer", "updating"}, len : File, got : Nat, intact : BOOLEAN]
          BY <4>4, <1>b DEF DevOther
        <5>. QED  BY <4>1, <5>2, <5>3
      <4>. QED  BY <3>2, <4>2, <4>3, <4>4
    <3>. QED  BY <1>15, <3>1, <3>2 DEF Device
  <2>. QED  BY <1>15, <2>1, <1>b DEF Device, TypeOK, task
<1>16. CASE \E t \in Timeout : Expire(t)
  <2>1. PICK t \in Timeout : Expire(t)
    BY <1>16
  <2>2. mailbox' \in Seq(Signal) /\ timers' \subseteq Timeout
    BY <2>1, <1>b DEF Expire, Signal
  <2>3. late' \in 0..MaxLate
    BY <2>1, <1>a, <1>b DEF Expire
  <2>. QED  BY <2>1, <2>2, <2>3, <1>b DEF Expire, TypeOK, task
<1>17. CASE UNCHANGED vars
  BY <1>17 DEF vars, TypeOK
<1>. QED
  BY <1>1, <1>2, <1>3, <1>4, <1>5, <1>6, <1>7, <1>8, <1>9, <1>10, <1>11, <1>12, <1>13, <1>14,
     <1>15, <1>16, <1>17 DEF Next, Task

(* The firmware task is type-correct: its index stays a 32-bit word, whatever is
   subtracted from it.                                                     *)
THEOREM FwTypeCorrect == Spec => []TypeOK
  BY FwTypesInit, FwTypesStep, PTL DEF Spec

-----------------------------------------------------------------------------
(* The index stays in the file.  A PACKED_TIMEOUT takes a packet back that the
   index has stepped over: the timer is set with a full packet only, so that
   the index is at least one packet for each timeout that is to come.  And the
   file and its length do not change under the transfer: of one update there
   is one thread of messages until the device takes it up.                 *)
StartSig  == {"OTA_REQ", "SM_UPDATE_RES_OK", "CURRENT_INFO_RES", "UPDATE_RES_OK"}
PacketSig == {"TRANFER_REQ", "TRANSFER_RES_OK"}
Asking    == {m \in Message : m.sig \in {"FW_INFO_REQ", "FW_UPDATE_REQ"}}
Carrying  == {m \in Message : m.sig = "FW_TRANSFER_REQ"}

Starts  == One(otas = 0) + Occ(mailbox, StartSig) + Occ(toFw, StartSig) + Occ(toDev, Asking)
Packets == Occ(mailbox, PacketSig) + Occ(toFw, PacketSig) + Occ(toDev, Carrying)
Due     == Occ(mailbox, {"PACKED_TIMEOUT"}) + One("PACKED_TIMEOUT" \in timers)

Covered == /\ index <= bin_len
           /\ PacketSize * Due <= index
Unstarted == Starts = 1 => index = 0 /\ Packets = 0

IndexInv == TypeOK /\ (otas <= 1 => Starts <= 1 /\ Unstarted /\ Covered)

LEMMA OneType == ASSUME NEW b PROVE One(b) \in {0, 1}
  BY DEF One

(* What is counted is counted in numbers. *)
Counted == /\ \A M : Occ(mailbox, M) \in Nat /\ Occ(toFw, M) \in Nat /\ Occ(toDev, M) \in Nat
           /\ Starts \in Nat /\ Packets \in Nat /\ Due \in Nat

LEMMA CountTypes == TypeOK => Counted
<1> SUFFICES ASSUME TypeOK PROVE Counted
  OBVIOUS
<1>1. mailbox \in Seq(Signal) /\ toFw \in Seq(Answer) /\ toDev \in Seq(Message)
  BY DEF TypeOK
<1>2. \A M : Occ(mailbox, M) \in Nat /\ Occ(toFw, M) \in Nat /\ Occ(toDev, M) \in Nat
  BY <1>1, PlacesFinite
<1>3. One(otas = 0) \in Nat /\ One("PACKED_TIMEOUT" \in timers) \in Nat
  BY DEF One
<1>. QED  BY <1>2, <1>3 DEF Counted, Starts, Packets, Due

LEMMA HandleCounts ==
  ASSUME TypeOK, NEW s, NEW posts \in Seq(Signal), Handle(s, posts), NEW M
  PROVE  Occ(mailbox, M) = One(s \in M) + Occ(Tail(mailbox), M)
         /\ Occ(mailbox', M) = Occ(Tail(mailbox), M) + Occ(posts, M)
         /\ Occ(Tail(mailbox), M) \in Nat
<1>1. mailbox \in Seq(Signal) /\ mailbox # <<>> /\ Head(mailbox) = s
      /\ mailbox' = Tail(mailbox) \o posts /\ Tail(mailbox) \in Seq(Signal)
  BY DEF TypeOK, Handle
<1>2. Occ(mailbox, M) = One(s \in M) + Occ(Tail(mailbox), M)
  BY <1>1, OccTail
<1>3. Occ(mailbox', M) = Occ(Tail(mailbox), M) + Occ(posts, M)
  BY <1>1, OccConcat
<1>. QED  BY <1>1, <1>2, <1>3, PlacesFinite

(* A handler that posts nothing, or one signal p. *)
LEMMA HandleNone ==
  ASSUME TypeOK, NEW s, Handle(s, <<>>), NEW M
  PROVE  Occ(mailbox, M) = Occ(mailbox', M) + One(s \in M) /\ Occ(mailbox', M) \in Nat
<1>1. Occ(mailbox', M) = Occ(Tail(mailbox), M) + Occ(<<>>, M) /\ Occ(<<>>, M) = 0
      /\ Occ(mailbox, M) = One(s \in M) + Occ(Tail(mailbox), M) /\ Occ(Tail(mailbox), M) \in Nat
  BY HandleCounts, PostsTypes, OccEmpty
<1>2. One(s \in M) \in {0, 1}
  BY OneType
<1>. QED  BY <1>1, <1>2

LEMMA HandlePost ==
  ASSUME TypeOK, NEW s, NEW p \in Signal, Handle(s, <<p>>), NEW M
  PROVE  Occ(mailbox, M) + One(p \in M) = Occ(mailbox', M) + One(s \in M)
         /\ Occ(mailbox', M) \in Nat /\ Occ(mailbox, M) >= One(s \in M)
<1>0. <<p>> \in Seq(Signal)
  OBVIOUS
<1>1. Occ(mailbox', M) = Occ(Tail(mailbox), M) + Occ(<<p>>, M)
      /\ Occ(mailbox, M) = One(s \in M) + Occ(Tail(mailbox), M) /\ Occ(Tail(mailbox), M) \in Nat
  BY <1>0, HandleCounts
<1>2. Occ(<<p>>, M) = One(p \in M)
  BY OccOne
<1>3. One(s \in M) \in {0, 1} /\ One(p \in M) \in {0, 1}
  BY OneType
<1>. QED  BY <1>1, <1>2, <1>3

LEMMA SendCounts ==
  ASSUME TypeOK, NEW s \in Request, NEW from \in 0..NoBytes, Send(s, from)
  PROVE  /\ Occ(toDev', Asking) = Occ(toDev, Asking) + One(s \in {"FW_INFO_REQ", "FW_UPDATE_REQ"})
         /\ Occ(toDev', Carrying) = Occ(toDev, Carrying) + One(s = "FW_TRANSFER_REQ")
<1> DEFINE m == [sig |-> s, file |-> file, from |-> from]
<1>1. m \in Message /\ m.sig = s
  BY DEF Message, TypeOK
<1>2. toDev' = Append(toDev, m) /\ toDev \in Seq(Message)
  BY DEF Send, TypeOK
<1> HIDE DEF m
<1>3. Occ(toDev', Asking) = Occ(toDev, Asking) + One(m \in Asking)
      /\ Occ(toDev', Carrying) = Occ(toDev, Carrying) + One(m \in Carrying)
  BY <1>1, <1>2, OccAppend
<1>4. (m \in Asking) = (s \in {"FW_INFO_REQ", "FW_UPDATE_REQ"}) /\ (m \in Carrying) = (s = "FW_TRANSFER_REQ")
  BY <1>1 DEF Asking, Carrying
<1>. QED  BY <1>3, <1>4

(* What a step does to the messages to the device, when it takes the oldest. *)
LEMMA TakenCounts ==
  ASSUME TypeOK, toDev # <<>>, toDev' = Tail(toDev)
  PROVE  /\ Occ(toDev, Asking) = Occ(toDev', Asking)
              + One(Head(toDev).sig \in {"FW_INFO_REQ", "FW_UPDATE_REQ"})
         /\ Occ(toDev, Carrying) = Occ(toDev', Carrying) + One(Head(toDev).sig = "FW_TRANSFER_REQ")
         /\ Occ(toDev', Asking) \in Nat /\ Occ(toDev', Carrying) \in Nat
<1>1. toDev \in Seq(Message) /\ Head(toDev) \in Message /\ Tail(toDev) \in Seq(Message)
  BY DEF TypeOK
<1>2. Occ(toDev, Asking) = One(Head(toDev) \in Asking) + Occ(Tail(toDev), Asking)
      /\ Occ(toDev, Carrying) = One(Head(toDev) \in Carrying) + Occ(Tail(toDev), Carrying)
  BY <1>1, OccTail
<1>3. (Head(toDev) \in Asking) = (Head(toDev).sig \in {"FW_INFO_REQ", "FW_UPDATE_REQ"})
      /\ (Head(toDev) \in Carrying) = (Head(toDev).sig = "FW_TRANSFER_REQ")
  BY <1>1 DEF Asking, Carrying
<1>4. Occ(Tail(toDev), Asking) \in Nat /\ Occ(Tail(toDev), Carrying) \in Nat
  BY <1>1, PlacesFinite
<1>5. One(Head(toDev) \in Asking) \in {0, 1} /\ One(Head(toDev) \in Carrying) \in {0, 1}
  BY OneType
<1>. QED  BY <1>2, <1>3, <1>4, <1>5

LEMMA AnsweredCounts ==
  ASSUME TypeOK, NEW a \in Answer, toFw' = Append(toFw, a), NEW M
  PROVE  Occ(toFw', M) = Occ(toFw, M) + One(a \in M)
  BY OccAppend DEF TypeOK

LEMMA SumGrows ==
  /\ \A a, b \in Nat : a + b \in Nat /\ a <= a + b
  /\ \A o, a, b, c, a1, b1, c1 \in Nat : a1 + b1 + c1 <= a + b + c => o + a1 + b1 + c1 <= o + a + b + c
  OBVIOUS

LEMMA NoWrap ==
  ASSUME NEW w \in Nat, NEW x \in 0 .. w - 1
  PROVE  x % w = x /\ (w + x) % w = x
  OBVIOUS

LEMMA ProductGrows ==
  ASSUME NEW p \in Nat, NEW a \in Nat, NEW b \in Nat, a <= b
  PROVE  p * a \in Nat /\ p * b \in Nat /\ p * a <= p * b
<1> DEFINE c == b - a
<1>1. c \in Nat /\ b = a + c
  OBVIOUS
<1> HIDE DEF c
<1>2. p * (a + c) = p * a + p * c /\ p * a \in Nat /\ p * c \in Nat
  BY <1>1
<1>. QED  BY <1>1, <1>2

(* Most steps neither move the index nor start or extend the transfer. *)
LEMMA Calm ==
  ASSUME IndexInv, otas <= 1, Starts' \in Nat, Packets' \in Nat, Due' \in Nat,
         Starts' <= Starts, Due' <= Due, Starts' = 1 => Packets' <= Packets,
         UNCHANGED <<index, bin_len>>
  PROVE  Starts' <= 1 /\ Unstarted' /\ Covered'
<1>1. Starts \in Nat /\ Packets \in Nat /\ Due \in Nat /\ Starts <= 1 /\ Unstarted /\ Covered /\ TypeOK
  BY CountTypes DEF IndexInv, Counted
<1>2. PacketSize \in Nat /\ index \in Nat /\ bin_len \in Nat
  BY <1>1, Numbers DEF TypeOK
<1>3. PacketSize * Due' <= PacketSize * Due /\ PacketSize * Due' \in Nat /\ PacketSize * Due \in Nat
  BY <1>1, <1>2, ProductGrows
<1>4. Covered'
  <2>1. PacketSize * Due <= index /\ index <= bin_len
    BY <1>1 DEF Covered
  <2> DEFINE x == PacketSize * Due
             y == PacketSize * Due'
  <2>2. y <= index
    <3>1. x \in Nat /\ y \in Nat /\ y <= x /\ x <= index
      BY <1>3, <2>1
    <3> HIDE DEF x, y
    <3>. QED  BY <3>1, <1>2
  <2>. QED  BY <2>1, <2>2 DEF Covered
<1>5. Unstarted'
  BY <1>1 DEF Unstarted
<1>. QED  BY <1>1, <1>4, <1>5

LEMMA IndexStep == IndexInv /\ [Next]_vars => IndexInv'
<1> SUFFICES ASSUME IndexInv, [Next]_vars PROVE IndexInv'
  OBVIOUS
<1>t. TypeOK /\ TypeOK'
  BY FwTypesStep DEF IndexInv
<1> SUFFICES ASSUME otas' <= 1 PROVE Starts' <= 1 /\ Unstarted' /\ Covered'
  BY <1>t DEF IndexInv
<1>1. otas <= 1 /\ otas \in Nat
  <2>1. otas \in Nat /\ otas' \in Nat
    BY <1>t, FwBounds DEF TypeOK
  <2>2. otas' = otas \/ otas' = otas + 1
    BY DEF Next, Task, OtaReq, SmUpdateResOk, CurrentInfoRes, UpdateResOk, TranferReq, TransferResOk,
           PackedTimeout, InternalUpdateReq, TransferChecksumErr, UpdateCompleted, OnlyReport,
           Handle, outside, Ask, Arrive, LoseRequest, LoseAnswer, Device, Expire, vars
  <2>. QED  BY <2>1, <2>2
<1>2. Starts <= 1 /\ Unstarted /\ Covered
  BY <1>1 DEF IndexInv
<1>n. /\ \A M : Occ(mailbox, M) \in Nat /\ Occ(toFw, M) \in Nat /\ Occ(toDev, M) \in Nat
      /\ \A M : Occ(mailbox', M) \in Nat /\ Occ(toFw', M) \in Nat /\ Occ(toDev', M) \in Nat
      /\ Starts \in Nat /\ Packets \in Nat /\ Due \in Nat
      /\ Starts' \in Nat /\ Packets' \in Nat /\ Due' \in Nat
  <2>1. TypeOK' => Counted'
    BY CountTypes, PTL
  <2>. QED  BY <1>t, <2>1, CountTypes DEF Counted
<1>o. /\ \A b : One(b) \in {0, 1}
      /\ One(TRUE) = 1 /\ One(FALSE) = 0
  BY OneType DEF One
<1>c. ASSUME Starts' <= Starts, Due' <= Due, Starts' = 1 => Packets' <= Packets,
             UNCHANGED <<index, bin_len>>
      PROVE  Starts' <= 1 /\ Unstarted' /\ Covered'
  BY <1>c, <1>n, <1>1, Calm
(* Handlers that leave what is under way to the device and back alone, and the
   packet timer, or remove it.                                             *)
<1>h. ASSUME NEW s \in Signal, Handle(s, <<>>), UNCHANGED <<index, bin_len>>,
             timers' \subseteq timers \cup (Timeout \ {"PACKED_TIMEOUT"}),
             \/ UNCHANGED toDev
             \/ \E r \in Request : \E from \in 0..NoBytes :
                  Send(r, from) /\ r # "FW_TRANSFER_REQ"
                  /\ (r \in {"FW_INFO_REQ", "FW_UPDATE_REQ"} => s \in StartSig)
      PROVE  Starts' <= 1 /\ Unstarted' /\ Covered'
  <2>1. \A M : Occ(mailbox, M) = Occ(mailbox', M) + One(s \in M)
    BY <1>h, <1>t, HandleNone
  <2>2. Occ(toDev', Asking) <= Occ(toDev, Asking) + One(s \in StartSig)
        /\ Occ(toDev', Carrying) <= Occ(toDev, Carrying)
    <3>1. CASE UNCHANGED toDev
      BY <3>1, <1>n, <1>o
    <3>2. CASE \E r \in Request : \E from \in 0..NoBytes :
                  Send(r, from) /\ r # "FW_TRANSFER_REQ"
                  /\ (r \in {"FW_INFO_REQ", "FW_UPDATE_REQ"} => s \in StartSig)
      <4>1. PICK r \in Request, from \in 0..NoBytes :
                  Send(r, from) /\ r # "FW_TRANSFER_REQ"
                  /\ (r \in {"FW_INFO_REQ", "FW_UPDATE_REQ"} => s \in StartSig)
        BY <3>2
      <4>2. Occ(toDev', Asking) = Occ(toDev, Asking) + One(r \in {"FW_INFO_REQ", "FW_UPDATE_REQ"})
            /\ Occ(toDev', Carrying) = Occ(toDev, Carrying) + One(r = "FW_TRANSFER_REQ")
        BY <4>1, <1>t, SendCounts
      <4>3. One(r = "FW_TRANSFER_REQ") = 0
            /\ One(r \in {"FW_INFO_REQ", "FW_UPDATE_REQ"}) <= One(s \in StartSig)
        BY <4>1 DEF One
      <4>. QED  BY <4>2, <4>3, <1>n, <1>o
    <3>. QED  BY <1>h, <3>1, <3>2
  <2>3. UNCHANGED <<otas, toFw>>
    BY <1>h DEF Handle, outside
  <2>4. One("PACKED_TIMEOUT" \in timers') <= One("PACKED_TIMEOUT" \in timers)
    BY <1>h DEF One
  <2>5. Starts' <= Starts
    BY <2>1, <2>2, <2>3, <1>n, <1>o DEF Starts
  <2>6. Packets' <= Packets
    BY <2>1, <2>2, <2>3, <1>n, <1>o DEF Packets
  <2>7. Due' <= Due
    BY <2>1, <2>4, <1>n, <1>o DEF Due
  <2>. QED  BY <1>c, <1>h, <2>5, <2>6, <2>7
<1>3. CASE OtaReq
  <2>0. UNCHANGED <<index, bin_len, toDev, timers>>
    BY <1>3 DEF OtaReq
  <2>1. CASE Handle("OTA_REQ", <<"SM_UPDATE_RES_OK">>)
    <3>0. "SM_UPDATE_RES_OK" \in Signal
      BY DEF Signal
    <3>1. \A M : Occ(mailbox, M) + One("SM_UPDATE_RES_OK" \in M) = Occ(mailbox', M) + One("OTA_REQ" \in M)
      BY <2>1, <3>0, <1>t, HandlePost
    <3>2. UNCHANGED <<otas, toFw>>
      BY <2>1 DEF Handle, outside
    <3>3. /\ One("SM_UPDATE_RES_OK" \in StartSig) = 1 /\ One("OTA_REQ" \in StartSig) = 1
          /\ One("SM_UPDATE_RES_OK" \in PacketSig) = 0 /\ One("OTA_REQ" \in PacketSig) = 0
          /\ One("SM_UPDATE_RES_OK" \in {"PACKED_TIMEOUT"}) = 0 /\ One("OTA_REQ" \in {"PACKED_TIMEOUT"}) = 0
      BY DEF One, StartSig, PacketSig
    <3>4. /\ Occ(mailbox', StartSig) = Occ(mailbox, StartSig)
          /\ Occ(mailbox', PacketSig) = Occ(mailbox, PacketSig)
          /\ Occ(mailbox', {"PACKED_TIMEOUT"}) = Occ(mailbox, {"PACKED_TIMEOUT"})
      BY <3>1, <3>3, <1>n
    <3>. QED  BY <1>c, <2>0, <3>2, <3>4, <1>n DEF Starts, Packets, Due
  <2>2. CASE Handle("OTA_REQ", <<>>)
    BY <1>h, <2>0, <2>2 DEF Signal
  <2>. QED  BY <1>3, <2>1, <2>2 DEF OtaReq
<1>4. CASE SmUpdateResOk
  <2>1. Handle("SM_UPDATE_RES_OK", <<>>) /\ Send("FW_INFO_REQ", 0) /\ UNCHANGED <<index, bin_len>>
        /\ timers' = timers \cup {"GET_FIRMWARE_INFO_TIMEOUT"}
    BY <1>4 DEF SmUpdateResOk, task, Set
  <2>2. "SM_UPDATE_RES_OK" \in StartSig /\ "SM_UPDATE_RES_OK" \in Signal /\ "FW_INFO_REQ" \in Request
        /\ 0 \in 0..NoBytes /\ "GET_FIRMWARE_INFO_TIMEOUT" \in Timeout \ {"PACKED_TIMEOUT"}
    BY Numbers DEF StartSig, Signal, Request, NoBytes, Timeout
  <2>. QED  BY <1>h, <2>1, <2>2
<1>5. CASE CurrentInfoRes
  <2>1. Handle("CURRENT_INFO_RES", <<>>) /\ index' = index
        /\ bin_len' = file /\ timers' = timers \ {"GET_FIRMWARE_INFO_TIMEOUT"}
        /\ (UNCHANGED toDev \/ Send("FW_UPDATE_REQ", 0))
    BY <1>5 DEF CurrentInfoRes, FirmwareGetInfo, Remove
  <2>2. /\ One("CURRENT_INFO_RES" \in StartSig) = 1 /\ One("CURRENT_INFO_RES" \in PacketSig) = 0
        /\ One("CURRENT_INFO_RES" \in {"PACKED_TIMEOUT"}) = 0
    BY DEF One, StartSig, PacketSig
  <2>3. \A M : Occ(mailbox, M) = Occ(mailbox', M) + One("CURRENT_INFO_RES" \in M)
    BY <2>1, <1>t, HandleNone
  <2>4. /\ Occ(mailbox, StartSig) = Occ(mailbox', StartSig) + 1
        /\ Occ(mailbox, PacketSig) = Occ(mailbox', PacketSig)
        /\ Occ(mailbox, {"PACKED_TIMEOUT"}) = Occ(mailbox', {"PACKED_TIMEOUT"})
    BY <2>2, <2>3, <1>n
  <2>5. Occ(toDev', Asking) <= Occ(toDev, Asking) + 1 /\ Occ(toDev', Carrying) = Occ(toDev, Carrying)
    <3>1. CASE UNCHANGED toDev
      BY <3>1, <1>n
    <3>2. CASE Send("FW_UPDATE_REQ", 0)
      <4>1. "FW_UPDATE_REQ" \in Request /\ 0 \in 0..NoBytes
        BY Numbers DEF Request, NoBytes
      <4>2. Occ(toDev', Asking) = Occ(toDev, Asking) + One("FW_UPDATE_REQ" \in {"FW_INFO_REQ", "FW_UPDATE_REQ"})
            /\ Occ(toDev', Carrying) = Occ(toDev, Carrying) + One("FW_UPDATE_REQ" = "FW_TRANSFER_REQ")
        BY <3>2, <4>1, <1>t, SendCounts
      <4>3. One("FW_UPDATE_REQ" \in {"FW_INFO_REQ", "FW_UPDATE_REQ"}) = 1
            /\ One("FW_UPDATE_REQ" = "FW_TRANSFER_REQ") = 0
        BY DEF One
      <4>. QED  BY <4>2, <4>3, <1>n
    <3>. QED  BY <2>1, <3>1, <3>2
  <2>6. UNCHANGED <<otas, toFw>>
    BY <2>1 DEF Handle, outside
  <2>7. Starts = 1 /\ index = 0 /\ Packets = 0
    <3>1. Starts >= 1
      BY <2>4, <1>n, <1>o DEF Starts
    <3>. QED  BY <3>1, <1>2, <1>n DEF Unstarted
  <2>8. Starts' <= Starts /\ Packets' = Packets
    BY <2>4, <2>5, <2>6, <1>n, <1>o DEF Starts, Packets
  <2>9. Due' = Due
    <3>1. ("PACKED_TIMEOUT" \in timers') = ("PACKED_TIMEOUT" \in timers)
      BY <2>1
    <3>. QED  BY <3>1, <2>4 DEF Due
  <2>10. Covered'
    <3>1. bin_len' \in Nat
      BY <1>t, Numbers DEF TypeOK
    <3>. QED  BY <3>1, <2>1, <2>7, <2>9, <1>2 DEF Covered
  <2>. QED  BY <2>1, <2>7, <2>8, <2>10, <1>n DEF Unstarted
<1>6. CASE UpdateResOk
  <2>1. Handle("UPDATE_RES_OK", <<"TRANFER_REQ">>) /\ index' = 0 /\ UNCHANGED <<bin_len, toDev, timers>>
        /\ "TRANFER_REQ" \in Signal
    BY <1>6 DEF UpdateResOk, Signal
  <2>2. \A M : Occ(mailbox, M) + One("TRANFER_REQ" \in M) = Occ(mailbox', M) + One("UPDATE_RES_OK" \in M)
    BY <2>1, <1>t, HandlePost
  <2>3. /\ One("UPDATE_RES_OK" \in StartSig) = 1 /\ One("TRANFER_REQ" \in StartSig) = 0
        /\ One("UPDATE_RES_OK" \in {"PACKED_TIMEOUT"}) = 0 /\ One("TRANFER_REQ" \in {"PACKED_TIMEOUT"}) = 0
    BY DEF One, StartSig
  <2>4. /\ Occ(mailbox, StartSig) = Occ(mailbox', StartSig) + 1
        /\ Occ(mailbox, {"PACKED_TIMEOUT"}) = Occ(mailbox', {"PACKED_TIMEOUT"})
    BY <2>2, <2>3, <1>n
  <2>5. UNCHANGED <<otas, toFw>>
    BY <2>1 DEF Handle, outside
  <2>6. Starts = Starts' + 1
    BY <2>1, <2>4, <2>5, <1>n, <1>o DEF Starts
  <2>7. Starts = 1 /\ index = 0 /\ Starts' = 0
    <3>1. Starts \in Nat /\ Starts' \in Nat /\ Starts <= 1
      BY <1>2, <1>n
    <3>2. Starts = 1 /\ Starts' = 0
      <4> DEFINE a == Starts
                 b == Starts'
      <4>1. a \in Nat /\ b \in Nat /\ a <= 1 /\ a = b + 1
        BY <2>6, <3>1
      <4>2. a = 1 /\ b = 0
        <5> HIDE DEF a, b
        <5>. QED  BY <4>1
      <4>. QED  BY <4>2
    <3>. QED  BY <3>2, <1>2 DEF Unstarted
  <2>. QED  BY <1>c, <2>1, <2>4, <2>6, <2>7, <1>n DEF Due
<1>7. CASE TranferReq
  <2>1. /\ Handle("TRANFER_REQ", <<>>) /\ UNCHANGED bin_len
        /\ packet_len' = Least(Remain, PacketSize) /\ index' = (index + packet_len') % Word
        /\ timers' = IF index' < bin_len THEN timers \cup {"PACKED_TIMEOUT"} ELSE timers
        /\ Send("FW_TRANSFER_REQ", FirmwareRead(index, packet_len'))
    BY <1>7 DEF TranferReq, Set
  <2>2. \A M : Occ(mailbox, M) = Occ(mailbox', M) + One("TRANFER_REQ" \in M)
    BY <2>1, <1>t, HandleNone
  <2>3. /\ One("TRANFER_REQ" \in StartSig) = 0 /\ One("TRANFER_REQ" \in PacketSig) = 1
        /\ One("TRANFER_REQ" \in {"PACKED_TIMEOUT"}) = 0
    BY DEF One, StartSig, PacketSig
  <2>4. /\ Occ(mailbox, StartSig) = Occ(mailbox', StartSig)
        /\ Occ(mailbox, PacketSig) = Occ(mailbox', PacketSig) + 1
        /\ Occ(mailbox, {"PACKED_TIMEOUT"}) = Occ(mailbox', {"PACKED_TIMEOUT"})
    BY <2>2, <2>3, <1>n
  <2>5. Occ(toDev', Asking) = Occ(toDev, Asking)
    <3>1. "FW_TRANSFER_REQ" \in Request /\ FirmwareRead(index, packet_len') \in 0..NoBytes
      BY <2>1, <1>t, PacketTypes DEF Request
    <3>2. Occ(toDev', Asking) = Occ(toDev, Asking) + One("FW_TRANSFER_REQ" \in {"FW_INFO_REQ", "FW_UPDATE_REQ"})
      BY <2>1, <3>1, <1>t, SendCounts
    <3>3. One("FW_TRANSFER_REQ" \in {"FW_INFO_REQ", "FW_UPDATE_REQ"}) = 0
      BY DEF One
    <3>. QED  BY <3>2, <3>3, <1>n
  <2>6. UNCHANGED <<otas, toFw>>
    BY <2>1 DEF Handle, outside
  <2>7. Starts' = 0
    <3>1. Packets >= 1
      BY <2>4, <1>n DEF Packets
    <3>2. Starts # 1
      BY <3>1, <1>2, <1>n DEF Unstarted
    <3>. QED  BY <2>4, <2>5, <2>6, <3>2, <1>2, <1>n DEF Starts
  (* The packet fits into what is left of the file: nothing wraps. *)
  <2>8. /\ index \in Nat /\ bin_len \in Nat /\ Word \in Nat /\ PacketSize \in Nat /\ PacketSize > 0
        /\ index <= bin_len /\ bin_len < Word /\ PacketSize * Due <= index
    <3>1. /\ index \in 0 .. Word - 1 /\ bin_len \in Nat /\ bin_len + PacketSize < Word
          /\ Word \in Nat /\ PacketSize \in Nat /\ PacketSize > 0
      BY <1>t, Numbers DEF TypeOK
    <3>. QED  BY <3>1, <1>2 DEF Covered
  <2>9. /\ packet_len' \in Nat /\ packet_len' <= PacketSize
        /\ index' = index + packet_len' /\ index' <= bin_len
        /\ index' < bin_len => packet_len' = PacketSize
    <3>1. Remain = bin_len - index
      <4>1. bin_len + Word - index = Word + (bin_len - index) /\ bin_len - index \in 0 .. Word - 1
        BY <2>8
      <4>2. (Word + (bin_len - index)) % Word = bin_len - index
        BY <4>1, <2>8, NoWrap
      <4>. QED  BY <4>1, <4>2 DEF Remain
    <3>2. packet_len' = IF bin_len - index < PacketSize THEN bin_len - index ELSE PacketSize
      BY <2>1, <3>1 DEF Least
    <3>3. packet_len' \in Nat /\ index + packet_len' <= bin_len /\ index + packet_len' \in 0 .. Word - 1
          /\ packet_len' <= PacketSize
      BY <3>2, <2>8
    <3>4. index' = index + packet_len'
      BY <3>3, <2>1, <2>8, NoWrap
    <3>. QED  BY <3>2, <3>3, <3>4, <2>8
  <2>10. Covered'
    <3>1. CASE index' < bin_len
      <4>1. One("PACKED_TIMEOUT" \in timers') <= One("PACKED_TIMEOUT" \in timers) + 1
        BY <1>o
      <4>2. Due' <= Due + 1
        BY <2>4, <4>1, <1>n, <1>o DEF Due
      <4>3. PacketSize * Due' <= PacketSize * (Due + 1) /\ PacketSize * Due' \in Nat
            /\ PacketSize * (Due + 1) = PacketSize * Due + PacketSize
            /\ PacketSize * Due \in Nat
        <5>1. Due + 1 \in Nat
          BY <1>n
        <5>2. PacketSize * Due' <= PacketSize * (Due + 1) /\ PacketSize * Due' \in Nat
          BY <5>1, <4>2, <2>8, <1>n, ProductGrows
        <5> DEFINE d == Due
        <5>3. d \in Nat
          BY <1>n
        <5> HIDE DEF d
        <5>4. PacketSize * (d + 1) = PacketSize * d + PacketSize /\ PacketSize * d \in Nat
          BY <5>3, <2>8
        <5>. QED  BY <5>2, <5>4 DEF d
      <4> DEFINE x == PacketSize * Due
                 y == PacketSize * Due'
      <4>4. y <= index'
        <5>1. x \in Nat /\ y \in Nat /\ y <= x + PacketSize /\ x <= index /\ index' = index + PacketSize
          BY <4>3, <2>8, <2>9, <3>1
        <5> HIDE DEF x, y
        <5>. QED  BY <5>1, <2>8
      <4>. QED  BY <2>1, <2>9, <4>4 DEF Covered
    <3>2. CASE ~(index' < bin_len)
      <4>1. Due' = Due
        BY <2>1, <2>4, <3>2 DEF Due
      <4> DEFINE x == PacketSize * Due
      <4>2. x \in Nat /\ x <= index
        BY <2>8, <1>n, ProductGrows
      <4>3. x <= index'
        <5>1. index \in Nat
          BY <2>8
        <5> HIDE DEF x
        <5>0. packet_len' \in Nat /\ index' = index + packet_len'
          BY <2>9
        <5>2. index' \in Nat /\ index <= index'
          BY <5>0, <5>1, SumGrows
        <5>. QED  BY <4>2, <5>1, <5>2
      <4>. QED  BY <2>1, <2>9, <4>1, <4>3 DEF Covered
    <3>. QED  BY <3>1, <3>2
  <2>. QED  BY <2>7, <2>10 DEF Unstarted
<1>8. CASE TransferResOk
  <2>1. Handle("TRANSFER_RES_OK", <<"TRANFER_REQ">>) /\ UNCHANGED <<index, bin_len, toDev>>
        /\ timers' = timers \ {"PACKED_TIMEOUT"} /\ "TRANFER_REQ" \in Signal
    BY <1>8 DEF TransferResOk, Signal, Remove, task
  <2>2. \A M : Occ(mailbox, M) + One("TRANFER_REQ" \in M) = Occ(mailbox', M) + One("TRANSFER_RES_OK" \in M)
    BY <2>1, <1>t, HandlePost
  <2>3. /\ One("TRANSFER_RES_OK" \in StartSig) = 0 /\ One("TRANFER_REQ" \in StartSig) = 0
        /\ One("TRANSFER_RES_OK" \in PacketSig) = 1 /\ One("TRANFER_REQ" \in PacketSig) = 1
        /\ One("TRANSFER_RES_OK" \in {"PACKED_TIMEOUT"}) = 0 /\ One("TRANFER_REQ" \in {"PACKED_TIMEOUT"}) = 0
    BY DEF One, StartSig, PacketSig
  <2>4. /\ Occ(mailbox, StartSig) = Occ(mailbox', StartSig)
        /\ Occ(mailbox, PacketSig) = Occ(mailbox', PacketSig)
        /\ Occ(mailbox, {"PACKED_TIMEOUT"}) = Occ(mailbox', {"PACKED_TIMEOUT"})
    BY <2>2, <2>3, <1>n
  <2>5. UNCHANGED <<otas, toFw>>
    BY <2>1 DEF Handle, outside
  <2>6. One("PACKED_TIMEOUT" \in timers') <= One("PACKED_TIMEOUT" \in timers)
    BY <2>1 DEF One
  <2>7. Starts' = Starts /\ Packets' = Packets
    BY <2>1, <2>4, <2>5 DEF Starts, Packets
  <2>8. Due' <= Due
    BY <2>4, <2>6, <1>n, <1>o DEF Due
  <2>. QED  BY <1>c, <2>1, <2>7, <2>8, <1>n
<1>9. CASE PackedTimeout
  <2>1. /\ Handle("PACKED_TIMEOUT", IF retry > RetryMax THEN <<>> ELSE <<"TRANFER_REQ">>)
        /\ IF retry > RetryMax THEN index' = index ELSE index' = (index + Word - packet_len) % Word
        /\ UNCHANGED <<bin_len, timers, toDev>>
    BY <1>9 DEF PackedTimeout
  <2>2. /\ One("PACKED_TIMEOUT" \in StartSig) = 0 /\ One("TRANFER_REQ" \in StartSig) = 0
        /\ One("PACKED_TIMEOUT" \in {"PACKED_TIMEOUT"}) = 1 /\ One("TRANFER_REQ" \in {"PACKED_TIMEOUT"}) = 0
    BY DEF One, StartSig
  <2>3. /\ Occ(mailbox, StartSig) = Occ(mailbox', StartSig)
        /\ Occ(mailbox, {"PACKED_TIMEOUT"}) = Occ(mailbox', {"PACKED_TIMEOUT"}) + 1
    <3>1. CASE retry > RetryMax
      <4>1. \A M : Occ(mailbox, M) = Occ(mailbox', M) + One("PACKED_TIMEOUT" \in M)
        BY <2>1, <3>1, <1>t, HandleNone
      <4>. QED  BY <4>1, <2>2, <1>n
    <3>2. CASE ~(retry > RetryMax)
      <4>1. "TRANFER_REQ" \in Signal /\ Handle("PACKED_TIMEOUT", <<"TRANFER_REQ">>)
        BY <2>1, <3>2 DEF Signal
      <4>2. \A M : Occ(mailbox, M) + One("TRANFER_REQ" \in M) = Occ(mailbox', M) + One("PACKED_TIMEOUT" \in M)
        BY <4>1, <1>t, HandlePost
      <4>. QED  BY <4>2, <2>2, <1>n
    <3>. QED  BY <3>1, <3>2
  <2>4. UNCHANGED <<otas, toFw>>
    BY <2>1 DEF Handle, outside
  <2>5. Due = Due' + 1 /\ Starts' = Starts
    BY <2>1, <2>3, <2>4, <1>n, <1>o DEF Due, Starts
  <2>6. /\ index \in Nat /\ bin_len \in Nat /\ Word \in Nat /\ PacketSize \in Nat /\ PacketSize > 0
        /\ index <= bin_len /\ bin_len < Word /\ PacketSize * Due <= index
        /\ packet_len \in Nat /\ packet_len <= PacketSize
    <3>1. /\ index \in 0 .. Word - 1 /\ bin_len \in Nat /\ bin_len + PacketSize < Word
          /\ Word \in Nat /\ PacketSize \in Nat /\ PacketSize > 0 /\ packet_len \in 0..PacketSize
      BY <1>t, Numbers DEF TypeOK
    <3>. QED  BY <3>1, <1>2 DEF Covered
  <2> DEFINE y == PacketSize * Due'
  <2>7. y \in Nat /\ y + PacketSize <= index
    <3> DEFINE d == Due'
    <3>1. d \in Nat /\ PacketSize * (d + 1) <= index
      BY <2>5, <2>6, <1>n
    <3>2. y = PacketSize * d
      OBVIOUS
    <3> HIDE DEF d, y
    <3>3. PacketSize * (d + 1) = PacketSize * d + PacketSize /\ PacketSize * d \in Nat
      BY <3>1, <2>6
    <3>. QED  BY <3>1, <3>2, <3>3
  <2>8. y <= index' /\ index' <= bin_len
    <3> HIDE DEF y
    <3>1. CASE retry > RetryMax
      BY <3>1, <2>1, <2>6, <2>7
    <3>2. CASE ~(retry > RetryMax)
      <4>1. index + Word - packet_len = Word + (index - packet_len) /\ index - packet_len \in 0 .. Word - 1
        BY <2>6, <2>7
      <4>2. (Word + (index - packet_len)) % Word = index - packet_len
        BY <4>1, <2>6, NoWrap
      <4>3. index' = index - packet_len
        BY <2>1, <3>2, <4>1, <4>2
      <4>. QED  BY <4>3, <2>6, <2>7
    <3>. QED  BY <3>1, <3>2
  <2>9. Covered'
    BY <2>1, <2>8 DEF Covered
  <2>10. Starts' = 0
    <3>1. index # 0
      <4> HIDE DEF y
      <4>. QED  BY <2>6, <2>7
    <3>. QED  BY <3>1, <2>5, <1>2, <1>n DEF Unstarted
  <2>. QED  BY <2>9, <2>10 DEF Unstarted
<1>10. CASE InternalUpdateReq
  <2>1. Handle("INTERNAL_UPDATE_REQ", <<>>) /\ Send("FW_INTERNAL_UPDATE_RES_OK", 0)
        /\ timers' = (timers \ {"PACKED_TIMEOUT"}) \cup {"DEV_INTERNAL_UPDATE_TIMEOUT"}
        /\ UNCHANGED <<index, bin_len>>
    BY <1>10 DEF InternalUpdateReq, task
  <2>2. "INTERNAL_UPDATE_REQ" \in Signal /\ "FW_INTERNAL_UPDATE_RES_OK" \in Request
        /\ 0 \in 0..NoBytes /\ "DEV_INTERNAL_UPDATE_TIMEOUT" \in Timeout \ {"PACKED_TIMEOUT"}
    BY Numbers DEF Answer, Signal, Request, NoBytes, Timeout
  <2>. QED  BY <1>h, <2>1, <2>2
<1>11. CASE TransferChecksumErr
  <2>1. "TRANSFER_CHECKSUM_ERR" \in Signal
    BY DEF Signal, Answer
  <2>. QED  BY <1>11, <2>1, <1>h DEF TransferChecksumErr, Remove, task
<1>12. CASE UpdateCompleted
  <2>1. "UPDATE_COMPLETED" \in Signal
    BY DEF Signal, Answer
  <2>. QED  BY <1>12, <2>1, <1>h DEF UpdateCompleted, Remove, task
<1>13. CASE OnlyReport
  <2>1. PICK s \in {"GET_FIRMWARE_INFO_TIMEOUT", "DEV_INTERNAL_UPDATE_TIMEOUT", "UPDATE_BUSY"} : Handle(s, <<>>)
    BY <1>13 DEF OnlyReport
  <2>2. s \in Signal
    BY DEF Signal, Answer, Timeout
  <2>. QED  BY <1>13, <2>1, <2>2, <1>h DEF OnlyReport, task
<1>14. CASE Ask
  <2>1. mailbox' = Append(mailbox, "OTA_REQ") /\ otas' = otas + 1
        /\ UNCHANGED <<index, bin_len, timers, toDev, toFw>> /\ "OTA_REQ" \in Signal
        /\ mailbox \in Seq(Signal)
    BY <1>14, <1>t DEF Ask, task, Signal, TypeOK
  <2>2. \A M : Occ(mailbox', M) = Occ(mailbox, M) + One("OTA_REQ" \in M)
    BY <2>1, OccAppend
  <2>3. /\ One("OTA_REQ" \in StartSig) = 1 /\ One("OTA_REQ" \in PacketSig) = 0
        /\ One("OTA_REQ" \in {"PACKED_TIMEOUT"}) = 0
    BY DEF One, StartSig, PacketSig
  <2>4. /\ Occ(mailbox', StartSig) = Occ(mailbox, StartSig) + 1
        /\ Occ(mailbox', PacketSig) = Occ(mailbox, PacketSig)
        /\ Occ(mailbox', {"PACKED_TIMEOUT"}) = Occ(mailbox, {"PACKED_TIMEOUT"})
    BY <2>2, <2>3, <1>n
  <2>5. One(otas = 0) = 1 /\ One(otas' = 0) = 0
    BY <2>1, <1>1 DEF One
  <2>7. Starts' <= Starts
    BY <2>1, <2>4, <2>5, <1>n DEF Starts
  <2>8. Packets' <= Packets
    BY <2>1, <2>4, <2>5, <1>n DEF Packets
  <2>9. Due' <= Due
    BY <2>1, <2>4, <2>5, <1>n DEF Due
  <2>. QED  BY <1>c, <2>1, <2>7, <2>8, <2>9
<1>15. CASE Arrive
  <2>1. /\ toFw # <<>> /\ toFw' = Tail(toFw) /\ mailbox' = Append(mailbox, Head(toFw))
        /\ UNCHANGED <<index, bin_len, timers, toDev, otas>>
        /\ toFw \in Seq(Answer) /\ mailbox \in Seq(Signal)
    BY <1>15, <1>t DEF Arrive, task, TypeOK
  <2>2. Head(toFw) \in Answer /\ Head(toFw) \in Signal
    BY <2>1 DEF Signal
  <2>3. \A M : Occ(mailbox', M) = Occ(mailbox, M) + One(Head(toFw) \in M)
    BY <2>1, <2>2, OccAppend
  <2>4. \A M : Occ(toFw, M) = One(Head(toFw) \in M) + Occ(toFw', M)
    BY <2>1, OccTail
  <2>5. One(Head(toFw) \in {"PACKED_TIMEOUT"}) = 0
    BY <2>2 DEF Answer, One
  <2>6. /\ Occ(mailbox', StartSig) + Occ(toFw', StartSig) = Occ(mailbox, StartSig) + Occ(toFw, StartSig)
        /\ Occ(mailbox', PacketSig) + Occ(toFw', PacketSig) = Occ(mailbox, PacketSig) + Occ(toFw, PacketSig)
        /\ Occ(mailbox', {"PACKED_TIMEOUT"}) = Occ(mailbox, {"PACKED_TIMEOUT"})
    BY <2>3, <2>4, <2>5, <1>n, <1>o
  <2>a. One(otas' = 0) = One(otas = 0) /\ One(otas = 0) \in {0, 1}
    BY <2>1, OneType
  <2>7. Starts' <= Starts
    <3>1. Starts = One(otas = 0) + Occ(mailbox, StartSig) + Occ(toFw, StartSig) + Occ(toDev, Asking)
          /\ Starts' = One(otas = 0) + Occ(mailbox', StartSig) + Occ(toFw', StartSig) + Occ(toDev', Asking)
      BY <2>a DEF Starts
    <3>2. /\ Occ(mailbox, StartSig) \in Nat /\ Occ(toFw, StartSig) \in Nat /\ Occ(toDev, Asking) \in Nat
          /\ Occ(mailbox', StartSig) \in Nat /\ Occ(toFw', StartSig) \in Nat /\ Occ(toDev', Asking) \in Nat
          /\ One(otas = 0) \in Nat
      BY <1>n, <2>a
    <3>3. Occ(mailbox', StartSig) + Occ(toFw', StartSig) + Occ(toDev', Asking)
            <= Occ(mailbox, StartSig) + Occ(toFw, StartSig) + Occ(toDev, Asking)
      BY <2>1, <2>6, <3>2
    <3>. QED  BY <3>1, <3>2, <3>3, SumGrows
  <2>8. Packets' <= Packets
    BY <2>1, <2>6, <1>n, <1>o DEF Packets
  <2>9. Due' <= Due
    BY <2>1, <2>6, <1>n, <1>o DEF Due
  <2>. QED  BY <1>c, <2>1, <2>7, <2>8, <2>9
<1>16. CASE LoseRequest
  <2>1. toDev # <<>> /\ toDev' = Tail(toDev) /\ UNCHANGED <<index, bin_len, timers, mailbox, toFw, otas>>
    BY <1>16 DEF LoseRequest, task
  <2>2. Occ(toDev', Asking) <= Occ(toDev, Asking) /\ Occ(toDev', Carrying) <= Occ(toDev, Carrying)
    <3>1. /\ Occ(toDev, Asking) = Occ(toDev', Asking)
                + One(Head(toDev).sig \in {"FW_INFO_REQ", "FW_UPDATE_REQ"})
          /\ Occ(toDev, Carrying) = Occ(toDev', Carrying) + One(Head(toDev).sig = "FW_TRANSFER_REQ")
      BY <2>1, <1>t, TakenCounts
    <3>. QED  BY <3>1, <1>n, <1>o
  <2>a. One(otas' = 0) = One(otas = 0) /\ One(otas = 0) \in {0, 1}
    BY <2>1, OneType
  <2>7. Starts' <= Starts
    <3>1. Starts = One(otas = 0) + Occ(mailbox, StartSig) + Occ(toFw, StartSig) + Occ(toDev, Asking)
          /\ Starts' = One(otas = 0) + Occ(mailbox', StartSig) + Occ(toFw', StartSig) + Occ(toDev', Asking)
      BY <2>a DEF Starts
    <3>2. /\ Occ(mailbox, StartSig) \in Nat /\ Occ(toFw, StartSig) \in Nat /\ Occ(toDev, Asking) \in Nat
          /\ Occ(mailbox', StartSig) \in Nat /\ Occ(toFw', StartSig) \in Nat /\ Occ(toDev', Asking) \in Nat
          /\ One(otas = 0) \in Nat
      BY <1>n, <2>a
    <3>3. Occ(mailbox', StartSig) + Occ(toFw', StartSig) + Occ(toDev', Asking)
            <= Occ(mailbox, StartSig) + Occ(toFw, StartSig) + Occ(toDev, Asking)
      BY <2>1, <2>2, <3>2
    <3>. QED  BY <3>1, <3>2, <3>3, SumGrows
  <2>8. Packets' <= Packets
    BY <2>1, <2>2, <1>n, <1>o, SMTT(20) DEF Packets
  <2>9. Due' <= Due
    BY <2>1, <2>2, <1>n, <1>o DEF Due
  <2>. QED  BY <1>c, <2>1, <2>7, <2>8, <2>9
<1>17. CASE LoseAnswer
  <2>1. toFw # <<>> /\ toFw' = Tail(toFw) /\ UNCHANGED <<index, bin_len, timers, mailbox, toDev, otas>>
        /\ toFw \in Seq(Answer)
    BY <1>17, <1>t DEF LoseAnswer, task, TypeOK
  <2>2. \A M : Occ(toFw, M) = One(Head(toFw) \in M) + Occ(toFw', M)
    BY <2>1, OccTail
  <2>3. Occ(toFw', StartSig) <= Occ(toFw, StartSig) /\ Occ(toFw', PacketSig) <= Occ(toFw, PacketSig)
    BY <2>2, <1>n, <1>o
  <2>a. One(otas' = 0) = One(otas = 0) /\ One(otas = 0) \in {0, 1}
    BY <2>1, OneType
  <2>7. Starts' <= Starts
    <3>1. Starts = One(otas = 0) + Occ(mailbox, StartSig) + Occ(toFw, StartSig) + Occ(toDev, Asking)
          /\ Starts' = One(otas = 0) + Occ(mailbox', StartSig) + Occ(toFw', StartSig) + Occ(toDev', Asking)
      BY <2>a DEF Starts
    <3>2. /\ Occ(mailbox, StartSig) \in Nat /\ Occ(toFw, StartSig) \in Nat /\ Occ(toDev, Asking) \in Nat
          /\ Occ(mailbox', StartSig) \in Nat /\ Occ(toFw', StartSig) \in Nat /\ Occ(toDev', Asking) \in Nat
          /\ One(otas = 0) \in Nat
      BY <1>n, <2>a
    <3>3. Occ(mailbox', StartSig) + Occ(toFw', StartSig) + Occ(toDev', Asking)
            <= Occ(mailbox, StartSig) + Occ(toFw, StartSig) + Occ(toDev, Asking)
      BY <2>1, <2>3, <3>2
    <3>. QED  BY <3>1, <3>2, <3>3, SumGrows
  <2>8. Packets' <= Packets
    BY <2>1, <2>3, <1>n, <1>o, SMTT(20) DEF Packets
  <2>9. Due' <= Due
    BY <2>1, <2>3, <1>n, <1>o DEF Due
  <2>. QED  BY <1>c, <2>1, <2>7, <2>8, <2>9
<1>18. CASE Device
  <2>0. UNCHANGED <<index, bin_len, timers, mailbox, otas>>
    BY <1>18 DEF Device, task
  <2>1. Occ(toFw', StartSig) + Occ(toDev', Asking) <= Occ(toFw, StartSig) + Occ(toDev, Asking)
        /\ Occ(toFw', PacketSig) + Occ(toDev', Carrying) <= Occ(toFw, PacketSig) + Occ(toDev, Carrying)
    <3>1. CASE toFw' = Append(toFw, "UPDATE_COMPLETED") /\ UNCHANGED toDev
      <4>1. "UPDATE_COMPLETED" \in Answer
        BY DEF Answer
      <4>2. \A M : Occ(toFw', M) = Occ(toFw, M) + One("UPDATE_COMPLETED" \in M)
        BY <3>1, <4>1, <1>t, AnsweredCounts
      <4>3. One("UPDATE_COMPLETED" \in StartSig) = 0 /\ One("UPDATE_COMPLETED" \in PacketSig) = 0
        BY DEF One, StartSig, PacketSig
      <4>4. Occ(toFw', StartSig) = Occ(toFw, StartSig) /\ Occ(toFw', PacketSig) = Occ(toFw, PacketSig)
        BY <4>2, <4>3, <1>n
      <4>5. Occ(toDev', Asking) = Occ(toDev, Asking) /\ Occ(toDev', Carrying) = Occ(toDev, Carrying)
        BY <3>1
      <4>. QED  BY <4>4, <4>5, <1>n
    <3>2. CASE /\ toDev # <<>> /\ toDev' = Tail(toDev)
               /\ DevOffer(Head(toDev)) \/ DevPacket(Head(toDev)) \/ DevOther(Head(toDev))
      <4> DEFINE sig == Head(toDev).sig
      <4>1. /\ Occ(toDev, Asking) = Occ(toDev', Asking) + One(sig \in {"FW_INFO_REQ", "FW_UPDATE_REQ"})
            /\ Occ(toDev, Carrying) = Occ(toDev', Carrying) + One(sig = "FW_TRANSFER_REQ")
        BY <3>2, <1>t, TakenCounts
      <4>2. ASSUME NEW a \in Answer, toFw' = Append(toFw, a),
                   a \in StartSig => sig \in {"FW_INFO_REQ", "FW_UPDATE_REQ"},
                   a \in PacketSig => sig = "FW_TRANSFER_REQ"
            PROVE  Occ(toFw', StartSig) + Occ(toDev', Asking) <= Occ(toFw, StartSig) + Occ(toDev, Asking)
                   /\ Occ(toFw', PacketSig) + Occ(toDev', Carrying) <= Occ(toFw, PacketSig) + Occ(toDev, Carrying)
        <5>1. \A M : Occ(toFw', M) = Occ(toFw, M) + One(a \in M)
          BY <4>2, <1>t, AnsweredCounts
        <5>2. One(a \in StartSig) <= One(sig \in {"FW_INFO_REQ", "FW_UPDATE_REQ"})
              /\ One(a \in PacketSig) <= One(sig = "FW_TRANSFER_REQ")
          BY <4>2 DEF One
        <5>. QED  BY <4>1, <5>1, <5>2, <1>n, <1>o
      <4>3. CASE DevOffer(Head(toDev))
        <5>1. PICK a \in {"UPDATE_RES_OK", "UPDATE_BUSY"} : toFw' = Append(toFw, a) /\ sig = "FW_UPDATE_REQ"
          BY <4>3 DEF DevOffer
        <5>2. a \in Answer /\ a \notin PacketSig
          BY DEF Answer, PacketSig
        <5>. QED  BY <4>2, <5>1, <5>2
      <4>4. CASE DevPacket(Head(toDev))
        <5>1. PICK a \in {"TRANSFER_RES_OK", "INTERNAL_UPDATE_REQ", "TRANSFER_CHECKSUM_ERR"} :
                     toFw' = Append(toFw, a) /\ sig = "FW_TRANSFER_REQ"
          BY <4>4 DEF DevPacket
        <5>2. a \in Answer /\ a \notin StartSig
          BY DEF Answer, StartSig
        <5>. QED  BY <4>2, <5>1, <5>2
      <4>5. CASE DevOther(Head(toDev))
        <5>1. CASE sig = "FW_INFO_REQ" /\ toFw' = Append(toFw, "CURRENT_INFO_RES")
          <6>1. "CURRENT_INFO_RES" \in Answer /\ "CURRENT_INFO_RES" \notin PacketSig
            BY DEF Answer, PacketSig
          <6>. QED  BY <4>2, <5>1, <6>1
        <5>2. CASE UNCHANGED toFw
          BY <4>1, <5>2, <1>n, <1>o
        <5>. QED  BY <4>5, <5>1, <5>2 DEF DevOther
      <4>. QED  BY <3>2, <4>3, <4>4, <4>5
    <3>. QED  BY <1>18, <3>1, <3>2 DEF Device
  <2>7. Starts' <= Starts
    BY <2>0, <2>1, <1>n, <1>o DEF Starts
  <2>8. Packets' <= Packets
    BY <2>0, <2>1, <1>n, <1>o DEF Packets
  <2>9. Due' <= Due
    BY <2>0, <2>1, <1>n, <1>o DEF Due
  <2>. QED  BY <1>c, <2>0, <2>7, <2>8, <2>9
<1>19. CASE \E t \in Timeout : Expire(t)
  <2>1. PICK t \in Timeout : /\ t \in timers /\ timers' = timers \ {t} /\ mailbox' = Append(mailbox, t)
                             /\ UNCHANGED <<index, bin_len, toDev, toFw, otas>>
    BY <1>19 DEF Expire, task
  <2>2. mailbox \in Seq(Signal) /\ t \in Signal
    BY <1>t DEF TypeOK, Signal
  <2>3. \A M : Occ(mailbox', M) = Occ(mailbox, M) + One(t \in M)
    BY <2>1, <2>2, OccAppend
  <2>4. One(t \in StartSig) = 0 /\ One(t \in PacketSig) = 0
    BY DEF Timeout, One, StartSig, PacketSig
  <2>5. One(t \in {"PACKED_TIMEOUT"}) + One("PACKED_TIMEOUT" \in timers') = One("PACKED_TIMEOUT" \in timers)
    BY <2>1 DEF One
  <2>6. Occ(mailbox', StartSig) = Occ(mailbox, StartSig) /\ Occ(mailbox', PacketSig) = Occ(mailbox, PacketSig)
    BY <2>3, <2>4, <1>n
  <2>7. Due' = Due
    <3>1. Occ(mailbox', {"PACKED_TIMEOUT"}) = Occ(mailbox, {"PACKED_TIMEOUT"}) + One(t \in {"PACKED_TIMEOUT"})
      BY <2>3
    <3>. QED  BY <3>1, <2>5, <1>n, <1>o DEF Due
  <2>8. Starts' = Starts /\ Packets' = Packets
    BY <2>1, <2>6 DEF Starts, Packets
  <2>. QED  BY <1>c, <2>1, <2>7, <2>8, <1>n
<1>20. CASE UNCHANGED vars
  BY <1>20, <1>2 DEF vars, Starts, Packets, Due, Unstarted, Covered
<1>. QED
  BY <1>3, <1>4, <1>5, <1>6, <1>7, <1>8, <1>9, <1>10, <1>11, <1>12, <1>13, <1>14, <1>15, <1>16, <1>17,
     <1>18, <1>19, <1>20 DEF Next, Task

LEMMA IndexInit == Init => IndexInv
<1> SUFFICES ASSUME Init PROVE IndexInv
  OBVIOUS
<1>1. TypeOK
  BY FwTypesInit
<1>2. \A M : Occ(mailbox, M) = 0 /\ Occ(toFw, M) = 0 /\ Occ(toDev, M) = 0
  BY OccEmpty DEF Init
<1>3. One(otas = 0) = 1 /\ One("PACKED_TIMEOUT" \in timers) = 0
  BY DEF Init, One
<1>4. Starts = 1 /\ Packets = 0 /\ Due = 0 /\ index = 0 /\ bin_len = 0 /\ PacketSize * 0 = 0
  BY <1>2, <1>3, Numbers DEF Starts, Packets, Due, Init
<1>. QED  BY <1>1, <1>4 DEF IndexInv, Unstarted, Covered

(* However late its timeouts are and whatever is lost, the task sends from
   inside the file: setting the index back for a resend never wraps it.    *)
THEOREM FwIndexInFile == Spec => []IndexInFile
<1>1. IndexInv => IndexInFile
  BY DEF IndexInv, Covered, IndexInFile
<1>. QED  BY <1>1, IndexInit, IndexStep, PTL DEF Spec

-----------------------------------------------------------------------------
(* The conversation.  With one update and no late timeout at most one message
   is anywhere, at most one timer is set, and the message says which.      *)
Still     == mailbox = <<>> /\ toDev = <<>> /\ toFw = <<>>
BoxHas(s) == mailbox = <<s>> /\ toDev = <<>> /\ toFw = <<>>
WayHas(s) == mailbox = <<>> /\ toDev = <<>> /\ toFw = <<s>>
DevHas(m) == mailbox = <<>> /\ toDev = <<m>> /\ toFw = <<>>

Timed(t) == CASE t = "GET_FIRMWARE_INFO_TIMEOUT"    -> {"FW_INFO_REQ", "CURRENT_INFO_RES"}
              [] t = "PACKED_TIMEOUT"               -> {"FW_TRANSFER_REQ", "TRANSFER_RES_OK",
                                                        "TRANSFER_CHECKSUM_ERR", "INTERNAL_UPDATE_REQ"}
              [] t = "DEV_INTERNAL_UPDATE_TIMEOUT"  -> {"FW_INTERNAL_UPDATE_RES_OK", "UPDATE_COMPLETED"}

(* What holds while signal s is on its way or in the mailbox. *)
Stage(s) == /\ \A t \in timers : s \in Timed(t)
            /\ dev.phase # "updating" /\ otas = 1
            /\ open = (s # "OTA_REQ")

(* What holds while nothing is. *)
Pause == /\ \A t \in timers : timers = {t}
         /\ dev.phase = "updating" => timers \subseteq {"DEV_INTERNAL_UPDATE_TIMEOUT"} /\ open /\ otas = 1
         /\ timers # {} => open /\ otas = 1
         /\ otas = 0 => ~open

Talk == \/ Still /\ Pause
        \/ \E s \in Signal : (BoxHas(s) \/ (s \in Answer /\ WayHas(s))) /\ Stage(s)
        \/ \E m \in Message : DevHas(m) /\ Stage(m.sig)

(* Where the task and the device are in the file, unless an acknowledgement
   was lost.                                                               *)
Agreed  == bin_len = file /\ dev.len = file
Stepped == Agreed /\ index = dev.got + packet_len

Place(s) ==
  /\ s = "UPDATE_RES_OK" => Agreed /\ dev.got = 0
  /\ s \in PacketSig => Agreed /\ index = dev.got
  /\ s = "PACKED_TIMEOUT" => Stepped
  /\ s \in {"INTERNAL_UPDATE_REQ", "TRANSFER_CHECKSUM_ERR"} => timers = {}

Content(m) ==
  /\ m.sig = "FW_UPDATE_REQ" => m.file = file /\ bin_len = file
  /\ m.sig = "FW_TRANSFER_REQ" =>
       /\ Stepped /\ m.from = dev.got /\ m.file = file
       /\ packet_len = Least(dev.len - dev.got, PacketSize)
       /\ timers # {} => index < bin_len

InStep == /\ dev.intact /\ dev.got <= dev.len
          /\ Still /\ "PACKED_TIMEOUT" \in timers => Stepped
          /\ \A s \in Signal : BoxHas(s) \/ WayHas(s) => Place(s)
          /\ \A m \in Message : DevHas(m) => Content(m)

Good == Talk /\ (~lostAnswer => InStep)

TalkInv == TypeOK /\ (Punctual => Good)

LEMMA TalkInit == Init => TalkInv
<1> SUFFICES ASSUME Init PROVE TalkInv
  OBVIOUS
<1>1. TypeOK
  BY FwTypesInit
<1>2. Still /\ Pause
  BY DEF Init, Still, Pause
<1>3. InStep
  BY DEF Init, InStep, Still, BoxHas, WayHas, DevHas
<1>. QED  BY <1>1, <1>2, <1>3 DEF TalkInv, Good, Talk

(* The timers a message leaves room for. *)
LEMMA StageTimers ==
  ASSUME TypeOK, NEW s, Stage(s)
  PROVE  /\ s \in {"FW_INFO_REQ", "CURRENT_INFO_RES"} => timers \subseteq {"GET_FIRMWARE_INFO_TIMEOUT"}
         /\ s \in {"FW_TRANSFER_REQ", "TRANSFER_RES_OK", "TRANSFER_CHECKSUM_ERR", "INTERNAL_UPDATE_REQ"}
              => timers \subseteq {"PACKED_TIMEOUT"}
         /\ s \in {"FW_INTERNAL_UPDATE_RES_OK", "UPDATE_COMPLETED"}
              => timers \subseteq {"DEV_INTERNAL_UPDATE_TIMEOUT"}
         /\ s \in {"OTA_REQ", "SM_UPDATE_RES_OK", "FW_UPDATE_REQ", "UPDATE_RES_OK", "UPDATE_BUSY", "TRANFER_REQ"}
                   \cup Timeout => timers = {}
         /\ \A t \in timers : timers = {t}
<1>1. \A t \in timers : t \in Timeout /\ s \in Timed(t)
  BY DEF Stage, TypeOK
<1>2. \A t \in timers :
        \/ t = "GET_FIRMWARE_INFO_TIMEOUT" /\ s \in {"FW_INFO_REQ", "CURRENT_INFO_RES"}
        \/ /\ t = "PACKED_TIMEOUT"
           /\ s \in {"FW_TRANSFER_REQ", "TRANSFER_RES_OK", "TRANSFER_CHECKSUM_ERR", "INTERNAL_UPDATE_REQ"}
        \/ t = "DEV_INTERNAL_UPDATE_TIMEOUT" /\ s \in {"FW_INTERNAL_UPDATE_RES_OK", "UPDATE_COMPLETED"}
  BY <1>1 DEF Timeout, Timed
<1>. QED  BY <1>2 DEF Timeout

(* The only message there is: what the next state must satisfy, by where it is. *)
LEMMA IntoBox ==
  ASSUME NEW p \in Signal, BoxHas(p)', Stage(p)',
         ~lostAnswer' => (dev.intact /\ dev.got <= dev.len /\ Place(p))'
  PROVE  Good'
<1>1. ~Still' /\ (\A s : BoxHas(s)' => s = p) /\ (\A s : ~WayHas(s)') /\ (\A m : ~DevHas(m)')
  BY DEF Still, BoxHas, WayHas, DevHas
<1>2. Talk'
  BY DEF Talk
<1>3. ~lostAnswer' => InStep'
  BY <1>1 DEF InStep
<1>. QED  BY <1>2, <1>3 DEF Good

LEMMA IntoWay ==
  ASSUME NEW p \in Answer, WayHas(p)', Stage(p)',
         ~lostAnswer' => (dev.intact /\ dev.got <= dev.len /\ Place(p))'
  PROVE  Good'
<1>1. ~Still' /\ (\A s : WayHas(s)' => s = p) /\ (\A s : ~BoxHas(s)') /\ (\A m : ~DevHas(m)')
  BY DEF Still, BoxHas, WayHas, DevHas
<1>2. Talk'
  BY DEF Talk, Signal
<1>3. ~lostAnswer' => InStep'
  BY <1>1 DEF InStep
<1>. QED  BY <1>2, <1>3 DEF Good

LEMMA IntoDev ==
  ASSUME NEW n \in Message, DevHas(n)', Stage(n.sig)',
         ~lostAnswer' => (dev.intact /\ dev.got <= dev.len /\ Content(n))'
  PROVE  Good'
<1>1. ~Still' /\ (\A m : DevHas(m)' => m = n) /\ (\A s : ~BoxHas(s)') /\ (\A s : ~WayHas(s)')
  BY DEF Still, BoxHas, WayHas, DevHas
<1>2. Talk'
  BY DEF Talk
<1>3. ~lostAnswer' => InStep'
  BY <1>1 DEF InStep
<1>. QED  BY <1>2, <1>3 DEF Good

LEMMA IntoPause ==
  ASSUME Still', Pause',
         ~lostAnswer' => (dev.intact /\ dev.got <= dev.len /\ ("PACKED_TIMEOUT" \in timers => Stepped))'
  PROVE  Good'
<1>1. (\A m : ~DevHas(m)') /\ (\A s : ~BoxHas(s)') /\ (\A s : ~WayHas(s)')
  BY DEF Still, BoxHas, WayHas, DevHas
<1>2. Talk'
  BY DEF Talk
<1>3. ~lostAnswer' => InStep'
  BY <1>1 DEF InStep
<1>. QED  BY <1>2, <1>3 DEF Good

(* What a handler finds. *)
LEMMA HandleTalk ==
  ASSUME TypeOK, Good, NEW s, NEW posts \in Seq(Signal), Handle(s, posts)
  PROVE  /\ s \in Signal /\ BoxHas(s) /\ Stage(s) /\ toDev = <<>>
         /\ mailbox' = posts /\ toFw' = <<>> /\ UNCHANGED <<dev, otas, late, lostAnswer>>
         /\ ~lostAnswer => dev.intact /\ dev.got <= dev.len /\ Place(s)
<1>1. mailbox # <<>> /\ Head(mailbox) = s /\ mailbox' = Tail(mailbox) \o posts
      /\ UNCHANGED <<toFw, dev, otas, late, lostAnswer>>
  BY DEF Handle, outside
<1>2. ~Still /\ (\A x : ~WayHas(x)) /\ (\A m : ~DevHas(m))
  BY <1>1 DEF Still, WayHas, DevHas
<1>3. PICK x \in Signal : BoxHas(x) /\ Stage(x)
  BY <1>2 DEF Good, Talk
<1>4. mailbox = <<x>> /\ toDev = <<>> /\ toFw = <<>>
  BY <1>3 DEF BoxHas
<1>5. x = s /\ Tail(mailbox) = <<>>
  BY <1>1, <1>4
<1>6. mailbox' = posts
  BY <1>1, <1>5, ConcatEmptySeq
<1>. QED  BY <1>1, <1>3, <1>4, <1>5, <1>6 DEF Good, InStep

(* What is sent is the only message, and a record of its own. *)
LEMMA SendTalk ==
  ASSUME TypeOK, NEW s \in Request, NEW from \in 0..NoBytes, Send(s, from), toDev = <<>>
  PROVE  \E n \in Message : n.sig = s /\ n.file = file /\ n.from = from /\ toDev' = <<n>>
<1> DEFINE n == [sig |-> s, file |-> file, from |-> from]
<1>1. n \in Message /\ n.sig = s /\ n.file = file /\ n.from = from
  BY DEF Message, TypeOK
<1>2. toDev' = <<n>>
  BY DEF Send
<1>. QED  BY <1>1, <1>2

LEMMA TalkStep == TalkInv /\ [Next]_vars => TalkInv'
<1> SUFFICES ASSUME TalkInv, [Next]_vars PROVE TalkInv'
  OBVIOUS
<1>t. TypeOK /\ TypeOK'
  BY FwTypesStep DEF TalkInv
<1> SUFFICES ASSUME Punctual' PROVE Good'
  BY <1>t DEF TalkInv
<1>1. otas \in Nat /\ late \in Nat /\ otas' \in Nat /\ late' \in Nat /\ otas' <= 1 /\ late' = 0
  BY <1>t, FwBounds DEF TypeOK, Punctual
<1>2. (otas' = otas \/ otas' = otas + 1) /\ (late' = late \/ late' = late + 1)
  BY DEF Next, Task, OtaReq, SmUpdateResOk, CurrentInfoRes, UpdateResOk, TranferReq, TransferResOk,
         PackedTimeout, InternalUpdateReq, TransferChecksumErr, UpdateCompleted, OnlyReport,
         Handle, outside, Ask, Arrive, LoseRequest, LoseAnswer, Device, Expire, vars
<1>g. Good /\ late = 0
  <2>1. Punctual
    BY <1>1, <1>2 DEF Punctual
  <2>. QED  BY <2>1 DEF TalkInv, Punctual
<1>n. /\ bin_len \in Nat /\ dev.len \in Nat /\ file \in Nat /\ dev.got \in Nat
      /\ index \in Nat /\ packet_len \in Nat
      /\ file + PacketSize < Word /\ Word \in Nat /\ PacketSize \in Nat /\ PacketSize > 0
  <2>1. /\ bin_len \in File /\ file \in File /\ dev.len \in File /\ dev.got \in Nat
        /\ index \in 0 .. Word - 1 /\ packet_len \in 0..PacketSize
    BY <1>t DEF TypeOK
  <2>. QED  BY <2>1, Numbers
<1>z. 0 \in 0..NoBytes
  BY Numbers DEF NoBytes
(* A handler that ends the matter, or leaves it. *)
<1>e. ASSUME NEW s \in Signal, Handle(s, <<>>), UNCHANGED toDev,
             timers' = {}, bin_len' = bin_len \/ s = "CURRENT_INFO_RES"
      PROVE  Good'
  <2>1. /\ BoxHas(s) /\ Stage(s) /\ mailbox' = <<>> /\ toFw' = <<>> /\ toDev = <<>>
        /\ UNCHANGED <<dev, otas, late, lostAnswer>>
        /\ ~lostAnswer => dev.intact /\ dev.got <= dev.len
    BY <1>e, <1>t, <1>g, HandleTalk, PostsTypes
  <2>2. Still' /\ Pause'
    BY <1>e, <2>1 DEF Still, Pause, Stage
  <2>. QED  BY <1>e, <2>1, <2>2, IntoPause
<1>3. CASE OtaReq
  <2>0. UNCHANGED <<timers, toDev, bin_len>>
    BY <1>3 DEF OtaReq
  <2>1. CASE Handle("OTA_REQ", <<"SM_UPDATE_RES_OK">>) /\ open' = TRUE
    <3>1. /\ Stage("OTA_REQ") /\ mailbox' = <<"SM_UPDATE_RES_OK">> /\ toFw' = <<>> /\ toDev = <<>>
          /\ UNCHANGED <<dev, otas, late, lostAnswer>>
          /\ ~lostAnswer => dev.intact /\ dev.got <= dev.len
      BY <2>1, <1>t, <1>g, HandleTalk, PostsTypes
    <3>2. timers = {} /\ "SM_UPDATE_RES_OK" \in Signal
      BY <3>1, <1>t, StageTimers DEF Signal
    <3>3. BoxHas("SM_UPDATE_RES_OK")' /\ Stage("SM_UPDATE_RES_OK")' /\ Place("SM_UPDATE_RES_OK")'
      BY <2>0, <2>1, <3>1, <3>2 DEF BoxHas, Stage, Place, PacketSig
    <3>. QED  BY <3>1, <3>2, <3>3, IntoBox
  <2>2. CASE Handle("OTA_REQ", <<>>)
    <3>1. Stage("OTA_REQ") /\ "OTA_REQ" \in Signal
      BY <2>2, <1>t, <1>g, HandleTalk, PostsTypes DEF Signal
    <3>2. timers = {}
      BY <3>1, <1>t, StageTimers
    <3>. QED  BY <2>0, <2>2, <3>1, <3>2, <1>e
  <2>. QED  BY <1>3, <2>1, <2>2 DEF OtaReq
<1>4. CASE SmUpdateResOk
  <2>1. Handle("SM_UPDATE_RES_OK", <<>>) /\ Send("FW_INFO_REQ", 0)
        /\ timers' = timers \cup {"GET_FIRMWARE_INFO_TIMEOUT"} /\ UNCHANGED open
    BY <1>4 DEF SmUpdateResOk, Set, history
  <2>2. /\ Stage("SM_UPDATE_RES_OK") /\ mailbox' = <<>> /\ toFw' = <<>> /\ toDev = <<>>
        /\ UNCHANGED <<dev, otas, late, lostAnswer>>
        /\ ~lostAnswer => dev.intact /\ dev.got <= dev.len
    BY <2>1, <1>t, <1>g, HandleTalk, PostsTypes
  <2>3. timers' = {"GET_FIRMWARE_INFO_TIMEOUT"}
    BY <2>1, <2>2, <1>t, StageTimers
  <2>4. PICK n \in Message : n.sig = "FW_INFO_REQ" /\ toDev' = <<n>>
    <3>1. "FW_INFO_REQ" \in Request
      BY DEF Request
    <3>. QED  BY <2>1, <2>2, <3>1, <1>z, <1>t, SendTalk
  <2>5. DevHas(n)' /\ Stage(n.sig)' /\ Content(n)'
    BY <2>1, <2>2, <2>3, <2>4 DEF DevHas, Stage, Timed, Content
  <2>. QED  BY <2>2, <2>5, IntoDev
<1>5. CASE CurrentInfoRes
  <2>1. Handle("CURRENT_INFO_RES", <<>>) /\ bin_len' = file /\ UNCHANGED file
        /\ timers' = timers \ {"GET_FIRMWARE_INFO_TIMEOUT"}
        /\ (UNCHANGED toDev \/ (Send("FW_UPDATE_REQ", 0) /\ UNCHANGED open))
        /\ "CURRENT_INFO_RES" \in Signal
    BY <1>5 DEF CurrentInfoRes, FirmwareGetInfo, Remove, history, Signal, Answer
  <2>2. /\ Stage("CURRENT_INFO_RES") /\ mailbox' = <<>> /\ toFw' = <<>> /\ toDev = <<>>
        /\ UNCHANGED <<dev, otas, late, lostAnswer>>
        /\ ~lostAnswer => dev.intact /\ dev.got <= dev.len
    BY <2>1, <1>t, <1>g, HandleTalk, PostsTypes
  <2>3. timers' = {}
    BY <2>1, <2>2, <1>t, StageTimers
  <2>4. CASE UNCHANGED toDev
    BY <2>1, <2>3, <2>4, <1>e
  <2>5. CASE Send("FW_UPDATE_REQ", 0) /\ UNCHANGED open
    <3>1. PICK n \in Message : n.sig = "FW_UPDATE_REQ" /\ n.file = file /\ toDev' = <<n>>
      <4>1. "FW_UPDATE_REQ" \in Request
        BY DEF Request
      <4>. QED  BY <2>2, <2>5, <4>1, <1>z, <1>t, SendTalk
    <3>2. DevHas(n)' /\ Stage(n.sig)' /\ Content(n)'
      BY <2>1, <2>2, <2>3, <2>5, <3>1 DEF DevHas, Stage, Content
    <3>. QED  BY <2>2, <3>2, IntoDev
  <2>. QED  BY <2>1, <2>4, <2>5
<1>6. CASE UpdateResOk
  <2>1. Handle("UPDATE_RES_OK", <<"TRANFER_REQ">>) /\ index' = 0
        /\ UNCHANGED <<file, bin_len, timers, toDev, open>> /\ "TRANFER_REQ" \in Signal
    BY <1>6 DEF UpdateResOk, Signal
  <2>2. /\ Stage("UPDATE_RES_OK") /\ mailbox' = <<"TRANFER_REQ">> /\ toFw' = <<>> /\ toDev = <<>>
        /\ UNCHANGED <<dev, otas, late, lostAnswer>>
        /\ ~lostAnswer => dev.intact /\ dev.got <= dev.len /\ Place("UPDATE_RES_OK")
    BY <2>1, <1>t, <1>g, HandleTalk, PostsTypes
  <2>3. timers = {}
    BY <2>2, <1>t, StageTimers
  <2>4. BoxHas("TRANFER_REQ")' /\ Stage("TRANFER_REQ")'
    BY <2>1, <2>2, <2>3 DEF BoxHas, Stage
  <2>5. ~lostAnswer => Place("TRANFER_REQ")'
    BY <2>1, <2>2 DEF Place, Agreed, PacketSig
  <2>. QED  BY <2>1, <2>2, <2>4, <2>5, IntoBox
<1>7. CASE TranferReq
  <2>1. /\ Handle("TRANFER_REQ", <<>>) /\ UNCHANGED <<file, bin_len, open>>
        /\ packet_len' = Least(Remain, PacketSize) /\ index' = (index + packet_len') % Word
        /\ timers' = IF index' < bin_len THEN timers \cup {"PACKED_TIMEOUT"} ELSE timers
        /\ Send("FW_TRANSFER_REQ", FirmwareRead(index, packet_len'))
    BY <1>7 DEF TranferReq, Set, history
  <2>2. /\ Stage("TRANFER_REQ") /\ mailbox' = <<>> /\ toFw' = <<>> /\ toDev = <<>>
        /\ UNCHANGED <<dev, otas, late, lostAnswer>>
        /\ ~lostAnswer => dev.intact /\ dev.got <= dev.len /\ Place("TRANFER_REQ")
    BY <2>1, <1>t, <1>g, HandleTalk, PostsTypes
  <2>3. timers = {}
    BY <2>2, <1>t, StageTimers
  <2>4. PICK n \in Message : n.sig = "FW_TRANSFER_REQ" /\ n.file = file
                             /\ n.from = FirmwareRead(index, packet_len') /\ toDev' = <<n>>
    <3>1. "FW_TRANSFER_REQ" \in Request /\ FirmwareRead(index, packet_len') \in 0..NoBytes
      BY <2>1, <1>t, PacketTypes DEF Request
    <3> DEFINE r == FirmwareRead(index, packet_len')
    <3>2. r \in 0..NoBytes /\ Send("FW_TRANSFER_REQ", r)
      BY <2>1, <3>1
    <3> HIDE DEF r
    <3>3. \E n \in Message : n.sig = "FW_TRANSFER_REQ" /\ n.file = file /\ n.from = r /\ toDev' = <<n>>
      BY <2>2, <3>1, <3>2, <1>t, SendTalk
    <3>. QED  BY <3>3 DEF r
  <2>5. DevHas(n)' /\ Stage(n.sig)'
    BY <2>1, <2>2, <2>3, <2>4 DEF DevHas, Stage, Timed
  <2>6. ASSUME ~lostAnswer PROVE Content(n)'
    <3>1. Agreed /\ index = dev.got /\ dev.got <= dev.len
      BY <2>2, <2>6 DEF Place, PacketSig
    <3>2. Remain = dev.len - dev.got
      <4>1. bin_len + Word - index = Word + (bin_len - index) /\ bin_len - index \in 0 .. Word - 1
            /\ bin_len - index = dev.len - dev.got
        BY <3>1, <1>n DEF Agreed
      <4>2. (Word + (bin_len - index)) % Word = bin_len - index
        BY <4>1, <1>n, NoWrap
      <4>. QED  BY <4>1, <4>2 DEF Remain
    <3>3. packet_len' = Least(dev.len - dev.got, PacketSize)
      BY <2>1, <3>2
    <3>4. packet_len' \in Nat /\ index + packet_len' \in 0 .. Word - 1 /\ index + packet_len' <= file
      BY <3>1, <3>3, <1>n DEF Least, Agreed
    <3>5. (index + packet_len') % Word = index + packet_len'
      BY <3>4, <1>n, NoWrap
    <3>6. n.from = dev.got
      BY <2>4, <3>1, <3>4, <3>5, <1>n DEF FirmwareRead
    <3>7. index' = dev.got + packet_len'
      BY <2>1, <3>1, <3>5
    <3>8. timers' # {} => index' < bin_len
      BY <2>1, <2>3
    <3>. QED  BY <2>1, <2>2, <2>4, <3>1, <3>3, <3>6, <3>7, <3>8 DEF Content, Stepped, Agreed
  <2>. QED  BY <2>2, <2>5, <2>6, IntoDev
<1>8. CASE TransferResOk
  <2>1. Handle("TRANSFER_RES_OK", <<"TRANFER_REQ">>) /\ timers' = timers \ {"PACKED_TIMEOUT"}
        /\ UNCHANGED <<file, bin_len, index, toDev, open>> /\ "TRANFER_REQ" \in Signal
    BY <1>8 DEF TransferResOk, Signal, Remove, task
  <2>2. /\ Stage("TRANSFER_RES_OK") /\ mailbox' = <<"TRANFER_REQ">> /\ toFw' = <<>> /\ toDev = <<>>
        /\ UNCHANGED <<dev, otas, late, lostAnswer>>
        /\ ~lostAnswer => dev.intact /\ dev.got <= dev.len /\ Place("TRANSFER_RES_OK")
    BY <2>1, <1>t, <1>g, HandleTalk, PostsTypes
  <2>3. timers' = {}
    BY <2>1, <2>2, <1>t, StageTimers
  <2>4. BoxHas("TRANFER_REQ")' /\ Stage("TRANFER_REQ")'
    BY <2>1, <2>2, <2>3 DEF BoxHas, Stage
  <2>5. ~lostAnswer => Place("TRANFER_REQ")'
    BY <2>1, <2>2 DEF Place, Agreed, PacketSig
  <2>. QED  BY <2>1, <2>2, <2>4, <2>5, IntoBox
<1>9. CASE PackedTimeout
  <2>0. /\ UNCHANGED <<file, bin_len, packet_len, timers, toDev>>
        /\ \/ Handle("PACKED_TIMEOUT", <<>>)
           \/ /\ Handle("PACKED_TIMEOUT", <<"TRANFER_REQ">>) /\ UNCHANGED open
              /\ index' = (index + Word - packet_len) % Word
    BY <1>9 DEF PackedTimeout
  <2>1. Stage("PACKED_TIMEOUT") /\ "PACKED_TIMEOUT" \in Signal /\ "TRANFER_REQ" \in Signal
    BY <2>0, <1>t, <1>g, HandleTalk, PostsTypes DEF Signal, Timeout
  <2>2. timers = {}
    BY <2>1, <1>t, StageTimers DEF Timeout
  <2>3. CASE Handle("PACKED_TIMEOUT", <<>>)
    BY <2>0, <2>1, <2>2, <2>3, <1>e
  <2>4. CASE /\ Handle("PACKED_TIMEOUT", <<"TRANFER_REQ">>) /\ UNCHANGED open
             /\ index' = (index + Word - packet_len) % Word
    <3>1. /\ mailbox' = <<"TRANFER_REQ">> /\ toFw' = <<>> /\ toDev = <<>>
          /\ UNCHANGED <<dev, otas, late, lostAnswer>>
          /\ ~lostAnswer => dev.intact /\ dev.got <= dev.len /\ Place("PACKED_TIMEOUT")
      BY <2>4, <1>t, <1>g, HandleTalk, PostsTypes
    <3>2. BoxHas("TRANFER_REQ")' /\ Stage("TRANFER_REQ")'
      BY <2>0, <2>1, <2>2, <2>4, <3>1 DEF BoxHas, Stage
    <3>3. ASSUME ~lostAnswer PROVE Place("TRANFER_REQ")'
      <4>1. Agreed /\ index = dev.got + packet_len /\ dev.got <= dev.len
        BY <3>1, <3>3 DEF Place, Stepped
      <4>2. index + Word - packet_len = Word + dev.got /\ dev.got \in 0 .. Word - 1
        BY <4>1, <1>n DEF Agreed
      <4>3. index' = dev.got
        BY <2>4, <4>2, <1>n, NoWrap
      <4>. QED  BY <2>0, <3>1, <4>1, <4>3 DEF Place, Agreed, PacketSig
    <3>. QED  BY <2>1, <3>1, <3>2, <3>3, IntoBox
  <2>. QED  BY <2>0, <2>3, <2>4
<1>10. CASE InternalUpdateReq
  <2>1. Handle("INTERNAL_UPDATE_REQ", <<>>) /\ Send("FW_INTERNAL_UPDATE_RES_OK", 0) /\ UNCHANGED open
        /\ timers' = (timers \ {"PACKED_TIMEOUT"}) \cup {"DEV_INTERNAL_UPDATE_TIMEOUT"}
    BY <1>10 DEF InternalUpdateReq, history
  <2>2. /\ Stage("INTERNAL_UPDATE_REQ") /\ mailbox' = <<>> /\ toFw' = <<>> /\ toDev = <<>>
        /\ UNCHANGED <<dev, otas, late, lostAnswer>>
        /\ ~lostAnswer => dev.intact /\ dev.got <= dev.len
    BY <2>1, <1>t, <1>g, HandleTalk, PostsTypes
  <2>3. timers' = {"DEV_INTERNAL_UPDATE_TIMEOUT"}
    BY <2>1, <2>2, <1>t, StageTimers
  <2>4. PICK n \in Message : n.sig = "FW_INTERNAL_UPDATE_RES_OK" /\ toDev' = <<n>>
    <3>1. "FW_INTERNAL_UPDATE_RES_OK" \in Request
      BY DEF Request
    <3>. QED  BY <2>1, <2>2, <3>1, <1>z, <1>t, SendTalk
  <2>5. DevHas(n)' /\ Stage(n.sig)' /\ Content(n)'
    BY <2>1, <2>2, <2>3, <2>4 DEF DevHas, Stage, Timed, Content
  <2>. QED  BY <2>2, <2>5, IntoDev
<1>11. CASE TransferChecksumErr
  <2>1. Handle("TRANSFER_CHECKSUM_ERR", <<>>) /\ UNCHANGED <<bin_len, toDev>>
        /\ timers' = timers \ {"PACKED_TIMEOUT"}
    BY <1>11 DEF TransferChecksumErr, Remove, task
  <2>2. Stage("TRANSFER_CHECKSUM_ERR") /\ "TRANSFER_CHECKSUM_ERR" \in Signal
    BY <2>1, <1>t, <1>g, HandleTalk, PostsTypes
  <2>3. timers' = {}
    BY <2>1, <2>2, <1>t, StageTimers
  <2>. QED  BY <2>1, <2>2, <2>3, <1>e
<1>12. CASE UpdateCompleted
  <2>1. Handle("UPDATE_COMPLETED", <<>>) /\ UNCHANGED <<bin_len, toDev>>
        /\ timers' = timers \ {"DEV_INTERNAL_UPDATE_TIMEOUT"}
    BY <1>12 DEF UpdateCompleted, Remove, task
  <2>2. Stage("UPDATE_COMPLETED") /\ "UPDATE_COMPLETED" \in Signal
    BY <2>1, <1>t, <1>g, HandleTalk, PostsTypes
  <2>3. timers' = {}
    BY <2>1, <2>2, <1>t, StageTimers
  <2>. QED  BY <2>1, <2>2, <2>3, <1>e
<1>13. CASE OnlyReport
  <2>1. PICK s \in {"GET_FIRMWARE_INFO_TIMEOUT", "DEV_INTERNAL_UPDATE_TIMEOUT", "UPDATE_BUSY"} : Handle(s, <<>>)
    BY <1>13 DEF OnlyReport
  <2>2. UNCHANGED <<bin_len, timers, toDev>>
    BY <1>13 DEF OnlyReport, task
  <2>3. Stage(s) /\ s \in Signal
    BY <2>1, <1>t, <1>g, HandleTalk, PostsTypes
  <2>4. timers = {}
    BY <2>3, <1>t, StageTimers DEF Timeout
  <2>. QED  BY <2>1, <2>2, <2>3, <2>4, <1>e
<1>14. CASE Ask
  <2>1. mailbox' = Append(mailbox, "OTA_REQ") /\ otas' = otas + 1 /\ "OTA_REQ" \in Signal
        /\ UNCHANGED <<timers, toDev, toFw, dev, open, lostAnswer>>
    BY <1>14 DEF Ask, Signal
  <2>2. otas = 0 /\ otas' = 1
    BY <2>1, <1>1
  <2>3. Still /\ Pause
    BY <2>2, <1>g DEF Good, Talk, Stage
  <2>4. timers = {} /\ ~open /\ dev.phase # "updating"
    BY <2>2, <2>3 DEF Pause
  <2>5. BoxHas("OTA_REQ")' /\ Stage("OTA_REQ")' /\ Place("OTA_REQ")'
    <3>1. open \in BOOLEAN /\ open' = FALSE
      BY <2>1, <2>4, <1>t DEF TypeOK
    <3>. QED  BY <2>1, <2>2, <2>3, <2>4, <3>1 DEF Still, BoxHas, Stage, Place, PacketSig
  <2>6. ~lostAnswer' => dev'.intact /\ dev'.got <= dev'.len
    BY <2>1, <1>g DEF Good, InStep
  <2>. QED  BY <2>1, <2>5, <2>6, IntoBox
<1>15. CASE Arrive
  <2>1. toFw # <<>> /\ toFw' = Tail(toFw) /\ mailbox' = Append(mailbox, Head(toFw))
        /\ UNCHANGED <<file, bin_len, index, packet_len, timers, toDev, dev, open, otas, lostAnswer>>
    BY <1>15 DEF Arrive, task
  <2>2. PICK s \in Answer : s \in Signal /\ WayHas(s) /\ Stage(s)
    BY <2>1, <1>g DEF Good, Talk, Still, BoxHas, DevHas
  <2>3. mailbox = <<>> /\ toDev = <<>> /\ toFw = <<s>>
    BY <2>2 DEF WayHas
  <2>4. mailbox' = <<s>> /\ toFw' = <<>> /\ toDev' = <<>>
    BY <2>1, <2>3
  <2>5. BoxHas(s)' /\ Stage(s)'
    BY <2>1, <2>2, <2>4 DEF BoxHas, Stage
  <2>6. ASSUME ~lostAnswer' PROVE dev'.intact /\ dev'.got <= dev'.len /\ Place(s)'
    <3>1. dev.intact /\ dev.got <= dev.len /\ Place(s)
      BY <2>1, <2>2, <2>6, <1>g DEF Good, InStep
    <3>. QED  BY <2>1, <3>1 DEF Place, Stepped, Agreed
  <2>. QED  BY <2>2, <2>5, <2>6, IntoBox
<1>16. CASE LoseRequest
  <2>1. toDev # <<>> /\ toDev' = Tail(toDev)
        /\ UNCHANGED <<file, bin_len, index, packet_len, timers, mailbox, toFw, dev, open, otas, lostAnswer>>
    BY <1>16 DEF LoseRequest, task
  <2>2. PICK n \in Message : DevHas(n) /\ Stage(n.sig)
    BY <2>1, <1>g DEF Good, Talk, Still, BoxHas, WayHas
  <2>3. Still'
    BY <2>1, <2>2 DEF DevHas, Still
  <2>4. n.sig \in Request /\ n.sig # "OTA_REQ" /\ (\A t \in timers : timers = {t})
    BY <2>2, <1>t, StageTimers DEF Message, Request
  <2>5. Pause'
    <3>1. open /\ otas = 1 /\ dev.phase # "updating"
      BY <2>2, <2>4 DEF Stage
    <3>. QED  BY <2>1, <2>4, <3>1 DEF Pause
  <2>6. ASSUME ~lostAnswer'
        PROVE  dev'.intact /\ dev'.got <= dev'.len /\ ("PACKED_TIMEOUT" \in timers' => Stepped')
    <3>1. dev.intact /\ dev.got <= dev.len /\ Content(n)
      BY <2>1, <2>2, <2>6, <1>g DEF Good, InStep
    <3>2. "PACKED_TIMEOUT" \in timers => n.sig = "FW_TRANSFER_REQ"
      BY <2>2, <2>4 DEF Stage, Timed, Request
    <3>. QED  BY <2>1, <3>1, <3>2 DEF Content, Stepped, Agreed
  <2>. QED  BY <2>3, <2>5, <2>6, IntoPause
<1>17. CASE LoseAnswer
  <2>1. toFw # <<>> /\ toFw' = Tail(toFw) /\ lostAnswer' = (lostAnswer \/ Head(toFw) = "TRANSFER_RES_OK")
        /\ UNCHANGED <<file, bin_len, index, packet_len, timers, mailbox, toDev, dev, open, otas>>
    BY <1>17 DEF LoseAnswer, task
  <2>2. PICK s \in Answer : s \in Signal /\ WayHas(s) /\ Stage(s)
    BY <2>1, <1>g DEF Good, Talk, Still, BoxHas, DevHas
  <2>3. Still' /\ Head(toFw) = s
    BY <2>1, <2>2 DEF WayHas, Still
  <2>4. s # "OTA_REQ" /\ (\A t \in timers : timers = {t})
    BY <2>2, <1>t, StageTimers DEF Answer
  <2>5. Pause'
    <3>1. open /\ otas = 1 /\ dev.phase # "updating"
      BY <2>2, <2>4 DEF Stage
    <3>. QED  BY <2>1, <2>4, <3>1 DEF Pause
  <2>6. ASSUME ~lostAnswer'
        PROVE  dev'.intact /\ dev'.got <= dev'.len /\ ("PACKED_TIMEOUT" \in timers' => Stepped')
    <3>1. dev.intact /\ dev.got <= dev.len /\ Place(s) /\ s # "TRANSFER_RES_OK"
      BY <2>1, <2>2, <2>3, <2>6, <1>g DEF Good, InStep
    <3>2. "PACKED_TIMEOUT" \notin timers
      BY <2>2, <3>1 DEF Place, Stage, Timed, Answer
    <3>. QED  BY <2>1, <3>1, <3>2
  <2>. QED  BY <2>3, <2>5, <2>6, IntoPause
<1>18. CASE \E t \in Timeout : Expire(t)
  <2>1. PICK t \in Timeout :
               /\ t \in timers /\ timers' = timers \ {t} /\ mailbox' = Append(mailbox, t)
               /\ IF Silent(t) THEN UNCHANGED late ELSE late' = late + 1
               /\ UNCHANGED <<file, bin_len, index, packet_len, toDev, toFw, dev, open, otas, lostAnswer>>
    BY <1>18 DEF Expire, task
  <2>2. Silent(t)
    BY <2>1, <1>1, <1>g
  <2>3. Still /\ Pause
    BY <2>2, <1>g DEF Good, Talk, Still, Silent, BoxHas, WayHas, DevHas
  <2>4. timers = {t} /\ timers' = {} /\ open /\ otas = 1 /\ dev.phase # "updating"
    BY <2>1, <2>2, <2>3 DEF Pause, Silent
  <2>5. t \in Signal /\ t # "OTA_REQ" /\ t \notin Answer \cup {"TRANFER_REQ"}
    BY DEF Timeout, Answer, Signal
  <2>6. BoxHas(t)' /\ Stage(t)'
    <3>1. open' = TRUE /\ open' = (t # "OTA_REQ")
      BY <2>1, <2>4, <2>5, <1>t DEF TypeOK
    <3>2. BoxHas(t)'
      BY <2>1, <2>3 DEF Still, BoxHas
    <3>. QED  BY <2>1, <2>4, <3>1, <3>2 DEF Stage
  <2>7. ASSUME ~lostAnswer' PROVE dev'.intact /\ dev'.got <= dev'.len /\ Place(t)'
    <3>1. dev.intact /\ dev.got <= dev.len /\ ("PACKED_TIMEOUT" \in timers => Stepped)
      BY <2>1, <2>3, <2>7, <1>g DEF Good, InStep
    <3>. QED  BY <2>1, <2>5, <3>1 DEF Place, Stepped, Agreed, PacketSig, Answer
  <2>. QED  BY <2>5, <2>6, <2>7, IntoBox
<1>19. CASE UNCHANGED vars
  BY <1>19, <1>g DEF vars, Good, Talk, InStep, Still, Pause, BoxHas, WayHas, DevHas, Stage, Place,
                     Content, Stepped, Agreed
<1>20. CASE Device
  <2>0. UNCHANGED <<file, bin_len, index, packet_len, timers, mailbox, open, otas, lostAnswer>>
    BY <1>20 DEF Device, task
  <2>1. CASE /\ dev.phase = "updating" /\ dev' = [dev EXCEPT !.phase = "idle"]
             /\ toFw' = Append(toFw, "UPDATE_COMPLETED") /\ UNCHANGED toDev
    <3>1. Still /\ Pause
      BY <2>1, <1>g DEF Good, Talk, Stage
    <3>2. timers \subseteq {"DEV_INTERNAL_UPDATE_TIMEOUT"} /\ open /\ otas = 1
      BY <2>1, <3>1 DEF Pause
    <3>3. WayHas("UPDATE_COMPLETED")' /\ "UPDATE_COMPLETED" \in Answer
      BY <2>0, <2>1, <3>1 DEF Still, WayHas, Answer
    <3>4. dev'.phase = "idle" /\ dev'.intact = dev.intact /\ dev'.got = dev.got /\ dev'.len = dev.len
      BY <2>1, <1>t DEF TypeOK
    <3>5. Stage("UPDATE_COMPLETED")'
      <4>1. open' = TRUE
        BY <2>0, <3>2, <1>t DEF TypeOK
      <4>. QED  BY <2>0, <3>2, <3>4, <4>1 DEF Stage, Timed
    <3>6. Place("UPDATE_COMPLETED")'
      BY DEF Place, PacketSig
    <3>7. ~lostAnswer' => dev'.intact /\ dev'.got <= dev'.len
      BY <2>0, <3>4, <1>g DEF Good, InStep
    <3>. QED  BY <3>3, <3>5, <3>6, <3>7, IntoWay
  <2>2. CASE toDev # <<>> /\ toDev' = Tail(toDev)
             /\ (DevOffer(Head(toDev)) \/ DevPacket(Head(toDev)) \/ DevOther(Head(toDev)))
    <3>1. PICK n \in Message : DevHas(n) /\ Stage(n.sig)
      BY <2>2, <1>g DEF Good, Talk, Still, BoxHas, WayHas
    <3>2. mailbox' = <<>> /\ toDev' = <<>> /\ toFw = <<>> /\ Head(toDev) = n
      BY <2>0, <2>2, <3>1 DEF DevHas
    <3>3. n.sig \in Request /\ open /\ otas = 1 /\ dev.phase # "updating" /\ (\A t \in timers : timers = {t})
      BY <3>1, <1>t, StageTimers DEF Message, Request, Stage
    <3>4. ASSUME ~lostAnswer PROVE dev.intact /\ dev.got <= dev.len /\ Content(n)
      BY <3>1, <3>4, <1>g DEF Good, InStep
    (* An answer of the device to what it got. *)
    <3>a. ASSUME NEW a \in Answer, toFw' = Append(toFw, a), dev'.phase # "updating",
                 \A t \in timers : a \in Timed(t),
                 ~lostAnswer => dev'.intact /\ dev'.got <= dev'.len /\ Place(a)'
          PROVE  Good'
      <4>1. WayHas(a)'
        BY <3>2, <3>a DEF WayHas
      <4>2. Stage(a)'
        <5>1. open' = TRUE /\ open' = (a # "OTA_REQ")
          BY <2>0, <3>3, <1>t DEF TypeOK, Answer
        <5>. QED  BY <2>0, <3>3, <3>a, <5>1 DEF Stage
      <4>. QED  BY <2>0, <3>a, <4>1, <4>2, IntoWay
    (* None. *)
    <3>b. ASSUME UNCHANGED toFw, dev'.phase = "updating" => timers \subseteq {"DEV_INTERNAL_UPDATE_TIMEOUT"},
                 ~lostAnswer => dev'.intact /\ dev'.got <= dev'.len
                                /\ ("PACKED_TIMEOUT" \in timers => Stepped')
          PROVE  Good'
      <4>1. Still'
        BY <3>2, <3>b DEF Still
      <4>2. Pause'
        BY <2>0, <3>3, <3>b DEF Pause
      <4>. QED  BY <2>0, <3>b, <4>1, <4>2, IntoPause
    <3>5. CASE DevOffer(n)
      <4>1. n.sig = "FW_UPDATE_REQ" /\ timers = {}
        BY <3>1, <3>5, <1>t, StageTimers DEF DevOffer
      <4>2. CASE dev' = [phase |-> "transfer", len |-> n.file, got |-> 0, intact |-> TRUE]
                 /\ toFw' = Append(toFw, "UPDATE_RES_OK")
        <5>1. dev'.phase = "transfer" /\ dev'.len = n.file /\ dev'.got = 0 /\ dev'.intact = TRUE
          BY <4>2
        <5>2. "UPDATE_RES_OK" \in Answer
          BY DEF Answer
        <5>3. ~lostAnswer => dev'.got <= dev'.len /\ Place("UPDATE_RES_OK")'
          BY <2>0, <3>4, <4>1, <5>1, <1>n DEF Content, Place, Agreed, PacketSig
        <5>. QED  BY <3>a, <4>1, <4>2, <5>1, <5>2, <5>3
      <4>3. CASE toFw' = Append(toFw, "UPDATE_BUSY") /\ UNCHANGED dev
        <5>1. "UPDATE_BUSY" \in Answer /\ Place("UPDATE_BUSY")'
          BY DEF Answer, Place, PacketSig
        <5>. QED  BY <3>3, <3>4, <3>a, <4>1, <4>3, <5>1
      <4>. QED  BY <3>5, <4>2, <4>3 DEF DevOffer
    <3>6. CASE DevPacket(n)
      <4> DEFINE got    == Least(dev.got + PacketSize, dev.len)
                 intact == dev.intact /\ n.file = dev.len /\ n.from = dev.got
      <4>1. /\ n.sig = "FW_TRANSFER_REQ" /\ dev.phase = "transfer"
            /\ dev'.phase = IF got < dev.len THEN "transfer" ELSE "idle"
            /\ dev'.len = dev.len /\ dev'.got = got /\ dev'.intact = intact
            /\ toFw' = Append(toFw, CASE got < dev.len -> "TRANSFER_RES_OK"
                                      [] got = dev.len /\ intact -> "INTERNAL_UPDATE_REQ"
                                      [] OTHER -> "TRANSFER_CHECKSUM_ERR")
        BY <3>6 DEF DevPacket
      <4>2. timers \subseteq {"PACKED_TIMEOUT"} /\ dev'.phase # "updating"
        BY <3>1, <4>1, <1>t, StageTimers
      <4>3. /\ "TRANSFER_RES_OK" \in Answer /\ "INTERNAL_UPDATE_REQ" \in Answer
            /\ "TRANSFER_CHECKSUM_ERR" \in Answer
            /\ \A t \in timers : "TRANSFER_RES_OK" \in Timed(t) /\ "INTERNAL_UPDATE_REQ" \in Timed(t)
                                 /\ "TRANSFER_CHECKSUM_ERR" \in Timed(t)
        BY <4>2 DEF Answer, Timed
      (* In step, the device's count reaches the task's index. *)
      <4>4. ASSUME ~lostAnswer
            PROVE  /\ Agreed /\ Agreed' /\ index = got /\ got <= dev.len /\ intact
                   /\ timers # {} => got < dev.len
        <5>1. /\ Stepped /\ n.from = dev.got /\ n.file = file /\ dev.intact /\ dev.got <= dev.len
              /\ packet_len = Least(dev.len - dev.got, PacketSize)
              /\ timers # {} => index < bin_len
          BY <3>4, <4>1, <4>4 DEF Content
        <5>2. Agreed /\ index = dev.got + packet_len
          BY <5>1 DEF Stepped
        <5>3. index = got /\ got <= dev.len
          BY <5>1, <5>2, <1>n DEF Least
        <5>4. Agreed'
          BY <2>0, <4>1, <5>2 DEF Agreed
        <5>5. intact
          BY <5>1, <5>2 DEF Agreed
        <5>6. timers # {} => got < dev.len
          BY <5>1, <5>2, <5>3 DEF Agreed
        <5>. QED  BY <5>2, <5>3, <5>4, <5>5, <5>6
      <4>n. got \in Nat /\ dev.len \in Nat
        BY <1>n DEF Least
      <4> HIDE DEF got, intact
      <4>5. CASE got < dev.len
        <5>1. toFw' = Append(toFw, "TRANSFER_RES_OK")
          <6>1. got # dev.len
            BY <4>n, <4>5
          <6>. QED  BY <4>1, <4>5, <6>1
        <5>2. ~lostAnswer => dev'.intact /\ dev'.got <= dev'.len /\ Place("TRANSFER_RES_OK")'
          BY <2>0, <4>1, <4>4 DEF Place, PacketSig
        <5>. QED  BY <3>a, <4>2, <4>3, <5>1, <5>2
      <4>6. CASE ~(got < dev.len)
        <5>1. PICK a \in {"INTERNAL_UPDATE_REQ", "TRANSFER_CHECKSUM_ERR"} : toFw' = Append(toFw, a)
          BY <4>1, <4>6
        <5>2. ~lostAnswer => dev'.intact /\ dev'.got <= dev'.len /\ Place(a)'
          BY <2>0, <4>1, <4>4, <4>6 DEF Place, PacketSig
        <5>. QED  BY <3>a, <4>2, <4>3, <5>1, <5>2
      <4>. QED  BY <4>5, <4>6
    <3>7. CASE DevOther(n)
      <4>1. CASE n.sig = "FW_INFO_REQ" /\ toFw' = Append(toFw, "CURRENT_INFO_RES") /\ UNCHANGED dev
        <5>1. timers \subseteq {"GET_FIRMWARE_INFO_TIMEOUT"}
          BY <3>1, <4>1, <1>t, StageTimers
        <5>2. "CURRENT_INFO_RES" \in Answer /\ Place("CURRENT_INFO_RES")'
              /\ \A t \in timers : "CURRENT_INFO_RES" \in Timed(t)
          BY <5>1 DEF Answer, Place, PacketSig, Timed
        <5>. QED  BY <3>3, <3>4, <3>a, <4>1, <5>2
      <4>2. CASE n.sig = "FW_INTERNAL_UPDATE_RES_OK" /\ dev' = [dev EXCEPT !.phase = "updating"]
                 /\ UNCHANGED toFw
        <5>1. timers \subseteq {"DEV_INTERNAL_UPDATE_TIMEOUT"}
          BY <3>1, <4>2, <1>t, StageTimers
        <5>2. dev'.intact = dev.intact /\ dev'.got = dev.got /\ dev'.len = dev.len
          BY <4>2, <1>t DEF TypeOK
        <5>3. "PACKED_TIMEOUT" \notin timers
          BY <5>1
        <5>. QED  BY <3>4, <3>b, <4>2, <5>1, <5>2, <5>3
      <4>3. CASE n.sig = "FW_TRANSFER_REQ" /\ UNCHANGED <<dev, toFw>>
        <5>1. ~lostAnswer => Stepped'
          BY <2>0, <3>4, <4>3 DEF Content, Stepped, Agreed
        <5>. QED  BY <3>3, <3>4, <3>b, <4>3, <5>1
      <4>. QED  BY <3>7, <4>1, <4>2, <4>3 DEF DevOther
    <3>. QED  BY <2>2, <3>2, <3>5, <3>6, <3>7
  <2>. QED  BY <1>20, <2>1, <2>2 DEF Device
<1>. QED
  BY <1>3, <1>4, <1>5, <1>6, <1>7, <1>8, <1>9, <1>10, <1>11, <1>12, <1>13, <1>14, <1>15, <1>16, <1>17,
     <1>18, <1>19, <1>20 DEF Next, Task

LEMMA FwTalk == Spec => []TalkInv
  BY TalkInit, TalkStep, PTL DEF Spec

(* A lost packet is sent again and none twice: what the device has collected is
   the beginning of the file, as long as no acknowledgement is lost and no
   timeout overtakes one.                                                  *)
THEOREM FwDeviceIntact == Spec => []DeviceIntact
<1>1. TalkInv => DeviceIntact
  BY DEF TalkInv, Good, InStep, DeviceIntact
<1>. QED  BY <1>1, FwTalk, PTL

(* After the end of an update is reported nothing of it goes on: no packet
   timer is left running and no packet waits to be sent, by whatever way the
   update ended.                                                           *)
THEOREM FwQuietEnd == Spec => []QuietEnd
<1>1. TalkInv => QuietEnd
  <2> SUFFICES ASSUME TalkInv, Punctual, ~open
               PROVE  /\ "PACKED_TIMEOUT" \notin timers
                      /\ \A i \in 1..Len(mailbox) : mailbox[i] \notin {"PACKED_TIMEOUT", "TRANFER_REQ"}
    BY DEF QuietEnd
  <2>1. TypeOK /\ Talk
    BY DEF TalkInv, Good
  <2>2. CASE Still /\ Pause
    BY <2>2 DEF Still, Pause
  <2>3. CASE \E s \in Signal : (BoxHas(s) \/ (s \in Answer /\ WayHas(s))) /\ Stage(s)
    <3>1. PICK s \in Signal : (BoxHas(s) \/ (s \in Answer /\ WayHas(s))) /\ Stage(s)
      BY <2>3
    <3>2. s = "OTA_REQ"
      BY <3>1 DEF Stage
    <3>3. timers = {} /\ mailbox = <<"OTA_REQ">>
      BY <2>1, <3>1, <3>2, StageTimers DEF BoxHas, Answer
    <3>. QED  BY <3>3
  <2>4. CASE \E m \in Message : DevHas(m) /\ Stage(m.sig)
    BY <2>4 DEF Stage, Message, Request
  <2>. QED  BY <2>1, <2>2, <2>3, <2>4 DEF Talk
<1>. QED  BY <1>1, FwTalk, PTL
=============================================================================
