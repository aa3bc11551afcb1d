---------------------------- MODULE BufferProofs ----------------------------
(***************************************************************************)
(* Proofs about what holds bytes and PDUs, and about the readers of bytes. *)
(* For every size, the free list of the pool holds exactly the unused      *)
(* PDUs, each once, after any sequence of calls, and implements the        *)
(* abstract pool (PduPool); the ring keeps its counters consistent and is  *)
(* a bounded first-in first-out queue (Fifo).  The parser of the link PHY  *)
(* layer does not wait inside a frame without a timeout to come and loses  *)
(* no frame on a good line, for addresses and data of every length and any *)
(* number of faults (PhyParser); the parser of the USB stick comes into    *)
(* step again, for data and chunks of every length (UsbParser); and the    *)
(* console runs what fits its buffer as it was typed, for buffers and      *)
(* lines of every length (Console).                                        *)
(***************************************************************************)
EXTENDS PduPool, Fifo, PhyParser, UsbParser, Console, SequenceTheorems, TLAPS

LEMMA InitIInv == PoolInit => IInv
<1> SUFFICES ASSUME PoolInit PROVE IInv
  OBVIOUS
<1> USE PoolSizeIsPositive DEF PoolInit, Id, Null
<1>1. chain \in Seq(Id)
  <2>1. chain \in [1..PoolSize -> Id]
    OBVIOUS
  <2>. QED  BY <2>1, SeqDef
<1>2. Len(chain) = PoolSize /\ \A i \in 1..PoolSize : chain[i] = i - 1
  OBVIOUS
<1>3. PoolTypeOK
  BY <1>1 DEF PoolTypeOK
<1>4. \A id \in Id : \E i \in 1..Len(chain) : chain[i] = id
  <2> TAKE id \in Id
  <2>1. id + 1 \in 1..Len(chain) /\ chain[id + 1] = id
    BY <1>2
  <2>. QED  BY <2>1
<1>5. FreeListExact
  BY <1>2, <1>4 DEF FreeListExact, ChainAt
<1>. QED  BY <1>3, <1>5 DEF IInv

(* What malloc does to the list: its first PDU leaves it. *)
LEMMA MallocKeeps ==
  ASSUME IInv, Malloc
  PROVE  IInv'
<1>0. PoolSize \in Nat \ {0} /\ Null \notin Id
  BY PoolSizeIsPositive DEF Id, Null
<1>1. CASE free # Null
  <2>0. /\ chain \in Seq(Id) /\ next \in [Id -> Id \cup {Null}] /\ used \in [Id -> BOOLEAN]
        /\ Len(chain) \in Nat
    BY DEF IInv, PoolTypeOK
  <2>1. 1 \in 1..Len(chain) /\ free = chain[1] /\ chain # <<>>
    BY <1>0, <1>1, <2>0 DEF IInv, FreeListExact, ChainAt
  <2>2. /\ chain' = Tail(chain) /\ free' = next[free] /\ next' = next /\ fatal' = fatal
        /\ used' = [used EXCEPT ![free] = TRUE] /\ free \in Id /\ given' = free
    BY <1>1, <2>0, <2>1 DEF Malloc, Die
  <2>3. /\ chain' \in Seq(Id) /\ Len(chain') = Len(chain) - 1
        /\ \A i \in 1..Len(chain') : chain'[i] = chain[i + 1]
    BY <2>0, <2>1, <2>2, HeadTailProperties
  <2>4. PoolTypeOK'
    BY <2>0, <2>2, <2>3 DEF IInv, PoolTypeOK
  <2>5. \A i \in Nat \ {0} : ChainAt(i)' = ChainAt(i + 1)
    BY <2>0, <2>3 DEF ChainAt
  <2>6. free' = ChainAt(1)'
    BY <2>1, <2>2, <2>5 DEF IInv, FreeListExact
  <2>7. \A i \in 1..Len(chain') : next'[chain'[i]] = ChainAt(i + 1)'
    <3> TAKE i \in 1..Len(chain')
    <3>1. i + 1 \in 1..Len(chain) /\ chain'[i] = chain[i + 1]
      BY <2>0, <2>3
    <3>2. next[chain[i + 1]] = ChainAt((i + 1) + 1)
      BY <3>1 DEF IInv, FreeListExact
    <3>3. ChainAt(i + 1)' = ChainAt((i + 1) + 1)
      BY <2>0, <2>3, <2>5, <3>1
    <3>. QED  BY <2>2, <3>1, <3>2, <3>3
  <2>8. \A i, j \in 1..Len(chain') : chain'[i] = chain'[j] => i = j
    <3> SUFFICES ASSUME NEW i \in 1..Len(chain'), NEW j \in 1..Len(chain'),
                        chain'[i] = chain'[j]
                 PROVE  i = j
      OBVIOUS
    <3>1. i + 1 \in 1..Len(chain) /\ j + 1 \in 1..Len(chain) /\ chain[i + 1] = chain[j + 1]
      BY <2>0, <2>3
    <3>. QED  BY <3>1 DEF IInv, FreeListExact
  <2>9. \A id \in Id : ~used'[id] <=> \E i \in 1..Len(chain') : chain'[i] = id
    <3> TAKE id \in Id
    <3>1. ~used'[id] <=> ~used[id] /\ id # chain[1]
      BY <2>0, <2>1, <2>2
    <3>2. ~used[id] <=> \E i \in 1..Len(chain) : chain[i] = id
      BY DEF IInv, FreeListExact
    <3>3. ASSUME NEW i \in 1..Len(chain), chain[i] = id, id # chain[1]
          PROVE  i - 1 \in 1..Len(chain') /\ chain'[i - 1] = id
      <4>1. i - 1 \in 1..Len(chain')
        BY <2>0, <2>3, <3>3
      <4>. QED  BY <2>3, <3>3, <4>1
    <3>4. ASSUME NEW i \in 1..Len(chain'), chain'[i] = id
          PROVE  i + 1 \in 1..Len(chain) /\ chain[i + 1] = id /\ id # chain[1]
      <4>1. i + 1 \in 1..Len(chain) /\ chain[i + 1] = id /\ i + 1 # 1
        BY <2>0, <2>3, <3>4
      <4>. QED  BY <2>1, <4>1 DEF IInv, FreeListExact
    <3>. QED  BY <3>1, <3>2, <3>3, <3>4
  <2>. QED  BY <2>4, <2>6, <2>7, <2>8, <2>9 DEF IInv, FreeListExact
<1>2. CASE free = Null
  BY <1>0, <1>2 DEF IInv, PoolTypeOK, FreeListExact, ChainAt, Malloc, Die
<1>. QED  BY <1>1, <1>2

(* What a free does to the list: the PDU becomes its first. *)
LEMMA ReleaseKeeps ==
  ASSUME IInv, NEW id \in Id, used[id], Release(id)
  PROVE  IInv'
<1>1. /\ chain \in Seq(Id) /\ next \in [Id -> Id \cup {Null}] /\ used \in [Id -> BOOLEAN]
      /\ Len(chain) \in Nat
  BY DEF IInv, PoolTypeOK
<1>2. /\ chain' = <<id>> \o chain /\ free' = id /\ next' = [next EXCEPT ![id] = free]
      /\ used' = [used EXCEPT ![id] = FALSE] /\ fatal' = fatal /\ given' = given
  BY DEF Release
<1>3. /\ chain' \in Seq(Id) /\ Len(chain') = Len(chain) + 1 /\ chain'[1] = id
      /\ \A i \in 1..Len(chain) : chain'[i + 1] = chain[i]
  BY <1>1, <1>2
<1>4. \A i \in 1..Len(chain) : chain[i] # id
  BY DEF IInv, FreeListExact
<1>5. PoolTypeOK'
  BY <1>1, <1>2, <1>3 DEF IInv, PoolTypeOK
<1>6. \A i \in Nat \ {0} : ChainAt(i + 1)' = ChainAt(i)
  BY <1>1, <1>3 DEF ChainAt
<1>7. free' = ChainAt(1)'
  BY <1>1, <1>2, <1>3 DEF ChainAt
<1>8. \A i \in 1..Len(chain') : next'[chain'[i]] = ChainAt(i + 1)'
  <2> TAKE i \in 1..Len(chain')
  <2>1. CASE i = 1
    BY <1>1, <1>2, <1>3, <1>6, <2>1 DEF IInv, FreeListExact
  <2>2. CASE i # 1
    <3>1. i - 1 \in 1..Len(chain) /\ i = (i - 1) + 1 /\ i - 1 \in Nat \ {0}
      BY <1>1, <1>3, <2>2
    <3>2. chain'[i] = chain[i - 1] /\ chain[i - 1] \in Id /\ chain[i - 1] # id
      BY <1>1, <1>3, <1>4, <3>1
    <3>3. next[chain[i - 1]] = ChainAt(i)
      BY <3>1 DEF IInv, FreeListExact
    <3>4. ChainAt(i + 1)' = ChainAt(i)
      BY <1>6, <3>1
    <3>. QED  BY <1>1, <1>2, <3>2, <3>3, <3>4
  <2>. QED  BY <2>1, <2>2
<1>9. \A i, j \in 1..Len(chain') : chain'[i] = chain'[j] => i = j
  <2> SUFFICES ASSUME NEW i \in 1..Len(chain'), NEW j \in 1..Len(chain'),
                      chain'[i] = chain'[j], i # j
               PROVE  FALSE
    OBVIOUS
  <2>1. \A k \in 1..Len(chain') : k # 1 => k - 1 \in 1..Len(chain) /\ chain'[k] = chain[k - 1]
    <3> SUFFICES ASSUME NEW k \in 1..Len(chain'), k # 1
                 PROVE  k - 1 \in 1..Len(chain) /\ chain'[k] = chain[k - 1]
      OBVIOUS
    <3>1. k - 1 \in 1..Len(chain) /\ (k - 1) + 1 = k
      BY <1>1, <1>3
    <3>. QED  BY <1>3, <3>1
  <2>2. CASE i = 1 \/ j = 1
    <3>1. \A k \in 1..Len(chain') : k # 1 => chain'[k] # id
      BY <1>4, <2>1
    <3>. QED  BY <1>3, <2>2, <3>1
  <2>3. CASE i # 1 /\ j # 1
    <3>1. i - 1 \in 1..Len(chain) /\ j - 1 \in 1..Len(chain) /\ chain[i - 1] = chain[j - 1]
      BY <2>1, <2>3
    <3>2. i - 1 = j - 1
      BY <3>1 DEF IInv, FreeListExact
    <3>. QED  BY <1>1, <1>3, <3>2
  <2>. QED  BY <2>2, <2>3
<1>10. \A d \in Id : ~used'[d] <=> \E i \in 1..Len(chain') : chain'[i] = d
  <2> TAKE d \in Id
  <2>1. ~used'[d] <=> ~used[d] \/ d = id
    BY <1>1, <1>2
  <2>2. ~used[d] <=> \E i \in 1..Len(chain) : chain[i] = d
    BY DEF IInv, FreeListExact
  <2>3. ASSUME NEW i \in 1..Len(chain), chain[i] = d
        PROVE  i + 1 \in 1..Len(chain') /\ chain'[i + 1] = d
    BY <1>1, <1>3, <2>3
  <2>4. 1 \in 1..Len(chain') /\ chain'[1] = id
    BY <1>1, <1>3
  <2>5. ASSUME NEW i \in 1..Len(chain'), chain'[i] = d, d # id
        PROVE  i - 1 \in 1..Len(chain) /\ chain[i - 1] = d
    <3>1. i - 1 \in 1..Len(chain) /\ (i - 1) + 1 = i
      BY <1>1, <1>3, <2>5
    <3>. QED  BY <1>3, <2>5, <3>1
  <2>. QED  BY <2>1, <2>2, <2>3, <2>4, <2>5
<1>. QED  BY <1>5, <1>7, <1>8, <1>9, <1>10 DEF IInv, FreeListExact

(* A FATAL leaves the list alone, and so does link_pdu_get. *)
LEMMA DieKeeps ==
  ASSUME IInv, NEW code \in 1..4, Die(code)
  PROVE  IInv'
  BY DEF IInv, PoolTypeOK, FreeListExact, ChainAt, Die

LEMMA StepIInv == IInv /\ [PoolNext]_poolVars => IInv'
<1> SUFFICES ASSUME IInv, [PoolNext]_poolVars PROVE IInv'
  OBVIOUS
<1>1. CASE Malloc
  BY <1>1, MallocKeeps
<1>2. ASSUME NEW id \in Id \cup {Null}, FreeId(id) \/ FreePtr(id) \/ Get(id),
             ~ UNCHANGED poolVars
      PROVE  IInv'
  <2>1. CASE InUse(id) /\ Release(id)
    BY <2>1, ReleaseKeeps DEF InUse
  <2>2. CASE Die(2) \/ Die(3) \/ Die(4)
    BY <2>2, DieKeeps
  <2>. QED  BY <1>2, <2>1, <2>2 DEF FreeId, FreePtr, Get
<1>3. CASE UNCHANGED poolVars
  BY <1>3 DEF poolVars, IInv, PoolTypeOK, FreeListExact, ChainAt
<1>. QED  BY <1>1, <1>2, <1>3 DEF PoolNext

(* The free list is exact after every call, for every pool size. *)
THEOREM FreeListCorrect == PoolSpec => []IInv
  BY InitIInv, StepIInv, PTL DEF PoolSpec

-----------------------------------------------------------------------------
(* The free list implements the abstract pool.  A malloc takes a PDU that
   nobody holds, and fails only when all are held; every free and get is a
   Give, a Misuse or no step at all.                                       *)
THEOREM PoolCorrect == PoolSpec => ImplementsPool
<1> DEFINE held == {id \in Id : used[id]}
<1>1. PoolInit => Pool!PoolInit
  BY DEF PoolInit, Pool!PoolInit, StopReason
<1>2. IInv /\ [PoolNext]_poolVars => [Pool!PoolNext]_<<held, given, StopReason>>
  <2> SUFFICES ASSUME IInv, [PoolNext]_poolVars, ~ UNCHANGED <<held, given, StopReason>>
               PROVE  Pool!PoolNext
    OBVIOUS
  <2>0. /\ used \in [Id -> BOOLEAN] /\ fatal \in 0..4 /\ Null \notin Id
        /\ next \in [Id -> Id \cup {Null}] /\ free \in Id \cup {Null}
    BY PoolSizeIsPositive DEF IInv, PoolTypeOK, Id, Null
  <2>1. CASE Malloc /\ free # Null
    <3>1. free \in Id /\ ~used[free]
      <4>1. free = ChainAt(1)
        BY DEF IInv, FreeListExact
      <4>2. 1 \in 1..Len(chain) /\ free = chain[1]
        BY <2>1, <4>1 DEF ChainAt
      <4>. QED  BY <2>0, <2>1, <4>2 DEF IInv, FreeListExact
    <3>2. held' = held \cup {free} /\ given' = free /\ UNCHANGED fatal /\ fatal = 0
      BY <2>0, <2>1, <3>1 DEF Malloc, Die
    <3>. QED  BY <3>1, <3>2 DEF Pool!PoolNext, Pool!Take, StopReason
  <2>2. CASE Malloc /\ free = Null
    <3>1. \A id \in Id : used[id]
      <4>1. Len(chain) \in Nat /\ \A i \in 1..Len(chain) : chain[i] \in Id
        BY DEF IInv, PoolTypeOK
      <4>2. free = ChainAt(1)
        BY DEF IInv, FreeListExact
      <4>3. Len(chain) = 0
        BY <2>0, <2>2, <4>1, <4>2 DEF ChainAt
      <4>. QED  BY <4>3 DEF IInv, FreeListExact
    <3>2. fatal = 0 /\ fatal' = 1 /\ UNCHANGED <<used, given>>
      BY <2>2 DEF Malloc, Die
    <3>. QED  BY <3>1, <3>2 DEF Pool!PoolNext, Pool!Exhaust, StopReason
  <2>3. ASSUME NEW id \in Id, fatal = 0, used[id], Release(id) PROVE Pool!PoolNext
    <3>1. held' = held \ {id} /\ id \in held /\ UNCHANGED <<fatal, given>>
      BY <2>0, <2>3 DEF Release
    <3>. QED  BY <2>3, <3>1 DEF Pool!PoolNext, Pool!Give, StopReason
  <2>4. ASSUME NEW code \in 2..4, fatal = 0, Die(code) PROVE Pool!PoolNext
    <3>1. held' = held /\ given' = given /\ fatal' = code /\ code # 0 /\ code # 1
      BY <2>4 DEF Die
    <3>. QED  BY <2>4, <3>1 DEF Pool!PoolNext, Pool!Misuse, StopReason
  <2>. QED
    BY <2>1, <2>2, <2>3, <2>4 DEF PoolNext, FreeId, FreePtr, Get, InUse, poolVars, StopReason
<1>. QED
  BY <1>1, <1>2, FreeListCorrect, PTL
     DEF PoolSpec, ImplementsPool, Pool!PoolSpec, Pool!poolVars

-----------------------------------------------------------------------------
(* The ring. *)

(* The cells of a ring, counted from its head, are all different. *)
LEMMA CellsDiffer ==
  ASSUME NEW h \in Cell, NEW i \in 0 .. Size - 1, NEW j \in 0 .. Size - 1,
         (h + i) % Size = (h + j) % Size
  PROVE  i = j
<1> USE SizeIsPositive DEF Cell
<1>1. \A k \in 0 .. Size - 1 :
         (h + k) % Size = IF h + k < Size THEN h + k ELSE h + k - Size
  OBVIOUS
<1>2. \/ h + i = h + j \/ h + i = h + j - Size \/ h + i - Size = h + j
      \/ h + i - Size = h + j - Size
  BY <1>1
<1>. QED  BY <1>2

(* Moving the head on by one renumbers the cells. *)
LEMMA CellsShift ==
  ASSUME NEW h \in Cell, NEW i \in 0 .. Size
  PROVE  (((h + 1) % Size) + i) % Size = (h + (i + 1)) % Size
<1> USE SizeIsPositive DEF Cell
<1>1. (h + 1) % Size = IF h + 1 = Size THEN 0 ELSE h + 1
  OBVIOUS
<1>2. CASE h + 1 = Size
  <2>1. (((h + 1) % Size) + i) % Size = i % Size
    BY <1>1, <1>2
  <2>2. (h + (i + 1)) = Size + i
    BY <1>2
  <2>3. (Size + i) % Size = i % Size
    OBVIOUS
  <2>. QED  BY <2>1, <2>2, <2>3
<1>3. CASE h + 1 # Size
  BY <1>1, <1>3
<1>. QED  BY <1>2, <1>3

RingIInv == FifoTypeOK /\ RingConsistent

LEMMA RingInit == FifoInit => RingIInv
  BY SizeIsPositive DEF FifoInit, RingIInv, FifoTypeOK, RingConsistent, Cell

LEMMA PutKeeps ==
  ASSUME RingIInv, NEW e \in Elem, fifo_put(e)
  PROVE  RingIInv'
<1> USE SizeIsPositive
<1>1. CASE fill_size = Size
  BY <1>1 DEF fifo_put, Stop, RingIInv, FifoTypeOK, RingConsistent, CellOf
<1>2. CASE fill_size # Size
  <2>1. /\ fill_size \in 0 .. Size - 1 /\ head_index \in Cell /\ tail_index \in Cell
        /\ fill_size' = fill_size + 1 /\ buffer' = [buffer EXCEPT ![tail_index] = e]
        /\ tail_index' = (tail_index + 1) % Size /\ UNCHANGED <<head_index, got, stop>>
        /\ buffer \in [Cell -> Elem \cup {None}]
        /\ tail_index = (head_index + fill_size) % Size
    BY <1>2 DEF fifo_put, Stop, RingIInv, FifoTypeOK, RingConsistent
  <2>2. FifoTypeOK'
    BY <2>1 DEF RingIInv, FifoTypeOK, Cell
  <2>3. tail_index' = (head_index' + fill_size') % Size
    <3>1. tail_index = IF head_index + fill_size < Size THEN head_index + fill_size
                       ELSE head_index + fill_size - Size
      BY <2>1 DEF Cell
    <3>. QED  BY <2>1, <3>1 DEF Cell
  <2>4. \A i \in 1..fill_size' : buffer'[CellOf(i)'] \in Elem
    <3> TAKE i \in 1..fill_size'
    <3>1. CellOf(i)' = (head_index + (i - 1)) % Size /\ CellOf(i)' = CellOf(i)
          /\ CellOf(i) \in Cell
      BY <2>1 DEF CellOf, Cell
    <3>2. CASE i = fill_size + 1
      BY <2>1, <3>1, <3>2
    <3>3. CASE i # fill_size + 1
      <4>1. i \in 1..fill_size
        BY <2>1, <3>3
      <4>2. CellOf(i) # tail_index
        <5>1. i - 1 \in 0 .. Size - 1 /\ fill_size \in 0 .. Size - 1 /\ i - 1 # fill_size
          BY <2>1, <3>3
        <5>. QED  BY <2>1, <3>1, <5>1, CellsDiffer
      <4>. QED  BY <2>1, <3>1, <4>1, <4>2 DEF RingIInv, RingConsistent
    <3>. QED  BY <3>2, <3>3
  <2>. QED  BY <2>2, <2>3, <2>4 DEF RingIInv, RingConsistent
<1>. QED  BY <1>1, <1>2

LEMMA GetKeeps ==
  ASSUME RingIInv, fifo_get
  PROVE  RingIInv'
<1> USE SizeIsPositive
<1>1. CASE fill_size = 0
  BY <1>1 DEF fifo_get, Stop, RingIInv, FifoTypeOK, RingConsistent, CellOf
<1>2. CASE fill_size # 0
  <2>1. /\ fill_size \in 1 .. Size /\ head_index \in Cell /\ got' = buffer[head_index]
        /\ fill_size' = fill_size - 1 /\ head_index' = (head_index + 1) % Size
        /\ UNCHANGED <<buffer, tail_index, stop>>
        /\ tail_index = (head_index + fill_size) % Size
    BY <1>2 DEF fifo_get, Stop, RingIInv, FifoTypeOK, RingConsistent
  <2>2. FifoTypeOK'
    BY <2>1 DEF RingIInv, FifoTypeOK, Cell
  <2>3. \A i \in 1..fill_size' : CellOf(i)' = CellOf(i + 1) /\ i + 1 \in 1..fill_size
    <3> TAKE i \in 1..fill_size'
    <3>1. (((head_index + 1) % Size) + (i - 1)) % Size = (head_index + ((i - 1) + 1)) % Size
      BY <2>1, CellsShift
    <3>. QED  BY <2>1, <3>1 DEF CellOf, Cell
  <2>4. tail_index' = (head_index' + fill_size') % Size
    <3>1. (((head_index + 1) % Size) + (fill_size - 1)) % Size
            = (head_index + ((fill_size - 1) + 1)) % Size
      BY <2>1, CellsShift
    <3>. QED  BY <2>1, <3>1
  <2>5. \A i \in 1..fill_size' : buffer'[CellOf(i)'] \in Elem
    BY <2>1, <2>3 DEF RingIInv, RingConsistent
  <2>. QED  BY <2>2, <2>4, <2>5 DEF RingIInv, RingConsistent
<1>. QED  BY <1>1, <1>2

LEMMA RingStep == RingIInv /\ [FifoNext]_fifoVars => RingIInv'
<1> SUFFICES ASSUME RingIInv, [FifoNext]_fifoVars PROVE RingIInv'
  OBVIOUS
<1>1. CASE UNCHANGED fifoVars
  BY <1>1 DEF fifoVars, RingIInv, FifoTypeOK, RingConsistent, CellOf
<1>. QED  BY <1>1, PutKeeps, GetKeeps DEF FifoNext

(* The counters agree and every counted cell is written, for every size. *)
THEOREM RingCorrect == FifoSpec => [](FifoTypeOK /\ RingConsistent)
<1>1. FifoSpec => []RingIInv
  BY RingInit, RingStep, PTL DEF FifoSpec
<1>. QED  BY <1>1, PTL DEF RingIInv

-----------------------------------------------------------------------------
LEMMA ContentsSeq ==
  ASSUME RingIInv
  PROVE  /\ Contents \in Seq(Elem) /\ Len(Contents) = fill_size
         /\ \A i \in 1..fill_size : Contents[i] = buffer[CellOf(i)]
<1>1. Contents \in [1..fill_size -> Elem] /\ fill_size \in Nat
  BY DEF Contents, RingIInv, FifoTypeOK, RingConsistent
<1>. QED  BY <1>1, SeqDef DEF Contents

LEMMA PrimedContentsSeq ==
  ASSUME RingIInv'
  PROVE  /\ Contents' \in Seq(Elem) /\ Len(Contents') = fill_size'
         /\ \A i \in 1..fill_size' : Contents'[i] = buffer'[CellOf(i)']
<1>1. Contents' \in [1..fill_size' -> Elem] /\ fill_size' \in Nat
  BY DEF Contents, RingIInv, FifoTypeOK, RingConsistent
<1>. QED  BY <1>1, SeqDef DEF Contents

(* What a put and a get do to the elements of the ring, oldest first. *)
LEMMA PutAppends ==
  ASSUME RingIInv, RingIInv', NEW e \in Elem, fifo_put(e), fill_size # Size
  PROVE  Contents' = Append(Contents, e)
<1> USE SizeIsPositive
<1>1. /\ fill_size \in 0 .. Size - 1 /\ head_index \in Cell /\ tail_index \in Cell
      /\ fill_size' = fill_size + 1 /\ buffer' = [buffer EXCEPT ![tail_index] = e]
      /\ UNCHANGED head_index /\ buffer \in [Cell -> Elem \cup {None}]
      /\ tail_index = (head_index + fill_size) % Size
  BY DEF fifo_put, Stop, RingIInv, FifoTypeOK, RingConsistent
<1>2. /\ Contents' \in Seq(Elem) /\ Len(Contents') = fill_size'
      /\ \A i \in 1..fill_size' : Contents'[i] = buffer'[CellOf(i)']
  BY PrimedContentsSeq
<1>3. \A i \in 1..fill_size' : Contents'[i] = IF i = fill_size' THEN e ELSE Contents[i]
  <2> TAKE i \in 1..fill_size'
  <2>1. CellOf(i) = (head_index + (i - 1)) % Size /\ CellOf(i)' = CellOf(i) /\ CellOf(i) \in Cell
    BY <1>1 DEF CellOf, Cell
  <2>2. CASE i = fill_size'
    BY <1>1, <1>2, <2>1, <2>2
  <2>3. CASE i # fill_size'
    <3>1. i \in 1..fill_size
      BY <1>1, <2>3
    <3>2. CellOf(i) # tail_index
      BY <1>1, <2>1, <3>1, CellsDiffer
    <3>. QED  BY <1>1, <1>2, <2>1, <3>1, <3>2, ContentsSeq
  <2>. QED  BY <2>2, <2>3
<1>4. /\ Append(Contents, e) \in Seq(Elem) /\ Len(Append(Contents, e)) = fill_size'
      /\ \A i \in 1..fill_size' :
            Append(Contents, e)[i] = IF i = fill_size' THEN e ELSE Contents[i]
  BY <1>1, ContentsSeq
<1>. QED  BY <1>2, <1>3, <1>4, SeqEqual

LEMMA GetTakesOldest ==
  ASSUME RingIInv, RingIInv', fifo_get, fill_size # 0
  PROVE  Contents # <<>> /\ got' = Head(Contents) /\ Contents' = Tail(Contents)
<1> USE SizeIsPositive
<1>1. /\ fill_size \in 1 .. Size /\ head_index \in Cell /\ got' = buffer[head_index]
      /\ fill_size' = fill_size - 1 /\ head_index' = (head_index + 1) % Size
      /\ UNCHANGED buffer
  BY DEF fifo_get, Stop, RingIInv, FifoTypeOK
<1>2. /\ Contents \in Seq(Elem) /\ Len(Contents) = fill_size /\ Contents # <<>>
      /\ \A i \in 1..fill_size : Contents[i] = buffer[CellOf(i)]
  BY <1>1, ContentsSeq
<1>3. /\ Contents' \in Seq(Elem) /\ Len(Contents') = fill_size'
      /\ \A i \in 1..fill_size' : Contents'[i] = buffer'[CellOf(i)']
  BY PrimedContentsSeq
<1>4. CellOf(1) = head_index
  BY <1>1 DEF CellOf, Cell
<1>5. \A i \in 1..fill_size' : Contents'[i] = Contents[i + 1]
  <2> TAKE i \in 1..fill_size'
  <2>1. (((head_index + 1) % Size) + (i - 1)) % Size = (head_index + ((i - 1) + 1)) % Size
    BY <1>1, CellsShift
  <2>2. CellOf(i)' = CellOf(i + 1) /\ i + 1 \in 1..fill_size
    BY <1>1, <2>1 DEF CellOf, Cell
  <2>. QED  BY <1>1, <1>2, <1>3, <2>2
<1>6. /\ Tail(Contents) \in Seq(Elem) /\ Len(Tail(Contents)) = fill_size'
      /\ \A i \in 1..fill_size' : Tail(Contents)[i] = Contents[i + 1]
  BY <1>1, <1>2, HeadTailProperties
<1>7. Contents' = Tail(Contents)
  BY <1>3, <1>5, <1>6, SeqEqual
<1>8. Head(Contents) = Contents[1]
  BY <1>2
<1>. QED  BY <1>1, <1>2, <1>4, <1>7, <1>8

(* The ring implements the bounded queue: a put appends, a get takes the
   oldest, and a FATAL comes only from a full or an empty ring.            *)
THEOREM QueueCorrect == FifoSpec => ImplementsQueue
<1>1. FifoInit => Queue!QueueInit
  BY DEF FifoInit, Queue!QueueInit, Contents, FifoStopped
<1>2. RingIInv /\ RingIInv' /\ [FifoNext]_fifoVars => [Queue!QueueNext]_<<Contents, got, FifoStopped>>
  <2> SUFFICES ASSUME RingIInv, RingIInv', [FifoNext]_fifoVars PROVE [Queue!QueueNext]_<<Contents, got, FifoStopped>>
    OBVIOUS
  <2>1. ASSUME NEW e \in Elem, fifo_put(e) PROVE Queue!QueueNext
    <3>1. CASE fill_size # Size
      BY <2>1, <3>1, PutAppends, ContentsSeq, SizeIsPositive
         DEF fifo_put, Stop, FifoStopped, Queue!QueueNext, Queue!Enqueue, RingIInv, FifoTypeOK
    <3>2. CASE fill_size = Size
      <4>1. Contents' = Contents
        BY <2>1, <3>2, SizeIsPositive DEF fifo_put, Stop, Contents, CellOf
      <4>. QED
        BY <2>1, <3>2, <4>1, ContentsSeq
           DEF fifo_put, Stop, FifoStopped, Queue!QueueNext, Queue!Overflow
    <3>. QED  BY <3>1, <3>2
  <2>2. CASE fifo_get
    <3>1. CASE fill_size # 0
      BY <2>2, <3>1, GetTakesOldest
         DEF fifo_get, Stop, FifoStopped, Queue!QueueNext, Queue!Dequeue
    <3>2. CASE fill_size = 0
      <4>1. Contents' = Contents /\ Contents = <<>>
        BY <2>2, <3>2, ContentsSeq DEF fifo_get, Stop, Contents, CellOf
      <4>. QED
        BY <2>2, <3>2, <4>1 DEF fifo_get, Stop, FifoStopped, Queue!QueueNext, Queue!Underflow
    <3>. QED  BY <3>1, <3>2
  <2>3. CASE UNCHANGED fifoVars
    BY <2>3 DEF fifoVars, Contents, CellOf, FifoStopped
  <2>. QED  BY <2>1, <2>2, <2>3 DEF FifoNext
<1>3. FifoSpec => []RingIInv
  BY RingInit, RingStep, PTL DEF FifoSpec
<1>. QED
  BY <1>1, <1>2, <1>3, PTL
     DEF FifoSpec, ImplementsQueue, Queue!QueueSpec, Queue!queueVars

-----------------------------------------------------------------------------
(* The part of the type invariant that the argument needs: the mailbox, the
   receive thread, and the line it reads from.                             *)
Shape ==
  /\ mailbox \in Seq(Signal)
  /\ rx \in [pc : {"read", "act", "start_to", "clear_to", "post", "reset"}, cur : State, byte : Byte]
  /\ state \in State
  /\ peer \in [frame : 0..1, len : 0..DataLen, next : Nat]
  /\ peer.next <= Places(peer.len)

TimedInv == Shape /\ MidFrameTimed

(* A timeout that waits goes on waiting while another message is taken from in
   front of it.                                                            *)
LEMMA WaitsInFront ==
  ASSUME mailbox \in Seq(Signal), mailbox # <<>>, Head(mailbox) # "FRAME_REV_TO",
         mailbox' = Tail(mailbox), ToWaits
  PROVE  ToWaits'
<1>1. PICK i \in 1..Len(mailbox) : mailbox[i] = "FRAME_REV_TO"
  BY DEF ToWaits
<1>2. i # 1
  BY <1>1
<1>3. i - 1 \in 1..Len(mailbox') /\ mailbox'[i - 1] = mailbox[i]
  BY <1>1, <1>2
<1> QED
  BY <1>1, <1>3 DEF ToWaits

(* The length of a frame is a number, at least 1 and at most that of the longest. *)
LEMMA PlacesBound ==
  ASSUME NEW l \in 0..DataLen
  PROVE  Places(l) \in 1..Places(DataLen) /\ Places(DataLen) \in Nat
BY AddrLastIsNat, DataLenIsNat DEF Places, LenPlace

-----------------------------------------------------------------------------
LEMMA TimedInit == Init => TimedInv
<1> SUFFICES ASSUME Init PROVE TimedInv
  OBVIOUS
<1>1. mailbox \in Seq(Signal)
  BY DEF Init, Signal
<1>2. 0 \in 0..DataLen
  BY DataLenIsNat
<1>3. rx.byte \in Byte
  BY <1>2, PlacesBound DEF Init, Byte
<1>4. Shape
  BY <1>1, <1>2, <1>3, PlacesBound DEF Init, Shape, State
<1>. QED
  BY <1>4 DEF Init, TimedInv, MidFrameTimed

(* Every action keeps the types of what the argument looks at. *)
LEMMA ShapeStep == Shape /\ [Next]_vars => Shape'
<1> SUFFICES ASSUME Shape, [Next]_vars PROVE Shape'
  OBVIOUS
<1> USE DEF Shape
<1>1. CASE RxGet
  <2>1. PICK ok \in BOOLEAN :
          rx' = [pc |-> "act", cur |-> state,
                 byte |-> [frame |-> peer.frame, len |-> peer.len, place |-> peer.next, ok |-> ok]]
    BY <1>1 DEF RxGet
  <2>2. peer.next \in 1..Places(DataLen)
    BY <1>1, PlacesBound DEF RxGet
  <2>3. rx'.byte \in Byte
    BY <2>1, <2>2 DEF Byte
  <2>4. OnLine \in Nat /\ OnLine <= Places(peer.len)
    BY PlacesBound DEF OnLine
  <2>5. peer' = [peer EXCEPT !.next = OnLine]
    BY <1>1 DEF RxGet
  <2>. QED  BY <1>1, <2>1, <2>3, <2>4, <2>5 DEF RxGet
<1>2. CASE LoseByte
  <2>1. OnLine \in Nat /\ OnLine <= Places(peer.len)
    BY PlacesBound DEF OnLine
  <2>. QED  BY <1>2, <2>1 DEF LoseByte
<1>3. CASE StartFrame
  <2>1. PICK l \in 0..DataLen : peer' = [frame |-> 1 - peer.frame, len |-> l, next |-> 1]
    BY <1>3 DEF StartFrame
  <2>. QED  BY <1>3, <2>1, PlacesBound DEF StartFrame
<1>4. CASE RxSof
  BY <1>4 DEF RxSof, Store, Keep, RxGoto, rxFrame, State
<1>5. CASE RxStartTo \/ RxClearTo
  BY <1>5 DEF RxStartTo, RxClearTo, Keep, RxGoto
<1>6. CASE RxAddr
  BY <1>6 DEF RxAddr, Store, Keep, RxGoto, rxFrame, State
<1>7. CASE RxField
  <2>1. PICK f \in DOMAIN Following : Acts(f) /\ Store(Following[f])
    BY <1>7 DEF RxField
  <2>2. Following[f] \in State
    BY DEF Following, State
  <2>. QED  BY <1>7, <2>1, <2>2 DEF RxField, Store, RxGoto, rxFrame
<1>8. CASE RxLen
  BY <1>8 DEF RxLen, Store, RxGoto, rxFrame, State
<1>9. CASE RxFcs
  BY <1>9 DEF RxFcs, Store, Keep, RxGoto, rxFrame, State
<1>10. CASE RxData
  BY <1>10 DEF RxData, Keep, RxGoto, rxFrame
<1>11. CASE RxPost
  <2>1. PICK m \in Signal : mailbox' = Append(mailbox, m)
    BY <1>11 DEF RxPost, Signal
  <2>2. mailbox' \in Seq(Signal)
    BY <2>1
  <2>. QED  BY <1>11, <2>2 DEF RxPost, Keep, RxGoto
<1>12. CASE RxReset
  BY <1>12 DEF RxReset, Store, RxGoto, rxFrame, State
<1>13. CASE Phy
  <2>1. mailbox # <<>> /\ mailbox' = Tail(mailbox)
    BY <1>13 DEF Phy, PhyInit, PhyRevTo, PhyOther
  <2>2. mailbox' \in Seq(Signal)
    BY <2>1
  <2>3. state' \in State /\ UNCHANGED <<rx, peer>>
    BY <1>13 DEF Phy, PhyInit, PhyRevTo, PhyOther, State
  <2>. QED  BY <2>2, <2>3
<1>14. CASE Expire
  BY <1>14 DEF Expire, Signal
<1>15. CASE UNCHANGED vars
  BY <1>15 DEF vars
<1>. QED
  BY <1>1, <1>2, <1>3, <1>4, <1>5, <1>6, <1>7, <1>8, <1>9, <1>10, <1>11, <1>12, <1>13, <1>14,
     <1>15 DEF Next, Rx

(* A store that leaves the parser inside a frame was either a store on top of
   a reset, or found the parser inside that frame already.                 *)
LEMMA StoreStep ==
  ASSUME NEW after \in State, NEW cur \in State, Shape, MidFrameTimed, Acts(cur), cur # "SOF",
         Store(after), rx'.pc # "start_to", UNCHANGED <<revTimer, mailbox, fsm>>
  PROVE  MidFrameTimed'
<1>1. CASE after = "SOF"
  BY <1>1 DEF Store, MidFrameTimed
<1>2. CASE after # "SOF" /\ state # cur
  BY <1>2 DEF Store, Acts, MidFrameTimed
<1>3. CASE after # "SOF" /\ state = cur
  <2>1. revTimer \/ ToWaits \/ fsm = "init" \/ overwrote
    BY <1>3 DEF Acts, MidFrameTimed
  <2>. QED  BY <1>3, <2>1 DEF Store, MidFrameTimed, ToWaits
<1>. QED  BY <1>1, <1>2, <1>3

(* So does an action of the receive thread that stores nothing. *)
LEMMA KeepStep ==
  ASSUME MidFrameTimed, Keep, rx.pc \notin {"start_to", "post", "reset"},
         UNCHANGED <<revTimer, mailbox, fsm>>
  PROVE  MidFrameTimed'
BY DEF Keep, MidFrameTimed, ToWaits

-----------------------------------------------------------------------------
LEMMA TimedStep == TimedInv /\ [Next]_vars => TimedInv'
<1> SUFFICES ASSUME Shape, MidFrameTimed, [Next]_vars PROVE MidFrameTimed'
  BY ShapeStep DEF TimedInv
<1>1. CASE RxGet \/ LoseByte \/ StartFrame \/ UNCHANGED vars
  BY <1>1 DEF RxGet, LoseByte, StartFrame, vars, MidFrameTimed, ToWaits
<1>2. CASE RxSof
  <2>1. CASE rx'.pc = "start_to"
    BY <2>1 DEF MidFrameTimed
  <2>2. CASE rx'.pc # "start_to"
    <3>1. RxGoto("start_to") => rx'.pc = "start_to"
      BY DEF RxGoto, Shape
    <3>2. Keep /\ rx.pc = "act" /\ UNCHANGED <<revTimer, mailbox, fsm>>
      BY <1>2, <2>2, <3>1 DEF RxSof, Acts, rxFrame
    <3>. QED  BY <3>2, KeepStep
  <2>. QED  BY <2>1, <2>2
<1>3. CASE RxStartTo
  BY <1>3 DEF RxStartTo, MidFrameTimed
<1>4. CASE RxClearTo
  BY <1>4 DEF RxClearTo, RxGoto, Shape, MidFrameTimed
<1>5. CASE RxAddr
  <2>1. PICK cur \in {"DES_ADDR", "SRC_ADDR"} : Acts(cur)
    BY <1>5 DEF RxAddr
  <2>2. rx'.pc = "read" /\ UNCHANGED <<revTimer, mailbox, fsm>>
    BY <1>5 DEF RxAddr, RxGoto, rxFrame, Shape
  <2>3. CASE Keep
    BY <2>1, <2>2, <2>3, KeepStep DEF Acts
  <2>4. CASE Store("SRC_ADDR") \/ Store("TYPE")
    BY <2>1, <2>2, <2>4, StoreStep DEF State
  <2>. QED  BY <1>5, <2>3, <2>4 DEF RxAddr
<1>6. CASE RxField
  <2>1. PICK f \in DOMAIN Following : Acts(f) /\ Store(Following[f])
    BY <1>6 DEF RxField
  <2>2. f \in State /\ f # "SOF" /\ Following[f] \in State
    BY DEF Following, State
  <2>3. rx'.pc = "read" /\ UNCHANGED <<revTimer, mailbox, fsm>>
    BY <1>6 DEF RxField, RxGoto, rxFrame, Shape
  <2>. QED  BY <2>1, <2>2, <2>3, StoreStep
<1>7. CASE RxLen
  <2>1. Acts("LEN") /\ rx'.pc = "read" /\ UNCHANGED <<revTimer, mailbox, fsm>>
    BY <1>7 DEF RxLen, RxGoto, rxFrame, Shape
  <2>2. Store("FCS") \/ Store("SOF")
    BY <1>7 DEF RxLen
  <2>. QED  BY <2>1, <2>2, StoreStep DEF State
<1>8. CASE RxFcs
  <2>1. Acts("FCS") /\ rx'.pc # "start_to" /\ UNCHANGED <<revTimer, mailbox, fsm>>
    BY <1>8 DEF RxFcs, RxGoto, rxFrame, Shape
  <2>2. Store("DATA") \/ Keep
    BY <1>8 DEF RxFcs
  <2>. QED  BY <2>1, <2>2, StoreStep, KeepStep DEF State, Acts
<1>9. CASE RxData
  BY <1>9, KeepStep DEF RxData, rxFrame, Acts
<1>10. CASE RxPost
  BY <1>10 DEF RxPost, RxGoto, Shape, MidFrameTimed
<1>11. CASE RxReset \/ PhyInit \/ PhyRevTo
  BY <1>11 DEF RxReset, PhyInit, PhyRevTo, Store, MidFrameTimed
<1>12. CASE PhyOther
  <2>1. ToWaits => ToWaits' \/ fsm = "init"
    BY <1>12, WaitsInFront DEF PhyOther, Shape
  <2>. QED  BY <1>12, <2>1 DEF PhyOther, MidFrameTimed
<1>13. CASE Expire
  <2>1. mailbox' = Append(mailbox, "FRAME_REV_TO")
    BY <1>13 DEF Expire
  <2>2. mailbox'[Len(mailbox')] = "FRAME_REV_TO" /\ Len(mailbox') \in 1..Len(mailbox')
    BY <2>1 DEF Shape, Signal
  <2>. QED  BY <2>2 DEF MidFrameTimed, ToWaits
<1>. QED
  BY <1>1, <1>2, <1>3, <1>4, <1>5, <1>6, <1>7, <1>8, <1>9, <1>10, <1>11, <1>12, <1>13
     DEF Next, Rx, Phy

(* The parser waits inside a frame only with a timeout to come or a reset that
   was overwritten (FRAME_REV_TO against gw_link_phy_frame_rev_byte).      *)
THEOREM NoEndlessFrame == Spec => []MidFrameTimed
<1>1. TimedInv => MidFrameTimed
  BY DEF TimedInv
<1>. QED  BY TimedInit, TimedStep, <1>1, PTL DEF Spec
-----------------------------------------------------------------------------
(* The types.  The index stays inside the field it runs through: in an address
   it counts down from the last byte, in the data up to their length.  A reset
   by the PHY task does not move it, so that it fits the state which the byte
   in hand was read in, whatever is stored by now.                         *)
IndexFits(s) ==
  /\ s \in {"DES_ADDR", "SRC_ADDR"} => index <= AddrLast
  /\ s = "DATA" => index < len

IndexInField ==
  /\ rx.pc \in {"read", "act", "start_to"} => IndexFits(state)
  /\ rx.pc = "act" => IndexFits(rx.cur) /\ state \in {rx.cur, "SOF"}

ParserTypes == Shape /\ TypeOK /\ IndexInField

LEMMA ParserTypesInit == Init => ParserTypes
<1> SUFFICES ASSUME Init PROVE TypeOK /\ IndexInField
  BY TimedInit DEF ParserTypes, TimedInv
<1>1. Shape /\ 0 \in 0..DataLen /\ Places(0) \in 1..Places(DataLen) /\ Places(DataLen) \in Nat
  BY TimedInit, PlacesBound, DataLenIsNat DEF TimedInv
<1>2. IndexInField
  BY DEF Init, IndexInField, IndexFits
<1>3. /\ 0 \in 0..(IF AddrLast > DataLen THEN AddrLast ELSE DataLen) /\ 0 \in 0..MaxFaults
      /\ 0 \in 0..Places(DataLen)
  BY <1>1, AddrLastIsNat, DataLenIsNat, ParserBounds
<1>4. TypeOK
  BY <1>1, <1>3 DEF Init, TypeOK, Shape, Mixed
<1>. QED  BY <1>2, <1>4

(* What a byte makes of the part of the frame received so far. *)
LEMMA ContinueType ==
  ASSUME Shape, Continue
  PROVE  run' \in [frame : 0..1, place : 0..Places(DataLen)]
<1>1. rx.byte \in Byte /\ Places(DataLen) \in Nat
  BY PlacesBound, DataLenIsNat DEF Shape
<1>2. Mixed \in [frame : 0..1, place : 0..Places(DataLen)]
  BY <1>1 DEF Mixed
<1>3. [frame |-> rx.byte.frame, place |-> rx.byte.place] \in [frame : 0..1, place : 0..Places(DataLen)]
  BY <1>1 DEF Byte
<1>. QED  BY <1>2, <1>3 DEF Continue

LEMMA FaultType ==
  ASSUME faults \in 0..MaxFaults, NEW bad \in BOOLEAN, Fault(bad)
  PROVE  faults' \in 0..MaxFaults /\ (faults' = 0 => faults = 0 /\ ~bad)
  BY ParserBounds DEF Fault

LEMMA ParserTypesStep == ParserTypes /\ [Next]_vars => ParserTypes'
<1> SUFFICES ASSUME ParserTypes, [Next]_vars PROVE TypeOK' /\ IndexInField'
  BY ShapeStep DEF ParserTypes
<1> DEFINE Top == IF AddrLast > DataLen THEN AddrLast ELSE DataLen
           Run == [frame : 0..1, place : 0..Places(DataLen)]
           Peer == [frame : 0..1, len : 0..DataLen, next : 0..Places(DataLen)]
<1>a. /\ Shape /\ Shape' /\ IndexInField
      /\ index \in 0..Top /\ len \in 0..DataLen /\ revTimer \in BOOLEAN /\ fsm \in {"init", "handle"}
      /\ peer \in Peer /\ run \in Run /\ accepted \in 0..1 /\ overwrote \in BOOLEAN
      /\ faults \in 0..MaxFaults /\ dead \in BOOLEAN
  BY ShapeStep DEF ParserTypes, TypeOK
<1>b. /\ rx \in [pc : {"read", "act", "start_to", "clear_to", "post", "reset"}, cur : State, byte : Byte]
      /\ Top \in Nat /\ AddrLast \in 0..Top /\ DataLen \in 0..Top /\ AddrLast \in Nat /\ DataLen \in Nat
      /\ 0 \in 0..Top /\ state \in State
  BY <1>a, AddrLastIsNat, DataLenIsNat DEF Shape
<1>c. TypeOK' <=> /\ index' \in 0..Top /\ len' \in 0..DataLen /\ revTimer' \in BOOLEAN
                  /\ fsm' \in {"init", "handle"} /\ peer' \in Peer /\ run' \in Run
                  /\ accepted' \in 0..1 /\ overwrote' \in BOOLEAN /\ faults' \in 0..MaxFaults
                  /\ dead' \in BOOLEAN
  BY <1>a DEF TypeOK, Shape
<1>d. peer' \in Peer
  <2>1. peer' \in [frame : 0..1, len : 0..DataLen, next : Nat] /\ peer'.next <= Places(peer'.len)
    BY <1>a DEF Shape
  <2>2. peer'.next \in 0..Places(DataLen)
    BY <2>1, PlacesBound
  <2>. QED  BY <2>1, <2>2
<1> HIDE DEF Top, Run, Peer
<1>1. CASE RxGet
  <2>1. PICK ok \in BOOLEAN :
          /\ Fault(~ok)
          /\ rx' = [pc |-> "act", cur |-> state,
                    byte |-> [frame |-> peer.frame, len |-> peer.len, place |-> peer.next, ok |-> ok]]
    BY <1>1 DEF RxGet
  <2>2. TypeOK'
    BY <1>1, <2>1, <1>a, <1>c, <1>d, FaultType DEF RxGet
  <2>3. IndexFits(state) /\ rx'.cur = state /\ UNCHANGED <<state, index, len>>
    BY <1>1, <2>1, <1>a DEF RxGet, IndexInField
  <2>. QED  BY <2>2, <2>3 DEF IndexInField, IndexFits
<1>2. CASE LoseByte \/ StartFrame
  <2>1. faults' \in 0..MaxFaults
    BY <1>2, <1>a, FaultType DEF LoseByte, StartFrame, InTime
  <2>2. UNCHANGED <<state, rx, index, len, revTimer, mailbox, fsm, run, accepted, overwrote, dead>>
    BY <1>2 DEF LoseByte, StartFrame
  <2>3. TypeOK'
    BY <2>1, <2>2, <1>a, <1>c, <1>d
  <2>. QED  BY <2>2, <2>3, <1>a DEF IndexInField, IndexFits
<1>3. CASE Expire
  <2>1. faults' \in 0..MaxFaults
    BY <1>3, <1>a, FaultType DEF Expire
  <2>2. UNCHANGED <<state, rx, index, len, fsm, run, accepted, overwrote, dead>> /\ revTimer' = FALSE
    BY <1>3 DEF Expire
  <2>3. TypeOK'
    BY <2>1, <2>2, <1>a, <1>c, <1>d
  <2>. QED  BY <2>2, <2>3, <1>a DEF IndexInField, IndexFits
<1>4. CASE Phy
  <2>1. /\ UNCHANGED <<rx, index, len, revTimer, run, accepted, faults, dead>>
        /\ fsm' \in {"init", "handle"} /\ overwrote' \in BOOLEAN /\ state' \in {state, "SOF"}
    BY <1>4, <1>a DEF Phy, PhyInit, PhyRevTo, PhyOther
  <2>2. TypeOK'
    BY <2>1, <1>a, <1>c, <1>d
  <2>. QED  BY <2>1, <2>2, <1>a DEF IndexInField, IndexFits
<1>5. CASE RxSof
  <2>1. /\ UNCHANGED <<revTimer, fsm, accepted, faults, len, dead>> /\ overwrote' \in BOOLEAN
        /\ rx.pc = "act" /\ rx.cur = "SOF"
    BY <1>5, <1>a DEF RxSof, rxFrame, Store, Keep, Acts
  <2>2. index' \in {AddrLast, index} /\ index' \in 0..Top
    BY <1>5, <1>a, <1>b DEF RxSof
  <2>3. run' \in Run
    <3>1. rx.byte \in Byte /\ 0..1 # {} /\ Places(DataLen) \in Nat /\ Places(DataLen) >= 1
      BY <1>b, PlacesBound
    <3>2. [frame |-> rx.byte.frame, place |-> 1] \in Run /\ Mixed \in Run
      BY <3>1 DEF Byte, Mixed, Run
    <3>. QED  BY <3>2, <1>5, <1>a DEF RxSof
  <2>4. TypeOK'
    BY <2>1, <2>2, <2>3, <1>a, <1>c, <1>d
  <2>5. IndexFits(state)' /\ rx'.pc # "act"
    <3>1. CASE index' = AddrLast /\ Store("DES_ADDR") /\ RxGoto("start_to")
      BY <3>1, <1>b DEF Store, RxGoto, IndexFits
    <3>2. CASE UNCHANGED index /\ Keep /\ RxGoto("read")
      BY <3>2, <2>1, <1>a, <1>b DEF Keep, RxGoto, IndexFits, IndexInField
    <3>. QED  BY <3>1, <3>2, <1>5 DEF RxSof
  <2>. QED  BY <2>4, <2>5 DEF IndexInField
<1>6. CASE RxStartTo \/ RxClearTo
  <2>1. /\ UNCHANGED <<state, index, len, fsm, run, accepted, faults, dead, overwrote>>
        /\ revTimer' \in BOOLEAN /\ rx'.pc \in {"read", "post"}
        /\ rx'.pc = "read" => rx.pc = "start_to"
    BY <1>6, <1>b DEF RxStartTo, RxClearTo, RxGoto, Keep
  <2>2. TypeOK'
    BY <2>1, <1>a, <1>c, <1>d
  <2>. QED  BY <2>1, <2>2, <1>a DEF IndexInField, IndexFits
<1>7. CASE RxAddr
  <2>1. /\ UNCHANGED <<revTimer, fsm, accepted, faults, len, dead>> /\ overwrote' \in BOOLEAN
        /\ rx.pc = "act" /\ rx.cur \in {"DES_ADDR", "SRC_ADDR"} /\ rx'.pc = "read"
    BY <1>7, <1>a, <1>b DEF RxAddr, rxFrame, Store, Keep, Acts, RxGoto
  <2>2. index <= AddrLast /\ index \in Nat /\ state \in {rx.cur, "SOF"}
    BY <2>1, <1>a, <1>b DEF IndexInField, IndexFits
  <2>3. run' \in Run
    BY <1>7, <1>a, ContinueType DEF RxAddr, Run
  <2>4. index' \in Nat /\ index' <= AddrLast
    BY <1>7, <2>2, <1>b DEF RxAddr
  <2>5. TypeOK'
    BY <2>1, <2>3, <2>4, <1>a, <1>b, <1>c, <1>d
  <2>6. state' # "DATA"
    BY <1>7, <2>1, <2>2 DEF RxAddr, Store, Keep
  <2>. QED  BY <2>1, <2>4, <2>5, <2>6 DEF IndexInField, IndexFits
<1>8. CASE RxField
  <2>1. PICK f \in DOMAIN Following : Acts(f) /\ Store(Following[f])
    BY <1>8 DEF RxField
  <2>2. state' \notin {"DES_ADDR", "SRC_ADDR", "DATA"}
    BY <2>1 DEF Following, Store
  <2>3. /\ UNCHANGED <<revTimer, fsm, accepted, faults, index, len, dead>> /\ overwrote' \in BOOLEAN
        /\ rx'.pc = "read"
    BY <1>8, <2>1, <1>a, <1>b DEF RxField, rxFrame, Store, RxGoto
  <2>4. run' \in Run
    BY <1>8, <1>a, ContinueType DEF RxField, Run
  <2>5. TypeOK'
    BY <2>3, <2>4, <1>a, <1>c, <1>d
  <2>. QED  BY <2>2, <2>3, <2>5 DEF IndexInField, IndexFits
<1>9. CASE RxLen
  <2>1. /\ UNCHANGED <<revTimer, fsm, accepted, faults, index>> /\ overwrote' \in BOOLEAN
        /\ dead' \in BOOLEAN /\ len' \in 0..DataLen
        /\ rx'.pc = "read" /\ state' \notin {"DES_ADDR", "SRC_ADDR", "DATA"}
    BY <1>9, <1>a, <1>b DEF RxLen, rxFrame, Store, RxGoto
  <2>2. run' \in Run
    BY <1>9, <1>a, ContinueType DEF RxLen, Run
  <2>3. TypeOK'
    BY <2>1, <2>2, <1>a, <1>c, <1>d
  <2>. QED  BY <2>1, <2>3 DEF IndexInField, IndexFits
<1>10. CASE RxFcs
  <2>1. /\ UNCHANGED <<revTimer, fsm, accepted, faults, len, dead>> /\ overwrote' \in BOOLEAN
        /\ rx'.pc \in {"read", "clear_to"} /\ index' \in {0, index}
    BY <1>10, <1>a, <1>b DEF RxFcs, rxFrame, Store, Keep, RxGoto
  <2>2. run' \in Run
    BY <1>10, <1>a, ContinueType DEF RxFcs, Run
  <2>3. TypeOK'
    BY <2>1, <2>2, <1>a, <1>b, <1>c, <1>d
  <2>4. rx'.pc = "read" => index' = 0 /\ state' = "DATA" /\ len > 0
    BY <1>10, <1>b DEF RxFcs, RxGoto, Store
  <2>. QED  BY <2>1, <2>3, <2>4 DEF IndexInField, IndexFits
<1>11. CASE RxData
  <2>1. /\ UNCHANGED <<revTimer, fsm, accepted, faults, len, dead, state, overwrote>>
        /\ index' = index + 1 /\ rx.pc = "act" /\ rx.cur = "DATA"
        /\ rx'.pc = IF index' = len THEN "clear_to" ELSE "read"
    BY <1>11, <1>b DEF RxData, rxFrame, Keep, RxGoto, Acts
  <2>2. index < len /\ state \in {"DATA", "SOF"}
    BY <2>1, <1>a DEF IndexInField, IndexFits
  <2>3. index' \in 0..Top /\ index' <= len
    BY <2>1, <2>2, <1>a, <1>b
  <2>4. run' \in Run
    BY <1>11, <1>a, ContinueType DEF RxData, Run
  <2>5. TypeOK'
    BY <2>1, <2>3, <2>4, <1>a, <1>c, <1>d
  <2>6. rx'.pc = "read" => index' < len'
    BY <2>1, <2>3, <1>a, <1>b
  <2>. QED  BY <2>1, <2>2, <2>5, <2>6 DEF IndexInField, IndexFits
<1>12. CASE RxPost
  <2>1. /\ UNCHANGED <<state, overwrote, index, len, revTimer, fsm, run, faults, dead>>
        /\ rx'.pc = "reset" /\ accepted' \in 0..1
    BY <1>12, <1>a, <1>b DEF RxPost, Keep, RxGoto, Run
  <2>2. TypeOK'
    BY <2>1, <1>a, <1>c, <1>d
  <2>. QED  BY <2>1, <2>2 DEF IndexInField
<1>13. CASE RxReset
  <2>1. /\ UNCHANGED <<revTimer, fsm, accepted, faults, index, len, dead>>
        /\ rx'.pc = "read" /\ state' = "SOF" /\ overwrote' \in BOOLEAN /\ run' = Mixed
    BY <1>13, <1>a, <1>b DEF RxReset, rxFrame, Store, RxGoto
  <2>2. Mixed \in Run
    BY PlacesBound, DataLenIsNat DEF Mixed, Run
  <2>3. TypeOK'
    BY <2>1, <2>2, <1>a, <1>c, <1>d
  <2>. QED  BY <2>1, <2>3 DEF IndexInField, IndexFits
<1>14. CASE UNCHANGED vars
  <2>1. TypeOK'
    BY <1>14, <1>a, <1>c, <1>d DEF vars
  <2>. QED  BY <1>14, <2>1, <1>a DEF vars, IndexInField, IndexFits
<1>. QED
  BY <1>1, <1>2, <1>3, <1>4, <1>5, <1>6, <1>7, <1>8, <1>9, <1>10, <1>11, <1>12, <1>13, <1>14
     DEF Next, Rx

(* The parser stores no byte outside the field it belongs to, whatever arrives
   and however resets fall between the read and the store of a state
   (gw_link_phy_frame_rev_byte).                                           *)
THEOREM ParserTypeCorrect == Spec => []TypeOK
<1>1. ParserTypes => TypeOK
  BY DEF ParserTypes
<1>. QED  BY ParserTypesInit, ParserTypesStep, <1>1, PTL DEF Spec

-----------------------------------------------------------------------------
(* The line without faults.  Where the parser stands in a frame is told by its
   state and index, and it is the place of the byte that comes next.       *)
AtPlace(n, s) ==
  IF n = 1 THEN s = "SOF"
  ELSE /\ s # "SOF" /\ PlaceOf(s) = n
       /\ run = [frame |-> peer.frame, place |-> n - 1]
       /\ s \in {"FCS", "DATA"} => len = peer.len

(* The byte in hand is the last one that the peer has sent. *)
ThisByte ==
  /\ rx.byte.frame = peer.frame /\ rx.byte.len = peer.len /\ rx.byte.ok
  /\ rx.byte.place \in 1..Places(peer.len)
  /\ peer.next = (IF rx.byte.place = Places(peer.len) THEN 0 ELSE rx.byte.place + 1)

(* All bytes of a frame have been taken. *)
WholeFrame ==
  ThisByte /\ peer.next = 0 /\ run = [frame |-> peer.frame, place |-> Places(peer.len)]

Quiet ==
  /\ ~dead
  /\ \A i \in 1..Len(mailbox) : mailbox[i] \notin {"FRAME_REV_CS_ERR", "FRAME_REV_TO"}
  /\ fsm = "init" => peer.next = 0 /\ rx.pc = "read"

InStep ==
  /\ rx.pc = "read" /\ peer.next = 0 => state = "SOF" /\ accepted = peer.frame /\ ~revTimer
  /\ rx.pc = "read" /\ peer.next # 0 => AtPlace(peer.next, state)
  /\ rx.pc = "act" => ThisByte /\ rx.cur = state /\ AtPlace(rx.byte.place, rx.cur)
  /\ rx.pc = "start_to" => ThisByte /\ rx.byte.place = 1 /\ AtPlace(2, state)
  /\ rx.pc \in {"clear_to", "post", "reset"} => WholeFrame
  /\ rx.pc \in {"post", "reset"} => ~revTimer
  /\ rx.pc = "reset" => accepted = peer.frame

LosslessInv == ParserTypes /\ (faults = 0 => Quiet /\ InStep)

LEMMA PlaceNumbers ==
  ASSUME NEW l \in 0..DataLen
  PROVE  /\ LenPlace = 2 * AddrLast + 7 /\ LenPlace \in Nat
         /\ Places(l) = LenPlace + 1 + l /\ Places(l) \in Nat /\ Places(l) > 7 /\ l \in Nat
         /\ AddrLast \in Nat
  BY AddrLastIsNat, DataLenIsNat DEF Places, LenPlace

LEMMA LosslessInit == Init => LosslessInv
<1> SUFFICES ASSUME Init PROVE Quiet /\ InStep
  BY ParserTypesInit DEF LosslessInv
<1>. QED  BY DEF Init, Quiet, InStep

(* A byte in its place continues the frame. *)
LEMMA ContinueInStep ==
  ASSUME ParserTypes, rx.cur # "SOF", ThisByte, AtPlace(rx.byte.place, rx.cur), Continue
  PROVE  /\ run' = [frame |-> peer.frame, place |-> rx.byte.place] /\ run' # Mixed
         /\ PlaceOf(rx.cur) = rx.byte.place /\ rx.byte.place # 1
         /\ rx.cur \in {"FCS", "DATA"} => len = peer.len
<1>1. rx.byte.place \in Nat /\ rx.byte.place # 1 /\ rx.byte.place # 0
  <2>1. peer.len \in 0..DataLen
    BY DEF ParserTypes, Shape
  <2>2. Places(peer.len) \in Nat
    BY <2>1, PlaceNumbers
  <2>. QED  BY <2>2 DEF ThisByte, AtPlace
<1>2. /\ run = [frame |-> peer.frame, place |-> rx.byte.place - 1] /\ PlaceOf(rx.cur) = rx.byte.place
      /\ rx.cur \in {"FCS", "DATA"} => len = peer.len
  BY <1>1 DEF AtPlace
<1>3. run # Mixed
  <2>1. run.place # Mixed.place
    BY <1>1, <1>2 DEF Mixed
  <2>. QED  BY <2>1
<1>4. run' = [frame |-> peer.frame, place |-> rx.byte.place]
  BY <1>2, <1>3 DEF Continue, ThisByte
<1>5. run' # Mixed
  <2>1. run'.place # Mixed.place
    BY <1>1, <1>4 DEF Mixed
  <2>. QED  BY <2>1
<1>. QED  BY <1>1, <1>2, <1>4, <1>5

(* The byte was not the last one of its frame: the parser waits for the next. *)
LEMMA NextInStep ==
  ASSUME ParserTypes, Quiet, ThisByte, rx.byte.place # Places(peer.len), fsm = "handle",
         rx'.pc = "read", rx'.byte = rx.byte, UNCHANGED <<mailbox, fsm, peer, dead>>,
         AtPlace(rx.byte.place + 1, state)'
  PROVE  Quiet' /\ InStep'
<1>1. peer'.next = rx.byte.place + 1 /\ rx.byte.place \in Nat
  <2>1. peer.len \in 0..DataLen
    BY DEF ParserTypes, Shape
  <2>2. Places(peer.len) \in Nat
    BY <2>1, PlaceNumbers
  <2>. QED  BY <2>2 DEF ThisByte
<1>2. peer'.next # 0 /\ AtPlace(peer.next, state)'
  BY <1>1
<1>. QED  BY <1>2 DEF Quiet, InStep

LEMMA LosslessStep == LosslessInv /\ [Next]_vars => LosslessInv'
<1> SUFFICES ASSUME LosslessInv, [Next]_vars, faults' = 0 PROVE Quiet' /\ InStep'
  BY ParserTypesStep DEF LosslessInv
<1>a. ParserTypes /\ ParserTypes' /\ faults \in 0..MaxFaults /\ Shape
  BY ParserTypesStep DEF LosslessInv, ParserTypes, TypeOK
<1>b. faults = 0 /\ Quiet /\ InStep
  <2>1. faults = 0
    BY <1>a DEF Next, Rx, Phy, RxGet, RxSof, RxStartTo, RxAddr, RxField, RxLen, RxFcs, RxData,
       RxClearTo, RxPost, RxReset, PhyInit, PhyRevTo, PhyOther, Expire, StartFrame, LoseByte,
       rxFrame, Fault, vars
  <2>. QED  BY <2>1 DEF LosslessInv
<1>c. /\ rx \in [pc : {"read", "act", "start_to", "clear_to", "post", "reset"}, cur : State, byte : Byte]
      /\ state \in State /\ peer \in [frame : 0..1, len : 0..DataLen, next : Nat]
      /\ peer.next <= Places(peer.len) /\ mailbox \in Seq(Signal) /\ index \in Nat /\ len \in Nat
      /\ fsm \in {"init", "handle"}
  BY <1>a, AddrLastIsNat, DataLenIsNat DEF Shape, ParserTypes, TypeOK
<1>d. /\ LenPlace = 2 * AddrLast + 7 /\ LenPlace \in Nat /\ AddrLast \in Nat
      /\ Places(peer.len) = LenPlace + 1 + peer.len /\ Places(peer.len) \in Nat
      /\ Places(peer.len) > 7 /\ peer.len \in Nat
  BY <1>c, PlaceNumbers
<1>1. CASE RxGet
  <2>1. PICK ok \in BOOLEAN :
          /\ Fault(~ok)
          /\ rx' = [pc |-> "act", cur |-> state,
                    byte |-> [frame |-> peer.frame, len |-> peer.len, place |-> peer.next, ok |-> ok]]
    BY <1>1 DEF RxGet
  <2>2. ok
    BY <2>1, <1>a, <1>b DEF Fault
  <2>3. rx.pc = "read" /\ peer.next # 0 /\ peer' = [peer EXCEPT !.next = OnLine]
        /\ UNCHANGED <<state, index, len, revTimer, mailbox, fsm, run, accepted, dead>>
    BY <1>1 DEF RxGet
  <2>4. AtPlace(peer.next, state)
    BY <2>3, <1>b DEF InStep
  <2>5. /\ peer'.frame = peer.frame /\ peer'.len = peer.len
        /\ peer'.next = (IF peer.next = Places(peer.len) THEN 0 ELSE peer.next + 1)
    BY <2>3, <1>c DEF OnLine
  <2>6. /\ rx'.pc = "act" /\ rx'.cur = state /\ rx'.byte.place = peer.next /\ rx'.byte.ok
        /\ rx'.byte.frame = peer.frame /\ rx'.byte.len = peer.len
    BY <2>1, <2>2
  <2>7. peer.next \in 1..Places(peer.len)
    BY <2>3, <1>c, <1>d
  <2>8. ThisByte'
    BY <2>5, <2>6, <2>7 DEF ThisByte
  <2>9. AtPlace(rx.byte.place, rx.cur)'
    BY <2>3, <2>4, <2>5, <2>6 DEF AtPlace, PlaceOf
  <2>10. Quiet'
    BY <2>3, <1>b, <1>c DEF Quiet
  <2>. QED  BY <2>6, <2>8, <2>9, <2>10, <2>3 DEF InStep
<1>2. CASE RxSof
  <2>1. /\ rx.pc = "act" /\ rx.cur = "SOF" /\ ThisByte /\ rx.byte.place = 1 /\ IsSof
        /\ UNCHANGED <<revTimer, mailbox, fsm, peer, accepted, len, dead>>
    BY <1>2, <1>b DEF RxSof, Acts, InStep, AtPlace, rxFrame, IsSof, ThisByte
  <2>2. /\ index' = AddrLast /\ state' = "DES_ADDR" /\ rx' = [rx EXCEPT !.pc = "start_to"]
        /\ run' = [frame |-> peer.frame, place |-> 1]
    BY <1>2, <2>1 DEF RxSof, Store, RxGoto, ThisByte
  <2>3. rx'.pc = "start_to" /\ rx'.byte = rx.byte /\ ThisByte'
    BY <2>1, <2>2, <1>c DEF ThisByte
  <2>4. AtPlace(2, state)'
    BY <2>1, <2>2, <1>d DEF AtPlace, PlaceOf
  <2>5. Quiet'
    BY <2>1, <1>b DEF Quiet
  <2>. QED  BY <2>1, <2>3, <2>4, <2>5 DEF InStep
<1>3. CASE RxStartTo
  <2>1. /\ ThisByte /\ rx.byte.place = 1 /\ AtPlace(2, state) /\ rx'.pc = "read" /\ rx.pc = "start_to"
        /\ rx'.byte = rx.byte
        /\ UNCHANGED <<state, index, len, mailbox, fsm, peer, run, accepted, dead>>
    BY <1>3, <1>b, <1>c DEF RxStartTo, InStep, RxGoto, Keep
  <2>2. AtPlace(rx.byte.place + 1, state)'
    <3>1. AtPlace(2, state)'
      BY <2>1 DEF AtPlace, PlaceOf
    <3>. QED  BY <2>1, <3>1
  <2>3. fsm = "handle" /\ rx.byte.place # Places(peer.len)
    BY <2>1, <1>b, <1>c, <1>d DEF Quiet
  <2>. QED  BY <2>1, <2>2, <2>3, <1>a, <1>b, NextInStep
<1>4. CASE RxAddr \/ RxField \/ RxLen \/ RxFcs \/ RxData
  <2>a. /\ rx.pc = "act" /\ rx.cur # "SOF" /\ rx.cur \in State /\ Continue
        /\ UNCHANGED <<revTimer, mailbox, fsm, peer, accepted>>
    BY <1>4 DEF RxAddr, RxField, RxLen, RxFcs, RxData, Acts, rxFrame, Following, State
  <2>b. ThisByte /\ rx.cur = state /\ AtPlace(rx.byte.place, rx.cur)
    BY <2>a, <1>b DEF InStep
  <2>c. /\ run' = [frame |-> peer.frame, place |-> rx.byte.place] /\ run' # Mixed
        /\ PlaceOf(rx.cur) = rx.byte.place /\ rx.byte.place # 1
        /\ rx.cur \in {"FCS", "DATA"} => len = peer.len
    BY <2>a, <2>b, <1>a, ContinueInStep
  <2>d. fsm = "handle" /\ rx.byte.place \in Nat /\ rx.byte.place >= 1 /\ ~dead /\ IndexFits(rx.cur)
    BY <2>a, <2>b, <1>a, <1>b, <1>c, <1>d DEF Quiet, ThisByte, ParserTypes, IndexInField
  <2> DEFINE n == rx.byte.place
  <2>e. ASSUME n # Places(peer.len), rx'.pc = "read", UNCHANGED dead, state' # "SOF",
               PlaceOf(state)' = n + 1, state' \in {"FCS", "DATA"} => len' = peer.len
        PROVE  Quiet' /\ InStep'
    <3>0. rx'.byte = rx.byte
      BY <1>4, <1>c DEF RxAddr, RxField, RxLen, RxFcs, RxData, RxGoto
    <3>1. AtPlace(rx.byte.place + 1, state)'
      <4>2. n + 1 # 1 /\ (n + 1) - 1 = n
        BY <2>d
      <4>. QED  BY <2>e, <2>a, <2>c, <3>0, <4>2 DEF AtPlace
    <3>. QED  BY <3>0, <3>1, <2>e, <2>a, <2>b, <2>d, <1>a, <1>b, NextInStep
  <2>f. ASSUME n = Places(peer.len), rx'.pc = "clear_to", rx'.byte = rx.byte, UNCHANGED dead
        PROVE  Quiet' /\ InStep'
    <3>1. WholeFrame'
      BY <2>f, <2>a, <2>b, <2>c DEF WholeFrame, ThisByte
    <3>2. Quiet'
      BY <2>f, <2>a, <2>d, <1>b DEF Quiet
    <3>. QED  BY <2>f, <3>1, <3>2 DEF InStep
  <2>1. CASE RxAddr
    <3>1. /\ rx.cur \in {"DES_ADDR", "SRC_ADDR"} /\ rx'.pc = "read" /\ UNCHANGED <<len, dead>>
          /\ index <= AddrLast
      BY <2>1, <2>d, <1>c DEF RxAddr, Acts, RxGoto, IndexFits
    <3>2. /\ rx.cur = "DES_ADDR" => n = 2 + AddrLast - index
          /\ rx.cur = "SRC_ADDR" => n = 3 + 2 * AddrLast - index
          /\ n # Places(peer.len)
      <4>1. /\ rx.cur = "DES_ADDR" => n = 2 + AddrLast - index
            /\ rx.cur = "SRC_ADDR" => n = 3 + 2 * AddrLast - index
        BY <2>c DEF PlaceOf
      <4>. QED  BY <3>1, <4>1, <1>c, <1>d
    <3>3. CASE index = 0 /\ rx.cur = "DES_ADDR"
      <4>1. index' = AddrLast /\ state' = "SRC_ADDR"
        BY <3>3, <2>1 DEF RxAddr, Store
      <4>2. PlaceOf(state)' = n + 1
        BY <4>1, <3>2, <3>3, <1>d DEF PlaceOf
      <4>. QED  BY <2>e, <3>1, <3>2, <4>1, <4>2
    <3>4. CASE index = 0 /\ rx.cur = "SRC_ADDR"
      <4>1. state' = "TYPE"
        BY <3>4, <2>1 DEF RxAddr, Store
      <4>2. PlaceOf(state)' = n + 1
        BY <4>1, <3>2, <3>4, <1>d DEF PlaceOf
      <4>. QED  BY <2>e, <3>1, <3>2, <4>1, <4>2
    <3>5. CASE index # 0
      <4>1. state' = rx.cur /\ index' = index - 1
        BY <3>5, <2>1, <2>b DEF RxAddr, Keep
      <4>2. /\ rx.cur = "DES_ADDR" => PlaceOf(state)' = 2 + AddrLast - (index - 1)
            /\ rx.cur = "SRC_ADDR" => PlaceOf(state)' = 3 + 2 * AddrLast - (index - 1)
        BY <4>1 DEF PlaceOf
      <4>3. PlaceOf(state)' = n + 1
        BY <4>2, <3>1, <3>2, <1>c, <1>d
      <4>. QED  BY <2>e, <3>1, <3>2, <4>1, <4>3
    <3>. QED  BY <3>1, <3>3, <3>4, <3>5
  <2>2. CASE RxField
    <3>1. PICK f \in {"TYPE", "SUB_TYPE", "SEQ_NUM"} : rx.cur = f /\ state' = Following[f]
      BY <2>2 DEF RxField, Acts, Store, Following
    <3>2. rx'.pc = "read" /\ UNCHANGED <<len, dead, index>>
      BY <2>2, <1>c DEF RxField, RxGoto
    <3>3. n # Places(peer.len) /\ PlaceOf(state)' = n + 1
          /\ state' \in {"SUB_TYPE", "SEQ_NUM", "LEN"}
      BY <3>1, <2>c, <1>d DEF PlaceOf, Following
    <3>. QED  BY <2>e, <3>2, <3>3
  <2>3. CASE RxLen
    <3>1. rx.cur = "LEN" /\ rx'.pc = "read" /\ n = LenPlace
      BY <2>3, <2>c, <1>c DEF RxLen, Acts, RxGoto, PlaceOf
    <3>2. state' = "FCS" /\ len' = peer.len /\ dead' = dead
      BY <2>3, <2>b, <2>c DEF RxLen, Store, ThisByte
    <3>3. n # Places(peer.len) /\ PlaceOf(state)' = n + 1
      BY <3>1, <3>2, <1>d DEF PlaceOf
    <3>. QED  BY <2>e, <3>1, <3>2, <3>3
  <2>4. CASE RxFcs
    <3>1. rx.cur = "FCS" /\ n = LenPlace + 1 /\ len = peer.len /\ UNCHANGED <<len, dead>>
      BY <2>4, <2>c DEF RxFcs, Acts, PlaceOf
    <3>2. CASE len > 0
      <4>1. index' = 0 /\ state' = "DATA" /\ rx'.pc = "read"
        BY <2>4, <3>2, <1>c DEF RxFcs, Store, RxGoto
      <4>2. n # Places(peer.len) /\ PlaceOf(state)' = n + 1
        BY <3>1, <3>2, <4>1, <1>d DEF PlaceOf
      <4>. QED  BY <2>e, <3>1, <4>1, <4>2
    <3>3. CASE ~(len > 0)
      <4>1. rx'.pc = "clear_to" /\ rx'.byte = rx.byte
        BY <2>4, <3>3, <1>c DEF RxFcs, RxGoto
      <4>2. n = Places(peer.len)
        BY <3>1, <3>3, <1>d
      <4>. QED  BY <2>f, <3>1, <4>1, <4>2
    <3>. QED  BY <3>2, <3>3
  <2>5. CASE RxData
    <3>1. /\ rx.cur = "DATA" /\ n = LenPlace + 2 + index /\ len = peer.len /\ UNCHANGED <<len, dead>>
          /\ index' = index + 1 /\ state' = "DATA"
          /\ rx' = [rx EXCEPT !.pc = IF index' = len THEN "clear_to" ELSE "read"]
      BY <2>5, <2>b, <2>c DEF RxData, Acts, PlaceOf, Keep, RxGoto
    <3>2. CASE index' = len
      <4>1. rx'.pc = "clear_to" /\ rx'.byte = rx.byte
        BY <3>1, <3>2, <1>c
      <4>2. n = Places(peer.len)
        BY <3>1, <3>2, <1>c, <1>d
      <4>. QED  BY <2>f, <3>1, <4>1, <4>2
    <3>3. CASE index' # len
      <4>1. rx'.pc = "read"
        BY <3>1, <3>3, <1>c
      <4>2. n # Places(peer.len)
        <5>1. index + 1 # peer.len /\ n = LenPlace + 2 + index
          BY <3>1, <3>3
        <5>2. /\ Places(peer.len) = LenPlace + 1 + peer.len /\ LenPlace \in Nat
              /\ peer.len \in Nat /\ index \in Nat
          BY <1>c, <1>d
        <5>. QED  BY ONLY <5>1, <5>2
      <4>3. PlaceOf(state)' = n + 1
        BY <3>1, <1>c, <1>d DEF PlaceOf
      <4>. QED  BY <2>e, <3>1, <4>1, <4>2, <4>3
    <3>. QED  BY <3>2, <3>3
  <2>. QED  BY <1>4, <2>1, <2>2, <2>3, <2>4, <2>5
<1>5. CASE RxClearTo
  <2>1. /\ WholeFrame /\ rx'.pc = "post" /\ rx'.byte = rx.byte /\ ~revTimer' /\ rx.pc = "clear_to"
        /\ UNCHANGED <<mailbox, fsm, peer, run, accepted, dead>>
    BY <1>5, <1>b, <1>c DEF RxClearTo, InStep, RxGoto
  <2>2. WholeFrame' /\ Quiet'
    BY <2>1, <1>b DEF WholeFrame, ThisByte, Quiet
  <2>. QED  BY <2>1, <2>2 DEF InStep
<1>6. CASE RxPost
  <2>1. /\ WholeFrame /\ rx'.pc = "reset" /\ rx'.byte = rx.byte /\ rx.pc = "post"
        /\ ~revTimer /\ UNCHANGED <<revTimer, fsm, peer, run, dead>>
    BY <1>6, <1>b, <1>c DEF RxPost, InStep, RxGoto
  <2>2. run # Mixed /\ fsm = "handle" /\ run.frame = peer.frame
    <3>1. run.place # Mixed.place /\ run.frame = peer.frame
      BY <2>1, <1>d DEF WholeFrame, Mixed
    <3>. QED  BY <3>1, <2>1, <1>b, <1>c DEF Quiet
  <2>3. mailbox' = Append(mailbox, "FRAME_REV") /\ accepted' = peer.frame
    BY <1>6, <2>2 DEF RxPost
  <2>4. \A i \in 1..Len(mailbox') : mailbox'[i] = "FRAME_REV" \/ (i \in 1..Len(mailbox) /\ mailbox'[i] = mailbox[i])
    BY <2>3, <1>c
  <2>5. Quiet' /\ WholeFrame'
    BY <2>1, <2>2, <2>4, <1>b DEF Quiet, WholeFrame, ThisByte
  <2>. QED  BY <2>1, <2>3, <2>5 DEF InStep
<1>7. CASE RxReset
  <2>1. /\ WholeFrame /\ rx'.pc = "read" /\ state' = "SOF" /\ rx.pc = "reset"
        /\ ~revTimer /\ accepted = peer.frame
        /\ UNCHANGED <<revTimer, mailbox, fsm, peer, accepted, dead>>
    BY <1>7, <1>b, <1>c DEF RxReset, InStep, RxGoto, Store, rxFrame
  <2>2. peer'.next = 0 /\ Quiet'
    BY <2>1, <1>b DEF WholeFrame, Quiet
  <2>. QED  BY <2>1, <2>2 DEF InStep
<1>8. CASE Phy
  <2>1. mailbox # <<>> /\ mailbox' = Tail(mailbox) /\ UNCHANGED <<rx, index, len, revTimer, peer, run, accepted, dead>>
        /\ fsm' \in {fsm, "handle"}
    BY <1>8 DEF Phy, PhyInit, PhyRevTo, PhyOther
  <2>2. \A i \in 1..Len(mailbox') : i + 1 \in 1..Len(mailbox) /\ mailbox'[i] = mailbox[i + 1]
    BY <2>1, <1>c
  <2>3. Quiet'
    BY <2>1, <2>2, <1>b, <1>c DEF Quiet
  <2>4. UNCHANGED state
    <3>1. ~PhyRevTo
      <4>1. 1 \in 1..Len(mailbox) /\ Head(mailbox) = mailbox[1]
        BY <2>1, <1>c
      <4>. QED  BY <4>1, <1>b DEF PhyRevTo, Quiet
    <3>2. PhyInit => state = "SOF" /\ state' = "SOF"
      BY <1>b DEF PhyInit, Quiet, InStep
    <3>. QED  BY <1>8, <3>1, <3>2 DEF Phy, PhyOther
  <2>. QED
    BY <2>1, <2>3, <2>4, <1>b DEF InStep, AtPlace, PlaceOf, ThisByte, WholeFrame
<1>9. CASE Expire
  <2>1. revTimer /\ peer.next = 0 /\ rx.pc = "read"
    BY <1>9, <1>a, <1>b, <1>c DEF Expire, Fault
  <2>. QED  BY <2>1, <1>b DEF InStep
<1>10. CASE StartFrame
  <2>1. InTime /\ peer.next = 0 /\ UNCHANGED <<state, rx, revTimer, mailbox, fsm, run, accepted, dead>>
    BY <1>10, <1>a, <1>b DEF StartFrame, Fault
  <2>2. PICK l \in 0..DataLen : peer' = [frame |-> 1 - peer.frame, len |-> l, next |-> 1]
    BY <1>10 DEF StartFrame
  <2>3. rx.pc = "read" /\ fsm = "handle" /\ state = "SOF"
    BY <2>1, <1>b DEF InTime, InStep
  <2>4. peer'.next = 1 /\ Quiet'
    BY <2>1, <2>2, <2>3, <1>b DEF Quiet
  <2>. QED  BY <2>1, <2>3, <2>4 DEF InStep, AtPlace
<1>11. CASE LoseByte
  BY <1>11, <1>a, <1>b DEF LoseByte, Fault
<1>12. CASE UNCHANGED vars
  BY <1>12, <1>b DEF vars, Quiet, InStep, AtPlace, PlaceOf, ThisByte, WholeFrame
<1>. QED
  BY <1>1, <1>2, <1>3, <1>4, <1>5, <1>6, <1>7, <1>8, <1>9, <1>10, <1>11, <1>12 DEF Next, Rx

(* On a line that loses nothing every frame is accepted, none is taken for
   garbled and none is reset by the timeout of an earlier one, for addresses
   and data of every length (gw_link_phy_frame_rev_byte).                  *)
THEOREM ParserLossless == Spec => []Lossless
<1>1. LosslessInv => Lossless
  BY DEF LosslessInv, Lossless, Quiet, InStep
<1>. QED  BY LosslessInit, LosslessStep, <1>1, PTL DEF Spec

-----------------------------------------------------------------------------
(* The USB stick.  The inductive invariant UsbInv says of the bytes that wait
   how far the parser may read past them, and of each frame that is due that
   it is posted, is being read, or lies where the parser will look for it.

   The bytes that the parser has not looked at, and how many of them it will
   take, come what may, before it looks for a start of frame again.        *)
Octet == [of : Nat, len : 1..IFCPU_DATA_SIZE, place : Nat]
Pending == chunk \o stream
Debt(st, fr) == IF st = "DATA" THEN fr.len - Len(fr.data) + 1 ELSE IF st = "FCS" THEN 1 ELSE 0

UsbTypes ==
  /\ stream \in Seq(Octet) /\ chunk \in Seq(Octet) /\ Len(chunk) <= MaxChunk
  /\ rx_frame_state \in {"SOP", "LEN", "DATA", "FCS"}
  /\ frame \in [len : 0..IFCPU_DATA_SIZE, data : Seq(Octet)]
  /\ rx_frame_state = "DATA" => Len(frame.data) < frame.len \/ (frame.len = 0 /\ Len(frame.data) = 0)
  /\ posted \in Seq(Nat) /\ written \in Nat /\ clean \in Nat /\ due \subseteq Nat

(* They are in the order of the frames, and what was posted lies before them. *)
After(b, c) == b.of < c.of \/ (b.of = c.of /\ b.len = c.len /\ b.place < c.place)

Sorted(s, ps, w) ==
  /\ \A i \in 1..Len(s) : s[i].of <= w /\ s[i].place <= s[i].len + 2
  /\ \A i, j \in 1..Len(s) : i < j => After(s[i], s[j])
  /\ \A i \in 1..Len(s), j \in 1..Len(ps) : ps[j] < s[i].of
  /\ \A i \in 1..Len(ps) : ps[i] <= w
  /\ \A i, j \in 1..Len(ps) : i < j => ps[i] < ps[j]

(* The byte at place i may be read as a length though it is none: the length of a frame is lost. *)
Misread(s, st, i) == s[i].place # 1 /\ IF i = 1 THEN st = "LEN" ELSE s[i - 1].place = 0

(* What the parser can take beyond the last byte written, and beyond the last damaged frame. *)
Ends(s, st, db, cl) ==
  /\ \A i \in 1..Len(s) : s[i].place = 0 => i < Len(s)
  /\ \A i \in 1..Len(s) : s[i].place = 1 => i + s[i].len + 1 <= Len(s) \/ i + cl <= Len(s)
  /\ \A i \in 1..Len(s) : Misread(s, st, i) => i + cl <= Len(s)
  /\ st = "LEN" => Len(s) >= 1
  /\ db > Len(s) => db - Len(s) + cl <= IFCPU_DATA_SIZE + 1

(* The bytes of frame f, from place k on, are those from i on. *)
Lies(s, i, f, n, k) ==
  /\ i + n + 2 - k <= Len(s)
  /\ \A j \in k .. n + 2 : s[i + (j - k)] = UsbByte(f, n, j)

(* The parser is in step again before it comes to the byte at place p. *)
Room(s, st, db, p) ==
  /\ \A i \in 1 .. p - 1 : s[i].place = 0 => i + 1 < p
  /\ \A i \in 1 .. p - 1 : s[i].place = 1 => i + s[i].len + 1 < p
  /\ \A i \in 1 .. p - 1 : Misread(s, st, i) => i + Recovery < p
  /\ db < p /\ (st = "LEN" => p > 1)

Ahead(s, st, db, f) ==
  \E n \in 1..IFCPU_DATA_SIZE : \E p \in 1..Len(s) : Lies(s, p, f, n, 0) /\ Room(s, st, db, p)

(* The parser is inside frame f, of whose bytes it has those before place k. *)
Inside(st, fr, f, n, k) ==
  \/ st = "LEN" /\ k = 1
  \/ /\ st = "DATA" /\ fr.len = n /\ k = Len(fr.data) + 2 /\ Len(fr.data) < n
     /\ \A j \in 1..Len(fr.data) : fr.data[j] = UsbByte(f, n, j + 1)
  \/ /\ st = "FCS" /\ fr.len = n /\ k = n + 2 /\ Len(fr.data) = n
     /\ \A j \in 1..n : fr.data[j] = UsbByte(f, n, j + 1)

Reading(s, st, fr, f) ==
  \E n \in 1..IFCPU_DATA_SIZE : \E k \in 1 .. n + 2 : Lies(s, 1, f, n, k) /\ Inside(st, fr, f, n, k)

Owed(s, st, fr, ps, f) ==
  (\E i \in 1..Len(ps) : ps[i] = f) \/ Reading(s, st, fr, f) \/ Ahead(s, st, Debt(st, fr), f)

UsbInv == /\ UsbTypes
          /\ Sorted(Pending, posted, written)
          /\ Ends(Pending, rx_frame_state, Debt(rx_frame_state, frame), clean)
          /\ \A f \in due : Owed(Pending, rx_frame_state, frame, posted, f)

-----------------------------------------------------------------------------
(* The reader takes k bytes. *)
Shorter(s, s2, k) ==
  /\ s \in Seq(Octet) /\ s2 \in Seq(Octet) /\ k \in Nat /\ k <= Len(s) /\ Len(s2) = Len(s) - k
  /\ \A i \in 1..Len(s2) : s2[i] = s[i + k]

LEMMA OctetIs ==
  /\ \A b \in Octet : b.of \in Nat /\ b.len \in 1..IFCPU_DATA_SIZE /\ b.place \in Nat
  /\ IFCPU_DATA_SIZE \in Nat /\ MaxChunk \in Nat
  /\ Recovery \in Int /\ Recovery >= IFCPU_DATA_SIZE + 1 /\ Recovery >= MaxChunk - 1
  BY UsbBounds DEF Octet, Recovery

Dropped(c, k, c2) == c2 = SubSeq(c, k + 1, Len(c))

LEMMA ShorterIs ==
  ASSUME NEW s, NEW s2, NEW k, Shorter(s, s2, k)
  PROVE  /\ Len(s) \in Nat /\ Len(s2) \in Nat /\ k \in Nat /\ Len(s2) = Len(s) - k
         /\ \A i \in 1..Len(s2) : /\ i + k \in 1..Len(s) /\ s2[i] = s[i + k] /\ s2[i] \in Octet
                                 /\ s2[i].len \in Nat
<1>1. /\ Len(s) \in Nat /\ Len(s2) \in Nat /\ k \in Nat /\ Len(s2) = Len(s) - k
      /\ \A i \in 1..Len(s2) : i + k \in 1..Len(s) /\ s2[i] = s[i + k] /\ s2[i] \in Octet
  BY DEF Shorter
<1>2. \A b \in Octet : b.len \in 1..IFCPU_DATA_SIZE
  BY OctetIs
<1>3. IFCPU_DATA_SIZE \in Nat
  BY OctetIs
<1>4. ASSUME NEW i \in 1..Len(s2) PROVE s2[i].len \in Nat
  BY <1>1, <1>2, <1>3
<1>. QED  BY <1>1, <1>4

LEMMA DroppedShorter ==
  ASSUME NEW c \in Seq(Octet), NEW r \in Seq(Octet), NEW k \in Nat, k <= Len(c),
         NEW c2, Dropped(c, k, c2)
  PROVE  /\ Shorter(c \o r, c2 \o r, k) /\ c2 \in Seq(Octet) /\ Len(c2) = Len(c) - k
<1>1. /\ Len(c) \in Nat /\ Len(r) \in Nat
      /\ \A i \in k + 1 .. Len(c) : c[i] \in Octet
  OBVIOUS
<1>2. /\ c2 \in Seq(Octet) /\ Len(c2) = Len(c) - k
      /\ \A i \in 1 .. Len(c) - k : c2[i] = c[i + k]
  <2>1. /\ c2 \in Seq(Octet)
        /\ Len(c2) = IF k + 1 <= Len(c) THEN Len(c) - (k + 1) + 1 ELSE 0
        /\ \A i \in 1 .. Len(c) - (k + 1) + 1 : c2[i] = c[(k + 1) + i - 1]
    BY <1>1, SubSeqProperties DEF Dropped
  <2>. QED  BY <1>1, <2>1
<1>3. /\ c \o r \in Seq(Octet) /\ Len(c \o r) = Len(c) + Len(r)
      /\ \A i \in 1 .. Len(c) + Len(r) : (c \o r)[i] = IF i <= Len(c) THEN c[i] ELSE r[i - Len(c)]
  BY ConcatProperties
<1>4. /\ c2 \o r \in Seq(Octet) /\ Len(c2 \o r) = Len(c2) + Len(r)
      /\ \A i \in 1 .. Len(c2) + Len(r) : (c2 \o r)[i] = IF i <= Len(c2) THEN c2[i] ELSE r[i - Len(c2)]
  BY <1>2, ConcatProperties
<1>5. ASSUME NEW i \in 1..Len(c2 \o r) PROVE (c2 \o r)[i] = (c \o r)[i + k]
  <2>1. /\ i \in 1 .. Len(c2) + Len(r) /\ i + k \in 1 .. Len(c) + Len(r)
        /\ i <= Len(c2) <=> i + k <= Len(c)
        /\ i - Len(c2) = i + k - Len(c)
    <3>1. /\ Len(c) \in Nat /\ Len(r) \in Nat /\ k \in Nat /\ k <= Len(c) /\ Len(c2) = Len(c) - k
          /\ i \in 1 .. Len(c2) + Len(r)
      BY <1>1, <1>2, <1>4
    <3>. QED  BY ONLY <3>1
  <2>2. /\ (c2 \o r)[i] = IF i <= Len(c2) THEN c2[i] ELSE r[i - Len(c2)]
        /\ (c \o r)[i + k] = IF i + k <= Len(c) THEN c[i + k] ELSE r[i + k - Len(c)]
    BY <1>3, <1>4, <2>1
  <2>3. i <= Len(c2) => c2[i] = c[i + k]
    BY <1>1, <1>2, <2>1
  <2>. QED  BY ONLY <2>1, <2>2, <2>3
<1>6. k <= Len(c \o r) /\ Len(c2 \o r) = Len(c \o r) - k
  BY ONLY k \in Nat, k <= Len(c), <1>1, <1>2, <1>3, <1>4
<1>. QED  BY <1>2, <1>3, <1>4, <1>5, <1>6 DEF Shorter

LEMMA TakenShorter ==
  ASSUME NEW c \in Seq(Octet), NEW r \in Seq(Octet), c # <<>>, NEW c2, c2 = Tail(c)
  PROVE  /\ Shorter(c \o r, c2 \o r, 1) /\ c2 \in Seq(Octet) /\ Len(c2) = Len(c) - 1
         /\ (c \o r)[1] = Head(c) /\ Head(c) \in Octet /\ 1 \in 1..Len(c \o r)
<1>1. Dropped(c, 1, c2) /\ Len(c) \in Nat /\ Len(c) >= 1
  BY TailIsSubSeq DEF Dropped
<1>2. Head(c) = c[1] /\ Head(c) \in Octet
  BY <1>1
<1>3. (c \o r)[1] = c[1] /\ 1 \in 1..Len(c \o r)
  BY <1>1, ConcatProperties
<1>. QED  BY <1>1, <1>2, <1>3, DroppedShorter

LEMMA SortedShorter ==
  ASSUME NEW s, NEW s2, NEW k, Shorter(s, s2, k), NEW ps, NEW w, Sorted(s, ps, w)
  PROVE  Sorted(s2, ps, w)
<1>1. /\ \A i \in 1..Len(s2) : i + k \in 1..Len(s) /\ s2[i] = s[i + k]
      /\ \A i, j \in 1..Len(s2) : i < j => i + k < j + k
  BY DEF Shorter
<1>. QED  BY <1>1 DEF Sorted

(* The frame whose last byte is the next one is posted. *)
LEMMA SortedPosted ==
  ASSUME NEW s, NEW s2, Shorter(s, s2, 1), NEW ps \in Seq(Nat), NEW w, Sorted(s, ps, w),
         s[1].place = s[1].len + 2
  PROVE  Sorted(s2, Append(ps, s[1].of), w)
<1>1. /\ 1 \in 1..Len(s) /\ s[1] \in Octet /\ \A i \in 1..Len(s2) : s2[i] \in Octet
      /\ \A i \in 1..Len(s2) : i + 1 \in 1..Len(s) /\ s2[i] = s[i + 1] /\ 1 < i + 1
  BY DEF Shorter
<1>2. ASSUME NEW i \in 1..Len(s2) PROVE s[1].of < s2[i].of
  <2>1. After(s[1], s2[i]) /\ s2[i].place <= s2[i].len + 2
    BY <1>1 DEF Sorted
  <2>2. /\ s[1].len \in Nat /\ s2[i].len \in Nat /\ s[1].place \in Nat /\ s2[i].place \in Nat
    <3>1. s[1] \in Octet /\ s2[i] \in Octet
      BY <1>1
    <3>2. s[1].len \in 1..IFCPU_DATA_SIZE /\ s2[i].len \in 1..IFCPU_DATA_SIZE /\ IFCPU_DATA_SIZE \in Nat
      BY <3>1, OctetIs
    <3>3. s[1].place \in Nat /\ s2[i].place \in Nat
      BY <3>1, OctetIs
    <3>. QED  BY ONLY <3>2, <3>3
  <2>3. /\ s[1].of < s2[i].of \/ (s[1].of = s2[i].of /\ s[1].len = s2[i].len /\ s[1].place < s2[i].place)
        /\ s[1].place = s[1].len + 2
    BY <2>1 DEF After
  <2>. QED  BY ONLY <2>1, <2>2, <2>3
<1>3. Sorted(s2, ps, w)
  BY SortedShorter
<1>4. s[1].of <= w /\ \A j \in 1..Len(ps) : ps[j] < s[1].of
  BY <1>1 DEF Sorted
<1> DEFINE q == Append(ps, s[1].of)
<1>5. /\ Len(ps) \in Nat /\ Len(q) = Len(ps) + 1 /\ q[Len(ps) + 1] = s[1].of
      /\ \A j \in 1..Len(ps) : q[j] = ps[j]
      /\ \A j \in 1..Len(q) : j \in 1..Len(ps) \/ j = Len(ps) + 1
  BY <1>1, OctetIs
<1> HIDE DEF q
<1>6. ASSUME NEW i \in 1..Len(s2), NEW j \in 1..Len(q) PROVE q[j] < s2[i].of
  BY <1>2, <1>3, <1>5 DEF Sorted
<1>7. ASSUME NEW i \in 1..Len(q), NEW j \in 1..Len(q) PROVE q[i] <= w /\ (i < j => q[i] < q[j])
  <2>1. CASE i \in 1..Len(ps) /\ j \in 1..Len(ps)
    BY <1>3, <1>5, <2>1 DEF Sorted
  <2>2. CASE i \in 1..Len(ps) /\ j = Len(ps) + 1
    BY <1>3, <1>4, <1>5, <2>2 DEF Sorted
  <2>3. CASE i = Len(ps) + 1
    BY <1>4, <1>5, <2>3
  <2>. QED  BY <1>5, <2>1, <2>2, <2>3
<1>8. /\ \A i \in 1..Len(s2) : s2[i].of <= w /\ s2[i].place <= s2[i].len + 2
      /\ \A i, j \in 1..Len(s2) : i < j => After(s2[i], s2[j])
  BY <1>3 DEF Sorted
<1>9. Sorted(s2, q, w)
  BY <1>6, <1>7, <1>8 DEF Sorted
<1>. QED  BY <1>9 DEF q

(* A byte read as a length was so before the bytes in front of it were taken. *)
LEMMA MisreadShorter ==
  ASSUME NEW s, NEW s2, NEW k, Shorter(s, s2, k), NEW st, NEW st2,
         st2 = "LEN" => (k = 1 /\ s[1].place = 0) \/ (k = 0 /\ st = "LEN"),
         NEW i \in 1..Len(s2), Misread(s2, st2, i)
  PROVE  Misread(s, st, i + k)
<1>1. /\ Len(s) \in Nat /\ Len(s2) \in Nat /\ k \in Nat /\ Len(s2) = Len(s) - k
      /\ \A j \in 1..Len(s2) : j + k \in 1..Len(s) /\ s2[j] = s[j + k]
  BY DEF Shorter
<1>2. CASE i = 1
  <2>1. s2[1].place # 1 /\ st2 = "LEN" /\ s2[1] = s[1 + k]
    BY <1>1, <1>2 DEF Misread
  <2>2. CASE k = 1 /\ s[1].place = 0
    BY <1>2, <2>1, <2>2 DEF Misread
  <2>3. CASE k = 0 /\ st = "LEN"
    BY <1>2, <2>1, <2>3 DEF Misread
  <2>. QED  BY <2>1, <2>2, <2>3
<1>3. CASE i # 1
  <2>1. i - 1 \in 1..Len(s2) /\ (i - 1) + k = (i + k) - 1 /\ i + k # 1
    BY <1>1, <1>3
  <2>2. s2[i - 1] = s[(i + k) - 1]
    BY <1>1, <2>1
  <2>. QED  BY <1>1, <1>3, <2>1, <2>2 DEF Misread
<1>. QED  BY <1>2, <1>3

LEMMA EndsShorter ==
  ASSUME NEW s, NEW s2, NEW k, Shorter(s, s2, k), NEW st, NEW db \in Int, NEW cl \in Nat, Ends(s, st, db, cl),
         NEW st2, NEW db2 \in Int,
         st2 = "LEN" => (k = 1 /\ s[1].place = 0) \/ (k = 0 /\ st = "LEN"),
         db2 > Len(s2) => db2 - Len(s2) + cl <= IFCPU_DATA_SIZE + 1
  PROVE  Ends(s2, st2, db2, cl)
<1>1. /\ Len(s) \in Nat /\ Len(s2) \in Nat /\ k \in Nat /\ Len(s2) = Len(s) - k
      /\ \A i \in 1..Len(s2) : /\ i + k \in 1..Len(s) /\ s2[i] = s[i + k] /\ s2[i] \in Octet
                              /\ s2[i].len \in Nat
  BY ShorterIs
<1>2. ASSUME NEW i \in 1..Len(s2)
      PROVE  /\ s2[i].place = 0 => i < Len(s2)
             /\ s2[i].place = 1 => i + s2[i].len + 1 <= Len(s2) \/ i + cl <= Len(s2)
             /\ Misread(s2, st2, i) => i + cl <= Len(s2)
  <2>1. PICK q \in 1..Len(s) : q = i + k
    BY <1>1
  <2>2. /\ s[q].place = 0 => q < Len(s)
        /\ s[q].place = 1 => q + s[q].len + 1 <= Len(s) \/ q + cl <= Len(s)
        /\ Misread(s, st, q) => q + cl <= Len(s)
    BY DEF Ends
  <2>3. s2[i] = s[q] /\ s2[i].len \in Nat
    BY <1>1, <2>1
  <2>4. Misread(s2, st2, i) => Misread(s, st, q)
    BY <2>1, MisreadShorter
  <2>. QED  BY <1>1, <2>1, <2>2, <2>3, <2>4
<1>3. st2 = "LEN" => Len(s2) >= 1
  <2>1. CASE k = 1 /\ s[1].place = 0
    <3>1. PICK q \in 1..Len(s) : q = 1
      BY <2>1 DEF Shorter
    <3>2. s[q].place = 0 => q < Len(s)
      BY DEF Ends
    <3>. QED  BY <1>1, <2>1, <3>1, <3>2
  <2>2. CASE k = 0 /\ st = "LEN"
    BY <1>1, <2>2 DEF Ends
  <2>. QED  BY <2>1, <2>2
<1>. QED  BY <1>2, <1>3 DEF Ends

LEMMA RoomShorter ==
  ASSUME NEW s, NEW s2, NEW k, Shorter(s, s2, k), NEW st, NEW db, NEW st2, NEW db2,
         st2 = "LEN" => (k = 1 /\ s[1].place = 0) \/ (k = 0 /\ st = "LEN"),
         NEW p \in 1..Len(s), Room(s, st, db, p), NEW p2 \in 1..Len(s2), p2 = p - k,
         db2 < p2, st2 = "LEN" => p2 > 1
  PROVE  Room(s2, st2, db2, p2)
<1>1. /\ Len(s) \in Nat /\ Len(s2) \in Nat /\ k \in Nat /\ Len(s2) = Len(s) - k
      /\ \A i \in 1..Len(s2) : /\ i + k \in 1..Len(s) /\ s2[i] = s[i + k] /\ s2[i] \in Octet
                              /\ s2[i].len \in Nat
  BY ShorterIs
<1>5. Recovery \in Int
  BY OctetIs
<1>2. ASSUME NEW i \in 1 .. p2 - 1
      PROVE  /\ s2[i].place = 0 => i + 1 < p2
             /\ s2[i].place = 1 => i + s2[i].len + 1 < p2
             /\ Misread(s2, st2, i) => i + Recovery < p2
  <2>1. i \in 1..Len(s2) /\ i + k \in 1 .. p - 1
    BY <1>1
  <2>2. PICK q \in 1 .. p - 1 : q = i + k
    BY <2>1
  <2>3. /\ s[q].place = 0 => q + 1 < p
        /\ s[q].place = 1 => q + s[q].len + 1 < p
        /\ Misread(s, st, q) => q + Recovery < p
    BY DEF Room
  <2>4. s2[i] = s[q] /\ s2[i].len \in Nat
    BY <1>1, <2>1, <2>2
  <2>5. Misread(s2, st2, i) => Misread(s, st, q)
    BY <2>1, <2>2, MisreadShorter
  <2>. QED  BY <1>1, <1>5, <2>2, <2>3, <2>4, <2>5
<1>. QED  BY <1>2 DEF Room

LEMMA LiesShorter ==
  ASSUME NEW s, NEW s2, NEW k, Shorter(s, s2, k), NEW f, NEW n \in Nat, NEW j \in Nat, NEW i \in 1..Len(s),
         Lies(s, i, f, n, j), j <= n + 2, NEW i2 \in 1..Len(s), NEW j2 \in Nat, j2 <= n + 2,
         j <= j2, i2 + k = i + (j2 - j)
  PROVE  Lies(s2, i2, f, n, j2)
<1>1. /\ Len(s) \in Nat /\ Len(s2) \in Nat /\ k \in Nat /\ Len(s2) = Len(s) - k
      /\ \A u \in 1..Len(s2) : s2[u] = s[u + k]
  BY DEF Shorter
<1>2. i + n + 2 - j <= Len(s)
  BY DEF Lies
<1>3. i2 + n + 2 - j2 <= Len(s2)
  <2>1. PICK a \in Nat, b \in Nat : a = Len(s) /\ b = Len(s2)
    BY <1>1
  <2>2. b = a - k /\ i + n + 2 - j <= a /\ i \in Nat /\ i2 \in Nat /\ k \in Nat
    BY <1>1, <1>2, <2>1
  <2>3. i2 + n + 2 - j2 <= b
    BY <2>2
  <2>. QED  BY <2>1, <2>3
<1>4. ASSUME NEW u \in j2 .. n + 2 PROVE s2[i2 + (u - j2)] = UsbByte(f, n, u)
  <2>1. /\ i2 + (u - j2) \in 1..Len(s2) /\ (i2 + (u - j2)) + k = i + (u - j) /\ u \in j .. n + 2
    BY <1>1, <1>3
  <2>2. s2[i2 + (u - j2)] = s[i + (u - j)]
    BY <1>1, <2>1
  <2>3. s[i + (u - j)] = UsbByte(f, n, u)
    BY <2>1 DEF Lies
  <2>. QED  BY <2>2, <2>3
<1>. QED  BY <1>3, <1>4 DEF Lies

(* What the writer adds changes nothing in front of it. *)
Longer(s, s2) ==
  /\ s \in Seq(Octet) /\ s2 \in Seq(Octet) /\ Len(s) <= Len(s2)
  /\ \A i \in 1..Len(s) : s2[i] = s[i]

LEMMA MisreadLonger ==
  ASSUME NEW s, NEW s2, Longer(s, s2), NEW st, NEW i \in 1..Len(s)
  PROVE  Misread(s2, st, i) <=> Misread(s, st, i)
<1>1. s2[i] = s[i] /\ (i # 1 => i - 1 \in 1..Len(s))
  BY DEF Longer
<1>2. i # 1 => s2[i - 1] = s[i - 1]
  BY <1>1 DEF Longer
<1>. QED  BY <1>1, <1>2 DEF Misread

LEMMA RoomLonger ==
  ASSUME NEW s, NEW s2, Longer(s, s2), NEW st, NEW db, NEW p \in 1 .. Len(s) + 1, Room(s, st, db, p)
  PROVE  Room(s2, st, db, p)
<1>1. ASSUME NEW i \in 1 .. p - 1
      PROVE  /\ s2[i].place = 0 => i + 1 < p
             /\ s2[i].place = 1 => i + s2[i].len + 1 < p
             /\ Misread(s2, st, i) => i + Recovery < p
  <2>1. i \in 1..Len(s)
    BY DEF Longer
  <2>2. s2[i] = s[i] /\ (Misread(s2, st, i) <=> Misread(s, st, i))
    BY <2>1, MisreadLonger DEF Longer
  <2>. QED  BY <2>2 DEF Room
<1>. QED  BY <1>1 DEF Room

LEMMA LiesLonger ==
  ASSUME NEW s, NEW s2, Longer(s, s2), NEW f, NEW n \in Nat, NEW k \in 0 .. n + 2,
         NEW i \in 1..Len(s), Lies(s, i, f, n, k)
  PROVE  Lies(s2, i, f, n, k)
<1>1. Len(s) \in Nat /\ Len(s2) \in Nat /\ Len(s) <= Len(s2) /\ i + n + 2 - k <= Len(s)
  BY DEF Longer, Lies
<1>2. ASSUME NEW j \in k .. n + 2 PROVE s2[i + (j - k)] = UsbByte(f, n, j)
  <2>1. i + (j - k) \in 1..Len(s)
    BY <1>1
  <2>. QED  BY <2>1 DEF Longer, Lies
<1>. QED  BY <1>1, <1>2 DEF Lies

(* A frame written whole after enough good bytes will be received. *)
LEMMA RoomDue ==
  ASSUME NEW s \in Seq(Octet), NEW st, NEW db \in Int, NEW cl \in Nat, Ends(s, st, db, cl), cl >= Recovery
  PROVE  Room(s, st, db, Len(s) + 1)
<1>1. Len(s) \in Nat /\ Recovery \in Int /\ cl >= IFCPU_DATA_SIZE + 1 /\ IFCPU_DATA_SIZE \in Nat
  BY OctetIs
<1>2. ASSUME NEW i \in 1 .. (Len(s) + 1) - 1
      PROVE  /\ s[i].place = 0 => i + 1 < Len(s) + 1
             /\ s[i].place = 1 => i + s[i].len + 1 < Len(s) + 1
             /\ Misread(s, st, i) => i + Recovery < Len(s) + 1
  <2>1. i \in 1..Len(s)
    BY <1>1
  <2>2. s[i] \in Octet /\ s[i].len \in 1..IFCPU_DATA_SIZE
    BY <2>1, OctetIs
  <2>3. /\ s[i].place = 0 => i < Len(s)
        /\ s[i].place = 1 => i + s[i].len + 1 <= Len(s) \/ i + cl <= Len(s)
        /\ Misread(s, st, i) => i + cl <= Len(s)
    BY <2>1 DEF Ends
  <2>. QED  BY <1>1, <2>1, <2>2, <2>3
<1>3. db < Len(s) + 1 /\ (st = "LEN" => Len(s) + 1 > 1)
  BY <1>1 DEF Ends
<1>. QED  BY <1>2, <1>3 DEF Room

-----------------------------------------------------------------------------
(* A frame still owed after some bytes were taken. *)
LEMMA AheadShorter ==
  ASSUME NEW s, NEW s2, NEW k, Shorter(s, s2, k), NEW st, NEW db, NEW st2, NEW db2,
         st2 = "LEN" => (k = 1 /\ s[1].place = 0) \/ (k = 0 /\ st = "LEN"),
         NEW f, NEW n \in 1..IFCPU_DATA_SIZE, NEW p \in 1..Len(s), Lies(s, p, f, n, 0), Room(s, st, db, p),
         k < p, db2 < p - k, st2 = "LEN" => p - k > 1
  PROVE  Ahead(s2, st2, db2, f)
<1>1. Len(s) \in Nat /\ Len(s2) = Len(s) - k /\ k \in Nat /\ n \in Nat /\ p + n + 2 - 0 <= Len(s)
  BY OctetIs DEF Shorter, Lies
<1>2. PICK p2 \in 1..Len(s2) : p2 = p - k
  BY <1>1
<1>3. /\ p2 \in 1..Len(s) /\ p2 + k = p + (0 - 0) /\ 0 \in Nat /\ 0 <= n + 2 /\ 0 <= 0
  BY <1>1, <1>2
<1>4. Lies(s2, p2, f, n, 0)
  BY <1>1, <1>3, LiesShorter
<1>5. Room(s2, st2, db2, p2)
  BY <1>2, RoomShorter
<1>. QED  BY <1>4, <1>5 DEF Ahead

LEMMA OwedLonger ==
  ASSUME NEW s, NEW s2, Longer(s, s2), NEW st, NEW fr, NEW ps, NEW f, Owed(s, st, fr, ps, f)
  PROVE  Owed(s2, st, fr, ps, f)
<1>1. Len(s) \in Nat /\ Len(s2) \in Nat /\ Len(s) <= Len(s2) /\ IFCPU_DATA_SIZE \in Nat
  BY OctetIs DEF Longer
<1>2. CASE Reading(s, st, fr, f)
  <2>1. PICK n \in 1..IFCPU_DATA_SIZE : \E k \in 1 .. n + 2 : Lies(s, 1, f, n, k) /\ Inside(st, fr, f, n, k)
    BY <1>2 DEF Reading
  <2>2. PICK k \in 1 .. n + 2 : Lies(s, 1, f, n, k) /\ Inside(st, fr, f, n, k)
    BY <2>1
  <2>3. n \in Nat /\ k \in 0 .. n + 2 /\ 1 \in 1..Len(s)
    BY <1>1, <2>2 DEF Lies
  <2>4. Lies(s2, 1, f, n, k)
    BY <2>2, <2>3, LiesLonger
  <2>. QED  BY <2>2, <2>4 DEF Owed, Reading
<1>3. CASE Ahead(s, st, Debt(st, fr), f)
  <2>1. PICK n \in 1..IFCPU_DATA_SIZE : \E p \in 1..Len(s) : Lies(s, p, f, n, 0) /\ Room(s, st, Debt(st, fr), p)
    BY <1>3 DEF Ahead
  <2>2. PICK p \in 1..Len(s) : Lies(s, p, f, n, 0) /\ Room(s, st, Debt(st, fr), p)
    BY <2>1
  <2>3. n \in Nat /\ 0 \in 0 .. n + 2 /\ p \in 1 .. Len(s) + 1 /\ p \in 1..Len(s2)
    BY <1>1, <2>1
  <2>4. Lies(s2, p, f, n, 0) /\ Room(s2, st, Debt(st, fr), p)
    BY <2>2, <2>3, LiesLonger, RoomLonger
  <2>. QED  BY <2>3, <2>4 DEF Owed, Ahead
<1>. QED  BY <1>2, <1>3 DEF Owed

(* The bytes of a frame, and those that are left when one is lost. *)
Frag(q, f, n) ==
  /\ q \in Seq(Octet) /\ Len(q) >= 1
  /\ \A i \in 1..Len(q) : q[i].of = f /\ q[i].len = n /\ q[i].place <= n + 2
  /\ \A i, j \in 1..Len(q) : i < j => q[i].place < q[j].place
  /\ \A i \in 1..Len(q) : q[i].place = 0 => i < Len(q)

LEMMA BytesFrag ==
  ASSUME NEW f \in Nat, NEW n \in 1..IFCPU_DATA_SIZE
  PROVE  /\ Frag(Bytes(f, n), f, n) /\ Len(Bytes(f, n)) = n + 3
         /\ \A j \in 1 .. n + 3 : Bytes(f, n)[j] = UsbByte(f, n, j - 1)
<1>1. n \in Nat /\ n >= 1
  BY OctetIs
<1>2. \A j \in 1 .. n + 3 : UsbByte(f, n, j - 1) \in Octet
  BY <1>1 DEF UsbByte, Octet
<1>3. Bytes(f, n) \in Seq(Octet) /\ Len(Bytes(f, n)) = n + 3
  BY <1>1, <1>2 DEF Bytes
<1>4. \A j \in 1 .. n + 3 : Bytes(f, n)[j] = UsbByte(f, n, j - 1)
  BY DEF Bytes
<1>5. ASSUME NEW j \in 1 .. n + 3
      PROVE  Bytes(f, n)[j].of = f /\ Bytes(f, n)[j].len = n /\ Bytes(f, n)[j].place = j - 1
  <2>1. Bytes(f, n)[j] = UsbByte(f, n, j - 1)
    BY <1>4
  <2>. QED  BY ONLY <2>1 DEF UsbByte
<1>. QED  BY <1>1, <1>3, <1>4, <1>5 DEF Frag

LEMMA LostFrag ==
  ASSUME NEW f \in Nat, NEW n \in 1..IFCPU_DATA_SIZE, NEW x \in 1 .. n + 3
  PROVE  Frag(RemoveAt(Bytes(f, n), x), f, n)
<1> DEFINE b == Bytes(f, n)
           q == RemoveAt(b, x)
<1>1. n \in Nat /\ n >= 1
  BY OctetIs
<1>2. b \in Seq(Octet) /\ Len(b) = n + 3 /\ \A j \in 1 .. n + 3 : b[j] = UsbByte(f, n, j - 1)
  BY BytesFrag DEF Frag
<1> HIDE DEF b
<1>3. /\ SubSeq(b, 1, x - 1) \in Seq(Octet) /\ Len(SubSeq(b, 1, x - 1)) = x - 1
      /\ \A j \in 1 .. x - 1 : SubSeq(b, 1, x - 1)[j] = b[j]
  BY <1>1, <1>2
<1>4. /\ SubSeq(b, x + 1, Len(b)) \in Seq(Octet) /\ Len(SubSeq(b, x + 1, Len(b))) = n + 3 - x
      /\ \A j \in 1 .. n + 3 - x : SubSeq(b, x + 1, Len(b))[j] = b[j + x]
  BY <1>1, <1>2
<1>5. q = SubSeq(b, 1, x - 1) \o SubSeq(b, x + 1, Len(b))
  BY DEF RemoveAt
<1> HIDE DEF q
<1> DEFINE u == SubSeq(b, 1, x - 1)
           v == SubSeq(b, x + 1, Len(b))
<1> HIDE DEF u, v
<1>6. /\ q \in Seq(Octet) /\ Len(q) = n + 2
      /\ \A j \in 1 .. n + 2 : q[j] = IF j <= x - 1 THEN b[j] ELSE b[j + 1]
  <2>1. /\ u \in Seq(Octet) /\ Len(u) = x - 1 /\ \A j \in 1 .. x - 1 : u[j] = b[j]
        /\ v \in Seq(Octet) /\ Len(v) = n + 3 - x /\ \A j \in 1 .. n + 3 - x : v[j] = b[j + x]
        /\ q = u \o v
    BY <1>3, <1>4, <1>5 DEF u, v
  <2>2. /\ q \in Seq(Octet) /\ Len(q) = Len(u) + Len(v)
        /\ \A j \in 1 .. Len(u) + Len(v) : q[j] = IF j <= Len(u) THEN u[j] ELSE v[j - Len(u)]
    BY <2>1, ConcatProperties
  <2>3. Len(q) = n + 2
    BY <1>1, <2>1, <2>2
  <2>4. ASSUME NEW j \in 1 .. n + 2 PROVE q[j] = IF j <= x - 1 THEN b[j] ELSE b[j + 1]
    <3>1. q[j] = IF j <= x - 1 THEN u[j] ELSE v[j - (x - 1)]
      BY <1>1, <2>1, <2>2
    <3>2. CASE j <= x - 1
      BY <2>1, <3>1, <3>2
    <3>3. CASE ~(j <= x - 1)
      <4>1. j - (x - 1) \in 1 .. n + 3 - x /\ (j - (x - 1)) + x = j + 1
        BY <1>1, <3>3
      <4>2. v[j - (x - 1)] = b[j + 1]
        BY <2>1, <4>1
      <4>. QED  BY <3>1, <3>3, <4>2
    <3>. QED  BY <3>2, <3>3
  <2>. QED  BY <2>2, <2>3, <2>4
<1>7. \A j \in 1 .. n + 2 : /\ q[j].of = f /\ q[j].len = n
                            /\ q[j].place = IF j <= x - 1 THEN j - 1 ELSE j
  BY <1>1, <1>2, <1>6 DEF UsbByte
<1>8. Frag(q, f, n)
  BY <1>1, <1>6, <1>7 DEF Frag
<1>. QED  BY <1>8 DEF q, b

Joined(s, q, s2) == s2 = s \o q

LEMMA Appended ==
  ASSUME NEW s \in Seq(Octet), NEW q \in Seq(Octet), NEW s2, Joined(s, q, s2)
  PROVE  /\ Longer(s, s2) /\ Len(s) \in Nat /\ Len(q) \in Nat /\ Len(s2) = Len(s) + Len(q)
         /\ \A i \in 1..Len(s) : s2[i] = s[i]
         /\ \A j \in 1..Len(q) : s2[Len(s) + j] = q[j]
<1>1. /\ s2 \in Seq(Octet) /\ Len(s) \in Nat /\ Len(q) \in Nat /\ Len(s2) = Len(s) + Len(q)
      /\ \A i \in 1 .. Len(s) + Len(q) : s2[i] = IF i <= Len(s) THEN s[i] ELSE q[i - Len(s)]
  BY ConcatProperties DEF Joined
<1>2. \A i \in 1..Len(s) : s2[i] = s[i]
  BY <1>1
<1>3. ASSUME NEW j \in 1..Len(q) PROVE s2[Len(s) + j] = q[j]
  <2>1. PICK i \in 1 .. Len(s) + Len(q) : i = Len(s) + j
    BY <1>1
  <2>. QED  BY <1>1, <2>1
<1>. QED  BY <1>1, <1>2, <1>3 DEF Longer

LEMMA SortedWrite ==
  ASSUME NEW s \in Seq(Octet), NEW q, NEW w \in Nat, NEW n, NEW ps \in Seq(Nat),
         Frag(q, w + 1, n), Sorted(s, ps, w), NEW s2, Joined(s, q, s2)
  PROVE  Sorted(s2, ps, w + 1)
<1>1. /\ Len(s) \in Nat /\ Len(q) \in Nat /\ Len(s2) = Len(s) + Len(q)
      /\ \A i \in 1..Len(s) : s2[i] = s[i]
      /\ \A j \in 1..Len(q) : s2[Len(s) + j] = q[j]
  BY Appended DEF Frag
<1>2. \A i \in 1..Len(s) : s[i].of \in Nat
  BY OctetIs
<1>3. ASSUME NEW i \in 1..Len(s2), i > Len(s)
      PROVE  /\ i - Len(s) \in 1..Len(q) /\ s2[i] = q[i - Len(s)]
             /\ s2[i].of = w + 1 /\ s2[i].len = n /\ s2[i].place <= n + 2
  <2>1. PICK j \in 1..Len(q) : i = Len(s) + j
    <3>1. i - Len(s) \in 1..Len(q) /\ i = Len(s) + (i - Len(s))
      BY <1>1, <1>3
    <3>. QED  BY <3>1
  <2>2. s2[i] = q[j] /\ j = i - Len(s)
    BY <1>1, <2>1
  <2>3. q[j].of = w + 1 /\ q[j].len = n /\ q[j].place <= n + 2
    BY DEF Frag
  <2>. QED  BY <2>2, <2>3
<1>4. ASSUME NEW i \in 1..Len(s2), i <= Len(s)
      PROVE  i \in 1..Len(s) /\ s2[i] = s[i] /\ s2[i].of <= w /\ s2[i].place <= s2[i].len + 2 /\ s2[i].of \in Nat
  <2>1. i \in 1..Len(s)
    BY <1>1, <1>4
  <2>. QED  BY <1>1, <1>2, <2>1 DEF Sorted
<1>5. ASSUME NEW i \in 1..Len(s2) PROVE s2[i].of <= w + 1 /\ s2[i].place <= s2[i].len + 2
  <2>1. CASE i <= Len(s)
    BY <1>4, <2>1
  <2>2. CASE i > Len(s)
    BY <1>3, <2>2
  <2>. QED  BY <1>1, <2>1, <2>2
<1>6. ASSUME NEW i \in 1..Len(s2), NEW j \in 1..Len(s2), i < j PROVE After(s2[i], s2[j])
  <2>1. CASE j <= Len(s)
    <3>1. i \in 1..Len(s) /\ j \in 1..Len(s) /\ s2[i] = s[i] /\ s2[j] = s[j]
      BY <1>1, <1>6, <2>1
    <3>. QED  BY <1>6, <3>1 DEF Sorted
  <2>2. CASE i <= Len(s) /\ j > Len(s)
    BY <1>3, <1>4, <2>2 DEF After
  <2>3. CASE i > Len(s)
    <3>1. j > Len(s) /\ i - Len(s) < j - Len(s)
      BY <1>1, <1>6, <2>3
    <3>2. /\ s2[i] = q[i - Len(s)] /\ s2[i].of = w + 1 /\ s2[i].len = n /\ i - Len(s) \in 1..Len(q)
          /\ s2[j] = q[j - Len(s)] /\ s2[j].of = w + 1 /\ s2[j].len = n /\ j - Len(s) \in 1..Len(q)
      BY <1>3, <2>3, <3>1
    <3>3. s2[i].place < s2[j].place
      BY <3>1, <3>2 DEF Frag
    <3>. QED  BY <3>2, <3>3 DEF After
  <2>. QED  BY <1>1, <2>1, <2>2, <2>3
<1>7. ASSUME NEW i \in 1..Len(s2), NEW j \in 1..Len(ps) PROVE ps[j] < s2[i].of
  <2>1. ps[j] <= w /\ ps[j] \in Nat
    BY DEF Sorted
  <2>2. CASE i <= Len(s)
    BY <1>4, <2>2 DEF Sorted
  <2>3. CASE i > Len(s)
    BY <1>3, <2>1, <2>3
  <2>. QED  BY <1>1, <2>2, <2>3
<1>8. ASSUME NEW j \in 1..Len(ps) PROVE ps[j] <= w + 1
  <2>1. ps[j] <= w /\ ps[j] \in Nat
    BY DEF Sorted
  <2>. QED  BY <2>1
<1>9. \A i, j \in 1..Len(ps) : i < j => ps[i] < ps[j]
  BY DEF Sorted
<1>. QED  BY <1>5, <1>6, <1>7, <1>8, <1>9 DEF Sorted

(* The bytes at the end of what was there start no frame, and wait for none. *)
LEMMA MisreadWritten ==
  ASSUME NEW s \in Seq(Octet), NEW f, NEW n \in Nat, NEW s2, NEW st, NEW db, NEW cl,
         Ends(s, st, db, cl), Len(s2) = Len(s) + n + 3, \A i \in 1..Len(s) : s2[i] = s[i],
         \A j \in 1 .. n + 3 : s2[Len(s) + j].place = j - 1,
         NEW i \in 1..Len(s2), i > Len(s)
  PROVE  ~Misread(s2, st, i)
<1>1. Len(s) \in Nat
  OBVIOUS
<1>2. PICK j \in 1 .. n + 3 : i = Len(s) + j
  <2>1. i - Len(s) \in 1 .. n + 3 /\ i = Len(s) + (i - Len(s))
    BY <1>1
  <2>. QED  BY <2>1
<1>3. s2[i].place = j - 1
  BY <1>2
<1>4. CASE j = 1
  <2>1. CASE i = 1
    <3>1. Len(s) = 0
      BY <1>1, <1>2, <1>4, <2>1
    <3>. QED  BY <2>1, <3>1 DEF Misread, Ends
  <2>2. CASE i # 1
    <3>1. i - 1 \in 1..Len(s) /\ i - 1 = Len(s) /\ s2[i - 1] = s[i - 1]
      BY <1>1, <1>2, <1>4, <2>2
    <3>2. PICK u \in 1..Len(s) : u = i - 1
      BY <3>1
    <3>3. s[u].place = 0 => u < Len(s)
      BY DEF Ends
    <3>. QED  BY <1>1, <2>2, <3>1, <3>2, <3>3 DEF Misread
  <2>. QED  BY <2>1, <2>2
<1>5. CASE j = 2
  BY <1>3, <1>5 DEF Misread
<1>6. CASE j > 2
  <2>1. i - 1 = Len(s) + (j - 1) /\ j - 1 \in 1 .. n + 3 /\ i # 1
    BY <1>1, <1>2, <1>6
  <2>2. s2[i - 1].place = (j - 1) - 1
    BY <2>1
  <2>3. s2[i - 1].place # 0
    BY <1>6, <2>2
  <2>. QED  BY <2>1, <2>3 DEF Misread
<1>. QED  BY <1>4, <1>5, <1>6

LEMMA WrittenWhole ==
  ASSUME NEW s \in Seq(Octet), NEW f \in Nat, NEW n \in 1..IFCPU_DATA_SIZE, NEW s2, Joined(s, Bytes(f, n), s2)
  PROVE  /\ Len(s) \in Nat /\ Len(s2) = Len(s) + n + 3 /\ \A i \in 1..Len(s) : s2[i] = s[i]
         /\ \A j \in 1 .. n + 3 : s2[Len(s) + j] = UsbByte(f, n, j - 1)
         /\ \A j \in 1 .. n + 3 : s2[Len(s) + j].place = j - 1 /\ s2[Len(s) + j].len = n
         /\ Longer(s, s2)
<1> DEFINE q == Bytes(f, n)
<1>1. n \in Nat
  BY OctetIs
<1>2. q \in Seq(Octet)
  BY BytesFrag DEF Frag
<1>3. Len(q) = n + 3 /\ \A j \in 1 .. n + 3 : q[j] = UsbByte(f, n, j - 1)
  BY BytesFrag
<1>4. Joined(s, q, s2)
  OBVIOUS
<1> HIDE DEF q
<1>5. /\ Longer(s, s2) /\ Len(s) \in Nat /\ Len(s2) = Len(s) + Len(q)
      /\ \A i \in 1..Len(s) : s2[i] = s[i]
      /\ \A j \in 1..Len(q) : s2[Len(s) + j] = q[j]
  BY <1>2, <1>4, Appended
<1>6. ASSUME NEW j \in 1 .. n + 3
      PROVE  s2[Len(s) + j] = UsbByte(f, n, j - 1) /\ s2[Len(s) + j].place = j - 1 /\ s2[Len(s) + j].len = n
  <2>1. s2[Len(s) + j] = UsbByte(f, n, j - 1)
    BY <1>3, <1>5
  <2>. QED  BY ONLY <2>1 DEF UsbByte
<1>7. Len(s2) = Len(s) + n + 3
  BY <1>1, <1>3, <1>5
<1>. QED  BY <1>5, <1>6, <1>7

LEMMA EndsWhole ==
  ASSUME NEW s \in Seq(Octet), NEW f \in Nat, NEW n \in 1..IFCPU_DATA_SIZE, NEW s2, Joined(s, Bytes(f, n), s2),
         NEW st, NEW db \in Int, NEW cl \in Nat, Ends(s, st, db, cl)
  PROVE  Ends(s2, st, db, cl + n + 3)
<1>1. n \in Nat /\ IFCPU_DATA_SIZE \in Nat
  BY OctetIs
<1>2. /\ Len(s) \in Nat /\ Len(s2) = Len(s) + n + 3 /\ \A i \in 1..Len(s) : s2[i] = s[i]
      /\ Longer(s, s2)
  BY WrittenWhole
<1>3. ASSUME NEW j \in 1 .. n + 3 PROVE s2[Len(s) + j].place = j - 1 /\ s2[Len(s) + j].len = n
  <2>1. s2[Len(s) + j] = UsbByte(f, n, j - 1)
    BY WrittenWhole
  <2>. QED  BY ONLY <2>1 DEF UsbByte
<1>4. ASSUME NEW i \in 1..Len(s2)
      PROVE  /\ s2[i].place = 0 => i < Len(s2)
             /\ s2[i].place = 1 => i + s2[i].len + 1 <= Len(s2) \/ i + (cl + n + 3) <= Len(s2)
             /\ Misread(s2, st, i) => i + (cl + n + 3) <= Len(s2)
  <2>1. CASE i <= Len(s)
    <3>1. i \in 1..Len(s) /\ s2[i] = s[i] /\ (Misread(s2, st, i) <=> Misread(s, st, i))
      BY <1>2, <2>1, MisreadLonger
    <3>2. s[i].len \in Nat
      BY <3>1, OctetIs
    <3>3. /\ s[i].place = 0 => i < Len(s)
          /\ s[i].place = 1 => i + s[i].len + 1 <= Len(s) \/ i + cl <= Len(s)
          /\ Misread(s, st, i) => i + cl <= Len(s)
      BY <3>1 DEF Ends
    <3>4. /\ s2[i].place = 0 => i < Len(s)
          /\ s2[i].place = 1 => i + s2[i].len + 1 <= Len(s) \/ i + cl <= Len(s)
          /\ Misread(s2, st, i) => i + cl <= Len(s)
      BY <3>1, <3>3
    <3>5. s2[i].len \in Nat /\ Len(s) \in Nat /\ Len(s2) = Len(s) + n + 3 /\ n \in Nat /\ cl \in Nat
      BY <1>1, <1>2, <3>1, <3>2
    <3>. QED  BY ONLY <3>1, <3>4, <3>5, i \in 1..Len(s2)
  <2>2. CASE i > Len(s)
    <3>1. PICK j \in 1 .. n + 3 : i = Len(s) + j
      <4>1. i - Len(s) \in 1 .. n + 3 /\ i = Len(s) + (i - Len(s))
        BY <1>1, <1>2, <2>2
      <4>. QED  BY <4>1
    <3>2. s2[i].place = j - 1 /\ s2[i].len = n
      BY <1>3, <3>1
    <3>3. ~Misread(s2, st, i)
      BY <1>1, <1>2, <1>3, <2>2, MisreadWritten
    <3>. QED  BY <1>1, <1>2, <3>1, <3>2, <3>3
  <2>. QED  BY <1>2, <2>1, <2>2
<1>5. st = "LEN" => Len(s2) >= 1
  BY <1>1, <1>2
<1>6. db > Len(s2) => db - Len(s2) + (cl + n + 3) <= IFCPU_DATA_SIZE + 1
  BY <1>1, <1>2 DEF Ends
<1>. QED  BY <1>4, <1>5, <1>6 DEF Ends

LEMMA EndsDamaged ==
  ASSUME NEW s \in Seq(Octet), NEW f, NEW n, NEW q, Frag(q, f, n), NEW s2, Joined(s, q, s2),
         NEW st, NEW db \in Int, db <= IFCPU_DATA_SIZE + 1, NEW cl, Ends(s, st, db, cl)
  PROVE  Ends(s2, st, db, 0)
<1>1. /\ Len(s) \in Nat /\ Len(q) \in Nat /\ Len(q) >= 1 /\ Len(s2) = Len(s) + Len(q)
      /\ \A i \in 1..Len(s) : s2[i] = s[i]
      /\ \A j \in 1..Len(q) : s2[Len(s) + j] = q[j]
  BY Appended DEF Frag
<1>2. ASSUME NEW i \in 1..Len(s2), s2[i].place = 0 PROVE i < Len(s2)
  <2>1. CASE i <= Len(s)
    BY <1>1, <2>1
  <2>2. CASE i > Len(s)
    <3>1. PICK j \in 1..Len(q) : i = Len(s) + j
      <4>1. i - Len(s) \in 1..Len(q) /\ i = Len(s) + (i - Len(s))
        BY <1>1, <2>2
      <4>. QED  BY <4>1
    <3>2. q[j].place = 0
      BY <1>1, <1>2, <3>1
    <3>3. j < Len(q)
      BY <3>2 DEF Frag
    <3>. QED  BY <1>1, <3>1, <3>3
  <2>. QED  BY <1>1, <2>1, <2>2
<1>3. \A i \in 1..Len(s2) : i + 0 <= Len(s2)
  BY <1>1
<1>4. Len(s2) >= 1 /\ (db > Len(s2) => db - Len(s2) + 0 <= IFCPU_DATA_SIZE + 1)
  BY <1>1, OctetIs
<1>. QED  BY <1>2, <1>3, <1>4 DEF Ends

(* A frame written whole after enough good bytes is owed. *)
LEMMA OwedWritten ==
  ASSUME NEW s \in Seq(Octet), NEW f \in Nat, NEW n \in 1..IFCPU_DATA_SIZE, NEW s2, Joined(s, Bytes(f, n), s2),
         NEW st, NEW db \in Int, NEW cl \in Nat, Ends(s, st, db, cl), cl >= Recovery
  PROVE  Ahead(s2, st, db, f)
<1>1. n \in Nat /\ n >= 1
  BY OctetIs
<1>2. /\ Len(s) \in Nat /\ Len(s2) = Len(s) + n + 3
      /\ \A j \in 1 .. n + 3 : s2[Len(s) + j] = UsbByte(f, n, j - 1)
      /\ Longer(s, s2)
  BY WrittenWhole
<1>3. PICK p \in 1..Len(s2) : p = Len(s) + 1
  BY <1>1, <1>2
<1>4. Room(s, st, db, p) /\ p \in 1 .. Len(s) + 1
  BY <1>2, <1>3, RoomDue
<1>5. Room(s2, st, db, p)
  BY <1>2, <1>4, RoomLonger
<1>6. Lies(s2, p, f, n, 0)
  <2>1. p + n + 2 - 0 <= Len(s2)
    BY <1>1, <1>2, <1>3
  <2>2. ASSUME NEW j \in 0 .. n + 2 PROVE s2[p + (j - 0)] = UsbByte(f, n, j)
    <3>1. j + 1 \in 1 .. n + 3 /\ p + (j - 0) = Len(s) + (j + 1) /\ (j + 1) - 1 = j
      BY <1>1, <1>2, <1>3
    <3>2. s2[Len(s) + (j + 1)] = UsbByte(f, n, (j + 1) - 1)
      BY <1>2, <3>1
    <3>. QED  BY <3>1, <3>2
  <2>. QED  BY <2>1, <2>2 DEF Lies
<1>. QED  BY <1>5, <1>6 DEF Ahead

-----------------------------------------------------------------------------
(* What the proofs of the steps need to know of the variables, apart. *)
LEMMA UsbShape ==
  ASSUME UsbInv
  PROVE  /\ stream \in Seq(Octet) /\ chunk \in Seq(Octet) /\ Pending \in Seq(Octet)
         /\ frame.len \in 0..IFCPU_DATA_SIZE /\ frame.data \in Seq(Octet) /\ Len(frame.data) \in Nat
         /\ frame.len \in Nat /\ posted \in Seq(Nat) /\ written \in Nat /\ clean \in Nat
         /\ Debt(rx_frame_state, frame) \in Int
         /\ Debt(rx_frame_state, frame) <= IFCPU_DATA_SIZE + 1
<1>1. stream \in Seq(Octet) /\ chunk \in Seq(Octet) /\ posted \in Seq(Nat) /\ written \in Nat /\ clean \in Nat
  BY DEF UsbInv, UsbTypes
<1>2. Pending \in Seq(Octet)
  BY <1>1, ConcatProperties DEF Pending
<1>3. /\ frame.len \in 0..IFCPU_DATA_SIZE /\ frame.data \in Seq(Octet)
      /\ rx_frame_state \in {"SOP", "LEN", "DATA", "FCS"}
      /\ rx_frame_state = "DATA" => Len(frame.data) < frame.len \/ (frame.len = 0 /\ Len(frame.data) = 0)
  BY DEF UsbInv, UsbTypes
<1>4. frame.len \in Nat /\ Len(frame.data) \in Nat /\ IFCPU_DATA_SIZE \in Nat
  BY <1>3, OctetIs
<1>5. /\ Debt(rx_frame_state, frame) \in Int
      /\ Debt(rx_frame_state, frame) <= IFCPU_DATA_SIZE + 1
  BY <1>3, <1>4 DEF Debt
<1>. QED  BY <1>1, <1>2, <1>3, <1>4, <1>5

LEMMA UsbInitInv == UsbInit => UsbInv
<1> SUFFICES ASSUME UsbInit PROVE UsbInv
  OBVIOUS
<1>1. /\ stream = <<>> /\ chunk = <<>> /\ posted = <<>> /\ written = 0 /\ due = {}
      /\ rx_frame_state = "SOP" /\ frame = [len |-> 0, data |-> <<>>]
      /\ clean = IFCPU_DATA_SIZE + MaxChunk
  BY DEF UsbInit
<1>2. UsbTypes
  <2>1. clean \in Nat /\ Len(chunk) <= MaxChunk /\ IFCPU_DATA_SIZE \in Nat
    BY <1>1, UsbBounds
  <2>2. frame \in [len : 0..IFCPU_DATA_SIZE, data : Seq(Octet)]
    BY <1>1, <2>1
  <2>. QED  BY <1>1, <2>1, <2>2 DEF UsbTypes
<1>3. Pending = <<>> /\ Len(Pending) = 0 /\ Len(posted) = 0
  BY <1>1 DEF Pending
<1>4. Sorted(Pending, posted, written)
  BY <1>3 DEF Sorted
<1>5. Debt(rx_frame_state, frame) = 0
  BY <1>1 DEF Debt
<1>6. Ends(Pending, rx_frame_state, Debt(rx_frame_state, frame), clean)
  BY <1>1, <1>3, <1>5 DEF Ends
<1>. QED  BY <1>1, <1>2, <1>4, <1>6 DEF UsbInv

(* With nothing left to read, nothing is owed. *)
LEMMA UsbInvInStep == UsbInv => UsbInStep
<1> SUFFICES ASSUME UsbInv PROVE UsbInStep
  OBVIOUS
<1>1. \A i, j \in DOMAIN posted : i < j => posted[i] < posted[j]
  <2>1. DOMAIN posted = 1..Len(posted)
    BY UsbShape
  <2>. QED  BY <2>1 DEF UsbInv, Sorted
<1>2. ASSUME stream = <<>>, chunk = <<>>, NEW f \in due
      PROVE  \E i \in DOMAIN posted : posted[i] = f
  <2>1. Len(Pending) = 0
    BY <1>2 DEF Pending
  <2>2. Owed(Pending, rx_frame_state, frame, posted, f)
    BY DEF UsbInv
  <2>3. ~Ahead(Pending, rx_frame_state, Debt(rx_frame_state, frame), f)
    BY <2>1 DEF Ahead
  <2>4. ~Reading(Pending, rx_frame_state, frame, f)
    <3>1. ASSUME NEW n \in 1..IFCPU_DATA_SIZE, NEW k \in 1 .. n + 2, Lies(Pending, 1, f, n, k)
          PROVE  FALSE
      <4>1. n \in Nat
        BY OctetIs
      <4>2. 1 + n + 2 - k <= 0
        BY <2>1, <3>1 DEF Lies
      <4>. QED  BY <4>1, <4>2
    <3>. QED  BY <3>1 DEF Reading
  <2>. QED  BY <2>2, <2>3, <2>4, UsbShape DEF Owed
<1>. QED  BY <1>1, <1>2 DEF UsbInStep

LEMMA WriteInv ==
  ASSUME UsbInv, Write
  PROVE  UsbInv'
<1>1. /\ written' = written + 1 /\ written' \in Nat /\ written \in Nat
      /\ chunk' = chunk /\ rx_frame_state' = rx_frame_state /\ frame' = frame /\ posted' = posted
      /\ Debt(rx_frame_state, frame)' = Debt(rx_frame_state, frame)
  BY UsbShape DEF Write
<1>2. PICK n \in 1..IFCPU_DATA_SIZE :
        \/ /\ stream' = stream \o Bytes(written', n)
           /\ clean' = clean + n + 3
           /\ due' = IF clean >= Recovery THEN due \cup {written'} ELSE due
        \/ /\ \E i \in 1 .. n + 3 : stream' = stream \o RemoveAt(Bytes(written', n), i)
           /\ clean' = 0
           /\ UNCHANGED due
  BY DEF Write
<1>3. ASSUME NEW b, Frag(b, written', n), stream' = stream \o b
      PROVE  /\ Joined(Pending, b, Pending') /\ stream' \in Seq(Octet) /\ Longer(Pending, Pending')
             /\ Sorted(Pending, posted, written)'
  <2>1. chunk \in Seq(Octet) /\ stream \in Seq(Octet) /\ b \in Seq(Octet) /\ Pending \in Seq(Octet)
    BY <1>3, UsbShape DEF Frag
  <2>2. (chunk \o stream) \o b = chunk \o (stream \o b)
    BY <2>1, ConcatAssociative
  <2>3. Joined(Pending, b, Pending')
    BY <1>1, <1>3, <2>2 DEF Joined, Pending
  <2>4. stream \o b \in Seq(Octet)
    BY <2>1, ConcatProperties
  <2>5. Longer(Pending, Pending')
    BY <2>1, <2>3, Appended
  <2>6. Sorted(Pending, posted, written)
    BY DEF UsbInv
  <2>7. posted \in Seq(Nat) /\ Frag(b, written + 1, n)
    BY <1>1, <1>3, UsbShape
  <2>8. Sorted(Pending', posted, written + 1)
    BY <1>1, <2>1, <2>3, <2>6, <2>7, SortedWrite
  <2>. QED  BY <1>1, <1>3, <2>3, <2>4, <2>5, <2>8
<1>4. Ends(Pending, rx_frame_state, Debt(rx_frame_state, frame), clean) /\ Pending \in Seq(Octet)
      /\ Debt(rx_frame_state, frame) \in Int /\ Debt(rx_frame_state, frame) <= IFCPU_DATA_SIZE + 1
      /\ clean \in Nat
  BY UsbShape DEF UsbInv
<1>5. ASSUME NEW f \in due, Longer(Pending, Pending') PROVE Owed(Pending', rx_frame_state, frame, posted, f)
  BY <1>5, OwedLonger DEF UsbInv
<1>6. ASSUME stream' \in Seq(Octet), clean' \in Nat, due' \subseteq Nat PROVE UsbTypes'
  BY <1>1, <1>6 DEF UsbInv, UsbTypes
<1>7. n \in Nat
  BY OctetIs
<1>8. CASE /\ stream' = stream \o Bytes(written', n)
           /\ clean' = clean + n + 3
           /\ due' = IF clean >= Recovery THEN due \cup {written'} ELSE due
  <2>1. Frag(Bytes(written', n), written', n)
    BY <1>1, BytesFrag
  <2>2. /\ Joined(Pending, Bytes(written', n), Pending') /\ stream' \in Seq(Octet) /\ Longer(Pending, Pending')
        /\ Sorted(Pending, posted, written)'
    BY <1>3, <1>8, <2>1
  <2>3. Ends(Pending', rx_frame_state, Debt(rx_frame_state, frame), clean + n + 3)
    BY <1>1, <1>4, <2>2, EndsWhole
  <2>4. clean' \in Nat /\ due' \subseteq Nat
    BY <1>1, <1>4, <1>7, <1>8 DEF UsbInv, UsbTypes
  <2>5. ASSUME NEW f \in due' PROVE Owed(Pending', rx_frame_state, frame, posted, f)
    <3>1. CASE f \in due
      BY <1>5, <2>2, <3>1
    <3>2. CASE f = written' /\ clean >= Recovery
      <4>1. Ahead(Pending', rx_frame_state, Debt(rx_frame_state, frame), written')
        BY <1>1, <1>4, <2>2, <3>2, OwedWritten
      <4>. QED  BY <3>2, <4>1 DEF Owed
    <3>. QED  BY <1>8, <3>1, <3>2
  <2>6. UsbTypes'
    BY <1>6, <2>2, <2>4
  <2>. QED  BY <1>1, <1>8, <2>2, <2>3, <2>5, <2>6 DEF UsbInv
<1>9. CASE /\ \E i \in 1 .. n + 3 : stream' = stream \o RemoveAt(Bytes(written', n), i)
           /\ clean' = 0
           /\ UNCHANGED due
  <2>1. PICK i \in 1 .. n + 3 : stream' = stream \o RemoveAt(Bytes(written', n), i)
    BY <1>9
  <2>2. PICK b : b = RemoveAt(Bytes(written', n), i)
    OBVIOUS
  <2>3. Frag(b, written', n) /\ stream' = stream \o b
    BY <1>1, <2>1, <2>2, LostFrag
  <2>4. /\ Joined(Pending, b, Pending') /\ stream' \in Seq(Octet) /\ Longer(Pending, Pending')
        /\ Sorted(Pending, posted, written)'
    BY <1>3, <2>3
  <2>5. Ends(Pending', rx_frame_state, Debt(rx_frame_state, frame), 0)
    BY <1>4, <2>3, <2>4, EndsDamaged
  <2>6. clean' \in Nat /\ due' \subseteq Nat
    BY <1>9 DEF UsbInv, UsbTypes
  <2>7. \A f \in due' : Owed(Pending', rx_frame_state, frame, posted, f)
    BY <1>5, <1>9, <2>4
  <2>8. UsbTypes'
    BY <1>6, <2>4, <2>6
  <2>. QED  BY <1>1, <1>9, <2>4, <2>5, <2>7, <2>8 DEF UsbInv
<1>. QED  BY <1>2, <1>8, <1>9

LEMMA ReadInv ==
  ASSUME UsbInv, Read
  PROVE  UsbInv'
<1>1. PICK n \in 1..MaxChunk :
        n <= Len(stream) /\ chunk' = SubSeq(stream, 1, n) /\ stream' = SubSeq(stream, n + 1, Len(stream))
  BY DEF Read
<1>2. chunk = <<>> /\ UNCHANGED <<rx_frame_state, frame, posted, written, clean, due>>
  BY DEF Read
<1>3. stream \in Seq(Octet) /\ Len(stream) \in Nat /\ n \in Nat /\ n >= 1 /\ n <= MaxChunk /\ MaxChunk \in Nat
  BY OctetIs, UsbShape
<1>4. chunk' \in Seq(Octet) /\ stream' \in Seq(Octet) /\ Len(chunk') <= MaxChunk
  <2>1. \A i \in 1..Len(stream) : stream[i] \in Octet
    BY <1>3
  <2>2. SubSeq(stream, 1, n) \in Seq(Octet) /\ Len(SubSeq(stream, 1, n)) = n
    BY <1>1, <1>3, <2>1
  <2>3. SubSeq(stream, n + 1, Len(stream)) \in Seq(Octet)
    BY <1>1, <1>3, <2>1
  <2>. QED  BY <1>1, <1>3, <2>2, <2>3
<1>5. Pending' = Pending
  <2>1. SubSeq(stream, 1, n) \o SubSeq(stream, n + 1, Len(stream)) = stream
    BY <1>1, <1>3, ConcatAdjacentSubSeq, SubSeqFull
  <2>2. <<>> \o stream = stream
    BY <1>3, ConcatEmptySeq
  <2>. QED  BY <1>1, <1>2, <2>1, <2>2 DEF Pending
<1>6. UsbTypes'
  BY <1>2, <1>4 DEF UsbInv, UsbTypes
<1>. QED  BY <1>2, <1>5, <1>6 DEF UsbInv

-----------------------------------------------------------------------------
(* What is the same in every step of rx_frame_parser. *)
LEMMA TurnShorter ==
  ASSUME UsbInv, chunk # <<>>, stream' = stream, chunk' = Tail(chunk)
  PROVE  /\ Shorter(Pending, Pending', 1) /\ chunk' \in Seq(Octet) /\ Len(chunk') <= MaxChunk
         /\ Pending[1] = ch /\ ch \in Octet /\ 1 \in 1..Len(Pending) /\ Len(Pending) \in Nat
<1>1. chunk \in Seq(Octet) /\ stream \in Seq(Octet) /\ Len(chunk) <= MaxChunk /\ Len(chunk) \in Nat
      /\ MaxChunk \in Nat
  BY OctetIs DEF UsbInv, UsbTypes
<1>2. /\ Shorter(chunk \o stream, chunk' \o stream, 1) /\ chunk' \in Seq(Octet) /\ Len(chunk') = Len(chunk) - 1
      /\ (chunk \o stream)[1] = Head(chunk) /\ Head(chunk) \in Octet /\ 1 \in 1..Len(chunk \o stream)
  BY <1>1, TakenShorter
<1>3. Len(chunk') <= MaxChunk
  BY <1>1, <1>2
<1>4. Len(Pending) \in Nat
  BY UsbShape
<1>. QED  BY <1>2, <1>3, <1>4 DEF Pending, ch

LEMMA RxSopInv ==
  ASSUME UsbInv, UsbRxSop
  PROVE  UsbInv'
<1>1. /\ rx_frame_state = "SOP" /\ chunk # <<>> /\ chunk' = Tail(chunk) /\ stream' = stream
      /\ rx_frame_state' = IF ch.place = 0 THEN "LEN" ELSE "SOP"
      /\ UNCHANGED <<frame, posted, written, clean, due>>
  BY DEF UsbRxSop, Turn
<1>2. /\ Shorter(Pending, Pending', 1) /\ chunk' \in Seq(Octet) /\ Len(chunk') <= MaxChunk
      /\ Pending[1] = ch /\ 1 \in 1..Len(Pending) /\ Len(Pending) \in Nat
  BY <1>1, TurnShorter
<1>3. /\ Debt(rx_frame_state, frame) = 0 /\ Debt(rx_frame_state', frame) = 0
      /\ rx_frame_state' = "LEN" => Pending[1].place = 0
  BY <1>1, <1>2 DEF Debt
<1>4. UsbTypes'
  BY <1>1, <1>2 DEF UsbInv, UsbTypes
<1>5. Sorted(Pending', posted, written)
  BY <1>2, SortedShorter DEF UsbInv
<1>6. Ends(Pending', rx_frame_state', 0, clean)
  <2>1. Ends(Pending, rx_frame_state, 0, clean) /\ clean \in Nat /\ 0 \in Int /\ ~(0 > Len(Pending'))
    BY <1>2, <1>3, UsbShape DEF UsbInv, Shorter
  <2>. QED  BY <1>2, <1>3, <2>1, EndsShorter
<1>7. ASSUME NEW f \in due PROVE Owed(Pending', rx_frame_state', frame, posted, f)
  <2>1. Owed(Pending, rx_frame_state, frame, posted, f)
    BY DEF UsbInv
  <2>2. ~Reading(Pending, rx_frame_state, frame, f)
    BY <1>1 DEF Reading, Inside
  <2>3. CASE Ahead(Pending, rx_frame_state, 0, f)
    <3>1. PICK n \in 1..IFCPU_DATA_SIZE :
            \E p \in 1..Len(Pending) : Lies(Pending, p, f, n, 0) /\ Room(Pending, rx_frame_state, 0, p)
      BY <2>3 DEF Ahead
    <3>2. PICK p \in 1..Len(Pending) : Lies(Pending, p, f, n, 0) /\ Room(Pending, rx_frame_state, 0, p)
      BY <3>1
    <3>3. n \in Nat
      BY OctetIs
    <3>4. CASE p = 1
      <4>1. Pending[1 + (0 - 0)] = UsbByte(f, n, 0) /\ 1 + (0 - 0) = 1
        BY <3>2, <3>3, <3>4 DEF Lies
      <4>2. ch.place = 0
        BY <1>2, <4>1 DEF UsbByte
      <4>3. Inside(rx_frame_state', frame, f, n, 1)
        BY <1>1, <4>2 DEF Inside
      <4>4. Lies(Pending', 1, f, n, 1)
        BY <1>2, <3>2, <3>3, <3>4, LiesShorter
      <4>. QED  BY <3>3, <4>3, <4>4 DEF Owed, Reading
    <3>5. CASE p # 1
      <4>1. 1 < p /\ 0 < p - 1
        BY <3>5
      <4>2. ASSUME rx_frame_state' = "LEN" PROVE p - 1 > 1
        <5>1. PICK i \in 1 .. p - 1 : i = 1
          BY <4>1
        <5>2. Pending[i].place = 0 => i + 1 < p
          BY <3>2 DEF Room
        <5>. QED  BY <1>3, <4>2, <5>1, <5>2
      <4>3. Ahead(Pending', rx_frame_state', 0, f)
        BY <1>2, <1>3, <3>2, <4>1, <4>2, AheadShorter
      <4>. QED  BY <1>3, <4>3 DEF Owed
    <3>. QED  BY <3>4, <3>5
  <2>. QED  BY <1>3, <2>1, <2>2, <2>3 DEF Owed
<1>. QED  BY <1>1, <1>3, <1>4, <1>5, <1>6, <1>7 DEF UsbInv

(* The length of a frame is read, or a byte that is none. *)
LEMMA LenTaken ==
  ASSUME UsbInv, UsbRxLen, NEW n \in Value
  PROVE  /\ n \in Nat /\ 1 \in 1..Len(Pending) /\ Pending[1] = ch
         /\ ch.place = 1 => n = ch.len /\ n \in 1..IFCPU_DATA_SIZE
         /\ ch.place = 1 => n + 2 <= Len(Pending) \/ 1 + clean <= Len(Pending)
         /\ ch.place # 1 => 1 + clean <= Len(Pending)
         /\ ch.place # 1 => Misread(Pending, "LEN", 1)
<1>1. rx_frame_state = "LEN" /\ chunk # <<>>
  BY DEF UsbRxLen, Turn
<1>2. /\ chunk \in Seq(Octet) /\ stream \in Seq(Octet) /\ IFCPU_DATA_SIZE \in Nat
  BY UsbShape, OctetIs
<1>3. Pending[1] = ch /\ ch \in Octet /\ 1 \in 1..Len(Pending)
  BY <1>1, <1>2, TakenShorter DEF Pending, ch
<1>4. n \in Nat /\ (ch.place = 1 => n = ch.len /\ n \in 1..IFCPU_DATA_SIZE)
  BY <1>2, <1>3, OctetIs DEF Value
<1>5. PICK i \in 1..Len(Pending) : i = 1
  BY <1>3
<1>6. /\ Pending[i].place = 1 => i + Pending[i].len + 1 <= Len(Pending) \/ i + clean <= Len(Pending)
      /\ Misread(Pending, rx_frame_state, i) => i + clean <= Len(Pending)
  BY DEF UsbInv, Ends
<1>7. ch.place # 1 => Misread(Pending, "LEN", 1)
  BY <1>3 DEF Misread
<1>. QED  BY <1>1, <1>3, <1>4, <1>5, <1>6, <1>7

(* A frame owed from where the parser waits for a length: it is this frame's,
   or the frame lies behind what the parser may take for data.              *)
LEMMA LenOwed ==
  ASSUME UsbInv, UsbRxLen, NEW n \in Value, NEW f, Owed(Pending, rx_frame_state, frame, posted, f)
  PROVE  \/ \E i \in 1..Len(posted) : posted[i] = f
         \/ \E m \in 1..IFCPU_DATA_SIZE : Lies(Pending, 1, f, m, 1) /\ ch.place = 1 /\ n = m
         \/ \E m \in 1..IFCPU_DATA_SIZE : \E p \in 1..Len(Pending) :
               /\ Lies(Pending, p, f, m, 0) /\ Room(Pending, rx_frame_state, 0, p) /\ 1 < p
               /\ ch.place = 1 => n + 2 < p
               /\ ch.place # 1 => 1 + Recovery < p
<1>1. /\ n \in Nat /\ 1 \in 1..Len(Pending) /\ Pending[1] = ch
      /\ ch.place = 1 => n = ch.len
      /\ ch.place # 1 => Misread(Pending, "LEN", 1)
      /\ rx_frame_state = "LEN"
  BY LenTaken DEF UsbRxLen, Turn
<1>2. CASE Reading(Pending, rx_frame_state, frame, f)
  <2>1. PICK m \in 1..IFCPU_DATA_SIZE : \E k \in 1 .. m + 2 : Lies(Pending, 1, f, m, k) /\ Inside(rx_frame_state, frame, f, m, k)
    BY <1>2 DEF Reading
  <2>2. PICK k \in 1 .. m + 2 : Lies(Pending, 1, f, m, k) /\ Inside(rx_frame_state, frame, f, m, k)
    BY <2>1
  <2>3. m \in Nat /\ k = 1
    BY <1>1, <2>2, OctetIs DEF Inside
  <2>4. Pending[1 + (1 - 1)] = UsbByte(f, m, 1) /\ 1 + (1 - 1) = 1
    BY <2>2, <2>3 DEF Lies
  <2>5. ch.place = 1 /\ ch.len = m
    BY <1>1, <2>4 DEF UsbByte
  <2>. QED  BY <1>1, <2>2, <2>3, <2>5
<1>3. CASE Ahead(Pending, rx_frame_state, 0, f)
  <2>1. PICK m \in 1..IFCPU_DATA_SIZE :
          \E p \in 1..Len(Pending) : Lies(Pending, p, f, m, 0) /\ Room(Pending, rx_frame_state, 0, p)
    BY <1>3 DEF Ahead
  <2>2. PICK p \in 1..Len(Pending) : Lies(Pending, p, f, m, 0) /\ Room(Pending, rx_frame_state, 0, p)
    BY <2>1
  <2>3. 1 < p
    BY <1>1, <2>2 DEF Room
  <2>4. PICK i \in 1 .. p - 1 : i = 1
    BY <2>3
  <2>5. /\ Pending[i].place = 1 => i + Pending[i].len + 1 < p
        /\ Misread(Pending, rx_frame_state, i) => i + Recovery < p
    BY <2>2 DEF Room
  <2>6. (ch.place = 1 => n + 2 < p) /\ (ch.place # 1 => 1 + Recovery < p)
    BY <1>1, <2>4, <2>5
  <2>. QED  BY <2>2, <2>3, <2>6
<1>. QED  BY <1>1, <1>2, <1>3 DEF Owed, Debt

LEMMA RxLenInv ==
  ASSUME UsbInv, UsbRxLen
  PROVE  UsbInv'
<1>1. /\ rx_frame_state = "LEN" /\ chunk # <<>> /\ stream' = stream
      /\ posted' = posted /\ written' = written /\ clean' = clean /\ due' = due
  BY DEF UsbRxLen, Turn
<1>2. PICK n \in Value :
       \/ /\ n > IFCPU_DATA_SIZE
          /\ rx_frame_state' = "SOP" /\ chunk' = <<>>
          /\ UNCHANGED frame
       \/ /\ n <= IFCPU_DATA_SIZE
          /\ frame' = [len |-> n, data |-> <<>>]
          /\ rx_frame_state' = "DATA" /\ chunk' = Tail(chunk)
  BY DEF UsbRxLen
<1>3. /\ n \in Nat /\ 1 \in 1..Len(Pending) /\ Pending[1] = ch /\ IFCPU_DATA_SIZE \in Nat
      /\ Len(Pending) \in Nat /\ Recovery \in Int /\ Recovery >= IFCPU_DATA_SIZE + 1 /\ Recovery >= MaxChunk - 1
      /\ MaxChunk \in Nat /\ clean \in Nat
  BY LenTaken, OctetIs, UsbShape
<1>4. /\ ch.place = 1 => n \in 1..IFCPU_DATA_SIZE
      /\ ch.place = 1 => n + 2 <= Len(Pending) \/ 1 + clean <= Len(Pending)
      /\ ch.place # 1 => 1 + clean <= Len(Pending)
  BY LenTaken
<1>5. Ends(Pending, rx_frame_state, 0, clean) /\ Sorted(Pending, posted, written) /\ Debt(rx_frame_state, frame) = 0
  BY <1>1 DEF UsbInv, Debt
<1>6. ASSUME NEW f \in due
      PROVE  \/ \E i \in 1..Len(posted) : posted[i] = f
             \/ \E m \in 1..IFCPU_DATA_SIZE : Lies(Pending, 1, f, m, 1) /\ ch.place = 1 /\ n = m
             \/ \E m \in 1..IFCPU_DATA_SIZE : \E p \in 1..Len(Pending) :
                   /\ Lies(Pending, p, f, m, 0) /\ Room(Pending, rx_frame_state, 0, p) /\ 1 < p
                   /\ ch.place = 1 => n + 2 < p
                   /\ ch.place # 1 => 1 + Recovery < p
  BY LenOwed DEF UsbInv
<1>7. CASE /\ n > IFCPU_DATA_SIZE
           /\ rx_frame_state' = "SOP" /\ chunk' = <<>>
           /\ UNCHANGED frame
  <2>1. chunk \in Seq(Octet) /\ stream \in Seq(Octet) /\ Len(chunk) \in Nat /\ Len(chunk) <= MaxChunk
    BY DEF UsbInv, UsbTypes
  <2>2. Dropped(chunk, Len(chunk), chunk') /\ Len(chunk) <= Len(chunk)
    BY <1>7, <2>1 DEF Dropped
  <2>3. Shorter(Pending, Pending', Len(chunk)) /\ chunk' \in Seq(Octet) /\ Len(chunk') <= MaxChunk
    <3>1. Shorter(chunk \o stream, chunk' \o stream, Len(chunk))
      BY ONLY <2>1, <2>2, DroppedShorter
    <3>. QED  BY <1>1, <1>3, <1>7, <3>1 DEF Pending
  <2>4. ch.place # 1 /\ n > IFCPU_DATA_SIZE
    BY <1>3, <1>4, <1>7
  <2>5. UsbTypes'
    BY <1>1, <1>7, <2>3 DEF UsbInv, UsbTypes
  <2>6. Sorted(Pending', posted, written)
    BY <1>5, <2>3, SortedShorter
  <2>7. Ends(Pending', rx_frame_state', 0, clean)
    <3>1. ~(0 > Len(Pending')) /\ rx_frame_state' # "LEN" /\ 0 \in Int
      BY <1>7, <2>3 DEF Shorter
    <3>. QED  BY <1>3, <1>5, <2>3, <3>1, EndsShorter
  <2>8. ASSUME NEW f \in due PROVE (\E i \in 1..Len(posted) : posted[i] = f) \/ Ahead(Pending', rx_frame_state', 0, f)
    <3>1. ASSUME NEW m \in 1..IFCPU_DATA_SIZE, NEW p \in 1..Len(Pending),
                 Lies(Pending, p, f, m, 0), Room(Pending, rx_frame_state, 0, p), 1 + Recovery < p
          PROVE  Ahead(Pending', rx_frame_state', 0, f)
      <4>1. Len(chunk) < p /\ 0 < p - Len(chunk) /\ rx_frame_state' # "LEN"
        BY <1>3, <1>7, <2>1, <3>1
      <4>. QED  BY <2>3, <3>1, <4>1, AheadShorter
    <3>. QED  BY <1>6, <2>4, <3>1
  <2>9. Debt(rx_frame_state', frame') = 0
    BY <1>7 DEF Debt
  <2>. QED  BY <1>1, <1>7, <2>5, <2>6, <2>7, <2>8, <2>9 DEF UsbInv, Owed
<1>8. CASE /\ n <= IFCPU_DATA_SIZE
           /\ frame' = [len |-> n, data |-> <<>>]
           /\ rx_frame_state' = "DATA" /\ chunk' = Tail(chunk)
  <2>1. /\ Shorter(Pending, Pending', 1) /\ chunk' \in Seq(Octet) /\ Len(chunk') <= MaxChunk
    BY <1>1, <1>8, TurnShorter
  <2>2. /\ frame'.len = n /\ frame'.data = <<>> /\ Len(frame'.data) = 0 /\ frame'.data \in Seq(Octet)
        /\ n \in 0..IFCPU_DATA_SIZE
    BY <1>3, <1>8
  <2>3. Debt(rx_frame_state', frame') = n + 1
    BY <1>3, <1>8, <2>2 DEF Debt
  <2>4. UsbTypes'
    <3>1. frame' \in [len : 0..IFCPU_DATA_SIZE, data : Seq(Octet)]
      BY <1>8, <2>2
    <3>2. Len(frame'.data) < frame'.len \/ (frame'.len = 0 /\ Len(frame'.data) = 0)
      BY <1>3, <2>2
    <3>. QED  BY <1>1, <1>8, <2>1, <3>1, <3>2 DEF UsbInv, UsbTypes
  <2>5. Sorted(Pending', posted, written)
    BY <1>5, <2>1, SortedShorter
  <2>6. Ends(Pending', rx_frame_state', n + 1, clean)
    <3>1. n + 1 > Len(Pending') => n + 1 - Len(Pending') + clean <= IFCPU_DATA_SIZE + 1
      <4>1. Len(Pending') = Len(Pending) - 1
        BY <2>1 DEF Shorter
      <4>. QED  BY <1>3, <1>4, <1>8, <4>1
    <3>2. rx_frame_state' # "LEN" /\ 0 \in Int /\ n + 1 \in Int
      BY <1>3, <1>8
    <3>. QED  BY <1>3, <1>5, <2>1, <3>1, <3>2, EndsShorter
  <2>7. ASSUME NEW f \in due
        PROVE  \/ \E i \in 1..Len(posted) : posted[i] = f
               \/ Reading(Pending', rx_frame_state', frame', f)
               \/ Ahead(Pending', rx_frame_state', n + 1, f)
    <3>1. ASSUME NEW m \in 1..IFCPU_DATA_SIZE, Lies(Pending, 1, f, m, 1), n = m
          PROVE  Reading(Pending', rx_frame_state', frame', f)
      <4>1. m \in Nat /\ m >= 1 /\ 2 \in 1 .. m + 2 /\ 2 <= m + 2 /\ 1 <= m + 2 /\ 1 + 1 = 1 + (2 - 1)
        BY <1>3
      <4>2. Lies(Pending', 1, f, m, 2)
        BY <1>3, <2>1, <3>1, <4>1, LiesShorter
      <4>3. Inside(rx_frame_state', frame', f, m, 2)
        <5>1. 2 = Len(frame'.data) + 2 /\ Len(frame'.data) < m /\ frame'.len = m
          BY <2>2, <3>1, <4>1
        <5>2. \A j \in 1..Len(frame'.data) : frame'.data[j] = UsbByte(f, m, j + 1)
          BY <2>2
        <5>. QED  BY <1>8, <5>1, <5>2 DEF Inside
      <4>. QED  BY <4>1, <4>2, <4>3 DEF Reading
    <3>2. ASSUME NEW m \in 1..IFCPU_DATA_SIZE, NEW p \in 1..Len(Pending),
                 Lies(Pending, p, f, m, 0), Room(Pending, rx_frame_state, 0, p), 1 < p,
                 ch.place = 1 => n + 2 < p, ch.place # 1 => 1 + Recovery < p
          PROVE  Ahead(Pending', rx_frame_state', n + 1, f)
      <4>1. n + 1 < p - 1 /\ rx_frame_state' # "LEN"
        BY <1>3, <1>8, <3>2
      <4>. QED  BY <2>1, <3>2, <4>1, AheadShorter
    <3>. QED  BY <1>6, <3>1, <3>2
  <2>. QED  BY <1>1, <2>3, <2>4, <2>5, <2>6, <2>7 DEF UsbInv, Owed
<1>. QED  BY <1>2, <1>7, <1>8

(* UsbRxData takes all that the frame lacks, or all that the chunk has. *)
LEMMA DataTaken ==
  ASSUME UsbInv, UsbRxData, rx_remain >= 0, NEW k, k = 1 + Copied,
         frame' = [frame EXCEPT !.data = @ \o SubSeq(chunk, 1, 1 + Copied)],
         chunk' = SubSeq(chunk, 2 + Copied, Len(chunk)),
         rx_frame_state' = IF Copied = rx_remain THEN "FCS" ELSE "DATA"
  PROVE  /\ Shorter(Pending, Pending', k) /\ chunk' \in Seq(Octet) /\ Len(chunk') <= MaxChunk
         /\ k \in Nat /\ k < Debt(rx_frame_state, frame)
         /\ rx_frame_state' \in {"DATA", "FCS"}
         /\ frame' \in [len : 0..IFCPU_DATA_SIZE, data : Seq(Octet)] /\ frame'.len = frame.len
         /\ Len(frame'.data) = Len(frame.data) + k
         /\ \A j \in 1..Len(frame'.data) :
               frame'.data[j] = IF j <= Len(frame.data) THEN frame.data[j] ELSE Pending[j - Len(frame.data)]
         /\ rx_frame_state' = "DATA" => Len(frame'.data) < frame.len
         /\ rx_frame_state' = "FCS" => Len(frame'.data) = frame.len
         /\ Debt(rx_frame_state', frame') = Debt(rx_frame_state, frame) - k
<1> DEFINE l == Len(frame.data)
           d == SubSeq(chunk, 1, k)
<1>1. /\ rx_frame_state = "DATA" /\ chunk # <<>> /\ stream' = stream
      /\ stream \in Seq(Octet) /\ chunk \in Seq(Octet) /\ Len(chunk) <= MaxChunk
      /\ frame \in [len : 0..IFCPU_DATA_SIZE, data : Seq(Octet)]
  BY DEF UsbRxData, Turn, UsbInv, UsbTypes
<1>2. /\ frame.len \in 0..IFCPU_DATA_SIZE /\ frame.data \in Seq(Octet) /\ l \in Nat
  BY <1>1
<1>3. /\ Len(chunk) \in Nat /\ Len(chunk) >= 1 /\ MaxChunk \in Nat /\ IFCPU_DATA_SIZE \in Nat
      /\ frame.len \in Nat
  <2>1. MaxChunk \in Nat /\ IFCPU_DATA_SIZE \in Nat
    BY OctetIs
  <2>. QED  BY <1>1, <1>2, <2>1
<1>16. rx_remain = frame.len - l - 1
  BY DEF rx_remain
<1> HIDE DEF l, d
<1>17. rx_remain \in Nat
  BY <1>2, <1>3, <1>16
<1>4. Copied = IF rx_remain < Len(chunk) - 1 THEN rx_remain ELSE Len(chunk) - 1
  <2>1. Len(Tail(chunk)) = Len(chunk) - 1
    BY <1>1, <1>3
  <2>. QED  BY <2>1 DEF Copied
<1>18. /\ k \in Nat /\ k >= 1 /\ k <= Len(chunk) /\ k <= rx_remain + 1 /\ 1 + Copied = k /\ 2 + Copied = k + 1
       /\ Copied = rx_remain <=> k = rx_remain + 1
  <2>1. k = 1 + Copied
    OBVIOUS
  <2>. QED  BY ONLY <1>3, <1>4, <1>17, <2>1
<1>5. rx_frame_state' = IF k = rx_remain + 1 THEN "FCS" ELSE "DATA"
  BY <1>18
<1>6. /\ Shorter(Pending, Pending', k) /\ chunk' \in Seq(Octet) /\ Len(chunk') <= MaxChunk
  <2>1. Dropped(chunk, k, chunk')
    BY <1>18 DEF Dropped
  <2>3. /\ chunk \in Seq(Octet) /\ stream \in Seq(Octet) /\ k \in Nat /\ k <= Len(chunk)
    BY <1>1, <1>18
  <2>2. /\ Shorter(chunk \o stream, chunk' \o stream, k) /\ chunk' \in Seq(Octet) /\ Len(chunk') = Len(chunk) - k
    BY ONLY <2>1, <2>3, DroppedShorter
  <2>4. Len(chunk') <= MaxChunk
    BY <1>1, <1>3, <2>2, <2>3
  <2>. QED  BY <1>1, <2>2, <2>4 DEF Pending
<1>7. /\ d \in Seq(Octet) /\ Len(d) = k /\ \A j \in 1..k : d[j] = chunk[j]
  <2>1. \A i \in 1..k : chunk[i] \in Octet
    BY <1>1, <1>18
  <2>. QED  BY <1>18, <2>1, SubSeqProperties DEF d
<1>8. /\ frame' = [frame EXCEPT !.data = @ \o d]
  BY <1>18 DEF d
<1>9. /\ frame.data \o d \in Seq(Octet) /\ Len(frame.data \o d) = l + k
      /\ \A j \in 1 .. l + k : (frame.data \o d)[j] = IF j <= l THEN frame.data[j] ELSE d[j - l]
  <2>1. l = Len(frame.data)
    BY DEF l
  <2>. QED  BY ONLY <1>2, <1>7, <2>1, ConcatProperties
<1>10. /\ frame' \in [len : 0..IFCPU_DATA_SIZE, data : Seq(Octet)]
       /\ frame'.len = frame.len /\ frame'.data = frame.data \o d
  BY <1>1, <1>8, <1>9
<1>11. \A j \in 1..k : Pending[j] = chunk[j]
  BY <1>1, <1>3, <1>18, ConcatProperties DEF Pending
<1>12. ASSUME NEW j \in 1..Len(frame'.data)
       PROVE  frame'.data[j] = IF j <= l THEN frame.data[j] ELSE Pending[j - l]
  <2>1. j \in 1 .. l + k /\ frame'.data[j] = IF j <= l THEN frame.data[j] ELSE d[j - l]
    BY <1>9, <1>10
  <2>2. ASSUME ~(j <= l) PROVE d[j - l] = Pending[j - l]
    <3>1. j - l \in 1..k
      <4>1. l \in Nat /\ k \in Nat /\ j \in 1 .. l + k /\ ~(j <= l)
        BY <1>2, <1>18, <2>1, <2>2
      <4>. QED  BY ONLY <4>1
    <3>. QED  BY <1>7, <1>11, <3>1
  <2>. QED  BY <2>1, <2>2
<1>13. Len(frame'.data) = l + k
  BY <1>9, <1>10
<1>14. /\ rx_frame_state' = "DATA" => l + k < frame.len
       /\ rx_frame_state' = "FCS" => l + k = frame.len
       /\ rx_frame_state' \in {"DATA", "FCS"}
  <2>1. CASE k = rx_remain + 1
    BY <1>2, <1>3, <1>5, <1>16, <1>18, <2>1
  <2>2. CASE k # rx_remain + 1
    BY <1>2, <1>3, <1>5, <1>16, <1>18, <2>2
  <2>. QED  BY <2>1, <2>2
<1>15. /\ Debt(rx_frame_state, frame) = frame.len - l + 1 /\ k < Debt(rx_frame_state, frame)
       /\ Debt(rx_frame_state', frame') = Debt(rx_frame_state, frame) - k
  <2>1. Debt(rx_frame_state, frame) = frame.len - l + 1
    BY <1>1 DEF Debt, l
  <2>2. /\ rx_frame_state' = "DATA" => Debt(rx_frame_state', frame') = frame.len - (l + k) + 1
        /\ rx_frame_state' = "FCS" => Debt(rx_frame_state', frame') = 1
    BY <1>10, <1>13 DEF Debt
  <2>3. k <= frame.len - l
    BY <1>2, <1>3, <1>16, <1>17, <1>18
  <2>4. l \in Nat /\ k \in Nat /\ frame.len \in Nat
    BY <1>2, <1>3, <1>18
  <2>5. Debt(rx_frame_state', frame') = frame.len - (l + k) + 1
    BY ONLY <1>14, <2>2, <2>4
  <2>. QED  BY ONLY <2>1, <2>3, <2>4, <2>5
<1>. QED  BY <1>6, <1>10, <1>12, <1>13, <1>14, <1>15, <1>18 DEF l

(* The parser goes on inside the frame of which it takes k bytes. *)
LEMMA DataReading ==
  ASSUME UsbInv, rx_frame_state = "DATA", NEW k \in Nat, Shorter(Pending, Pending', k),
         frame'.len = frame.len, Len(frame'.data) = Len(frame.data) + k,
         \A j \in 1..Len(frame'.data) :
            frame'.data[j] = IF j <= Len(frame.data) THEN frame.data[j] ELSE Pending[j - Len(frame.data)],
         rx_frame_state' \in {"DATA", "FCS"},
         rx_frame_state' = "DATA" => Len(frame'.data) < frame.len,
         rx_frame_state' = "FCS" => Len(frame'.data) = frame.len,
         NEW f, Reading(Pending, rx_frame_state, frame, f)
  PROVE  Reading(Pending', rx_frame_state', frame', f)
<1>1. PICK n \in 1..IFCPU_DATA_SIZE : \E i \in 1 .. n + 2 : Lies(Pending, 1, f, n, i) /\ Inside(rx_frame_state, frame, f, n, i)
  BY DEF Reading
<1>2. PICK i \in 1 .. n + 2 : Lies(Pending, 1, f, n, i) /\ Inside(rx_frame_state, frame, f, n, i)
  BY <1>1
<1> DEFINE l == Len(frame.data)
           l2 == Len(frame'.data)
<1>3. /\ n \in Nat /\ n >= 1 /\ l \in Nat /\ frame.len = n /\ i = l + 2 /\ l2 = l + k
      /\ \A j \in 1..l : frame.data[j] = UsbByte(f, n, j + 1)
  BY <1>2, OctetIs, UsbShape DEF Inside
<1>4. /\ \A j \in 1..l2 : frame'.data[j] = IF j <= l THEN frame.data[j] ELSE Pending[j - l]
      /\ rx_frame_state' = "DATA" => l2 < n
      /\ rx_frame_state' = "FCS" => l2 = n
  BY <1>3
<1> HIDE DEF l, l2
<1>5. l2 <= n /\ l2 + 2 \in 1 .. n + 2
  BY <1>3, <1>4
<1>6. Lies(Pending', 1, f, n, l2 + 2)
  <2>1. /\ 1 \in 1..Len(Pending) /\ i \in Nat /\ i <= n + 2 /\ l2 + 2 \in Nat /\ l2 + 2 <= n + 2 /\ i <= l2 + 2
        /\ 1 + k = 1 + ((l2 + 2) - i)
    <3>1. 1 + n + 2 - i <= Len(Pending) /\ Len(Pending) \in Nat
      BY <1>2, UsbShape DEF Lies
    <3>. QED  BY <1>3, <1>5, <3>1
  <2>. QED  BY <1>2, <1>3, <2>1, LiesShorter
<1>7. ASSUME NEW j \in 1..l2 PROVE frame'.data[j] = UsbByte(f, n, j + 1)
  <2>1. CASE j <= l
    <3>1. j \in 1..l
      BY <1>3, <2>1
    <3>. QED  BY <1>3, <1>4, <2>1, <3>1
  <2>2. CASE ~(j <= l)
    <3>1. frame'.data[j] = Pending[j - l]
      BY <1>4, <2>2
    <3>2. j + 1 \in i .. n + 2 /\ 1 + ((j + 1) - i) = j - l
      BY <1>3, <1>5, <2>2
    <3>3. Pending[1 + ((j + 1) - i)] = UsbByte(f, n, j + 1)
      BY <1>2, <3>2 DEF Lies
    <3>. QED  BY <3>1, <3>2, <3>3
  <2>. QED  BY <2>1, <2>2
<1>8. Inside(rx_frame_state', frame', f, n, l2 + 2)
  <2>1. CASE rx_frame_state' = "DATA"
    BY <1>3, <1>4, <1>7, <2>1 DEF Inside, l2
  <2>2. CASE rx_frame_state' = "FCS"
    BY <1>3, <1>4, <1>7, <2>2 DEF Inside, l2
  <2>. QED  BY <2>1, <2>2
<1>. QED  BY <1>5, <1>6, <1>8 DEF Reading

LEMMA RxDataInv ==
  ASSUME UsbInv, UsbRxData
  PROVE  UsbInv'
<1>1. /\ rx_frame_state = "DATA" /\ chunk # <<>> /\ stream' = stream
      /\ posted' = posted /\ written' = written /\ clean' = clean /\ due' = due
  BY DEF UsbRxData, Turn
<1>2. CASE rx_remain < 0 /\ crashed' = TRUE /\ UNCHANGED <<chunk, frame, rx_frame_state>>
  <2>1. Pending' = Pending
    BY <1>1, <1>2 DEF Pending
  <2>2. UsbTypes'
    BY <1>1, <1>2 DEF UsbInv, UsbTypes
  <2>. QED  BY <1>1, <1>2, <2>1, <2>2 DEF UsbInv
<1>3. CASE /\ rx_remain >= 0
           /\ frame' = [frame EXCEPT !.data = @ \o SubSeq(chunk, 1, 1 + Copied)]
           /\ chunk' = SubSeq(chunk, 2 + Copied, Len(chunk))
           /\ rx_frame_state' = IF Copied = rx_remain THEN "FCS" ELSE "DATA"
           /\ UNCHANGED crashed
  <2>1. PICK k : k = 1 + Copied
    OBVIOUS
  <2>2. /\ Shorter(Pending, Pending', k) /\ chunk' \in Seq(Octet) /\ Len(chunk') <= MaxChunk
        /\ k \in Nat /\ k < Debt(rx_frame_state, frame)
        /\ rx_frame_state' \in {"DATA", "FCS"}
        /\ frame' \in [len : 0..IFCPU_DATA_SIZE, data : Seq(Octet)] /\ frame'.len = frame.len
        /\ Len(frame'.data) = Len(frame.data) + k
        /\ \A j \in 1..Len(frame'.data) :
              frame'.data[j] = IF j <= Len(frame.data) THEN frame.data[j] ELSE Pending[j - Len(frame.data)]
        /\ rx_frame_state' = "DATA" => Len(frame'.data) < frame.len
        /\ rx_frame_state' = "FCS" => Len(frame'.data) = frame.len
        /\ Debt(rx_frame_state', frame') = Debt(rx_frame_state, frame) - k
    BY <1>3, <2>1, DataTaken
  <2>3. UsbTypes'
    BY <1>1, <2>2 DEF UsbInv, UsbTypes
  <2>4. Sorted(Pending', posted, written)
    BY <2>2, SortedShorter DEF UsbInv
  <2>5. /\ Debt(rx_frame_state, frame) \in Int /\ Debt(rx_frame_state', frame') \in Int /\ clean \in Nat
        /\ rx_frame_state' # "LEN" /\ Len(Pending) \in Nat /\ Len(Pending') = Len(Pending) - k
        /\ IFCPU_DATA_SIZE \in Nat
    <3>1. Debt(rx_frame_state, frame) \in Int /\ clean \in Nat
      BY UsbShape
    <3>2. Len(Pending) \in Nat /\ Len(Pending') = Len(Pending) - k /\ k \in Nat
      BY <2>2, ShorterIs
    <3>3. IFCPU_DATA_SIZE \in Nat
      BY OctetIs
    <3>. QED  BY <2>2, <3>1, <3>2, <3>3
  <2>6. Ends(Pending', rx_frame_state', Debt(rx_frame_state', frame'), clean)
    <3>1. Ends(Pending, rx_frame_state, Debt(rx_frame_state, frame), clean)
      BY DEF UsbInv
    <3>2. Debt(rx_frame_state', frame') > Len(Pending')
            => Debt(rx_frame_state', frame') - Len(Pending') + clean <= IFCPU_DATA_SIZE + 1
      <4>1. Debt(rx_frame_state, frame) > Len(Pending)
              => Debt(rx_frame_state, frame) - Len(Pending) + clean <= IFCPU_DATA_SIZE + 1
        BY <3>1 DEF Ends
      <4>2. Debt(rx_frame_state', frame') = Debt(rx_frame_state, frame) - k /\ k \in Nat
        BY <2>2
      <4>. QED  BY ONLY <2>5, <4>1, <4>2
    <3>. QED  BY <2>2, <2>5, <3>1, <3>2, EndsShorter
  <2>7. ASSUME NEW f \in due PROVE Owed(Pending', rx_frame_state', frame', posted, f)
    <3>1. Owed(Pending, rx_frame_state, frame, posted, f)
      BY DEF UsbInv
    <3>2. CASE Reading(Pending, rx_frame_state, frame, f)
      <4>1. Reading(Pending', rx_frame_state', frame', f)
        BY <1>1, <2>2, <3>2, DataReading
      <4>. QED  BY <4>1 DEF Owed
    <3>3. CASE Ahead(Pending, rx_frame_state, Debt(rx_frame_state, frame), f)
      <4>1. PICK n \in 1..IFCPU_DATA_SIZE : \E p \in 1..Len(Pending) :
              Lies(Pending, p, f, n, 0) /\ Room(Pending, rx_frame_state, Debt(rx_frame_state, frame), p)
        BY <3>3 DEF Ahead
      <4>2. PICK p \in 1..Len(Pending) :
              Lies(Pending, p, f, n, 0) /\ Room(Pending, rx_frame_state, Debt(rx_frame_state, frame), p)
        BY <4>1
      <4>3. Debt(rx_frame_state, frame) < p
        BY <4>2 DEF Room
      <4>4. k < p /\ Debt(rx_frame_state', frame') < p - k
        BY <2>2, <2>5, <4>3
      <4>5. Ahead(Pending', rx_frame_state', Debt(rx_frame_state', frame'), f)
        BY <2>2, <2>5, <4>2, <4>4, AheadShorter
      <4>. QED  BY <4>5 DEF Owed
    <3>. QED  BY <3>1, <3>2, <3>3 DEF Owed
  <2>. QED  BY <1>1, <2>3, <2>4, <2>6, <2>7 DEF UsbInv
<1>. QED  BY <1>2, <1>3 DEF UsbRxData

(* The frame that is owed and being read is good at its checksum. *)
LEMMA FcsGood ==
  ASSUME UsbInv, rx_frame_state = "FCS", 1 \in 1..Len(Pending), Pending[1] = ch,
         NEW f, Reading(Pending, rx_frame_state, frame, f)
  PROVE  Good /\ ch.of = f
<1>1. PICK n \in 1..IFCPU_DATA_SIZE : \E i \in 1 .. n + 2 : Lies(Pending, 1, f, n, i) /\ Inside(rx_frame_state, frame, f, n, i)
  BY DEF Reading
<1>2. PICK i \in 1 .. n + 2 : Lies(Pending, 1, f, n, i) /\ Inside(rx_frame_state, frame, f, n, i)
  BY <1>1
<1>3. /\ n \in Nat /\ n >= 1 /\ i = n + 2 /\ frame.len = n /\ Len(frame.data) = n /\ frame.data \in Seq(Octet)
      /\ \A j \in 1..n : frame.data[j] = UsbByte(f, n, j + 1)
  BY <1>2, OctetIs, UsbShape DEF Inside
<1>4. ch = UsbByte(f, n, n + 2)
  <2>1. n + 2 \in i .. n + 2 /\ 1 + ((n + 2) - i) = 1
    BY <1>3
  <2>2. Pending[1 + ((n + 2) - i)] = UsbByte(f, n, n + 2)
    BY <1>2, <2>1 DEF Lies
  <2>. QED  BY <2>1, <2>2
<1>5. ch.of = f /\ ch.len = n /\ ch.place = n + 2
  BY ONLY <1>4 DEF UsbByte
<1>6. SubSeq(Bytes(f, n), 3, n + 2) = frame.data
  <2> DEFINE b == Bytes(f, n)
             d == SubSeq(b, 3, n + 2)
  <2>1. \A j \in 1 .. n + 3 : b[j] = UsbByte(f, n, j - 1)
    BY DEF Bytes
  <2> HIDE DEF b
  <2>2. ASSUME NEW j \in 3 .. n + 2 PROVE b[j] \in Octet
    <3>1. j \in 1 .. n + 3 /\ j - 2 \in 1..n /\ (j - 2) + 1 = j - 1
      BY <1>3
    <3>2. b[j] = frame.data[j - 2]
      BY <1>3, <2>1, <3>1
    <3>. QED  BY <1>3, <3>1, <3>2
  <2>3. /\ d \in Seq(Octet) /\ Len(d) = n
        /\ \A j \in 1..n : d[j] = b[3 + j - 1]
    BY <1>3, <2>2, SubSeqProperties
  <2> HIDE DEF d
  <2>4. ASSUME NEW j \in 1..n PROVE d[j] = frame.data[j]
    <3>1. 3 + j - 1 \in 1 .. n + 3 /\ (3 + j - 1) - 1 = j + 1
      BY <1>3
    <3>2. b[3 + j - 1] = UsbByte(f, n, j + 1)
      BY <2>1, <3>1
    <3>. QED  BY <1>3, <2>3, <3>2
  <2>5. d = frame.data
    <3>1. Len(d) = Len(frame.data) /\ \A j \in 1..Len(d) : d[j] = frame.data[j]
      BY <1>3, <2>3, <2>4
    <3>. QED  BY <1>3, <2>3, <3>1, SeqEqual
  <2>. QED  BY <2>5 DEF d, b
<1>. QED  BY <1>3, <1>5, <1>6 DEF Good

LEMMA RxFcsInv ==
  ASSUME UsbInv, UsbRxFcs
  PROVE  UsbInv'
<1>1. /\ rx_frame_state = "FCS" /\ chunk # <<>> /\ chunk' = Tail(chunk) /\ stream' = stream
      /\ rx_frame_state' = "SOP" /\ posted' = IF Good THEN Append(posted, ch.of) ELSE posted
      /\ frame' = frame /\ written' = written /\ clean' = clean /\ due' = due
  BY DEF UsbRxFcs, Turn
<1>2. /\ Shorter(Pending, Pending', 1) /\ chunk' \in Seq(Octet) /\ Len(chunk') <= MaxChunk
      /\ Pending[1] = ch /\ ch \in Octet /\ 1 \in 1..Len(Pending) /\ Len(Pending) \in Nat
  BY <1>1, TurnShorter
<1>3. ch.of \in Nat /\ posted \in Seq(Nat)
  BY <1>2, OctetIs, UsbShape
<1>4. /\ posted' \in Seq(Nat) /\ \A i \in 1..Len(posted) : i \in 1..Len(posted') /\ posted'[i] = posted[i]
      /\ Good => \E i \in 1..Len(posted') : posted'[i] = ch.of
  <2>1. CASE Good
    <3>1. posted' = Append(posted, ch.of)
      BY <1>1, <2>1
    <3>2. /\ posted' \in Seq(Nat) /\ Len(posted') = Len(posted) + 1 /\ posted'[Len(posted) + 1] = ch.of
          /\ \A i \in 1..Len(posted) : posted'[i] = posted[i]
      BY <1>3, <3>1
    <3>3. Len(posted) \in Nat /\ Len(posted) + 1 \in 1..Len(posted')
      BY <1>3, <3>2
    <3>. QED  BY <3>2, <3>3
  <2>2. CASE ~Good
    BY <1>1, <1>3, <2>2
  <2>. QED  BY <2>1, <2>2
<1>5. UsbTypes'
  BY <1>1, <1>2, <1>4 DEF UsbInv, UsbTypes
<1>6. Sorted(Pending', posted', written)
  <2>1. Sorted(Pending, posted, written)
    BY DEF UsbInv
  <2>2. CASE Good
    <3>1. Pending[1].place = Pending[1].len + 2 /\ posted' = Append(posted, Pending[1].of)
      BY <1>1, <1>2, <2>2 DEF Good
    <3>. QED  BY <1>2, <1>3, <2>1, <3>1, SortedPosted
  <2>3. CASE ~Good
    BY <1>1, <1>2, <2>1, <2>3, SortedShorter
  <2>. QED  BY <2>2, <2>3
<1>7. Debt(rx_frame_state, frame) = 1 /\ Debt(rx_frame_state', frame') = 0
  BY <1>1 DEF Debt
<1>8. Ends(Pending', rx_frame_state', 0, clean)
  <2>1. Ends(Pending, rx_frame_state, 1, clean) /\ clean \in Nat /\ 0 \in Int /\ 1 \in Int /\ ~(0 > Len(Pending'))
        /\ rx_frame_state' # "LEN"
    BY <1>1, <1>2, <1>7, UsbShape DEF UsbInv, Shorter
  <2>. QED  BY <1>2, <2>1, EndsShorter
<1>9. ASSUME NEW f \in due PROVE Owed(Pending', rx_frame_state', frame', posted', f)
  <2>1. Owed(Pending, rx_frame_state, frame, posted, f)
    BY DEF UsbInv
  <2>2. CASE \E i \in 1..Len(posted) : posted[i] = f
    BY <1>4, <2>2 DEF Owed
  <2>3. CASE Reading(Pending, rx_frame_state, frame, f)
    <3>1. Good /\ ch.of = f
      BY <1>1, <1>2, <2>3, FcsGood
    <3>. QED  BY <1>4, <3>1 DEF Owed
  <2>4. CASE Ahead(Pending, rx_frame_state, 1, f)
    <3>1. PICK n \in 1..IFCPU_DATA_SIZE :
            \E p \in 1..Len(Pending) : Lies(Pending, p, f, n, 0) /\ Room(Pending, rx_frame_state, 1, p)
      BY <2>4 DEF Ahead
    <3>2. PICK p \in 1..Len(Pending) : Lies(Pending, p, f, n, 0) /\ Room(Pending, rx_frame_state, 1, p)
      BY <3>1
    <3>3. 1 < p /\ 0 < p - 1 /\ rx_frame_state' # "LEN"
      BY <1>1, <3>2 DEF Room
    <3>4. Ahead(Pending', rx_frame_state', 0, f)
      BY <1>2, <3>2, <3>3, AheadShorter
    <3>. QED  BY <1>7, <3>4 DEF Owed
  <2>. QED  BY <1>7, <2>1, <2>2, <2>3, <2>4 DEF Owed
<1>. QED  BY <1>1, <1>5, <1>6, <1>7, <1>8, <1>9 DEF UsbInv

(* The parser of the USB stick receives every frame once and in order, however
   the line is cut into chunks, but those that a damaged one may cost.     *)
THEOREM UsbStaysInStep == UsbSpec => []UsbInStep
<1>1. UsbInit => UsbInv
  BY UsbInitInv
<1>2. UsbInv /\ [UsbNext]_usbVars => UsbInv'
  <2> SUFFICES ASSUME UsbInv, [UsbNext]_usbVars PROVE UsbInv'
    OBVIOUS
  <2>1. CASE UNCHANGED usbVars
    <3>1. /\ stream' = stream /\ chunk' = chunk /\ rx_frame_state' = rx_frame_state /\ frame' = frame
          /\ posted' = posted /\ written' = written /\ clean' = clean /\ due' = due
      BY <2>1 DEF usbVars
    <3>. QED  BY <3>1 DEF UsbInv, UsbTypes, Pending
  <2>. QED  BY <2>1, WriteInv, ReadInv, RxSopInv, RxLenInv, RxDataInv, RxFcsInv DEF UsbNext
<1>3. UsbInv => UsbInStep
  BY UsbInvInStep
<1>. QED  BY <1>1, <1>2, <1>3, PTL DEF UsbSpec

-----------------------------------------------------------------------------
(* The console.  Of the lines ls, l is being read; line k begins in the keyboard ks after
   the first from[k] characters, which is less than none for what was already read.     *)
Pressed == [char : STRING \cup {"NUL"}, of : Nat]
Key(ls, l, j) == [char |-> ls[l][j], of |-> l]
Comes(ls, ks, from, l) ==
  /\ l \in 1 .. Len(ls) + 1
  /\ from[Len(ls) + 1] = Len(ks) /\ from[l] <= 0 /\ (l <= Len(ls) => from[l + 1] >= 1)
  /\ \A k \in l..Len(ls) : from[k + 1] = from[k] + Len(ls[k])
  /\ \A k \in l..Len(ls) : \A j \in 1..Len(ls[k]) :
       from[k] + j >= 1 => from[k] + j <= Len(ks) /\ ks[from[k] + j] = Key(ls, k, j)

Later(from, ls, ks, line) == [from EXCEPT ![Len(ls) + 2] = Len(ks) + Len(line)]
Row(line, l) == [i \in DOMAIN line |-> [char |-> line[i], of |-> l]]

(* The buffer holds the end of the n characters read of line l, and all of them if the line fits. *)
Gathered(ls, buf, c, n, l) ==
  /\ c <= n
  /\ l <= Len(ls) /\ Len(ls[l]) <= CMD_BUFFER_SIZE => c = n
  /\ \A i \in 0 .. c - 1 : buf[i] = Key(ls, l, n - c + i + 1)

(* What was posted is the end of a line that was read, in order, and of every line that fits. *)
EndOf(ls, l, n) == [i \in 1..n |-> Key(ls, l, Len(ls[l]) - n + i)]
IsEnd(ls, text, l) ==
  /\ LineOf(text) \in 1 .. l - 1
  /\ \E n \in 1..Len(ls[LineOf(text)]) :
       /\ text = EndOf(ls, LineOf(text), n)
       /\ Len(ls[LineOf(text)]) <= CMD_BUFFER_SIZE => n = Len(ls[LineOf(text)])
Whole(ls, k) == EndOf(ls, k, Len(ls[k]))
Posted(ls, con, rn, l) ==
  /\ \A i \in 1..Len(con) : IsEnd(ls, con[i], l)
  /\ \A r \in 1..Len(rn) : IsEnd(ls, rn[r], l) /\ Word(rn[r]) \in lgn_cmd_table
  /\ \A i, j \in 1..Len(con) : i < j => LineOf(con[i]) < LineOf(con[j])
  /\ \A r, s \in 1..Len(rn) : r < s => LineOf(rn[r]) < LineOf(rn[s])
  /\ \A r \in 1..Len(rn), i \in 1..Len(con) : LineOf(rn[r]) < LineOf(con[i])
  /\ \A k \in 1 .. l - 1 : Len(ls[k]) <= CMD_BUFFER_SIZE =>
       \/ \E i \in 1..Len(con) : con[i] = Whole(ls, k)
       \/ \E r \in 1..Len(rn) : rn[r] = Whole(ls, k)
       \/ Word(Whole(ls, k)) \notin lgn_cmd_table

KeyTypes ==
  /\ lines \in Seq(Line) /\ keys \in Seq(Pressed) /\ cmd_buf \in [0..CMD_BUFFER_SIZE -> Pressed]
  /\ console \in Seq(Seq(Pressed)) /\ ran \in Seq(Seq(Pressed)) /\ char_index \in 0..CMD_BUFFER_SIZE
ConsoleInv ==
  /\ KeyTypes
  /\ \E from \in [Nat -> Int], l \in Nat : /\ Comes(lines, keys, from, l)
                                          /\ Gathered(lines, cmd_buf, char_index, 0 - from[l], l)
                                          /\ Posted(lines, console, ran, l)

LEMMA LineFacts ==
  ASSUME NEW ls \in Seq(Line)
  PROVE  /\ Len(ls) \in Nat
         /\ \A k \in 1..Len(ls) : /\ ls[k] \in Seq(STRING) /\ Len(ls[k]) \in Nat \ {0}
                                  /\ DOMAIN ls[k] = 1..Len(ls[k])
         /\ \A k \in 1..Len(ls) : \A j \in 1..Len(ls[k]) :
              /\ Key(ls, k, j) \in Pressed /\ Key(ls, k, j) # NUL
              /\ Key(ls, k, j).char = "\n" <=> j = Len(ls[k])
<1>1. ASSUME NEW k \in 1..Len(ls)
      PROVE  /\ ls[k] \in Seq(STRING) /\ Len(ls[k]) \in Nat \ {0} /\ DOMAIN ls[k] = 1..Len(ls[k])
             /\ \A j \in 1..Len(ls[k]) : ls[k][j] = "\n" <=> j = Len(ls[k])
  <2>1. ls[k] \in Line
    OBVIOUS
  <2>2. PICK s : s = ls[k] /\ s \in Seq(STRING) /\ s # <<>> /\ \A i \in DOMAIN s : s[i] = "\n" <=> i = Len(s)
    BY <2>1, LinesEnd
  <2>3. Len(s) \in Nat \ {0} /\ DOMAIN s = 1..Len(s)
    BY <2>2
  <2>. QED  BY <2>2, <2>3
<1>2. ASSUME NEW k \in 1..Len(ls), NEW j \in 1..Len(ls[k])
      PROVE  /\ Key(ls, k, j) \in Pressed /\ Key(ls, k, j) # NUL
             /\ Key(ls, k, j).char = "\n" <=> j = Len(ls[k])
  <2>1. ls[k][j] \in STRING /\ k \in Nat /\ k # 0
    BY <1>1
  <2>. QED  BY <1>1, <2>1 DEF Key, Pressed, NUL
<1>. QED  BY <1>1, <1>2

LEMMA NulPressed == NUL \in Pressed
BY DEF NUL, Pressed

(* The end of a line is a text of it. *)
LEMMA EndFacts ==
  ASSUME NEW ls \in Seq(Line), NEW k \in 1..Len(ls), NEW n \in 1..Len(ls[k])
  PROVE  /\ EndOf(ls, k, n) \in Seq(Pressed) /\ Len(EndOf(ls, k, n)) = n /\ LineOf(EndOf(ls, k, n)) = k
         /\ Len(ls[k]) \in Nat /\ n \in Nat
<1>1. Len(ls[k]) \in Nat /\ n \in Nat /\ n # 0 /\ \A j \in 1..Len(ls[k]) : Key(ls, k, j) \in Pressed
  BY LineFacts
<1>2. \A i \in 1..n : Len(ls[k]) - n + i \in 1..Len(ls[k])
  BY <1>1
<1>3. EndOf(ls, k, n) \in [1..n -> Pressed]
  BY <1>1, <1>2 DEF EndOf
<1>4. EndOf(ls, k, n)[1].of = k
  BY <1>1 DEF EndOf, Key
<1>. QED  BY <1>1, <1>3, <1>4 DEF LineOf

(* The next character is of the line being read. *)
LEMMA NextKey ==
  ASSUME NEW ls \in Seq(Line), NEW ks \in Seq(Pressed), NEW from \in [Nat -> Int], NEW l \in Nat, Comes(ls, ks, from, l), ks # <<>>
  PROVE  /\ l \in 1..Len(ls) /\ 1 - from[l] \in 1..Len(ls[l]) /\ Head(ks) = Key(ls, l, 1 - from[l])
         /\ from[l] \in Int /\ from[l] <= 0 /\ from[l + 1] \in Int
<1>1. Len(ls) \in Nat /\ Len(ks) \in Nat /\ Len(ks) # 0 /\ Head(ks) = ks[1]
  BY LineFacts
<1>2. l \in 1 .. Len(ls) + 1 /\ from[l] \in Int /\ from[l + 1] \in Int /\ from[l] <= 0 /\ from[Len(ls) + 1] = Len(ks)
  BY <1>1 DEF Comes
<1>3. l \in 1..Len(ls)
  <2>1. ASSUME l = Len(ls) + 1 PROVE FALSE
    <3>1. from[l] = Len(ks)
      BY <1>2, <2>1
    <3>. QED  BY <1>1, <1>2, <3>1
  <2>2. Len(ls) \in Nat /\ l \in 1 .. Len(ls) + 1 /\ l # Len(ls) + 1
    BY <1>1, <1>2, <2>1
  <2>. QED  BY <2>2
<1>4. from[l + 1] >= 1 /\ from[l + 1] = from[l] + Len(ls[l]) /\ Len(ls[l]) \in Nat
  BY <1>1, <1>3, LineFacts DEF Comes
<1>5. 1 - from[l] \in 1..Len(ls[l]) /\ from[l] + (1 - from[l]) = 1
  <2>1. PICK x \in Int, m \in Nat : x = from[l] /\ m = Len(ls[l]) /\ x <= 0 /\ x + m >= 1
    BY <1>2, <1>4
  <2>2. 1 - x \in 1..m
    BY <2>1
  <2>3. x + (1 - x) = 1
    OBVIOUS
  <2>. QED  BY <2>1, <2>2, <2>3
<1>6. \A j \in 1..Len(ls[l]) : from[l] + j >= 1 => ks[from[l] + j] = Key(ls, l, j)
  <2>1. l \in l..Len(ls)
    BY <1>1, <1>3
  <2>. QED  BY <2>1 DEF Comes
<1>7. ks[1] = Key(ls, l, 1 - from[l])
  BY <1>5, <1>6
<1>. QED  BY <1>1, <1>2, <1>3, <1>5, <1>7

(* When it has been read. *)
LEMMA ReadOn ==
  ASSUME NEW ls \in Seq(Line), NEW ks \in Seq(Pressed), NEW from \in [Nat -> Int], NEW l \in Nat, Comes(ls, ks, from, l), ks # <<>>, 
         NEW to \in [Nat -> Int], \A k \in Nat : to[k] = from[k] - 1
  PROVE  /\ 1 - from[l] = Len(ls[l]) => Comes(ls, Tail(ks), to, l + 1) /\ to[l + 1] = 0
         /\ 1 - from[l] # Len(ls[l]) => Comes(ls, Tail(ks), to, l) /\ to[l] = from[l] - 1
<1>1. /\ l \in 1..Len(ls) /\ 1 - from[l] \in 1..Len(ls[l]) /\ from[l] \in Int /\ from[l + 1] \in Int
      /\ Len(ls) \in Nat /\ Len(ls[l]) \in Nat
  BY NextKey, LineFacts
<1>2. Len(ks) \in Nat /\ Len(Tail(ks)) = Len(ks) - 1 /\ \A i \in 1..Len(ks) - 1 : Tail(ks)[i] = ks[i + 1]
  OBVIOUS
<1>3. \A k \in Nat : to[k] = from[k] - 1 /\ from[k] \in Int /\ k + 1 \in Nat
  OBVIOUS
<1>4. to[Len(ls) + 1] = Len(Tail(ks))
  <2>1. from[Len(ls) + 1] = Len(ks)
    BY DEF Comes
  <2>2. Len(ls) + 1 \in Nat
    BY <1>1
  <2>3. to[Len(ls) + 1] = Len(ks) - 1
    BY <1>3, <2>1, <2>2
  <2>. QED  BY <1>2, <2>3
<1>5. \A k \in l..Len(ls) : to[k + 1] = to[k] + Len(ls[k])
  <2>1. ASSUME NEW k \in l..Len(ls) PROVE to[k + 1] = to[k] + Len(ls[k])
    <3>1. from[k + 1] = from[k] + Len(ls[k])
      BY <2>1 DEF Comes
    <3>2. k \in Nat /\ k + 1 \in Nat
      BY <1>1
    <3>3. k \in 1..Len(ls)
      BY <1>1
    <3>4. Len(ls[k]) \in Nat
      BY <3>3, LineFacts
    <3>5. to[k] = from[k] - 1 /\ to[k + 1] = from[k + 1] - 1 /\ from[k] \in Int /\ from[k + 1] \in Int
      BY <1>3, <3>2
    <3>6. PICK x, y \in Int, n \in Nat : x = from[k] /\ y = from[k + 1] /\ n = Len(ls[k])
      BY <3>4, <3>5
    <3>7. y = x + n /\ to[k] = x - 1 /\ to[k + 1] = y - 1
      BY <3>1, <3>5, <3>6
    <3>8. (x + n) - 1 = (x - 1) + n
      OBVIOUS
    <3>. QED  BY <3>6, <3>7, <3>8
  <2>. QED  BY <2>1
<1>6. ASSUME NEW k \in l..Len(ls), NEW j \in 1..Len(ls[k]), to[k] + j >= 1
      PROVE  to[k] + j <= Len(Tail(ks)) /\ Tail(ks)[to[k] + j] = Key(ls, k, j)
  <2>1. k \in Nat /\ k \in 1..Len(ls)
    BY <1>1
  <2>2. j \in Nat
    BY <2>1, LineFacts
  <2>3. PICK x \in Int : x = from[k] /\ to[k] = x - 1
    BY <1>3, <2>1
  <2>4. x - 1 + j >= 1 /\ x + j >= 1
    BY <1>6, <2>2, <2>3
  <2>5. x + j <= Len(ks) /\ ks[x + j] = Key(ls, k, j)
    <3>1. from[k] + j >= 1 => from[k] + j <= Len(ks) /\ ks[from[k] + j] = Key(ls, k, j)
      BY DEF Comes
    <3>. QED  BY <2>3, <2>4, <3>1
  <2>6. x - 1 + j \in 1..Len(ks) - 1 /\ (x - 1 + j) + 1 = x + j /\ x - 1 + j <= Len(ks) - 1
    BY <1>2, <2>2, <2>4, <2>5
  <2>. QED  BY <1>2, <2>3, <2>5, <2>6
<1>7. from[l + 1] = from[l] + Len(ls[l]) /\ from[l + 1] >= 1 /\ from[l] <= 0
  <2>1. l <= Len(ls) /\ l \in l..Len(ls)
    BY <1>1
  <2>. QED  BY <2>1 DEF Comes
<1>10. PICK x, y \in Int, n \in Nat : x = from[l] /\ y = from[l + 1] /\ n = Len(ls[l])
  BY <1>1
<1>11. y = x + n /\ y >= 1 /\ x <= 0 /\ (1 - x = n => y = 1) /\ (1 - x # n => y >= 2)
  <2>1. y = x + n /\ y >= 1 /\ x <= 0
    BY <1>7, <1>10
  <2>. QED  BY <2>1
<1>8. ASSUME 1 - from[l] = Len(ls[l]) PROVE Comes(ls, Tail(ks), to, l + 1) /\ to[l + 1] = 0
  <2>1. to[l + 1] = 0
    <3>1. from[l + 1] = 1
      BY <1>8, <1>10, <1>11
    <3>2. l + 1 \in Nat
      OBVIOUS
    <3>. QED  BY <1>3, <3>1, <3>2
  <2>2. l + 1 <= Len(ls) => to[l + 1 + 1] >= 1
    <3>1. ASSUME l + 1 <= Len(ls) PROVE to[l + 1 + 1] >= 1
      <4>1. l + 1 \in l..Len(ls) /\ l + 1 \in 1..Len(ls)
        BY <1>1, <3>1
      <4>2. to[l + 1 + 1] = to[l + 1] + Len(ls[l + 1])
        BY <1>5, <4>1
      <4>3. Len(ls[l + 1]) \in Nat \ {0}
        BY <4>1, LineFacts
      <4>4. to[l + 1 + 1] = 0 + Len(ls[l + 1])
        BY <2>1, <4>2
      <4>5. PICK m \in Nat \ {0} : m = Len(ls[l + 1])
        BY <4>3
      <4>6. 0 + m >= 1
        OBVIOUS
      <4>. QED  BY <4>4, <4>5, <4>6
    <3>. QED  BY <3>1
  <2>3. l + 1 \in 1 .. Len(ls) + 1 /\ \A k \in l + 1 .. Len(ls) : k \in l..Len(ls)
    BY <1>1
  <2>4. \A k \in l + 1 .. Len(ls) : \A j \in 1..Len(ls[k]) :
          to[k] + j >= 1 => to[k] + j <= Len(Tail(ks)) /\ Tail(ks)[to[k] + j] = Key(ls, k, j)
    BY <1>6, <2>3 DEF Key
  <2>5. to[l + 1] <= 0
    BY <2>1
  <2>. QED  BY <1>4, <1>5, <2>1, <2>2, <2>3, <2>4, <2>5 DEF Comes
<1>9. ASSUME 1 - from[l] # Len(ls[l]) PROVE Comes(ls, Tail(ks), to, l) /\ to[l] = from[l] - 1
  <2>1. from[l + 1] >= 2
    BY <1>9, <1>10, <1>11
  <2>2. to[l] = from[l] - 1 /\ to[l + 1] = from[l + 1] - 1
    BY <1>3
  <2>3. to[l] <= 0 /\ to[l + 1] >= 1
    <3>1. to[l] = x - 1 /\ to[l + 1] = y - 1 /\ y >= 2
      BY <1>10, <2>1, <2>2
    <3>. QED  BY <1>11, <3>1
  <2>4. l \in 1 .. Len(ls) + 1
    BY <1>1
  <2>5. \A k \in l .. Len(ls) : \A j \in 1..Len(ls[k]) :
          to[k] + j >= 1 => to[k] + j <= Len(Tail(ks)) /\ Tail(ks)[to[k] + j] = Key(ls, k, j)
    BY <1>6 DEF Key
  <2>. QED  BY <1>4, <1>5, <2>2, <2>3, <2>4, <2>5 DEF Comes
<1>. QED  BY <1>8, <1>9

(* A line typed comes last. *)
LEMMA TypedComes ==
  ASSUME NEW ls \in Seq(Line), NEW ks \in Seq(Pressed), NEW from \in [Nat -> Int], NEW l \in Nat, Comes(ls, ks, from, l),
         NEW line \in Line
  PROVE  /\ Comes(Append(ls, line), ks \o Row(line, Len(ls) + 1), Later(from, ls, ks, line), l)
         /\ Later(from, ls, ks, line) \in [Nat -> Int] /\ Later(from, ls, ks, line)[l] = from[l]
         /\ Row(line, Len(ls) + 1) \in Seq(Pressed) /\ (l = Len(ls) + 1 => from[l] = 0)
<1>1. Len(ls) \in Nat /\ Len(ks) \in Nat /\ l \in 1 .. Len(ls) + 1 /\ from[Len(ls) + 1] = Len(ks) /\ from[l] <= 0
  BY DEF Comes
<1>2. line \in Seq(STRING) /\ Len(line) \in Nat \ {0} /\ DOMAIN line = 1..Len(line)
  BY LinesEnd
<1>. DEFINE more == Row(line, Len(ls) + 1)
<1>15. PICK to \in [Nat -> Int] : /\ to = Later(from, ls, ks, line) /\ to[Len(ls) + 2] = Len(ks) + Len(line)
                                  /\ \A k \in 1 .. Len(ls) + 1 : to[k] = from[k]
  <2>1. Len(ks) + Len(line) \in Int /\ Len(ls) + 2 \in Nat /\ \A k \in 1 .. Len(ls) + 1 : k \in Nat /\ k # Len(ls) + 2
    BY <1>1, <1>2
  <2>2. PICK v \in Int, at \in Nat : v = Len(ks) + Len(line) /\ at = Len(ls) + 2
    BY <2>1
  <2>3. Later(from, ls, ks, line) = [from EXCEPT ![at] = v]
    BY <2>2 DEF Later
  <2>4. /\ [from EXCEPT ![at] = v] \in [Nat -> Int] /\ [from EXCEPT ![at] = v][at] = v
        /\ \A k \in Nat : k # at => [from EXCEPT ![at] = v][k] = from[k]
    OBVIOUS
  <2>. QED  BY <2>1, <2>2, <2>3, <2>4
<1>3. more \in Seq(Pressed) /\ Len(more) = Len(line) /\ \A j \in 1..Len(line) : more[j] = [char |-> line[j], of |-> Len(ls) + 1]
  <2>1. \A j \in 1..Len(line) : line[j] \in STRING
    BY <1>2
  <2>2. more \in [1..Len(line) -> Pressed]
    <3>1. Len(ls) + 1 \in Nat
      BY <1>1
    <3>2. \A j \in 1..Len(line) : [char |-> line[j], of |-> Len(ls) + 1] \in Pressed
      BY <2>1, <3>1 DEF Pressed
    <3>3. more = [j \in 1..Len(line) |-> [char |-> line[j], of |-> Len(ls) + 1]]
      BY <1>2 DEF Row
    <3>. QED  BY <3>2, <3>3
  <2>. QED  BY <1>2, <2>2 DEF Row
<1>. HIDE DEF more
<1>4. PICK n \in Nat, m \in Nat, h \in Nat \ {0} : n = Len(ls) /\ m = Len(ks) /\ h = Len(line)
  BY <1>1, <1>2
<1>5. /\ to[n + 2] = m + h /\ from[n + 1] = m
      /\ \A k \in 1 .. n + 1 : to[k] = from[k] /\ from[k] \in Int
  <2>1. n + 2 \in Nat /\ \A k \in 1 .. n + 1 : k # n + 2 /\ k \in Nat
    BY <1>4
  <2>. QED  BY <1>1, <1>4, <1>15, <2>1
<1>6. /\ Len(Append(ls, line)) = n + 1 /\ Append(ls, line)[n + 1] = line
      /\ \A k \in 1..n : Append(ls, line)[k] = ls[k]
  BY <1>1, <1>4
<1>7. /\ Len(ks \o more) = m + h /\ \A i \in 1..m : (ks \o more)[i] = ks[i]
      /\ \A j \in 1..h : (ks \o more)[m + j] = more[j]
  <2>1. /\ Len(ks \o more) = m + h
        /\ \A i \in 1 .. m + h : (ks \o more)[i] = IF i <= m THEN ks[i] ELSE more[i - m]
    <3>1. ks \in Seq(Pressed) /\ more \in Seq(Pressed)
      BY <1>3
    <3>2. /\ Len(ks \o more) = Len(ks) + Len(more)
          /\ \A i \in 1 .. Len(ks) + Len(more) : (ks \o more)[i] = IF i <= Len(ks) THEN ks[i] ELSE more[i - Len(ks)]
      BY <3>1, ConcatProperties
    <3>. QED  BY <1>3, <1>4, <3>2
  <2>2. \A j \in 1..h : m + j \in 1 .. m + h /\ ~(m + j <= m) /\ (m + j) - m = j
    <3>1. \A j \in Nat : (m + j) - m = j
      OBVIOUS
    <3>2. ASSUME NEW j \in 1..h PROVE j \in Nat /\ m + j \in 1 .. m + h /\ ~(m + j <= m)
      <4>1. m \in Nat /\ h \in Nat /\ j \in Nat /\ 1 <= j /\ j <= h
        BY <1>4
      <4>. QED  BY <4>1
    <3>. QED  BY <3>1, <3>2
  <2>3. \A i \in 1..m : i \in 1 .. m + h /\ i <= m
    BY <1>4
  <2>. QED  BY <2>1, <2>2, <2>3
<1>8. to[l] = from[l] /\ l \in 1 .. n + 2
  BY <1>1, <1>4, <1>5
<1>9. l <= n + 1 => to[l + 1] >= 1
  <2>1. CASE l = n + 1
    <3>1. to[l + 1] = m + h
      <4>1. l + 1 = n + 2
        BY <1>4, <2>1
      <4>. QED  BY <1>5, <4>1
    <3>2. m + h >= 1
      BY <1>4
    <3>. QED  BY <3>1, <3>2
  <2>2. CASE l \in 1..n
    <3>1. l + 1 \in 1 .. n + 1 /\ l <= Len(ls)
      BY <1>4, <2>2
    <3>. QED  BY <1>5, <3>1 DEF Comes
  <2>3. l <= n + 1 => l = n + 1 \/ l \in 1..n
    <3>1. l \in Nat /\ l >= 1 /\ n \in Nat
      BY <1>4, <1>8
    <3>. QED  BY <3>1
  <2>. QED  BY <2>1, <2>2, <2>3
<1>14. \A k \in l .. n + 1 : k = n + 1 \/ k \in 1..n
  <2>1. l \in Nat /\ l >= 1 /\ n \in Nat
    BY <1>4, <1>8
  <2>. QED  BY <2>1
<1>10. ASSUME NEW k \in l .. n + 1 PROVE to[k + 1] = to[k] + Len(Append(ls, line)[k])
  <2>1. CASE k = n + 1
    <3>1. k + 1 = n + 2 /\ k \in 1 .. n + 1
      BY <1>4, <2>1
    <3>2. to[k + 1] = m + h /\ to[k] = m
      BY <1>5, <2>1, <3>1
    <3>. QED  BY <1>4, <1>6, <2>1, <3>2
  <2>2. CASE k \in 1..n
    <3>1. k + 1 \in 1 .. n + 1 /\ k \in l..Len(ls) /\ k \in 1 .. n + 1
      BY <1>1, <1>4, <2>2
    <3>2. from[k + 1] = from[k] + Len(ls[k])
      BY <3>1 DEF Comes
    <3>. QED  BY <1>5, <1>6, <2>2, <3>1, <3>2
  <2>. QED  BY <1>14, <2>1, <2>2
<1>11. ASSUME NEW k \in l .. n + 1, NEW j \in 1..Len(Append(ls, line)[k]), to[k] + j >= 1
       PROVE  to[k] + j <= m + h /\ (ks \o more)[to[k] + j] = Key(Append(ls, line), k, j)
  <2>1. CASE k = n + 1
    <3>1. j \in 1..h /\ k \in 1 .. n + 1
      <4>1. Append(ls, line)[k] = line
        BY <1>6, <2>1
      <4>2. n + 1 \in 1 .. n + 1
        BY <1>4
      <4>. QED  BY <1>4, <2>1, <4>1, <4>2
    <3>2. to[k] = m
      BY <1>5, <2>1, <3>1
    <3>3. m + j <= m + h
      BY <1>4, <3>1
    <3>4. (ks \o more)[m + j] = more[j] /\ more[j] = [char |-> line[j], of |-> k]
      BY <1>3, <1>4, <1>7, <2>1, <3>1
    <3>. QED  BY <1>6, <2>1, <3>2, <3>3, <3>4 DEF Key
  <2>2. CASE k \in 1..n
    <3>1. k \in l..Len(ls) /\ j \in 1..Len(ls[k]) /\ k \in 1 .. n + 1 /\ k \in 1..Len(ls)
      BY <1>1, <1>4, <1>6, <2>2
    <3>2. PICK x \in Int : x = from[k] /\ to[k] = x
      BY <1>5, <3>1
    <3>3. j \in Nat
      BY <3>1, LineFacts
    <3>4. x + j >= 1
      BY <1>11, <3>2
    <3>5. x + j <= m /\ ks[x + j] = Key(ls, k, j)
      <4>1. from[k] + j >= 1 => from[k] + j <= Len(ks) /\ ks[from[k] + j] = Key(ls, k, j)
        BY <3>1 DEF Comes
      <4>. QED  BY <1>4, <3>2, <3>4, <4>1
    <3>6. x + j \in 1..m /\ x + j <= m + h
      BY <1>4, <3>3, <3>4, <3>5
    <3>. QED  BY <1>6, <1>7, <2>2, <3>2, <3>5, <3>6 DEF Key
  <2>. QED  BY <1>14, <2>1, <2>2
<1>12. Comes(Append(ls, line), ks \o more, to, l)
  <2>1. l \in 1 .. Len(Append(ls, line)) + 1 /\ to[Len(Append(ls, line)) + 1] = Len(ks \o more) /\ to[l] <= 0
    <3>1. (n + 1) + 1 = n + 2
      BY <1>4
    <3>. QED  BY <1>1, <1>5, <1>6, <1>7, <1>8, <3>1
  <2>2. l <= Len(Append(ls, line)) => to[l + 1] >= 1
    BY <1>6, <1>9
  <2>3. \A k \in l..Len(Append(ls, line)) : to[k + 1] = to[k] + Len(Append(ls, line)[k])
    BY <1>6, <1>10
  <2>4. \A k \in l..Len(Append(ls, line)) : \A j \in 1..Len(Append(ls, line)[k]) :
          to[k] + j >= 1 => to[k] + j <= Len(ks \o more) /\ (ks \o more)[to[k] + j] = Key(Append(ls, line), k, j)
    <3>1. \A k \in l .. n + 1 : \A j \in 1..Len(Append(ls, line)[k]) :
            to[k] + j >= 1 => to[k] + j <= m + h /\ (ks \o more)[to[k] + j] = Key(Append(ls, line), k, j)
      BY <1>11
    <3>2. Len(ks \o more) = m + h /\ Len(Append(ls, line)) = n + 1
      BY <1>6, <1>7
    <3>. QED  BY ONLY <3>1, <3>2
  <2>. QED  BY <2>1, <2>2, <2>3, <2>4 DEF Comes
<1>13. l = Len(ls) + 1 => from[l] = 0
  <2>1. from[l] \in Int
    OBVIOUS
  <2>. QED  BY <1>1, <2>1
<1>. QED  BY <1>3, <1>8, <1>12, <1>13, <1>15 DEF more

(* Reading on forgets a line that is too long. *)
LEMMA LineForgotten ==
  ASSUME NEW ls, NEW con, NEW rn, NEW l \in Nat \ {0}, Posted(ls, con, rn, l), ~(Len(ls[l]) <= CMD_BUFFER_SIZE)
  PROVE  Posted(ls, con, rn, l + 1)
<1>1. \A text : IsEnd(ls, text, l) => IsEnd(ls, text, l + 1)
  <2>1. \A k \in 1 .. l - 1 : k \in 1 .. (l + 1) - 1
    OBVIOUS
  <2>. QED  BY <2>1 DEF IsEnd
<1>2. ASSUME NEW k \in 1 .. (l + 1) - 1, Len(ls[k]) <= CMD_BUFFER_SIZE PROVE k \in 1 .. l - 1
  <2>1. k # l
    BY <1>2
  <2>. QED  BY <2>1
<1>. QED  BY <1>1, <1>2 DEF Posted

(* What is posted is behind everything else. *)
LEMMA LinePosted ==
  ASSUME NEW ls \in Seq(Line), NEW con \in Seq(Seq(Pressed)), NEW rn \in Seq(Seq(Pressed)), NEW l \in 1..Len(ls),
         Posted(ls, con, rn, l), NEW n \in 1..Len(ls[l]), Len(ls[l]) <= CMD_BUFFER_SIZE => n = Len(ls[l])
  PROVE  Posted(ls, Append(con, EndOf(ls, l, n)), rn, l + 1)
<1>1. LineOf(EndOf(ls, l, n)) = l /\ EndOf(ls, l, n) \in Seq(Pressed) /\ l \in Nat \ {0}
  BY EndFacts
<1>2. PICK text : text = EndOf(ls, l, n) /\ LineOf(text) = l /\ text \in Seq(Pressed)
  BY <1>1
<1>3. PICK m \in Nat : /\ m = Len(con) /\ Len(Append(con, text)) = m + 1 /\ Append(con, text)[m + 1] = text
                       /\ \A i \in 1..m : Append(con, text)[i] = con[i]
  <2>1. /\ Len(con) \in Nat /\ Len(Append(con, text)) = Len(con) + 1 /\ Append(con, text)[Len(con) + 1] = text
        /\ \A i \in 1..Len(con) : Append(con, text)[i] = con[i]
    BY <1>2, AppendProperties
  <2>. QED  BY <2>1
<1>4. \A t : IsEnd(ls, t, l) => IsEnd(ls, t, l + 1) /\ LineOf(t) \in Nat /\ LineOf(t) < l
  <2>1. \A k \in 1 .. l - 1 : k \in 1 .. (l + 1) - 1 /\ k \in Nat /\ k < l
    BY <1>1
  <2>. QED  BY <2>1 DEF IsEnd
<1>5. IsEnd(ls, text, l + 1)
  <2>1. l \in 1 .. (l + 1) - 1
    BY <1>1
  <2>. QED  BY <1>2, <2>1 DEF IsEnd
<1>6. \A i \in 1 .. m + 1 : i = m + 1 \/ i \in 1..m
  BY <1>3
<1>7. \A i \in 1 .. m + 1 : IsEnd(ls, Append(con, text)[i], l + 1)
  BY <1>3, <1>4, <1>5, <1>6 DEF Posted
<1>8. ASSUME NEW i \in 1 .. m + 1, NEW j \in 1 .. m + 1, i < j
      PROVE  LineOf(Append(con, text)[i]) < LineOf(Append(con, text)[j])
  <2>1. i \in 1..m
    BY <1>3, <1>8
  <2>2. CASE j = m + 1
    BY <1>2, <1>3, <1>4, <2>1, <2>2 DEF Posted
  <2>3. CASE j \in 1..m
    BY <1>3, <1>8, <2>1, <2>3 DEF Posted
  <2>. QED  BY <1>6, <2>2, <2>3
<1>9. ASSUME NEW r \in 1..Len(rn), NEW i \in 1 .. m + 1 PROVE LineOf(rn[r]) < LineOf(Append(con, text)[i])
  <2>1. CASE i = m + 1
    BY <1>2, <1>3, <1>4, <2>1 DEF Posted
  <2>2. CASE i \in 1..m
    BY <1>3, <2>2 DEF Posted
  <2>. QED  BY <1>6, <2>1, <2>2
<1>10. ASSUME NEW k \in 1 .. (l + 1) - 1, Len(ls[k]) <= CMD_BUFFER_SIZE
       PROVE  \/ \E i \in 1 .. m + 1 : Append(con, text)[i] = Whole(ls, k)
              \/ \E r \in 1..Len(rn) : rn[r] = Whole(ls, k)
              \/ Word(Whole(ls, k)) \notin lgn_cmd_table
  <2>1. CASE k = l
    <3>1. text = Whole(ls, k) /\ m + 1 \in 1 .. m + 1
      BY <1>2, <1>3, <1>10, <2>1 DEF Whole
    <3>. QED  BY <1>3, <3>1
  <2>2. CASE k # l
    <3>1. k \in 1 .. l - 1 /\ \A i \in 1..m : i \in 1 .. m + 1
      BY <1>1, <1>3, <2>2
    <3>2. \/ \E i \in 1..Len(con) : con[i] = Whole(ls, k)
          \/ \E r \in 1..Len(rn) : rn[r] = Whole(ls, k)
          \/ Word(Whole(ls, k)) \notin lgn_cmd_table
      BY <1>10, <3>1 DEF Posted
    <3>. QED  BY <1>3, <3>1, <3>2
  <2>. QED  BY <2>1, <2>2
<1>11. \A r \in 1..Len(rn) : IsEnd(ls, rn[r], l + 1) /\ Word(rn[r]) \in lgn_cmd_table
  BY <1>4 DEF Posted
<1>12. \A r, s \in 1..Len(rn) : r < s => LineOf(rn[r]) < LineOf(rn[s])
  BY DEF Posted
<1>13. Posted(ls, Append(con, text), rn, l + 1)
  <2>1. Len(Append(con, text)) = m + 1
    BY <1>3
  <2>. QED  BY <1>7, <1>8, <1>9, <1>10, <1>11, <1>12, <2>1 DEF Posted
<1>. QED  BY <1>2, <1>13

(* A line typed changes nothing of the others. *)
LEMMA TypedPosted ==
  ASSUME NEW ls \in Seq(Line), NEW con, NEW rn, NEW l \in 1 .. Len(ls) + 1, Posted(ls, con, rn, l), NEW line \in Line
  PROVE  Posted(Append(ls, line), con, rn, l)
<1>1. \A k \in 1 .. l - 1 : k \in 1..Len(ls) /\ Append(ls, line)[k] = ls[k]
  OBVIOUS
<1>2. ASSUME NEW k \in 1 .. l - 1, NEW n PROVE EndOf(Append(ls, line), k, n) = EndOf(ls, k, n)
  BY <1>1 DEF EndOf, Key
<1>3. \A k \in 1 .. l - 1 : Whole(Append(ls, line), k) = Whole(ls, k)
  BY <1>1, <1>2 DEF Whole
<1>4. \A text : IsEnd(ls, text, l) => IsEnd(Append(ls, line), text, l)
  BY <1>1, <1>2 DEF IsEnd
<1>. QED  BY <1>1, <1>3, <1>4 DEF Posted

(* The oldest message is handled. *)
LEMMA MessageHandled ==
  ASSUME NEW ls, NEW con \in Seq(Seq(Pressed)), NEW rn \in Seq(Seq(Pressed)), NEW l \in Nat, Posted(ls, con, rn, l), con # <<>>
  PROVE  /\ Word(Head(con)) \in lgn_cmd_table => Posted(ls, Tail(con), Append(rn, Head(con)), l)
         /\ Word(Head(con)) \notin lgn_cmd_table => Posted(ls, Tail(con), rn, l)
<1>1. PICK m \in Nat : /\ Len(con) = m + 1 /\ Len(Tail(con)) = m /\ Head(con) = con[1]
                       /\ \A i \in 1..m : Tail(con)[i] = con[i + 1] /\ i + 1 \in 1 .. m + 1
  <2>1. Len(con) \in Nat /\ Len(con) # 0 /\ Len(con) - 1 \in Nat /\ Len(con) = (Len(con) - 1) + 1
    OBVIOUS
  <2>2. /\ Len(Tail(con)) = Len(con) - 1 /\ Head(con) = con[1]
        /\ \A i \in 1 .. Len(con) - 1 : Tail(con)[i] = con[i + 1]
    OBVIOUS
  <2>3. \A i \in 1 .. Len(con) - 1 : i + 1 \in 1 .. (Len(con) - 1) + 1
    BY <2>1
  <2>. QED  BY <2>1, <2>2, <2>3
<1>2. \A i \in 1 .. m + 1 : i = 1 \/ (i - 1 \in 1..m /\ (i - 1) + 1 = i)
  BY <1>1
<1>3. 1 \in 1 .. m + 1 /\ \A i \in 1..m : 1 < i + 1
  BY <1>1
<1>4. Head(con) \in Seq(Pressed)
  BY <1>1, <1>3
<1>5. PICK h \in Nat : /\ Len(rn) = h /\ Len(Append(rn, con[1])) = h + 1 /\ Append(rn, con[1])[h + 1] = con[1]
                       /\ \A r \in 1..h : Append(rn, con[1])[r] = rn[r] /\ r \in 1 .. h + 1
  <2>1. con[1] \in Seq(Pressed)
    BY <1>1, <1>4
  <2>2. /\ Len(rn) \in Nat /\ Len(Append(rn, con[1])) = Len(rn) + 1 /\ Append(rn, con[1])[Len(rn) + 1] = con[1]
        /\ \A r \in 1..Len(rn) : Append(rn, con[1])[r] = rn[r]
    BY <2>1, AppendProperties
  <2>3. \A r \in 1..Len(rn) : r \in 1 .. Len(rn) + 1
    BY <2>2
  <2>. QED  BY <2>2, <2>3
<1>6. \A i \in 1..m : IsEnd(ls, Tail(con)[i], l)
  BY <1>1 DEF Posted
<1>7. ASSUME NEW i \in 1..m, NEW j \in 1..m, i < j PROVE LineOf(Tail(con)[i]) < LineOf(Tail(con)[j])
  <2>1. i + 1 < j + 1
    BY <1>7
  <2>. QED  BY <1>1, <2>1 DEF Posted
<1>8. \A r \in 1..h, i \in 1..m : LineOf(rn[r]) < LineOf(Tail(con)[i])
  BY <1>1, <1>5 DEF Posted
<1>9. ASSUME NEW k \in 1 .. l - 1, Len(ls[k]) <= CMD_BUFFER_SIZE
      PROVE  \/ con[1] = Whole(ls, k)
             \/ \E i \in 1..m : Tail(con)[i] = Whole(ls, k)
             \/ \E r \in 1..h : rn[r] = Whole(ls, k)
             \/ Word(Whole(ls, k)) \notin lgn_cmd_table
  <2>1. \/ \E i \in 1 .. m + 1 : con[i] = Whole(ls, k)
        \/ \E r \in 1..h : rn[r] = Whole(ls, k)
        \/ Word(Whole(ls, k)) \notin lgn_cmd_table
    BY <1>1, <1>5, <1>9 DEF Posted
  <2>2. ASSUME NEW i \in 1 .. m + 1, con[i] = Whole(ls, k), i # 1 PROVE \E j \in 1..m : Tail(con)[j] = Whole(ls, k)
    <3>1. i - 1 \in 1..m /\ (i - 1) + 1 = i
      BY <1>2, <2>2
    <3>. QED  BY <1>1, <2>2, <3>1
  <2>. QED  BY <2>1, <2>2
<1>10. ASSUME Word(con[1]) \notin lgn_cmd_table PROVE Posted(ls, Tail(con), rn, l)
  <2>1. \A r \in 1..Len(rn) : IsEnd(ls, rn[r], l) /\ Word(rn[r]) \in lgn_cmd_table
    BY DEF Posted
  <2>2. \A r, s \in 1..Len(rn) : r < s => LineOf(rn[r]) < LineOf(rn[s])
    BY DEF Posted
  <2>. QED  BY <1>1, <1>5, <1>6, <1>7, <1>8, <1>9, <1>10, <2>1, <2>2 DEF Posted
<1>11. ASSUME Word(con[1]) \in lgn_cmd_table PROVE Posted(ls, Tail(con), Append(rn, con[1]), l)
  <2>10. h \in Nat
    OBVIOUS
  <2>1. \A r \in 1 .. h + 1 : r = h + 1 \/ r \in 1..h
    BY ONLY <2>10
  <2>2. \A r \in 1..h : IsEnd(ls, rn[r], l) /\ Word(rn[r]) \in lgn_cmd_table
    BY <1>5 DEF Posted
  <2>3. IsEnd(ls, con[1], l)
    BY <1>1, <1>3 DEF Posted
  <2>4. \A r \in 1 .. h + 1 : IsEnd(ls, Append(rn, con[1])[r], l) /\ Word(Append(rn, con[1])[r]) \in lgn_cmd_table
    BY <1>5, <1>11, <2>1, <2>2, <2>3
  <2>5. \A r \in 1..h : LineOf(rn[r]) < LineOf(con[1])
    BY <1>1, <1>3, <1>5 DEF Posted
  <2>6. ASSUME NEW r \in 1 .. h + 1, NEW s \in 1 .. h + 1, r < s
        PROVE  LineOf(Append(rn, con[1])[r]) < LineOf(Append(rn, con[1])[s])
    <3>1. r \in 1..h
      BY <1>5, <2>6
    <3>2. CASE s = h + 1
      BY <1>5, <2>5, <3>1, <3>2
    <3>3. CASE s \in 1..h
      <4>1. LineOf(rn[r]) < LineOf(rn[s])
        BY <1>5, <2>6, <3>1, <3>3 DEF Posted
      <4>. QED  BY <1>5, <3>1, <3>3, <4>1
    <3>. QED  BY <2>1, <3>2, <3>3
  <2>7. \A i \in 1..m : LineOf(con[1]) < LineOf(Tail(con)[i])
    BY <1>1, <1>3 DEF Posted
  <2>8. \A r \in 1 .. h + 1, i \in 1..m : LineOf(Append(rn, con[1])[r]) < LineOf(Tail(con)[i])
    BY <1>5, <1>8, <2>1, <2>7
  <2>9. ASSUME NEW k \in 1 .. l - 1, Len(ls[k]) <= CMD_BUFFER_SIZE
        PROVE  \/ \E i \in 1..m : Tail(con)[i] = Whole(ls, k)
               \/ \E r \in 1 .. h + 1 : Append(rn, con[1])[r] = Whole(ls, k)
               \/ Word(Whole(ls, k)) \notin lgn_cmd_table
    <3>1. h + 1 \in 1 .. h + 1
      BY <1>5
    <3>. QED  BY <1>5, <1>9, <2>9, <3>1
  <2>. QED  BY <1>1, <1>5, <1>6, <1>7, <2>4, <2>6, <2>8, <2>9 DEF Posted
<1>. QED  BY <1>1, <1>10, <1>11

(* The text ends before the first NUL. *)
LEMMA TextEnds ==
  ASSUME NEW buf \in [0..CMD_BUFFER_SIZE -> Pressed], NEW n \in 1..CMD_BUFFER_SIZE, buf[n] = NUL,
         \A j \in 0 .. n - 1 : buf[j] # NUL
  PROVE  Text(buf) = [i \in 1..n |-> buf[i - 1]]
<1>. DEFINE First(i) == i \in DOMAIN buf /\ buf[i] = NUL /\ \A j \in 0 .. i - 1 : buf[j] # NUL
<1>1. DOMAIN buf = 0..CMD_BUFFER_SIZE /\ CMD_BUFFER_SIZE \in Nat
  BY BufferIsNat
<1>2. First(n) /\ n \in Nat
  BY <1>1
<1>3. ASSUME NEW i, First(i) PROVE i = n
  <2>1. i \in Nat
    BY <1>1, <1>3
  <2>2. ~(i < n)
    BY <1>3, <2>1
  <2>3. ~(n < i)
    BY <1>2, <1>3, <2>1
  <2>. QED  BY <1>2, <2>1, <2>2, <2>3
<1>4. (CHOOSE i \in DOMAIN buf : buf[i] = NUL /\ \A j \in 0 .. i - 1 : buf[j] # NUL) = n
  <2>1. \E i \in DOMAIN buf : buf[i] = NUL /\ \A j \in 0 .. i - 1 : buf[j] # NUL
    BY <1>2
  <2>2. PICK e : e = CHOOSE i \in DOMAIN buf : buf[i] = NUL /\ \A j \in 0 .. i - 1 : buf[j] # NUL
    OBVIOUS
  <2>3. First(e)
    BY <2>1, <2>2
  <2>4. e = n
    BY <1>3, <2>3
  <2>. QED  BY <2>2, <2>4
<1>. HIDE DEF First
<1>. QED  BY <1>4 DEF Text

(* A line that is read to its end is posted as far as the buffer holds it. *)
LEMMA TextRead ==
  ASSUME NEW ls \in Seq(Line), NEW l \in 1..Len(ls), NEW buf \in [0..CMD_BUFFER_SIZE -> Pressed],
         NEW n \in 1..CMD_BUFFER_SIZE, n <= Len(ls[l]), buf[n] = NUL,
         \A i \in 0 .. n - 1 : buf[i] = Key(ls, l, Len(ls[l]) - n + i + 1)
  PROVE  Text(buf) = EndOf(ls, l, n)
<1>1. PICK m, k \in Nat : m = Len(ls[l]) /\ k = n /\ k <= m /\ k # 0
  BY LineFacts, BufferIsNat
<1>2. \A i \in 0 .. n - 1 : m - k + i + 1 \in 1..m
  BY <1>1
<1>3. \A i \in 0 .. n - 1 : buf[i] # NUL
  BY <1>1, <1>2, LineFacts
<1>4. Text(buf) = [i \in 1..n |-> buf[i - 1]]
  BY <1>3, TextEnds
<1>5. \A i \in 1..n : i - 1 \in 0 .. n - 1 /\ m - k + (i - 1) + 1 = m - k + i
  BY <1>1
<1>6. \A i \in 1..n : buf[i - 1] = Key(ls, l, m - k + i)
  BY <1>1, <1>5
<1>. QED  BY <1>1, <1>4, <1>6 DEF EndOf

LEMMA EndIsSuffix ==
  ASSUME NEW ls \in Seq(Line), NEW k \in 1..Len(ls), NEW n \in 1..Len(ls[k])
  PROVE  IsSuffix(EndOf(ls, k, n), Whole(ls, k))
<1>1. PICK m, h \in Nat : m = Len(ls[k]) /\ h = n /\ h <= m /\ h # 0
  BY LineFacts
<1>2. m \in 1..Len(ls[k]) /\ Whole(ls, k) = EndOf(ls, k, m)
  BY <1>1 DEF Whole
<1>3. PICK s, t \in Seq(Pressed) : s = EndOf(ls, k, n) /\ Len(s) = h /\ t = EndOf(ls, k, m) /\ Len(t) = m
  BY <1>1, <1>2, EndFacts
<1>4. /\ \A i \in 1..h : (h - i) + 1 \in 1..h /\ m - h + ((h - i) + 1) = m - i + 1
      /\ \A i \in 1..m : (m - i) + 1 \in 1..m /\ m - m + ((m - i) + 1) = m - i + 1
      /\ \A i \in 1..h : i \in 1..m
  <2>1. ASSUME NEW i \in 1..h PROVE (h - i) + 1 \in 1..h /\ m - h + ((h - i) + 1) = m - i + 1
    <3>1. (h - i) + 1 \in 1..h
      BY <1>1
    <3>2. i \in Nat /\ m \in Nat /\ h \in Nat
      BY <1>1
    <3>3. m - h + ((h - i) + 1) = m - i + 1
      BY <3>2
    <3>. QED  BY <3>1, <3>3
  <2>2. \A i \in 1..m : (m - i) + 1 \in 1..m /\ m - m + ((m - i) + 1) = m - i + 1
    BY <1>1
  <2>3. \A i \in 1..h : i \in 1..m
    BY <1>1
  <2>. QED  BY <2>1, <2>2, <2>3
<1>5. Reverse(s) = [i \in 1..h |-> Key(ls, k, m - i + 1)]
  <2>1. \A i \in 1..h : s[i] = Key(ls, k, m - h + i)
    BY <1>1, <1>3 DEF EndOf
  <2>2. \A i \in 1..h : s[(h - i) + 1] = Key(ls, k, m - i + 1)
    BY <1>4, <2>1
  <2>. QED  BY <1>3, <2>2 DEF Reverse
<1>6. Reverse(t) = [i \in 1..m |-> Key(ls, k, m - i + 1)]
  <2>1. \A i \in 1..m : t[i] = Key(ls, k, m - m + i)
    BY <1>1, <1>3 DEF EndOf
  <2>2. \A i \in 1..m : t[(m - i) + 1] = Key(ls, k, m - i + 1)
    BY <1>4, <2>1
  <2>. QED  BY <1>3, <2>2 DEF Reverse
<1>7. PICK a, b : a = Reverse(s) /\ b = Reverse(t)
  OBVIOUS
<1>8. \A i \in 1..m : Key(ls, k, m - i + 1) \in Pressed
  <2>1. \A i \in 1..m : m - i + 1 \in 1..m
    BY <1>1
  <2>. QED  BY <1>1, <2>1, LineFacts
<1>9. a \in [1..h -> Pressed] /\ b \in [1..m -> Pressed] /\ \A i \in 1..h : a[i] = b[i]
  BY <1>4, <1>5, <1>6, <1>7, <1>8
<1>10. a \in Seq(Pressed) /\ b \in Seq(Pressed) /\ Len(a) = h /\ Len(b) = m
  BY <1>9
<1>11. SubSeq(a, 1, h) = [i \in 1..h |-> a[i]] /\ SubSeq(b, 1, h) = [i \in 1..h |-> b[i]]
  BY <1>1, <1>10
<1>. QED  BY <1>1, <1>2, <1>3, <1>7, <1>9, <1>10, <1>11 DEF IsSuffix, IsPrefix

(* What a character does to the buffer: it is kept, *)
LEMMA CharacterKept ==
  ASSUME NEW ls, NEW l \in Nat, NEW buf \in [0..CMD_BUFFER_SIZE -> Pressed], NEW c \in Nat, c + 1 <= CMD_BUFFER_SIZE,
         NEW n \in Nat, Gathered(ls, buf, c, n, l), l <= Len(ls)
  PROVE  Gathered(ls, [buf EXCEPT ![c] = Key(ls, l, n + 1)], c + 1, n + 1, l)
<1>1. CMD_BUFFER_SIZE \in Nat /\ c \in 0..CMD_BUFFER_SIZE
  BY BufferIsNat
<1>2. c <= n /\ (Len(ls[l]) <= CMD_BUFFER_SIZE => c = n) /\ \A i \in 0 .. c - 1 : buf[i] = Key(ls, l, n - c + i + 1)
  BY DEF Gathered
<1>3. c + 1 <= n + 1 /\ (Len(ls[l]) <= CMD_BUFFER_SIZE => c + 1 = n + 1)
  BY <1>2
<1>4. ASSUME NEW i \in 0 .. (c + 1) - 1
      PROVE  [buf EXCEPT ![c] = Key(ls, l, n + 1)][i] = Key(ls, l, (n + 1) - (c + 1) + i + 1)
  <2>1. i \in 0..CMD_BUFFER_SIZE /\ i \in Nat /\ (n + 1) - (c + 1) + i + 1 = n - c + i + 1
    BY <1>1
  <2>2. CASE i = c
    <3>1. n - c + c + 1 = n + 1
      OBVIOUS
    <3>. QED  BY <2>1, <2>2, <3>1
  <2>3. CASE i # c
    <3>1. i \in 0 .. c - 1
      BY <2>1, <2>3
    <3>. QED  BY <1>2, <2>1, <2>3, <3>1
  <2>. QED  BY <2>2, <2>3
<1>. QED  BY <1>3, <1>4 DEF Gathered

(* or it ends the line, *)
LEMMA LineEnded ==
  ASSUME NEW ls \in Seq(Line), NEW l \in 1..Len(ls), NEW buf \in [0..CMD_BUFFER_SIZE -> Pressed],
         NEW c \in 1..CMD_BUFFER_SIZE, Gathered(ls, buf, c, Len(ls[l]), l),
         NEW ended \in [0..CMD_BUFFER_SIZE -> Pressed], ended = [buf EXCEPT ![c] = NUL]
  PROVE  /\ Text(ended) = EndOf(ls, l, c) /\ c \in 1..Len(ls[l])
         /\ Len(ls[l]) <= CMD_BUFFER_SIZE => c = Len(ls[l])
<1>1. CMD_BUFFER_SIZE \in Nat /\ c \in 0..CMD_BUFFER_SIZE /\ c \in Nat /\ c # 0
  BY BufferIsNat
<1>2. l <= Len(ls) /\ Len(ls[l]) \in Nat
  BY LineFacts
<1>3. /\ c <= Len(ls[l]) /\ (Len(ls[l]) <= CMD_BUFFER_SIZE => c = Len(ls[l]))
      /\ \A i \in 0 .. c - 1 : buf[i] = Key(ls, l, Len(ls[l]) - c + i + 1)
  BY <1>2 DEF Gathered
<1>4. ended[c] = NUL /\ \A i \in 0 .. c - 1 : ended[i] = buf[i]
  <2>1. \A i \in 0 .. c - 1 : i \in 0..CMD_BUFFER_SIZE /\ i # c
    BY <1>1
  <2>. QED  BY <1>1, <2>1
<1>5. \A i \in 0 .. c - 1 : ended[i] = Key(ls, l, Len(ls[l]) - c + i + 1)
  BY <1>3, <1>4
<1>6. Text(ended) = EndOf(ls, l, c)
  BY <1>3, <1>4, <1>5, TextRead
<1>7. c \in 1..Len(ls[l])
  BY <1>1, <1>2, <1>3
<1>. QED  BY <1>3, <1>6, <1>7

(* or it does not fit, *)
LEMMA CharacterTooMany ==
  ASSUME NEW ls \in Seq(Line), NEW l \in 1..Len(ls), NEW buf, NEW n \in Nat,
         Gathered(ls, buf, CMD_BUFFER_SIZE, n, l), n + 1 \in 1..Len(ls[l])
  PROVE  ~(Len(ls[l]) <= CMD_BUFFER_SIZE)
<1>1. Len(ls[l]) \in Nat /\ CMD_BUFFER_SIZE \in Nat /\ l <= Len(ls)
  BY LineFacts, BufferIsNat
<1>2. Len(ls[l]) <= CMD_BUFFER_SIZE => CMD_BUFFER_SIZE = n
  BY <1>1 DEF Gathered
<1>. QED  BY <1>1, <1>2

(* and of a line that is too long, or of which nothing was read, the buffer holds nothing. *)
LEMMA NothingGathered ==
  ASSUME NEW ls, NEW l \in Nat, NEW buf, NEW n \in Nat, n = 0 \/ ~(Len(ls[l]) <= CMD_BUFFER_SIZE)
  PROVE  Gathered(ls, buf, 0, n, l)
<1>1. 0 <= n /\ 0 .. 0 - 1 = {}
  OBVIOUS
<1>. QED  BY <1>1 DEF Gathered

(* The three turns of the loop of i_get_command. *)
LEMMA CharacterRead ==
  ASSUME ConsoleInv, GetChar
  PROVE  ConsoleInv'
<1>1. PICK from \in [Nat -> Int], l \in Nat : /\ Comes(lines, keys, from, l)
                                             /\ Gathered(lines, cmd_buf, char_index, 0 - from[l], l)
                                             /\ Posted(lines, console, ran, l)
  BY DEF ConsoleInv
<1>2. PICK ls \in Seq(Line), ks \in Seq(Pressed), buf \in [0..CMD_BUFFER_SIZE -> Pressed], c \in 0..CMD_BUFFER_SIZE,
            con \in Seq(Seq(Pressed)), rn \in Seq(Seq(Pressed)) :
        ls = lines /\ ks = keys /\ buf = cmd_buf /\ c = char_index /\ con = console /\ rn = ran
  BY DEF ConsoleInv, KeyTypes
<1>3. /\ ks # <<>> /\ keys' = Tail(ks) /\ lines' = ls /\ ran' = rn
      /\ LET stored == [buf EXCEPT ![c] = Head(ks)] IN
         \/ Overload /\ char_index' = 0 /\ cmd_buf' = stored /\ console' = con
         \/ /\ ~Overload /\ Head(ks).char # "\n"
            /\ char_index' = c + 1 /\ cmd_buf' = stored /\ console' = con
         \/ /\ ~Overload /\ Head(ks).char = "\n"
            /\ char_index' = 0 /\ console' = Append(con, Text(EndOfLine(stored)))
            /\ cmd_buf' = Cleaned(EndOfLine(stored))
  BY <1>2 DEF GetChar
<1>4. PICK to \in [Nat -> Int] : \A k \in Nat : to[k] = from[k] - 1
  <2>1. [k \in Nat |-> from[k] - 1] \in [Nat -> Int]
    OBVIOUS
  <2>. QED  BY <2>1
<1>20. Comes(ls, ks, from, l)
  BY <1>1, <1>2
<1>21. /\ l \in 1..Len(ls) /\ 1 - from[l] \in 1..Len(ls[l]) /\ Head(ks) = Key(ls, l, 1 - from[l])
       /\ from[l] \in Int /\ from[l] <= 0
  BY <1>3, <1>20, NextKey
<1>22. PICK n \in Nat : n = 0 - from[l] /\ n + 1 = 1 - from[l] /\ 0 - (from[l] - 1) = n + 1 /\ from[l] = 0 - n
  <2>1. PICK x \in Int : x = from[l] /\ x <= 0
    BY <1>21
  <2>2. 0 - x \in Nat /\ (0 - x) + 1 = 1 - x /\ 0 - (x - 1) = (0 - x) + 1 /\ x = 0 - (0 - x)
    <3>1. 0 - x \in Nat
      <4>1. x \in Int /\ x <= 0
        BY <2>1
      <4>. QED  BY ONLY <4>1
    <3>2. (0 - x) + 1 = 1 - x /\ 0 - (x - 1) = (0 - x) + 1 /\ x = 0 - (0 - x)
      OBVIOUS
    <3>. QED  BY <3>1, <3>2
  <2>. QED  BY <2>1, <2>2
<1>5. Gathered(ls, buf, c, n, l) /\ Posted(ls, con, rn, l)
  BY <1>1, <1>2, <1>22
<1>6. l \in 1..Len(ls) /\ n + 1 \in 1..Len(ls[l]) /\ Head(ks) = Key(ls, l, n + 1)
  BY <1>21, <1>22
<1>7. Head(ks) \in Pressed /\ (Head(ks).char = "\n" <=> n + 1 = Len(ls[l])) /\ l <= Len(ls)
  <2>1. PICK j : j = n + 1 /\ j \in 1..Len(ls[l]) /\ Head(ks) = Key(ls, l, j)
    BY <1>6
  <2>2. Key(ls, l, j) \in Pressed /\ (Key(ls, l, j).char = "\n" <=> j = Len(ls[l]))
    BY <1>6, <2>1, LineFacts
  <2>3. l <= Len(ls)
    BY <1>6
  <2>. QED  BY <2>1, <2>2, <2>3
<1>23. /\ 1 - from[l] = Len(ls[l]) => Comes(ls, Tail(ks), to, l + 1) /\ to[l + 1] = 0
       /\ 1 - from[l] # Len(ls[l]) => Comes(ls, Tail(ks), to, l) /\ to[l] = from[l] - 1
  BY <1>3, <1>4, <1>20, ReadOn
<1>8. /\ n + 1 = Len(ls[l]) => Comes(ls, Tail(ks), to, l + 1) /\ 0 - to[l + 1] = 0
      /\ n + 1 # Len(ls[l]) => Comes(ls, Tail(ks), to, l) /\ 0 - to[l] = n + 1
  <2>1. 0 - 0 = 0
    OBVIOUS
  <2>. QED  BY <1>22, <1>23, <2>1
<1>9. /\ CMD_BUFFER_SIZE \in Nat \ {0} /\ c \in Nat /\ n + 1 \in Nat /\ l + 1 \in Nat /\ l \in Nat \ {0} /\ Tail(ks) \in Seq(Pressed)
      /\ 0 \in 0..CMD_BUFFER_SIZE
  BY <1>3, <1>6, BufferIsNat
<1>10. Overload => c = CMD_BUFFER_SIZE
  BY <1>2, <1>9 DEF Overload
<1>11. ~Overload => c + 1 <= CMD_BUFFER_SIZE /\ c + 1 \in 0..CMD_BUFFER_SIZE
  BY <1>2, <1>9 DEF Overload
<1>12. [buf EXCEPT ![c] = Head(ks)] \in [0..CMD_BUFFER_SIZE -> Pressed]
  BY <1>7
<1>13. ASSUME NEW b \in [0..CMD_BUFFER_SIZE -> Pressed], NEW i \in 0..CMD_BUFFER_SIZE, NEW mail \in Seq(Seq(Pressed)),
              cmd_buf' = b, char_index' = i, console' = mail, NEW k \in Nat,
              Comes(ls, Tail(ks), to, k), Gathered(ls, b, i, 0 - to[k], k), Posted(ls, mail, rn, k)
       PROVE  ConsoleInv'
  <2>1. KeyTypes'
    BY <1>3, <1>9, <1>13 DEF KeyTypes
  <2>. QED  BY <1>3, <1>13, <2>1 DEF ConsoleInv
<1>14. CASE Overload /\ char_index' = 0 /\ cmd_buf' = [buf EXCEPT ![c] = Head(ks)] /\ console' = con
  <2>1. ~(Len(ls[l]) <= CMD_BUFFER_SIZE)
    BY <1>5, <1>6, <1>10, <1>14, CharacterTooMany
  <2>2. CASE n + 1 = Len(ls[l])
    <3>1. Posted(ls, con, rn, l + 1)
      BY <1>5, <1>9, <2>1, LineForgotten
    <3>2. Gathered(ls, [buf EXCEPT ![c] = Head(ks)], 0, 0, l + 1)
      BY <1>9, NothingGathered
    <3>. QED  BY <1>8, <1>9, <1>12, <1>13, <1>14, <2>2, <3>1, <3>2
  <2>3. CASE n + 1 # Len(ls[l])
    <3>1. Gathered(ls, [buf EXCEPT ![c] = Head(ks)], 0, n + 1, l)
      BY <1>9, <2>1, NothingGathered
    <3>. QED  BY <1>5, <1>8, <1>9, <1>12, <1>13, <1>14, <2>3, <3>1
  <2>. QED  BY <2>2, <2>3
<1>15. CASE /\ ~Overload /\ Head(ks).char # "\n"
            /\ char_index' = c + 1 /\ cmd_buf' = [buf EXCEPT ![c] = Head(ks)] /\ console' = con
  <2>1. n + 1 # Len(ls[l])
    BY <1>7, <1>15
  <2>2. Gathered(ls, [buf EXCEPT ![c] = Head(ks)], c + 1, n + 1, l)
    BY <1>5, <1>6, <1>7, <1>9, <1>11, <1>15, CharacterKept
  <2>. QED  BY <1>5, <1>8, <1>11, <1>12, <1>13, <1>15, <2>1, <2>2
<1>16. CASE /\ ~Overload /\ Head(ks).char = "\n"
            /\ char_index' = 0 /\ console' = Append(con, Text(EndOfLine([buf EXCEPT ![c] = Head(ks)])))
            /\ cmd_buf' = Cleaned(EndOfLine([buf EXCEPT ![c] = Head(ks)]))
  <2>1. n + 1 = Len(ls[l])
    BY <1>7, <1>16
  <2>2. PICK stored \in [0..CMD_BUFFER_SIZE -> Pressed], ended \in [0..CMD_BUFFER_SIZE -> Pressed] :
           /\ stored = [buf EXCEPT ![c] = Head(ks)] /\ ended = EndOfLine(stored) /\ ended = [stored EXCEPT ![c + 1] = NUL]
    <3>1. EndOfLine([buf EXCEPT ![c] = Head(ks)]) = [[buf EXCEPT ![c] = Head(ks)] EXCEPT ![c + 1] = NUL]
      BY <1>2 DEF EndOfLine
    <3>2. [[buf EXCEPT ![c] = Head(ks)] EXCEPT ![c + 1] = NUL] \in [0..CMD_BUFFER_SIZE -> Pressed]
      BY <1>12, NulPressed
    <3>. QED  BY <1>12, <3>1, <3>2
  <2>3. Text(ended) = EndOf(ls, l, c + 1) /\ c + 1 \in 1..Len(ls[l]) /\ (Len(ls[l]) <= CMD_BUFFER_SIZE => c + 1 = Len(ls[l]))
    <3>1. Gathered(ls, stored, c + 1, Len(ls[l]), l)
      <4>1. Gathered(ls, [buf EXCEPT ![c] = Key(ls, l, n + 1)], c + 1, n + 1, l)
        BY <1>5, <1>7, <1>9, <1>11, <1>16, CharacterKept
      <4>. QED  BY <1>6, <2>1, <2>2, <4>1
    <3>2. c + 1 \in 1..CMD_BUFFER_SIZE
      BY <1>9, <1>11, <1>16
    <3>. QED  BY <1>6, <2>2, <3>1, <3>2, LineEnded
  <2>4. PICK mail : mail = Append(con, EndOf(ls, l, c + 1))
    OBVIOUS
  <2>5. Posted(ls, mail, rn, l + 1)
    BY <1>5, <1>6, <2>3, <2>4, LinePosted
  <2>6. mail \in Seq(Seq(Pressed))
    <3>1. EndOf(ls, l, c + 1) \in Seq(Pressed)
      BY <1>6, <2>3, EndFacts
    <3>. QED  BY <2>4, <3>1, AppendProperties
  <2>7. PICK cleaned : cleaned = Cleaned(ended)
    OBVIOUS
  <2>8. cleaned \in [0..CMD_BUFFER_SIZE -> Pressed]
    <3>1. NUL \in Pressed
      BY NulPressed
    <3>. QED  BY <2>3, <2>7, <3>1 DEF Cleaned
  <2>9. cmd_buf' = cleaned /\ console' = mail /\ char_index' = 0
    BY <1>16, <2>2, <2>3, <2>4, <2>7
  <2>10. Gathered(ls, cleaned, 0, 0, l + 1)
    BY <1>9, NothingGathered
  <2>. QED  BY <1>8, <1>9, <1>13, <2>1, <2>5, <2>6, <2>8, <2>9, <2>10
<1>. QED  BY <1>3, <1>14, <1>15, <1>16

LEMMA LineTyped ==
  ASSUME ConsoleInv, Type
  PROVE  ConsoleInv'
<1>1. PICK from \in [Nat -> Int], l \in Nat : /\ Comes(lines, keys, from, l)
                                             /\ Gathered(lines, cmd_buf, char_index, 0 - from[l], l)
                                             /\ Posted(lines, console, ran, l)
  BY DEF ConsoleInv
<1>2. PICK ls \in Seq(Line), ks \in Seq(Pressed) : ls = lines /\ ks = keys
  BY DEF ConsoleInv, KeyTypes
<1>3. PICK line \in Line :
        /\ lines' = Append(lines, line)
        /\ keys' = keys \o [i \in DOMAIN line |-> [char |-> line[i], of |-> Len(lines')]]
  BY DEF Type
<1>4. Len(ls) \in Nat /\ Append(ls, line) \in Seq(Line) /\ Len(Append(ls, line)) = Len(ls) + 1
  BY AppendProperties
<1>5. PICK all, more : /\ all = Append(ls, line) /\ lines' = all /\ all \in Seq(Line)
                       /\ more = Row(line, Len(ls) + 1) /\ keys' = ks \o more
  <2>1. Len(lines') = Len(ls) + 1
    BY <1>2, <1>3, <1>4
  <2>. QED  BY <1>2, <1>3, <1>4, <2>1 DEF Row
<1>6. UNCHANGED <<cmd_buf, char_index, console, ran>>
  BY DEF Type
<1>8. Comes(ls, ks, from, l) /\ Posted(ls, console, ran, l)
  BY <1>1, <1>2
<1>7. /\ Comes(Append(ls, line), ks \o Row(line, Len(ls) + 1), Later(from, ls, ks, line), l)
      /\ Later(from, ls, ks, line) \in [Nat -> Int] /\ Later(from, ls, ks, line)[l] = from[l]
      /\ Row(line, Len(ls) + 1) \in Seq(Pressed) /\ (l = Len(ls) + 1 => from[l] = 0)
  BY <1>8, TypedComes
<1>9. PICK to \in [Nat -> Int] : /\ Comes(all, ks \o more, to, l) /\ to[l] = from[l] /\ more \in Seq(Pressed)
                                 /\ l = Len(ls) + 1 => from[l] = 0
  BY <1>5, <1>7
<1>10. l \in 1 .. Len(ls) + 1
  BY <1>8 DEF Comes
<1>11. Posted(all, console, ran, l)
  BY <1>5, <1>8, <1>10, TypedPosted
<1>12. char_index \in Nat
  BY DEF ConsoleInv, KeyTypes
<1>13. Gathered(all, cmd_buf, char_index, 0 - to[l], l)
  <2>1. Gathered(ls, cmd_buf, char_index, 0 - from[l], l)
    BY <1>1, <1>2
  <2>2. CASE l = Len(ls) + 1
    <3>1. 0 - from[l] = 0
      BY <1>9, <2>2
    <3>2. char_index <= 0
      BY <2>1, <3>1 DEF Gathered
    <3>3. char_index = 0
      BY <1>12, <3>2
    <3>4. Gathered(all, cmd_buf, 0, 0, l)
      BY NothingGathered
    <3>. QED  BY <1>9, <3>1, <3>3, <3>4
  <2>3. CASE l # Len(ls) + 1
    <3>1. l \in 1..Len(ls)
      <4>1. PICK h \in Nat : h = Len(ls)
        BY <1>4
      <4>2. l \in 1 .. h + 1 /\ l # h + 1
        BY <1>10, <2>3, <4>1
      <4>. QED  BY <4>1, <4>2
    <3>2. all[l] = ls[l] /\ l <= Len(ls)
      BY <1>4, <1>5, <3>1, AppendProperties
    <3>3. \A j : Key(all, l, j) = Key(ls, l, j)
      BY <3>2 DEF Key
    <3>. QED  BY <1>9, <2>1, <3>2, <3>3 DEF Gathered
  <2>. QED  BY <2>2, <2>3
<1>14. KeyTypes'
  <2>1. ks \o more \in Seq(Pressed)
    BY <1>9, ConcatProperties
  <2>2. KeyTypes
    BY DEF ConsoleInv
  <2>. QED  BY <1>5, <1>6, <2>1, <2>2 DEF KeyTypes
<1>. QED  BY <1>5, <1>6, <1>9, <1>11, <1>13, <1>14 DEF ConsoleInv

LEMMA CommandHandled ==
  ASSUME ConsoleInv, Handle
  PROVE  ConsoleInv'
<1>1. PICK from \in [Nat -> Int], l \in Nat : /\ Comes(lines, keys, from, l)
                                             /\ Gathered(lines, cmd_buf, char_index, 0 - from[l], l)
                                             /\ Posted(lines, console, ran, l)
  BY DEF ConsoleInv
<1>2. KeyTypes /\ UNCHANGED <<keys, cmd_buf, char_index, lines>>
  BY DEF ConsoleInv, Handle
<1>3. PICK con \in Seq(Seq(Pressed)), rn \in Seq(Seq(Pressed)) : con = console /\ rn = ran
  BY <1>2 DEF KeyTypes
<1>4. con # <<>> /\ console' = Tail(con) /\ Head(con) \in Seq(Pressed) /\ Tail(con) \in Seq(Seq(Pressed))
  BY <1>3 DEF Handle
<1>5. /\ Word(Head(con)) \in lgn_cmd_table => Posted(lines, Tail(con), Append(rn, Head(con)), l)
      /\ Word(Head(con)) \notin lgn_cmd_table => Posted(lines, Tail(con), rn, l)
  BY <1>1, <1>3, <1>4, MessageHandled
<1>6. \/ Word(Head(con)) \in lgn_cmd_table /\ ran' = Append(rn, Head(con))
      \/ Word(Head(con)) \notin lgn_cmd_table /\ ran' = rn
  BY <1>3 DEF Handle, cmd_line_parser
<1>7. ran' \in Seq(Seq(Pressed))
  <2>1. Append(rn, Head(con)) \in Seq(Seq(Pressed))
    BY <1>4, AppendProperties
  <2>. QED  BY <1>6, <2>1
<1>8. KeyTypes'
  BY <1>2, <1>4, <1>7 DEF KeyTypes
<1>9. Posted(lines, console', ran', l)
  BY <1>4, <1>5, <1>6
<1>. QED  BY <1>1, <1>2, <1>8, <1>9 DEF ConsoleInv

LEMMA ConsoleStarts == ConsoleInit => ConsoleInv
<1>. SUFFICES ASSUME ConsoleInit PROVE ConsoleInv
  OBVIOUS
<1>1. KeyTypes
  BY NulPressed, BufferIsNat DEF ConsoleInit, KeyTypes
<1>2. PICK from \in [Nat -> Int] : \A k \in Nat : from[k] = 0
  <2>1. [k \in Nat |-> 0] \in [Nat -> Int]
    OBVIOUS
  <2>. QED  BY <2>1
<1>3. Comes(<<>>, <<>>, from, 1)
  BY <1>2 DEF Comes
<1>4. Gathered(<<>>, cmd_buf, 0, 0, 1)
  BY NothingGathered
<1>5. Posted(<<>>, <<>>, <<>>, 1)
  BY DEF Posted
<1>6. from[1] = 0 /\ 0 - 0 = 0
  BY <1>2
<1>. QED  BY <1>1, <1>3, <1>4, <1>5, <1>6 DEF ConsoleInit, ConsoleInv

(* What the invariant says of what was run. *)
LEMMA RunAsTyped ==
  ASSUME ConsoleInv
  PROVE  LinesRunAsTyped
<1>1. PICK from \in [Nat -> Int], l \in Nat : Comes(lines, keys, from, l) /\ Posted(lines, console, ran, l)
  BY DEF ConsoleInv
<1>2. lines \in Seq(Line) /\ Len(lines) \in Nat /\ DOMAIN lines = 1..Len(lines) /\ DOMAIN ran = 1..Len(ran) /\ Len(keys) \in Nat
  <2>1. lines \in Seq(Line) /\ ran \in Seq(Seq(Pressed)) /\ keys \in Seq(Pressed)
    BY DEF ConsoleInv, KeyTypes
  <2>. QED  BY ONLY <2>1
<1>3. l \in 1 .. Len(lines) + 1 /\ \A k \in 1 .. l - 1 : k \in 1..Len(lines)
  BY <1>1, <1>2 DEF Comes
<1>4. \A k \in 1..Len(lines) : Typed(k) = Whole(lines, k)
  <2>1. ASSUME NEW k \in 1..Len(lines) PROVE Typed(k) = Whole(lines, k)
    <3>1. Len(lines[k]) \in Nat /\ DOMAIN lines[k] = 1..Len(lines[k])
      BY <1>2, LineFacts
    <3>2. \A i \in 1..Len(lines[k]) : Len(lines[k]) - Len(lines[k]) + i = i
      BY <3>1
    <3>. QED  BY <3>1, <3>2 DEF Typed, Whole, EndOf, Key
  <2>. QED  BY <2>1
<1>5. ASSUME NEW r \in 1..Len(ran)
      PROVE  /\ IsSuffix(ran[r], Typed(LineOf(ran[r])))
             /\ Fits(LineOf(ran[r])) => ran[r] = Typed(LineOf(ran[r])) /\ IsCommand(LineOf(ran[r]))
  <2>1. IsEnd(lines, ran[r], l) /\ Word(ran[r]) \in lgn_cmd_table
    BY <1>1 DEF Posted
  <2>2. PICK k, n : /\ k = LineOf(ran[r]) /\ k \in 1 .. l - 1 /\ n \in 1..Len(lines[k]) /\ ran[r] = EndOf(lines, k, n)
                    /\ Len(lines[k]) <= CMD_BUFFER_SIZE => n = Len(lines[k])
    BY <2>1 DEF IsEnd
  <2>3. k \in 1..Len(lines) /\ Typed(k) = Whole(lines, k)
    BY <1>3, <1>4, <2>2
  <2>4. IsSuffix(ran[r], Typed(k))
    BY <1>2, <2>2, <2>3, EndIsSuffix
  <2>5. ASSUME Fits(k) PROVE ran[r] = Typed(k) /\ IsCommand(k)
    <3>1. ran[r] = Typed(k)
      BY <2>2, <2>3, <2>5 DEF Fits, Whole
    <3>. QED  BY <2>1, <3>1 DEF IsCommand
  <2>. QED  BY <2>2, <2>4, <2>5
<1>6. \A r, s \in 1..Len(ran) : r < s => LineOf(ran[r]) < LineOf(ran[s])
  BY <1>1 DEF Posted
<1>7. ASSUME NEW k \in 1..Len(lines), Fits(k), IsCommand(k), Had(k) PROVE \E r \in 1..Len(ran) : ran[r] = Typed(k)
  <2>1. Len(lines[k]) <= CMD_BUFFER_SIZE /\ Word(Whole(lines, k)) \in lgn_cmd_table /\ Typed(k) = Whole(lines, k)
    BY <1>4, <1>7 DEF Fits, IsCommand
  <2>2. CASE keys = <<>> /\ console = <<>>
    <3>1. l = Len(lines) + 1
      <4>1. ASSUME l \in 1..Len(lines) PROVE FALSE
        <5>1. PICK j \in Nat : j = Len(lines[l]) /\ j \in 1..Len(lines[l])
          <6>1. Len(lines[l]) \in Nat \ {0}
            BY <1>2, <4>1, LineFacts
          <6>2. PICK j : j = Len(lines[l]) /\ j \in Nat /\ j # 0
            BY <6>1
          <6>3. j \in 1..j
            BY ONLY <6>2
          <6>. QED  BY <6>2, <6>3
        <5>2. l \in l..Len(lines) /\ l <= Len(lines)
          BY <1>2, <4>1
        <5>3. /\ from[l + 1] >= 1 /\ from[l + 1] = from[l] + j
              /\ from[l] + j >= 1 => from[l] + j <= Len(keys)
          BY <1>1, <5>1, <5>2 DEF Comes
        <5>4. from[l + 1] \in Int /\ Len(keys) = 0
          BY <1>2, <2>2
        <5>. QED  BY ONLY <5>3, <5>4
      <4>2. Len(lines) \in Nat /\ l \in 1 .. Len(lines) + 1 /\ ~(l \in 1..Len(lines))
        BY <1>2, <1>3, <4>1
      <4>. QED  BY ONLY <4>2
    <3>2. k \in 1 .. l - 1 /\ 1..Len(console) = {}
      BY <1>2, <2>2, <3>1
    <3>. QED  BY <1>1, <2>1, <3>2 DEF Posted
  <2>3. CASE \E r \in DOMAIN ran : k < LineOf(ran[r])
    <3>1. PICK r \in 1..Len(ran) : k < LineOf(ran[r])
      BY <1>2, <2>3
    <3>2. LineOf(ran[r]) \in 1 .. l - 1
      BY <1>1 DEF Posted, IsEnd
    <3>3. k \in 1 .. l - 1
      BY <1>2, <1>3, <3>1, <3>2
    <3>4. ASSUME NEW i \in 1..Len(console), console[i] = Whole(lines, k) PROVE FALSE
      <4>1. LineOf(ran[r]) < LineOf(console[i]) /\ LineOf(console[i]) \in 1 .. l - 1
        BY <1>1 DEF Posted, IsEnd
      <4>2. Len(lines[k]) \in 1..Len(lines[k])
        <5>1. Len(lines[k]) \in Nat \ {0}
          BY <1>2, LineFacts
        <5>. QED  BY <5>1
      <4>3. LineOf(console[i]) = k
        <5>1. LineOf(EndOf(lines, k, Len(lines[k]))) = k
          BY <1>2, <4>2, EndFacts
        <5>. QED  BY <3>4, <5>1 DEF Whole
      <4>. QED  BY <1>2, <1>3, <3>1, <3>2, <4>1, <4>3
    <3>. QED  BY <1>1, <2>1, <3>3, <3>4 DEF Posted
  <2>. QED  BY <1>7, <2>2, <2>3 DEF Had
<1>. QED  BY <1>2, <1>5, <1>6, <1>7 DEF LinesRunAsTyped

(* Every line that fits the buffer is run as it was typed, once and in order, and
   of another line no more than its end: i_get_command, task_polling_console and
   cmd_line_parser together.                                                    *)
THEOREM ConsoleRunsAsTyped == ConsoleSpec => []LinesRunAsTyped
<1>1. ConsoleInit => ConsoleInv
  BY ConsoleStarts
<1>2. ConsoleInv /\ [ConsoleNext]_consoleVars => ConsoleInv'
  <2>1. ASSUME ConsoleInv, UNCHANGED consoleVars PROVE ConsoleInv'
    BY <2>1 DEF consoleVars, ConsoleInv, KeyTypes
  <2>. QED  BY <2>1, CharacterRead, LineTyped, CommandHandled DEF ConsoleNext
<1>3. ConsoleInv => LinesRunAsTyped
  BY RunAsTyped
<1>. QED  BY <1>1, <1>2, <1>3, PTL DEF ConsoleSpec
=============================================================================
