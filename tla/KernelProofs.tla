---------------------------- MODULE KernelProofs ----------------------------
(***************************************************************************)
(* Proofs about the kernel of one board: the timer list and the walk that  *)
(* goes through it (Timer), the list of messages behind a mailbox          *)
(* (MsgList), the start of the process (Boot) and the mailbox of one task  *)
(* (Mailbox), for any number of timers, messages, tasks, posters and posts.*)
(***************************************************************************)
EXTENDS Timer, MsgList, Boot, Mailbox, Counting, TLAPS

-----------------------------------------------------------------------------
(* The timer list.  Its pointers, read from either end, are the chain, and a
   walk from the tail meets the nodes of the chain and no other.           *)
OnChain == {chain[i] : i \in Positions}

TimerTypes == TypeOK /\ chain \in Seq(Node)

Running == \A i \in Positions : KeyAt(i) \in Key /\ data[chain[i]].counter \in Nat

ListInv == TimerTypes /\ ListConsistent /\ Listed = OnChain /\ Running

(* What the running walk has posted is not ahead of it any more. *)
WalkInv ==
  /\ ~walking => cur = Null
  /\ \A i \in Ahead, j \in DOMAIN posted : posted[j] # KeyAt(i)
  /\ PostedOnce

TimerIInv == ListInv /\ WalkInv

LEMMA ChainDistinct ==
  ASSUME ListInv, NEW i \in Positions, NEW j \in Positions, chain[i] = chain[j]
  PROVE  i = j
  BY DEF ListInv, ListConsistent, OneTimerPerKey

LEMMA NullIsNoNode == Null \notin Node
  BY EnoughNodes

(* The pointers determine what a walk meets. *)
LEMMA ListedSame ==
  ASSUME next' = next, tail' = tail
  PROVE  Listed' = Listed
  BY DEF Listed, Closed

LEMMA ListedLeast ==
  ASSUME NEW S \in SUBSET Node, Closed(S)
  PROVE  Listed \subseteq S
  BY DEF Listed

(* The nodes of a chain whose pointers agree are what a walk may meet. *)
Ranked(c) == {c[i] : i \in 1..Len(c)}

LEMMA ChainIsClosed ==
  ASSUME NEW c \in Seq(Node), NEW nx, NEW first,
         \A i \in 1..Len(c) : nx[c[i]] = (IF i = Len(c) THEN Null ELSE c[i + 1]),
         first = (IF c = <<>> THEN Null ELSE c[1])
  PROVE  /\ first # Null => first \in Ranked(c)
         /\ \A n \in Ranked(c) : nx[n] # Null => nx[n] \in Ranked(c)
         /\ Ranked(c) \in SUBSET Node
<1>1. c # <<>> => 1 \in 1..Len(c)
  OBVIOUS
<1>2. ASSUME NEW i \in 1..Len(c), nx[c[i]] # Null PROVE nx[c[i]] \in Ranked(c)
  <2>1. i # Len(c) /\ nx[c[i]] = c[i + 1] /\ i + 1 \in 1..Len(c)
    BY <1>2
  <2>. QED  BY <2>1 DEF Ranked
<1>. QED  BY <1>1, <1>2 DEF Ranked

LEMMA OnChainClosed == ListInv => Closed(OnChain)
<1> SUFFICES ASSUME ListInv PROVE Closed(OnChain)
  OBVIOUS
<1>1. OnChain = Ranked(chain)
  BY DEF OnChain, Ranked, Positions
<1>2. /\ chain \in Seq(Node)
      /\ \A i \in 1..Len(chain) : next[chain[i]] = (IF i = Len(chain) THEN Null ELSE chain[i + 1])
      /\ tail = (IF chain = <<>> THEN Null ELSE chain[1])
  BY DEF ListInv, ListConsistent, TimerTypes, TypeOK, PointersAgree, Positions
<1>. QED  BY <1>1, <1>2, ChainIsClosed DEF Closed

LEMMA OnChainClosedNext ==
  ASSUME chain' \in Seq(Node), PointersAgree'
  PROVE  Closed(OnChain)' /\ OnChain' \in SUBSET Node
<1>1. OnChain' = Ranked(chain')
  BY DEF OnChain, Ranked, Positions
<1>2. /\ \A i \in 1..Len(chain') : next'[chain'[i]] = (IF i = Len(chain') THEN Null ELSE chain'[i + 1])
      /\ tail' = (IF chain' = <<>> THEN Null ELSE chain'[1])
  BY DEF PointersAgree, Positions
<1>. QED  BY <1>1, <1>2, ChainIsClosed DEF Closed

-----------------------------------------------------------------------------
(* A new node at the tail. *)
LEMMA InsertList ==
  ASSUME ListInv, NEW n \in Node \ Listed, NEW rec \in [key : Key, period : Nat, counter : Nat],
         NodesOf(rec.key) = {}, cur = Null, cur' = cur,
         data' = [data EXCEPT ![n] = rec],
         next' = [next EXCEPT ![n] = tail],
         prev' = IF tail = Null THEN [prev EXCEPT ![n] = Null]
                 ELSE [prev EXCEPT ![n] = Null, ![tail] = n],
         head' = IF tail = Null THEN n ELSE head,
         tail' = n, chain' = <<n>> \o chain
  PROVE  /\ ListConsistent' /\ Listed' = OnChain' /\ Running' /\ chain' \in Seq(Node)
         /\ next' \in [Node -> Node \cup {Null}] /\ prev' \in [Node -> Node \cup {Null}]
         /\ data' \in [Node -> [key : Key \cup {Null}, period : Nat, counter : Int]]
<1> USE NullIsNoNode
<1>a. /\ chain \in Seq(Node) /\ PointersAgree /\ OneTimerPerKey /\ Listed = OnChain /\ Running
      /\ next \in [Node -> Node \cup {Null}] /\ prev \in [Node -> Node \cup {Null}]
      /\ data \in [Node -> [key : Key \cup {Null}, period : Nat, counter : Int]]
      /\ tail \in Node \cup {Null}
  BY DEF ListInv, ListConsistent, TimerTypes, TypeOK
<1>1. /\ Len(chain') = Len(chain) + 1 /\ chain'[1] = n /\ chain' \in Seq(Node)
      /\ \A i \in Positions : chain'[i + 1] = chain[i]
      /\ \A i \in Positions' : i # 1 => i - 1 \in Positions /\ chain'[i] = chain[i - 1]
      /\ Len(chain) \in Nat
  BY <1>a DEF Positions
<1>2. \A i \in Positions : chain[i] \in Node /\ chain[i] # n /\ chain[i] # Null
  BY <1>a DEF OnChain, Positions
<1>3. tail # Null <=> Len(chain) # 0
  BY <1>a, <1>2 DEF PointersAgree, Positions
<1>4. Len(chain) # 0 => 1 \in Positions /\ tail = chain[1] /\ head = chain[Len(chain)]
  BY <1>a DEF PointersAgree, Positions
<1>5. PointersAgree'
  <2>1. tail' = chain'[1] /\ head' = chain'[Len(chain')] /\ chain' # <<>>
    <3>1. CASE Len(chain) = 0
      BY <1>1, <1>3, <3>1
    <3>2. CASE Len(chain) # 0
      BY <1>1, <1>3, <1>4, <3>2 DEF Positions
    <3>. QED  BY <3>1, <3>2
  <2>2. ASSUME NEW i \in Positions'
        PROVE  next'[chain'[i]] = (IF i = Len(chain') THEN Null ELSE chain'[i + 1])
    <3>1. CASE i = 1
      <4>1. CASE Len(chain) = 0
        BY <1>1, <1>3, <3>1, <4>1, <1>a
      <4>2. CASE Len(chain) # 0
        <5>1. next'[n] = tail /\ chain'[2] = chain[1] /\ 1 # Len(chain')
          BY <1>a, <1>1, <1>4, <4>2
        <5>. QED  BY <5>1, <1>1, <1>4, <3>1, <4>2
      <4>. QED  BY <4>1, <4>2
    <3>2. CASE i # 1
      <4>1. i - 1 \in Positions /\ chain'[i] = chain[i - 1]
        BY <1>1, <3>2
      <4>2. next'[chain'[i]] = next[chain[i - 1]]
        BY <4>1, <1>2, <1>a
      <4>3. next[chain[i - 1]] = (IF i - 1 = Len(chain) THEN Null ELSE chain[(i - 1) + 1])
        BY <4>1, <1>a DEF PointersAgree
      <4>4. i # Len(chain') => i \in Positions /\ chain'[i + 1] = chain[i]
        BY <1>1, <2>2 DEF Positions
      <4>. QED  BY <4>2, <4>3, <4>4, <1>1, <2>2 DEF Positions
    <3>. QED  BY <3>1, <3>2
  <2>3. ASSUME NEW i \in Positions'
        PROVE  prev'[chain'[i]] = (IF i = 1 THEN Null ELSE chain'[i - 1])
    <3>1. CASE i = 1
      <4>1. tail # n
        BY <1>2, <1>3, <1>4
      <4>. QED  BY <4>1, <3>1, <1>1, <1>a
    <3>2. CASE i # 1
      <4>1. /\ i - 1 \in Positions /\ chain'[i] = chain[i - 1] /\ Len(chain) # 0
            /\ tail = chain[1] /\ 1 \in Positions
        BY <1>1, <1>4, <3>2 DEF Positions
      <4>2. CASE i = 2
        <5>1. prev'[tail] = n
          BY <4>1, <1>2, <1>3, <1>a
        <5>. QED  BY <4>1, <4>2, <5>1, <1>1
      <4>3. CASE i # 2
        <5>1. i - 2 \in Positions /\ chain'[i - 1] = chain[i - 2]
          BY <4>1, <4>3, <1>1, <2>3 DEF Positions
        <5>2. chain[i - 1] # tail
          <6>1. i - 1 # 1
            BY <4>3, <2>3, <1>1 DEF Positions
          <6>. QED  BY <4>1, <6>1, ChainDistinct
        <5>3. prev'[chain[i - 1]] = prev[chain[i - 1]]
          BY <4>1, <5>2, <1>2, <1>a
        <5>4. prev[chain[i - 1]] = chain[(i - 1) - 1]
          <6>1. i - 1 # 1
            BY <4>3, <2>3, <1>1 DEF Positions
          <6>. QED  BY <4>1, <6>1, <1>a DEF PointersAgree
        <5>. QED  BY <5>1, <5>3, <5>4, <4>1, <3>2, <2>3 DEF Positions
      <4>. QED  BY <4>2, <4>3
    <3>. QED  BY <3>1, <3>2
  <2>. QED  BY <2>1, <2>2, <2>3 DEF PointersAgree
<1>6. /\ data'[n] = rec /\ \A i \in Positions : data'[chain[i]] = data[chain[i]]
      /\ \A i \in Positions : data[chain[i]].key # rec.key
  BY <1>a, <1>2 DEF NodesOf, OnChain
<1>7. OneTimerPerKey'
  <2> SUFFICES ASSUME NEW i \in Positions', NEW j \in Positions',
                      data'[chain'[i]].key = data'[chain'[j]].key
               PROVE  i = j
    BY DEF OneTimerPerKey
  <2>1. CASE i = 1 \/ j = 1
    <3>1. ASSUME NEW k \in Positions', k # 1 PROVE data'[chain'[k]].key # data'[chain'[1]].key
      <4>1. k - 1 \in Positions /\ chain'[k] = chain[k - 1] /\ chain'[1] = n
        BY <3>1, <1>1
      <4>2. data'[chain'[k]] = data[chain[k - 1]] /\ data[chain[k - 1]].key # rec.key
        BY <4>1, <1>6
      <4>3. data'[chain'[1]] = rec
        BY <4>1, <1>6
      <4>. QED  BY <4>2, <4>3
    <3>. QED  BY <3>1, <2>1
  <2>2. CASE i # 1 /\ j # 1
    <3>0. /\ i - 1 \in Positions /\ chain'[i] = chain[i - 1]
          /\ j - 1 \in Positions /\ chain'[j] = chain[j - 1]
      BY <2>2, <1>1
    <3>1. data'[chain'[i]] = data[chain[i - 1]] /\ data'[chain'[j]] = data[chain[j - 1]]
      BY <3>0, <1>6
    <3>2. data[chain[i - 1]].key = data[chain[j - 1]].key
      BY <3>1
    <3>3. i - 1 = j - 1
      BY <3>0, <3>2, <1>a DEF OneTimerPerKey
    <3>. QED  BY <3>3, <1>1 DEF Positions
  <2>. QED  BY <2>1, <2>2
<1>8. Running'
  <2> SUFFICES ASSUME NEW i \in Positions'
               PROVE  data'[chain'[i]].key \in Key /\ data'[chain'[i]].counter \in Nat
    BY DEF Running, KeyAt
  <2>1. CASE i = 1
    BY <2>1, <1>1, <1>6
  <2>2. CASE i # 1
    <3>0. i - 1 \in Positions /\ chain'[i] = chain[i - 1]
      BY <2>2, <1>1
    <3>. QED  BY <3>0, <1>6, <1>a DEF Running, KeyAt
  <2>. QED  BY <2>1, <2>2
<1>9. Listed' = OnChain'
  <2>1. OnChain' = OnChain \cup {n}
    <3>1. 1 \in Positions' /\ \A i \in Positions : i + 1 \in Positions'
      BY <1>1 DEF Positions
    <3>2. ASSUME NEW i \in Positions' PROVE chain'[i] \in OnChain \cup {n}
      BY <1>1 DEF OnChain
    <3>3. ASSUME NEW i \in Positions PROVE chain[i] \in OnChain'
      <4>1. chain[i] = chain'[i + 1] /\ i + 1 \in Positions'
        BY <1>1, <3>1
      <4>. QED  BY <4>1 DEF OnChain
    <3>4. n \in OnChain'
      BY <1>1, <3>1 DEF OnChain
    <3>. QED  BY <3>2, <3>3, <3>4 DEF OnChain
  <2>2. Closed(OnChain)' /\ OnChain' \in SUBSET Node
    <3>1. Closed(OnChain)' /\ OnChain' \in SUBSET Node
      BY <1>1, <1>5, OnChainClosedNext
    <3>. QED  BY <3>1
  <2>3. Listed' \subseteq OnChain'
    BY <2>2 DEF Listed
  <2>4. ASSUME NEW S \in SUBSET Node, Closed(S)' PROVE OnChain' \subseteq S
    <3>1. n \in S
      BY <2>4 DEF Closed
    <3>2. Closed(S \cap OnChain)
      <4>1. tail # Null => tail \in S \cap OnChain
        BY <2>4, <3>1, <1>a, <1>4, <1>3 DEF Closed, OnChain
      <4>2. ASSUME NEW m \in S \cap OnChain, next[m] # Null PROVE next[m] \in S \cap OnChain
        <5>1. m # n /\ m \in Node
          BY <1>2 DEF OnChain
        <5>2. next'[m] = next[m]
          BY <5>1, <1>a
        <5>3. next[m] \in S
          BY <2>4, <4>2, <5>2 DEF Closed
        <5>4. next[m] \in OnChain
          BY <4>2, OnChainClosed DEF Closed
        <5>. QED  BY <5>3, <5>4
      <4>. QED  BY <4>1, <4>2 DEF Closed
    <3>3. OnChain \subseteq S
      BY <3>2, <1>a, ListedLeast
    <3>. QED  BY <2>1, <3>1, <3>3
  <2>5. OnChain' \subseteq Listed'
    BY <2>2, <2>4 DEF Listed
  <2>. QED  BY <2>3, <2>5
<1>. QED
  <2>1. WalkOnList'
    BY DEF WalkOnList
  <2>2. /\ next' \in [Node -> Node \cup {Null}] /\ prev' \in [Node -> Node \cup {Null}]
    BY <1>a
  <2>3. data' \in [Node -> [key : Key \cup {Null}, period : Nat, counter : Int]]
    BY <1>a
  <2>. QED  BY <1>1, <1>5, <1>7, <1>8, <1>9, <2>1, <2>2, <2>3 DEF ListConsistent
-----------------------------------------------------------------------------
(* A node leaves the list: whichever of the four cases of the unlinking it is,
   its neighbours are joined.                                              *)
LEMMA Joined ==
  ASSUME ListInv, NEW p \in Positions, Unlink(chain[p])
  PROVE  /\ \A i \in Positions : i # p =>
              /\ next'[chain[i]] = (IF i = p - 1 THEN next[chain[p]] ELSE next[chain[i]])
              /\ prev'[chain[i]] = (IF i = p + 1 THEN prev[chain[p]] ELSE prev[chain[i]])
         /\ tail' = (IF p = 1 THEN next[chain[p]] ELSE tail)
         /\ head' = (IF p = Len(chain) THEN prev[chain[p]] ELSE head)
         /\ next' \in [Node -> Node \cup {Null}] /\ prev' \in [Node -> Node \cup {Null}]
<1> DEFINE n == chain[p]
<1>a. /\ chain \in Seq(Node) /\ PointersAgree
      /\ next \in [Node -> Node \cup {Null}] /\ prev \in [Node -> Node \cup {Null}]
      /\ Len(chain) \in Nat /\ p \in 1..Len(chain)
  BY DEF ListInv, ListConsistent, TimerTypes, TypeOK, Positions
<1>1. \A i \in Positions : chain[i] \in Node /\ chain[i] # Null /\ (i # p => chain[i] # n)
  BY <1>a, NullIsNoNode, ChainDistinct DEF Positions
<1>2. /\ next[n] = (IF p = Len(chain) THEN Null ELSE chain[p + 1])
      /\ prev[n] = (IF p = 1 THEN Null ELSE chain[p - 1])
      /\ p # Len(chain) => p + 1 \in Positions
      /\ p # 1 => p - 1 \in Positions
      /\ tail = chain[1] /\ head = chain[Len(chain)]
      /\ 1 \in Positions /\ Len(chain) \in Positions
  BY <1>a DEF PointersAgree, Positions
<1>3. /\ next[n] = Null <=> p = Len(chain)
      /\ prev[n] = Null <=> p = 1
  BY <1>1, <1>2
<1>4. CASE next[n] = Null /\ prev[n] = Null
  <2>1. /\ p = 1 /\ Len(chain) = 1 /\ head' = Null /\ tail' = Null
        /\ next' = next /\ prev' = prev
    BY <1>3, <1>4 DEF Unlink
  <2>2. \A i \in Positions : i = p
    BY <2>1 DEF Positions
  <2>. QED  BY <2>1, <2>2, <1>2, <1>a
<1>5. CASE next[n] # Null /\ prev[n] # Null
  <2>1. /\ p # 1 /\ p # Len(chain) /\ UNCHANGED <<head, tail>>
        /\ prev' = [prev EXCEPT ![chain[p + 1]] = chain[p - 1], ![n] = Null]
        /\ next' = [next EXCEPT ![chain[p - 1]] = chain[p + 1], ![n] = Null]
    BY <1>2, <1>3, <1>5 DEF Unlink
  <2>2. ASSUME NEW i \in Positions, i # p
        PROVE  next'[chain[i]] = (IF i = p - 1 THEN next[n] ELSE next[chain[i]])
    <3>1. chain[i] = chain[p - 1] => i = p - 1
      BY <2>1, <1>2, ChainDistinct
    <3>. QED  BY <2>1, <2>2, <3>1, <1>1, <1>2, <1>a
  <2>3. ASSUME NEW i \in Positions, i # p
        PROVE  prev'[chain[i]] = (IF i = p + 1 THEN prev[n] ELSE prev[chain[i]])
    <3>1. chain[i] = chain[p + 1] => i = p + 1
      BY <2>1, <1>2, ChainDistinct
    <3>. QED  BY <2>1, <2>3, <3>1, <1>1, <1>2, <1>a
  <2>4. next' \in [Node -> Node \cup {Null}] /\ prev' \in [Node -> Node \cup {Null}]
    BY <2>1, <1>1, <1>2, <1>a
  <2>. QED  BY <2>1, <2>2, <2>3, <2>4
<1>6. CASE next[n] # Null /\ prev[n] = Null
  <2>1. /\ p = 1 /\ p # Len(chain) /\ tail' = chain[2] /\ head' = head
        /\ prev' = [prev EXCEPT ![chain[2]] = Null]
        /\ next' = [next EXCEPT ![n] = Null] /\ next[n] = chain[2] /\ 2 \in Positions
    BY <1>2, <1>3, <1>6 DEF Unlink
  <2>2. ASSUME NEW i \in Positions, i # p
        PROVE  /\ next'[chain[i]] = next[chain[i]] /\ i # p - 1
               /\ prev'[chain[i]] = (IF i = p + 1 THEN prev[n] ELSE prev[chain[i]])
    <3>1. chain[i] = chain[2] => i = 2
      BY <2>1, ChainDistinct
    <3>. QED  BY <2>1, <2>2, <3>1, <1>1, <1>6, <1>a DEF Positions
  <2>. QED  BY <2>1, <2>2, <1>a
<1>7. CASE next[n] = Null /\ prev[n] # Null
  <2>1. /\ p # 1 /\ p = Len(chain) /\ head' = chain[p - 1] /\ tail' = tail
        /\ next' = [next EXCEPT ![chain[p - 1]] = Null]
        /\ prev' = [prev EXCEPT ![n] = Null] /\ prev[n] = chain[p - 1]
    BY <1>2, <1>3, <1>7 DEF Unlink
  <2>2. ASSUME NEW i \in Positions, i # p
        PROVE  /\ prev'[chain[i]] = prev[chain[i]] /\ i # p + 1
               /\ next'[chain[i]] = (IF i = p - 1 THEN next[n] ELSE next[chain[i]])
    <3>1. chain[i] = chain[p - 1] => i = p - 1
      BY <2>1, <1>2, ChainDistinct
    <3>. QED  BY <2>1, <2>2, <3>1, <1>1, <1>2, <1>7, <1>a DEF Positions
  <2>. QED  BY <2>1, <2>2, <1>a
<1>. QED  BY <1>4, <1>5, <1>6, <1>7

LEMMA WithoutOne ==
  ASSUME ListInv, NEW p \in Positions, chain' = Without(chain[p])
  PROVE  /\ chain' \in Seq(Node) /\ Len(chain') = Len(chain) - 1
         /\ \A i \in Positions' :
              LET j == IF i < p THEN i ELSE i + 1 IN
              j \in Positions /\ j # p /\ chain'[i] = chain[j]
         /\ \A j \in Positions : j # p =>
              LET i == IF j < p THEN j ELSE j - 1 IN i \in Positions' /\ chain'[i] = chain[j]
         /\ OnChain' = OnChain \ {chain[p]}
<1>a. chain \in Seq(Node) /\ Len(chain) \in Nat /\ p \in 1..Len(chain)
  BY DEF ListInv, TimerTypes, TypeOK, Positions
<1>1. PositionOf(chain[p]) = p
  BY ChainDistinct DEF PositionOf
<1>2. chain' = [i \in 1 .. Len(chain) - 1 |-> IF i < p THEN chain[i] ELSE chain[i + 1]]
  BY <1>1 DEF Without
<1>3. chain' \in Seq(Node) /\ Len(chain') = Len(chain) - 1
  BY <1>2, <1>a
<1>4. ASSUME NEW i \in Positions'
      PROVE  LET j == IF i < p THEN i ELSE i + 1 IN
             j \in Positions /\ j # p /\ chain'[i] = chain[j]
  BY <1>2, <1>3, <1>a DEF Positions
<1>5. ASSUME NEW j \in Positions, j # p
      PROVE  LET i == IF j < p THEN j ELSE j - 1 IN i \in Positions' /\ chain'[i] = chain[j]
  BY <1>2, <1>3, <1>5, <1>a DEF Positions
<1>6. OnChain' = OnChain \ {chain[p]}
  <2>1. ASSUME NEW i \in Positions' PROVE chain'[i] \in OnChain \ {chain[p]}
    <3>1. \E j \in Positions : j # p /\ chain'[i] = chain[j]
      BY <1>4
    <3>. QED  BY <3>1, ChainDistinct DEF OnChain
  <2>2. ASSUME NEW j \in Positions, chain[j] # chain[p] PROVE chain[j] \in OnChain'
    BY <2>2, <1>5 DEF OnChain
  <2>. QED  BY <2>1, <2>2 DEF OnChain
<1>. QED  BY <1>3, <1>4, <1>5, <1>6

LEMMA UnlinkList ==
  ASSUME ListInv, NEW p \in Positions, Unlink(chain[p])
  PROVE  PointersAgree' /\ Listed' = OnChain'
<1> DEFINE n == chain[p]
<1>a. /\ chain \in Seq(Node) /\ PointersAgree /\ Listed = OnChain
      /\ Len(chain) \in Nat /\ p \in 1..Len(chain)
  BY DEF ListInv, ListConsistent, TimerTypes, TypeOK, Positions
<1>b. chain' = Without(n)
  BY DEF Unlink
<1>c. /\ chain' \in Seq(Node) /\ Len(chain') = Len(chain) - 1
      /\ OnChain' = OnChain \ {n}
  BY <1>b, WithoutOne
<1>1. PointersAgree'
  <2>1. ASSUME NEW i \in Positions'
        PROVE  /\ next'[chain'[i]] = (IF i = Len(chain') THEN Null ELSE chain'[i + 1])
               /\ prev'[chain'[i]] = (IF i = 1 THEN Null ELSE chain'[i - 1])
    <3> DEFINE j == IF i < p THEN i ELSE i + 1
    <3>1. j \in Positions /\ j # p /\ chain'[i] = chain[j] /\ i \in 1 .. Len(chain) - 1
      BY <1>b, <1>c, WithoutOne DEF Positions
    <3>2. i # Len(chain') => i + 1 \in Positions' /\ chain'[i + 1] = chain[IF i + 1 < p THEN i + 1 ELSE i + 2]
      BY <3>1, <1>b, <1>c, WithoutOne DEF Positions
    <3>3. i # 1 => i - 1 \in Positions' /\ chain'[i - 1] = chain[IF i - 1 < p THEN i - 1 ELSE i]
      BY <3>1, <1>b, <1>c, WithoutOne DEF Positions
    <3>4. /\ next'[chain[j]] = (IF j = p - 1 THEN next[n] ELSE next[chain[j]])
          /\ prev'[chain[j]] = (IF j = p + 1 THEN prev[n] ELSE prev[chain[j]])
      BY <3>1, Joined
    <3>5. /\ next[chain[j]] = (IF j = Len(chain) THEN Null ELSE chain[j + 1])
          /\ prev[chain[j]] = (IF j = 1 THEN Null ELSE chain[j - 1])
          /\ next[n] = (IF p = Len(chain) THEN Null ELSE chain[p + 1])
          /\ prev[n] = (IF p = 1 THEN Null ELSE chain[p - 1])
      BY <3>1, <1>a DEF PointersAgree, Positions
    <3>6. CASE i < p
      BY <3>1, <3>2, <3>3, <3>4, <3>5, <3>6, <1>a, <1>c DEF Positions
    <3>7. CASE ~(i < p)
      BY <3>1, <3>2, <3>3, <3>4, <3>5, <3>7, <1>a, <1>c DEF Positions
    <3>. QED  BY <3>6, <3>7
  <2>2. tail' = (IF chain' = <<>> THEN Null ELSE chain'[1])
    <3>1. tail' = (IF p = 1 THEN next[n] ELSE tail) /\ tail = chain[1]
          /\ next[n] = (IF p = Len(chain) THEN Null ELSE chain[p + 1])
      BY Joined, <1>a DEF PointersAgree, Positions
    <3>2. chain' # <<>> => 1 \in Positions' /\ chain'[1] = chain[IF 1 < p THEN 1 ELSE 2]
      BY <1>b, <1>c, <1>a, WithoutOne DEF Positions
    <3>3. chain' = <<>> <=> Len(chain) = 1
      BY <1>c, <1>a
    <3>4. CASE Len(chain) = 1
      BY <3>1, <3>3, <3>4, <1>a
    <3>5. CASE Len(chain) # 1
      <4>1. CASE p = 1
        <5>1. tail' = chain[2]
          BY <3>1, <3>5, <4>1
        <5>2. chain'[1] = chain[2] /\ chain' # <<>>
          BY <3>2, <3>3, <3>5, <4>1
        <5>. QED  BY <5>1, <5>2
      <4>2. CASE p # 1
        <5>1. chain'[1] = chain[1] /\ chain' # <<>>
          BY <3>2, <3>3, <3>5, <4>2, <1>a
        <5>. QED  BY <5>1, <3>1, <4>2
      <4>. QED  BY <4>1, <4>2
    <3>. QED  BY <3>4, <3>5
  <2>3. head' = (IF chain' = <<>> THEN Null ELSE chain'[Len(chain')])
    <3>1. head' = (IF p = Len(chain) THEN prev[n] ELSE head) /\ head = chain[Len(chain)]
          /\ prev[n] = (IF p = 1 THEN Null ELSE chain[p - 1])
      BY Joined, <1>a DEF PointersAgree, Positions
    <3>2. chain' # <<>> => /\ Len(chain') \in Positions'
                          /\ chain'[Len(chain')]
                               = chain[IF Len(chain') < p THEN Len(chain') ELSE Len(chain') + 1]
      BY <1>b, <1>c, <1>a, WithoutOne DEF Positions
    <3>3. chain' = <<>> <=> Len(chain) = 1
      BY <1>c, <1>a
    <3>. QED  BY <3>1, <3>2, <3>3, <1>a, <1>c
  <2>. QED  BY <2>1, <2>2, <2>3 DEF PointersAgree
<1>2. Listed' = OnChain'
  <2>1. Closed(OnChain)' /\ OnChain' \in SUBSET Node
    BY <1>1, <1>c, OnChainClosedNext
  <2>2. Listed' \subseteq OnChain'
    BY <2>1 DEF Listed
  <2>3. ASSUME NEW S \in SUBSET Node, Closed(S)' PROVE OnChain' \subseteq S
    <3> DEFINE R == IF p = 1 \/ chain[p - 1] \in S THEN (S \cap OnChain) \cup {n}
                    ELSE (S \cap OnChain) \ {n}
    <3>a. n \in OnChain /\ tail = chain[1] /\ OnChain \in SUBSET Node
      BY <1>a DEF OnChain, PointersAgree, Positions
    <3>b. \A j \in Positions : chain[j] \in Node
      BY <1>a DEF Positions
    <3>1. tail # Null => tail \in R
      <4>1. CASE p = 1
        BY <4>1, <3>a
      <4>2. CASE p # 1
        <5>1. tail' = tail
          BY <4>2, Joined
        <5>2. tail # Null => tail \in S
          BY <5>1, <2>3 DEF Closed
        <5>3. chain[1] # n /\ chain[1] \in OnChain
          BY <4>2, <1>a, ChainDistinct DEF OnChain, Positions
        <5>. QED  BY <5>2, <5>3, <3>a
      <4>. QED  BY <4>1, <4>2
    <3>2. ASSUME NEW j \in Positions, chain[j] \in R, next[chain[j]] # Null PROVE next[chain[j]] \in R
      <4>0. j # Len(chain) /\ j + 1 \in Positions /\ next[chain[j]] = chain[j + 1]
            /\ chain[j + 1] \in OnChain
        BY <3>2, <1>a DEF PointersAgree, Positions, OnChain
      <4>1. CASE j = p
        <5>1. p + 1 # p /\ chain[p + 1] # n
          BY <4>0, <4>1, ChainDistinct DEF Positions
        <5>2. p = 1 \/ chain[p - 1] \in S
          BY <3>2, <4>1, <3>a
        <5>3. CASE p = 1
          <6>1. tail' = chain[p + 1]
            BY <5>3, <4>0, <4>1, Joined
          <6>2. chain[p + 1] \in S
            BY <6>1, <2>3, <4>0, <4>1, NullIsNoNode, <3>b DEF Closed
          <6>. QED  BY <6>2, <5>1, <5>2, <4>0, <4>1
        <5>4. CASE p # 1
          <6>1. p - 1 \in Positions /\ p - 1 # p
            BY <5>4, <1>a DEF Positions
          <6>2. next'[chain[p - 1]] = chain[p + 1]
            BY <6>1, <4>0, <4>1, Joined
          <6>3. chain[p + 1] \in S
            BY <6>2, <5>2, <5>4, <2>3, <4>0, <4>1, NullIsNoNode, <3>b DEF Closed
          <6>. QED  BY <6>3, <5>1, <5>2, <4>0, <4>1
        <5>. QED  BY <5>3, <5>4
      <4>2. CASE j # p
        <5>0. chain[j] # n /\ chain[j] \in S
          BY <4>2, <3>2, ChainDistinct
        <5>1. CASE j = p - 1
          <6>1. chain[p - 1] \in S /\ j + 1 = p
            BY <5>0, <5>1, <1>a DEF Positions
          <6>. QED  BY <6>1, <4>0
        <5>2. CASE j # p - 1
          <6>1. next'[chain[j]] = chain[j + 1]
            BY <4>0, <4>2, <5>2, Joined
          <6>2. chain[j + 1] \in S
            BY <6>1, <5>0, <2>3, <4>0, NullIsNoNode, <3>b DEF Closed
          <6>3. chain[j + 1] # n
            BY <4>0, <5>2, <1>a, ChainDistinct DEF Positions
          <6>. QED  BY <6>2, <6>3, <4>0
        <5>. QED  BY <5>1, <5>2
      <4>. QED  BY <4>1, <4>2
    <3>3. R \subseteq OnChain
      BY <3>a
    <3>4. Closed(R)
      BY <3>1, <3>2, <3>3 DEF Closed, OnChain
    <3>5. OnChain \subseteq R
      BY <3>4, <3>3, <3>a, <1>a, ListedLeast
    <3>. QED  BY <3>5, <1>c
  <2>4. OnChain' \subseteq Listed'
    BY <2>1, <2>3 DEF Listed
  <2>. QED  BY <2>2, <2>4
<1>. QED  BY <1>1, <1>2

(* The node takes its data with it; the other timers keep theirs. *)
LEMMA RemoveList ==
  ASSUME ListInv, NEW p \in Positions, Unlink(chain[p]),
         data' = [data EXCEPT ![chain[p]] = NoData]
  PROVE  /\ PointersAgree' /\ OneTimerPerKey' /\ Listed' = OnChain' /\ Running'
         /\ chain' \in Seq(Node)
         /\ head' \in Node \cup {Null} /\ tail' \in Node \cup {Null}
         /\ next' \in [Node -> Node \cup {Null}] /\ prev' \in [Node -> Node \cup {Null}]
         /\ data' \in [Node -> [key : Key \cup {Null}, period : Nat, counter : Int]]
         /\ \A j \in Positions : j # p => data'[chain[j]] = data[chain[j]]
<1>a. /\ OneTimerPerKey /\ Running /\ chain \in Seq(Node) /\ p \in 1..Len(chain) /\ Len(chain) \in Nat
      /\ data \in [Node -> [key : Key \cup {Null}, period : Nat, counter : Int]]
      /\ next \in [Node -> Node \cup {Null}] /\ prev \in [Node -> Node \cup {Null}]
      /\ head \in Node \cup {Null} /\ tail \in Node \cup {Null}
  BY DEF ListInv, ListConsistent, TimerTypes, TypeOK, Positions
<1>b. chain' = Without(chain[p]) /\ chain[p] \in Node
  BY <1>a DEF Unlink
<1>1. \A j \in Positions : j # p => data'[chain[j]] = data[chain[j]]
  BY <1>a, ChainDistinct DEF Positions
<1>2. ASSUME NEW i \in Positions'
      PROVE  LET j == IF i < p THEN i ELSE i + 1 IN
             j \in Positions /\ chain'[i] = chain[j] /\ data'[chain'[i]] = data[chain[j]]
  BY <1>1, <1>b, WithoutOne
<1>3. OneTimerPerKey'
  <2> SUFFICES ASSUME NEW i \in Positions', NEW k \in Positions',
                      data'[chain'[i]].key = data'[chain'[k]].key
               PROVE  i = k
    BY DEF OneTimerPerKey
  <2> DEFINE ii == IF i < p THEN i ELSE i + 1
             kk == IF k < p THEN k ELSE k + 1
  <2>0. /\ ii \in Positions /\ data'[chain'[i]] = data[chain[ii]]
        /\ kk \in Positions /\ data'[chain'[k]] = data[chain[kk]]
    BY <1>2, SMTT(20)
  <2>1. ii = kk
    <3> HIDE DEF ii, kk
    <3>1. data[chain[ii]].key = data[chain[kk]].key
      BY <2>0
    <3>. QED  BY <3>1, <2>0, <1>a DEF OneTimerPerKey
  <2>2. i \in Nat /\ k \in Nat
    BY <1>b, WithoutOne DEF Positions
  <2>. QED  BY <2>1, <2>2, <1>a
<1>4. Running'
  <2> SUFFICES ASSUME NEW i \in Positions'
               PROVE  data'[chain'[i]].key \in Key /\ data'[chain'[i]].counter \in Nat
    BY DEF Running, KeyAt
  <2> DEFINE ii == IF i < p THEN i ELSE i + 1
  <2>1. ii \in Positions /\ data'[chain'[i]] = data[chain[ii]]
    BY <1>2, SMTT(20)
  <2> HIDE DEF ii
  <2>. QED  BY <2>1, <1>a DEF Running, KeyAt
<1>5. PointersAgree' /\ Listed' = OnChain' /\ chain' \in Seq(Node)
  BY <1>b, UnlinkList, WithoutOne
<1>6. data' \in [Node -> [key : Key \cup {Null}, period : Nat, counter : Int]]
  BY <1>a, <1>b DEF NoData
<1>7. /\ head' \in Node \cup {Null} /\ tail' \in Node \cup {Null}
      /\ next' \in [Node -> Node \cup {Null}] /\ prev' \in [Node -> Node \cup {Null}]
  BY Joined, <1>a, <1>b
<1>. QED  BY <1>1, <1>3, <1>4, <1>5, <1>6, <1>7
-----------------------------------------------------------------------------
(* The nodes the walk has yet to visit, and the timers as nodes. *)
AheadNodes == {chain[i] : i \in Ahead}

LEMMA AheadIsSuffix ==
  ASSUME ListInv, NEW c \in Positions, cur = chain[c]
  PROVE  /\ Ahead = {i \in Positions : c <= i}
         /\ AheadNodes = {chain[i] : i \in {j \in Positions : c <= j}}
<1>a. /\ chain \in Seq(Node) /\ Len(chain) \in Nat /\ c \in 1..Len(chain) /\ cur # Null
  BY NullIsNoNode DEF ListInv, TimerTypes, TypeOK, Positions
<1>1. ASSUME NEW i \in Positions PROVE (\E j \in 1..i : chain[j] = cur) <=> c <= i
  <2>1. ASSUME NEW j \in 1..i, chain[j] = cur PROVE c <= i
    <3>1. j \in Positions
      BY <1>1, <1>a DEF Positions
    <3>. QED  BY <3>1, <2>1, ChainDistinct, <1>1 DEF Positions
  <2>2. ASSUME c <= i PROVE c \in 1..i
    BY <1>a, <1>1, <2>2 DEF Positions
  <2>. QED  BY <2>1, <2>2
<1>2. Ahead = {i \in Positions : c <= i}
  BY <1>1, <1>a DEF Ahead
<1>. QED  BY <1>2 DEF AheadNodes

LEMMA AheadOfNothing ==
  ASSUME cur = Null
  PROVE  Ahead = {} /\ AheadNodes = {}
  BY DEF Ahead, AheadNodes

(* One step of the walk. *)
LEMMA VisitCur ==
  ASSUME ListInv, cur # Null
  PROVE  \E c \in Positions :
           /\ cur = chain[c]
           /\ next[cur] = (IF c = Len(chain) THEN Null ELSE chain[c + 1])
           /\ c # Len(chain) => c + 1 \in Positions
           /\ cur \in OnChain /\ cur \in AheadNodes
<1>1. PICK c \in Positions : cur = chain[c]
  BY DEF ListInv, ListConsistent, WalkOnList
<1>2. next[cur] = (IF c = Len(chain) THEN Null ELSE chain[c + 1])
  BY <1>1 DEF ListInv, ListConsistent, PointersAgree
<1>3. Len(chain) \in Nat
  BY DEF ListInv, TimerTypes, TypeOK
<1>4. c # Len(chain) => c + 1 \in Positions
  BY <1>3 DEF Positions
<1>5. cur \in AheadNodes
  BY <1>1, <1>3, AheadIsSuffix DEF Positions
<1>. QED  BY <1>1, <1>2, <1>4, <1>5 DEF OnChain

LEMMA VisitKeeps ==
  ASSUME ListInv, ListInv', cur # Null, cur' = next[cur], chain' = chain
  PROVE  OnChain' = OnChain /\ AheadNodes' = AheadNodes \ {cur}
<1>1. PICK c \in Positions :
        /\ cur = chain[c]
        /\ next[cur] = (IF c = Len(chain) THEN Null ELSE chain[c + 1])
        /\ c # Len(chain) => c + 1 \in Positions
  BY VisitCur
<1>2. AheadNodes = {chain[i] : i \in {j \in Positions : c <= j}}
  BY <1>1, AheadIsSuffix
<1>3. AheadNodes \ {cur} = {chain[i] : i \in {j \in Positions : c + 1 <= j}}
  <2>1. \A i \in Positions : chain[i] = cur <=> i = c
    BY <1>1, ChainDistinct
  <2>2. \A i \in Positions : c + 1 <= i <=> c <= i /\ i # c
    BY DEF Positions
  <2>. QED  BY <1>2, <2>1, <2>2
<1>4. Positions' = Positions /\ OnChain' = OnChain /\ Len(chain) \in Nat
  BY DEF Positions, OnChain, ListInv, TimerTypes, TypeOK
<1>5. CASE c = Len(chain)
  <2>1. AheadNodes' = {}
    BY <1>1, <1>5 DEF AheadNodes, Ahead
  <2>2. \A i \in Positions : ~(c + 1 <= i)
    BY <1>4, <1>5 DEF Positions
  <2>. QED  BY <2>1, <2>2, <1>3, <1>4
<1>6. CASE c # Len(chain)
  <2>1. cur' = chain'[c + 1] /\ c + 1 \in Positions' /\ cur' # Null
    BY <1>1, <1>4, <1>6, NullIsNoNode, SMTT(20) DEF ListInv, TimerTypes, TypeOK, Positions
  <2>2. ASSUME NEW i \in Positions
        PROVE  (cur' # Null /\ \E j \in 1..i : chain'[j] = cur') <=> c + 1 <= i
    <3>1. ASSUME NEW j \in 1..i, chain[j] = chain[c + 1] PROVE c + 1 <= i
      <4>1. j \in Positions
        BY <1>4 DEF Positions
      <4>. QED  BY <4>1, <3>1, <2>1, <1>4, ChainDistinct DEF Positions
    <3>2. c + 1 <= i => c + 1 \in 1..i
      BY <1>1, <2>2 DEF Positions
    <3>. QED  BY <3>1, <3>2, <2>1
  <2>3. Ahead' = {i \in Positions : c + 1 <= i}
    BY <2>2, <1>4 DEF Ahead
  <2>. QED  BY <2>3, <1>3, <1>4 DEF AheadNodes
<1>. QED  BY <1>5, <1>6

LEMMA VisitUnlinks ==
  ASSUME ListInv, cur # Null, cur' = next[cur], Unlink(cur)
  PROVE  /\ OnChain' = OnChain \ {cur} /\ AheadNodes' = AheadNodes \ {cur}
         /\ WalkOnList'
<1>1. PICK c \in Positions :
        /\ cur = chain[c]
        /\ next[cur] = (IF c = Len(chain) THEN Null ELSE chain[c + 1])
        /\ c # Len(chain) => c + 1 \in Positions
  BY VisitCur
<1>a. /\ chain \in Seq(Node) /\ Len(chain) \in Nat /\ c \in 1..Len(chain)
      /\ chain' = Without(chain[c])
  BY <1>1 DEF ListInv, TimerTypes, TypeOK, Positions, Unlink
<1>b. /\ Len(chain') = Len(chain) - 1 /\ chain' \in Seq(Node)
      /\ OnChain' = OnChain \ {cur}
      /\ \A i \in Positions' : LET j == IF i < c THEN i ELSE i + 1 IN
              j \in Positions /\ j # c /\ chain'[i] = chain[j]
      /\ \A j \in Positions : j # c =>
              LET i == IF j < c THEN j ELSE j - 1 IN i \in Positions' /\ chain'[i] = chain[j]
  BY <1>1, <1>a, WithoutOne
<1>2. AheadNodes = {chain[i] : i \in {j \in Positions : c <= j}}
  BY <1>1, AheadIsSuffix
<1>3. AheadNodes \ {cur} = {chain[i] : i \in {j \in Positions : c + 1 <= j}}
  <2>1. \A i \in Positions : chain[i] = cur <=> i = c
    BY <1>1, ChainDistinct
  <2>2. \A i \in Positions : c + 1 <= i <=> c <= i /\ i # c
    BY <1>a DEF Positions
  <2>. QED  BY <1>2, <2>1, <2>2
<1>4. CASE c = Len(chain)
  <2>1. AheadNodes' = {} /\ WalkOnList'
    BY <1>1, <1>4 DEF AheadNodes, Ahead, WalkOnList
  <2>2. \A i \in Positions : ~(c + 1 <= i)
    BY <1>a, <1>4 DEF Positions
  <2>. QED  BY <2>1, <2>2, <1>3, <1>b
<1>5. CASE c # Len(chain)
  <2>1. c \in Positions' /\ chain'[c] = chain[c + 1] /\ cur' = chain'[c] /\ cur' # Null
    <3>1. c \in Positions'
      BY <1>a, <1>b, <1>5 DEF Positions
    <3>2. chain'[c] = chain[c + 1]
      BY <3>1, <1>b, <1>a
    <3>. QED  BY <3>1, <3>2, <1>1, <1>5, <1>a, NullIsNoNode DEF Positions
  <2>2. ASSUME NEW i \in Positions'
        PROVE  (\E j \in 1..i : chain'[j] = cur') <=> c <= i
    <3>1. ASSUME NEW j \in 1..i, chain'[j] = cur' PROVE c <= i
      <4>1. j \in Positions' /\ i \in Int /\ j <= i
        BY <1>b, <1>a, <2>2 DEF Positions
      <4> DEFINE jj == IF j < c THEN j ELSE j + 1
      <4>2. jj \in Positions /\ chain'[j] = chain[jj]
        BY <4>1, <1>b
      <4>3. jj = c + 1
        <5> HIDE DEF jj
        <5>. QED  BY <4>2, <3>1, <2>1, <1>1, <1>5, ChainDistinct
      <4>. QED  BY <4>1, <4>3, <1>a
    <3>2. c <= i => c \in 1..i
      BY <1>a, <1>b, <2>2 DEF Positions
    <3>. QED  BY <3>1, <3>2, <2>1
  <2>3. Ahead' = {i \in Positions' : c <= i}
    BY <2>1, <2>2 DEF Ahead
  <2>4. ASSUME NEW i \in Positions', c <= i PROVE chain'[i] \in AheadNodes \ {cur}
    <3>1. i + 1 \in Positions /\ chain'[i] = chain[i + 1] /\ c + 1 <= i + 1
      BY <2>4, <1>b, <1>a DEF Positions
    <3>. QED  BY <3>1, <1>3
  <2>5. ASSUME NEW i \in Positions, c + 1 <= i PROVE chain[i] \in AheadNodes'
    <3>1. i - 1 \in Positions' /\ chain'[i - 1] = chain[i] /\ c <= i - 1
      BY <2>5, <1>b, <1>a DEF Positions
    <3>. QED  BY <3>1, <2>3 DEF AheadNodes
  <2>6. AheadNodes' = AheadNodes \ {cur}
    BY <2>3, <2>4, <2>5, <1>3 DEF AheadNodes
  <2>. QED  BY <2>1, <2>6, <1>b DEF WalkOnList
<1>. QED  BY <1>4, <1>5
-----------------------------------------------------------------------------
LEMMA TimerInitIInv == Init => TimerIInv
<1> SUFFICES ASSUME Init PROVE TimerIInv
  OBVIOUS
<1> USE NullIsNoNode DEF Init
<1>1. Positions = {} /\ chain \in Seq(Node) /\ posted \in Seq(Key) /\ DOMAIN posted = {}
  BY DEF Positions
<1>2. TimerTypes
  <2>1. NoData \in [key : Key \cup {Null}, period : Nat, counter : Int]
    BY DEF NoData
  <2>2. data \in [Node -> [key : Key \cup {Null}, period : Nat, counter : Int]]
    BY <2>1
  <2>. QED  BY <1>1, <2>2 DEF TimerTypes, TypeOK
<1>3. PointersAgree /\ OneTimerPerKey /\ WalkOnList /\ Running /\ WalkInv
  BY <1>1 DEF PointersAgree, OneTimerPerKey, WalkOnList, Running, WalkInv, PostedOnce, Ahead
<1>4. Closed({}) /\ OnChain = {}
  BY <1>1 DEF Closed, OnChain
<1>5. Listed = {}
  BY <1>4, ListedLeast
<1>. QED  BY <1>2, <1>3, <1>4, <1>5 DEF TimerIInv, ListInv, ListConsistent

(* What the nodes hold changes, the list does not. *)
LEMMA DataChanges ==
  ASSUME ListInv, UNCHANGED <<head, tail, next, prev, chain>>, WalkOnList',
         walking' \in BOOLEAN, cur' \in Node \cup {Null}, posted' \in Seq(Key),
         data' \in [Node -> [key : Key \cup {Null}, period : Nat, counter : Int]],
         \A n \in OnChain : data'[n].key = data[n].key /\ data'[n].counter \in Nat
  PROVE  ListInv'
<1>1. Positions' = Positions /\ OnChain' = OnChain /\ Listed' = Listed
  BY ListedSame DEF Positions, OnChain
<1>2. TimerTypes' /\ PointersAgree'
  BY <1>1 DEF ListInv, TimerTypes, TypeOK, ListConsistent, PointersAgree
<1>3. \A i \in Positions : chain[i] \in OnChain
  BY DEF OnChain
<1>4. OneTimerPerKey' /\ Running'
  BY <1>1, <1>3 DEF ListInv, ListConsistent, OneTimerPerKey, Running, KeyAt
<1>. QED  BY <1>1, <1>2, <1>4 DEF ListInv, ListConsistent

LEMMA SetIInv ==
  ASSUME TimerIInv, NEW k \in Key, NEW d \in Duty, NEW periodic \in BOOLEAN,
         timer_set(k, d, periodic)
  PROVE  TimerIInv'
<1>a. /\ ListInv /\ WalkInv /\ ~walking /\ cur = Null /\ UNCHANGED <<walking, cur, posted>>
      /\ d \in Nat
  BY DutyIsNat DEF TimerIInv, WalkInv, timer_set
<1>b. TimerTypes
  BY <1>a DEF ListInv
<1>1. ASSUME ListInv' PROVE TimerIInv'
  <2>1. Ahead' = {}
    BY <1>a, AheadOfNothing DEF Ahead
  <2>. QED  BY <1>1, <1>a, <2>1 DEF TimerIInv, WalkInv, PostedOnce
<1>2. ASSUME NEW n \in NodesOf(k), data' = [data EXCEPT ![n].counter = d],
             UNCHANGED <<head, tail, next, prev, chain>>
      PROVE  ListInv'
  <2>1. n \in Node
    BY <1>a DEF NodesOf, Listed
  <2>2. data' \in [Node -> [key : Key \cup {Null}, period : Nat, counter : Int]]
    <3>1. [data[n] EXCEPT !.counter = d] \in [key : Key \cup {Null}, period : Nat, counter : Int]
      <4>1. data[n] \in [key : Key \cup {Null}, period : Nat, counter : Int]
        BY <1>b, <2>1 DEF TimerTypes, TypeOK
      <4>. QED  BY <4>1, <1>a
    <3>. QED  BY <3>1, <1>2, <1>b, <2>1 DEF TimerTypes, TypeOK
  <2>3. \A m \in OnChain : data'[m].key = data[m].key /\ data'[m].counter \in Nat
    <3>1. \A m \in OnChain : m \in Node /\ data[m].counter \in Nat
      BY <1>a, <1>b DEF ListInv, OnChain, Running, TimerTypes, Positions
    <3>. QED  BY <3>1, <1>2, <1>a, <1>b, <2>1 DEF TimerTypes
  <2>4. WalkOnList' /\ walking' \in BOOLEAN /\ cur' \in Node \cup {Null} /\ posted' \in Seq(Key)
    BY <1>a, <1>b DEF WalkOnList, TimerTypes, TypeOK
  <2>. QED  BY <1>a, <1>2, <2>2, <2>3, <2>4, DataChanges
<1>3. ASSUME NodesOf(k) = {}, NEW n \in Node \ Listed,
             data' = [data EXCEPT ![n] = [key |-> k, counter |-> d,
                                          period |-> IF periodic THEN d ELSE 0]],
             next' = [next EXCEPT ![n] = tail],
             prev' = IF tail = Null THEN [prev EXCEPT ![n] = Null]
                     ELSE [prev EXCEPT ![n] = Null, ![tail] = n],
             head' = IF tail = Null THEN n ELSE head, tail' = n, chain' = <<n>> \o chain
      PROVE  ListInv'
  <2> DEFINE rec == [key |-> k, counter |-> d, period |-> IF periodic THEN d ELSE 0]
  <2>1. rec \in [key : Key, period : Nat, counter : Nat] /\ rec.key = k
    BY <1>a
  <2>2. data' = [data EXCEPT ![n] = rec]
    BY <1>3
  <2> HIDE DEF rec
  <2>3. /\ ListConsistent' /\ Listed' = OnChain' /\ Running' /\ chain' \in Seq(Node)
        /\ next' \in [Node -> Node \cup {Null}] /\ prev' \in [Node -> Node \cup {Null}]
        /\ data' \in [Node -> [key : Key \cup {Null}, period : Nat, counter : Int]]
    BY <1>3, <1>a, <2>1, <2>2, InsertList
  <2>4. TimerTypes'
    BY <2>3, <1>3, <1>a, <1>b DEF TimerTypes, TypeOK
  <2>. QED  BY <2>3, <2>4 DEF ListInv
<1>. QED  BY <1>1, <1>2, <1>3 DEF timer_set

LEMMA NodeOfKey ==
  ASSUME ListInv, NEW k, NEW n \in NodesOf(k)
  PROVE  n \in OnChain /\ data[n].key = k /\ \E p \in Positions : n = chain[p]
  BY DEF ListInv, NodesOf, OnChain

LEMMA RemoveIInv ==
  ASSUME TimerIInv, NEW k \in Key, timer_remove_attr(k)
  PROVE  TimerIInv'
<1>a. /\ ListInv /\ WalkInv /\ ~walking /\ cur = Null /\ UNCHANGED <<walking, cur, posted>>
      /\ TimerTypes
  BY DEF TimerIInv, WalkInv, ListInv, timer_remove_attr
<1>1. PICK n \in NodesOf(k) : Unlink(n) /\ data' = [data EXCEPT ![n] = NoData]
  BY DEF timer_remove_attr
<1>2. PICK p \in Positions : n = chain[p]
  BY <1>a, NodeOfKey
<1>3. /\ PointersAgree' /\ OneTimerPerKey' /\ Listed' = OnChain' /\ Running'
      /\ chain' \in Seq(Node)
      /\ head' \in Node \cup {Null} /\ tail' \in Node \cup {Null}
      /\ next' \in [Node -> Node \cup {Null}] /\ prev' \in [Node -> Node \cup {Null}]
      /\ data' \in [Node -> [key : Key \cup {Null}, period : Nat, counter : Int]]
  BY <1>a, <1>1, <1>2, RemoveList
<1>4. ListInv'
  BY <1>3, <1>a DEF ListInv, TimerTypes, TypeOK, ListConsistent, WalkOnList
<1>5. Ahead' = {}
  BY <1>a DEF Ahead
<1>. QED  BY <1>4, <1>5, <1>a DEF TimerIInv, WalkInv, PostedOnce

LEMMA StartWalkIInv == ASSUME TimerIInv, StartWalk PROVE TimerIInv'
<1>a. ListInv /\ TimerTypes /\ PointersAgree /\ chain \in Seq(Node)
  BY DEF TimerIInv, ListInv, TimerTypes, TypeOK, ListConsistent
<1>b. walking' = TRUE /\ cur' = tail /\ posted' = <<>> /\ UNCHANGED <<head, tail, next, prev, data, chain>>
  BY DEF StartWalk, listVars
<1>1. WalkOnList'
  <2>1. tail # Null => 1 \in Positions /\ tail = chain[1]
    BY <1>a DEF PointersAgree, Positions
  <2>. QED  BY <2>1, <1>b DEF WalkOnList, Positions
<1>2. \A n \in OnChain : data'[n].key = data[n].key /\ data'[n].counter \in Nat
  BY <1>a, <1>b DEF ListInv, Running, OnChain
<1>3. ListInv'
  BY <1>a, <1>b, <1>1, <1>2, DataChanges DEF TimerTypes, TypeOK
<1>4. DOMAIN posted' = {}
  BY <1>b
<1>. QED  BY <1>3, <1>4, <1>b DEF TimerIInv, WalkInv, PostedOnce

LEMMA EndWalkIInv == ASSUME TimerIInv, EndWalk PROVE TimerIInv'
<1>a. ListInv /\ TimerTypes /\ WalkInv
  BY DEF TimerIInv, ListInv
<1>b. walking' = FALSE /\ cur = Null /\ UNCHANGED <<head, tail, next, prev, data, chain, cur, posted>>
  BY DEF EndWalk, listVars
<1>2. \A n \in OnChain : data'[n].key = data[n].key /\ data'[n].counter \in Nat
  BY <1>a, <1>b DEF ListInv, Running, OnChain
<1>3. ListInv'
  BY <1>a, <1>b, <1>2, DataChanges DEF TimerTypes, TypeOK, WalkOnList
<1>4. Ahead' = {}
  BY <1>b DEF Ahead
<1>. QED  BY <1>3, <1>4, <1>a, <1>b DEF TimerIInv, WalkInv, PostedOnce

(* One node a step: what it posts is behind the walk, and no other node ahead
   has its key.                                                            *)
LEMMA VisitIInv == ASSUME TimerIInv, Visit PROVE TimerIInv'
<1>a. /\ ListInv /\ TimerTypes /\ WalkInv /\ walking /\ cur # Null /\ cur' = next[cur]
      /\ walking' = walking
  BY DEF TimerIInv, ListInv, Visit
<1>b. /\ cur \in OnChain /\ cur \in AheadNodes /\ cur \in Node /\ cur' \in Node \cup {Null}
      /\ \E c \in Positions : cur = chain[c] /\ (cur' # Null => \E i \in Positions : cur' = chain[i])
  BY <1>a, VisitCur DEF TimerTypes, TypeOK
<1>c. /\ \A n \in OnChain : data[n].key \in Key /\ data[n].counter \in Nat
      /\ \A n \in OnChain, m \in OnChain : data[n].key = data[m].key => n = m
      /\ AheadNodes \subseteq OnChain /\ OnChain \subseteq Node
      /\ \A n \in AheadNodes, j \in DOMAIN posted : posted[j] # data[n].key
  <2>1. AheadNodes \subseteq OnChain /\ OnChain \subseteq Node
    BY <1>a DEF AheadNodes, Ahead, OnChain, TimerTypes, TypeOK, Positions
  <2>2. /\ \A n \in OnChain : data[n].key \in Key /\ data[n].counter \in Nat
        /\ \A n \in OnChain, m \in OnChain : data[n].key = data[m].key => n = m
    BY <1>a DEF ListInv, Running, KeyAt, ListConsistent, OneTimerPerKey, OnChain
  <2>3. \A n \in AheadNodes, j \in DOMAIN posted : posted[j] # data[n].key
    BY <1>a DEF AheadNodes, WalkInv, KeyAt
  <2>. QED  BY <2>1, <2>2, <2>3
<1>d. data[cur] \in [key : Key \cup {Null}, period : Nat, counter : Int] /\ posted \in Seq(Key)
  BY <1>a, <1>b DEF TimerTypes, TypeOK
<1>1. ASSUME ListInv', AheadNodes' = AheadNodes \ {cur},
             \A n \in AheadNodes \ {cur} : data'[n] = data[n],
             posted' = posted \/ posted' = Append(posted, data[cur].key)
      PROVE  TimerIInv'
  <2>1. ASSUME NEW i \in Ahead', NEW j \in DOMAIN posted' PROVE posted'[j] # KeyAt(i)'
    <3>1. chain'[i] \in AheadNodes \ {cur}
      BY <1>1 DEF AheadNodes
    <3>2. KeyAt(i)' = data[chain'[i]].key
      BY <1>1, <3>1 DEF KeyAt
    <3>3. data[chain'[i]].key # data[cur].key
      BY <3>1, <1>b, <1>c
    <3>4. \A l \in DOMAIN posted : posted[l] # data[chain'[i]].key
      BY <3>1, <1>c
    <3>. QED  BY <3>2, <3>3, <3>4, <1>1, <1>d
  <2>2. PostedOnce'
    <3>1. \A l \in DOMAIN posted : posted[l] # data[cur].key
      BY <1>b, <1>c
    <3>2. PostedOnce
      BY <1>a DEF WalkInv
    <3>3. CASE posted' = posted
      BY <3>2, <3>3 DEF PostedOnce
    <3>4. CASE posted' = Append(posted, data[cur].key)
      <4>1. /\ DOMAIN posted = 1..Len(posted) /\ Len(posted) \in Nat
            /\ DOMAIN posted' = 1 .. Len(posted) + 1
            /\ posted'[Len(posted) + 1] = data[cur].key
            /\ \A l \in 1..Len(posted) : posted'[l] = posted[l]
        BY <3>4, <1>d, <1>b, <1>c
      <4>. QED  BY <4>1, <3>1, <3>2 DEF PostedOnce
    <3>. QED  BY <1>1, <3>3, <3>4
  <2>. QED  BY <1>1, <2>1, <2>2, <1>a DEF TimerIInv, WalkInv
<1>2. CASE /\ ~Due(cur) /\ data' = [data EXCEPT ![cur].counter = @ - 1]
           /\ UNCHANGED <<head, tail, next, prev, chain, posted>>
  <2>1. data'[cur] = [data[cur] EXCEPT !.counter = @ - 1] /\ \A n \in Node \ {cur} : data'[n] = data[n]
    BY <1>2, <1>a, <1>b DEF TimerTypes, TypeOK
  <2>2. /\ data'[cur].key = data[cur].key /\ data'[cur].counter = data[cur].counter - 1
        /\ data'[cur] \in [key : Key \cup {Null}, period : Nat, counter : Int]
    BY <2>1, <1>d
  <2>3. data' \in [Node -> [key : Key \cup {Null}, period : Nat, counter : Int]]
    BY <1>2, <2>1, <2>2, <1>a DEF TimerTypes, TypeOK
  <2>4. data'[cur].counter \in Nat
    BY <1>2, <2>2, <1>b, <1>c DEF Due
  <2>5. \A n \in OnChain : data'[n].key = data[n].key /\ data'[n].counter \in Nat
    BY <2>1, <2>2, <2>4, <1>c
  <2>6. WalkOnList'
    BY <1>2, <1>b DEF WalkOnList, Positions
  <2>7. ListInv'
    BY <1>2, <2>3, <2>5, <2>6, <1>a, <1>b, <1>d, DataChanges
  <2>8. AheadNodes' = AheadNodes \ {cur}
    BY <2>7, <1>a, <1>2, VisitKeeps
  <2>9. \A n \in AheadNodes \ {cur} : data'[n] = data[n]
    BY <2>1, <1>c
  <2>. QED  BY <1>1, <1>2, <2>7, <2>8, <2>9
<1>3. CASE /\ Due(cur) /\ data[cur].period # 0 /\ posted' = Append(posted, data[cur].key)
           /\ data' = [data EXCEPT ![cur].counter = data[cur].period]
           /\ UNCHANGED <<head, tail, next, prev, chain>>
  <2>1. /\ data'[cur] = [data[cur] EXCEPT !.counter = data[cur].period]
        /\ \A n \in Node \ {cur} : data'[n] = data[n]
    BY <1>3, <1>a, <1>b DEF TimerTypes, TypeOK
  <2>2. /\ data'[cur].key = data[cur].key /\ data'[cur].counter = data[cur].period
        /\ data'[cur] \in [key : Key \cup {Null}, period : Nat, counter : Int]
        /\ data'[cur].counter \in Nat
    BY <2>1, <1>d
  <2>3. data' \in [Node -> [key : Key \cup {Null}, period : Nat, counter : Int]]
    BY <1>3, <2>1, <2>2, <1>a DEF TimerTypes, TypeOK
  <2>5. \A n \in OnChain : data'[n].key = data[n].key /\ data'[n].counter \in Nat
    BY <2>1, <2>2, <1>c
  <2>6. WalkOnList' /\ posted' \in Seq(Key)
    BY <1>3, <1>b, <1>c, <1>d DEF WalkOnList, Positions
  <2>7. ListInv'
    BY <1>3, <2>3, <2>5, <2>6, <1>a, <1>b, <1>d, DataChanges DEF TimerTypes, TypeOK
  <2>8. AheadNodes' = AheadNodes \ {cur}
    BY <2>7, <1>a, <1>3, VisitKeeps
  <2>9. \A n \in AheadNodes \ {cur} : data'[n] = data[n]
    BY <2>1, <1>c
  <2>. QED  BY <1>1, <1>3, <2>7, <2>8, <2>9
<1>4. ASSUME Due(cur), data[cur].period = 0, posted' = Append(posted, data[cur].key),
             NEW n \in NodesOf(data[cur].key), Unlink(n), data' = [data EXCEPT ![n] = NoData]
      PROVE  TimerIInv'
  <2>1. n = cur
    BY <1>a, <1>b, <1>c, NodeOfKey
  <2>2. PICK c \in Positions : cur = chain[c]
    BY <1>b
  <2>3. /\ PointersAgree' /\ OneTimerPerKey' /\ Listed' = OnChain' /\ Running'
        /\ chain' \in Seq(Node)
        /\ head' \in Node \cup {Null} /\ tail' \in Node \cup {Null}
        /\ next' \in [Node -> Node \cup {Null}] /\ prev' \in [Node -> Node \cup {Null}]
        /\ data' \in [Node -> [key : Key \cup {Null}, period : Nat, counter : Int]]
        /\ \A j \in Positions : j # c => data'[chain[j]] = data[chain[j]]
    BY <1>4, <1>a, <2>1, <2>2, RemoveList
  <2>4. AheadNodes' = AheadNodes \ {cur} /\ WalkOnList'
    BY <1>4, <1>a, <2>1, VisitUnlinks
  <2>5. posted' \in Seq(Key)
    BY <1>4, <1>b, <1>c, <1>d
  <2>6. ListInv'
    BY <2>3, <2>4, <2>5, <1>a, <1>b DEF ListInv, TimerTypes, TypeOK, ListConsistent
  <2>7. \A m \in AheadNodes \ {cur} : data'[m] = data[m]
    BY <1>4, <2>1, <1>a, <1>c DEF TimerTypes, TypeOK
  <2>. QED  BY <1>1, <1>4, <2>4, <2>6, <2>7
<1>. QED  BY <1>2, <1>3, <1>4 DEF Visit

LEMMA TimerStepIInv == TimerIInv /\ [Next]_vars => TimerIInv'
<1> SUFFICES ASSUME TimerIInv, [Next]_vars PROVE TimerIInv'
  OBVIOUS
<1>1. CASE UNCHANGED vars
  <2>1. /\ ListInv' <=> ListInv
        /\ WalkInv' <=> WalkInv
    BY <1>1 DEF vars, ListInv, TimerTypes, TypeOK, ListConsistent, PointersAgree, OneTimerPerKey, WalkOnList,
         Running, Listed, Closed, OnChain, Positions, KeyAt, WalkInv, PostedOnce, Ahead
  <2>. QED  BY <2>1 DEF TimerIInv
<1>. QED
  BY <1>1, SetIInv, RemoveIInv, StartWalkIInv, VisitIInv, EndWalkIInv DEF Next

LEMMA AlwaysTimerIInv == Spec => []TimerIInv
  BY TimerInitIInv, TimerStepIInv, PTL DEF Spec

(* The list reads the same from both ends, holds one timer per destination and
   signal, and is never left by the walk, whatever the walk unlinks
   (timer_service_remove_node, timer_handler).                             *)
THEOREM TimerListConsistent == Spec => []ListConsistent
<1>1. TimerIInv => ListConsistent
  BY DEF TimerIInv, ListInv
<1>. QED  BY <1>1, AlwaysTimerIInv, PTL

(* timer_handler posts no timer twice in one tick. *)
THEOREM TimerPostedOnce == Spec => []PostedOnce
<1>1. TimerIInv => PostedOnce
  BY DEF TimerIInv, WalkInv
<1>. QED  BY <1>1, AlwaysTimerIInv, PTL

-----------------------------------------------------------------------------
(* The refinement, with the nodes in the place of their positions. *)
TimerNodes == {n \in OnChain : ~(n \in AheadNodes /\ Due(n) /\ data[n].period = 0)}
LeftOfNode(n) == IF n \notin AheadNodes THEN data[n].counter
                 ELSE IF Due(n) THEN data[n].period ELSE data[n].counter - 1

ServiceView ==
  /\ \A n \in OnChain : data[n].key \in Key /\ data[n].counter \in Nat
  /\ \A n \in OnChain, m \in OnChain : data[n].key = data[m].key => n = m
  /\ AheadNodes \subseteq OnChain /\ OnChain \subseteq Node
  /\ \A n \in TimerNodes : Left[data[n].key] = LeftOfNode(n) /\ Period[data[n].key] = data[n].period
  /\ \A k \in Key : (\A n \in TimerNodes : data[n].key # k) => Left[k] = -1 /\ Period[k] = 0
  /\ Left = [k \in Key |-> Left[k]] /\ Period = [k \in Key |-> Period[k]]
  /\ Expired = {posted[i] : i \in DOMAIN posted} \cup {data[n].key : n \in {m \in AheadNodes : Due(m)}}

LEMMA Viewed == TimerIInv => ServiceView
<1> SUFFICES ASSUME TimerIInv PROVE ServiceView
  OBVIOUS
<1>a. ListInv /\ TimerTypes
  BY DEF TimerIInv, ListInv
<1>1. /\ \A n \in OnChain : data[n].key \in Key /\ data[n].counter \in Nat
      /\ \A n \in OnChain, m \in OnChain : data[n].key = data[m].key => n = m
      /\ \A i \in Positions : KeyAt(i) \in Key
      /\ \A i \in Positions, j \in Positions : KeyAt(i) = KeyAt(j) => i = j
  BY <1>a DEF ListInv, Running, KeyAt, ListConsistent, OneTimerPerKey, OnChain
<1>2. AheadNodes \subseteq OnChain /\ OnChain \subseteq Node
  BY <1>a DEF AheadNodes, Ahead, OnChain, TimerTypes, Positions
<1>3. \A i \in Positions : chain[i] \in AheadNodes <=> i \in Ahead
  BY <1>a, ChainDistinct DEF AheadNodes, Ahead
<1>4. \A i \in Positions : /\ i \in Timers <=> chain[i] \in TimerNodes
                          /\ LeftOf(i) = LeftOfNode(chain[i])
  BY <1>3 DEF Timers, Gone, TimerNodes, LeftOf, LeftOfNode, OnChain
<1>5. ASSUME NEW n \in TimerNodes
      PROVE  Left[data[n].key] = LeftOfNode(n) /\ Period[data[n].key] = data[n].period
  <2>1. PICK i \in Positions : n = chain[i]
    BY DEF TimerNodes, OnChain
  <2>2. i \in Timers /\ KeyAt(i) = data[n].key /\ data[n].key \in Key
    BY <2>1, <1>4, <1>1 DEF KeyAt
  <2>3. (CHOOSE j \in Timers : KeyAt(j) = data[n].key) = i
    BY <2>2, <1>1 DEF Timers
  <2>. QED  BY <2>1, <2>2, <2>3, <1>4 DEF Left, Period
<1>6. ASSUME NEW k \in Key, \A n \in TimerNodes : data[n].key # k
      PROVE  Left[k] = -1 /\ Period[k] = 0
  <2>1. \A i \in Timers : KeyAt(i) # k
    BY <1>6, <1>4 DEF KeyAt, Timers
  <2>. QED  BY <2>1 DEF Left, Period
<1>7. Left = [k \in Key |-> Left[k]] /\ Period = [k \in Key |-> Period[k]]
  BY DEF Left, Period
<1>8. Expired = {posted[i] : i \in DOMAIN posted} \cup {data[n].key : n \in {m \in AheadNodes : Due(m)}}
  BY DEF Expired, KeyAt, AheadNodes
<1>. QED  BY <1>1, <1>2, <1>5, <1>6, <1>7, <1>8 DEF ServiceView

(* The timers of two states agree when their nodes do. *)
LEMMA SameService ==
  ASSUME ServiceView, ServiceView', TimerNodes' = TimerNodes,
         \A n \in TimerNodes : /\ data'[n].key = data[n].key /\ data'[n].period = data[n].period
                               /\ LeftOfNode(n)' = LeftOfNode(n)
  PROVE  Left' = Left /\ Period' = Period
<1>1. ASSUME NEW k \in Key PROVE Left'[k] = Left[k] /\ Period'[k] = Period[k]
  <2>1. CASE \E n \in TimerNodes : data[n].key = k
    <3>1. PICK n \in TimerNodes : data[n].key = k
      BY <2>1
    <3>. QED  BY <3>1 DEF ServiceView
  <2>2. CASE \A n \in TimerNodes : data[n].key # k
    BY <2>2 DEF ServiceView
  <2>. QED  BY <2>1, <2>2
<1>. QED  BY <1>1 DEF ServiceView

LEMMA InitService == Init => Service!ServiceInit
<1> SUFFICES ASSUME Init PROVE Service!ServiceInit
  OBVIOUS
<1>1. ServiceView
  BY TimerInitIInv, Viewed
<1>2. TimerNodes = {} /\ AheadNodes = {} /\ DOMAIN posted = {}
  BY DEF Init, TimerNodes, OnChain, Positions, AheadNodes, Ahead
<1>. QED  BY <1>1, <1>2 DEF ServiceView, Service!ServiceInit, Service!Off

(* While no walk is on the way every node of the list is a timer. *)
LEMMA AtRestNodes ==
  ASSUME cur = Null
  PROVE  /\ AheadNodes = {} /\ TimerNodes = OnChain
         /\ \A n \in OnChain : LeftOfNode(n) = data[n].counter
  BY DEF AheadNodes, Ahead, TimerNodes, LeftOfNode

LEMMA AtRestNodesNext ==
  ASSUME cur' = Null
  PROVE  /\ AheadNodes' = {} /\ TimerNodes' = OnChain'
         /\ \A n \in OnChain' : LeftOfNode(n)' = data'[n].counter
  BY DEF AheadNodes, Ahead, TimerNodes, LeftOfNode

LEMMA SetService ==
  ASSUME TimerIInv, TimerIInv', ServiceView, ServiceView',
         NEW k \in Key, NEW d \in Duty, NEW periodic \in BOOLEAN, timer_set(k, d, periodic)
  PROVE  Service!Set(k, d, 0) \/ Service!Set(k, d, d)
<1>a. /\ ListInv /\ TimerTypes /\ cur = Null /\ cur' = Null /\ posted' = posted /\ d \in Nat
  BY DutyIsNat DEF TimerIInv, ListInv, WalkInv, timer_set
<1>b. /\ TimerNodes = OnChain /\ \A n \in OnChain : LeftOfNode(n) = data[n].counter
      /\ TimerNodes' = OnChain' /\ \A n \in OnChain' : LeftOfNode(n)' = data'[n].counter
      /\ Expired' = Expired
  BY <1>a, AtRestNodes, AtRestNodesNext DEF ServiceView
<1>c. Left = [j \in Key |-> Left[j]] /\ Left' = [j \in Key |-> Left'[j]]
      /\ Period = [j \in Key |-> Period[j]] /\ Period' = [j \in Key |-> Period'[j]]
  BY DEF ServiceView
<1>1. ASSUME NEW n \in NodesOf(k), data' = [data EXCEPT ![n].counter = d],
             UNCHANGED <<head, tail, next, prev, chain>>
      PROVE  Service!Set(k, d, 0)
  <2>1. n \in OnChain /\ data[n].key = k /\ OnChain' = OnChain /\ n \in Node
    BY <1>1, <1>a, NodeOfKey DEF OnChain, Positions, ServiceView
  <2>2. \A m \in Node : data'[m] = IF m = n THEN [data[n] EXCEPT !.counter = d] ELSE data[m]
    BY <1>1, <1>a, <2>1 DEF TimerTypes, TypeOK
  <2>3. data[n] \in [key : Key \cup {Null}, period : Nat, counter : Int]
    BY <1>a, <2>1 DEF TimerTypes, TypeOK
  <2>4. data'[n].key = k /\ data'[n].period = data[n].period /\ data'[n].counter = d
    BY <2>1, <2>2, <2>3
  <2>5. ASSUME NEW j \in Key
        PROVE  Left'[j] = (IF j = k THEN d ELSE Left[j]) /\ Period'[j] = Period[j]
    <3>1. CASE j = k
      BY <3>1, <2>1, <2>4, <1>b DEF ServiceView
    <3>2. CASE j # k /\ \E m \in OnChain : data[m].key = j
      <4>1. PICK m \in OnChain : data[m].key = j
        BY <3>2
      <4>2. data'[m] = data[m]
        BY <4>1, <3>2, <2>1, <2>2 DEF ServiceView
      <4>. QED  BY <4>1, <4>2, <3>2, <2>1, <1>b DEF ServiceView
    <3>3. CASE j # k /\ \A m \in OnChain : data[m].key # j
      <4>1. \A m \in OnChain : data'[m].key # j
        BY <3>3, <2>1, <2>2, <2>4 DEF ServiceView
      <4>. QED  BY <3>3, <4>1, <2>1, <1>b DEF ServiceView
    <3>. QED  BY <3>1, <3>2, <3>3
  <2>6. Left[k] # Service!Off
    BY <2>1, <1>b DEF ServiceView, Service!Off
  <2>7. Left' = [Left EXCEPT ![k] = d] /\ Period' = Period
    BY <2>5, <1>c
  <2>. QED  BY <2>6, <2>7, <1>b, <1>c DEF Service!Set
<1>2. ASSUME NodesOf(k) = {}, NEW n \in Node \ Listed,
             data' = [data EXCEPT ![n] = [key |-> k, counter |-> d,
                                          period |-> IF periodic THEN d ELSE 0]],
             chain' = <<n>> \o chain
      PROVE  Service!Set(k, d, 0) \/ Service!Set(k, d, d)
  <2> DEFINE p == IF periodic THEN d ELSE 0
  <2>1. \A m \in OnChain : data[m].key # k /\ m # n
    BY <1>2, <1>a DEF NodesOf, ListInv
  <2>2. data'[n] = [key |-> k, counter |-> d, period |-> p]
        /\ \A m \in OnChain : data'[m] = data[m]
    BY <1>2, <2>1, <1>a DEF TimerTypes, TypeOK, ServiceView
  <2>3. OnChain' = OnChain \cup {n}
    <3>1. /\ chain \in Seq(Node) /\ Len(chain') = Len(chain) + 1 /\ chain'[1] = n
          /\ \A i \in Positions : chain'[i + 1] = chain[i] /\ i + 1 \in Positions'
          /\ \A i \in Positions' : i = 1 \/ (i - 1 \in Positions /\ chain'[i] = chain[i - 1])
          /\ 1 \in Positions'
      BY <1>2, <1>a DEF TimerTypes, Positions
    <3>2. \A i \in Positions' : chain'[i] \in OnChain \cup {n}
      BY <3>1 DEF OnChain
    <3>3. ASSUME NEW i \in Positions PROVE chain[i] \in OnChain'
      <4>1. chain[i] = chain'[i + 1] /\ i + 1 \in Positions'
        BY <3>1
      <4>. QED  BY <4>1 DEF OnChain
    <3>4. n \in OnChain'
      BY <3>1 DEF OnChain
    <3>. QED  BY <3>2, <3>3, <3>4 DEF OnChain
  <2>5. ASSUME NEW j \in Key
        PROVE  /\ Left'[j] = (IF j = k THEN d ELSE Left[j])
               /\ Period'[j] = (IF j = k THEN p ELSE Period[j])
    <3>1. CASE j = k
      BY <3>1, <2>2, <2>3, <1>b DEF ServiceView
    <3>2. CASE j # k /\ \E m \in OnChain : data[m].key = j
      <4>1. PICK m \in OnChain : data[m].key = j
        BY <3>2
      <4>. QED  BY <4>1, <3>2, <2>2, <2>3, <1>b DEF ServiceView
    <3>3. CASE j # k /\ \A m \in OnChain : data[m].key # j
      <4>1. \A m \in OnChain' : data'[m].key # j
        BY <3>3, <2>2, <2>3
      <4>. QED  BY <3>3, <4>1, <1>b DEF ServiceView
    <3>. QED  BY <3>1, <3>2, <3>3
  <2>6. Left[k] = Service!Off
    BY <2>1, <1>b DEF ServiceView, Service!Off
  <2>7. Left' = [Left EXCEPT ![k] = d] /\ Period' = [Period EXCEPT ![k] = p]
    BY <2>5, <1>c
  <2>8. Service!Set(k, d, p)
    BY <2>6, <2>7, <1>b, <1>c DEF Service!Set
  <2>. QED  BY <2>8
<1>. QED  BY <1>1, <1>2 DEF timer_set

LEMMA RemoveService ==
  ASSUME TimerIInv, TimerIInv', ServiceView, ServiceView', NEW k \in Key, timer_remove_attr(k)
  PROVE  Service!Remove(k)
<1>a. /\ ListInv /\ TimerTypes /\ cur = Null /\ cur' = Null /\ posted' = posted
  BY DEF TimerIInv, ListInv, WalkInv, timer_remove_attr
<1>b. /\ TimerNodes = OnChain /\ \A n \in OnChain : LeftOfNode(n) = data[n].counter
      /\ TimerNodes' = OnChain' /\ \A n \in OnChain' : LeftOfNode(n)' = data'[n].counter
      /\ Expired' = Expired
  BY <1>a, AtRestNodes, AtRestNodesNext DEF ServiceView
<1>c. Left = [j \in Key |-> Left[j]] /\ Left' = [j \in Key |-> Left'[j]]
      /\ Period = [j \in Key |-> Period[j]] /\ Period' = [j \in Key |-> Period'[j]]
  BY DEF ServiceView
<1>1. PICK n \in NodesOf(k) : Unlink(n) /\ data' = [data EXCEPT ![n] = NoData]
  BY DEF timer_remove_attr
<1>2. n \in OnChain /\ data[n].key = k /\ OnChain' = OnChain \ {n}
      /\ \A m \in OnChain \ {n} : data'[m] = data[m]
  <2>1. n \in OnChain /\ data[n].key = k /\ \E p \in Positions : n = chain[p]
    BY <1>a, <1>1, NodeOfKey
  <2>2. OnChain' = OnChain \ {n}
    BY <2>1, <1>1, <1>a, WithoutOne DEF Unlink
  <2>. QED  BY <2>1, <2>2, <1>1, <1>a DEF TimerTypes, TypeOK, ServiceView
<1>3. ASSUME NEW j \in Key
      PROVE  /\ Left'[j] = (IF j = k THEN -1 ELSE Left[j])
             /\ Period'[j] = (IF j = k THEN 0 ELSE Period[j])
  <2>1. CASE j = k
    <3>1. \A m \in OnChain' : data'[m].key # k
      BY <1>2 DEF ServiceView
    <3>. QED  BY <2>1, <3>1, <1>b DEF ServiceView
  <2>2. CASE j # k /\ \E m \in OnChain : data[m].key = j
    <3>1. PICK m \in OnChain : data[m].key = j
      BY <2>2
    <3>. QED  BY <3>1, <2>2, <1>2, <1>b DEF ServiceView
  <2>3. CASE j # k /\ \A m \in OnChain : data[m].key # j
    <3>1. \A m \in OnChain' : data'[m].key # j
      BY <2>3, <1>2
    <3>. QED  BY <2>3, <3>1, <1>b DEF ServiceView
  <2>. QED  BY <2>1, <2>2, <2>3
<1>4. Left' = [Left EXCEPT ![k] = -1] /\ Period' = [Period EXCEPT ![k] = 0]
  BY <1>3, <1>c
<1>. QED  BY <1>4, <1>b DEF Service!Remove, Service!Off

(* The tick takes effect when the walk starts. *)
LEMMA StartWalkService ==
  ASSUME TimerIInv, TimerIInv', ServiceView, ServiceView', StartWalk
  PROVE  Service!Tick
<1>a. /\ ListInv /\ TimerTypes /\ cur = Null /\ cur' = tail /\ posted' = <<>>
      /\ data' = data /\ chain' = chain /\ ListInv' /\ PointersAgree /\ OnChain' = OnChain
  BY DEF TimerIInv, ListInv, WalkInv, StartWalk, listVars, ListConsistent, OnChain, Positions
<1>b. TimerNodes = OnChain /\ \A n \in OnChain : LeftOfNode(n) = data[n].counter
  BY <1>a, AtRestNodes
<1>c. Left = [j \in Key |-> Left[j]] /\ Left' = [j \in Key |-> Left'[j]]
      /\ Period = [j \in Key |-> Period[j]] /\ Period' = [j \in Key |-> Period'[j]]
  BY DEF ServiceView
<1>1. AheadNodes' = OnChain
  <2>1. CASE chain = <<>>
    BY <2>1, <1>a DEF AheadNodes, Ahead, OnChain, Positions
  <2>2. CASE chain # <<>>
    <3>1. tail = chain[1] /\ tail # Null /\ \A i \in Positions : 1 \in 1..i
      BY <2>2, <1>a, NullIsNoNode DEF PointersAgree, TimerTypes, TypeOK, Positions
    <3>2. Ahead' = Positions
      BY <3>1, <1>a DEF Ahead, Positions
    <3>. QED  BY <3>2, <1>a DEF AheadNodes, OnChain
  <2>. QED  BY <2>1, <2>2
<1>2. /\ \A n \in OnChain : Due(n)' <=> Due(n)
      /\ TimerNodes' = {n \in OnChain : ~(Due(n) /\ data[n].period = 0)}
      /\ \A n \in OnChain : LeftOfNode(n)' = IF Due(n) THEN data[n].period ELSE data[n].counter - 1
  BY <1>1, <1>a DEF TimerNodes, LeftOfNode, Due
<1>3. ASSUME NEW n \in OnChain
      PROVE  /\ data[n].counter \in Nat /\ data[n].key \in Key
             /\ Left[data[n].key] = data[n].counter /\ Period[data[n].key] = data[n].period
             /\ Service!Expires(Left[data[n].key]) <=> Due(n)
  BY <1>b DEF ServiceView, Service!Expires, Service!Off, Due
<1>4. ASSUME NEW k \in Key, \A n \in OnChain : data[n].key # k
      PROVE  Left[k] = -1 /\ Left'[k] = -1 /\ Period[k] = 0 /\ Period'[k] = 0
             /\ ~Service!Expires(Left[k])
  <2>1. Left[k] = -1 /\ Period[k] = 0
    BY <1>4, <1>b DEF ServiceView
  <2>2. \A n \in TimerNodes' : data'[n].key # k
    BY <1>4, <1>2, <1>a
  <2>. QED  BY <2>1, <2>2 DEF ServiceView, Service!Expires, Service!Off
<1>5. ASSUME NEW k \in Key
      PROVE  /\ Left'[k] = IF Left[k] = Service!Off THEN Service!Off
                           ELSE IF ~Service!Expires(Left[k]) THEN Left[k] - 1
                           ELSE IF Period[k] # 0 THEN Period[k] ELSE Service!Off
             /\ Period'[k] = IF Service!Expires(Left[k]) /\ Period[k] = 0 THEN 0 ELSE Period[k]
  <2>1. CASE \A n \in OnChain : data[n].key # k
    BY <2>1, <1>4 DEF Service!Off
  <2>2. ASSUME NEW n \in OnChain, data[n].key = k, n \in TimerNodes'
        PROVE  /\ Left'[k] = (IF Due(n) THEN data[n].period ELSE data[n].counter - 1)
               /\ Period'[k] = data[n].period
    BY <2>2, <1>2, <1>a DEF ServiceView
  <2>3. ASSUME NEW n \in OnChain, data[n].key = k, n \notin TimerNodes'
        PROVE  Left'[k] = -1 /\ Period'[k] = 0
    <3>1. \A m \in TimerNodes' : data'[m].key # k
      BY <2>3, <1>2, <1>a DEF ServiceView
    <3>. QED  BY <3>1 DEF ServiceView
  <2>4. ASSUME NEW n \in OnChain, data[n].key = k
        PROVE  /\ Left'[k] = IF Left[k] = Service!Off THEN Service!Off
                             ELSE IF ~Service!Expires(Left[k]) THEN Left[k] - 1
                             ELSE IF Period[k] # 0 THEN Period[k] ELSE Service!Off
               /\ Period'[k] = IF Service!Expires(Left[k]) /\ Period[k] = 0 THEN 0 ELSE Period[k]
    BY <2>2, <2>3, <2>4, <1>2, <1>3 DEF Service!Off
  <2>. QED  BY <2>1, <2>4
<1>6. Expired' = {k \in Key : Service!Expires(Left[k])}
  <2>1. Expired' = {data[n].key : n \in {m \in OnChain : Due(m)}}
    BY <1>1, <1>2, <1>a DEF ServiceView
  <2>2. ASSUME NEW k \in Key, Service!Expires(Left[k]) PROVE \E n \in OnChain : Due(n) /\ data[n].key = k
    BY <2>2, <1>3, <1>4
  <2>. QED  BY <2>1, <2>2, <1>3
<1>. QED  BY <1>5, <1>6, <1>c DEF Service!Tick

(* What a visit does was already counted when the walk started. *)
LEMMA VisitService ==
  ASSUME TimerIInv, TimerIInv', ServiceView, ServiceView', Visit
  PROVE  UNCHANGED <<Left, Period, Expired>>
<1>a. /\ ListInv /\ ListInv' /\ TimerTypes /\ cur # Null /\ cur' = next[cur]
  BY DEF TimerIInv, ListInv, Visit
<1>b. /\ cur \in OnChain /\ cur \in AheadNodes /\ cur \in Node
      /\ data[cur] \in [key : Key \cup {Null}, period : Nat, counter : Int]
      /\ data[cur].key \in Key /\ data[cur].counter \in Nat /\ posted \in Seq(Key)
  BY <1>a, VisitCur DEF TimerTypes, TypeOK, ServiceView
<1>1. ASSUME AheadNodes' = AheadNodes \ {cur},
             \A n \in OnChain \ {cur} : data'[n] = data[n],
             posted' = (IF Due(cur) THEN Append(posted, data[cur].key) ELSE posted)
      PROVE  Expired' = Expired
  <2>1. {posted'[i] : i \in DOMAIN posted'}
          = {posted[i] : i \in DOMAIN posted} \cup (IF Due(cur) THEN {data[cur].key} ELSE {})
    BY <1>1, <1>b
  <2>2. \A n \in AheadNodes \ {cur} : data'[n] = data[n] /\ (Due(n)' <=> Due(n))
    BY <1>1 DEF Due, ServiceView
  <2>3. {data'[n].key : n \in {m \in AheadNodes' : Due(m)'}}
          = {data[n].key : n \in {m \in AheadNodes \ {cur} : Due(m)}}
    BY <1>1, <2>2
  <2>4. {data[n].key : n \in {m \in AheadNodes : Due(m)}}
          = {data[n].key : n \in {m \in AheadNodes \ {cur} : Due(m)}}
            \cup (IF Due(cur) THEN {data[cur].key} ELSE {})
    BY <1>b
  <2>5. Expired' = {posted'[i] : i \in DOMAIN posted'} \cup {data'[n].key : n \in {m \in AheadNodes' : Due(m)'}}
    BY DEF ServiceView
  <2>6. Expired = {posted[i] : i \in DOMAIN posted} \cup {data[n].key : n \in {m \in AheadNodes : Due(m)}}
    BY DEF ServiceView
  <2>. QED  BY <2>1, <2>3, <2>4, <2>5, <2>6
<1>2. ASSUME UNCHANGED <<head, tail, next, prev, chain>>, ~(Due(cur) /\ data[cur].period = 0),
             \A n \in Node \ {cur} : data'[n] = data[n],
             data'[cur].key = data[cur].key, data'[cur].period = data[cur].period,
             data'[cur].counter = (IF Due(cur) THEN data[cur].period ELSE data[cur].counter - 1),
             posted' = (IF Due(cur) THEN Append(posted, data[cur].key) ELSE posted)
      PROVE  UNCHANGED <<Left, Period, Expired>>
  <2>1. OnChain' = OnChain /\ AheadNodes' = AheadNodes \ {cur}
    BY <1>2, <1>a, VisitKeeps
  <2>2. \A n \in OnChain \ {cur} : data'[n] = data[n] /\ (Due(n)' <=> Due(n))
    BY <1>2 DEF ServiceView, Due
  <2>3. TimerNodes' = TimerNodes
    BY <1>2, <1>b, <2>1, <2>2 DEF TimerNodes
  <2>4. ASSUME NEW n \in TimerNodes
        PROVE  /\ data'[n].key = data[n].key /\ data'[n].period = data[n].period
               /\ LeftOfNode(n)' = LeftOfNode(n)
    <3>1. CASE n = cur
      BY <3>1, <1>2, <1>b, <2>1 DEF LeftOfNode
    <3>2. CASE n # cur
      BY <3>2, <2>1, <2>2 DEF LeftOfNode, TimerNodes
    <3>. QED  BY <3>1, <3>2
  <2>5. Left' = Left /\ Period' = Period
    BY <2>3, <2>4, SameService
  <2>. QED  BY <2>5, <1>1, <1>2, <2>1, <2>2
<1>3. CASE /\ ~Due(cur) /\ data' = [data EXCEPT ![cur].counter = @ - 1]
           /\ UNCHANGED <<head, tail, next, prev, chain, posted>>
  <2>1. /\ data'[cur] = [data[cur] EXCEPT !.counter = @ - 1]
        /\ \A n \in Node \ {cur} : data'[n] = data[n]
    BY <1>3, <1>a, <1>b DEF TimerTypes, TypeOK
  <2>2. /\ data'[cur].key = data[cur].key /\ data'[cur].counter = data[cur].counter - 1
        /\ data'[cur].period = data[cur].period
    BY <2>1, <1>b
  <2>. QED  BY <1>2, <1>3, <2>1, <2>2
<1>4. CASE /\ Due(cur) /\ data[cur].period # 0 /\ posted' = Append(posted, data[cur].key)
           /\ data' = [data EXCEPT ![cur].counter = data[cur].period]
           /\ UNCHANGED <<head, tail, next, prev, chain>>
  <2>1. /\ data'[cur] = [data[cur] EXCEPT !.counter = data[cur].period]
        /\ \A n \in Node \ {cur} : data'[n] = data[n]
    BY <1>4, <1>a, <1>b DEF TimerTypes, TypeOK
  <2>2. /\ data'[cur].key = data[cur].key /\ data'[cur].counter = data[cur].period
        /\ data'[cur].period = data[cur].period
    BY <2>1, <1>b
  <2>. QED  BY <1>2, <1>4, <2>1, <2>2
<1>5. ASSUME Due(cur), data[cur].period = 0, posted' = Append(posted, data[cur].key),
             NEW n \in NodesOf(data[cur].key), Unlink(n), data' = [data EXCEPT ![n] = NoData]
      PROVE  UNCHANGED <<Left, Period, Expired>>
  <2>1. n = cur
    BY <1>a, <1>b, NodeOfKey DEF ServiceView
  <2>2. OnChain' = OnChain \ {cur} /\ AheadNodes' = AheadNodes \ {cur}
    BY <1>5, <1>a, <2>1, VisitUnlinks
  <2>3. \A m \in OnChain \ {cur} : data'[m] = data[m] /\ (Due(m)' <=> Due(m))
    BY <1>5, <1>a, <2>1 DEF ServiceView, Due, TimerTypes, TypeOK
  <2>4. TimerNodes' = TimerNodes
    BY <1>5, <1>b, <2>2, <2>3 DEF TimerNodes
  <2>5. ASSUME NEW m \in TimerNodes
        PROVE  /\ data'[m].key = data[m].key /\ data'[m].period = data[m].period
               /\ LeftOfNode(m)' = LeftOfNode(m)
    <3>1. m # cur
      BY <1>5, <1>b DEF TimerNodes
    <3>. QED  BY <3>1, <2>2, <2>3 DEF LeftOfNode, TimerNodes
  <2>6. Left' = Left /\ Period' = Period
    BY <2>4, <2>5, SameService
  <2>. QED  BY <2>6, <1>1, <1>5, <2>2, <2>3
<1>. QED  BY <1>3, <1>4, <1>5 DEF Visit

LEMMA StillService ==
  ASSUME ServiceView, ServiceView', UNCHANGED <<data, chain, cur, posted>>
  PROVE  UNCHANGED <<Left, Period, Expired>>
<1>1. /\ Positions' = Positions /\ OnChain' = OnChain /\ Ahead' = Ahead /\ AheadNodes' = AheadNodes
      /\ \A n : Due(n)' <=> Due(n)
  BY DEF Positions, OnChain, Ahead, AheadNodes, Due
<1>2. TimerNodes' = TimerNodes /\ \A n \in TimerNodes : LeftOfNode(n)' = LeftOfNode(n)
  BY <1>1 DEF TimerNodes, LeftOfNode
<1>3. Left' = Left /\ Period' = Period
  BY <1>2, SameService
<1>. QED  BY <1>1, <1>3 DEF ServiceView

(* The list with its walk is the timer service: one timer per destination and
   signal, all counted down together once a tick, each that reaches zero posted
   in that tick, once, and reloaded if periodic (timer_handler, timer_set,
   timer_remove_attr).                                                     *)
THEOREM TimerImplementsService == Spec => ImplementsService
<1>1. ASSUME TimerIInv, TimerIInv', ServiceView, ServiceView', [Next]_vars
      PROVE  [Service!ServiceNext]_(Service!serviceVars)
  <2>1. CASE UNCHANGED vars
    BY <1>1, <2>1, StillService DEF vars, Service!serviceVars
  <2>2. CASE EndWalk
    BY <1>1, <2>2, StillService DEF EndWalk, listVars, Service!serviceVars
  <2>3. CASE StartWalk
    BY <1>1, <2>3, StartWalkService DEF Service!ServiceNext
  <2>4. CASE Visit
    BY <1>1, <2>4, VisitService DEF Service!serviceVars
  <2>5. ASSUME NEW k \in Key, timer_remove_attr(k) PROVE Service!ServiceNext
    BY <1>1, <2>5, RemoveService DEF Service!ServiceNext
  <2>6. ASSUME NEW k \in Key, NEW d \in Duty, NEW periodic \in BOOLEAN, timer_set(k, d, periodic)
        PROVE  Service!ServiceNext
    BY <1>1, <2>6, SetService DEF Service!ServiceNext
  <2>. QED  BY <1>1, <2>1, <2>2, <2>3, <2>4, <2>5, <2>6 DEF Next
<1>2. TimerIInv /\ ServiceView /\ TimerIInv' /\ ServiceView' /\ [Next]_vars
        => [Service!ServiceNext]_(Service!serviceVars)
  BY <1>1
<1>. QED
  BY <1>2, InitService, AlwaysTimerIInv, Viewed, PTL DEF Spec, ImplementsService, Service!ServiceSpec

-----------------------------------------------------------------------------
(* The list of messages.  Its pointers are local facts about neighbours in
   the order of posting.                                                   *)
MsgListTypes == MsgListTypeOK /\ messages \in Seq(Msg)
MsgListIInv == MsgListTypes /\ MsgListConsistent

LEMMA ListIsShort ==
  ASSUME MsgListIInv
  PROVE  Len(messages) \in 0 .. Width - 1
<1>1. messages \in Seq(Msg) /\ IsFiniteSet(Msg) /\ Cardinality(Msg) < Width
      /\ \A i, j \in 1..Len(messages) : messages[i] = messages[j] => i = j
  BY MsgsFit DEF MsgListIInv, MsgListTypes, MsgListConsistent, Ranks
<1>2. Len(messages) <= Cardinality(Msg) /\ Cardinality(Msg) \in Nat
  BY <1>1, NoRepeatIsShort, FS_CardinalityType
<1>. QED  BY <1>1, <1>2 DEF Width

LEMMA MsgListInitIInv == MsgListInit => MsgListIInv
  BY NullIsNoMsg DEF MsgListInit, MsgListIInv, MsgListTypes, MsgListTypeOK, MsgListConsistent,
     MsgPointersAgree, Ranks, Width, q_msg_available

LEMMA MsgPutIInv ==
  ASSUME MsgListIInv, NEW m \in Msg, \A i \in Ranks : messages[i] # m, q_msg_put(m)
  PROVE  MsgListIInv' /\ Len(messages) < Width
<1> DEFINE L == Len(messages)
<1>a. /\ messages \in Seq(Msg) /\ MsgPointersAgree /\ MsgListTypeOK /\ L \in Nat
      /\ \A i, j \in Ranks : messages[i] = messages[j] => i = j
      /\ msg_len = L
  BY DEF MsgListIInv, MsgListTypes, MsgListConsistent
<1>b. /\ messages' = Append(messages, m) /\ messages' \in Seq(Msg) /\ Len(messages') = L + 1
      /\ messages'[L + 1] = m /\ \A i \in Ranks : messages'[i] = messages[i] /\ messages[i] \in Msg
      /\ Ranks' = Ranks \cup {L + 1} /\ Ranks = 1..L
  BY <1>a DEF q_msg_put, Ranks
<1>c. L = 0 <=> msg_tail = AK_MSG_NULL
  BY <1>a, <1>b, NullIsNoMsg DEF MsgPointersAgree, Ranks
<1>d. L # 0 => /\ L \in Ranks /\ msg_tail = messages[L] /\ msg_head = messages[1] /\ 1 \in Ranks
               /\ messages[L] # m
  BY <1>a, <1>b DEF MsgPointersAgree, Ranks
<1>1. /\ \A i \in Ranks : msg_next'[messages[i]] = msg_next[messages[i]]
      /\ \A i \in Ranks : msg_prev'[messages[i]] = IF i = L THEN m ELSE msg_prev[messages[i]]
      /\ msg_next'[m] = (IF L = 0 THEN AK_MSG_NULL ELSE messages[L])
      /\ msg_prev'[m] = AK_MSG_NULL
      /\ msg_tail' = m /\ msg_head' = IF L = 0 THEN m ELSE msg_head
      /\ msg_next' \in [Msg -> Msg \cup {AK_MSG_NULL}] /\ msg_prev' \in [Msg -> Msg \cup {AK_MSG_NULL}]
  <2>a. msg_next \in [Msg -> Msg \cup {AK_MSG_NULL}] /\ msg_prev \in [Msg -> Msg \cup {AK_MSG_NULL}]
    BY <1>a DEF MsgListTypeOK
  <2>1. CASE L = 0
    <3>1. /\ msg_next' = [msg_next EXCEPT ![m] = AK_MSG_NULL]
          /\ msg_prev' = [msg_prev EXCEPT ![m] = AK_MSG_NULL]
          /\ msg_tail' = m /\ msg_head' = m
      BY <2>1, <1>c DEF q_msg_put
    <3>2. Ranks = {}
      BY <2>1, <1>b
    <3>. QED  BY <2>1, <3>1, <3>2, <2>a
  <2>2. CASE L # 0
    <3>1. /\ msg_prev' = [msg_prev EXCEPT ![m] = AK_MSG_NULL, ![messages[L]] = m]
          /\ msg_next' = [msg_next EXCEPT ![m] = messages[L]]
          /\ msg_tail' = m /\ msg_head' = msg_head
      BY <2>2, <1>c, <1>d DEF q_msg_put
    <3>2. \A i \in Ranks : messages[i] # m /\ (messages[i] = messages[L] => i = L)
      BY <1>a, <1>d, <2>2
    <3>3. messages[L] \in Msg
      BY <1>b, <1>d, <2>2
    <3>. QED  BY <2>2, <3>1, <3>2, <3>3, <2>a, <1>b, <1>d
  <2>. QED  BY <2>1, <2>2
<1>2. L + 1 < Width
  <2>1. \A i, j \in 1..Len(messages') : messages'[i] = messages'[j] => i = j
    BY <1>a, <1>b
  <2>2. Len(messages') <= Cardinality(Msg) /\ Cardinality(Msg) \in Nat
    BY <2>1, <1>b, MsgsFit, NoRepeatIsShort, FS_CardinalityType
  <2>. QED  BY <2>2, <1>b, <1>a, MsgsFit DEF Width
<1>3. MsgPointersAgree'
  <2>1. ASSUME NEW i \in Ranks'
        PROVE  /\ msg_next'[messages'[i]] = (IF i = 1 THEN AK_MSG_NULL ELSE messages'[i - 1])
               /\ msg_prev'[messages'[i]] = (IF i = Len(messages') THEN AK_MSG_NULL ELSE messages'[i + 1])
    <3>1. CASE i = L + 1
      <4>1. i # 1 => L \in Ranks /\ i - 1 = L
        BY <3>1, <1>a, <1>d
      <4>. QED  BY <3>1, <4>1, <1>1, <1>b, <1>a
    <3>2. CASE i \in Ranks
      <4>1. /\ msg_next[messages[i]] = (IF i = 1 THEN AK_MSG_NULL ELSE messages[i - 1])
            /\ msg_prev[messages[i]] = (IF i = L THEN AK_MSG_NULL ELSE messages[i + 1])
        BY <3>2, <1>a DEF MsgPointersAgree
      <4>2. /\ i # 1 => i - 1 \in Ranks /\ messages'[i - 1] = messages[i - 1]
            /\ i # L => i + 1 \in Ranks /\ messages'[i + 1] = messages[i + 1]
            /\ i # Len(messages')
        BY <3>2, <1>a, <1>b
      <4>. QED  BY <3>2, <4>1, <4>2, <1>1, <1>b
    <3>. QED  BY <3>1, <3>2, <1>b
  <2>2. msg_head' = messages'[1] /\ msg_tail' = messages'[Len(messages')] /\ messages' # <<>>
    BY <1>1, <1>b, <1>d, <1>a
  <2>. QED  BY <2>1, <2>2 DEF MsgPointersAgree
<1>4. msg_len' = Len(messages') /\ msg_len' \in 0 .. Width - 1 /\ msg_len' # 0
  BY <1>a, <1>b, <1>2 DEF q_msg_put, Width
<1>5. \A i, j \in Ranks' : messages'[i] = messages'[j] => i = j
  BY <1>a, <1>b
<1>6. msg_head' \in Msg /\ msg_tail' \in Msg
  BY <1>1, <1>b, <1>d, <1>a
<1>7. MsgListTypes'
  BY <1>1, <1>4, <1>6, <1>a, <1>b DEF MsgListTypes, MsgListTypeOK, q_msg_put
<1>8. q_msg_available'
  BY <1>6, NullIsNoMsg DEF q_msg_available
<1>. QED  BY <1>2, <1>3, <1>4, <1>5, <1>7, <1>8, <1>a DEF MsgListIInv, MsgListConsistent, Width

LEMMA MsgGetIInv ==
  ASSUME MsgListIInv, q_msg_get
  PROVE  MsgListIInv' /\ messages # <<>> /\ msg_got' = Head(messages)
<1> DEFINE L == Len(messages)
<1>a. /\ messages \in Seq(Msg) /\ MsgPointersAgree /\ MsgListTypeOK
      /\ \A i, j \in Ranks : messages[i] = messages[j] => i = j
      /\ msg_len = L /\ Ranks = 1..L /\ msg_head # AK_MSG_NULL
      /\ L \in Nat /\ L \in 0 .. Width - 1
      /\ \A i \in Ranks : messages[i] \in Msg
  BY ListIsShort DEF MsgListIInv, MsgListTypes, MsgListConsistent, Ranks, q_msg_get
<1>b. messages # <<>> /\ L # 0 /\ 1 \in Ranks /\ L \in Ranks
  BY <1>a DEF MsgPointersAgree
<1>c. /\ messages' = Tail(messages) /\ messages' \in Seq(Msg) /\ Len(messages') = L - 1
      /\ Ranks' = 1 .. L - 1 /\ \A i \in Ranks' : i + 1 \in Ranks /\ messages'[i] = messages[i + 1]
  BY <1>a, <1>b DEF q_msg_get, Ranks
<1>d. msg_head = messages[1] /\ msg_tail = messages[L] /\ msg_got' = messages[1]
  BY <1>a, <1>b DEF MsgPointersAgree, q_msg_get
<1>e. msg_head = msg_tail <=> L = 1
  BY <1>a, <1>b, <1>d
<1>f. msg_next \in [Msg -> Msg \cup {AK_MSG_NULL}] /\ msg_prev \in [Msg -> Msg \cup {AK_MSG_NULL}]
  BY <1>a DEF MsgListTypeOK
<1>1. CASE L = 1
  <2>1. msg_head' = AK_MSG_NULL /\ msg_tail' = AK_MSG_NULL /\ UNCHANGED <<msg_next, msg_prev>>
    BY <1>1, <1>e DEF q_msg_get
  <2>2. Ranks' = {} /\ messages' = <<>> /\ msg_len' = 0
    BY <1>1, <1>a, <1>c DEF q_msg_get, Width
  <2>3. MsgPointersAgree'
    BY <2>1, <2>2 DEF MsgPointersAgree
  <2>4. MsgListTypes'
    BY <2>1, <2>2, <1>a, <1>c, <1>d, <1>b DEF MsgListTypes, MsgListTypeOK, Width
  <2>5. ~q_msg_available'
    BY <2>1 DEF q_msg_available
  <2>. QED  BY <2>2, <2>3, <2>4, <2>5, <1>b, <1>d DEF MsgListIInv, MsgListConsistent
<1>2. CASE L # 1
  <2>1. msg_prev[messages[1]] = messages[2] /\ 2 \in Ranks /\ 2 # 1
    BY <1>2, <1>a, <1>b DEF MsgPointersAgree
  <2>2. /\ msg_next' = [msg_next EXCEPT ![messages[2]] = AK_MSG_NULL]
        /\ msg_prev' = [msg_prev EXCEPT ![messages[1]] = AK_MSG_NULL]
        /\ msg_head' = messages[2] /\ msg_tail' = msg_tail
    BY <1>2, <1>d, <1>e, <2>1 DEF q_msg_get
  <2>3. ASSUME NEW i \in Ranks'
        PROVE  /\ msg_next'[messages'[i]] = (IF i = 1 THEN AK_MSG_NULL ELSE messages'[i - 1])
               /\ msg_prev'[messages'[i]] = (IF i = Len(messages') THEN AK_MSG_NULL ELSE messages'[i + 1])
    <3>1. i + 1 \in Ranks /\ messages'[i] = messages[i + 1] /\ messages[i + 1] \in Msg /\ i \in 1 .. L - 1
      BY <1>a, <1>c
    <3>2. /\ msg_next[messages[i + 1]] = messages[i]
          /\ msg_prev[messages[i + 1]] = (IF i + 1 = L THEN AK_MSG_NULL ELSE messages[(i + 1) + 1])
      <4>1. i + 1 # 1 /\ (i + 1) - 1 = i
        BY <3>1
      <4>. QED  BY <3>1, <4>1, <1>a DEF MsgPointersAgree
    <3>3. messages[i + 1] # messages[1] /\ (messages[i + 1] = messages[2] <=> i = 1)
      BY <3>1, <2>1, <1>a, <1>b
    <3>4. msg_prev'[messages'[i]] = msg_prev[messages[i + 1]]
      BY <3>1, <3>3, <2>2, <1>f
    <3>5. msg_next'[messages'[i]] = IF i = 1 THEN AK_MSG_NULL ELSE messages[i]
      BY <3>1, <3>2, <3>3, <2>2, <1>f
    <3>6. i # 1 => i - 1 \in Ranks' /\ messages'[i - 1] = messages[(i - 1) + 1] /\ (i - 1) + 1 = i
      BY <3>1, <1>c
    <3>7. i # Len(messages') => i + 1 \in Ranks' /\ messages'[i + 1] = messages[(i + 1) + 1]
      <4> SUFFICES ASSUME i # Len(messages')
                   PROVE  i + 1 \in Ranks' /\ messages'[i + 1] = messages[(i + 1) + 1]
        OBVIOUS
      <4>1. Ranks' = 1 .. L - 1 /\ Len(messages') = L - 1 /\ L \in Nat
        BY <1>a, <1>c
      <4>2. i + 1 \in 1 .. L - 1
        BY <3>1, <4>1
      <4>. QED  BY <4>1, <4>2, <1>c
    <3>8. i + 1 = L <=> i = Len(messages')
      BY <3>1, <1>c, <1>a
    <3>. QED  BY <3>2, <3>4, <3>5, <3>6, <3>7, <3>8
  <2>4. msg_head' = messages'[1] /\ msg_tail' = messages'[Len(messages')] /\ messages' # <<>>
    <3>1. 1 \in Ranks' /\ L - 1 \in Ranks' /\ (L - 1) + 1 = L /\ 1 + 1 = 2
      BY <1>2, <1>a, <1>b, <1>c
    <3>2. messages'[1] = messages[1 + 1] /\ messages'[L - 1] = messages[(L - 1) + 1]
      BY <3>1, <1>c
    <3>3. messages' # <<>>
      <4>1. Len(messages') # 0
        BY <1>2, <1>a, <1>b, <1>c
      <4>2. Len(<<>>) = 0
        OBVIOUS
      <4>. QED  BY <4>1, <4>2
    <3>. QED  BY <3>1, <3>2, <3>3, <2>2, <1>c, <1>d
  <2>5. MsgPointersAgree'
    BY <2>3, <2>4 DEF MsgPointersAgree
  <2>6. \A i, j \in Ranks' : messages'[i] = messages'[j] => i = j
    <3> SUFFICES ASSUME NEW i \in Ranks', NEW j \in Ranks', messages'[i] = messages'[j] PROVE i = j
      OBVIOUS
    <3>1. i + 1 = j + 1
      BY <1>a, <1>c
    <3>. QED  BY <3>1, <1>c, <1>a
  <2>7. msg_len' = L - 1 /\ msg_len' \in 0 .. Width - 1 /\ msg_len' # 0
    BY <1>2, <1>a, <1>b DEF q_msg_get, Width
  <2>8. msg_head' \in Msg /\ msg_tail' \in Msg
    BY <2>1, <2>2, <1>a, <1>b, <1>d
  <2>9. msg_next' \in [Msg -> Msg \cup {AK_MSG_NULL}] /\ msg_prev' \in [Msg -> Msg \cup {AK_MSG_NULL}]
    BY <2>1, <2>2, <1>a, <1>b, <1>f
  <2>10. MsgListTypes'
    BY <2>7, <2>8, <2>9, <1>a, <1>b, <1>c, <1>d DEF MsgListTypes, MsgListTypeOK
  <2>11. q_msg_available'
    BY <2>8, NullIsNoMsg DEF q_msg_available
  <2>. QED
    BY <2>5, <2>6, <2>7, <2>10, <2>11, <1>b, <1>c, <1>d DEF MsgListIInv, MsgListConsistent
<1>. QED  BY <1>1, <1>2

LEMMA MsgListStepIInv == MsgListIInv /\ [MsgListNext]_listOfMessages => MsgListIInv'
<1> SUFFICES ASSUME MsgListIInv, [MsgListNext]_listOfMessages PROVE MsgListIInv'
  OBVIOUS
<1>1. CASE UNCHANGED listOfMessages
  BY <1>1 DEF listOfMessages, MsgListIInv, MsgListTypes, MsgListTypeOK, MsgListConsistent,
       MsgPointersAgree, Ranks, q_msg_available
<1>. QED  BY <1>1, MsgPutIInv, MsgGetIInv DEF MsgListNext

LEMMA AlwaysMsgListIInv == MsgListSpec => []MsgListIInv
  BY MsgListInitIInv, MsgListStepIInv, PTL DEF MsgListSpec

(* The list reads the same from both ends and its length is the number the
   task tests before it sleeps (q_msg_put, q_msg_get).                     *)
THEOREM MessagesConsistent == MsgListSpec => []MsgListConsistent
<1>1. MsgListIInv => MsgListConsistent
  BY DEF MsgListIInv
<1>. QED  BY <1>1, AlwaysMsgListIInv, PTL

(* The list gives out each message once, in the order of the posts (q_msg_get). *)
THEOREM MessagesInOrder == MsgListSpec => MsgListQueue
<1>1. MsgListInit => Queue!QueueInit
  BY DEF MsgListInit, Queue!QueueInit
<1>2. MsgListIInv /\ [MsgListNext]_listOfMessages => [Queue!QueueNext]_(Queue!queueVars)
  <2> SUFFICES ASSUME MsgListIInv, [MsgListNext]_listOfMessages
               PROVE  [Queue!QueueNext]_(Queue!queueVars)
    OBVIOUS
  <2>1. CASE UNCHANGED listOfMessages
    BY <2>1 DEF listOfMessages, Queue!queueVars
  <2>2. ASSUME NEW m \in Msg, \A i \in Ranks : messages[i] # m, q_msg_put(m) PROVE Queue!Enqueue(m)
    BY <2>2, MsgPutIInv DEF q_msg_put, Queue!Enqueue
  <2>3. ASSUME q_msg_get PROVE Queue!Dequeue
    BY <2>3, MsgGetIInv DEF q_msg_get, Queue!Dequeue
  <2>. QED  BY <2>1, <2>2, <2>3 DEF MsgListNext, Queue!QueueNext
<1>. QED  BY <1>1, <1>2, AlwaysMsgListIInv, PTL DEF MsgListSpec, MsgListQueue, Queue!QueueSpec

-----------------------------------------------------------------------------
(* The start.  A thread exists once main has passed its pthread_create, and
   nothing runs past the barrier before main has made the last of them.    *)
TaskState == {"none", "entry", "barrier", "counted", "started", "serving",
              "asleep", "forgotten", "done"}
MadeState == TaskState \ {"none"}
CountedState == MadeState \ {"entry", "barrier"}
PassedState == CountedState \ {"counted"}

Counts(t) == IF at[t] \in CountedState THEN 1 ELSE 0

BootTypeOK ==
  /\ making \in [step : {"q_msg_init", "pthread_create", "pthread_cond_init"},
                 index : 1 .. AK_TASK_LIST_LEN + 1]
  /\ at \in [BootTask -> TaskState] /\ ak_thread_started \in Nat
  /\ len \in [BootTask -> Nat] /\ cond \in [BootTask -> {"zero", "ready"}]
  /\ serial \in BOOLEAN /\ timers \subseteq EarlyPoster /\ posts \in [EarlyPoster -> Nat]

(* What main has made so far. *)
MadeInOrder ==
  \A i \in 1..AK_TASK_LIST_LEN :
    /\ at[task_list[i]] \in MadeState
         => i < making.index \/ (i = making.index /\ making.step = "pthread_cond_init")
    /\ cond[task_list[i]] = "ready" <=> i < making.index

BarrierHolds ==
  /\ ak_thread_started = Counts("TIMER") + Counts("APP") + Counts("LINK_PHY") + Counts("LINK")
  /\ (\E t \in BootTask : at[t] \in PassedState)
       => \A t \in BootTask : at[t] \in CountedState

(* Nothing is in a list before the thread that empties it is beyond doing so. *)
NothingToWipe ==
  /\ serial => at["LINK_PHY"] \in MadeState \ {"entry"}
  /\ \A t \in BootTask : len[t] # 0 => at[t] \in MadeState
  /\ "APP" \in timers => at["TIMER"] \in CountedState

BootIInv == BootTypeOK /\ MadeInOrder /\ BarrierHolds /\ NothingToWipe /\ StartSafe

LEMMA FourTasks ==
  /\ BootTask = {"TIMER", "APP", "LINK_PHY", "LINK"} /\ AK_TASK_LIST_LEN = 4
  /\ task_list[1] = "TIMER" /\ task_list[2] = "APP"
  /\ task_list[3] = "LINK_PHY" /\ task_list[4] = "LINK"
  /\ LastTask = "LINK"
<1>1. AK_TASK_LIST_LEN = 4 /\ task_list[1] = "TIMER" /\ task_list[2] = "APP"
      /\ task_list[3] = "LINK_PHY" /\ task_list[4] = "LINK"
  BY DEF AK_TASK_LIST_LEN, task_list
<1>2. 1..4 = {1, 2, 3, 4}
  OBVIOUS
<1>3. BootTask = {task_list[1], task_list[2], task_list[3], task_list[4]}
  BY <1>1, <1>2 DEF BootTask
<1>. QED  BY <1>1, <1>3 DEF LastTask

LEMMA BootInitIInv == BootInit => BootIInv
<1> SUFFICES ASSUME BootInit PROVE BootIInv
  OBVIOUS
<1> USE FourTasks DEF BootInit, TaskState, MadeState, CountedState, PassedState, EarlyPoster
<1>1. making \in [step : {"q_msg_init", "pthread_create", "pthread_cond_init"},
                  index : 1 .. AK_TASK_LIST_LEN + 1]
  OBVIOUS
<1>2. /\ at \in [BootTask -> TaskState] /\ ak_thread_started \in Nat
  /\ len \in [BootTask -> Nat] /\ cond \in [BootTask -> {"zero", "ready"}]
  OBVIOUS
<1>3. serial \in BOOLEAN /\ timers \subseteq EarlyPoster /\ posts \in [EarlyPoster -> Nat]
  OBVIOUS
<1>4. MadeInOrder /\ BarrierHolds /\ NothingToWipe /\ StartSafe
  BY DEF MadeInOrder, BarrierHolds, NothingToWipe, StartSafe, Counts
<1>. QED  BY <1>1, <1>2, <1>3, <1>4 DEF BootIInv, BootTypeOK

LEMMA BootStepIInv == BootIInv /\ [BootNext]_bootVars => BootIInv'
<1> SUFFICES ASSUME BootIInv, [BootNext]_bootVars PROVE BootIInv'
  OBVIOUS
<1> USE FourTasks DEF BootIInv, TaskState, MadeState, CountedState, PassedState
<1>1. CASE MailboxMade
  <2>0. making.index \in 1..4 /\ making.step = "q_msg_init"
    BY <1>1 DEF MailboxMade, MainAt, BootTypeOK
  <2>1. at[Made] = "none" /\ Made \in BootTask
    BY <2>0 DEF Made, BootTypeOK, MadeInOrder
  <2>2. len' = len /\ wiped' = wiped
    BY <1>1, <2>1 DEF MailboxMade, BootTypeOK, NothingToWipe
  <2>3. making' = [step |-> "pthread_create", index |-> making.index]
    BY <1>1 DEF MailboxMade, Then, BootTypeOK
  <2>4. MadeInOrder'
    BY <1>1, <2>0 DEF MailboxMade, Then, BootTypeOK, MadeInOrder
  <2>5. BootTypeOK'
    BY <1>1, <2>0, <2>2, <2>3 DEF MailboxMade, BootTypeOK
  <2>6. BarrierHolds' /\ NothingToWipe' /\ StartSafe'
    BY <1>1, <2>2 DEF MailboxMade, BarrierHolds, NothingToWipe, StartSafe, Counts
  <2>. QED  BY <2>4, <2>5, <2>6
<1>2. CASE ThreadMade
  BY <1>2 DEF ThreadMade, MainAt, Made, Then, BootTypeOK, MadeInOrder, BarrierHolds,
       NothingToWipe, StartSafe, Counts
<1>3. CASE CondMade
  <2>1. /\ making' = [step |-> "q_msg_init", index |-> making.index + 1]
        /\ making.index \in 1..4 /\ making.step = "pthread_cond_init"
    BY <1>3 DEF CondMade, MainAt, BootTypeOK
  <2>2. /\ Made \in BootTask /\ cond' = [cond EXCEPT ![Made] = "ready"]
        /\ at' = at \/ (at[Made] = "asleep" /\ at' = [at EXCEPT ![Made] = "forgotten"])
    BY <1>3, <2>1 DEF CondMade, Made
  <2>3. BootTypeOK'
    BY <1>3, <2>1, <2>2 DEF CondMade, BootTypeOK
  <2>4. MadeInOrder'
    BY <2>1, <2>2 DEF MadeInOrder, Made, BootTypeOK
  <2>5. BarrierHolds'
    BY <1>3, <2>2 DEF CondMade, BarrierHolds, Counts, BootTypeOK
  <2>6. NothingToWipe'
    BY <1>3, <2>2 DEF CondMade, NothingToWipe, BootTypeOK
  <2>7. at[Made] = "asleep" => Made = LastTask
    BY <2>1, <2>2 DEF StartSafe, MadeInOrder, Made
  <2>8. StartSafe'
    BY <1>3, <2>2, <2>7 DEF CondMade, StartSafe, BootTypeOK
  <2>. QED  BY <2>3, <2>4, <2>5, <2>6, <2>8
<1>4. ASSUME NEW t \in BootTask, Enter(t) PROVE BootIInv'
  <2>1. /\ at[t] = "entry" /\ at' = [at EXCEPT ![t] = "barrier"]
        /\ UNCHANGED <<making, ak_thread_started, len, cond, posts>>
    BY <1>4 DEF Enter
  <2>2. /\ timers' \subseteq timers /\ wiped' \subseteq wiped \cup timers /\ serial' \in BOOLEAN
        /\ t # "TIMER" => wiped' = wiped
        /\ t # "LINK_PHY" => serial' = serial
    BY <1>4 DEF Enter, BootTypeOK
  <2>3. BootTypeOK' /\ MadeInOrder'
    BY <2>1, <2>2 DEF BootTypeOK, MadeInOrder
  <2>4. BarrierHolds' /\ NothingToWipe'
    BY <2>1, <2>2 DEF BarrierHolds, NothingToWipe, BootTypeOK, Counts
  <2>5. StartSafe'
    BY <2>1, <2>2 DEF StartSafe, NothingToWipe, BootTypeOK, EarlyPoster
  <2>. QED  BY <2>3, <2>4, <2>5
<1>5. ASSUME NEW t \in BootTask, Count(t) PROVE BootIInv'
  BY <1>5 DEF Count, BootTypeOK, MadeInOrder, BarrierHolds, NothingToWipe, StartSafe, Counts
<1>6. ASSUME NEW t \in BootTask, Pass(t) PROVE BootIInv'
  BY <1>6 DEF Pass, BootTypeOK, MadeInOrder, BarrierHolds, NothingToWipe, StartSafe, Counts
<1>7. ASSUME NEW t \in BootTask, Start(t) PROVE BootIInv'
  BY <1>7 DEF Start, BootTypeOK, MadeInOrder, BarrierHolds, NothingToWipe, StartSafe, Counts
<1>8. ASSUME NEW t \in BootTask, Serve(t) PROVE BootIInv'
  BY <1>8 DEF Serve, BootTypeOK, MadeInOrder, BarrierHolds, NothingToWipe, StartSafe, Counts
<1>9. CASE AppPosts
  BY <1>9 DEF AppPosts, Puts, EarlyPoster, BootTypeOK, MadeInOrder, BarrierHolds,
       NothingToWipe, StartSafe, Counts
<1>10. CASE ReaderPosts
  BY <1>10 DEF ReaderPosts, Puts, EarlyPoster, BootTypeOK, MadeInOrder, BarrierHolds,
       NothingToWipe, StartSafe, Counts
<1>11. CASE UNCHANGED bootVars
  BY <1>11 DEF bootVars, BootTypeOK, MadeInOrder, BarrierHolds, NothingToWipe, StartSafe, Counts
<1>. QED
  BY <1>1, <1>2, <1>3, <1>4, <1>5, <1>6, <1>7, <1>8, <1>9, <1>10, <1>11 DEF BootNext

(* While the process starts no message is lost, and the barrier is enough for
   all but two cases: the last task may sleep on its condition variable
   before main initialises it, and the timer list may be emptied of what the
   reader of the serial port has put there (main, task_timer, timer_entry). *)
THEOREM BootStartSafe == BootSpec => []StartSafe
<1>1. BootIInv => StartSafe
  BY DEF BootIInv
<1>. QED  BY BootInitIInv, BootStepIInv, <1>1, PTL DEF BootSpec

-----------------------------------------------------------------------------
(* The mailbox. *)

(* What a get and a put do to the messages received followed by those that
   wait: a get moves the boundary by one and changes nothing else, a put
   appends.                                                                *)
LEMMA GetKeepsOrder ==
  ASSUME NEW S, NEW a \in Seq(S), NEW b \in Seq(S), b # <<>>
  PROVE  /\ Append(a, Head(b)) \o Tail(b) = a \o b
         /\ Len(a) < Len(a \o b)
         /\ (a \o b)[Len(a) + 1] = Head(b)
  OBVIOUS

LEMMA PutKeepsOrder ==
  ASSUME rcvd \in Seq(Message), queue \in Seq(Message), NEW m \in Message
  PROVE  Append(rcvd \o queue, m) = rcvd \o Append(queue, m)
  OBVIOUS

LEMMA EmptyIsNoMessage == NoMsg \notin Message
  BY DEF NoMsg, Message

-----------------------------------------------------------------------------
LEMMA MailboxInitIInv == MailboxInit => IInv
<1> SUFFICES ASSUME MailboxInit PROVE IInv
  OBVIOUS
<1> USE DEF MailboxInit
<1>1. MailboxTypeOK
  BY MaxPostIsNat DEF MailboxTypeOK, Pc
<1>2. MutexHeld /\ OnlyTaskReceives /\ PutIsNumbered
  BY DEF MutexHeld, OnlyTaskReceives, PutIsNumbered, PostPc, RevPc, WaitPc
<1>3. SignalHasMessage /\ WokenHasMessage /\ NoLostWakeup /\ NullOnlySpurious
  BY DEF SignalHasMessage, WokenHasMessage, NoLostWakeup, NullOnlySpurious, Thread
<1>4. NothingLost
  BY DEF NothingLost
<1>. QED  BY <1>1, <1>2, <1>3, <1>4 DEF IInv

(* Types first: every action keeps them. *)
LEMMA MailboxStepTypeOK == MailboxTypeOK /\ PutIsNumbered /\ [MailboxNext]_mailboxVars => MailboxTypeOK'
<1> SUFFICES ASSUME MailboxTypeOK, PutIsNumbered, [MailboxNext]_mailboxVars PROVE MailboxTypeOK'
  OBVIOUS
<1> USE MaxPostIsNat DEF MailboxTypeOK, Pc, PostPc, RevPc, WaitPc, Goto
<1>0. Task \in Thread
  BY DEF Thread
<1>1. ASSUME NEW t \in Thread, PostLock(t) PROVE MailboxTypeOK'
  BY <1>1 DEF PostLock
<1>2. ASSUME NEW t \in Thread, PostPut(t) PROVE MailboxTypeOK'
  <2>1. <<t, begun[t]>> \in Message
    BY <1>2 DEF PostPut, PutIsNumbered, Message
  <2>. QED  BY <1>2, <2>1 DEF PostPut
<1>3. ASSUME NEW t \in Thread, PostSignal(t) PROVE MailboxTypeOK'
  BY <1>3 DEF PostSignal
<1>4. ASSUME NEW t \in Thread, PostUnlock(t) PROVE MailboxTypeOK'
  BY <1>4 DEF PostUnlock
<1>5. CASE RevLock
  BY <1>0, <1>5 DEF RevLock
<1>6. CASE RevWait
  BY <1>0, <1>6 DEF RevWait
<1>7. CASE RevNoWait
  BY <1>0, <1>7 DEF RevNoWait
<1>8. CASE RevSpurious
  BY <1>0, <1>8 DEF RevSpurious
<1>9. CASE RevRelock
  BY <1>0, <1>9 DEF RevRelock
<1>10. CASE RevGet
  BY <1>0, <1>10 DEF RevGet
<1>11. CASE RevNull
  BY <1>0, <1>11 DEF RevNull
<1>12. CASE RevReturn
  BY <1>0, <1>12 DEF RevReturn
<1>13. CASE UNCHANGED mailboxVars
  BY <1>13 DEF mailboxVars
<1>. QED
  BY <1>1, <1>2, <1>3, <1>4, <1>5, <1>6, <1>7, <1>8, <1>9, <1>10, <1>11, <1>12, <1>13
     DEF MailboxNext, Post, Rev

(* The steps inside task_post. *)
LEMMA PostIInv ==
  ASSUME NEW t \in Thread, IInv, Post(t), MailboxTypeOK'
  PROVE  IInv'
<1> USE TaskIsNoPoster, NobodyIsNoThread DEF IInv, MailboxTypeOK, Goto, Thread
<1>1. CASE PostLock(t)
  BY <1>1 DEF PostLock, MutexHeld, OnlyTaskReceives, PutIsNumbered, SignalHasMessage,
       WokenHasMessage, NoLostWakeup, NullOnlySpurious, NothingLost, PostPc, RevPc, WaitPc
<1>2. CASE PostPut(t)
  <2>1. queue' # <<>>
    BY <1>2 DEF PostPut
  <2>2. MutexHeld' /\ OnlyTaskReceives' /\ PutIsNumbered'
    BY <1>2 DEF PostPut, MutexHeld, OnlyTaskReceives, PutIsNumbered, PostPc, RevPc, WaitPc
  <2>3. SignalHasMessage' /\ WokenHasMessage' /\ NullOnlySpurious'
    BY <1>2, <2>1 DEF PostPut, SignalHasMessage, WokenHasMessage, NullOnlySpurious
  <2>4. NoLostWakeup'
    BY <1>2 DEF PostPut, NoLostWakeup
  <2>5. NothingLost'
    <3>1. <<t, begun[t]>> \in Message
      BY <1>2 DEF PostPut, PutIsNumbered, Message
    <3>2. Append(rcvd \o queue, <<t, begun[t]>>) = rcvd \o Append(queue, <<t, begun[t]>>)
      BY <3>1, PutKeepsOrder
    <3>. QED  BY <1>2, <3>2 DEF PostPut, NothingLost
  <2>. QED  BY <2>2, <2>3, <2>4, <2>5
<1>3. CASE PostSignal(t)
  BY <1>3 DEF PostSignal, MutexHeld, OnlyTaskReceives, PutIsNumbered, SignalHasMessage,
       WokenHasMessage, NoLostWakeup, NullOnlySpurious, NothingLost, PostPc, RevPc, WaitPc
<1>4. CASE PostUnlock(t)
  BY <1>4 DEF PostUnlock, MutexHeld, OnlyTaskReceives, PutIsNumbered, SignalHasMessage,
       WokenHasMessage, NoLostWakeup, NullOnlySpurious, NothingLost, PostPc, RevPc, WaitPc
<1>. QED  BY <1>1, <1>2, <1>3, <1>4 DEF Post

(* The steps of ak_msg_rev. *)
LEMMA RevIInv ==
  ASSUME IInv, Rev, MailboxTypeOK'
  PROVE  IInv'
<1> USE TaskIsNoPoster, NobodyIsNoThread DEF IInv, MailboxTypeOK, Goto, Thread
<1>1. CASE RevLock
  BY <1>1 DEF RevLock, MutexHeld, OnlyTaskReceives, PutIsNumbered, SignalHasMessage,
       WokenHasMessage, NoLostWakeup, NullOnlySpurious, NothingLost, PostPc, RevPc, WaitPc
<1>2. CASE RevWait
  BY <1>2 DEF RevWait, MutexHeld, OnlyTaskReceives, PutIsNumbered, SignalHasMessage,
       WokenHasMessage, NoLostWakeup, NullOnlySpurious, NothingLost, PostPc, RevPc, WaitPc
<1>3. CASE RevNoWait
  BY <1>3 DEF RevNoWait, MutexHeld, OnlyTaskReceives, PutIsNumbered, SignalHasMessage,
       WokenHasMessage, NoLostWakeup, NullOnlySpurious, NothingLost, PostPc, RevPc, WaitPc
<1>4. CASE RevSpurious
  BY <1>4 DEF RevSpurious, MutexHeld, OnlyTaskReceives, PutIsNumbered, SignalHasMessage,
       WokenHasMessage, NoLostWakeup, NullOnlySpurious, NothingLost, PostPc, RevPc, WaitPc
<1>5. CASE RevRelock
  BY <1>5 DEF RevRelock, MutexHeld, OnlyTaskReceives, PutIsNumbered, SignalHasMessage,
       WokenHasMessage, NoLostWakeup, NullOnlySpurious, NothingLost, PostPc, RevPc, WaitPc
<1>6. CASE RevGet
  <2>1. Head(queue) \in Message
    BY <1>6 DEF RevGet
  <2>2. handed' # NoMsg
    BY <1>6, <2>1, EmptyIsNoMessage DEF RevGet
  <2>3. MutexHeld' /\ OnlyTaskReceives' /\ PutIsNumbered'
    BY <1>6 DEF RevGet, MutexHeld, OnlyTaskReceives, PutIsNumbered, PostPc, RevPc, WaitPc
  <2>4. SignalHasMessage' /\ WokenHasMessage' /\ NullOnlySpurious' /\ NoLostWakeup'
    BY <1>6, <2>2 DEF RevGet, SignalHasMessage, WokenHasMessage, NullOnlySpurious,
         NoLostWakeup
  <2>5. NothingLost'
    BY <1>6, GetKeepsOrder, SMTT(20) DEF RevGet, NothingLost
  <2>. QED  BY <2>3, <2>4, <2>5
<1>7. CASE RevNull
  BY <1>7 DEF RevNull, MutexHeld, OnlyTaskReceives, PutIsNumbered, SignalHasMessage,
       WokenHasMessage, NoLostWakeup, NullOnlySpurious, NothingLost, PostPc, RevPc, WaitPc
<1>8. CASE RevReturn
  BY <1>8 DEF RevReturn, MutexHeld, OnlyTaskReceives, PutIsNumbered, SignalHasMessage,
       WokenHasMessage, NoLostWakeup, NullOnlySpurious, NothingLost, PostPc, RevPc, WaitPc
<1>. QED  BY <1>1, <1>2, <1>3, <1>4, <1>5, <1>6, <1>7, <1>8 DEF Rev

LEMMA MailboxStepIInv == IInv /\ [MailboxNext]_mailboxVars => IInv'
<1> SUFFICES ASSUME IInv, [MailboxNext]_mailboxVars PROVE IInv'
  OBVIOUS
<1>1. MailboxTypeOK'
  BY MailboxStepTypeOK DEF IInv
<1>2. CASE Rev
  BY <1>1, <1>2, RevIInv
<1>3. CASE \E t \in Thread : Post(t)
  BY <1>1, <1>3, PostIInv
<1>4. CASE UNCHANGED mailboxVars
  BY <1>4 DEF mailboxVars, IInv, MailboxTypeOK, MutexHeld, OnlyTaskReceives, PutIsNumbered,
       SignalHasMessage, WokenHasMessage, NoLostWakeup, NullOnlySpurious, NothingLost
<1>. QED  BY <1>2, <1>3, <1>4 DEF MailboxNext

THEOREM MailboxInvariant == MailboxSpec => []IInv
  BY MailboxInitIInv, MailboxStepIInv, PTL DEF MailboxSpec

-----------------------------------------------------------------------------
(* The mailbox keeps its types. *)
THEOREM MailboxTypeCorrect == MailboxSpec => []MailboxTypeOK
  BY MailboxInvariant, PTL DEF IInv

(* A task never sleeps over a message whose poster is not about to signal. *)
THEOREM WakeupSafe == MailboxSpec => []NoLostWakeup
  BY MailboxInvariant, PTL DEF IInv

(* AK_MSG_NULL reaches a task only through a spurious wakeup. *)
THEOREM NullSafe == MailboxSpec => []NullOnlySpurious
  BY MailboxInvariant, PTL DEF IInv

(* The mailbox implements the channel: a put is a Send, a get is a Receive and
   every other step leaves the channel alone.                              *)
THEOREM MailboxImplementsChannel == MailboxSpec => IsChannel
<1>1. MailboxInit => Chan!ChanInit
  BY DEF MailboxInit, Chan!ChanInit
<1>2. IInv /\ [MailboxNext]_mailboxVars => [Chan!ChanNext]_<<sent, rcvd>>
  <2> SUFFICES ASSUME IInv, [MailboxNext]_mailboxVars, ~ UNCHANGED <<sent, rcvd>>
               PROVE  Chan!ChanNext
    OBVIOUS
  <2>1. CASE RevGet
    <3>1. sent = rcvd \o queue /\ queue # <<>>
      BY <2>1 DEF RevGet, IInv, NothingLost
    <3>2. Len(rcvd) < Len(sent) /\ sent[Len(rcvd) + 1] = Head(queue)
      BY <3>1, GetKeepsOrder DEF IInv, MailboxTypeOK
    <3>. QED  BY <2>1, <3>2 DEF RevGet, Chan!ChanNext, Chan!Receive
  <2>2. ASSUME NEW t \in Thread, PostPut(t) PROVE Chan!ChanNext
    <3>1. <<t, begun[t]>> \in Message
      BY <2>2 DEF PostPut, IInv, PutIsNumbered, Message
    <3>. QED  BY <2>2, <3>1 DEF PostPut, Chan!ChanNext, Chan!Send
  <2>. QED
    BY <2>1, <2>2 DEF MailboxNext, Rev, Post, RevLock, RevWait, RevNoWait, RevSpurious, RevRelock,
         RevNull, RevReturn, PostLock, PostSignal, PostUnlock, mailboxVars
<1>. QED
  BY <1>1, <1>2, MailboxInvariant, PTL DEF MailboxSpec, IsChannel, Chan!ChanSpec, Chan!chanVars
=============================================================================
