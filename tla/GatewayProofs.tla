--------------------------- MODULE GatewayProofs ---------------------------
(***************************************************************************)
(* For every set of offers: the memory of messages is exact, however the   *)
(* tasks of the gateway overtake each other, only a message from outside   *)
(* that is wrong ends the process, and, when the offers are orderly, the   *)
(* gateway implements its routes.                                          *)
(***************************************************************************)
EXTENDS Gateway, FiniteSetTheorems, SequenceTheorems, TLAPS

(* Mailboxes and hands: no message is in two places, Held are those in one. *)
Places(bx, hd) == /\ bx \in [Task -> Seq(Block)]
                  /\ hd \in [Task -> Block \cup {NULL}]

Once(bx, hd) ==
  \A t \in Task, u \in Task :
    /\ hd[t] # NULL /\ hd[t] = hd[u] => t = u
    /\ hd[t] # NULL => \A j \in 1..Len(bx[u]) : bx[u][j] # hd[t]
    /\ \A i \in 1..Len(bx[t]), j \in 1..Len(bx[u]) : bx[t][i] = bx[u][j] => t = u /\ i = j

Held(bx, hd) == {b \in Block : \E t \in Task : \/ hd[t] = b
                                               \/ \E i \in 1..Len(bx[t]) : bx[t][i] = b}

(* Mailboxes and hands after a message is put, taken and done with. *)
Put(bx, t, b) == [bx EXCEPT ![t] = Append(@, b)]
Rest(bx, t) == [bx EXCEPT ![t] = Tail(@)]
InHand(hd, t, b) == [hd EXCEPT ![t] = b]

LEMMA NullIsNoBlock == NULL \notin Block /\ HeapSize \in Nat
  BY HeapIsLarge DEF NULL, Block

(* A task takes the first message of its mailbox in hand. *)
LEMMA TakePlaces ==
  ASSUME NEW bx, NEW hd, Places(bx, hd), Once(bx, hd), NEW t \in Task,
         hd[t] = NULL, bx[t] # <<>>,
         NEW bx2, bx2 = Rest(bx, t), NEW hd2, hd2 = InHand(hd, t, Head(bx[t]))
  PROVE  /\ Places(bx2, hd2) /\ Once(bx2, hd2)
         /\ Held(bx2, hd2) = Held(bx, hd)
<1> USE DEF Rest, InHand
<1>1. /\ bx[t] \in Seq(Block) /\ Len(bx[t]) \in Nat /\ Len(bx[t]) > 0
      /\ Head(bx[t]) = bx[t][1] /\ bx[t][1] \in Block
      /\ bx2[t] = Tail(bx[t]) /\ Tail(bx[t]) \in Seq(Block) /\ hd2[t] = bx[t][1]
      /\ Len(bx2[t]) = Len(bx[t]) - 1
      /\ \A i \in 1..Len(bx2[t]) : bx2[t][i] = bx[t][i + 1] /\ i + 1 \in 1..Len(bx[t])
  BY DEF Places
<1>2. \A u \in Task \ {t} : bx2[u] = bx[u] /\ hd2[u] = hd[u]
  BY DEF Places
<1>3. Places(bx2, hd2)
  BY <1>1, <1>2 DEF Places
<1>4. \A u \in Task : bx[u] \in Seq(Block) /\ Len(bx[u]) \in Nat
  BY DEF Places
<1>5. bx[t][1] # NULL
  BY <1>1, NullIsNoBlock
<1>6. Once(bx2, hd2)
  <2> SUFFICES ASSUME NEW u \in Task, NEW v \in Task
               PROVE  /\ hd2[u] # NULL /\ hd2[u] = hd2[v] => u = v
                      /\ hd2[u] # NULL => \A j \in 1..Len(bx2[v]) : bx2[v][j] # hd2[u]
                      /\ \A i \in 1..Len(bx2[u]), j \in 1..Len(bx2[v]) :
                           bx2[u][i] = bx2[v][j] => u = v /\ i = j
    BY DEF Once
  <2>1. hd2[u] # NULL /\ hd2[u] = hd2[v] => u = v
    BY <1>1, <1>2 DEF Once
  <2>2. hd2[u] # NULL => \A j \in 1..Len(bx2[v]) : bx2[v][j] # hd2[u]
    BY <1>1, <1>2, <1>4 DEF Once
  <2>3. \A i \in 1..Len(bx2[u]), j \in 1..Len(bx2[v]) :
          bx2[u][i] = bx2[v][j] => u = v /\ i = j
    BY <1>1, <1>2, <1>4 DEF Once
  <2>. QED  BY <2>1, <2>2, <2>3
<1>7. Held(bx2, hd2) = Held(bx, hd)
  <2>1. ASSUME NEW b \in Block
        PROVE  (\E u \in Task : hd2[u] = b \/ \E i \in 1..Len(bx2[u]) : bx2[u][i] = b)
               <=> (\E u \in Task : hd[u] = b \/ \E i \in 1..Len(bx[u]) : bx[u][i] = b)
    <3>1. ASSUME NEW u \in Task, hd[u] = b \/ \E i \in 1..Len(bx[u]) : bx[u][i] = b
          PROVE  \E v \in Task : hd2[v] = b \/ \E i \in 1..Len(bx2[v]) : bx2[v][i] = b
      <4>1. CASE u # t
        BY <3>1, <4>1, <1>2
      <4>2. CASE u = t /\ hd[u] = b
        BY <4>2, NullIsNoBlock
      <4>3. CASE u = t /\ \E i \in 1..Len(bx[u]) : bx[u][i] = b
        <5>1. PICK i \in 1..Len(bx[t]) : bx[t][i] = b
          BY <4>3
        <5>2. CASE i = 1
          BY <5>1, <5>2, <1>1
        <5>3. CASE i # 1
          <6>1. i - 1 \in 1..Len(bx2[t]) /\ (i - 1) + 1 = i
            BY <5>1, <5>3, <1>1
          <6>2. bx2[t][i - 1] = b
            BY <5>1, <6>1, <1>1
          <6>. QED  BY <6>1, <6>2
        <5>. QED  BY <5>2, <5>3
      <4>. QED  BY <3>1, <4>1, <4>2, <4>3
    <3>2. ASSUME NEW u \in Task, hd2[u] = b \/ \E i \in 1..Len(bx2[u]) : bx2[u][i] = b
          PROVE  \E v \in Task : hd[v] = b \/ \E i \in 1..Len(bx[v]) : bx[v][i] = b
      <4>1. CASE u # t
        BY <3>2, <4>1, <1>2
      <4>2. CASE u = t /\ hd2[u] = b
        <5>1. 1 \in 1..Len(bx[t]) /\ bx[t][1] = b
          BY <4>2, <1>1
        <5>. QED  BY <5>1
      <4>3. CASE u = t /\ \E i \in 1..Len(bx2[u]) : bx2[u][i] = b
        BY <4>3, <1>1
      <4>. QED  BY <3>2, <4>1, <4>2, <4>3
    <3>. QED  BY <3>1, <3>2
  <2>. QED  BY <2>1 DEF Held
<1>. QED  BY <1>3, <1>6, <1>7

(* A message that is nowhere yet is put into a mailbox. *)
LEMMA PutPlaces ==
  ASSUME NEW bx, NEW hd, Places(bx, hd), Once(bx, hd), NEW t \in Task,
         NEW b \in Block, b \notin Held(bx, hd),
         NEW bx2, bx2 = Put(bx, t, b)
  PROVE  /\ Places(bx2, hd) /\ Once(bx2, hd)
         /\ Held(bx2, hd) = Held(bx, hd) \cup {b}
<1> USE DEF Put
<1>1. /\ bx[t] \in Seq(Block) /\ Len(bx[t]) \in Nat
      /\ bx2[t] = Append(bx[t], b) /\ bx2[t] \in Seq(Block) /\ Len(bx2[t]) = Len(bx[t]) + 1
      /\ \A i \in 1..Len(bx[t]) : bx2[t][i] = bx[t][i]
      /\ bx2[t][Len(bx[t]) + 1] = b
  BY DEF Places
<1>2. \A u \in Task \ {t} : bx2[u] = bx[u]
  BY DEF Places
<1>3. Places(bx2, hd)
  BY <1>1, <1>2 DEF Places
<1>4. \A u \in Task : /\ Len(bx[u]) \in Nat /\ hd[u] # b
                      /\ \A i \in 1..Len(bx[u]) : bx[u][i] # b
  BY DEF Places, Held
<1>5. \A i \in 1..Len(bx2[t]) : i \in 1..Len(bx[t]) \/ i = Len(bx[t]) + 1
  BY <1>1
<1>6. Once(bx2, hd)
  <2> SUFFICES ASSUME NEW u \in Task, NEW v \in Task
               PROVE  /\ hd[u] # NULL /\ hd[u] = hd[v] => u = v
                      /\ hd[u] # NULL => \A j \in 1..Len(bx2[v]) : bx2[v][j] # hd[u]
                      /\ \A i \in 1..Len(bx2[u]), j \in 1..Len(bx2[v]) :
                           bx2[u][i] = bx2[v][j] => u = v /\ i = j
    BY DEF Once
  <2>1. hd[u] # NULL /\ hd[u] = hd[v] => u = v
    BY DEF Once
  <2>2. hd[u] # NULL => \A j \in 1..Len(bx2[v]) : bx2[v][j] # hd[u]
    BY <1>1, <1>2, <1>4, <1>5 DEF Once
  <2>3. \A i \in 1..Len(bx2[u]), j \in 1..Len(bx2[v]) :
          bx2[u][i] = bx2[v][j] => u = v /\ i = j
    BY <1>1, <1>2, <1>4, <1>5 DEF Once
  <2>. QED  BY <2>1, <2>2, <2>3
<1>7. Held(bx2, hd) = Held(bx, hd) \cup {b}
  <2>1. Len(bx[t]) + 1 \in 1..Len(bx2[t]) /\ \A i \in 1..Len(bx[t]) : i \in 1..Len(bx2[t])
    BY <1>1
  <2>2. ASSUME NEW c \in Block, NEW u \in Task
        PROVE  (hd[u] = c \/ \E i \in 1..Len(bx2[u]) : bx2[u][i] = c)
               <=> (hd[u] = c \/ (\E i \in 1..Len(bx[u]) : bx[u][i] = c) \/ (u = t /\ c = b))
    BY <1>1, <1>2, <1>5, <2>1
  <2>. QED  BY <2>2 DEF Held
<1>. QED  BY <1>3, <1>6, <1>7

(* A task has done with the message in its hand. *)
LEMMA DropPlaces ==
  ASSUME NEW bx, NEW hd, Places(bx, hd), Once(bx, hd), NEW t \in Task, hd[t] # NULL,
         NEW hd2, hd2 = InHand(hd, t, NULL)
  PROVE  /\ Places(bx, hd2) /\ Once(bx, hd2)
         /\ Held(bx, hd2) = Held(bx, hd) \ {hd[t]}
         /\ hd[t] \in Held(bx, hd)
<1> USE DEF InHand
<1>1. hd2[t] = NULL /\ \A u \in Task \ {t} : hd2[u] = hd[u]
  BY DEF Places
<1>2. Places(bx, hd2) /\ hd[t] \in Block
  BY NullIsNoBlock DEF Places, NULL
<1>3. Once(bx, hd2)
  BY <1>1 DEF Once
<1>4. \A u \in Task \ {t} : hd[u] # hd[t]
  BY DEF Once
<1>5. \A u \in Task : \A i \in 1..Len(bx[u]) : bx[u][i] # hd[t]
  BY DEF Once
<1>6. Held(bx, hd2) = Held(bx, hd) \ {hd[t]}
  BY <1>1, <1>4, <1>5, NullIsNoBlock DEF Held
<1>. QED  BY <1>2, <1>3, <1>6 DEF Held
-----------------------------------------------------------------------------
(* The heap: the messages M have blocks of their own, and what is in use beyond
   them is L.                                                              *)
Formed(mem, g) ==
  /\ g \in Block /\ mem[g] # Free
  /\ mem[g].header \in Block \ {g} /\ mem[mem[g].header] # Free
  /\ mem[mem[g].header].payload # NULL =>
       /\ mem[mem[g].header].payload \in Block \ {g, mem[g].header}
       /\ mem[mem[mem[g].header].payload] # Free

Exact(mem, M, L) ==
  /\ mem = [b \in Block |-> mem[b]]
  /\ M \subseteq Block /\ L \subseteq Block
  /\ \A g \in M : Formed(mem, g)
  /\ \A g \in M, n \in M : g # n => BlocksOf(mem, g) \cap BlocksOf(mem, n) = {}
  /\ \A g \in M : BlocksOf(mem, g) \cap L = {}
  /\ \A b \in Block : mem[b] # Free <=> b \in L \/ \E g \in M : b \in BlocksOf(mem, g)

(* Room for one more message: whichever two blocks are taken, one is free. *)
Room(mem) == \A x, y : \E b \in Block \ {x, y} : mem[b] = Free

LEMMA BlocksFormed ==
  ASSUME NEW mem, NEW g, Formed(mem, g)
  PROVE  /\ g \in BlocksOf(mem, g) /\ mem[g].header \in BlocksOf(mem, g)
         /\ BlocksOf(mem, g) \subseteq Block
         /\ \A b \in BlocksOf(mem, g) : mem[b] # Free
         /\ mem[mem[g].header].payload # NULL =>
              mem[mem[g].header].payload \in BlocksOf(mem, g)
  BY NullIsNoBlock DEF Formed, BlocksOf

(* What a message says, and which blocks it has, depends on its blocks only. *)
LEMMA SameBlocks ==
  ASSUME NEW mem, NEW new, NEW g, Formed(mem, g),
         \A b \in BlocksOf(mem, g) : new[b] = mem[b]
  PROVE  /\ Formed(new, g) /\ BlocksOf(new, g) = BlocksOf(mem, g)
         /\ Header(new, g) = Header(mem, g) /\ Data(new, g) = Data(mem, g)
<1>1. new[g] = mem[g] /\ new[mem[g].header] = mem[mem[g].header]
  BY BlocksFormed
<1>2. mem[mem[g].header].payload # NULL =>
        new[mem[mem[g].header].payload] = mem[mem[mem[g].header].payload]
  BY BlocksFormed
<1>. QED  BY <1>1, <1>2 DEF Formed, BlocksOf, Header, Data

(* get_..._msg and task_post: a new message in blocks that were free. *)
LEMMA StoredBlocks ==
  ASSUME NEW mem, mem = [b \in Block |-> mem[b]], Room(mem), NEW draft,
         NEW new, new = Stored(mem, draft)
  PROVE  /\ Formed(new.mem, new.msg)
         /\ new.mem = [b \in Block |-> new.mem[b]]
         /\ \A b \in BlocksOf(new.mem, new.msg) : mem[b] = Free
         /\ \A b \in Block \ BlocksOf(new.mem, new.msg) : new.mem[b] = mem[b]
         /\ Header(new.mem, new.msg) = [draft EXCEPT !.data = NoData]
         /\ Data(new.mem, new.msg) = IF draft.type = "PURE" THEN NoData ELSE draft.data
<1> DEFINE free == {b \in Block : mem[b] = Free}
           g == malloc(free)
           header == malloc(free \ {g})
           data == malloc(free \ {g, header})
           payload == IF draft.type = "PURE" THEN NULL ELSE data
           msgCell == [kind |-> "msg", header |-> header]
           headerCell == [kind |-> "header", payload |-> payload, of |-> [draft EXCEPT !.data = NoData]]
           dataCell == [kind |-> "data", bytes |-> draft.data]
           withHeader == [mem EXCEPT ![g] = msgCell, ![header] = headerCell]
<1>1. new = [msg |-> g,
             mem |-> IF payload = NULL THEN withHeader ELSE [withHeader EXCEPT ![payload] = dataCell]]
  BY DEF Stored
<1>2. g \in free
  BY DEF Room, malloc
<1>3. header \in free \ {g}
  <2> HIDE DEF g
  <2>1. \E b \in free \ {g} : TRUE
    BY <1>2 DEF Room
  <2>. QED  BY <2>1 DEF malloc
<1>4. data \in free \ {g, header}
  <2> HIDE DEF g, header
  <2>1. \E b \in free \ {g, header} : TRUE
    BY <1>2, <1>3 DEF Room
  <2>. QED  BY <2>1 DEF malloc
<1>5. msgCell # Free /\ headerCell # Free /\ dataCell # Free
  <2> HIDE DEF header, payload
  <2>. QED  BY DEF Free
<1>6. /\ msgCell.header = header
      /\ headerCell.payload = payload /\ headerCell.of = [draft EXCEPT !.data = NoData]
      /\ dataCell.bytes = draft.data
  <2> HIDE DEF header, payload
  <2>. QED  OBVIOUS
<1>7. new.msg = g
      /\ new.mem = IF payload = NULL THEN withHeader ELSE [withHeader EXCEPT ![payload] = dataCell]
  <2> HIDE DEF g, withHeader, payload, dataCell
  <2>. QED  BY <1>1
<1>8. /\ g \in Block /\ mem[g] = Free /\ header \in Block /\ header # g /\ mem[header] = Free
      /\ data \in Block /\ data # g /\ data # header /\ mem[data] = Free
  BY <1>2, <1>3, <1>4
<1>9. payload = (IF draft.type = "PURE" THEN NULL ELSE data) /\ NULL \notin Block
  BY NullIsNoBlock
<1> HIDE DEF g, header, data, payload, msgCell, headerCell, dataCell
<1>10. /\ new.mem = [b \in Block |-> new.mem[b]]
       /\ new.mem[g] = msgCell /\ new.mem[header] = headerCell
       /\ payload # NULL => new.mem[payload] = dataCell
       /\ \A b \in Block : b # g /\ b # header /\ b # payload => new.mem[b] = mem[b]
  BY <1>7, <1>8, <1>9
<1>11. BlocksOf(new.mem, new.msg) = {g, header, payload} \ {NULL}
  BY <1>6, <1>7, <1>10 DEF BlocksOf
<1>a. /\ new.msg = g /\ new.mem[g].header = header /\ new.mem[header].payload = payload
      /\ new.mem[g] # Free /\ new.mem[header] # Free
      /\ payload # NULL => payload = data /\ new.mem[payload] # Free /\ new.mem[payload].bytes = draft.data
  BY <1>5, <1>6, <1>7, <1>9, <1>10
<1>12. Formed(new.mem, new.msg)
  BY <1>8, <1>a DEF Formed
<1>13. Header(new.mem, new.msg) = [draft EXCEPT !.data = NoData]
  BY <1>6, <1>7, <1>10 DEF Header
<1>14. Data(new.mem, new.msg) = IF draft.type = "PURE" THEN NoData ELSE draft.data
  <2>1. payload # NULL <=> draft.type # "PURE"
    BY <1>8, <1>9
  <2>. QED  BY <2>1, <1>a DEF Data
<1>15. /\ \A b \in BlocksOf(new.mem, new.msg) : mem[b] = Free
       /\ \A b \in Block \ BlocksOf(new.mem, new.msg) : new.mem[b] = mem[b]
  BY <1>8, <1>9, <1>10, <1>11
<1>. QED  BY <1>10, <1>12, <1>13, <1>14, <1>15

LEMMA StoredExact ==
  ASSUME NEW mem, NEW M, NEW L, Exact(mem, M, L), Room(mem), NEW draft,
         NEW new, new = Stored(mem, draft)
  PROVE  /\ Exact(new.mem, M \cup {new.msg}, L)
         /\ new.msg \in Block \ M
         /\ \A n \in M : Header(new.mem, n) = Header(mem, n) /\ Data(new.mem, n) = Data(mem, n)
         /\ Header(new.mem, new.msg) = [draft EXCEPT !.data = NoData]
         /\ Data(new.mem, new.msg) = IF draft.type = "PURE" THEN NoData ELSE draft.data
<1> DEFINE B == BlocksOf(new.mem, new.msg)
<1>1. /\ Formed(new.mem, new.msg)
      /\ new.mem = [b \in Block |-> new.mem[b]]
      /\ \A b \in B : mem[b] = Free
      /\ \A b \in Block \ B : new.mem[b] = mem[b]
      /\ Header(new.mem, new.msg) = [draft EXCEPT !.data = NoData]
      /\ Data(new.mem, new.msg) = IF draft.type = "PURE" THEN NoData ELSE draft.data
  BY StoredBlocks DEF Exact
<1>2. /\ new.msg \in B /\ B \subseteq Block /\ \A b \in B : new.mem[b] # Free
  BY <1>1, BlocksFormed
<1> HIDE DEF B
<1>3. \A n \in M : /\ Formed(mem, n) /\ BlocksOf(mem, n) \subseteq Block \ B
                   /\ \A b \in BlocksOf(mem, n) : new.mem[b] = mem[b]
  <2>1. \A n \in M : /\ Formed(mem, n) /\ BlocksOf(mem, n) \subseteq Block
                     /\ \A b \in BlocksOf(mem, n) : mem[b] # Free
    BY BlocksFormed DEF Exact
  <2>2. (\A b \in B : mem[b] = Free) /\ \A b \in Block \ B : new.mem[b] = mem[b]
    BY <1>1
  <2>. QED  BY ONLY <2>1, <2>2
<1>4. \A n \in M : /\ Formed(new.mem, n) /\ BlocksOf(new.mem, n) = BlocksOf(mem, n)
                   /\ Header(new.mem, n) = Header(mem, n) /\ Data(new.mem, n) = Data(mem, n)
  BY <1>3, SameBlocks
<1>5. new.msg \in Block \ M
  BY <1>1, <1>2 DEF Exact, Formed
<1>6. L \cap B = {}
  BY <1>1 DEF Exact
<1>7. \A n \in M : BlocksOf(new.mem, n) \cap B = {}
  BY <1>3, <1>4
<1>8. \A b \in Block : new.mem[b] # Free
                         <=> b \in L \/ \E n \in M \cup {new.msg} : b \in BlocksOf(new.mem, n)
  <2>1. ASSUME NEW b \in Block
        PROVE  (\E n \in M \cup {new.msg} : b \in BlocksOf(new.mem, n))
               <=> b \in B \/ \E n \in M : b \in BlocksOf(mem, n)
    BY <1>4 DEF B
  <2>2. ASSUME NEW b \in Block
        PROVE  new.mem[b] # Free <=> b \in B \/ mem[b] # Free
    BY <1>1, <1>2
  <2>. QED  BY <2>1, <2>2 DEF Exact
<1>9. \A g \in M \cup {new.msg}, n \in M \cup {new.msg} :
        g # n => BlocksOf(new.mem, g) \cap BlocksOf(new.mem, n) = {}
  BY <1>4, <1>7 DEF Exact, B
<1>10. \A n \in M \cup {new.msg} : BlocksOf(new.mem, n) \cap L = {} /\ Formed(new.mem, n)
  BY <1>1, <1>4, <1>6 DEF Exact, B
<1>11. Exact(new.mem, M \cup {new.msg}, L)
  BY <1>1, <1>5, <1>8, <1>9, <1>10 DEF Exact
<1>. QED  BY <1>1, <1>4, <1>5, <1>11

(* ak_msg_free gives back the blocks of the message and no other. *)
LEMMA FreeExact ==
  ASSUME NEW mem, NEW M, NEW L, Exact(mem, M, L), NEW g \in M,
         NEW new, new = ak_msg_free(mem, g)
  PROVE  /\ Exact(new, M \ {g}, L)
         /\ \A n \in M \ {g} : Header(new, n) = Header(mem, n) /\ Data(new, n) = Data(mem, n)
<1>1. /\ new = [b \in Block |-> new[b]]
      /\ \A b \in Block : new[b] = IF b \in BlocksOf(mem, g) THEN Free ELSE mem[b]
  BY DEF ak_msg_free
<1>2. \A n \in M \ {g} : /\ Formed(mem, n) /\ BlocksOf(mem, n) \subseteq Block
                         /\ BlocksOf(mem, n) \cap BlocksOf(mem, g) = {}
  BY BlocksFormed DEF Exact
<1>3. \A n \in M \ {g} : \A b \in BlocksOf(mem, n) : new[b] = mem[b]
  BY <1>1, <1>2
<1>4. \A n \in M \ {g} : /\ Formed(new, n) /\ BlocksOf(new, n) = BlocksOf(mem, n)
                         /\ Header(new, n) = Header(mem, n) /\ Data(new, n) = Data(mem, n)
  BY <1>2, <1>3, SameBlocks
<1>5. \A b \in Block : new[b] # Free <=> b \in L \/ \E n \in M \ {g} : b \in BlocksOf(new, n)
  <2>1. ASSUME NEW b \in Block
        PROVE  new[b] # Free <=> b \notin BlocksOf(mem, g) /\ mem[b] # Free
    BY <1>1
  <2>2. ASSUME NEW b \in Block
        PROVE  (\E n \in M \ {g} : b \in BlocksOf(new, n))
               <=> \E n \in M \ {g} : b \in BlocksOf(mem, n)
    BY <1>4
  <2>3. BlocksOf(mem, g) \cap L = {}
    BY DEF Exact
  <2>. QED  BY <1>2, <2>1, <2>2, <2>3 DEF Exact
<1>6. \A n \in M \ {g}, k \in M \ {g} : n # k => BlocksOf(new, n) \cap BlocksOf(new, k) = {}
  BY <1>4 DEF Exact
<1>7. \A n \in M \ {g} : BlocksOf(new, n) \cap L = {}
  BY <1>4 DEF Exact
<1>8. Exact(new, M \ {g}, L)
  BY <1>1, <1>4, <1>5, <1>6, <1>7 DEF Exact
<1>. QED  BY <1>4, <1>8

(* A block is filled and forgotten. *)
Filled(mem, b, cell) == [mem EXCEPT ![b] = cell]

LEMMA LeakExact ==
  ASSUME NEW mem, NEW M, NEW L, Exact(mem, M, L), NEW b \in Block, mem[b] = Free,
         NEW cell, cell # Free,
         NEW new, new = Filled(mem, b, cell)
  PROVE  /\ Exact(new, M, L \cup {b}) /\ b \notin L
         /\ \A n \in M : Header(new, n) = Header(mem, n) /\ Data(new, n) = Data(mem, n)
<1>1. /\ new = [c \in Block |-> new[c]] /\ new[b] # Free
      /\ \A c \in Block \ {b} : new[c] = mem[c]
  BY DEF Exact, Filled
<1>2. b \notin L /\ \A n \in M : b \notin BlocksOf(mem, n)
  BY DEF Exact
<1>3. \A n \in M : Formed(mem, n) /\ \A c \in BlocksOf(mem, n) : new[c] = mem[c]
  <2>1. \A n \in M : Formed(mem, n) /\ BlocksOf(mem, n) \subseteq Block
    BY BlocksFormed DEF Exact
  <2>. QED  BY <1>1, <1>2, <2>1
<1>4. \A n \in M : /\ Formed(new, n) /\ BlocksOf(new, n) = BlocksOf(mem, n)
                   /\ Header(new, n) = Header(mem, n) /\ Data(new, n) = Data(mem, n)
  <2> SUFFICES ASSUME NEW n \in M
               PROVE  /\ Formed(new, n) /\ BlocksOf(new, n) = BlocksOf(mem, n)
                      /\ Header(new, n) = Header(mem, n) /\ Data(new, n) = Data(mem, n)
    OBVIOUS
  <2>1. Formed(mem, n) /\ \A c \in BlocksOf(mem, n) : new[c] = mem[c]
    BY <1>3
  <2>. QED  BY ONLY <2>1, SameBlocks
<1>5. \A c \in Block : new[c] # Free <=> c \in L \cup {b} \/ \E n \in M : c \in BlocksOf(new, n)
  <2>1. ASSUME NEW c \in Block
        PROVE  (\E n \in M : c \in BlocksOf(new, n)) <=> \E n \in M : c \in BlocksOf(mem, n)
    BY <1>4
  <2>2. ASSUME NEW c \in Block PROVE new[c] # Free <=> c = b \/ mem[c] # Free
    BY <1>1
  <2>. QED  BY <2>1, <2>2 DEF Exact
<1>6. \A n \in M : BlocksOf(new, n) \cap (L \cup {b}) = {}
  BY <1>2, <1>4 DEF Exact
<1>7. \A n \in M, k \in M : n # k => BlocksOf(new, n) \cap BlocksOf(new, k) = {}
  BY <1>4 DEF Exact
<1>8. Exact(new, M, L \cup {b})
  BY <1>1, <1>4, <1>5, <1>6, <1>7 DEF Exact
<1>. QED  BY <1>2, <1>4, <1>8
-----------------------------------------------------------------------------
(* Counting: with few enough messages there is room for another. *)
LEMMA TaskCount == IsFiniteSet(Task) /\ Cardinality(Task) \in Nat
<1>1. \A x, y, z : IsFiniteSet({x, y, z})
  <2> SUFFICES ASSUME NEW x, NEW y, NEW z PROVE IsFiniteSet({x, y, z})
    OBVIOUS
  <2>1. IsFiniteSet(({x} \cup {y}) \cup {z})
    BY FS_Singleton, FS_AddElement
  <2>2. ({x} \cup {y}) \cup {z} = {x, y, z}
    OBVIOUS
  <2>. QED  BY <2>1, <2>2
<1>2. IsFiniteSet({"IF", "IF_APP", "CPU_SERIAL"}) /\ IsFiniteSet({"USB", "LINK", "FW"})
      /\ IsFiniteSet({"SYS", "DEBUG", "SENSOR"}) /\ IsFiniteSet({"CONSOLE", "PHY", "MAC"})
      /\ IsFiniteSet({"TIMER", "IF_CONSOLE", "IF_CONSOLE"})
  BY ONLY <1>1, Zenon
<1>3. IsFiniteSet((({"IF", "IF_APP", "CPU_SERIAL"} \cup {"USB", "LINK", "FW"})
                   \cup ({"SYS", "DEBUG", "SENSOR"} \cup {"CONSOLE", "PHY", "MAC"}))
                  \cup {"TIMER", "IF_CONSOLE", "IF_CONSOLE"})
  BY <1>2, FS_Union
<1>4. Task = (({"IF", "IF_APP", "CPU_SERIAL"} \cup {"USB", "LINK", "FW"})
              \cup ({"SYS", "DEBUG", "SENSOR"} \cup {"CONSOLE", "PHY", "MAC"}))
             \cup {"TIMER", "IF_CONSOLE", "IF_CONSOLE"}
  BY DEF Task, Hop, AppTask, Unread
<1>. QED  BY <1>3, <1>4, FS_CardinalityType

LEMMA UnionCount ==
  ASSUME NEW S, IsFiniteSet(S), NEW T, IsFiniteSet(T)
  PROVE  /\ IsFiniteSet(S \cup T) /\ Cardinality(S \cup T) \in Nat
         /\ Cardinality(S \cup T) <= Cardinality(S) + Cardinality(T)
<1>1. IsFiniteSet(S \cup T) /\ IsFiniteSet(S \cap T)
      /\ Cardinality(S \cup T) = Cardinality(S) + Cardinality(T) - Cardinality(S \cap T)
  BY FS_Union, FS_Intersection
<1>2. /\ Cardinality(S \cup T) \in Nat /\ Cardinality(S \cap T) \in Nat
      /\ Cardinality(S) \in Nat /\ Cardinality(T) \in Nat
  BY <1>1, FS_CardinalityType
<1>. QED  BY <1>1, <1>2

LEMMA ImageCount ==
  ASSUME NEW S, IsFiniteSet(S), NEW f, f = [x \in S |-> f[x]]
  PROVE  /\ IsFiniteSet({f[x] : x \in S})
         /\ Cardinality({f[x] : x \in S}) <= Cardinality(S)
<1>1. f \in Surjection(S, {f[x] : x \in S})
  BY DEF Surjection
<1>. QED  BY <1>1, FS_Surjection

LEMMA EnoughRoom ==
  ASSUME NEW mem, NEW M, NEW L, Exact(mem, M, L), IsFiniteSet(M), IsFiniteSet(L),
         3 * Cardinality(M) + Cardinality(L) + 3 <= HeapSize
  PROVE  Room(mem)
<1> SUFFICES ASSUME NEW x, NEW y, \A b \in Block \ {x, y} : mem[b] # Free
             PROVE  FALSE
  BY DEF Room
<1> DEFINE headerOf == [n \in M |-> mem[n].header]
           payloadOf == [n \in M |-> mem[mem[n].header].payload]
           Hs == {headerOf[n] : n \in M}
           Ps == {payloadOf[n] : n \in M}
           Used == ((M \cup Hs) \cup Ps) \cup L
           All == (Used \cup {x}) \cup {y}
<1>1. \A n \in M : BlocksOf(mem, n) \subseteq {n, headerOf[n], payloadOf[n]}
  BY DEF BlocksOf
<1>2. \A n \in M : headerOf[n] \in Hs /\ payloadOf[n] \in Ps
  OBVIOUS
<1>3. IsFiniteSet(Hs) /\ Cardinality(Hs) <= Cardinality(M)
  <2>1. headerOf = [n \in M |-> headerOf[n]]
    OBVIOUS
  <2> HIDE DEF headerOf
  <2>. QED  BY <2>1, ImageCount
<1>4. IsFiniteSet(Ps) /\ Cardinality(Ps) <= Cardinality(M)
  <2>1. payloadOf = [n \in M |-> payloadOf[n]]
    OBVIOUS
  <2> HIDE DEF payloadOf
  <2>. QED  BY <2>1, ImageCount
<1> HIDE DEF headerOf, payloadOf, Hs, Ps
<1>5. Block \subseteq All
  <2>1. \A b \in Block : mem[b] # Free => b \in Used
    BY <1>1, <1>2 DEF Exact
  <2>. QED  BY <2>1
<1>6. /\ IsFiniteSet({x}) /\ Cardinality({x}) = 1 /\ IsFiniteSet({y}) /\ Cardinality({y}) = 1
      /\ Cardinality(M) \in Nat /\ Cardinality(L) \in Nat
      /\ Cardinality(Hs) \in Nat /\ Cardinality(Ps) \in Nat
  BY <1>3, <1>4, FS_Singleton, FS_CardinalityType
<1>7. IsFiniteSet(M \cup Hs) /\ Cardinality(M \cup Hs) \in Nat
      /\ Cardinality(M \cup Hs) <= 2 * Cardinality(M)
  <2>1. IsFiniteSet(M \cup Hs) /\ Cardinality(M \cup Hs) \in Nat
        /\ Cardinality(M \cup Hs) <= Cardinality(M) + Cardinality(Hs)
    BY ONLY <1>3, IsFiniteSet(M), UnionCount
  <2>. QED  BY ONLY <2>1, <1>3, <1>6
<1>8. IsFiniteSet((M \cup Hs) \cup Ps) /\ Cardinality((M \cup Hs) \cup Ps) \in Nat
      /\ Cardinality((M \cup Hs) \cup Ps) <= 3 * Cardinality(M)
  <2>1. IsFiniteSet((M \cup Hs) \cup Ps) /\ Cardinality((M \cup Hs) \cup Ps) \in Nat
        /\ Cardinality((M \cup Hs) \cup Ps) <= Cardinality(M \cup Hs) + Cardinality(Ps)
    BY ONLY <1>4, <1>7, UnionCount
  <2>. QED  BY ONLY <2>1, <1>4, <1>6, <1>7
<1>9. IsFiniteSet(Used) /\ Cardinality(Used) \in Nat
      /\ Cardinality(Used) <= 3 * Cardinality(M) + Cardinality(L)
  BY <1>6, <1>8, UnionCount
<1> HIDE DEF Used
<1>10. IsFiniteSet(Used \cup {x}) /\ Cardinality(Used \cup {x}) \in Nat
       /\ Cardinality(Used \cup {x}) <= 3 * Cardinality(M) + Cardinality(L) + 1
  <2>1. IsFiniteSet(Used \cup {x}) /\ Cardinality(Used \cup {x}) \in Nat
        /\ Cardinality(Used \cup {x}) <= Cardinality(Used) + Cardinality({x})
    BY ONLY <1>6, <1>9, UnionCount
  <2>. QED  BY ONLY <2>1, <1>6, <1>9
<1>11. IsFiniteSet(All) /\ Cardinality(All) \in Nat
       /\ Cardinality(All) <= 3 * Cardinality(M) + Cardinality(L) + 2
  <2>1. IsFiniteSet(All) /\ Cardinality(All) \in Nat
        /\ Cardinality(All) <= Cardinality(Used \cup {x}) + Cardinality({y})
    BY ONLY <1>6, <1>10, UnionCount
  <2>. QED  BY ONLY <2>1, <1>6, <1>10
<1>12. Cardinality(Block) = HeapSize /\ Cardinality(Block) <= Cardinality(All)
  <2>1. HeapSize \in Nat /\ 1 \in Int
    BY HeapIsLarge
  <2>2. Cardinality(Block) = IF 1 > HeapSize THEN 0 ELSE HeapSize - 1 + 1
    BY <2>1, FS_Interval DEF Block
  <2>3. Cardinality(Block) = HeapSize
    BY ONLY <2>1, <2>2
  <2>4. Cardinality(Block) <= Cardinality(All)
    BY ONLY <1>5, <1>11, FS_Subset
  <2>. QED  BY <2>3, <2>4
<1>. QED  BY ONLY <1>6, <1>11, <1>12, HeapIsLarge, 3 * Cardinality(M) + Cardinality(L) + 3 <= HeapSize
-----------------------------------------------------------------------------
(* The inductive invariant.  A message waits in one mailbox or is in one hand;
   the blocks in use are those of these messages and what was forgotten; and
   an offer is behind at most one message, or one forgotten block, that is not
   in a hand.                                                              *)
Messages == Held(box, hand)
Busy == {t \in Task : hand[t] # NULL}

OffersCounted ==
  /\ offered \subseteq Offer /\ IsFiniteSet(offered) /\ Cardinality(offered) <= MaxOffers
  /\ IsFiniteSet(Messages) /\ IsFiniteSet(leaked)
  /\ Cardinality(Messages) + Cardinality(leaked) <= Cardinality(offered) + Cardinality(Busy)

HeapInv == /\ Places(box, hand) /\ Once(box, hand)
           /\ Exact(heap, Messages, leaked)
           /\ OffersCounted

LEMMA Numbers ==
  ASSUME HeapInv
  PROVE  /\ IsFiniteSet(Busy) /\ Cardinality(Busy) \in Nat
         /\ Cardinality(Busy) <= Cardinality(Task)
         /\ Cardinality(offered) \in Nat /\ Cardinality(Messages) \in Nat
         /\ Cardinality(leaked) \in Nat
         /\ MaxOffers \in Nat /\ HeapSize \in Nat /\ Cardinality(Task) \in Nat
<1>1. IsFiniteSet(Busy) /\ Cardinality(Busy) <= Cardinality(Task)
  BY TaskCount, FS_Subset DEF Busy
<1>. QED
  BY <1>1, TaskCount, FS_CardinalityType, MaxOffersIsNat, HeapIsLarge DEF HeapInv, OffersCounted

(* There is room for the message of a new offer, and for what an idle task makes. *)
LEMMA RoomForOffer ==
  ASSUME HeapInv, Cardinality(offered) < MaxOffers
  PROVE  Room(heap)
<1> DEFINE a == Cardinality(Messages)
           l == Cardinality(leaked)
           o == Cardinality(offered)
           b == Cardinality(Busy)
           n == Cardinality(Task)
<1>1. a \in Nat /\ l \in Nat /\ o \in Nat /\ b \in Nat /\ n \in Nat /\ MaxOffers \in Nat
      /\ HeapSize \in Nat /\ b <= n /\ a + l <= o + b /\ o < MaxOffers
      /\ HeapSize >= 3 * (MaxOffers + n)
  BY Numbers, HeapIsLarge DEF HeapInv, OffersCounted
<1>2. 3 * a + l + 3 <= HeapSize
  <2> HIDE DEF a, l, o, b, n
  <2>. QED  BY ONLY <1>1
<1>. QED  BY <1>2, EnoughRoom DEF HeapInv, OffersCounted

LEMMA RoomForTask ==
  ASSUME HeapInv, NEW t \in Task, hand[t] = NULL
  PROVE  Room(heap)
<1> DEFINE a == Cardinality(Messages)
           l == Cardinality(leaked)
           o == Cardinality(offered)
           b == Cardinality(Busy)
           n == Cardinality(Task)
<1>1. b < n
  <2>1. Busy \subseteq Task /\ Busy # Task
    BY DEF Busy
  <2>2. b <= n /\ b # n
    BY <2>1, TaskCount, FS_Subset
  <2>. QED  BY <2>2, Numbers
<1>2. a \in Nat /\ l \in Nat /\ o \in Nat /\ b \in Nat /\ n \in Nat /\ MaxOffers \in Nat
      /\ HeapSize \in Nat /\ a + l <= o + b /\ o <= MaxOffers
      /\ HeapSize >= 3 * (MaxOffers + n)
  BY Numbers, HeapIsLarge DEF HeapInv, OffersCounted
<1>3. 3 * a + l + 3 <= HeapSize
  <2> HIDE DEF a, l, o, b, n
  <2>. QED  BY ONLY <1>1, <1>2
<1>. QED  BY <1>3, EnoughRoom DEF HeapInv, OffersCounted

(* The kinds of step, by what they do to mailboxes, hands and heap. *)
LEMMA IdleStep ==
  ASSUME HeapInv, UNCHANGED <<heap, box, hand, leaked>>,
         offered' = offered \/ \E o \in Offer \ offered : offered' = offered \cup {o}
                                                        /\ Cardinality(offered) < MaxOffers
  PROVE  HeapInv'
<1>1. Messages' = Messages /\ Busy' = Busy
  BY DEF Messages, Busy
<1>2. Places(box, hand)' /\ Once(box, hand)' /\ Exact(heap, Messages, leaked)'
  <2>1. box' = box /\ hand' = hand /\ heap' = heap /\ leaked' = leaked
    OBVIOUS
  <2>2. Places(box', hand') /\ Once(box', hand') /\ Exact(heap', Messages', leaked')
    BY <1>1, <2>1 DEF HeapInv
  <2>. QED  BY <2>2
<1>3. /\ offered' \subseteq Offer /\ IsFiniteSet(offered') /\ Cardinality(offered') <= MaxOffers
      /\ Cardinality(offered) <= Cardinality(offered') /\ Cardinality(offered') \in Nat
  <2>1. CASE offered' = offered
    BY <2>1, Numbers DEF HeapInv, OffersCounted
  <2>2. CASE \E o \in Offer \ offered : offered' = offered \cup {o}
                                         /\ Cardinality(offered) < MaxOffers
    <3>1. PICK o \in Offer \ offered : offered' = offered \cup {o}
                                        /\ Cardinality(offered) < MaxOffers
      BY <2>2
    <3>2. IsFiniteSet(offered') /\ Cardinality(offered') = Cardinality(offered) + 1
      BY <3>1, FS_AddElement DEF HeapInv, OffersCounted
    <3>. QED  BY <3>1, <3>2, Numbers DEF HeapInv, OffersCounted
  <2>. QED  BY <2>1, <2>2
<1>4. OffersCounted'
  BY <1>1, <1>3, Numbers DEF HeapInv, OffersCounted
<1>. QED  BY <1>2, <1>4 DEF HeapInv

(* A thread posts a message for an offer. *)
LEMMA EnterStep ==
  ASSUME HeapInv, NEW o \in Offer, NEW draft, NEW dst \in Task, Enter(o, draft, dst),
         NEW new, new = Stored(heap, Set(draft, [des_task_id |-> dst]))
  PROVE  /\ HeapInv' /\ new.msg \in Block \ Messages
         /\ heap' = new.mem /\ box' = [box EXCEPT ![dst] = Append(@, new.msg)]
         /\ \A n \in Messages : Header(new.mem, n) = Header(heap, n) /\ Data(new.mem, n) = Data(heap, n)
         /\ Header(new.mem, new.msg) = [Set(draft, [des_task_id |-> dst]) EXCEPT !.data = NoData]
         /\ Data(new.mem, new.msg) = IF Set(draft, [des_task_id |-> dst]).type = "PURE" THEN NoData
                                     ELSE Set(draft, [des_task_id |-> dst]).data
<1> DEFINE d == Set(draft, [des_task_id |-> dst])
<1>1. /\ o \notin offered /\ Cardinality(offered) < MaxOffers /\ offered' = offered \cup {o}
      /\ heap' = new.mem /\ box' = [box EXCEPT ![dst] = Append(@, new.msg)]
      /\ UNCHANGED <<hand, leaked>>
  BY DEF Enter
<1>2. Room(heap)
  BY <1>1, RoomForOffer
<1> HIDE DEF d
<1>3. /\ Exact(new.mem, Messages \cup {new.msg}, leaked)
      /\ new.msg \in Block \ Messages
      /\ \A n \in Messages : Header(new.mem, n) = Header(heap, n) /\ Data(new.mem, n) = Data(heap, n)
      /\ Header(new.mem, new.msg) = [d EXCEPT !.data = NoData]
      /\ Data(new.mem, new.msg) = IF d.type = "PURE" THEN NoData ELSE d.data
  <2>1. Exact(heap, Messages, leaked) /\ new = Stored(heap, d)
    BY DEF HeapInv, d
  <2>. QED  BY ONLY <1>2, <2>1, StoredExact
<1>4. Places(box', hand) /\ Once(box', hand) /\ Held(box', hand) = Messages \cup {new.msg}
  <2>1. Places(box, hand) /\ Once(box, hand) /\ new.msg \in Block /\ new.msg \notin Held(box, hand)
    BY <1>3 DEF HeapInv, Messages
  <2>2. box' = Put(box, dst, new.msg)
    BY <1>1 DEF Put
  <2>3. /\ Places(box', hand) /\ Once(box', hand)
        /\ Held(box', hand) = Held(box, hand) \cup {new.msg}
    BY ONLY <2>1, <2>2, dst \in Task, PutPlaces
  <2>. QED  BY <2>3 DEF Messages
<1>5. Messages' = Messages \cup {new.msg} /\ Busy' = Busy
  <2>1. Messages' = Held(box', hand')
    BY DEF Messages
  <2>. QED  BY <1>1, <1>4, <2>1 DEF Busy
<1>6. Places(box, hand)' /\ Once(box, hand)' /\ Exact(heap, Messages, leaked)'
  <2>1. hand' = hand /\ leaked' = leaked /\ heap' = new.mem
    BY <1>1
  <2>2. Places(box', hand') /\ Once(box', hand') /\ Exact(heap', Messages', leaked')
    BY <1>3, <1>4, <1>5, <2>1
  <2>. QED  BY <2>2
<1>7. OffersCounted'
  <2>1. /\ IsFiniteSet(Messages') /\ Cardinality(Messages') = Cardinality(Messages) + 1
        /\ IsFiniteSet(offered') /\ Cardinality(offered') = Cardinality(offered) + 1
    BY <1>1, <1>3, <1>5, FS_AddElement DEF HeapInv, OffersCounted
  <2>2. /\ Cardinality(Messages) + Cardinality(leaked) <= Cardinality(offered) + Cardinality(Busy)
        /\ offered' \subseteq Offer /\ IsFiniteSet(leaked)
    BY <1>1 DEF HeapInv, OffersCounted
  <2>. QED  BY <1>1, <1>5, <2>1, <2>2, Numbers DEF OffersCounted
<1>. QED  BY <1>1, <1>3, <1>6, <1>7 DEF HeapInv, d

(* A task takes a message: its mailbox and hand afterwards. *)
LEMMA TakenPlaces ==
  ASSUME HeapInv, NEW t \in Task, Taking(t),
         NEW bx, bx = Rest(box, t), NEW hd, hd = InHand(hand, t, m(t))
  PROVE  /\ Places(bx, hd) /\ Once(bx, hd) /\ Held(bx, hd) = Messages
         /\ hand[t] = NULL /\ m(t) \in Messages
         /\ box[t] \in Seq(Block) /\ box[t] # <<>> /\ m(t) = box[t][1]
         /\ IsFiniteSet(Busy) /\ t \notin Busy
         /\ {u \in Task : hd[u] # NULL} = Busy \cup {t}
<1>1. /\ Places(box, hand) /\ Once(box, hand) /\ hand[t] = NULL /\ box[t] # <<>>
      /\ hd = InHand(hand, t, Head(box[t]))
  BY DEF HeapInv, Taking, m
<1>2. Places(bx, hd) /\ Once(bx, hd) /\ Held(bx, hd) = Held(box, hand)
  BY ONLY <1>1, bx = Rest(box, t), t \in Task, TakePlaces
<1>3. /\ box[t] \in Seq(Block) /\ m(t) = box[t][1] /\ 1 \in 1..Len(box[t]) /\ m(t) \in Block
  BY <1>1 DEF Places, m
<1>4. m(t) \in Messages
  BY <1>3 DEF Messages, Held
<1>5. {u \in Task : hd[u] # NULL} = Busy \cup {t}
  BY <1>1, <1>3, NullIsNoBlock DEF Busy, InHand, Places, m
<1>. QED  BY <1>1, <1>2, <1>3, <1>4, <1>5, Numbers DEF Messages, Busy

LEMMA TakeStep ==
  ASSUME HeapInv, NEW t \in Task, Taking(t), Take(t), UNCHANGED <<heap, leaked>>
  PROVE  /\ HeapInv' /\ Messages' = Messages
         /\ box' = Rest(box, t)
<1>1. /\ box' = Rest(box, t) /\ hand' = InHand(hand, t, m(t))
      /\ heap' = heap /\ leaked' = leaked /\ offered' = offered
  BY DEF Take, Rest, InHand
<1>2. /\ Places(box', hand') /\ Once(box', hand') /\ Held(box', hand') = Messages
      /\ IsFiniteSet(Busy) /\ t \notin Busy
      /\ {u \in Task : hand'[u] # NULL} = Busy \cup {t}
  BY <1>1, TakenPlaces
<1>3. Messages' = Messages /\ Busy' = Busy \cup {t}
  BY <1>2 DEF Messages, Busy
<1>4. Cardinality(Busy') = Cardinality(Busy) + 1
  BY <1>2, <1>3, FS_AddElement
<1>5. OffersCounted'
  BY <1>1, <1>3, <1>4, Numbers DEF HeapInv, OffersCounted
<1>6. Exact(heap, Messages, leaked)'
  <2>1. Exact(heap', Messages', leaked')
    BY <1>1, <1>3 DEF HeapInv
  <2>. QED  BY <2>1
<1>7. Places(box, hand)' /\ Once(box, hand)'
  BY <1>2
<1>. QED  BY <1>1, <1>3, <1>5, <1>6, <1>7 DEF HeapInv

(* A task posts a new message for the one it takes. *)
LEMMA ForwardStep ==
  ASSUME HeapInv, NEW t \in Task, Taking(t), NEW draft, NEW dst \in Task,
         Forward(t, draft, dst),
         NEW new, new = Stored(heap, Set(draft, [des_task_id |-> dst]))
  PROVE  /\ HeapInv' /\ new.msg \in Block \ Messages
         /\ heap' = new.mem /\ box' = Put(Rest(box, t), dst, new.msg)
         /\ \A n \in Messages : Header(new.mem, n) = Header(heap, n) /\ Data(new.mem, n) = Data(heap, n)
         /\ Header(new.mem, new.msg) = [Set(draft, [des_task_id |-> dst]) EXCEPT !.data = NoData]
         /\ Data(new.mem, new.msg) = IF Set(draft, [des_task_id |-> dst]).type = "PURE" THEN NoData
                                     ELSE Set(draft, [des_task_id |-> dst]).data
<1> DEFINE d == Set(draft, [des_task_id |-> dst])
           bx == Rest(box, t)
           hd == InHand(hand, t, m(t))
<1>1. /\ heap' = new.mem /\ box' = Put(bx, dst, new.msg) /\ hand' = hd
      /\ offered' = offered /\ leaked' = leaked
  BY DEF Forward, Put, Rest, InHand
<1> HIDE DEF d
<1>2. /\ Places(bx, hd) /\ Once(bx, hd) /\ Held(bx, hd) = Messages /\ hand[t] = NULL
      /\ IsFiniteSet(Busy) /\ t \notin Busy
      /\ {u \in Task : hd[u] # NULL} = Busy \cup {t}
  BY TakenPlaces
<1> HIDE DEF bx, hd
<1>3. Room(heap)
  BY <1>2, RoomForTask
<1>4. /\ Exact(new.mem, Messages \cup {new.msg}, leaked)
      /\ new.msg \in Block \ Messages
      /\ \A n \in Messages : Header(new.mem, n) = Header(heap, n) /\ Data(new.mem, n) = Data(heap, n)
      /\ Header(new.mem, new.msg) = [d EXCEPT !.data = NoData]
      /\ Data(new.mem, new.msg) = IF d.type = "PURE" THEN NoData ELSE d.data
  <2>1. Exact(heap, Messages, leaked) /\ new = Stored(heap, d)
    BY DEF HeapInv, d
  <2>. QED  BY ONLY <1>3, <2>1, StoredExact
<1>5. Places(box', hd) /\ Once(box', hd) /\ Held(box', hd) = Messages \cup {new.msg}
  <2>1. new.msg \in Block /\ new.msg \notin Held(bx, hd)
    BY <1>2, <1>4
  <2>2. /\ Places(box', hd) /\ Once(box', hd) /\ Held(box', hd) = Held(bx, hd) \cup {new.msg}
    BY ONLY <1>1, <1>2, <2>1, dst \in Task, PutPlaces
  <2>. QED  BY <1>2, <2>2
<1>6. Messages' = Messages \cup {new.msg} /\ Busy' = Busy \cup {t}
  <2>1. Messages' = Held(box', hand') /\ Busy' = {u \in Task : hand'[u] # NULL}
    BY DEF Messages, Busy
  <2>. QED  BY <1>1, <1>2, <1>5, <2>1
<1>7. Places(box, hand)' /\ Once(box, hand)' /\ Exact(heap, Messages, leaked)'
  <2>1. Places(box', hand') /\ Once(box', hand') /\ Exact(heap', Messages', leaked')
    BY <1>1, <1>4, <1>5, <1>6
  <2>. QED  BY <2>1
<1>8. OffersCounted'
  <2>1. /\ IsFiniteSet(Messages') /\ Cardinality(Messages') = Cardinality(Messages) + 1
        /\ Cardinality(Busy') = Cardinality(Busy) + 1
    BY <1>2, <1>4, <1>6, FS_AddElement DEF HeapInv, OffersCounted
  <2>2. /\ Cardinality(Messages) + Cardinality(leaked) <= Cardinality(offered) + Cardinality(Busy)
        /\ offered \subseteq Offer /\ IsFiniteSet(leaked) /\ IsFiniteSet(offered)
        /\ Cardinality(offered) <= MaxOffers
    BY DEF HeapInv, OffersCounted
  <2>. QED  BY <1>1, <2>1, <2>2, Numbers DEF OffersCounted
<1>. QED  BY <1>1, <1>4, <1>7, <1>8 DEF HeapInv, d, bx

(* The message in the hand of a task is freed. *)
LEMMA ReleaseStep ==
  ASSUME HeapInv, NEW t \in Task, Release(t)
  PROVE  /\ HeapInv' /\ box' = box /\ offered' = offered /\ fatal' = fatal
         /\ \A u \in Task : \A i \in 1..Len(box[u]) :
              /\ Header(heap', box[u][i]) = Header(heap, box[u][i])
              /\ Data(heap', box[u][i]) = Data(heap, box[u][i])
<1>1. /\ hand[t] # NULL /\ heap' = ak_msg_free(heap, hand[t]) /\ hand' = InHand(hand, t, NULL)
      /\ box' = box /\ offered' = offered /\ leaked' = leaked /\ fatal' = fatal
  BY DEF Release, InHand
<1>2. Places(box, hand) /\ Once(box, hand) /\ Exact(heap, Messages, leaked)
  BY DEF HeapInv
<1>3. /\ Places(box, hand') /\ Once(box, hand')
      /\ Held(box, hand') = Messages \ {hand[t]} /\ hand[t] \in Messages
  <2>1. /\ Places(box, hand') /\ Once(box, hand')
        /\ Held(box, hand') = Held(box, hand) \ {hand[t]} /\ hand[t] \in Held(box, hand)
    BY ONLY <1>1, <1>2, t \in Task, DropPlaces
  <2>. QED  BY <2>1 DEF Messages
<1>4. Messages' = Messages \ {hand[t]} /\ Busy' = Busy \ {t} /\ t \in Busy
  <2>1. Messages' = Held(box', hand')
    BY DEF Messages
  <2>2. \A u \in Task : hand'[u] = IF u = t THEN NULL ELSE hand[u]
    BY <1>1, <1>2 DEF InHand, Places
  <2>. QED  BY <1>1, <1>3, <2>1, <2>2 DEF Busy
<1>5. /\ Exact(heap', Messages \ {hand[t]}, leaked)
      /\ \A n \in Messages \ {hand[t]} : /\ Header(heap', n) = Header(heap, n)
                                         /\ Data(heap', n) = Data(heap, n)
  BY ONLY <1>1, <1>2, <1>3, FreeExact
<1>6. Places(box, hand)' /\ Once(box, hand)' /\ Exact(heap, Messages, leaked)'
  <2>1. Places(box', hand') /\ Once(box', hand') /\ Exact(heap', Messages', leaked')
    BY <1>1, <1>3, <1>4, <1>5
  <2>. QED  BY <2>1
<1>7. OffersCounted'
  <2>1. /\ IsFiniteSet(Messages') /\ Cardinality(Messages') = Cardinality(Messages) - 1
        /\ Cardinality(Busy') = Cardinality(Busy) - 1
    BY <1>3, <1>4, Numbers, FS_RemoveElement DEF HeapInv, OffersCounted
  <2>2. /\ Cardinality(Messages) + Cardinality(leaked) <= Cardinality(offered) + Cardinality(Busy)
        /\ offered \subseteq Offer /\ IsFiniteSet(leaked) /\ IsFiniteSet(offered)
        /\ Cardinality(offered) <= MaxOffers
    BY DEF HeapInv, OffersCounted
  <2>. QED  BY <1>1, <2>1, <2>2, Numbers DEF OffersCounted
<1>8. \A u \in Task : \A i \in 1..Len(box[u]) : box[u][i] \in Messages \ {hand[t]}
  BY <1>1, <1>2 DEF Once, Messages, Held, Places
<1>. QED  BY <1>1, <1>5, <1>6, <1>7, <1>8 DEF HeapInv

(* The debug task forgets the copy it made. *)
LEMMA DebugStep ==
  ASSUME HeapInv, Taking("DEBUG"), Take("DEBUG"), NEW bytes,
         NEW b, b = malloc({c \in Block : heap[c] = Free}),
         heap' = [heap EXCEPT ![b] = [kind |-> "data", bytes |-> bytes]],
         leaked' = leaked \cup {b}
  PROVE  /\ HeapInv' /\ Messages' = Messages /\ offered' = offered /\ fatal' = fatal
         /\ box' = Rest(box, "DEBUG")
         /\ \A n \in Messages : Header(heap', n) = Header(heap, n) /\ Data(heap', n) = Data(heap, n)
<1> DEFINE cell == [kind |-> "data", bytes |-> bytes]
<1>0. "DEBUG" \in Task
  BY DEF Task, AppTask
<1>1. /\ box' = Rest(box, "DEBUG") /\ hand' = InHand(hand, "DEBUG", m("DEBUG"))
      /\ offered' = offered /\ fatal' = fatal
      /\ heap' = [heap EXCEPT ![b] = cell] /\ leaked' = leaked \cup {b}
  BY DEF Take, Rest, InHand
<1>2. /\ Places(box', hand') /\ Once(box', hand') /\ Held(box', hand') = Messages
      /\ IsFiniteSet(Busy) /\ "DEBUG" \notin Busy /\ hand["DEBUG"] = NULL
      /\ {u \in Task : hand'[u] # NULL} = Busy \cup {"DEBUG"}
  BY <1>0, <1>1, TakenPlaces
<1>3. Room(heap)
  BY <1>0, <1>2, RoomForTask
<1>4. b \in Block /\ heap[b] = Free
  BY <1>3 DEF Room, malloc
<1>5. cell # Free
  BY DEF Free
<1> HIDE DEF cell
<1>6. /\ Exact(heap', Messages, leaked') /\ b \notin leaked
      /\ \A n \in Messages : Header(heap', n) = Header(heap, n) /\ Data(heap', n) = Data(heap, n)
  <2>1. Exact(heap, Messages, leaked)
    BY DEF HeapInv
  <2>2. heap' = Filled(heap, b, cell) /\ leaked' = leaked \cup {b}
    BY <1>1 DEF Filled
  <2>3. /\ Exact(Filled(heap, b, cell), Messages, leaked \cup {b}) /\ b \notin leaked
        /\ \A n \in Messages : /\ Header(Filled(heap, b, cell), n) = Header(heap, n)
                               /\ Data(Filled(heap, b, cell), n) = Data(heap, n)
    BY ONLY <1>4, <1>5, <2>1, LeakExact
  <2>. QED  BY <2>2, <2>3
<1>7. Messages' = Messages /\ Busy' = Busy \cup {"DEBUG"}
  BY <1>2 DEF Messages, Busy
<1>8. Places(box, hand)' /\ Once(box, hand)' /\ Exact(heap, Messages, leaked)'
  <2>1. Places(box', hand') /\ Once(box', hand') /\ Exact(heap', Messages', leaked')
    BY <1>2, <1>6, <1>7
  <2>. QED  BY <2>1
<1>9. OffersCounted'
  <2>0. IsFiniteSet(leaked) /\ leaked' = leaked \cup {b} /\ b \notin leaked
    BY <1>1, <1>6 DEF HeapInv, OffersCounted
  <2>1. /\ IsFiniteSet(leaked') /\ Cardinality(leaked') = Cardinality(leaked) + 1
        /\ Cardinality(Busy') = Cardinality(Busy) + 1
    BY ONLY <1>2, <1>7, <2>0, FS_AddElement
  <2>2. /\ Cardinality(Messages) + Cardinality(leaked) <= Cardinality(offered) + Cardinality(Busy)
        /\ offered \subseteq Offer /\ IsFiniteSet(Messages) /\ IsFiniteSet(offered)
        /\ Cardinality(offered) <= MaxOffers
    BY DEF HeapInv, OffersCounted
  <2>. QED  BY <1>1, <1>7, <2>1, <2>2, Numbers DEF OffersCounted
<1>. QED  BY <1>1, <1>6, <1>7, <1>8, <1>9 DEF HeapInv
-----------------------------------------------------------------------------
(* What the messages in the mailboxes of the hops and of the application tasks
   say, unless a peer has sent one that is wrong: the signal is one of the task
   that takes it, of the type that the message has, and what comes in is
   addressed to a task whose handler stands it.                            *)
Foreign == \E o \in offered : o.at \in Peer /\ Wrong(o)
Asked == update \/ \E o \in offered : o.at \in Peer /\ Unasked(o)

Fields == {"type", "sig", "des_task_id", "if_des_task_id", "if_sig", "len", "data"}

(* A message of this signal, type and length suits the handler of task t. *)
Suits(t, sig, type, len, asked) ==
  /\ t \in AppTask \cup Unread
  /\ t = "DEBUG" /\ sig = GW_DEBUG_MSG_1 => type = "DYNAMIC"
  /\ t = "FW" /\ sig = GW_FW.CURRENT_INFO_RES => type = "COMMON" /\ ~(len < FirmwareHeaderSize)
  /\ t = "FW" /\ sig \in {GW_FW.SM_UPDATE_RES_OK, GW_FW.INTERNAL_UPDATE_REQ} => asked

Asks(t, sig) == t = "FW" /\ sig = GW_FW.OTA_REQ

Comes(d, asked) == /\ Suits(d.if_des_task_id, d.if_sig, d.type, d.len, asked)
                   /\ ~Asks(d.if_des_task_id, d.if_sig)

Sorted(signals, d, asked) ==
  /\ d.type \in Type
  /\ d.sig = signals[d.type].OUT \/ (d.sig = signals[d.type].IN /\ Comes(d, asked))

Fits(t, d, bytes, offers, asked) ==
  /\ Fields \subseteq DOMAIN d
  /\ t = "IF" => Sorted(GW_IF, d, asked)
  /\ t = "CPU_SERIAL" => Sorted(GW_CPU_SERIAL_IF, d, asked)
  /\ t = "LINK" => \/ d.sig = GW_LINK_REV_MSG /\ bytes.of \in offers /\ bytes.of.at \in Peer
                   \/ d.type \in Type /\ d.sig = GW_LINK_SEND[d.type]
  /\ t \in AppTask => Suits(t, d.sig, d.type, d.len, asked)
  /\ Asks(t, d.sig) =>
       d.type = "DYNAMIC" /\ ~(d.len < UpdateReqSize) /\ bytes.of \in UpdateType

AllFit(bx, mem, offers, asked) ==
  \A t \in Task : \A i \in 1..Len(bx[t]) :
    Fits(t, Header(mem, bx[t][i]), Data(mem, bx[t][i]), offers, asked)

Excused == fatal \in {"none", "LINK_PDU 01"} \/ (Asked /\ ~update)
KnownInv == ~Foreign => Excused /\ AllFit(box, heap, offered, Asked)

GatewayInv == HeapInv /\ KnownInv

(* A draft that may be posted to task t. *)
Postable(t, d, offers, asked) ==
  /\ Fits(t, d, d.data, offers, asked)
  /\ t = "LINK" /\ d.sig = GW_LINK_REV_MSG => d.type # "PURE"

(* What a copy keeps, and what it may say instead. *)
Alike(e, d) == /\ Fields \subseteq DOMAIN e
               /\ e.type = d.type /\ e.len = d.len
               /\ e.if_sig = d.if_sig /\ e.if_des_task_id = d.if_des_task_id

LEMMA PostedFits ==
  ASSUME NEW t, NEW d, NEW offers, NEW asked, Postable(t, d, offers, asked),
         NEW e, e = Set(d, [des_task_id |-> t]),
         NEW hdr, hdr = [e EXCEPT !.data = NoData],
         NEW bytes, e.type # "PURE" => bytes = e.data
  PROVE  Fits(t, hdr, bytes, offers, asked)
<1>1. Fields \subseteq DOMAIN d
  BY DEF Postable, Fits
<1>2. DOMAIN e = DOMAIN d /\ e.sig = d.sig /\ e.data = d.data /\ Alike(e, d)
  BY <1>1 DEF Set, Fields, Alike
<1>3. DOMAIN hdr = DOMAIN e /\ hdr.sig = e.sig /\ Alike(hdr, e)
  BY <1>1, <1>2 DEF Fields, Alike
<1>4. /\ hdr.sig = d.sig /\ hdr.type = d.type /\ hdr.len = d.len
      /\ hdr.if_sig = d.if_sig /\ hdr.if_des_task_id = d.if_des_task_id
      /\ Fields \subseteq DOMAIN hdr
  BY <1>1, <1>2, <1>3 DEF Alike
<1>5. bytes = d.data \/ d.type = "PURE"
  BY <1>2 DEF Alike
<1> HIDE DEF Fields
<1>6. /\ t = "IF" => Sorted(GW_IF, hdr, asked)
      /\ t = "CPU_SERIAL" => Sorted(GW_CPU_SERIAL_IF, hdr, asked)
  BY <1>4 DEF Postable, Fits, Sorted, Comes
<1>7. /\ t \in AppTask => Suits(t, hdr.sig, hdr.type, hdr.len, asked)
      /\ Asks(t, hdr.sig) =>
           hdr.type = "DYNAMIC" /\ ~(hdr.len < UpdateReqSize) /\ bytes.of \in UpdateType
  BY <1>4, <1>5 DEF Postable, Fits
<1>8. t = "LINK" => \/ hdr.sig = GW_LINK_REV_MSG /\ bytes.of \in offers /\ bytes.of.at \in Peer
                    \/ hdr.type \in Type /\ hdr.sig = GW_LINK_SEND[hdr.type]
  BY <1>4, <1>5 DEF Postable, Fits
<1>. QED  BY <1>4, <1>6, <1>7, <1>8 DEF Fits

LEMMA FitsGrows ==
  ASSUME NEW t, NEW d, NEW bytes, NEW offers, NEW asked, Fits(t, d, bytes, offers, asked),
         NEW more, offers \subseteq more, NEW later, asked => later
  PROVE  Fits(t, d, bytes, more, later)
<1>1. ASSUME NEW u, NEW sig, NEW type, NEW len, Suits(u, sig, type, len, asked)
      PROVE  Suits(u, sig, type, len, later)
  BY <1>1 DEF Suits
<1>2. Comes(d, asked) => Comes(d, later)
  BY <1>1 DEF Comes
<1>3. /\ t = "IF" => Sorted(GW_IF, d, later)
      /\ t = "CPU_SERIAL" => Sorted(GW_CPU_SERIAL_IF, d, later)
  BY <1>2 DEF Fits, Sorted
<1>. QED  BY <1>1, <1>3 DEF Fits

(* A hop's signals tell direction and type. *)
LEMMA SignalsApart ==
  ASSUME NEW type \in Type, NEW other \in Type
  PROVE  /\ GW_IF[type].IN # GW_IF[other].OUT
         /\ GW_CPU_SERIAL_IF[type].IN # GW_CPU_SERIAL_IF[other].OUT
         /\ GW_LINK_SEND[type] # GW_LINK_REV_MSG
         /\ GW_IF[type].IN = GW_IF[other].IN => type = other
         /\ GW_IF[type].OUT = GW_IF[other].OUT => type = other
         /\ GW_CPU_SERIAL_IF[type].IN = GW_CPU_SERIAL_IF[other].IN => type = other
         /\ GW_CPU_SERIAL_IF[type].OUT = GW_CPU_SERIAL_IF[other].OUT => type = other
         /\ GW_LINK_SEND[type] = GW_LINK_SEND[other] => type = other
         /\ GW_IF[type].OUT = GW_CPU_SERIAL_IF[type].OUT
  BY DEF Type, GW_IF, GW_CPU_SERIAL_IF, GW_LINK_SEND, GW_LINK_REV_MSG

LEMMA Forwards ==
  ASSUME NEW ifType
  PROVE  Forwarded(ifType) \subseteq Type /\ InterfaceTask(ifType) \in Hop
<1>1. Forwarded(ifType) \subseteq Type
  BY DEF Forwarded, Type
<1>2. InterfaceTask(ifType) \in Hop
  BY DEF InterfaceTask, Hop
<1>. QED  BY <1>1, <1>2

(* What a copy and a message from outside keep of what they are made of. *)
LEMMA SetAlike ==
  ASSUME NEW d, Fields \subseteq DOMAIN d
  PROVE  /\ \A x : Set(d, [sig |-> x]).sig = x /\ Alike(Set(d, [sig |-> x]), d)
         /\ \A x, y : /\ Set(d, [sig |-> x, src_task_id |-> y]).sig = x
                      /\ Alike(Set(d, [sig |-> x, src_task_id |-> y]), d)
         /\ \A x : Set(d, [sig |-> x]).data = d.data
         /\ \A x, y : Set(d, [sig |-> x, src_task_id |-> y]).data = d.data
<1>1. ASSUME NEW x, NEW e, e = Set(d, [sig |-> x])
      PROVE  e.sig = x /\ Alike(e, d) /\ e.data = d.data
  BY <1>1 DEF Set, Fields, Alike
<1>2. ASSUME NEW x, NEW y, NEW e, e = Set(d, [sig |-> x, src_task_id |-> y])
      PROVE  e.sig = x /\ Alike(e, d) /\ e.data = d.data
  BY <1>2 DEF Set, Fields, Alike
<1>. QED  BY <1>1, <1>2

LEMMA CopyOf ==
  ASSUME NEW mem, NEW src, Fields \subseteq DOMAIN Header(mem, src)
  PROVE  /\ ak_memcpy_msg(mem, src).sig = Header(mem, src).sig
         /\ Alike(ak_memcpy_msg(mem, src), Header(mem, src))
<1> DEFINE d == ak_memcpy_msg(mem, src)
           h0 == Header(mem, src)
           cut == Cut(Data(mem, src), Header(mem, src).len)
<1>1. d = Set(h0, [len |-> h0.len, data |-> cut])
  BY DEF ak_memcpy_msg, set_data_msg
<1>2. Fields \subseteq DOMAIN h0
  OBVIOUS
<1> HIDE DEF cut, d, h0
<1>3. d.sig = h0.sig /\ Alike(d, h0)
  BY <1>1, <1>2 DEF Set, Fields, Alike
<1>. QED  BY <1>3 DEF d, h0

LEMMA FilledFrom ==
  ASSUME NEW o
  PROVE  /\ Fields \subseteq DOMAIN Fill(o) /\ Fill(o).type = o.type
         /\ o.type # "PURE" => Fill(o).len = o.data.len /\ Fill(o).data = Cut(Received(o), o.data.len)
<1> DEFINE g == get_msg(o.type)
           cut == Cut(Received(o), o.data.len)
           n == o.data.len
<1>1. Fields \subseteq DOMAIN g /\ g.type = o.type
  BY DEF get_msg, Fields
<1>2. Fill(o) = IF o.type = "PURE" THEN g ELSE Set(g, [len |-> n, data |-> cut])
  BY DEF Fill, set_data_msg
<1> HIDE DEF g, cut, n
<1>3. /\ Fields \subseteq DOMAIN Fill(o) /\ Fill(o).type = o.type
      /\ o.type # "PURE" => Fill(o).len = n /\ Fill(o).data = cut
  BY <1>1, <1>2 DEF Set, Fields
<1>. QED  BY <1>3 DEF n, cut

LEMMA BuiltFrom ==
  ASSUME NEW o
  PROVE  /\ Fields \subseteq DOMAIN Build(o) /\ Build(o).type = o.type
         /\ Build(o).if_des_task_id = o.des /\ Build(o).if_sig = o.sig
         /\ o.type # "PURE" => Build(o).len = o.data.len
<1> DEFINE f == Fill(o)
           src == o.src
           des == o.des
           sig == o.sig
           from == o.if_src_type
           to == o.if_des_type
<1>1. Fields \subseteq DOMAIN f /\ f.type = o.type /\ (o.type # "PURE" => f.len = o.data.len)
  BY FilledFrom
<1>2. Build(o) = Set(f, [if_src_task_id |-> src, if_des_task_id |-> des, if_sig |-> sig,
                         if_src_type |-> from, if_des_type |-> to])
  BY DEF Build
<1> HIDE DEF f, src, des, sig, from, to
<1>3. /\ Fields \subseteq DOMAIN Build(o) /\ Build(o).type = f.type
      /\ Build(o).if_des_task_id = des /\ Build(o).if_sig = sig /\ Build(o).len = f.len
  BY <1>1, <1>2 DEF Set, Fields
<1>. QED  BY <1>1, <1>3 DEF des, sig

(* The messages that were in the mailboxes say what they said. *)
LEMMA KeptFit ==
  ASSUME NEW bx, NEW hd, Places(bx, hd), NEW mem, NEW offers, NEW asked,
         AllFit(bx, mem, offers, asked),
         NEW new, \A n \in Held(bx, hd) : Header(new, n) = Header(mem, n) /\ Data(new, n) = Data(mem, n),
         NEW more, offers \subseteq more, NEW later, asked => later
  PROVE  AllFit(bx, new, more, later)
<1> SUFFICES ASSUME NEW t \in Task, NEW i \in 1..Len(bx[t])
             PROVE  Fits(t, Header(new, bx[t][i]), Data(new, bx[t][i]), more, later)
  BY DEF AllFit
<1>1. bx[t][i] \in Held(bx, hd)
  BY DEF Places, Held
<1>2. Fits(t, Header(mem, bx[t][i]), Data(mem, bx[t][i]), offers, asked)
  BY DEF AllFit
<1>3. Header(new, bx[t][i]) = Header(mem, bx[t][i]) /\ Data(new, bx[t][i]) = Data(mem, bx[t][i])
  BY <1>1
<1>. QED  BY <1>2, <1>3, FitsGrows

LEMMA RestFits ==
  ASSUME NEW bx, NEW hd, Places(bx, hd), NEW mem, NEW offers, NEW asked,
         AllFit(bx, mem, offers, asked), NEW t \in Task, bx[t] # <<>>
  PROVE  AllFit(Rest(bx, t), mem, offers, asked)
<1>1. /\ Rest(bx, t)[t] = Tail(bx[t]) /\ bx[t] \in Seq(Block)
      /\ \A u \in Task \ {t} : Rest(bx, t)[u] = bx[u]
  BY DEF Rest, Places
<1>2. \A i \in 1..Len(Tail(bx[t])) : Tail(bx[t])[i] = bx[t][i + 1] /\ i + 1 \in 1..Len(bx[t])
  BY <1>1
<1>. QED  BY <1>1, <1>2 DEF AllFit

LEMMA PutFits ==
  ASSUME NEW bx, NEW hd, Places(bx, hd), NEW mem, NEW offers, NEW asked,
         AllFit(bx, mem, offers, asked),
         NEW t \in Task, NEW b \in Block, Fits(t, Header(mem, b), Data(mem, b), offers, asked)
  PROVE  AllFit(Put(bx, t, b), mem, offers, asked)
<1>1. /\ Put(bx, t, b)[t] = Append(bx[t], b) /\ bx[t] \in Seq(Block)
      /\ \A u \in Task \ {t} : Put(bx, t, b)[u] = bx[u]
  BY DEF Put, Places
<1>2. /\ \A i \in 1..Len(Append(bx[t], b)) : i \in 1..Len(bx[t]) \/ i = Len(bx[t]) + 1
      /\ \A i \in 1..Len(bx[t]) : Append(bx[t], b)[i] = bx[t][i]
      /\ Append(bx[t], b)[Len(bx[t]) + 1] = b
  BY <1>1
<1>3. ASSUME NEW u \in Task, NEW i \in 1..Len(Put(bx, t, b)[u])
      PROVE  Fits(u, Header(mem, Put(bx, t, b)[u][i]), Data(mem, Put(bx, t, b)[u][i]), offers, asked)
  <2>1. CASE u # t
    BY <1>1, <2>1 DEF AllFit
  <2>2. CASE u = t /\ i \in 1..Len(bx[t])
    BY <1>1, <1>2, <2>2 DEF AllFit
  <2>3. CASE u = t /\ i = Len(bx[t]) + 1
    BY <1>1, <1>2, <2>3
  <2>. QED  BY <1>1, <1>2, <2>1, <2>2, <2>3
<1>. QED  BY <1>3 DEF AllFit

-----------------------------------------------------------------------------
LEMMA GatewayInit == Init => GatewayInv
<1> SUFFICES ASSUME Init PROVE GatewayInv
  OBVIOUS
<1>1. Messages = {} /\ Busy = {} /\ leaked = {} /\ offered = {}
  BY NullIsNoBlock DEF Init, Messages, Held, Busy
<1>2. Places(box, hand) /\ Once(box, hand)
  BY DEF Init, Places, Once
<1>3. Exact(heap, Messages, leaked)
  BY <1>1 DEF Init, Exact
<1>4. OffersCounted
  BY <1>1, FS_EmptySet, MaxOffersIsNat DEF OffersCounted
<1>5. Excused /\ AllFit(box, heap, offered, Asked)
  BY DEF Init, AllFit, Excused
<1>. QED  BY <1>2, <1>3, <1>4, <1>5 DEF GatewayInv, HeapInv, KnownInv

(* What is offered stays offered, and an update that is known stays known. *)
LEMMA ForeignStays ==
  ASSUME offered \subseteq offered'
  PROVE  /\ Foreign => Foreign'
         /\ (update => update') => (Asked => Asked')
<1>1. Foreign => Foreign'
  BY DEF Foreign
<1>2. (update => update') => (Asked => Asked')
  BY DEF Asked
<1>. QED  BY <1>1, <1>2

(* The process ends, or a message does not enter. *)
LEMMA StopKnown ==
  ASSUME GatewayInv, UNCHANGED <<heap, box, hand, leaked, update>>,
         offered' = offered \/ \E o \in Offer \ offered : offered' = offered \cup {o}
                                                        /\ Cardinality(offered) < MaxOffers,
         ~Foreign' => Excused'
  PROVE  GatewayInv'
<1>1. HeapInv'
  BY IdleStep DEF GatewayInv
<1>2. offered \subseteq offered' /\ (update => update')
  OBVIOUS
<1>3. (Foreign => Foreign') /\ (Asked => Asked')
  BY <1>2, ForeignStays
<1>4. ASSUME ~Foreign' PROVE AllFit(box', heap', offered', Asked')
  <2>1. AllFit(box, heap, offered, Asked) /\ Places(box, hand)
    BY <1>3, <1>4 DEF GatewayInv, KnownInv, HeapInv
  <2>2. AllFit(box, heap, offered', Asked')
    BY <1>2, <1>3, <2>1, KeptFit
  <2>. QED  BY <2>2
<1>. QED  BY <1>1, <1>4 DEF GatewayInv, KnownInv

LEMMA EnterKnown ==
  ASSUME GatewayInv, NEW o \in Offer, NEW draft, NEW dst \in Task, Enter(o, draft, dst),
         ~Foreign' => Postable(dst, draft, offered', Asked')
  PROVE  GatewayInv'
<1> DEFINE d == Set(draft, [des_task_id |-> dst])
           new == Stored(heap, d)
<1>1. /\ HeapInv' /\ new.msg \in Block \ Messages
      /\ heap' = new.mem /\ box' = Put(box, dst, new.msg)
      /\ \A n \in Messages : Header(new.mem, n) = Header(heap, n) /\ Data(new.mem, n) = Data(heap, n)
      /\ Header(new.mem, new.msg) = [d EXCEPT !.data = NoData]
      /\ Data(new.mem, new.msg) = IF d.type = "PURE" THEN NoData ELSE d.data
  BY EnterStep DEF GatewayInv, Put
<1>2. offered' = offered \cup {o} /\ fatal = "none" /\ fatal' = fatal /\ update' = update
  BY DEF Enter
<1>3. (Foreign => Foreign') /\ (Asked => Asked')
  BY <1>2, ForeignStays
<1>4. ASSUME ~Foreign' PROVE AllFit(box', heap', offered', Asked')
  <2>1. AllFit(box, heap, offered, Asked)
    BY <1>3, <1>4 DEF GatewayInv, KnownInv
  <2>2. Places(box, hand) /\ Messages = Held(box, hand)
    BY DEF GatewayInv, HeapInv, Messages
  <2> HIDE DEF new
  <2>3. AllFit(box, heap', offered', Asked')
    BY <1>1, <1>2, <1>3, <2>1, <2>2, KeptFit
  <2>4. Fits(dst, Header(heap', new.msg), Data(heap', new.msg), offered', Asked')
    <3>1. Postable(dst, draft, offered', Asked')
      BY <1>4
    <3>2. d.type # "PURE" => Data(heap', new.msg) = d.data
      BY <1>1
    <3>3. Header(heap', new.msg) = [d EXCEPT !.data = NoData]
      BY <1>1
    <3>4. d = Set(draft, [des_task_id |-> dst])
      OBVIOUS
    <3> HIDE DEF d
    <3>. QED  BY ONLY <3>1, <3>2, <3>3, <3>4, PostedFits
  <2>5. AllFit(Put(box, dst, new.msg), heap', offered', Asked')
    BY <1>1, <2>2, <2>3, <2>4, PutFits
  <2>. QED  BY <1>1, <2>5
<1>. QED  BY <1>1, <1>2, <1>4 DEF GatewayInv, KnownInv, Excused

LEMMA ForwardKnown ==
  ASSUME GatewayInv, NEW t \in Task, Taking(t), NEW draft, NEW dst,
         Forward(t, draft, dst), offered' = offered,
         ~Foreign => (update => update'),
         dst \notin Task => update' = update,
         ~Foreign => dst \in Task /\ Postable(dst, draft, offered, Asked')
  PROVE  GatewayInv'
<1> DEFINE d == Set(draft, [des_task_id |-> dst])
           new == Stored(heap, d)
<1>0. Foreign' = Foreign
  BY DEF Foreign
<1>1. CASE dst \notin Task
  <2>1. Foreign' /\ UNCHANGED <<heap, box, hand, leaked, update>>
    BY <1>0, <1>1 DEF Forward, Stop
  <2>. QED  BY <2>1, StopKnown
<1>2. CASE dst \in Task
  <2>1. /\ HeapInv' /\ new.msg \in Block \ Messages
        /\ heap' = new.mem /\ box' = Put(Rest(box, t), dst, new.msg)
        /\ \A n \in Messages : Header(new.mem, n) = Header(heap, n) /\ Data(new.mem, n) = Data(heap, n)
        /\ Header(new.mem, new.msg) = [d EXCEPT !.data = NoData]
        /\ Data(new.mem, new.msg) = IF d.type = "PURE" THEN NoData ELSE d.data
    BY <1>2, ForwardStep DEF GatewayInv
  <2>2. fatal = "none" /\ fatal' = fatal
    BY <1>2 DEF Forward, Taking
  <2>3. ASSUME ~Foreign' PROVE AllFit(box', heap', offered', Asked')
    <3>1. AllFit(box, heap, offered, Asked) /\ Postable(dst, draft, offered, Asked')
      BY <1>0, <2>3 DEF GatewayInv, KnownInv
    <3>2. Places(box, hand) /\ Messages = Held(box, hand) /\ box[t] # <<>>
      BY DEF GatewayInv, HeapInv, Messages, Taking
    <3>3. Asked => Asked'
      BY <1>0, <2>3, ForeignStays
    <3> HIDE DEF new
    <3>4. AllFit(box, heap', offered', Asked')
      BY <2>1, <3>1, <3>2, <3>3, KeptFit
    <3>5. AllFit(Rest(box, t), heap', offered', Asked')
      BY <3>2, <3>4, RestFits
    <3>6. \E hd : Places(Rest(box, t), hd)
      BY TakenPlaces DEF GatewayInv
    <3>7. Fits(dst, Header(heap', new.msg), Data(heap', new.msg), offered', Asked')
      <4>1. Postable(dst, draft, offered', Asked')
        BY <3>1
      <4>2. d.type # "PURE" => Data(heap', new.msg) = d.data
        BY <2>1
      <4>3. Header(heap', new.msg) = [d EXCEPT !.data = NoData]
        BY <2>1
      <4>4. d = Set(draft, [des_task_id |-> dst])
        OBVIOUS
      <4> HIDE DEF d
      <4>. QED  BY ONLY <4>1, <4>2, <4>3, <4>4, PostedFits
    <3>8. AllFit(Put(Rest(box, t), dst, new.msg), heap', offered', Asked')
      BY <1>2, <2>1, <3>5, <3>6, <3>7, PutFits
    <3>. QED  BY <2>1, <3>8
  <2>. QED  BY <2>1, <2>2, <2>3 DEF GatewayInv, KnownInv, Excused
<1>. QED  BY <1>1, <1>2

LEMMA TakeKnown ==
  ASSUME GatewayInv, NEW t \in Task, Taking(t), Take(t), UNCHANGED <<heap, leaked>>,
         ~Foreign => (update => update')
  PROVE  GatewayInv'
<1>1. /\ HeapInv' /\ box' = Rest(box, t) /\ heap' = heap /\ offered' = offered
      /\ fatal = "none" /\ fatal' = fatal
  BY TakeStep DEF GatewayInv, Take, Taking
<1>2. Foreign' = Foreign
  BY <1>1 DEF Foreign
<1>3. Places(box, hand) /\ box[t] # <<>>
  BY DEF GatewayInv, HeapInv, Taking
<1>4. ASSUME ~Foreign PROVE AllFit(box', heap', offered', Asked')
  <2>1. Asked => Asked'
    BY <1>1, <1>4, ForeignStays
  <2>2. AllFit(box, heap, offered, Asked)
    BY <1>4 DEF GatewayInv, KnownInv
  <2>3. AllFit(box, heap', offered', Asked')
    BY <1>1, <1>3, <2>1, <2>2, KeptFit
  <2>. QED  BY <1>1, <1>3, <2>3, RestFits
<1>. QED  BY <1>1, <1>2, <1>4 DEF GatewayInv, KnownInv, Excused

LEMMA FirstFits ==
  ASSUME GatewayInv, NEW t \in Task, Taking(t), ~Foreign
  PROVE  Fits(t, h(t), Data(heap, m(t)), offered, Asked)
<1>1. AllFit(box, heap, offered, Asked)
  BY DEF GatewayInv, KnownInv
<1>2. m(t) = box[t][1] /\ 1 \in 1..Len(box[t])
  BY TakenPlaces DEF GatewayInv
<1>. QED  BY <1>1, <1>2 DEF AllFit, h

LEMMA Hops ==
  /\ "IF" \in Task /\ "IF_APP" \in Task /\ "CPU_SERIAL" \in Task /\ "USB" \in Task
  /\ "LINK" \in Task /\ "FW" \in Task /\ "SYS" \in Task /\ "DEBUG" \in Task /\ "SENSOR" \in Task
  /\ Hop \subseteq Task /\ AppTask \subseteq Task /\ Unread \subseteq Task
  /\ "FW" \in AppTask /\ "SYS" \in AppTask /\ "DEBUG" \in AppTask /\ "SENSOR" \in AppTask
  /\ \A t \in AppTask \cup Unread : t # "IF" /\ t # "CPU_SERIAL" /\ t # "LINK"
  BY DEF Task, Hop, AppTask, Unread

(* What a peer sends that is not wrong suits the task it is addressed to. *)
LEMMA PeersSuit ==
  ASSUME NEW o \in Offer, o.at \in Peer, ~Wrong(o), NEW asked, Unasked(o) => asked,
         NEW d, Fields \subseteq DOMAIN d, d.type = o.type, d.if_des_task_id = o.des,
         d.if_sig = o.sig, o.type # "PURE" => d.len = o.data.len
  PROVE  Comes(d, asked) /\ d.type \in Type
<1>1. o.type \in Type /\ o.des \in AppTask \cup Unread
  BY OffersAreKnown DEF Wrong
<1>2. Suits(o.des, o.sig, o.type, d.len, asked) /\ ~Asks(o.des, o.sig)
  BY <1>1 DEF Suits, Asks, Wrong, Unasked
<1>. QED  BY <1>1, <1>2 DEF Comes

LEMMA CutOf ==
  ASSUME NEW bytes, bytes = [of |-> bytes.of, len |-> bytes.len], NEW len, bytes.of \in UpdateType
  PROVE  Cut(bytes, len).of \in UpdateType
  BY DEF Cut

(* A message enters. *)
LEMMA PeerKeeps ==
  ASSUME GatewayInv, NEW o \in Offer, PeerMessage(o)
  PROVE  GatewayInv'
<1>1. o.at \in Peer
  BY DEF PeerMessage, Peer
<1>2. ASSUME Refuse(o), UNCHANGED <<heap, box, hand, leaked>>, fatal' = "none" \/ Wrong(o)
      PROVE  GatewayInv'
  <2>1. /\ o \in Offer \ offered /\ offered' = offered \cup {o}
        /\ Cardinality(offered) < MaxOffers /\ update' = update
    BY <1>2 DEF Refuse
  <2>2. ~Foreign' => Excused'
    BY <1>1, <1>2, <2>1 DEF Foreign, Excused
  <2>. QED  BY <1>2, <2>1, <2>2, StopKnown
<1>3. CASE Refuse(o) /\ UNCHANGED <<heap, box, hand, leaked, fatal, carried>>
  BY <1>2, <1>3 DEF Refuse
<1>4. CASE (TooLong(o) \/ (o.at = "usb" /\ o.type = "DYNAMIC")) /\ Refuse(o) /\ \E code : Stop(code)
  BY <1>2, <1>4 DEF Stop, Wrong
<1> DEFINE e == Set(Build(o), [sig |-> GW_IF[o.type].IN, src_task_id |-> "IF_APP"])
<1>5. CASE Enter(o, e, "IF")
  <2>1. Fields \subseteq DOMAIN Build(o)
    BY BuiltFrom
  <2>2. e.sig = GW_IF[o.type].IN /\ Alike(e, Build(o))
    BY <2>1, SetAlike
  <2> HIDE DEF e
  <2>3. /\ Fields \subseteq DOMAIN e /\ e.type = o.type /\ e.if_des_task_id = o.des
        /\ e.if_sig = o.sig /\ (o.type # "PURE" => e.len = o.data.len)
    BY <2>2, BuiltFrom DEF Alike
  <2>4. ASSUME ~Foreign' PROVE Postable("IF", e, offered', Asked')
    <3>1. offered' = offered \cup {o}
      BY <1>5 DEF Enter
    <3>2. ~Wrong(o) /\ (Unasked(o) => Asked')
      BY <1>1, <2>4, <3>1 DEF Foreign, Asked
    <3>3. Comes(e, Asked') /\ e.type \in Type
      BY <1>1, <2>3, <3>2, PeersSuit
    <3>4. Sorted(GW_IF, e, Asked')
      BY <2>2, <2>3, <3>3 DEF Sorted
    <3>. QED  BY <2>3, <3>4, Hops DEF Postable, Fits, Asks
  <2>. QED  BY <1>5, <2>4, Hops, EnterKnown
<1>. QED  BY <1>3, <1>4, <1>5 DEF PeerMessage

LEMMA OffersKeep ==
  ASSUME GatewayInv, NEW o \in Offer, PeerMessage(o) \/ LinkMessage(o) \/ TaskMessage(o)
  PROVE  GatewayInv'
<1>0. o.type \in Type
  BY OffersAreKnown
<1>1. CASE PeerMessage(o)
  BY <1>1, PeerKeeps
<1>2. CASE LinkMessage(o)
  <2> DEFINE bytes == [of |-> o, len |-> 4]
             g == Set(get_msg("COMMON"), [sig |-> GW_LINK_REV_MSG])
             e == set_data_msg(g, bytes, 4)
  <2>1. Enter(o, e, "LINK") /\ o.at = "serial"
    BY <1>2 DEF LinkMessage
  <2>2. Fields \subseteq DOMAIN g /\ g.type = "COMMON" /\ g.sig = GW_LINK_REV_MSG
    BY DEF Set, get_msg, Fields
  <2>3. Cut(bytes, 4).of = o
    BY DEF Cut
  <2> HIDE DEF g, bytes
  <2>4. /\ Fields \subseteq DOMAIN e /\ e.type = "COMMON" /\ e.data.of = o
        /\ e.sig = GW_LINK_REV_MSG
    BY <2>2, <2>3 DEF set_data_msg, Set, Fields
  <2> HIDE DEF e
  <2>5. o \in offered' /\ o.at \in Peer
    BY <2>1 DEF Enter, Peer
  <2>6. Postable("LINK", e, offered', Asked')
    BY <2>4, <2>5, Hops DEF Postable, Fits, Asks
  <2>. QED  BY <2>1, <2>6, Hops, EnterKnown
<1>3. CASE TaskMessage(o) /\ o.at = "FW"
  <2> DEFINE e == Set(Build(o), [sig |-> GW_IF[o.type].OUT, src_task_id |-> "FW"])
  <2>1. Enter(o, e, "IF")
    BY <1>3 DEF TaskMessage
  <2>2. e.sig = GW_IF[o.type].OUT /\ Alike(e, Build(o)) /\ Build(o).type = o.type
    <3>1. Fields \subseteq DOMAIN Build(o) /\ Build(o).type = o.type
      BY BuiltFrom
    <3>. QED  BY <3>1, SetAlike
  <2> HIDE DEF e
  <2>3. Sorted(GW_IF, e, Asked') /\ Fields \subseteq DOMAIN e
    BY <1>0, <2>2 DEF Sorted, Alike
  <2>4. Postable("IF", e, offered', Asked')
    BY <2>3, Hops DEF Postable, Fits, Asks
  <2>. QED  BY <2>1, <2>4, Hops, EnterKnown
<1>4. CASE TaskMessage(o) /\ o.at = "console"
  <2> DEFINE e == Set(Build(o), [sig |-> GW_LINK_SEND[o.type]])
  <2>1. Enter(o, e, "LINK")
    BY <1>4 DEF TaskMessage
  <2>2. e.sig = GW_LINK_SEND[o.type] /\ Alike(e, Build(o)) /\ Build(o).type = o.type
    BY BuiltFrom, SetAlike
  <2> HIDE DEF e
  <2>3. e.sig = GW_LINK_SEND[e.type] /\ e.type \in Type /\ Fields \subseteq DOMAIN e
    BY <1>0, <2>2 DEF Alike
  <2>4. Postable("LINK", e, offered', Asked')
    BY <2>3, SignalsApart, Hops DEF Postable, Fits, Asks
  <2>. QED  BY <2>1, <2>4, Hops, EnterKnown
<1>5. CASE TaskMessage(o) /\ o.at = "local"
  <2> DEFINE e == Set(Fill(o), [sig |-> o.sig, src_task_id |-> o.src])
  <2>1. Enter(o, e, o.des)
    BY <1>5 DEF TaskMessage
  <2>2. /\ e.sig = o.sig /\ Alike(e, Fill(o)) /\ e.data = Fill(o).data
        /\ Fields \subseteq DOMAIN Fill(o) /\ Fill(o).type = o.type
        /\ o.type # "PURE" => Fill(o).len = o.data.len /\ Fill(o).data = Cut(Received(o), o.data.len)
    BY FilledFrom, SetAlike
  <2> HIDE DEF e
  <2>3. Fields \subseteq DOMAIN e /\ e.type = o.type
    BY <2>2 DEF Alike
  <2>4. CASE o.src = "TIMER"
    <3>1. o.des \in DOMAIN Timed /\ o.sig \in Timed[o.des]
      BY <1>5, <2>4, OffersAreKnown
    <3>2. o.des \in {"FW", "SYS", "DEBUG"}
      BY <3>1 DEF Timed
    <3>3. /\ o.des = "FW" => o.sig \in {18, 22, 23}
          /\ o.des = "DEBUG" => o.sig \in {12, 13, 16, 20, 21}
      BY <3>1 DEF Timed, GW_FW
    <3>4. Suits(o.des, o.sig, o.type, e.len, Asked') /\ ~Asks(o.des, o.sig)
      BY <3>2, <3>3 DEF Suits, Asks, GW_FW, GW_DEBUG_MSG_1, AppTask
    <3>5. Postable(o.des, e, offered', Asked')
      BY <2>2, <2>3, <3>2, <3>4, Hops DEF Postable, Fits
    <3>. QED  BY <2>1, <3>2, <3>5, Hops, EnterKnown
  <2>5. CASE o.src # "TIMER"
    <3>1. /\ o.type = "DYNAMIC" /\ o.des = "FW" /\ o.sig = GW_FW.OTA_REQ
          /\ o.data.of \in UpdateType /\ o.data.len >= UpdateReqSize /\ o.data.len \in Nat
      BY <1>5, <2>5, OffersAreKnown
    <3>2. ~(e.len < UpdateReqSize)
      BY <2>2, <3>1 DEF Alike, UpdateReqSize
    <3>3. e.data.of \in UpdateType
      <4>1. Received(o) = o.data
        BY <1>5 DEF Received
      <4>2. e.data = Cut(o.data, o.data.len)
        BY <2>2, <3>1, <4>1
      <4>3. o.data = [of |-> o.data.of, len |-> o.data.len]
        BY OffersAreKnown
      <4>. QED  BY ONLY <3>1, <4>2, <4>3, CutOf
    <3>4. Suits("FW", e.sig, e.type, e.len, Asked')
      BY <2>2, <3>1, Hops DEF Suits, GW_FW
    <3>5. Postable("FW", e, offered', Asked')
      BY <2>2, <2>3, <3>1, <3>2, <3>3, <3>4, Hops DEF Postable, Fits, Asks
    <3>. QED  BY <2>1, <3>1, <3>5, Hops, EnterKnown
  <2>. QED  BY <2>4, <2>5
<1>. QED  BY <1>1, <1>2, <1>3, <1>4, <1>5 DEF TaskMessage

(* The router. *)
LEMMA IfKeeps == ASSUME GatewayInv, IfForwards PROVE GatewayInv'
<1>1. PICK type \in Forwarded(h("IF").if_des_type) :
        \/ /\ h("IF").sig = GW_IF[type].IN
           /\ Forward("IF", Unwrapped(m("IF")), h("IF").if_des_task_id)
        \/ /\ h("IF").sig = GW_IF[type].OUT
           /\ Forward("IF", ak_memcpy_msg(heap, m("IF")), InterfaceTask(h("IF").if_des_type))
  BY DEF IfForwards
<1>2. Taking("IF") /\ type \in Type /\ update' = update
  BY Forwards DEF IfForwards
<1>3. ASSUME ~Foreign
      PROVE  /\ Fields \subseteq DOMAIN h("IF") /\ Sorted(GW_IF, h("IF"), Asked)
             /\ ak_memcpy_msg(heap, m("IF")).sig = h("IF").sig
             /\ Alike(ak_memcpy_msg(heap, m("IF")), h("IF"))
  <2>1. Fields \subseteq DOMAIN h("IF") /\ Sorted(GW_IF, h("IF"), Asked)
    BY <1>2, <1>3, Hops, FirstFits DEF Fits
  <2>. QED  BY <2>1, CopyOf DEF h
<1>4. offered' = offered
  BY <1>1 DEF Forward
<1>5. Asked' = Asked
  BY <1>2, <1>4 DEF Asked
<1>6. CASE /\ h("IF").sig = GW_IF[type].IN
           /\ Forward("IF", Unwrapped(m("IF")), h("IF").if_des_task_id)
  <2> DEFINE e == Unwrapped(m("IF"))
             dst == h("IF").if_des_task_id
  <2>1. ASSUME ~Foreign PROVE dst \in Task /\ Postable(dst, e, offered, Asked)
    <3>1. Comes(h("IF"), Asked)
      BY <1>2, <1>3, <1>6, <2>1, SignalsApart DEF Sorted
    <3>2. e.sig = h("IF").if_sig /\ Alike(e, h("IF"))
      <4> DEFINE c == ak_memcpy_msg(heap, m("IF"))
      <4>1. Alike(c, h("IF")) /\ Fields \subseteq DOMAIN c
        BY <1>3, <2>1 DEF Alike
      <4>2. e = Set(c, [sig |-> h("IF").if_sig, src_task_id |-> h("IF").if_src_task_id])
        BY DEF Unwrapped, h
      <4> HIDE DEF c, e
      <4>3. e.sig = h("IF").if_sig /\ Alike(e, c)
        BY <4>1, <4>2, SetAlike
      <4>. QED  BY <4>1, <4>3 DEF Alike
    <3> HIDE DEF e
    <3>3. Suits(dst, e.sig, e.type, e.len, Asked) /\ ~Asks(dst, e.sig)
      BY <3>1, <3>2 DEF Comes, Alike
    <3>4. dst \in AppTask \cup Unread
      BY <3>3 DEF Suits
    <3> HIDE DEF dst
    <3>. QED  BY <3>2, <3>3, <3>4, Hops DEF Postable, Fits, Alike
  <2>. QED  BY <1>2, <1>4, <1>5, <1>6, <2>1, Hops, ForwardKnown
<1>7. CASE /\ h("IF").sig = GW_IF[type].OUT
           /\ Forward("IF", ak_memcpy_msg(heap, m("IF")), InterfaceTask(h("IF").if_des_type))
  <2> DEFINE e == ak_memcpy_msg(heap, m("IF"))
             dst == InterfaceTask(h("IF").if_des_type)
  <2>1. dst \in {"IF_APP", "CPU_SERIAL", "USB"}
    BY DEF InterfaceTask
  <2>2. ASSUME ~Foreign PROVE dst \in Task /\ Postable(dst, e, offered, Asked)
    <3>1. /\ Alike(e, h("IF")) /\ e.sig = h("IF").sig /\ h("IF").type \in Type
          /\ h("IF").sig = GW_IF[h("IF").type].OUT
      BY <1>2, <1>3, <1>7, <2>2, SignalsApart DEF Sorted
    <3> HIDE DEF e, dst
    <3>2. /\ Fields \subseteq DOMAIN e /\ e.type \in Type
          /\ e.sig = GW_CPU_SERIAL_IF[e.type].OUT
      BY <3>1, SignalsApart DEF Alike
    <3>. QED  BY <2>1, <3>2, Hops DEF Postable, Fits, Sorted, Asks, AppTask
  <2>. QED  BY <1>2, <1>4, <1>5, <1>7, <2>2, Hops, ForwardKnown
<1>. QED  BY <1>1, <1>6, <1>7

(* The serial interface. *)
LEMMA CpuKeeps == ASSUME GatewayInv, CpuSerialForwards PROVE GatewayInv'
<1> DEFINE c == ak_memcpy_msg(heap, m("CPU_SERIAL"))
<1>1. Taking("CPU_SERIAL") /\ update' = update
  BY DEF CpuSerialForwards
<1>2. PICK type \in Type :
        \/ /\ h("CPU_SERIAL").sig = GW_CPU_SERIAL_IF[type].OUT
           /\ Forward("CPU_SERIAL", Set(c, [sig |-> GW_LINK_SEND[type]]), "LINK")
        \/ /\ h("CPU_SERIAL").sig = GW_CPU_SERIAL_IF[type].IN
           /\ Forward("CPU_SERIAL", Set(c, [sig |-> GW_IF[type].IN]), "IF")
  BY DEF CpuSerialForwards
<1>3. ASSUME ~Foreign
      PROVE  Sorted(GW_CPU_SERIAL_IF, h("CPU_SERIAL"), Asked) /\ Alike(c, h("CPU_SERIAL"))
  <2>1. /\ Fields \subseteq DOMAIN h("CPU_SERIAL")
        /\ Sorted(GW_CPU_SERIAL_IF, h("CPU_SERIAL"), Asked)
    BY <1>1, <1>3, Hops, FirstFits DEF Fits
  <2>. QED  BY <2>1, CopyOf DEF h
<1>4. offered' = offered
  BY <1>2 DEF Forward
<1>5. Asked' = Asked
  BY <1>1, <1>4 DEF Asked
<1>6. CASE /\ h("CPU_SERIAL").sig = GW_CPU_SERIAL_IF[type].OUT
           /\ Forward("CPU_SERIAL", Set(c, [sig |-> GW_LINK_SEND[type]]), "LINK")
  <2> DEFINE e == Set(c, [sig |-> GW_LINK_SEND[type]])
  <2>1. ASSUME ~Foreign PROVE Postable("LINK", e, offered, Asked)
    <3>1. Alike(c, h("CPU_SERIAL")) /\ h("CPU_SERIAL").type = type
      BY <1>3, <1>6, <2>1, SignalsApart DEF Sorted
    <3> HIDE DEF c
    <3>2. e.sig = GW_LINK_SEND[type] /\ Alike(e, c)
      BY <3>1, SetAlike DEF Alike
    <3> HIDE DEF e
    <3>3. Fields \subseteq DOMAIN e /\ e.type = type /\ e.sig = GW_LINK_SEND[type]
      BY <3>1, <3>2 DEF Alike
    <3>. QED  BY <3>3, SignalsApart, Hops DEF Postable, Fits, Asks
  <2>. QED  BY <1>1, <1>4, <1>5, <1>6, <2>1, Hops, ForwardKnown
<1>7. CASE /\ h("CPU_SERIAL").sig = GW_CPU_SERIAL_IF[type].IN
           /\ Forward("CPU_SERIAL", Set(c, [sig |-> GW_IF[type].IN]), "IF")
  <2> DEFINE e == Set(c, [sig |-> GW_IF[type].IN])
  <2>1. ASSUME ~Foreign PROVE Postable("IF", e, offered, Asked)
    <3>1. Alike(c, h("CPU_SERIAL")) /\ h("CPU_SERIAL").type = type /\ Comes(h("CPU_SERIAL"), Asked)
      BY <1>3, <1>7, <2>1, SignalsApart DEF Sorted
    <3> HIDE DEF c
    <3>2. e.sig = GW_IF[type].IN /\ Alike(e, c)
      BY <3>1, SetAlike DEF Alike
    <3> HIDE DEF e
    <3>3. Fields \subseteq DOMAIN e /\ e.type = type /\ Comes(e, Asked)
      BY <3>1, <3>2 DEF Alike, Comes
    <3>4. Sorted(GW_IF, e, Asked)
      BY <3>2, <3>3 DEF Sorted
    <3>. QED  BY <3>3, <3>4, Hops DEF Postable, Fits, Asks
  <2>. QED  BY <1>1, <1>4, <1>5, <1>7, <2>1, Hops, ForwardKnown
<1>. QED  BY <1>2, <1>6, <1>7

(* LINK hands up what the other board sent. *)
LEMMA LinkKeeps == ASSUME GatewayInv, LinkReceives PROVE GatewayInv'
<1> DEFINE o == Data(heap, m("LINK")).of
           e == Set(Build(o), [sig |-> GW_CPU_SERIAL_IF[o.type].IN])
<1>1. /\ Taking("LINK") /\ h("LINK").sig = GW_LINK_REV_MSG /\ offered' = offered
      /\ update' = update
  BY DEF LinkReceives, Forward
<1>2. ASSUME ~Foreign PROVE o \in offered /\ o.at \in Peer /\ ~Wrong(o)
  <2>1. o \in offered /\ o.at \in Peer
    BY <1>1, <1>2, Hops, FirstFits, SignalsApart DEF Fits
  <2>. QED  BY <1>2, <2>1 DEF Foreign
<1>3. Asked' = Asked /\ Foreign' = Foreign
  BY <1>1 DEF Asked, Foreign
<1>4. CASE TooLong(o) /\ Stop("AK 0E")
  <2>1. Foreign
    BY <1>2, <1>4 DEF Wrong
  <2>2. UNCHANGED <<heap, box, hand, leaked, update>>
    BY <1>1, <1>4 DEF Stop
  <2>. QED  BY <1>1, <1>3, <2>1, <2>2, StopKnown
<1>5. CASE Forward("LINK", e, "CPU_SERIAL")
  <2>1. ASSUME ~Foreign PROVE Postable("CPU_SERIAL", e, offered, Asked)
    <3>1. o \in Offer /\ o \in offered /\ o.at \in Peer /\ ~Wrong(o)
      BY <1>2, <2>1 DEF GatewayInv, HeapInv, OffersCounted
    <3>2. Unasked(o) => Asked
      BY <3>1 DEF Asked
    <3> HIDE DEF o
    <3>3. e.sig = GW_CPU_SERIAL_IF[o.type].IN /\ Alike(e, Build(o))
      BY BuiltFrom, SetAlike
    <3> HIDE DEF e
    <3>4. /\ Fields \subseteq DOMAIN e /\ e.type = o.type /\ e.if_des_task_id = o.des
          /\ e.if_sig = o.sig /\ (o.type # "PURE" => e.len = o.data.len)
      BY <3>3, BuiltFrom DEF Alike
    <3>5. Comes(e, Asked) /\ e.type \in Type
      BY <3>1, <3>2, <3>4, PeersSuit
    <3>6. Sorted(GW_CPU_SERIAL_IF, e, Asked)
      BY <3>3, <3>4, <3>5 DEF Sorted
    <3>. QED  BY <3>4, <3>6, Hops DEF Postable, Fits, Asks
  <2>. QED  BY <1>1, <1>3, <1>5, <2>1, Hops, ForwardKnown
<1>. QED  BY <1>4, <1>5 DEF LinkReceives

(* LINK sends: the message is of the type of its signal. *)
LEMMA LinkSendsKeeps == ASSUME GatewayInv, LinkSends PROVE GatewayInv'
<1>1. Taking("LINK") /\ update' = update
  BY DEF LinkSends
<1>2. PICK type \in Type :
        /\ h("LINK").sig = GW_LINK_SEND[type]
        /\ \/ /\ type \notin {"PURE", h("LINK").type} /\ \E code : Stop(code)
              /\ offered' = offered
           \/ Stop("LINK_PDU 01") /\ offered' = offered
           \/ Take("LINK") /\ UNCHANGED <<heap, leaked>>
  BY DEF LinkSends
<1>3. ASSUME ~Foreign PROVE type = h("LINK").type
  <2>1. Fits("LINK", h("LINK"), Data(heap, m("LINK")), offered, Asked)
    BY <1>1, <1>3, Hops, FirstFits
  <2>2. GW_LINK_SEND[type] # GW_LINK_REV_MSG
    BY SignalsApart
  <2>3. h("LINK").type \in Type /\ GW_LINK_SEND[type] = GW_LINK_SEND[h("LINK").type]
    BY <1>2, <2>1, <2>2 DEF Fits
  <2>. QED  BY <2>3, SignalsApart
<1>4. CASE offered' = offered /\ \E code : Stop(code) /\ (Foreign \/ code = "LINK_PDU 01")
  <2>1. Foreign' = Foreign
    BY <1>4 DEF Foreign
  <2>2. UNCHANGED <<heap, box, hand, leaked, update>> /\ (~Foreign' => Excused')
    BY <1>1, <1>4, <2>1 DEF Stop, Excused
  <2>. QED  BY <1>4, <2>2, StopKnown
<1>5. CASE Take("LINK") /\ UNCHANGED <<heap, leaked>>
  BY <1>1, <1>5, Hops, TakeKnown
<1>. QED  BY <1>2, <1>3, <1>4, <1>5

(* The firmware task. *)
LEMMA FwKeeps == ASSUME GatewayInv, FwGets PROVE GatewayInv'
<1>1. Taking("FW")
  BY DEF FwGets
<1>2. ASSUME ~Foreign
      PROVE  /\ FwFatal # "none" => Asked /\ ~update
             /\ h("FW").sig = GW_FW.OTA_REQ => Data(heap, m("FW")).of \in UpdateType
  <2>1. Fits("FW", h("FW"), Data(heap, m("FW")), offered, Asked)
    BY <1>1, <1>2, Hops, FirstFits
  <2>2. /\ Suits("FW", h("FW").sig, h("FW").type, h("FW").len, Asked)
        /\ h("FW").sig = GW_FW.OTA_REQ =>
             /\ h("FW").type = "DYNAMIC" /\ ~(h("FW").len < UpdateReqSize)
             /\ Data(heap, m("FW")).of \in UpdateType
    BY <2>1, Hops DEF Fits, Asks
  <2>3. FwFatal # "none" => Asked /\ ~update
    BY <2>2 DEF FwFatal, Suits, GW_FW
  <2>. QED  BY <2>2, <2>3
<1>3. CASE FwFatal # "none"
  <2>1. UNCHANGED <<heap, box, hand, leaked, update>> /\ offered' = offered
    BY <1>3 DEF FwGets, Stop
  <2>2. Foreign' = Foreign /\ Asked' = Asked
    BY <2>1 DEF Foreign, Asked
  <2>3. ~Foreign' => Excused'
    BY <1>2, <1>3, <2>1, <2>2 DEF Excused
  <2>. QED  BY <2>1, <2>3, StopKnown
<1>4. CASE FwFatal = "none"
  <2> DEFINE e == Set(get_msg("PURE"), [sig |-> FwPosts[h("FW").sig], src_task_id |-> "FW"])
  <2>1. /\ update' = IF h("FW").sig = GW_FW.OTA_REQ THEN Data(heap, m("FW")).of \in UpdateType
                     ELSE update
        /\ \/ h("FW").sig \in DOMAIN FwPosts /\ Forward("FW", e, "FW")
           \/ Take("FW") /\ UNCHANGED <<heap, leaked>>
    BY <1>4 DEF FwGets
  <2>2. ~Foreign => (update => update')
    BY <1>2, <2>1
  <2>3. CASE h("FW").sig \in DOMAIN FwPosts /\ Forward("FW", e, "FW")
    <3>1. offered' = offered
      BY <2>3, Hops DEF Forward
    <3>2. ASSUME ~Foreign PROVE Postable("FW", e, offered, Asked')
      <4>1. /\ e.sig = FwPosts[h("FW").sig] /\ Fields \subseteq DOMAIN e
        BY DEF Set, get_msg, Fields
      <4>2. FwPosts[h("FW").sig] \in {GW_FW.TRANFER_REQ, GW_FW.SM_UPDATE_RES_OK}
        BY <2>3 DEF FwPosts
      <4>3. h("FW").sig # GW_FW.OTA_REQ => FwPosts[h("FW").sig] = GW_FW.TRANFER_REQ
        BY <2>3 DEF FwPosts
      <4>4. h("FW").sig = GW_FW.OTA_REQ => Asked'
        BY <1>2, <2>1, <3>2 DEF Asked
      <4> HIDE DEF e
      <4>5. Suits("FW", e.sig, e.type, e.len, Asked') /\ ~Asks("FW", e.sig)
        BY <4>1, <4>2, <4>3, <4>4, Hops DEF Suits, Asks, GW_FW
      <4>. QED  BY <4>1, <4>5, Hops DEF Postable, Fits
    <3>. QED  BY <1>1, <2>2, <2>3, <3>1, <3>2, Hops, ForwardKnown
  <2>4. CASE Take("FW") /\ UNCHANGED <<heap, leaked>>
    BY <1>1, <2>2, <2>4, Hops, TakeKnown
  <2>. QED  BY <2>1, <2>3, <2>4
<1>. QED  BY <1>3, <1>4

(* What suits any task but these two. *)
LEMMA SuitsOthers ==
  ASSUME NEW t \in AppTask, t # "FW", t # "DEBUG", NEW sig, NEW type, NEW len, NEW asked
  PROVE  Suits(t, sig, type, len, asked) /\ ~Asks(t, sig)
  BY DEF Suits, Asks

(* The system task answers itself. *)
LEMMA SysKeeps == ASSUME GatewayInv, SysGets PROVE GatewayInv'
<1>1. Taking("SYS") /\ update' = update
  BY DEF SysGets
<1> DEFINE c == ak_memcpy_msg(heap, m("SYS"))
           e == Set(c, [sig |-> SysPosts[h("SYS").sig], src_task_id |-> "SYS"])
<1>2. CASE Forward("SYS", e, "SYS")
  <2>1. offered' = offered
    BY <1>2 DEF Forward
  <2>2. ASSUME ~Foreign PROVE Postable("SYS", e, offered, Asked)
    <3>1. Fields \subseteq DOMAIN Header(heap, m("SYS"))
      BY <1>1, <2>2, Hops, FirstFits DEF Fits, h
    <3>2. Fields \subseteq DOMAIN c
      BY <3>1, CopyOf DEF Alike
    <3> HIDE DEF c
    <3>3. Fields \subseteq DOMAIN e
      BY <3>2, SetAlike DEF Alike
    <3> HIDE DEF e
    <3>. QED  BY <3>3, SuitsOthers, Hops DEF Postable, Fits
  <2>3. Asked' = Asked
    BY <1>1, <2>1 DEF Asked
  <2>. QED  BY <1>1, <1>2, <2>1, <2>2, <2>3, Hops, ForwardKnown
<1>3. CASE Take("SYS") /\ UNCHANGED <<heap, leaked>>
  BY <1>1, <1>3, Hops, TakeKnown
<1>. QED  BY <1>2, <1>3 DEF SysGets

(* What the debug task posts is of its type, and for a task that takes it. *)
LEMMA DebugPostable ==
  ASSUME NEW type \in Type \ {"PURE"}, NEW sig, NEW offers, NEW asked
  PROVE  /\ Postable("LINK", Test(type), offers, asked)
         /\ Postable("SYS", Signal(sig), offers, asked)
<1> DEFINE n == IF type = "COMMON" THEN 64 ELSE 256
           cut == Cut([of |-> "test", len |-> 256], n)
           g == set_data_msg(get_msg(type), [of |-> "test", len |-> 256], n)
           x == GW_LINK_SEND[type]
           e == Test(type)
           s == Signal(sig)
<1>1. g = Set(get_msg(type), [len |-> n, data |-> cut])
  BY DEF set_data_msg
<1>2. e = Set(g, [sig |-> x, if_src_type |-> "UART_GW", if_des_type |-> "UART_AC",
                  if_des_task_id |-> "AC_TASK_DBG", if_sig |-> "AC_DBG_TEST"])
  BY DEF Test
<1> HIDE DEF n, cut, g, x, e
<1>3. Fields \subseteq DOMAIN g /\ g.type = type
  BY <1>1 DEF Set, get_msg, Fields
<1>4. Fields \subseteq DOMAIN e /\ e.type = type /\ e.sig = x
  BY <1>2, <1>3 DEF Set, Fields
<1>5. Postable("LINK", e, offers, asked)
  BY <1>4, SignalsApart, Hops DEF Postable, Fits, Asks, x
<1>6. Fields \subseteq DOMAIN s
  BY DEF Signal, Set, get_msg, Fields
<1> HIDE DEF s
<1>7. Postable("SYS", s, offers, asked)
  BY <1>6, SuitsOthers, Hops DEF Postable, Fits
<1>. QED  BY <1>5, <1>7 DEF e, s

LEMMA DebugKeeps == ASSUME GatewayInv, DebugGets PROVE GatewayInv'
<1>1. Taking("DEBUG") /\ update' = update
  BY DEF DebugGets
<1>2. ASSUME ~Foreign PROVE h("DEBUG").sig = GW_DEBUG_MSG_1 => h("DEBUG").type = "DYNAMIC"
  BY <1>1, <1>2, Hops, FirstFits DEF Fits, Suits
<1>3. CASE /\ h("DEBUG").sig = GW_DEBUG_MSG_1 /\ h("DEBUG").type # "DYNAMIC"
           /\ Stop("AK 22") /\ offered' = offered
  <2>1. UNCHANGED <<heap, box, hand, leaked, update>> /\ Foreign' = Foreign /\ Foreign
    BY <1>1, <1>2, <1>3 DEF Stop, Foreign
  <2>. QED  BY <1>3, <2>1, StopKnown
<1>4. CASE /\ Take("DEBUG")
           /\ LET b == malloc({b \in Block : heap[b] = Free})
                  bytes == Cut(Data(heap, m("DEBUG")), h("DEBUG").len % 256)
              IN /\ heap' = [heap EXCEPT ![b] = [kind |-> "data", bytes |-> bytes]]
                 /\ leaked' = leaked \cup {b}
  <2> DEFINE b == malloc({c \in Block : heap[c] = Free})
             bytes == Cut(Data(heap, m("DEBUG")), h("DEBUG").len % 256)
  <2>1. /\ heap' = [heap EXCEPT ![b] = [kind |-> "data", bytes |-> bytes]]
        /\ leaked' = leaked \cup {b}
    BY <1>4
  <2>2. b = malloc({c \in Block : heap[c] = Free})
    OBVIOUS
  <2> HIDE DEF b, bytes
  <2>3. /\ HeapInv' /\ Messages' = Messages /\ offered' = offered /\ fatal' = fatal
        /\ box' = Rest(box, "DEBUG")
        /\ \A n \in Messages : Header(heap', n) = Header(heap, n) /\ Data(heap', n) = Data(heap, n)
    BY <1>1, <1>4, <2>1, <2>2, DebugStep DEF GatewayInv
  <2>4. Foreign' = Foreign /\ Asked' = Asked /\ fatal = "none"
    BY <1>1, <2>3 DEF Foreign, Asked, Taking
  <2>5. Places(box, hand) /\ box["DEBUG"] # <<>> /\ Messages = Held(box, hand)
    BY <1>1 DEF GatewayInv, HeapInv, Taking, Messages
  <2>6. ASSUME ~Foreign PROVE AllFit(box', heap', offered', Asked')
    <3>1. AllFit(box, heap, offered, Asked)
      BY <2>6 DEF GatewayInv, KnownInv
    <3>2. AllFit(box, heap', offered', Asked')
      BY <2>3, <2>4, <2>5, <3>1, KeptFit
    <3>. QED  BY <2>3, <2>5, <3>2, Hops, RestFits
  <2>. QED  BY <2>3, <2>4, <2>6 DEF GatewayInv, KnownInv, Excused
<1>5. ASSUME NEW draft, NEW dst \in Task, Forward("DEBUG", draft, dst),
             Postable(dst, draft, offered, Asked)
      PROVE  GatewayInv'
  <2>1. offered' = offered
    BY <1>5 DEF Forward
  <2>2. Asked' = Asked
    BY <1>1, <2>1 DEF Asked
  <2>. QED  BY <1>1, <1>5, <2>1, <2>2, Hops, ForwardKnown
<1>6. CASE /\ h("DEBUG").sig \in DOMAIN DebugSends
           /\ Forward("DEBUG", Test(DebugSends[h("DEBUG").sig]), "LINK")
  <2>1. DebugSends[h("DEBUG").sig] \in Type \ {"PURE"}
    BY <1>6 DEF DebugSends, Type
  <2>. QED  BY <1>5, <1>6, <2>1, DebugPostable, Hops
<1>7. CASE Forward("DEBUG", Signal(DebugPosts[h("DEBUG").sig]), "SYS")
  <2>1. "COMMON" \in Type \ {"PURE"}
    BY DEF Type
  <2>. QED  BY <1>5, <1>7, <2>1, DebugPostable, Hops
<1>8. CASE Take("DEBUG") /\ UNCHANGED <<heap, leaked>>
  BY <1>1, <1>8, Hops, TakeKnown
<1>. QED  BY <1>3, <1>4, <1>6, <1>7, <1>8 DEF DebugGets

LEMMA ReleaseKeeps == ASSUME GatewayInv, NEW t \in Task, Release(t) PROVE GatewayInv'
<1>1. /\ HeapInv' /\ box' = box /\ offered' = offered /\ fatal' = fatal
      /\ \A u \in Task : \A i \in 1..Len(box[u]) :
           /\ Header(heap', box[u][i]) = Header(heap, box[u][i])
           /\ Data(heap', box[u][i]) = Data(heap, box[u][i])
  BY ReleaseStep DEF GatewayInv
<1>2. Foreign' = Foreign /\ Asked' = Asked /\ fatal = "none"
  BY <1>1 DEF Foreign, Asked, Release
<1>3. ~Foreign => AllFit(box', heap', offered', Asked')
  BY <1>1, <1>2 DEF GatewayInv, KnownInv, AllFit
<1>. QED  BY <1>1, <1>2, <1>3 DEF GatewayInv, KnownInv, Excused

LEMMA GatewayStep == GatewayInv /\ [Next]_vars => GatewayInv'
<1> SUFFICES ASSUME GatewayInv, [Next]_vars PROVE GatewayInv'
  OBVIOUS
<1>1. ASSUME NEW o \in Offer, PeerMessage(o) \/ LinkMessage(o) \/ TaskMessage(o)
      PROVE  GatewayInv'
  BY <1>1, OffersKeep
<1>2. CASE IfForwards
  BY <1>2, IfKeeps
<1>3. CASE CpuSerialForwards
  BY <1>3, CpuKeeps
<1>4. CASE LinkReceives
  BY <1>4, LinkKeeps
<1>5. CASE LinkSends
  BY <1>5, LinkSendsKeeps
<1>6. CASE FwGets
  BY <1>6, FwKeeps
<1>7. CASE SysGets
  BY <1>7, SysKeeps
<1>8. CASE DebugGets
  BY <1>8, DebugKeeps
<1>9. CASE IfDrops \/ UsbWrites \/ IfAppWrites \/ SensorGets
  <2>1. PICK t \in Task : Taking(t) /\ Take(t) /\ UNCHANGED <<heap, leaked, update>>
    BY <1>9, Hops DEF IfDrops, UsbWrites, IfAppWrites, SensorGets
  <2>. QED  BY <2>1, TakeKnown
<1>10. ASSUME NEW t \in Task, Release(t) PROVE GatewayInv'
  BY <1>10, ReleaseKeeps
<1>11. CASE UNCHANGED vars
  <2>1. UNCHANGED <<heap, box, hand, leaked, update>> /\ offered' = offered /\ fatal' = fatal
    BY <1>11 DEF vars
  <2>2. Foreign' = Foreign /\ Asked' = Asked
    BY <2>1 DEF Foreign, Asked
  <2>3. ~Foreign' => Excused'
    BY <2>1, <2>2 DEF GatewayInv, KnownInv, Excused
  <2>. QED  BY <2>1, <2>3, StopKnown
<1>. QED
  BY <1>1, <1>2, <1>3, <1>4, <1>5, <1>6, <1>7, <1>8, <1>9, <1>10, <1>11 DEF Next, Handle

-----------------------------------------------------------------------------
(* The blocks of the heap, read place by place. *)
LEMMA ExactByPlace == HeapInv => HeapExact
<1> SUFFICES ASSUME HeapInv PROVE HeapExact
  OBVIOUS
<1> DEFINE MsgAt(r) == IF r[2] = 0 THEN hand[r[1]] ELSE box[r[1]][r[2]]
<1>1. /\ Places(box, hand) /\ Once(box, hand) /\ Exact(heap, Messages, leaked)
  BY DEF HeapInv
<1>2. \A t \in Task : box[t] \in Seq(Block) /\ DOMAIN box[t] = 1..Len(box[t]) /\ Len(box[t]) \in Nat
  BY <1>1 DEF Places
<1>3. ASSUME NEW r \in Holder
      PROVE  /\ r[1] \in Task /\ r = <<r[1], r[2]>>
             /\ \/ r[2] = 0 /\ hand[r[1]] # NULL
                \/ r[2] \in 1..Len(box[r[1]]) /\ r[2] # 0
             /\ MsgAt(r) \in Messages /\ Holds(r) = BlocksOf(heap, MsgAt(r))
  <2>1. CASE \E t \in Task : r = <<t, 0>> /\ hand[t] # NULL
    BY <1>1, <2>1 DEF Messages, Held, Places, Holds
  <2>2. CASE \E t \in Task : r \in {t} \X DOMAIN box[t]
    <3>1. PICK t \in Task : r \in {t} \X DOMAIN box[t]
      BY <2>2
    <3>2. r[1] = t /\ r[2] \in 1..Len(box[t]) /\ r = <<r[1], r[2]>> /\ r[2] # 0
      BY <1>2, <3>1
    <3>3. box[t][r[2]] \in Messages
      BY <1>2, <3>2 DEF Messages, Held
    <3>. QED  BY <3>2, <3>3 DEF Holds
  <2>. QED  BY <2>1, <2>2 DEF Holder
<1>4. ASSUME NEW r \in Holder, NEW s \in Holder, MsgAt(r) = MsgAt(s) PROVE r = s
  <2>1. r[1] = s[1] /\ r[2] = s[2]
    BY <1>1, <1>3, <1>4 DEF Once
  <2>. QED  BY <1>3, <2>1
<1>5. ASSUME NEW n \in Messages PROVE \E r \in Holder : MsgAt(r) = n
  <2>1. PICK t \in Task : hand[t] = n \/ \E i \in 1..Len(box[t]) : box[t][i] = n
    BY DEF Messages, Held
  <2>2. CASE hand[t] = n
    <3>1. <<t, 0>> \in Holder
      BY <2>2, NullIsNoBlock DEF Holder, Messages, Held
    <3>. QED  BY <2>2, <3>1
  <2>3. CASE \E i \in 1..Len(box[t]) : box[t][i] = n
    <3>1. PICK i \in 1..Len(box[t]) : box[t][i] = n
      BY <2>3
    <3>2. <<t, i>> \in Holder /\ i # 0
      BY <1>2, <3>1 DEF Holder
    <3>3. MsgAt(<<t, i>>) = n
      BY <3>1, <3>2
    <3>. QED  BY <3>2, <3>3
  <2>. QED  BY <2>1, <2>2, <2>3
<1> HIDE DEF MsgAt
<1>6. \A r \in Holder, s \in Holder : r # s => Holds(r) \cap Holds(s) = {}
  BY <1>1, <1>3, <1>4 DEF Exact
<1>7. UNION {Holds(r) : r \in Holder} = {b \in Block : heap[b] # Free} \ leaked
  <2>1. \A n \in Messages : BlocksOf(heap, n) \subseteq Block
    BY <1>1, BlocksFormed DEF Exact
  <2>2. ASSUME NEW b
        PROVE  (\E r \in Holder : b \in Holds(r)) <=> \E n \in Messages : b \in BlocksOf(heap, n)
    BY <1>3, <1>5
  <2>3. ASSUME NEW b \in Block
        PROVE  (\E n \in Messages : b \in BlocksOf(heap, n)) <=> heap[b] # Free /\ b \notin leaked
    BY <1>1 DEF Exact
  <2>4. ASSUME NEW b
        PROVE  b \in UNION {Holds(r) : r \in Holder} <=> \E r \in Holder : b \in Holds(r)
    OBVIOUS
  <2>. QED  BY <2>1, <2>2, <2>3, <2>4
<1>. QED  BY <1>6, <1>7 DEF HeapExact

(* However the tasks overtake each other, no block of a message leaks, is freed
   twice or is freed by one task while another has it: the messages in the
   mailboxes and hands have blocks of their own, and the heap is theirs but for
   what GW_DEBUG_MSG_1 forgets (ak_memcpy_msg, task_post, ak_msg_free).     *)
THEOREM GatewayHeapExact == Spec => []HeapExact
<1>1. GatewayInv => HeapExact
  BY ExactByPlace DEF GatewayInv
<1>. QED  BY GatewayInit, GatewayStep, <1>1, PTL DEF Spec

(* No task ends the process over what the tasks, the shell and the timers post,
   but for an empty pool of PDUs (link_data.cpp:46): only a message from outside
   that a handler does not stand (task_post, set_data_common_msg, task_fw.cpp,
   task_debug_msg.cpp), or that only goes with an update when there is none.  *)
THEOREM GatewayOnlyForeign == Spec => []OnlyForeign
<1>1. GatewayInv => OnlyForeign
  BY DEF GatewayInv, KnownInv, OnlyForeign, Foreign, Asked, Excused
<1>. QED  BY GatewayInit, GatewayStep, <1>1, PTL DEF Spec

-----------------------------------------------------------------------------
(* The routes.  Where the messages of a route enter, the tasks they go through
   and how far each of these is on the way.                                *)
At(r) == (CHOOSE o \in Offer : RouteOf(o) = r).at

Inner == AppTask \cup Unread

OnPath(t, r) ==
  \/ /\ At(r) = "serial"
     /\ t \in {"LINK", "CPU_SERIAL", "IF"} \/ (t \in Inner /\ t = r[2])
  \/ At(r) \in {"socket", "usb"} /\ (t = "IF" \/ (t \in Inner /\ t = r[2]))
  \/ /\ At(r) = "FW"
     /\ \/ t = "IF" \/ (t = "IF_APP" /\ r[2] = "socket") \/ (t = "USB" /\ r[2] = "usb line")
        \/ t \in {"CPU_SERIAL", "LINK"} /\ r[2] = "serial line"
  \/ At(r) = "console" /\ t = "LINK"
  \/ At(r) = "local" /\ t \in Inner /\ t = r[2]

Rank(r, t) ==
  IF At(r) = "serial"
    THEN IF t = "LINK" THEN 1 ELSE IF t = "CPU_SERIAL" THEN 2 ELSE IF t = "IF" THEN 3 ELSE 4
  ELSE IF At(r) = "FW" THEN IF t = "IF" THEN 1 ELSE IF t = "LINK" THEN 3 ELSE 2
  ELSE IF At(r) = "local" \/ t \in {"IF", "LINK"} THEN 1 ELSE 2

Tag == Route \X Nat

(* The messages w[t] in the mailbox of each task t, by route and number there, when
   ln[r] have entered on route r and dn[r] of them have left: those that
   have not are there, once, and the older one is further along.           *)
Typed(w, ln, dn) ==
  /\ w \in [Task -> Seq(Tag)] /\ ln \in [Route -> Nat] /\ dn \in [Route -> Nat]
  /\ \A r \in Route : dn[r] <= ln[r]
  /\ \A t \in Task : \A i \in 1..Len(w[t]) : w[t][i][2] \in 1..ln[w[t][i][1]]

Waits(dn, x) == dn[x[1]] < x[2]

Underway(w, dn) ==
  \A t \in Task : \A i \in 1..Len(w[t]) : Waits(dn, w[t][i]) => OnPath(t, w[t][i][1])

Single(w, dn) ==
  \A t \in Task, u \in Task : \A i \in 1..Len(w[t]), j \in 1..Len(w[u]) :
    Waits(dn, w[t][i]) /\ w[t][i] = w[u][j] => t = u /\ i = j

Behind(x, t, i, y, u, j) ==
  x[1] = y[1] /\ x[2] < y[2] => Rank(x[1], u) < Rank(x[1], t) \/ (t = u /\ i < j)

InTurn(w, dn) ==
  \A t \in Task, u \in Task : \A i \in 1..Len(w[t]), j \in 1..Len(w[u]) :
    Waits(dn, w[t][i]) => Behind(w[t][i], t, i, w[u][j], u, j)

Placed(w, ln, dn) == Typed(w, ln, dn) /\ Underway(w, dn) /\ Single(w, dn) /\ InTurn(w, dn)

There(w, x) == \E t \in Task : \E i \in 1..Len(w[t]) : w[t][i] = x

Present(w, ln, dn) == \A r \in Route : \A n \in dn[r] + 1 .. ln[r] : There(w, <<r, n>>)

Lined(w, ln, dn) == Placed(w, ln, dn) /\ Present(w, ln, dn)

LEMMA TagIs ==
  /\ \A x \in Tag : x[1] \in Route /\ x[2] \in Nat
  /\ \A x \in Tag, y \in Tag : x[1] = y[1] /\ x[2] = y[2] => x = y
  BY DEF Tag

LEMMA RankIsNat == ASSUME NEW r, NEW t PROVE Rank(r, t) \in 1..4
  BY DEF Rank

LEMMA InnerOnly == /\ Inner \subseteq Task
                   /\ \A t \in Inner : t \notin {"IF", "LINK", "CPU_SERIAL", "USB", "IF_APP"}
  BY DEF Inner, Task, AppTask, Unread

LEMMA SameStage ==
  ASSUME NEW r, NEW t, NEW u, OnPath(t, r), OnPath(u, r), Rank(r, t) = Rank(r, u)
  PROVE  t = u
<1>1. CASE At(r) = "serial"
  BY <1>1, InnerOnly DEF OnPath, Rank
<1>2. CASE At(r) \in {"socket", "usb"}
  <2>1. /\ At(r) # "serial" /\ At(r) # "FW" /\ At(r) # "console" /\ At(r) # "local"
    BY <1>2
  <2>2. ASSUME NEW v, OnPath(v, r)
        PROVE  \/ v = "IF" /\ Rank(r, v) = 1
               \/ v \in Inner /\ v = r[2] /\ Rank(r, v) = 2
    BY <2>1, <2>2, InnerOnly DEF OnPath, Rank
  <2>. QED  BY <2>2
<1>3. CASE At(r) = "FW"
  <2>1. Rank(r, "IF") = 1 /\ Rank(r, "LINK") = 3
        /\ \A v \in {"IF_APP", "USB", "CPU_SERIAL"} : Rank(r, v) = 2
    BY <1>3 DEF Rank
  <2>3. \A v : OnPath(v, r) => v \in {"IF", "LINK", "IF_APP", "USB", "CPU_SERIAL"}
    BY <1>3 DEF OnPath
  <2>4. CASE t \in {"IF", "LINK"} \/ u \in {"IF", "LINK"}
    BY <2>1, <2>3, <2>4
  <2>2. CASE t \notin {"IF", "LINK"} /\ u \notin {"IF", "LINK"}
    BY <1>3, <2>2 DEF OnPath
  <2>. QED  BY <2>2, <2>4
<1>4. CASE At(r) = "console"
  BY <1>4 DEF OnPath, Rank
<1>5. CASE At(r) = "local"
  BY <1>5 DEF OnPath
<1>. QED  BY <1>1, <1>2, <1>3, <1>4, <1>5 DEF OnPath

(* Where a message is after one was put in or taken out. *)
LEMMA PutAt ==
  ASSUME NEW w \in [Task -> Seq(Tag)], NEW t \in Task, NEW x \in Tag,
         NEW w2, w2 = Put(w, t, x)
  PROVE  /\ w2 \in [Task -> Seq(Tag)]
         /\ Len(w[t]) \in Nat /\ Len(w2[t]) = Len(w[t]) + 1 /\ w2[t][Len(w[t]) + 1] = x
         /\ \A u \in Task : u # t => w2[u] = w[u]
         /\ \A i \in 1..Len(w[t]) : w2[t][i] = w[t][i] /\ i \in 1..Len(w2[t])
         /\ Len(w[t]) + 1 \in 1..Len(w2[t])
         /\ \A i \in 1..Len(w2[t]) : i \in 1..Len(w[t]) \/ i = Len(w[t]) + 1
<1>1. /\ w[t] \in Seq(Tag) /\ Len(w[t]) \in Nat /\ w2[t] = Append(w[t], x)
      /\ w2 \in [Task -> Seq(Tag)] /\ \A u \in Task : u # t => w2[u] = w[u]
  BY DEF Put
<1>2. /\ Len(w2[t]) = Len(w[t]) + 1 /\ w2[t][Len(w[t]) + 1] = x
      /\ \A i \in 1..Len(w[t]) : w2[t][i] = w[t][i] /\ i \in 1..Len(w2[t])
      /\ Len(w[t]) + 1 \in 1..Len(w2[t])
  BY <1>1
<1>. QED  BY <1>1, <1>2

LEMMA PutThere ==
  ASSUME NEW w \in [Task -> Seq(Tag)], NEW t \in Task, NEW x \in Tag,
         NEW w2, w2 = Put(w, t, x), NEW y, There(w, y) \/ y = x
  PROVE  There(w2, y)
<1>1. /\ \A u \in Task : u # t => w2[u] = w[u]
      /\ \A i \in 1..Len(w[t]) : w2[t][i] = w[t][i] /\ i \in 1..Len(w2[t])
      /\ Len(w[t]) + 1 \in 1..Len(w2[t]) /\ w2[t][Len(w[t]) + 1] = x
  BY PutAt
<1>2. \A u \in Task : \A i \in 1..Len(w[u]) : i \in 1..Len(w2[u]) /\ w2[u][i] = w[u][i]
  BY <1>1
<1>. QED  BY <1>1, <1>2 DEF There

LEMMA RestAt ==
  ASSUME NEW w \in [Task -> Seq(Tag)], NEW t \in Task, w[t] # <<>>,
         NEW w2, w2 = Rest(w, t)
  PROVE  /\ w2 \in [Task -> Seq(Tag)]
         /\ Len(w[t]) \in Nat /\ 1 \in 1..Len(w[t]) /\ Len(w2[t]) = Len(w[t]) - 1
         /\ Head(w[t]) = w[t][1] /\ w[t][1] \in Tag
         /\ \A u \in Task : u # t => w2[u] = w[u]
         /\ \A i \in 1..Len(w2[t]) : w2[t][i] = w[t][i + 1] /\ i + 1 \in 1..Len(w[t])
         /\ \A i \in 1..Len(w[t]) : i # 1 => i - 1 \in 1..Len(w2[t]) /\ w2[t][i - 1] = w[t][i]
<1>1. /\ w[t] \in Seq(Tag) /\ Len(w[t]) \in Nat /\ Len(w[t]) > 0 /\ w2[t] = Tail(w[t])
      /\ w2 \in [Task -> Seq(Tag)] /\ \A u \in Task : u # t => w2[u] = w[u]
  BY DEF Rest
<1>2. /\ Len(w2[t]) = Len(w[t]) - 1 /\ Head(w[t]) = w[t][1] /\ w[t][1] \in Tag
      /\ \A i \in 1..Len(w2[t]) : w2[t][i] = w[t][i + 1]
  BY <1>1
<1>3. ASSUME NEW i \in 1..Len(w[t]), i # 1
      PROVE  i - 1 \in 1..Len(w2[t]) /\ w2[t][i - 1] = w[t][i]
  <2>1. i - 1 \in 1..Len(w2[t]) /\ (i - 1) + 1 = i
    BY <1>1, <1>2, <1>3
  <2>. QED  BY <1>2, <2>1
<1>5. \A i \in 1..Len(w2[t]) : i + 1 \in 1..Len(w[t])
  BY <1>1, <1>2
<1>. QED  BY <1>1, <1>2, <1>3, <1>5

LEMMA RestThere ==
  ASSUME NEW w \in [Task -> Seq(Tag)], NEW t \in Task, w[t] # <<>>,
         NEW w2, w2 = Rest(w, t), NEW y, There(w, y), y # w[t][1]
  PROVE  There(w2, y)
<1>1. /\ \A u \in Task : u # t => w2[u] = w[u]
      /\ \A i \in 1..Len(w[t]) : i # 1 => i - 1 \in 1..Len(w2[t]) /\ w2[t][i - 1] = w[t][i]
  BY RestAt
<1>2. PICK u \in Task : \E i \in 1..Len(w[u]) : w[u][i] = y
  BY DEF There
<1>3. PICK i \in 1..Len(w[u]) : w[u][i] = y
  BY <1>2
<1>4. CASE u = t
  BY <1>1, <1>3, <1>4 DEF There
<1>5. CASE u # t
  BY <1>1, <1>3, <1>5 DEF There
<1>. QED  BY <1>4, <1>5

(* Taking a message out of a mailbox, or leaving, disorders none of the others. *)
LEMMA RestPlaced ==
  ASSUME NEW w, NEW ln, NEW dn, Placed(w, ln, dn), NEW t \in Task, w[t] # <<>>,
         NEW w2, w2 = Rest(w, t),
         NEW dn2 \in [Route -> Nat], \A r \in Route : dn[r] <= dn2[r] /\ dn2[r] <= ln[r]
  PROVE  Placed(w2, ln, dn2)
<1>1. /\ w \in [Task -> Seq(Tag)] /\ ln \in [Route -> Nat] /\ dn \in [Route -> Nat]
      /\ \A u \in Task : \A i \in 1..Len(w[u]) : w[u][i] \in Tag /\ Len(w[u]) \in Nat
  BY DEF Placed, Typed
<1>2. /\ w2 \in [Task -> Seq(Tag)]
      /\ \A u \in Task : u # t => w2[u] = w[u]
      /\ \A i \in 1..Len(w2[t]) : w2[t][i] = w[t][i + 1] /\ i + 1 \in 1..Len(w[t])
  <2>1. w \in [Task -> Seq(Tag)]
    BY <1>1
  <2>. QED  BY ONLY <2>1, t \in Task, w[t] # <<>>, w2 = Rest(w, t), RestAt
<1>3. ASSUME NEW u \in Task, NEW i \in 1..Len(w2[u])
      PROVE  \E k \in 1..Len(w[u]) : k = (IF u = t THEN i + 1 ELSE i) /\ w2[u][i] = w[u][k]
  BY <1>2
<1>4. \A x \in Tag : Waits(dn2, x) => Waits(dn, x)
  BY <1>1 DEF Tag, Waits
<1>5. Typed(w2, ln, dn2)
  <2>1. \A u \in Task : \A i \in 1..Len(w2[u]) : w2[u][i][2] \in 1..ln[w2[u][i][1]]
    BY <1>3 DEF Placed, Typed
  <2>. QED  BY <1>1, <1>2, <2>1 DEF Typed
<1>6. Underway(w2, dn2)
  BY <1>1, <1>3, <1>4 DEF Placed, Underway
<1>7. ASSUME NEW u \in Task, NEW v \in Task, NEW i \in 1..Len(w2[u]), NEW j \in 1..Len(w2[v]),
             Waits(dn2, w2[u][i])
      PROVE  /\ w2[u][i] = w2[v][j] => u = v /\ i = j
             /\ Behind(w2[u][i], u, i, w2[v][j], v, j)
  <2>1. PICK k \in 1..Len(w[u]) : k = (IF u = t THEN i + 1 ELSE i) /\ w2[u][i] = w[u][k]
    BY <1>3
  <2>2. PICK l \in 1..Len(w[v]) : l = (IF v = t THEN j + 1 ELSE j) /\ w2[v][j] = w[v][l]
    BY <1>3
  <2>3. Waits(dn, w[u][k])
    BY <1>1, <1>4, <1>7, <2>1
  <2>4. u = v /\ k = l => i = j
    BY <2>1, <2>2
  <2>5. u = v /\ k < l => i < j
    BY <2>1, <2>2
  <2>6. w[u][k] = w[v][l] => u = v /\ k = l
    BY <2>3 DEF Placed, Single
  <2>7. Behind(w[u][k], u, k, w[v][l], v, l)
    BY <2>3 DEF Placed, InTurn
  <2>. QED  BY <2>1, <2>2, <2>4, <2>5, <2>6, <2>7 DEF Behind
<1>. QED  BY <1>5, <1>6, <1>7 DEF Placed, Single, InTurn

(* Putting one in does not either if it is alone and in its turn. *)
LEMMA PutPlaced ==
  ASSUME NEW w, NEW ln, NEW dn, Placed(w, ln, dn), NEW t \in Task,
         NEW x \in Tag, x[2] \in 1..ln[x[1]], NEW w2, w2 = Put(w, t, x),
         Waits(dn, x) =>
           /\ OnPath(t, x[1])
           /\ \A u \in Task : \A j \in 1..Len(w[u]) :
                /\ w[u][j] # x
                /\ w[u][j][1] = x[1] /\ x[2] < w[u][j][2] => Rank(x[1], u) < Rank(x[1], t)
                /\ w[u][j][1] = x[1] /\ w[u][j][2] < x[2] /\ Waits(dn, w[u][j])
                     => Rank(x[1], t) < Rank(x[1], u) \/ t = u
  PROVE  Placed(w2, ln, dn)
<1>1. /\ w \in [Task -> Seq(Tag)] /\ ln \in [Route -> Nat] /\ dn \in [Route -> Nat]
      /\ \A u \in Task : \A i \in 1..Len(w[u]) : w[u][i] \in Tag /\ Len(w[u]) \in Nat
  BY DEF Placed, Typed
<1>2. /\ w2 \in [Task -> Seq(Tag)]
      /\ Len(w[t]) \in Nat /\ w2[t][Len(w[t]) + 1] = x
      /\ \A u \in Task : u # t => w2[u] = w[u]
      /\ \A i \in 1..Len(w[t]) : w2[t][i] = w[t][i]
      /\ \A i \in 1..Len(w2[t]) : i \in 1..Len(w[t]) \/ i = Len(w[t]) + 1
  BY <1>1, PutAt
<1>3. ASSUME NEW u \in Task, NEW i \in 1..Len(w2[u])
      PROVE  \/ i \in 1..Len(w[u]) /\ w2[u][i] = w[u][i]
             \/ u = t /\ i = Len(w[t]) + 1 /\ w2[u][i] = x
  BY <1>2
<1>4. Typed(w2, ln, dn)
  <2>1. \A u \in Task : \A i \in 1..Len(w2[u]) : w2[u][i][2] \in 1..ln[w2[u][i][1]]
    BY <1>3 DEF Placed, Typed
  <2>. QED  BY <1>1, <1>2, <2>1 DEF Placed, Typed
<1>5. Underway(w2, dn)
  BY <1>3 DEF Placed, Underway
<1>6. ASSUME NEW u \in Task, NEW v \in Task, NEW i \in 1..Len(w2[u]), NEW j \in 1..Len(w2[v]),
             Waits(dn, w2[u][i])
      PROVE  /\ w2[u][i] = w2[v][j] => u = v /\ i = j
             /\ Behind(w2[u][i], u, i, w2[v][j], v, j)
  <2>1. CASE i \in 1..Len(w[u]) /\ w2[u][i] = w[u][i] /\ j \in 1..Len(w[v]) /\ w2[v][j] = w[v][j]
    BY <1>6, <2>1 DEF Placed, Single, InTurn
  <2>2. CASE /\ i \in 1..Len(w[u]) /\ w2[u][i] = w[u][i]
             /\ v = t /\ j = Len(w[t]) + 1 /\ w2[v][j] = x
    <3>1. w[u][i] = x => Waits(dn, x)
      BY <1>6, <2>2
    <3>2. w[u][i][1] = x[1] /\ w[u][i][2] < x[2] => Waits(dn, x)
      <4>1. w[u][i] \in Tag
        BY <1>1, <2>2
      <4>. QED  BY <1>1, <1>6, <2>2, <4>1 DEF Waits, Tag
    <3>3. w[u][i] # x
      BY <2>2, <3>1
    <3>4. Behind(w[u][i], u, i, x, t, j)
      <4>1. u = t => i < j
        BY <1>2, <2>2
      <4>. QED  BY <1>6, <2>2, <3>2, <4>1 DEF Behind
    <3>. QED  BY <2>2, <3>3, <3>4
  <2>3. CASE /\ u = t /\ i = Len(w[t]) + 1 /\ w2[u][i] = x
             /\ j \in 1..Len(w[v]) /\ w2[v][j] = w[v][j]
    <3>1. w[v][j] # x
      BY <1>6, <2>3
    <3>2. Behind(x, t, i, w[v][j], v, j)
      BY <1>6, <2>3 DEF Behind
    <3>. QED  BY <2>3, <3>1, <3>2
  <2>4. CASE /\ u = t /\ i = Len(w[t]) + 1 /\ w2[u][i] = x
             /\ v = t /\ j = Len(w[t]) + 1 /\ w2[v][j] = x
    <3>1. x[2] \in Nat
      BY DEF Tag
    <3>. QED  BY <2>4, <3>1 DEF Behind
  <2>. QED  BY <1>3, <2>1, <2>2, <2>3, <2>4
<1>. QED  BY <1>4, <1>5, <1>6 DEF Placed, Single, InTurn

(* The five ways in which the messages under way change. *)
Bump(f, r) == [f EXCEPT ![r] = @ + 1]

LEMMA BumpAt ==
  ASSUME NEW f \in [Route -> Nat], NEW r \in Route, NEW g, g = Bump(f, r)
  PROVE  g \in [Route -> Nat] /\ g[r] = f[r] + 1 /\ \A q \in Route : q # r => g[q] = f[q]
  BY DEF Bump

(* One enters, at the first stage of its route. *)
LEMMA EnterLined ==
  ASSUME NEW w, NEW ln, NEW dn, Lined(w, ln, dn), NEW t \in Task, NEW r \in Route,
         OnPath(t, r), Rank(r, t) = 1,
         NEW ln2, ln2 = Bump(ln, r), NEW w2, w2 = Put(w, t, <<r, ln[r] + 1>>)
  PROVE  Lined(w2, ln2, dn)
<1>a. /\ w \in [Task -> Seq(Tag)] /\ ln \in [Route -> Nat] /\ dn \in [Route -> Nat]
      /\ \A q \in Route : dn[q] <= ln[q]
      /\ \A u \in Task : \A i \in 1..Len(w[u]) : w[u][i] \in Tag /\ w[u][i][2] \in 1..ln[w[u][i][1]]
  BY DEF Lined, Placed, Typed
<1>b. ln2 \in [Route -> Nat] /\ ln2[r] = ln[r] + 1 /\ \A q \in Route : q # r => ln2[q] = ln[q]
  <2>1. ln \in [Route -> Nat]
    BY <1>a
  <2>. QED  BY ONLY <2>1, r \in Route, ln2 = Bump(ln, r), BumpAt
<1>c. PICK x : x = <<r, ln[r] + 1>>
  OBVIOUS
<1>1. x \in Tag /\ x[1] = r /\ x[2] = ln[r] + 1 /\ ln[r] \in Nat /\ x[2] \in 1..ln2[x[1]]
  BY <1>a, <1>b, <1>c DEF Tag
<1>2. \A u \in Task : \A i \in 1..Len(w[u]) : w[u][i][2] \in Nat /\ w[u][i][1] \in Route
  BY <1>a DEF Tag
<1>d. \A q \in Route : /\ dn[q] \in Nat /\ ln[q] \in Nat /\ ln2[q] \in Nat
                       /\ ln2[q] = ln[q] + 1 \/ ln2[q] = ln[q]
  BY <1>a, <1>b
<1>e. ASSUME NEW q \in Route PROVE ln[q] <= ln2[q] /\ dn[q] <= ln2[q]
  <2>1. dn[q] <= ln[q]
    BY <1>a
  <2>. QED  BY ONLY <1>d, <2>1, q \in Route
<1>f. w2 = Put(w, t, x)
  BY <1>c
<1>3. Placed(w, ln2, dn)
  <2>1. ASSUME NEW u \in Task, NEW i \in 1..Len(w[u]) PROVE w[u][i][2] \in 1..ln2[w[u][i][1]]
    <3>1. w[u][i][1] \in Route /\ w[u][i][2] \in 1..ln[w[u][i][1]]
      BY <1>a, <1>2
    <3>. QED  BY <1>d, <1>e, <3>1
  <2>. QED  BY <1>a, <1>b, <1>e, <2>1 DEF Lined, Placed, Typed
<1>4. ASSUME NEW u \in Task, NEW j \in 1..Len(w[u])
      PROVE  /\ w[u][j] # x
             /\ ~(w[u][j][1] = x[1] /\ x[2] < w[u][j][2])
             /\ w[u][j][1] = x[1] /\ Waits(dn, w[u][j]) => Rank(r, t) < Rank(r, u) \/ t = u
  <2>1. w[u][j][1] = r => w[u][j][2] \in 1..ln[r]
    BY <1>a
  <2>2. w[u][j][1] = x[1] /\ Waits(dn, w[u][j]) => Rank(r, t) < Rank(r, u) \/ t = u
    <3>1. w[u][j][1] = x[1] /\ Waits(dn, w[u][j]) => OnPath(u, r)
      BY <1>1 DEF Lined, Placed, Underway
    <3>. QED  BY <3>1, SameStage, RankIsNat
  <2>. QED  BY <1>1, <2>1, <2>2
<1>5. Placed(w2, ln2, dn)
  BY <1>1, <1>3, <1>4, <1>c, PutPlaced
<1>6. Present(w2, ln2, dn)
  <2>1. \A y : There(w, y) \/ y = x => There(w2, y)
    BY ONLY <1>a, <1>1, <1>f, t \in Task, PutThere
  <2>2. ASSUME NEW q \in Route, NEW n \in dn[q] + 1 .. ln2[q], <<q, n>> # x PROVE There(w, <<q, n>>)
    <3>1. n \in dn[q] + 1 .. ln[q]
      BY <1>a, <1>b, <1>c, <2>2
    <3>. QED  BY <3>1 DEF Lined, Present
  <2>. QED  BY <2>1, <2>2 DEF Present
<1>. QED  BY <1>5, <1>6 DEF Lined

(* What is known of the first message of a mailbox. *)
LEMMA FirstLined ==
  ASSUME NEW w, NEW ln, NEW dn, Lined(w, ln, dn), NEW t \in Task, w[t] # <<>>,
         NEW x, x = w[t][1]
  PROVE  /\ w \in [Task -> Seq(Tag)] /\ ln \in [Route -> Nat] /\ dn \in [Route -> Nat]
         /\ x \in Tag /\ x[1] \in Route /\ x[2] \in 1..ln[x[1]] /\ Head(w[t]) = x
         /\ 1 \in 1..Len(w[t])
         /\ \A q \in Route : dn[q] <= ln[q]
         /\ Waits(dn, x) => OnPath(t, x[1])
<1>1. w \in [Task -> Seq(Tag)] /\ ln \in [Route -> Nat] /\ dn \in [Route -> Nat]
      /\ \A q \in Route : dn[q] <= ln[q]
  BY DEF Lined, Placed, Typed
<1>2. 1 \in 1..Len(w[t]) /\ x \in Tag /\ Head(w[t]) = x
  BY <1>1
<1>3. x[2] \in 1..ln[x[1]]
  BY <1>2 DEF Lined, Placed, Typed
<1>4. Waits(dn, x) => OnPath(t, x[1])
  BY <1>2 DEF Lined, Placed, Underway
<1>. QED  BY <1>1, <1>2, <1>3, <1>4 DEF Tag

(* One moves to the next stage of its route. *)
LEMMA MoveLined ==
  ASSUME NEW w, NEW ln, NEW dn, Lined(w, ln, dn), NEW t \in Task, w[t] # <<>>,
         NEW x, x = w[t][1], Waits(dn, x), NEW v \in Task, OnPath(v, x[1]),
         Rank(x[1], v) = Rank(x[1], t) + 1,
         NEW w1, w1 = Rest(w, t), NEW w2, w2 = Put(w1, v, x)
  PROVE  Lined(w2, ln, dn)
<1>1. /\ w \in [Task -> Seq(Tag)] /\ ln \in [Route -> Nat] /\ dn \in [Route -> Nat]
      /\ x \in Tag /\ x[1] \in Route /\ x[2] \in 1..ln[x[1]] /\ 1 \in 1..Len(w[t])
      /\ \A q \in Route : dn[q] <= ln[q]
  BY FirstLined
<1>2. Placed(w1, ln, dn)
  <2>1. \A q \in Route : dn[q] <= dn[q] /\ dn[q] <= ln[q]
    BY <1>1
  <2>. QED  BY <1>1, <2>1, RestPlaced DEF Lined
<1>3. /\ w1 \in [Task -> Seq(Tag)]
      /\ \A u \in Task : u # t => w1[u] = w[u]
      /\ \A i \in 1..Len(w1[t]) : w1[t][i] = w[t][i + 1] /\ i + 1 \in 1..Len(w[t])
  <2>1. w \in [Task -> Seq(Tag)]
    BY <1>1
  <2>. QED  BY ONLY <2>1, t \in Task, w[t] # <<>>, w1 = Rest(w, t), RestAt
<1>4. ASSUME NEW u \in Task, NEW j \in 1..Len(w1[u])
      PROVE  /\ w1[u][j] # x
             /\ w1[u][j][1] = x[1] /\ x[2] < w1[u][j][2] => Rank(x[1], u) < Rank(x[1], v)
             /\ w1[u][j][1] = x[1] /\ w1[u][j][2] < x[2] /\ Waits(dn, w1[u][j])
                  => Rank(x[1], v) < Rank(x[1], u) \/ v = u
  <2>1. PICK k \in 1..Len(w[u]) : w1[u][j] = w[u][k] /\ (u = t => k # 1 /\ 1 < k)
    BY <1>3
  <2>2. w[u][k] # x
    BY <1>1, <2>1 DEF Lined, Placed, Single
  <2>3. w[u][k][1] = x[1] /\ x[2] < w[u][k][2] => Rank(x[1], u) < Rank(x[1], v)
    <3>1. Behind(x, t, 1, w[u][k], u, k)
      BY <1>1 DEF Lined, Placed, InTurn
    <3>. QED  BY <3>1, RankIsNat DEF Behind
  <2>4. ASSUME w[u][k][1] = x[1], w[u][k][2] < x[2], Waits(dn, w[u][k])
        PROVE  Rank(x[1], v) < Rank(x[1], u) \/ v = u
    <3>1. Behind(w[u][k], u, k, x, t, 1)
      BY <1>1, <2>4 DEF Lined, Placed, InTurn
    <3>2. Rank(x[1], t) < Rank(x[1], u)
      BY <2>1, <2>4, <3>1 DEF Behind
    <3>3. OnPath(u, x[1])
      BY <2>4 DEF Lined, Placed, Underway
    <3>. QED  BY <3>2, <3>3, SameStage, RankIsNat
  <2>. QED  BY <2>1, <2>2, <2>3, <2>4
<1>5. Placed(w2, ln, dn)
  BY <1>1, <1>2, <1>4, PutPlaced
<1>6. Present(w2, ln, dn)
  <2>1. \A y : There(w, y) => y = x \/ There(w1, y)
    BY <1>1, RestThere
  <2>2. \A y : There(w1, y) \/ y = x => There(w2, y)
    BY ONLY <1>1, <1>3, v \in Task, w2 = Put(w1, v, x), PutThere
  <2>. QED  BY <2>1, <2>2 DEF Lined, Present
<1>. QED  BY <1>5, <1>6 DEF Lined

(* One leaves from the last stage of its route: it is the next in number. *)
LEMMA LeaveLined ==
  ASSUME NEW w, NEW ln, NEW dn, Lined(w, ln, dn), NEW t \in Task, w[t] # <<>>,
         NEW x, x = w[t][1], Waits(dn, x),
         \A u \in Task : OnPath(u, x[1]) => Rank(x[1], u) <= Rank(x[1], t),
         NEW w2, w2 = Rest(w, t), NEW dn2, dn2 = Bump(dn, x[1])
  PROVE  x[2] = dn[x[1]] + 1 /\ dn[x[1]] < ln[x[1]] /\ Lined(w2, ln, dn2)
<1>1. /\ w \in [Task -> Seq(Tag)] /\ ln \in [Route -> Nat] /\ dn \in [Route -> Nat]
      /\ x \in Tag /\ x[1] \in Route /\ x[2] \in 1..ln[x[1]] /\ 1 \in 1..Len(w[t])
      /\ \A q \in Route : dn[q] <= ln[q]
  BY FirstLined
<1>2. dn[x[1]] < x[2] /\ dn[x[1]] \in Nat /\ ln[x[1]] \in Nat
  BY <1>1 DEF Waits
<1>3. x[2] = dn[x[1]] + 1
  <2> SUFFICES ASSUME x[2] # dn[x[1]] + 1 PROVE FALSE
    OBVIOUS
  <2> DEFINE n == dn[x[1]] + 1
             y == <<x[1], n>>
  <2>1. n \in dn[x[1]] + 1 .. ln[x[1]] /\ n < x[2] /\ dn[x[1]] < n
    BY <1>1, <1>2
  <2>2. There(w, y)
    BY <1>1, <2>1 DEF Lined, Present
  <2>a. PICK u \in Task : \E i \in 1..Len(w[u]) : w[u][i] = y
    BY <2>2 DEF There
  <2>3. PICK i \in 1..Len(w[u]) : w[u][i] = y
    BY <2>a
  <2>4. y[1] = x[1] /\ y[2] = n
    OBVIOUS
  <2> HIDE DEF n, y
  <2>5. Waits(dn, w[u][i])
    BY <2>1, <2>3, <2>4 DEF Waits
  <2>6. OnPath(u, x[1])
    BY <2>3, <2>4, <2>5 DEF Lined, Placed, Underway
  <2>7. Behind(w[u][i], u, i, x, t, 1)
    BY <1>1, <2>5 DEF Lined, Placed, InTurn
  <2>8. Rank(x[1], t) < Rank(x[1], u) \/ i < 1
    BY <2>1, <2>3, <2>4, <2>7 DEF Behind
  <2>. QED  BY <2>6, <2>8, RankIsNat
<1>4. /\ dn2 \in [Route -> Nat] /\ dn2[x[1]] = dn[x[1]] + 1
      /\ \A q \in Route : q # x[1] => dn2[q] = dn[q]
  BY <1>1, BumpAt
<1>5. \A q \in Route : dn[q] <= dn2[q] /\ dn2[q] <= ln[q]
  <2>1. \A q \in Route : dn[q] \in Nat /\ ln[q] \in Nat /\ dn[q] <= ln[q]
    BY <1>1
  <2>2. dn2[x[1]] = dn[x[1]] + 1 /\ dn[x[1]] + 1 <= ln[x[1]]
    BY ONLY <1>1, <1>3, <1>4, <2>1
  <2>3. \A q \in Route : q # x[1] => dn2[q] = dn[q]
    BY <1>4
  <2>. QED  BY ONLY <2>1, <2>2, <2>3
<1>6. Placed(w2, ln, dn2)
  BY <1>4, <1>5, RestPlaced DEF Lined
<1>7. Present(w2, ln, dn2)
  <2>1. \A y : There(w, y) => y = x \/ There(w2, y)
    BY <1>1, RestThere
  <2>2. ASSUME NEW q \in Route, NEW n \in dn2[q] + 1 .. ln[q] PROVE There(w2, <<q, n>>)
    <3>1. n \in dn[q] + 1 .. ln[q] /\ <<q, n>> # x
      BY <1>1, <1>3, <1>4, <2>2
    <3>2. There(w, <<q, n>>)
      BY <3>1 DEF Lined, Present
    <3>. QED  BY <2>1, <3>1, <3>2
  <2>. QED  BY <2>2 DEF Present
<1>. QED  BY <1>1, <1>2, <1>3, <1>6, <1>7 DEF Lined

(* One that has left is taken, or put back. *)
LEMMA SkipLined ==
  ASSUME NEW w, NEW ln, NEW dn, Lined(w, ln, dn), NEW t \in Task, w[t] # <<>>,
         NEW x, x = w[t][1], ~Waits(dn, x), NEW w2, w2 = Rest(w, t)
  PROVE  Lined(w2, ln, dn)
<1>1. /\ w \in [Task -> Seq(Tag)] /\ ln \in [Route -> Nat] /\ dn \in [Route -> Nat]
      /\ x \in Tag /\ \A q \in Route : dn[q] <= ln[q]
  BY FirstLined
<1>2. Placed(w2, ln, dn)
  <2>1. \A q \in Route : dn[q] <= dn[q] /\ dn[q] <= ln[q]
    BY <1>1
  <2>. QED  BY <1>1, <2>1, RestPlaced DEF Lined
<1>3. \A y : There(w, y) => y = x \/ There(w2, y)
  BY <1>1, RestThere
<1>4. ASSUME NEW q \in Route, NEW n \in dn[q] + 1 .. ln[q] PROVE There(w2, <<q, n>>)
  <2>1. <<q, n>> # x
    BY <1>1, <1>4 DEF Waits
  <2>2. There(w, <<q, n>>)
    BY DEF Lined, Present
  <2>. QED  BY <1>3, <2>1, <2>2
<1>. QED  BY <1>2, <1>4 DEF Lined, Present

LEMMA AddLined ==
  ASSUME NEW w, NEW ln, NEW dn, Lined(w, ln, dn), NEW t \in Task,
         NEW x \in Tag, x[2] \in 1..ln[x[1]], ~Waits(dn, x), NEW w2, w2 = Put(w, t, x)
  PROVE  Lined(w2, ln, dn)
<1>1. Placed(w2, ln, dn)
  BY PutPlaced DEF Lined
<1>2. w \in [Task -> Seq(Tag)]
  BY DEF Lined, Placed, Typed
<1>3. \A y : There(w, y) => There(w2, y)
  BY <1>2, PutThere
<1>. QED  BY <1>1, <1>3 DEF Lined, Present
-----------------------------------------------------------------------------
(* What a message that is under way says of the offer behind it, and how it is
   marked in the mailbox of each task.                                     *)
Every == Fields \cup {"src_task_id", "if_des_type", "if_src_type", "if_sig", "if_src_task_id"}

(* The interface fields of a message that has them. *)
Ends(hd, o) == /\ hd.if_sig = o.sig /\ hd.if_src_task_id = o.src
               /\ hd.if_des_task_id = o.des /\ hd.if_des_type = o.if_des_type

Body(hd, bytes, o) ==
  /\ Every \subseteq DOMAIN hd
  /\ hd.type = o.type /\ hd.len = o.data.len /\ bytes = Received(o)
  /\ o.at # "local" => Ends(hd, o)

Marked(t, hd, o) ==
  \/ /\ t = "LINK" /\ hd.sig = GW_LINK_SEND[o.type]
     /\ o.at \in {"FW", "console"} /\ Exit(o) = "serial line"
  \/ t = "CPU_SERIAL" /\ hd.sig = GW_CPU_SERIAL_IF[o.type].IN /\ o.at = "serial"
  \/ /\ t = "CPU_SERIAL" /\ hd.sig = GW_CPU_SERIAL_IF[o.type].OUT
     /\ o.at = "FW" /\ Exit(o) = "serial line"
  \/ t = "IF" /\ hd.sig = GW_IF[o.type].IN /\ o.at \in Peer
  \/ t = "IF" /\ hd.sig = GW_IF[o.type].OUT /\ o.at = "FW"
  \/ t = "USB" /\ o.at = "FW" /\ Exit(o) = "usb line"
  \/ t = "IF_APP" /\ o.at = "FW" /\ Exit(o) = "socket"
  \/ /\ t \in Inner /\ o.at \in Peer \cup {"local"} /\ Exit(o) = t /\ o.des = t
     /\ hd.sig = o.sig /\ hd.src_task_id = o.src

Carries(t, hd, bytes, o) ==
  \/ Body(hd, bytes, o) /\ Marked(t, hd, o)
  \/ /\ t = "LINK" /\ hd.sig = GW_LINK_REV_MSG
     /\ Every \subseteq DOMAIN hd /\ hd.type = "COMMON" /\ bytes.of = o /\ o.at = "serial"

LEMMA ReceivedIs ==
  ASSUME OffersAreOrderly, NEW o \in Offer
  PROVE  /\ Cut(Received(o), o.data.len) = Received(o)
         /\ o.type = "PURE" => Received(o) = NoData /\ o.data.len = 0
         /\ o.at # "usb" \/ o.type # "DYNAMIC" => Received(o) = o.data
<1>1. o.data = [of |-> o.data.of, len |-> o.data.len]
  BY OffersAreKnown
<1>2. PICK n : n = o.data.len
  OBVIOUS
<1>3. PICK from : Received(o) = [of |-> from, len |-> n]
  BY <1>1, <1>2 DEF Received, Stray
<1>4. Cut(Received(o), n) = Received(o)
  BY ONLY <1>3 DEF Cut
<1>5. o.at # "usb" \/ o.type # "DYNAMIC" => Received(o) = o.data
  BY DEF Received
<1>6. o.type = "PURE" => Received(o) = NoData /\ o.data.len = 0
  <2>1. NoData.len = 0
    BY DEF NoData
  <2>. QED  BY <1>5, <2>1 DEF OffersAreOrderly
<1>. QED  BY <1>2, <1>4, <1>5, <1>6

(* The interface fields in a message that has those of another. *)
LEMMA EndsKept ==
  ASSUME NEW d, NEW e, NEW o, Body(d, d.data, o), DOMAIN e = DOMAIN d,
         \A f \in DOMAIN d : f \notin {"sig", "src_task_id"} => e[f] = d[f]
  PROVE  Body(e, e.data, o)
<1>1. Every \subseteq DOMAIN d
  BY DEF Body
<1>2. /\ e.type = d.type /\ e.if_sig = d.if_sig /\ e.if_src_task_id = d.if_src_task_id
      /\ e.if_des_task_id = d.if_des_task_id /\ e.if_des_type = d.if_des_type
      /\ e.len = d.len /\ e.data = d.data
  BY <1>1 DEF Every, Fields
<1>. QED  BY <1>1, <1>2 DEF Body, Ends

LEMMA CopySays ==
  ASSUME OffersAreOrderly, NEW o \in Offer, NEW mem, NEW src,
         Body(Header(mem, src), Data(mem, src), o), NEW d, d = ak_memcpy_msg(mem, src)
  PROVE  Body(d, d.data, o) /\ d.sig = Header(mem, src).sig
<1> DEFINE h0 == Header(mem, src)
           cut == Cut(Data(mem, src), Header(mem, src).len)
<1>1. d = Set(h0, [len |-> h0.len, data |-> cut]) /\ Body(h0, Data(mem, src), o)
  BY DEF ak_memcpy_msg, set_data_msg
<1>2. cut = Received(o)
  <2>1. Data(mem, src) = Received(o) /\ Header(mem, src).len = o.data.len
    BY DEF Body
  <2>. QED  BY <2>1, ReceivedIs
<1> HIDE DEF h0, cut
<1>3. Every \subseteq DOMAIN h0
  BY <1>1 DEF Body
<1>4. /\ DOMAIN d = DOMAIN h0 /\ d.data = cut /\ d.len = h0.len
      /\ \A f \in DOMAIN h0 : f # "len" /\ f # "data" => d[f] = h0[f]
  BY <1>1, <1>3 DEF Set, Every, Fields
<1>5. /\ d.type = h0.type /\ d.if_sig = h0.if_sig /\ d.if_src_task_id = h0.if_src_task_id
      /\ d.if_des_task_id = h0.if_des_task_id /\ d.if_des_type = h0.if_des_type /\ d.sig = h0.sig
  BY <1>3, <1>4 DEF Every, Fields
<1>. QED  BY <1>1, <1>2, <1>3, <1>4, <1>5 DEF Body, Ends, h0

LEMMA SetSays ==
  ASSUME NEW o, NEW d, Body(d, d.data, o), NEW x, NEW e, e = Set(d, [sig |-> x])
  PROVE  Body(e, e.data, o) /\ e.sig = x
<1>1. DOMAIN e = DOMAIN d /\ Every \subseteq DOMAIN d
      /\ \A f \in DOMAIN d : e[f] = IF f = "sig" THEN x ELSE d[f]
  BY DEF Set, Body
<1>2. e.sig = x
  BY <1>1 DEF Every, Fields
<1>. QED  BY <1>1, <1>2, EndsKept

LEMMA SetBothSay ==
  ASSUME NEW o, NEW d, Body(d, d.data, o), NEW x, NEW y,
         NEW e, e = Set(d, [sig |-> x, src_task_id |-> y])
  PROVE  Body(e, e.data, o) /\ e.sig = x /\ e.src_task_id = y
<1>1. DOMAIN e = DOMAIN d /\ Every \subseteq DOMAIN d
      /\ \A f \in DOMAIN d : e[f] = IF f = "sig" THEN x ELSE IF f = "src_task_id" THEN y ELSE d[f]
  BY DEF Set, Body
<1>2. e.sig = x /\ e.src_task_id = y
  BY <1>1 DEF Every, Fields
<1>. QED  BY <1>1, <1>2, EndsKept

(* What an offer is made into. *)
LEMMA FillSays ==
  ASSUME OffersAreOrderly, NEW o \in Offer
  PROVE  /\ Every \subseteq DOMAIN Fill(o) /\ Fill(o).type = o.type
         /\ Fill(o).len = o.data.len /\ Fill(o).data = Received(o)
<1> DEFINE g == get_msg(o.type)
           d == Fill(o)
<1>1. Every \subseteq DOMAIN g /\ g.type = o.type /\ g.len = 0 /\ g.data = NoData
  BY DEF get_msg, Every, Fields
<1>2. d = IF o.type = "PURE" THEN g
          ELSE Set(g, [len |-> o.data.len, data |-> Cut(Received(o), o.data.len)])
  BY DEF Fill, set_data_msg
<1>3. /\ Cut(Received(o), o.data.len) = Received(o)
      /\ o.type = "PURE" => Received(o) = NoData /\ o.data.len = 0
  BY ReceivedIs
<1> HIDE DEF g, d
<1>4. CASE o.type = "PURE"
  BY <1>1, <1>2, <1>3, <1>4 DEF d
<1>5. CASE o.type # "PURE"
  <2>1. d = Set(g, [len |-> o.data.len, data |-> Received(o)])
    BY <1>2, <1>3, <1>5
  <2>2. /\ DOMAIN d = DOMAIN g /\ d.data = Received(o) /\ d.len = o.data.len /\ d.type = g.type
    BY <1>1, <2>1 DEF Set, Every, Fields
  <2>. QED  BY <1>1, <2>2 DEF d
<1>. QED  BY <1>4, <1>5

LEMMA BuildSays ==
  ASSUME OffersAreOrderly, NEW o \in Offer, NEW d, d = Build(o)
  PROVE  Body(d, d.data, o)
<1> DEFINE f == Fill(o)
           src == o.src
           des == o.des
           sig == o.sig
           from == o.if_src_type
           to == o.if_des_type
<1>1. Every \subseteq DOMAIN f /\ f.type = o.type /\ f.len = o.data.len /\ f.data = Received(o)
  BY FillSays
<1>2. d = Set(f, [if_src_task_id |-> src, if_des_task_id |-> des, if_sig |-> sig,
                  if_src_type |-> from, if_des_type |-> to])
  BY DEF Build
<1> HIDE DEF f, src, des, sig, from, to
<1>3. /\ Every \subseteq DOMAIN d /\ d.type = f.type /\ d.len = f.len /\ d.data = f.data
  BY <1>1, <1>2 DEF Set, Every, Fields
<1>4. /\ d.if_sig = sig /\ d.if_src_task_id = src /\ d.if_des_task_id = des /\ d.if_des_type = to
  BY <1>1, <1>2 DEF Set, Every, Fields
<1>. QED  BY <1>1, <1>3, <1>4 DEF Body, Ends, src, des, sig, to

(* What task_post makes of a draft for task t. *)
Addressed(d, t) == Set(d, [des_task_id |-> t])
PostedHeader(d, t) == [Addressed(d, t) EXCEPT !.data = NoData]
PostedData(d, t) == IF Addressed(d, t).type = "PURE" THEN NoData ELSE Addressed(d, t).data

LEMMA PostedSays ==
  ASSUME OffersAreOrderly, NEW o \in Offer, NEW t, NEW d, Carries(t, d, d.data, o),
         NEW hd, hd = PostedHeader(d, t), NEW bytes, bytes = PostedData(d, t)
  PROVE  Carries(t, hd, bytes, o) /\ hd.des_task_id = t /\ hd.src_task_id = d.src_task_id
<1> DEFINE e == Addressed(d, t)
<1>0. hd = [e EXCEPT !.data = NoData] /\ bytes = IF e.type = "PURE" THEN NoData ELSE e.data
  BY DEF PostedHeader, PostedData
<1>1. Every \subseteq DOMAIN d
  BY DEF Carries, Body
<1>2. /\ DOMAIN e = DOMAIN d
      /\ \A f \in DOMAIN d : e[f] = IF f = "des_task_id" THEN t ELSE d[f]
  BY DEF Set, Addressed
<1> HIDE DEF e
<1>3. /\ DOMAIN hd = DOMAIN d
      /\ \A f \in DOMAIN d : f # "data" => hd[f] = e[f]
  BY <1>0, <1>2
<1>4. /\ hd.type = d.type /\ hd.if_sig = d.if_sig /\ hd.if_src_task_id = d.if_src_task_id
      /\ hd.if_des_task_id = d.if_des_task_id /\ hd.if_des_type = d.if_des_type /\ hd.len = d.len
      /\ hd.sig = d.sig /\ hd.src_task_id = d.src_task_id /\ hd.des_task_id = t
      /\ e.type = d.type /\ e.data = d.data
  BY <1>1, <1>2, <1>3 DEF Every, Fields
<1>5. CASE Body(d, d.data, o) /\ Marked(t, d, o)
  <2>1. bytes = Received(o)
    BY <1>0, <1>4, <1>5, ReceivedIs DEF Body
  <2>2. Body(hd, bytes, o)
    BY <1>1, <1>3, <1>4, <1>5, <2>1 DEF Body, Ends
  <2>3. Marked(t, hd, o)
    BY <1>4, <1>5 DEF Marked
  <2>. QED  BY <1>4, <2>2, <2>3 DEF Carries
<1>6. CASE /\ t = "LINK" /\ d.sig = GW_LINK_REV_MSG
           /\ d.type = "COMMON" /\ d.data.of = o /\ o.at = "serial"
  BY <1>0, <1>1, <1>3, <1>4, <1>6 DEF Carries
<1>. QED  BY <1>5, <1>6 DEF Carries
-----------------------------------------------------------------------------
(* The inductive invariant of the routes: the messages under way are lined up,
   and each says what the offer behind it promises.  Those that are not under
   way are what the firmware task and the system task send themselves, and what
   the debug task sends.                                                   *)
Letter(t, hd, bytes, x, sn, dn) ==
  IF Waits(dn, x)
    THEN /\ hd.des_task_id = t
         /\ \E o \in Offer : /\ RouteOf(o) = x[1] /\ sn[x[1]][x[2]] = Promised(o)
                             /\ Carries(t, hd, bytes, o)
    ELSE t \in {"FW", "SYS", "LINK"} /\ (t = "LINK" => hd.sig # GW_LINK_REV_MSG)

Told(bx, mem, w, sn, dn) ==
  \A t \in Task :
    /\ Len(w[t]) = Len(bx[t])
    /\ \A i \in 1..Len(bx[t]) : Letter(t, Header(mem, bx[t][i]), Data(mem, bx[t][i]), w[t][i], sn, dn)

Lens(sn) == [r \in Route |-> Len(sn[r])]
Contents == {Promised(o) : o \in Offer}

RoutedInv == /\ HeapInv
             /\ sent \in [Route -> Seq(Contents)]
             /\ Lined(carried, Lens(sent), done)
             /\ Told(box, heap, carried, sent, done)

LEMMA RouteIs ==
  ASSUME OffersAreOrderly, NEW o \in Offer, NEW r, r = RouteOf(o)
  PROVE  At(r) = o.at /\ r \in Route /\ r = <<o.src, Exit(o)>> /\ r[1] = o.src /\ r[2] = Exit(o)
<1>1. r \in Route /\ r = <<o.src, Exit(o)>> /\ r[1] = o.src /\ r[2] = Exit(o)
  BY DEF Route, RouteOf
<1>2. (CHOOSE p \in Offer : RouteOf(p) = r) \in Offer /\ RouteOf(CHOOSE p \in Offer : RouteOf(p) = r) = r
  OBVIOUS
<1>3. At(r) = o.at
  <2> DEFINE p == CHOOSE p \in Offer : RouteOf(p) = r
  <2>1. p \in Offer /\ RouteOf(p) = RouteOf(o)
    BY <1>2
  <2> HIDE DEF p
  <2>2. p.at = o.at
    BY <2>1 DEF OffersAreOrderly
  <2>. QED  BY <2>2 DEF At, p
<1>. QED  BY <1>1, <1>3

(* What the messages say while others are taken, put, numbered and stored. *)
LEMMA KeptTold ==
  ASSUME NEW bx, NEW hd, Places(bx, hd), NEW mem, NEW w, NEW sn, NEW dn, Told(bx, mem, w, sn, dn),
         NEW new, \A n \in Held(bx, hd) : Header(new, n) = Header(mem, n) /\ Data(new, n) = Data(mem, n)
  PROVE  Told(bx, new, w, sn, dn)
<1> SUFFICES ASSUME NEW t \in Task, NEW i \in 1..Len(bx[t])
             PROVE  Letter(t, Header(new, bx[t][i]), Data(new, bx[t][i]), w[t][i], sn, dn)
  BY DEF Told
<1>1. bx[t][i] \in Held(bx, hd)
  BY DEF Places, Held
<1>2. Letter(t, Header(mem, bx[t][i]), Data(mem, bx[t][i]), w[t][i], sn, dn)
  BY DEF Told
<1>3. Header(new, bx[t][i]) = Header(mem, bx[t][i]) /\ Data(new, bx[t][i]) = Data(mem, bx[t][i])
  BY <1>1
<1>. QED  BY <1>2, <1>3

LEMMA RestTold ==
  ASSUME NEW bx, NEW hd, Places(bx, hd), NEW mem, NEW w \in [Task -> Seq(Tag)], NEW sn, NEW dn,
         Told(bx, mem, w, sn, dn), NEW t \in Task, bx[t] # <<>>,
         NEW bx2, bx2 = Rest(bx, t), NEW w2, w2 = Rest(w, t)
  PROVE  Told(bx2, mem, w2, sn, dn)
<1>1. /\ bx[t] \in Seq(Block) /\ w[t] \in Seq(Tag) /\ Len(w[t]) = Len(bx[t])
      /\ bx2[t] = Tail(bx[t]) /\ w2[t] = Tail(w[t])
      /\ \A u \in Task \ {t} : bx2[u] = bx[u] /\ w2[u] = w[u]
  BY DEF Rest, Places, Told
<1>2. /\ Len(bx2[t]) = Len(bx[t]) - 1 /\ Len(w2[t]) = Len(w[t]) - 1
      /\ \A i \in 1..Len(bx2[t]) : /\ bx2[t][i] = bx[t][i + 1] /\ w2[t][i] = w[t][i + 1]
                                  /\ i + 1 \in 1..Len(bx[t])
  BY <1>1
<1>3. ASSUME NEW u \in Task
      PROVE  /\ Len(w2[u]) = Len(bx2[u])
             /\ \A i \in 1..Len(bx2[u]) :
                  Letter(u, Header(mem, bx2[u][i]), Data(mem, bx2[u][i]), w2[u][i], sn, dn)
  <2>1. CASE u = t
    BY <1>1, <1>2, <2>1 DEF Told
  <2>2. CASE u # t
    BY <1>1, <2>2 DEF Told
  <2>. QED  BY <2>1, <2>2
<1>. QED  BY <1>3 DEF Told

LEMMA PutTold ==
  ASSUME NEW bx, NEW hd, Places(bx, hd), NEW mem, NEW w \in [Task -> Seq(Tag)], NEW sn, NEW dn,
         Told(bx, mem, w, sn, dn), NEW t \in Task, NEW b \in Block, NEW x \in Tag,
         Letter(t, Header(mem, b), Data(mem, b), x, sn, dn),
         NEW bx2, bx2 = Put(bx, t, b), NEW w2, w2 = Put(w, t, x)
  PROVE  Told(bx2, mem, w2, sn, dn)
<1>1. /\ bx[t] \in Seq(Block) /\ w[t] \in Seq(Tag) /\ Len(w[t]) = Len(bx[t])
      /\ bx2[t] = Append(bx[t], b) /\ w2[t] = Append(w[t], x)
      /\ \A u \in Task \ {t} : bx2[u] = bx[u] /\ w2[u] = w[u]
  BY DEF Put, Places, Told
<1>2. /\ Len(bx2[t]) = Len(bx[t]) + 1 /\ Len(w2[t]) = Len(w[t]) + 1
      /\ \A i \in 1..Len(bx2[t]) : i \in 1..Len(bx[t]) \/ i = Len(bx[t]) + 1
      /\ \A i \in 1..Len(bx[t]) : bx2[t][i] = bx[t][i] /\ w2[t][i] = w[t][i]
      /\ bx2[t][Len(bx[t]) + 1] = b /\ w2[t][Len(bx[t]) + 1] = x
  BY <1>1
<1>3. ASSUME NEW u \in Task
      PROVE  /\ Len(w2[u]) = Len(bx2[u])
             /\ \A i \in 1..Len(bx2[u]) :
                  Letter(u, Header(mem, bx2[u][i]), Data(mem, bx2[u][i]), w2[u][i], sn, dn)
  <2>1. CASE u = t
    BY <1>1, <1>2, <2>1 DEF Told
  <2>2. CASE u # t
    BY <1>1, <2>2 DEF Told
  <2>. QED  BY <2>1, <2>2
<1>. QED  BY <1>3 DEF Told

(* A number is given out, or one that is in no mailbox any more has left. *)
LEMMA NumberTold ==
  ASSUME NEW bx, NEW mem, NEW w, NEW sn, NEW dn, Told(bx, mem, w, sn, dn),
         NEW sn2, NEW dn2,
         \A t \in Task : \A i \in 1..Len(w[t]) :
           /\ Waits(dn2, w[t][i]) <=> Waits(dn, w[t][i])
           /\ sn2[w[t][i][1]][w[t][i][2]] = sn[w[t][i][1]][w[t][i][2]]
  PROVE  Told(bx, mem, w, sn2, dn2)
<1>1. ASSUME NEW t \in Task, NEW i \in 1..Len(bx[t])
      PROVE  Letter(t, Header(mem, bx[t][i]), Data(mem, bx[t][i]), w[t][i], sn2, dn2)
  <2>1. Letter(t, Header(mem, bx[t][i]), Data(mem, bx[t][i]), w[t][i], sn, dn) /\ i \in 1..Len(w[t])
    BY DEF Told
  <2>. QED  BY <2>1 DEF Letter
<1>. QED  BY <1>1 DEF Told
-----------------------------------------------------------------------------
(* The kinds of step, by what they do to the messages under way. *)
LEMMA FirstLetter ==
  ASSUME RoutedInv, NEW t \in Task, Taking(t), NEW x, x = carried[t][1]
  PROVE  /\ carried \in [Task -> Seq(Tag)] /\ carried[t] # <<>> /\ Head(carried[t]) = x
         /\ x \in Tag /\ x[1] \in Route /\ x[2] \in 1..Len(sent[x[1]])
         /\ done \in [Route -> Nat]
         /\ Waits(done, x) => OnPath(t, x[1])
         /\ Letter(t, h(t), Data(heap, m(t)), x, sent, done)
         /\ Places(box, hand) /\ box[t] # <<>> /\ m(t) \in Messages
<1>1. carried \in [Task -> Seq(Tag)]
  BY DEF RoutedInv, Lined, Placed, Typed
<1>2. Len(carried[t]) = Len(box[t])
  BY DEF RoutedInv, Told
<1>3. /\ Places(box, hand) /\ box[t] \in Seq(Block) /\ box[t] # <<>> /\ m(t) = box[t][1]
      /\ m(t) \in Messages
  BY TakenPlaces DEF RoutedInv, HeapInv
<1>4. carried[t] # <<>> /\ 1 \in 1..Len(box[t])
  BY <1>1, <1>2, <1>3
<1>5. /\ x \in Tag /\ x[1] \in Route /\ x[2] \in 1..Lens(sent)[x[1]] /\ Head(carried[t]) = x
      /\ done \in [Route -> Nat]
      /\ Waits(done, x) => OnPath(t, x[1])
  BY <1>4, FirstLined DEF RoutedInv
<1>6. Letter(t, h(t), Data(heap, m(t)), x, sent, done)
  BY <1>3, <1>4 DEF RoutedInv, Told, h
<1>7. Lens(sent)[x[1]] = Len(sent[x[1]])
  BY <1>5 DEF Lens
<1>8. x[2] \in 1..Len(sent[x[1]])
  BY ONLY <1>5, <1>7
<1>. QED  BY <1>1, <1>3, <1>4, <1>5, <1>6, <1>8

LEMMA AfterLeaving ==
  ASSUME RoutedInv, NEW t \in Task, Taking(t), NEW x, x = carried[t][1], Waits(done, x),
         \A u \in Task : OnPath(u, x[1]) => Rank(x[1], u) <= Rank(x[1], t),
         NEW new, \A n \in Messages : Header(new, n) = Header(heap, n) /\ Data(new, n) = Data(heap, n),
         NEW bx, bx = Rest(box, t), NEW w, w = Rest(carried, t), NEW dn, dn = Bump(done, x[1])
  PROVE  /\ x[2] = done[x[1]] + 1 /\ done[x[1]] < Len(sent[x[1]])
         /\ Lined(w, Lens(sent), dn) /\ Told(bx, new, w, sent, dn)
<1>1. /\ carried \in [Task -> Seq(Tag)] /\ carried[t] # <<>> /\ x \in Tag /\ x[1] \in Route
      /\ Places(box, hand) /\ box[t] # <<>> /\ done \in [Route -> Nat]
  BY FirstLetter
<1>2. Lined(carried, Lens(sent), done) /\ Told(box, heap, carried, sent, done)
  BY DEF RoutedInv
<1>3. /\ x[2] = done[x[1]] + 1 /\ done[x[1]] < Lens(sent)[x[1]]
      /\ Lined(w, Lens(sent), dn)
  BY <1>1, <1>2, LeaveLined
<1>4. Told(bx, new, w, sent, done)
  <2>1. Told(box, new, carried, sent, done)
    BY <1>1, <1>2, KeptTold DEF Messages
  <2>. QED  BY <1>1, <2>1, RestTold
<1>5. ASSUME NEW u \in Task, NEW i \in 1..Len(w[u]) PROVE Waits(dn, w[u][i]) <=> Waits(done, w[u][i])
  <2>1. /\ \A v \in Task : v # t => w[v] = carried[v]
        /\ \A j \in 1..Len(w[t]) : w[t][j] = carried[t][j + 1] /\ j + 1 \in 1..Len(carried[t])
        /\ 1 \in 1..Len(carried[t]) /\ w \in [Task -> Seq(Tag)]
    BY ONLY <1>1, t \in Task, w = Rest(carried, t), RestAt
  <2>2. PICK k \in 1..Len(carried[u]) : w[u][i] = carried[u][k] /\ (u = t => k # 1)
    BY <2>1
  <2>3. Waits(done, w[u][i]) => w[u][i] # x
    BY <2>1, <2>2, <1>2 DEF Lined, Placed, Single
  <2>4. w[u][i] \in Tag /\ x \in Tag
    BY <1>1, <2>1
  <2>5. dn[x[1]] = done[x[1]] + 1 /\ \A q \in Route : q # x[1] => dn[q] = done[q]
    BY <1>1, BumpAt
  <2>6. CASE w[u][i][1] # x[1]
    BY <2>4, <2>5, <2>6 DEF Waits, Tag
  <2>7. CASE w[u][i][1] = x[1]
    <3>1. /\ w[u][i][2] \in Nat /\ x[2] \in Nat /\ done[x[1]] \in Nat
          /\ w[u][i][2] = x[2] => w[u][i] = x
      BY <1>1, <2>4, <2>7, TagIs
    <3>2. Waits(done, w[u][i]) <=> done[x[1]] < w[u][i][2]
      BY <2>7 DEF Waits
    <3>3. Waits(dn, w[u][i]) <=> done[x[1]] + 1 < w[u][i][2]
      BY <2>5, <2>7 DEF Waits
    <3>. QED  BY ONLY <1>3, <2>3, <3>1, <3>2, <3>3
  <2>. QED  BY <2>6, <2>7
<1>6. Told(bx, new, w, sent, dn)
  BY <1>4, <1>5, NumberTold
<1>. QED  BY <1>1, <1>3, <1>6 DEF Lens

LEMMA LeaveStep ==
  ASSUME RoutedInv, NEW t \in Task, Taking(t), NEW x, x = carried[t][1], Waits(done, x),
         \A u \in Task : OnPath(u, x[1]) => Rank(x[1], u) <= Rank(x[1], t),
         HeapInv', box' = Rest(box, t), carried' = Rest(carried, t), Left(x[1]),
         \A n \in Messages : Header(heap', n) = Header(heap, n) /\ Data(heap', n) = Data(heap, n)
  PROVE  RoutedInv' /\ x[2] = done[x[1]] + 1 /\ done[x[1]] < Len(sent[x[1]])
<1>1. sent' = sent /\ done' = Bump(done, x[1])
  BY DEF Left, Bump
<1>2. /\ x[2] = done[x[1]] + 1 /\ done[x[1]] < Len(sent[x[1]])
      /\ Lined(carried', Lens(sent), done') /\ Told(box', heap', carried', sent, done')
  BY <1>1, AfterLeaving
<1>3. sent' \in [Route -> Seq(Contents)] /\ Lined(carried', Lens(sent'), done')
      /\ Told(box', heap', carried', sent', done')
  BY <1>1, <1>2 DEF RoutedInv
<1>. QED  BY <1>2, <1>3 DEF RoutedInv

(* What a task sent for a message that has left is taken. *)
LEMMA SkipStep ==
  ASSUME RoutedInv, NEW t \in Task, Taking(t), ~Waits(done, carried[t][1]),
         Take(t), UNCHANGED <<heap, leaked>>, UNCHANGED history
  PROVE  RoutedInv'
<1>1. /\ HeapInv' /\ box' = Rest(box, t) /\ carried' = Rest(carried, t)
      /\ sent' = sent /\ done' = done /\ heap' = heap
  BY TakeStep DEF RoutedInv, Take, Rest, history
<1>2. /\ carried \in [Task -> Seq(Tag)] /\ carried[t] # <<>>
      /\ Places(box, hand) /\ box[t] # <<>>
  BY FirstLetter
<1>3. Lined(carried', Lens(sent), done)
  BY <1>1, <1>2, SkipLined DEF RoutedInv
<1>4. Told(box', heap, carried', sent, done)
  BY <1>1, <1>2, RestTold DEF RoutedInv
<1>5. sent' \in [Route -> Seq(Contents)] /\ Lined(carried', Lens(sent'), done')
      /\ Told(box', heap', carried', sent', done')
  BY <1>1, <1>3, <1>4 DEF RoutedInv
<1>. QED  BY <1>1, <1>5 DEF RoutedInv

(* A message goes on to the next task of its route. *)
LEMMA MoveStep ==
  ASSUME OffersAreOrderly, RoutedInv, NEW t \in Task, Taking(t), NEW draft, NEW dst \in Task,
         Forward(t, draft, dst), UNCHANGED history,
         NEW x, x = carried[t][1], Waits(done, x), NEW o \in Offer, RouteOf(o) = x[1],
         sent[x[1]][x[2]] = Promised(o), Carries(dst, draft, draft.data, o),
         OnPath(dst, x[1]), Rank(x[1], dst) = Rank(x[1], t) + 1
  PROVE  RoutedInv'
<1> DEFINE d == Set(draft, [des_task_id |-> dst])
           new == Stored(heap, d)
<1>1. /\ HeapInv' /\ new.msg \in Block
      /\ heap' = new.mem /\ box' = Put(Rest(box, t), dst, new.msg)
      /\ \A n \in Messages : Header(heap', n) = Header(heap, n) /\ Data(heap', n) = Data(heap, n)
      /\ Header(heap', new.msg) = PostedHeader(draft, dst)
      /\ Data(heap', new.msg) = PostedData(draft, dst)
  <2>1. HeapInv
    BY DEF RoutedInv
  <2>2. d = Set(draft, [des_task_id |-> dst]) /\ new = Stored(heap, d)
    OBVIOUS
  <2>. QED  BY <2>1, <2>2, ForwardStep DEF PostedHeader, PostedData, Addressed
<1>2. /\ carried \in [Task -> Seq(Tag)] /\ carried[t] # <<>> /\ Head(carried[t]) = x
      /\ x \in Tag /\ Places(box, hand) /\ box[t] # <<>>
  BY FirstLetter
<1>3. /\ carried' = Put(Rest(carried, t), dst, x) /\ sent' = sent /\ done' = done
  BY <1>2 DEF Forward, Put, Rest, history
<1>4. Lined(carried', Lens(sent), done)
  <2>1. Lined(carried, Lens(sent), done)
    BY DEF RoutedInv
  <2>. QED  BY <1>2, <1>3, <2>1, MoveLined
<1> HIDE DEF d, new
<1>5. Letter(dst, Header(heap', new.msg), Data(heap', new.msg), x, sent, done)
  <2>1. /\ Carries(dst, Header(heap', new.msg), Data(heap', new.msg), o)
        /\ Header(heap', new.msg).des_task_id = dst
    BY <1>1, PostedSays
  <2>. QED  BY <2>1 DEF Letter
<1>7. Told(box', heap', carried', sent, done)
  <2>1. Told(box, heap', carried, sent, done)
    BY <1>1, <1>2, KeptTold DEF RoutedInv, Messages
  <2>2. Told(Rest(box, t), heap', Rest(carried, t), sent, done)
    BY <1>2, <2>1, RestTold
  <2>3. /\ Rest(carried, t) \in [Task -> Seq(Tag)]
        /\ \E hd : Places(Rest(box, t), hd)
    BY <1>2, RestAt, TakenPlaces DEF RoutedInv
  <2>. QED  BY <1>1, <1>2, <1>3, <1>5, <2>2, <2>3, PutTold
<1>8. sent' \in [Route -> Seq(Contents)] /\ Lined(carried', Lens(sent'), done')
      /\ Told(box', heap', carried', sent', done')
  BY <1>3, <1>4, <1>7 DEF RoutedInv
<1>. QED  BY <1>1, <1>8 DEF RoutedInv

(* What tasks may send that is on no route. *)
Aside(dst, d) == \/ dst \in {"FW", "SYS"}
                 \/ dst = "LINK" /\ "sig" \in DOMAIN d /\ d.sig # GW_LINK_REV_MSG

LEMMA AsideSays ==
  ASSUME NEW dst, NEW d, Aside(dst, d), NEW x, NEW bytes, NEW sn, NEW dn, ~Waits(dn, x)
  PROVE  Letter(dst, PostedHeader(d, dst), bytes, x, sn, dn)
<1>1. CASE dst \in {"FW", "SYS"}
  BY <1>1 DEF Letter
<1>2. CASE dst = "LINK" /\ "sig" \in DOMAIN d /\ d.sig # GW_LINK_REV_MSG
  <2>1. "sig" \in DOMAIN Addressed(d, dst) /\ Addressed(d, dst).sig = d.sig
    BY <1>2 DEF Addressed, Set
  <2>2. PostedHeader(d, dst).sig = d.sig
    BY <2>1 DEF PostedHeader
  <2>. QED  BY <1>2, <2>2 DEF Letter
<1>. QED  BY <1>1, <1>2 DEF Aside

(* A task answers what it has taken, a message that leaves its route. *)
LEMMA AnswerStep ==
  ASSUME RoutedInv, NEW t \in Task, Taking(t), NEW draft, NEW dst \in Task,
         Forward(t, draft, dst), Aside(dst, draft),
         NEW x, x = carried[t][1], Waits(done, x), Left(x[1]),
         \A u \in Task : OnPath(u, x[1]) => Rank(x[1], u) <= Rank(x[1], t)
  PROVE  RoutedInv' /\ x[2] = done[x[1]] + 1 /\ done[x[1]] < Len(sent[x[1]])
<1> DEFINE d == Set(draft, [des_task_id |-> dst])
           new == Stored(heap, d)
<1>1. /\ HeapInv' /\ new.msg \in Block
      /\ heap' = new.mem /\ box' = Put(Rest(box, t), dst, new.msg)
      /\ \A n \in Messages : Header(heap', n) = Header(heap, n) /\ Data(heap', n) = Data(heap, n)
      /\ Header(heap', new.msg) = PostedHeader(draft, dst)
  <2>1. HeapInv
    BY DEF RoutedInv
  <2>2. d = Set(draft, [des_task_id |-> dst]) /\ new = Stored(heap, d)
    OBVIOUS
  <2>. QED  BY <2>1, <2>2, ForwardStep DEF PostedHeader, Addressed
<1> HIDE DEF d, new
<1>2. /\ carried \in [Task -> Seq(Tag)] /\ carried[t] # <<>> /\ Head(carried[t]) = x
      /\ x \in Tag /\ x[1] \in Route /\ x[2] \in 1..Len(sent[x[1]])
      /\ done \in [Route -> Nat] /\ Places(box, hand) /\ box[t] # <<>>
  BY FirstLetter
<1>3. /\ carried' = Put(Rest(carried, t), dst, x) /\ sent' = sent /\ done' = Bump(done, x[1])
  BY <1>2 DEF Forward, Put, Rest, Left, Bump
<1>4. /\ x[2] = done[x[1]] + 1 /\ done[x[1]] < Len(sent[x[1]])
      /\ Lined(Rest(carried, t), Lens(sent), done')
      /\ Told(Rest(box, t), heap', Rest(carried, t), sent, done')
  BY <1>1, <1>3, AfterLeaving
<1>5. ~Waits(done', x)
  BY <1>2, <1>3, <1>4, BumpAt DEF Waits
<1>6. Lined(carried', Lens(sent), done')
  <2>1. x[2] \in 1..Lens(sent)[x[1]]
    BY <1>2 DEF Lens
  <2>. QED  BY <1>2, <1>3, <1>4, <1>5, <2>1, AddLined
<1>7. Letter(dst, Header(heap', new.msg), Data(heap', new.msg), x, sent, done')
  BY <1>1, <1>5, AsideSays
<1>8. Told(box', heap', carried', sent', done')
  <2>1. /\ Rest(carried, t) \in [Task -> Seq(Tag)]
        /\ \E hd : Places(Rest(box, t), hd)
    BY <1>2, RestAt, TakenPlaces DEF RoutedInv
  <2>. QED  BY <1>1, <1>2, <1>3, <1>4, <1>7, <2>1, PutTold
<1>9. sent' \in [Route -> Seq(Contents)] /\ Lined(carried', Lens(sent'), done')
      /\ Told(box', heap', carried', sent', done')
  BY <1>3, <1>6, <1>8 DEF RoutedInv
<1>. QED  BY <1>1, <1>4, <1>9 DEF RoutedInv

(* It answers what was sent for a message that has left. *)
LEMMA SkipAnswerStep ==
  ASSUME RoutedInv, NEW t \in Task, Taking(t), NEW draft, NEW dst \in Task,
         Forward(t, draft, dst), Aside(dst, draft), UNCHANGED history,
         NEW x, x = carried[t][1], ~Waits(done, x)
  PROVE  RoutedInv'
<1> DEFINE d == Set(draft, [des_task_id |-> dst])
           new == Stored(heap, d)
<1>1. /\ HeapInv' /\ new.msg \in Block
      /\ heap' = new.mem /\ box' = Put(Rest(box, t), dst, new.msg)
      /\ \A n \in Messages : Header(heap', n) = Header(heap, n) /\ Data(heap', n) = Data(heap, n)
      /\ Header(heap', new.msg) = PostedHeader(draft, dst)
  <2>1. HeapInv
    BY DEF RoutedInv
  <2>2. d = Set(draft, [des_task_id |-> dst]) /\ new = Stored(heap, d)
    OBVIOUS
  <2>. QED  BY <2>1, <2>2, ForwardStep DEF PostedHeader, Addressed
<1> HIDE DEF d, new
<1>2. /\ carried \in [Task -> Seq(Tag)] /\ carried[t] # <<>> /\ Head(carried[t]) = x
      /\ x \in Tag /\ x[1] \in Route /\ x[2] \in 1..Len(sent[x[1]])
      /\ done \in [Route -> Nat] /\ Places(box, hand) /\ box[t] # <<>>
  BY FirstLetter
<1>3. carried' = Put(Rest(carried, t), dst, x) /\ sent' = sent /\ done' = done
  BY <1>2 DEF Forward, Put, Rest, history
<1>4. Lined(Rest(carried, t), Lens(sent), done)
  BY <1>2, SkipLined DEF RoutedInv
<1>5. Lined(carried', Lens(sent), done)
  <2>1. x[2] \in 1..Lens(sent)[x[1]]
    BY <1>2 DEF Lens
  <2>. QED  BY <1>2, <1>3, <1>4, <2>1, AddLined
<1>6. Letter(dst, Header(heap', new.msg), Data(heap', new.msg), x, sent, done)
  BY <1>1, AsideSays
<1>7. Told(box', heap', carried', sent, done)
  <2>1. Told(box, heap', carried, sent, done)
    BY <1>1, <1>2, KeptTold DEF RoutedInv, Messages
  <2>2. Told(Rest(box, t), heap', Rest(carried, t), sent, done)
    BY <1>2, <2>1, RestTold
  <2>3. /\ Rest(carried, t) \in [Task -> Seq(Tag)]
        /\ \E hd : Places(Rest(box, t), hd)
    BY <1>2, RestAt, TakenPlaces DEF RoutedInv
  <2>. QED  BY <1>1, <1>2, <1>3, <1>6, <2>2, <2>3, PutTold
<1>8. sent' \in [Route -> Seq(Contents)] /\ Lined(carried', Lens(sent'), done')
      /\ Told(box', heap', carried', sent', done')
  BY <1>3, <1>5, <1>7 DEF RoutedInv
<1>. QED  BY <1>1, <1>8 DEF RoutedInv

(* A message enters. *)
LEMMA EnterRouted ==
  ASSUME OffersAreOrderly, RoutedInv, NEW o \in Offer, NEW draft, NEW dst \in Task,
         Enter(o, draft, dst), Carries(dst, draft, draft.data, o),
         NEW r, r = RouteOf(o), OnPath(dst, r), Rank(r, dst) = 1
  PROVE  RoutedInv'
<1> DEFINE d == Set(draft, [des_task_id |-> dst])
           new == Stored(heap, d)
<1>1. /\ HeapInv' /\ new.msg \in Block
      /\ heap' = new.mem /\ box' = Put(box, dst, new.msg)
      /\ \A n \in Messages : Header(heap', n) = Header(heap, n) /\ Data(heap', n) = Data(heap, n)
      /\ Header(heap', new.msg) = PostedHeader(draft, dst)
      /\ Data(heap', new.msg) = PostedData(draft, dst)
  <2>1. HeapInv
    BY DEF RoutedInv
  <2>2. d = Set(draft, [des_task_id |-> dst]) /\ new = Stored(heap, d)
    OBVIOUS
  <2>. QED  BY <2>1, <2>2, EnterStep DEF PostedHeader, PostedData, Addressed, Put
<1> HIDE DEF d, new
<1>2. /\ carried \in [Task -> Seq(Tag)] /\ done \in [Route -> Nat] /\ Lens(sent) \in [Route -> Nat]
      /\ \A q \in Route : done[q] <= Lens(sent)[q]
      /\ \A u \in Task : \A i \in 1..Len(carried[u]) :
           carried[u][i] \in Tag /\ carried[u][i][2] \in 1..Lens(sent)[carried[u][i][1]]
      /\ Places(box, hand)
  BY DEF RoutedInv, HeapInv, Lined, Placed, Typed
<1>3. r \in Route
  BY RouteIs
<1>4. /\ sent \in [Route -> Seq(Contents)] /\ Promised(o) \in Contents
      /\ sent' = [sent EXCEPT ![r] = Append(@, Promised(o))] /\ done' = done
  BY DEF Enter, RoutedInv, Contents
<1>5. /\ sent' \in [Route -> Seq(Contents)] /\ Len(sent[r]) \in Nat
      /\ Len(sent'[r]) = Len(sent[r]) + 1 /\ sent'[r][Len(sent[r]) + 1] = Promised(o)
      /\ \A q \in Route : q # r => sent'[q] = sent[q]
      /\ \A i \in 1..Len(sent[r]) : sent'[r][i] = sent[r][i]
  <2>1. sent[r] \in Seq(Contents) /\ sent'[r] = Append(sent[r], Promised(o))
    BY <1>3, <1>4
  <2>. QED  BY <1>3, <1>4, <2>1
<1>6. Lens(sent') = Bump(Lens(sent), r)
  BY <1>3, <1>5 DEF Lens, Bump
<1>7. PICK x : x = <<r, Lens(sent)[r] + 1>>
  OBVIOUS
<1>8. /\ x \in Tag /\ x[1] = r /\ x[2] = Len(sent[r]) + 1
      /\ carried' = Put(carried, dst, x)
  <2>1. Lens(sent)[r] = Len(sent[r])
    BY <1>3 DEF Lens
  <2>2. x = <<r, Len(sent[r]) + 1>>
    BY <1>7, <2>1
  <2>. QED  BY <1>3, <1>5, <2>2 DEF Tag, Enter, Put
<1>9. Lined(carried', Lens(sent'), done')
  BY <1>3, <1>4, <1>6, <1>7, <1>8, EnterLined DEF RoutedInv
<1>10. Letter(dst, Header(heap', new.msg), Data(heap', new.msg), x, sent', done)
  <2>1. /\ Carries(dst, Header(heap', new.msg), Data(heap', new.msg), o)
        /\ Header(heap', new.msg).des_task_id = dst
    BY <1>1, PostedSays
  <2>2. sent'[x[1]][x[2]] = Promised(o)
    BY <1>5, <1>8
  <2>3. Waits(done, x)
    <3>1. Lens(sent)[r] = Len(sent[r]) /\ done[r] \in Nat
      BY <1>2, <1>3 DEF Lens
    <3>. QED  BY <1>2, <1>3, <1>5, <1>8, <3>1 DEF Waits
  <2>. QED  BY <1>8, <2>1, <2>2, <2>3 DEF Letter
<1>11. Told(box, heap', carried, sent', done)
  <2>1. Told(box, heap', carried, sent, done)
    BY <1>1, <1>2, KeptTold DEF RoutedInv, Messages
  <2>2. ASSUME NEW u \in Task, NEW i \in 1..Len(carried[u])
        PROVE  sent'[carried[u][i][1]][carried[u][i][2]] = sent[carried[u][i][1]][carried[u][i][2]]
    <3>1. carried[u][i][1] \in Route /\ carried[u][i][2] \in 1..Lens(sent)[carried[u][i][1]]
      BY <1>2, TagIs
    <3>2. Lens(sent)[carried[u][i][1]] = Len(sent[carried[u][i][1]])
      BY <3>1 DEF Lens
    <3>3. CASE carried[u][i][1] = r
      BY <1>5, <3>1, <3>2, <3>3
    <3>4. CASE carried[u][i][1] # r
      BY <1>5, <3>1, <3>4
    <3>. QED  BY <3>3, <3>4
  <2>. QED  BY <2>1, <2>2, NumberTold
<1>12. Told(box', heap', carried', sent', done')
  BY <1>1, <1>2, <1>4, <1>8, <1>10, <1>11, PutTold
<1>. QED  BY <1>1, <1>5, <1>9, <1>12 DEF RoutedInv

(* A message in hand is freed, or the process ends. *)
LEMMA ReleaseRouted == ASSUME RoutedInv, NEW t \in Task, Release(t) PROVE RoutedInv'
<1>1. /\ HeapInv' /\ box' = box
      /\ \A u \in Task : \A i \in 1..Len(box[u]) :
           /\ Header(heap', box[u][i]) = Header(heap, box[u][i])
           /\ Data(heap', box[u][i]) = Data(heap, box[u][i])
  BY ReleaseStep DEF RoutedInv
<1>2. carried' = carried /\ sent' = sent /\ done' = done
  BY DEF Release, history
<1>3. sent' \in [Route -> Seq(Contents)] /\ Lined(carried', Lens(sent'), done')
  BY <1>2 DEF RoutedInv
<1>4. Told(box', heap', carried', sent', done')
  BY <1>1, <1>2 DEF RoutedInv, Told
<1>. QED  BY <1>1, <1>3, <1>4 DEF RoutedInv

LEMMA IdleRouted ==
  ASSUME RoutedInv, UNCHANGED <<heap, box, hand, leaked, carried>>, UNCHANGED history,
         offered' = offered \/ \E o \in Offer \ offered : offered' = offered \cup {o}
                                                        /\ Cardinality(offered) < MaxOffers
  PROVE  RoutedInv'
<1>1. HeapInv'
  BY IdleStep DEF RoutedInv
<1>2. carried' = carried /\ sent' = sent /\ done' = done /\ heap' = heap /\ box' = box
  BY DEF history
<1>3. /\ sent' \in [Route -> Seq(Contents)] /\ Lined(carried', Lens(sent'), done')
      /\ Told(box', heap', carried', sent', done')
  BY <1>2 DEF RoutedInv
<1>. QED  BY <1>1, <1>3 DEF RoutedInv
-----------------------------------------------------------------------------
(* Every action keeps the invariant and is a step of the routes, or none. *)
Routed == RoutedInv' /\ (R!RoutesNext \/ UNCHANGED history)

LEMMA SignalsDiffer ==
  ASSUME NEW p \in Type, NEW q \in Type
  PROVE  /\ GW_IF[p].IN = GW_IF[q].IN => p = q
         /\ GW_IF[p].OUT = GW_IF[q].OUT => p = q
         /\ GW_IF[p].IN # GW_IF[q].OUT
         /\ GW_CPU_SERIAL_IF[p].IN = GW_IF[p].IN /\ GW_CPU_SERIAL_IF[p].OUT = GW_IF[p].OUT
<1>1. GW_CPU_SERIAL_IF = GW_IF
  BY DEF GW_CPU_SERIAL_IF, GW_IF
<1>. QED  BY <1>1, SignalsApart

LEMMA FirstOffer ==
  ASSUME RoutedInv, NEW t \in Task, Taking(t), NEW x, x = carried[t][1],
         \/ Waits(done, x)
         \/ t \notin {"FW", "SYS", "LINK"}
         \/ t = "LINK" /\ h(t).sig = GW_LINK_REV_MSG
  PROVE  /\ Waits(done, x) /\ h(t).des_task_id = t
         /\ \E o \in Offer : /\ RouteOf(o) = x[1] /\ sent[x[1]][x[2]] = Promised(o)
                             /\ Carries(t, h(t), Data(heap, m(t)), o)
<1>1. Letter(t, h(t), Data(heap, m(t)), x, sent, done)
  BY FirstLetter
<1>. QED  BY <1>1 DEF Letter

(* A message that is its task's own does not wait to leave. *)
LEMMA OwnWaits ==
  ASSUME RoutedInv, NEW t \in Task, Taking(t), NEW x, x = carried[t][1]
  PROVE  Own(t) <=> ~Waits(done, x)
<1>1. /\ Head(carried[t]) = x /\ x \in Tag /\ x[1] \in Route /\ done \in [Route -> Nat]
  BY FirstLetter
<1>2. x[2] \in Nat /\ done[x[1]] \in Nat
  BY <1>1, TagIs
<1>3. Own(t) <=> done[x[1]] >= x[2]
  BY <1>1 DEF Own
<1>4. Waits(done, x) <=> done[x[1]] < x[2]
  BY DEF Waits
<1>. QED  BY ONLY <1>2, <1>3, <1>4

LEMMA OutDelivers ==
  ASSUME NEW r \in Route, done[r] < Len(sent[r]), NEW seen, seen = sent[r][done[r] + 1], Out(r, seen)
  PROVE  R!RoutesNext
<1>1. R!Deliver(r)
  BY DEF Out, Left, R!Deliver, R!Leave
<1>. QED  BY <1>1 DEF R!RoutesNext

LEMMA LostLoses ==
  ASSUME NEW r \in Route, r[2] \in {"socket", "nowhere"}, done[r] < Len(sent[r]), Lost(r)
  PROVE  R!RoutesNext
<1>1. R!Lose(r)
  BY DEF Lost, Left, R!Lose, R!Leave
<1>. QED  BY <1>1 DEF R!RoutesNext

LEMMA EnterAccepts ==
  ASSUME NEW o \in Offer, NEW draft, NEW dst, Enter(o, draft, dst)
  PROVE  R!RoutesNext
<1>1. RouteOf(o) \in Route /\ Promised(o) \in {Promised(p) : p \in Offer}
  BY DEF Route
<1>2. R!Accept(RouteOf(o), Promised(o))
  BY DEF Enter, R!Accept
<1>. QED  BY <1>1, <1>2 DEF R!RoutesNext

(* The first message of a mailbox leaves its route as it was promised. *)
LEMMA LeaveRouted ==
  ASSUME RoutedInv, NEW t \in Task, Taking(t), NEW x, x = carried[t][1], Waits(done, x),
         \A u \in Task : OnPath(u, x[1]) => Rank(x[1], u) <= Rank(x[1], t),
         NEW o \in Offer, sent[x[1]][x[2]] = Promised(o),
         HeapInv', box' = Rest(box, t), carried' = Rest(carried, t),
         \A n \in Messages : Header(heap', n) = Header(heap, n) /\ Data(heap', n) = Data(heap, n),
         Out(x[1], Promised(o)) \/ (Lost(x[1]) /\ x[1][2] \in {"socket", "nowhere"})
  PROVE  Routed
<1>1. Left(x[1])
  BY DEF Out, Lost
<1>2. RoutedInv' /\ x[2] = done[x[1]] + 1 /\ done[x[1]] < Len(sent[x[1]])
  BY <1>1, LeaveStep
<1>3. x[1] \in Route
  BY FirstLetter
<1>4. Promised(o) = sent[x[1]][done[x[1]] + 1]
  BY <1>2
<1>5. R!RoutesNext
  BY <1>2, <1>3, <1>4, OutDelivers, LostLoses
<1>. QED  BY <1>2, <1>5 DEF Routed

LEMMA TakeRouted ==
  ASSUME RoutedInv, NEW t \in Task, Taking(t), NEW x, x = carried[t][1], Waits(done, x),
         \A u \in Task : OnPath(u, x[1]) => Rank(x[1], u) <= Rank(x[1], t),
         NEW o \in Offer, sent[x[1]][x[2]] = Promised(o),
         Take(t), UNCHANGED <<heap, leaked>>,
         Out(x[1], Promised(o)) \/ (Lost(x[1]) /\ x[1][2] \in {"socket", "nowhere"})
  PROVE  Routed
<1>1. HeapInv' /\ box' = Rest(box, t) /\ carried' = Rest(carried, t) /\ heap' = heap
  BY TakeStep DEF RoutedInv, Take, Rest
<1>2. \A n \in Messages : Header(heap', n) = Header(heap, n) /\ Data(heap', n) = Data(heap, n)
  BY <1>1
<1>. QED  BY <1>1, <1>2, LeaveRouted

(* The stages of the routes. *)
LEMMA SerialStages ==
  ASSUME NEW r, At(r) = "serial"
  PROVE  /\ OnPath("LINK", r) /\ OnPath("CPU_SERIAL", r) /\ OnPath("IF", r)
         /\ Rank(r, "LINK") = 1 /\ Rank(r, "CPU_SERIAL") = 2 /\ Rank(r, "IF") = 3
         /\ \A t \in Inner : Rank(r, t) = 4 /\ (r[2] = t => OnPath(t, r))
         /\ r[2] \notin Inner => \A u : OnPath(u, r) => Rank(r, u) <= 3
         /\ \A u : Rank(r, u) <= 4
  BY InnerOnly DEF OnPath, Rank

LEMMA PeerStages ==
  ASSUME NEW r, At(r) \in {"socket", "usb"}
  PROVE  /\ OnPath("IF", r) /\ Rank(r, "IF") = 1
         /\ \A t \in Inner : Rank(r, t) = 2 /\ (r[2] = t => OnPath(t, r))
         /\ r[2] \notin Inner => \A u : OnPath(u, r) => Rank(r, u) <= 1
         /\ \A u : Rank(r, u) <= 2
<1>1. At(r) # "serial" /\ At(r) # "FW" /\ At(r) # "console" /\ At(r) # "local"
  OBVIOUS
<1>2. \A u : Rank(r, u) = IF u \in {"IF", "LINK"} THEN 1 ELSE 2
  BY <1>1 DEF Rank
<1>3. \A u : OnPath(u, r) <=> u = "IF" \/ (u \in Inner /\ u = r[2])
  BY <1>1 DEF OnPath
<1>4. \A u : Rank(r, u) <= 2
  BY <1>2
<1>5. r[2] \notin Inner => \A u : OnPath(u, r) => Rank(r, u) <= 1
  BY <1>2, <1>3
<1>6. \A t \in Inner : t \notin {"IF", "LINK"}
  BY InnerOnly
<1>. QED  BY <1>2, <1>3, <1>4, <1>5, <1>6

LEMMA LocalStages ==
  ASSUME NEW r, At(r) = "local"
  PROVE  /\ \A u : Rank(r, u) = 1
         /\ \A t \in Inner : r[2] = t => OnPath(t, r)
<1>1. \A u : Rank(r, u) = 1
  BY DEF Rank
<1>2. \A t \in Inner : r[2] = t => OnPath(t, r)
  BY DEF OnPath
<1>. QED  BY <1>1, <1>2

LEMMA FwStages ==
  ASSUME NEW r, At(r) = "FW"
  PROVE  /\ OnPath("IF", r) /\ Rank(r, "IF") = 1 /\ Rank(r, "LINK") = 3
         /\ \A t \in {"IF_APP", "USB", "CPU_SERIAL"} : Rank(r, t) = 2
         /\ r[2] = "socket" => OnPath("IF_APP", r)
         /\ r[2] = "usb line" => OnPath("USB", r)
         /\ r[2] = "serial line" => OnPath("CPU_SERIAL", r) /\ OnPath("LINK", r)
         /\ r[2] # "serial line" => \A u : OnPath(u, r) => Rank(r, u) <= 2
         /\ r[2] = "nowhere" => \A u : OnPath(u, r) => Rank(r, u) <= 1
         /\ \A u : Rank(r, u) <= 3
<1>1. \A u : Rank(r, u) = IF u = "IF" THEN 1 ELSE IF u = "LINK" THEN 3 ELSE 2
  BY DEF Rank
<1>2. ASSUME NEW u, OnPath(u, r)
      PROVE  u = "IF" \/ (u \in {"IF_APP", "USB"} /\ r[2] # "nowhere") \/ r[2] = "serial line"
  BY <1>2 DEF OnPath
<1>3. (\A u : Rank(r, u) <= 3) /\ \A u : u # "LINK" => Rank(r, u) <= 2
  BY <1>1
<1>4. r[2] # "serial line" => \A u : OnPath(u, r) => Rank(r, u) <= 2
  <2>1. ASSUME r[2] # "serial line", NEW u, OnPath(u, r) PROVE u # "LINK"
    BY <1>2, <2>1
  <2>. QED  BY <1>3, <2>1
<1>5. r[2] = "nowhere" => \A u : OnPath(u, r) => Rank(r, u) <= 1
  <2>1. ASSUME r[2] = "nowhere", NEW u, OnPath(u, r) PROVE u = "IF"
    BY <1>2, <2>1
  <2>. QED  BY <1>1, <2>1
<1>6. \A t \in {"IF_APP", "USB", "CPU_SERIAL"} : Rank(r, t) = 2
  BY <1>1
<1>7. OnPath("IF", r) /\ Rank(r, "IF") = 1 /\ Rank(r, "LINK") = 3
  <2>1. OnPath("IF", r)
    BY DEF OnPath
  <2>. QED  BY <1>1, <2>1
<1>8. /\ r[2] = "socket" => OnPath("IF_APP", r)
      /\ r[2] = "usb line" => OnPath("USB", r)
      /\ r[2] = "serial line" => OnPath("CPU_SERIAL", r) /\ OnPath("LINK", r)
  <2>1. r[2] = "socket" => OnPath("IF_APP", r)
    BY DEF OnPath
  <2>2. r[2] = "usb line" => OnPath("USB", r)
    BY DEF OnPath
  <2>3. r[2] = "serial line" => OnPath("CPU_SERIAL", r) /\ OnPath("LINK", r)
    BY DEF OnPath
  <2>. QED  BY <2>1, <2>2, <2>3
<1>. QED  BY <1>3, <1>4, <1>5, <1>6, <1>7, <1>8

LEMMA ConsoleStages ==
  ASSUME NEW r, At(r) = "console"
  PROVE  /\ OnPath("LINK", r) /\ Rank(r, "LINK") = 1
         /\ \A u : OnPath(u, r) => Rank(r, u) <= 1
<1>1. Rank(r, "LINK") = 1
  BY DEF Rank
<1>2. \A u : OnPath(u, r) <=> u = "LINK"
  BY DEF OnPath
<1>. QED  BY <1>1, <1>2

(* The message that a task of the gateway is handed is at the end of its route. *)
LEMMA HandedOver ==
  ASSUME OffersAreOrderly, RoutedInv, NEW t \in AppTask, Taking(t), Handed(t),
         NEW x, x = carried[t][1], Waits(done, x)
  PROVE  /\ \A u \in Task : OnPath(u, x[1]) => Rank(x[1], u) <= Rank(x[1], t)
         /\ \E o \in Offer : sent[x[1]][x[2]] = Promised(o) /\ Out(x[1], Promised(o))
<1>0. t \in Task /\ t \in Inner /\ t \notin {"IF", "LINK", "CPU_SERIAL", "USB", "IF_APP"}
  BY InnerOnly DEF Inner
<1>2. PICK o \in Offer : /\ RouteOf(o) = x[1] /\ sent[x[1]][x[2]] = Promised(o)
                        /\ Carries(t, h(t), Data(heap, m(t)), o)
  BY <1>0, FirstOffer
<1>3. h(t).des_task_id = t /\ ~Own(t)
  BY <1>0, FirstOffer, OwnWaits
<1>4. /\ Body(h(t), Data(heap, m(t)), o) /\ o.at \in Peer \cup {"local"}
      /\ Exit(o) = t /\ o.des = t /\ h(t).sig = o.sig /\ h(t).src_task_id = o.src
  BY <1>0, <1>2 DEF Carries, Marked
<1>5. At(x[1]) = o.at /\ x[1] = <<o.src, t>> /\ x[1][2] = t
  BY <1>2, <1>4, RouteIs
<1>6. \A u \in Task : OnPath(u, x[1]) => Rank(x[1], u) <= Rank(x[1], t)
  <2>1. CASE o.at = "serial"
    BY <1>0, <1>5, <2>1, SerialStages
  <2>2. CASE o.at \in {"socket", "usb"}
    BY <1>0, <1>5, <2>2, PeerStages
  <2>3. CASE o.at = "local"
    BY <1>5, <2>3, LocalStages
  <2>. QED  BY <1>4, <2>1, <2>2, <2>3 DEF Peer
<1>7. Out(x[1], Promised(o))
  <2>1. Out(<<h(t).src_task_id, t>>, Seen(h(t).type, h(t).sig, h(t).src_task_id, h(t).des_task_id,
                                          Data(heap, m(t))))
    BY <1>3 DEF Handed
  <2>2. Seen(h(t).type, h(t).sig, h(t).src_task_id, h(t).des_task_id, Data(heap, m(t))) = Promised(o)
    BY <1>3, <1>4 DEF Body, Promised
  <2>3. <<h(t).src_task_id, t>> = x[1]
    BY <1>4, <1>5
  <2>. QED  BY <2>1, <2>2, <2>3
<1>. QED  BY <1>2, <1>6, <1>7

(* It posts nothing for it, or it answers. *)
LEMMA TakenRouted ==
  ASSUME OffersAreOrderly, RoutedInv, NEW t \in AppTask, Taking(t), Handed(t),
         Take(t), UNCHANGED <<heap, leaked>>
  PROVE  Routed
<1>1. t \in Task
  BY InnerOnly DEF Inner
<1>2. PICK x : x = carried[t][1]
  OBVIOUS
<1>3. CASE Waits(done, x)
  <2>1. /\ \A u \in Task : OnPath(u, x[1]) => Rank(x[1], u) <= Rank(x[1], t)
        /\ \E o \in Offer : sent[x[1]][x[2]] = Promised(o) /\ Out(x[1], Promised(o))
    BY <1>2, <1>3, HandedOver
  <2>. QED  BY <1>1, <1>2, <1>3, <2>1, TakeRouted
<1>4. CASE ~Waits(done, x)
  <2>1. UNCHANGED history
    BY <1>1, <1>2, <1>4, OwnWaits DEF Handed
  <2>2. RoutedInv'
    BY <1>1, <1>2, <1>4, <2>1, SkipStep
  <2>. QED  BY <2>1, <2>2 DEF Routed
<1>. QED  BY <1>3, <1>4

LEMMA AnsweredRouted ==
  ASSUME OffersAreOrderly, RoutedInv, NEW t \in AppTask, Taking(t), Handed(t),
         NEW draft, NEW dst \in Task, Forward(t, draft, dst), Aside(dst, draft)
  PROVE  Routed
<1>1. t \in Task
  BY InnerOnly DEF Inner
<1>2. PICK x : x = carried[t][1]
  OBVIOUS
<1>3. CASE Waits(done, x)
  <2>1. \A u \in Task : OnPath(u, x[1]) => Rank(x[1], u) <= Rank(x[1], t)
    BY <1>2, <1>3, HandedOver
  <2>2. PICK o \in Offer : sent[x[1]][x[2]] = Promised(o) /\ Out(x[1], Promised(o))
    BY <1>2, <1>3, HandedOver
  <2>3. Left(x[1])
    BY <2>2 DEF Out
  <2>4. RoutedInv' /\ x[2] = done[x[1]] + 1 /\ done[x[1]] < Len(sent[x[1]])
    BY <1>1, <1>2, <1>3, <2>1, <2>3, AnswerStep
  <2>5. x[1] \in Route
    BY <1>1, <1>2, FirstLetter
  <2>6. Promised(o) = sent[x[1]][done[x[1]] + 1]
    BY <2>2, <2>4
  <2>7. R!RoutesNext
    BY <2>2, <2>4, <2>5, <2>6, OutDelivers
  <2>. QED  BY <2>4, <2>7 DEF Routed
<1>4. CASE ~Waits(done, x)
  <2>1. UNCHANGED history
    BY <1>1, <1>2, <1>4, OwnWaits DEF Handed
  <2>2. RoutedInv'
    BY <1>1, <1>2, <1>4, <2>1, SkipAnswerStep
  <2>. QED  BY <2>1, <2>2 DEF Routed
<1>. QED  BY <1>3, <1>4

(* The process ends. *)
LEMMA StopRouted ==
  ASSUME RoutedInv, NEW code, Stop(code), UNCHANGED <<offered, history>> PROVE Routed
<1>1. UNCHANGED <<heap, box, hand, leaked, carried>> /\ UNCHANGED history /\ offered' = offered
  BY DEF Stop
<1>. QED  BY <1>1, IdleRouted DEF Routed

LEMMA FwRouted == ASSUME OffersAreOrderly, RoutedInv, FwGets PROVE Routed
<1>1. Taking("FW")
  BY DEF FwGets
<1>2. CASE FwFatal # "none"
  BY <1>2, StopRouted DEF FwGets
<1>3. CASE FwFatal = "none"
  <2> DEFINE e == Set(get_msg("PURE"), [sig |-> FwPosts[h("FW").sig], src_task_id |-> "FW"])
  <2>1. /\ Handed("FW")
        /\ Forward("FW", e, "FW") \/ (Take("FW") /\ UNCHANGED <<heap, leaked>>)
    BY <1>3 DEF FwGets
  <2>2. Aside("FW", e)
    BY DEF Aside
  <2> HIDE DEF e
  <2>. QED  BY <1>1, <2>1, <2>2, Hops, TakenRouted, AnsweredRouted
<1>. QED  BY <1>2, <1>3

LEMMA SysRouted == ASSUME OffersAreOrderly, RoutedInv, SysGets PROVE Routed
<1> DEFINE c == ak_memcpy_msg(heap, m("SYS"))
           e == Set(c, [sig |-> SysPosts[h("SYS").sig], src_task_id |-> "SYS"])
<1>1. /\ Taking("SYS") /\ Handed("SYS")
      /\ Forward("SYS", e, "SYS") \/ (Take("SYS") /\ UNCHANGED <<heap, leaked>>)
  BY DEF SysGets
<1>2. Aside("SYS", e)
  BY DEF Aside
<1> HIDE DEF e
<1>. QED  BY <1>1, <1>2, Hops, TakenRouted, AnsweredRouted

LEMMA SensorRouted == ASSUME OffersAreOrderly, RoutedInv, SensorGets PROVE Routed
  BY Hops, TakenRouted DEF SensorGets

LEMMA DebugAside ==
  ASSUME NEW type \in Type, NEW sig
  PROVE  Aside("LINK", Test(type)) /\ Aside("SYS", Signal(sig))
<1> DEFINE n == IF type = "COMMON" THEN 64 ELSE 256
           cut == Cut([of |-> "test", len |-> 256], n)
           g == set_data_msg(get_msg(type), [of |-> "test", len |-> 256], n)
           x == GW_LINK_SEND[type]
           e == Test(type)
<1>1. g = Set(get_msg(type), [len |-> n, data |-> cut])
  BY DEF set_data_msg
<1>2. e = Set(g, [sig |-> x, if_src_type |-> "UART_GW", if_des_type |-> "UART_AC",
                  if_des_task_id |-> "AC_TASK_DBG", if_sig |-> "AC_DBG_TEST"])
  BY DEF Test
<1> HIDE DEF n, cut, g, x, e
<1>3. "sig" \in DOMAIN g
  BY <1>1 DEF Set, get_msg
<1>4. "sig" \in DOMAIN e /\ e.sig = x
  BY <1>2, <1>3 DEF Set
<1>5. Aside("LINK", e)
  BY <1>4, SignalsApart DEF Aside, x
<1>6. Aside("SYS", Signal(sig))
  BY DEF Aside
<1>. QED  BY <1>5, <1>6 DEF e

LEMMA DebugRouted == ASSUME OffersAreOrderly, RoutedInv, DebugGets PROVE Routed
<1>1. Taking("DEBUG")
  BY DEF DebugGets
<1>2. CASE Stop("AK 22") /\ UNCHANGED <<offered, history>>
  BY <1>2, StopRouted
<1>3. CASE /\ Take("DEBUG") /\ Handed("DEBUG")
           /\ LET b == malloc({b \in Block : heap[b] = Free})
                  bytes == Cut(Data(heap, m("DEBUG")), h("DEBUG").len % 256)
              IN /\ heap' = [heap EXCEPT ![b] = [kind |-> "data", bytes |-> bytes]]
                 /\ leaked' = leaked \cup {b}
  <2> DEFINE b == malloc({c \in Block : heap[c] = Free})
             bytes == Cut(Data(heap, m("DEBUG")), h("DEBUG").len % 256)
  <2>1. /\ heap' = [heap EXCEPT ![b] = [kind |-> "data", bytes |-> bytes]]
        /\ leaked' = leaked \cup {b}
    BY <1>3
  <2>2. b = malloc({c \in Block : heap[c] = Free})
    OBVIOUS
  <2> HIDE DEF b, bytes
  <2>3. /\ HeapInv' /\ box' = Rest(box, "DEBUG") /\ carried' = Rest(carried, "DEBUG")
        /\ \A n \in Messages : Header(heap', n) = Header(heap, n) /\ Data(heap', n) = Data(heap, n)
    BY <1>1, <1>3, <2>1, <2>2, DebugStep DEF RoutedInv, Take, Rest
  <2>4. PICK x : x = carried["DEBUG"][1]
    OBVIOUS
  <2>5. Waits(done, x)
    BY <1>1, <2>4, Hops, FirstOffer
  <2>6. /\ \A u \in Task : OnPath(u, x[1]) => Rank(x[1], u) <= Rank(x[1], "DEBUG")
        /\ \E o \in Offer : sent[x[1]][x[2]] = Promised(o) /\ Out(x[1], Promised(o))
    BY <1>1, <1>3, <2>4, <2>5, Hops, HandedOver
  <2>. QED  BY <1>1, <2>3, <2>4, <2>5, <2>6, Hops, LeaveRouted
<1>4. CASE /\ h("DEBUG").sig \in DOMAIN DebugSends
           /\ Forward("DEBUG", Test(DebugSends[h("DEBUG").sig]), "LINK") /\ Handed("DEBUG")
  <2>1. DebugSends[h("DEBUG").sig] \in Type
    BY <1>4 DEF DebugSends, Type
  <2>. QED  BY <1>1, <1>4, <2>1, DebugAside, Hops, AnsweredRouted
<1>5. CASE Forward("DEBUG", Signal(DebugPosts[h("DEBUG").sig]), "SYS") /\ Handed("DEBUG")
  <2>1. "PURE" \in Type
    BY DEF Type
  <2>. QED  BY <1>1, <1>5, <2>1, DebugAside, Hops, AnsweredRouted
<1>6. CASE Take("DEBUG") /\ Handed("DEBUG") /\ UNCHANGED <<heap, leaked>>
  BY <1>1, <1>6, Hops, TakenRouted
<1>. QED  BY <1>2, <1>3, <1>4, <1>5, <1>6 DEF DebugGets
-----------------------------------------------------------------------------
(* The router hands a message to its task or to its interface. *)
LEMMA IfForwardsRouted == ASSUME OffersAreOrderly, RoutedInv, IfForwards PROVE Routed
<1>1. "IF" \in Task /\ Taking("IF") /\ UNCHANGED history
  BY DEF IfForwards, Task, Hop
<1>2. PICK x : x = carried["IF"][1]
  OBVIOUS
<1>3. PICK o \in Offer : /\ RouteOf(o) = x[1] /\ sent[x[1]][x[2]] = Promised(o)
                        /\ Carries("IF", h("IF"), Data(heap, m("IF")), o)
  BY <1>1, <1>2, FirstOffer
<1>4. Waits(done, x) /\ o.type \in Type
  BY <1>1, <1>2, FirstOffer, OffersAreKnown
<1>5. /\ Body(h("IF"), Data(heap, m("IF")), o)
      /\ \/ o.at \in Peer /\ h("IF").sig = GW_IF[o.type].IN
         \/ o.at = "FW" /\ h("IF").sig = GW_IF[o.type].OUT
  BY <1>3, InnerOnly DEF Carries, Marked
<1>6. /\ h("IF").if_des_type = o.if_des_type /\ h("IF").if_des_task_id = o.des
      /\ h("IF").if_src_task_id = o.src /\ h("IF").if_sig = o.sig
  BY <1>5 DEF Body, Ends, Peer
<1>7. At(x[1]) = o.at /\ x[1] \in Route /\ x[1][2] = Exit(o)
  BY <1>3, RouteIs
<1> DEFINE c == ak_memcpy_msg(heap, m("IF"))
<1>8. Body(c, c.data, o)
  <2>1. Body(Header(heap, m("IF")), Data(heap, m("IF")), o) /\ c = ak_memcpy_msg(heap, m("IF"))
    BY <1>5 DEF h
  <2>. QED  BY <2>1, CopySays
<1>9. PICK type \in Forwarded(o.if_des_type) :
        \/ /\ h("IF").sig = GW_IF[type].IN
           /\ Forward("IF", Unwrapped(m("IF")), o.des)
        \/ /\ h("IF").sig = GW_IF[type].OUT
           /\ Forward("IF", c, InterfaceTask(o.if_des_type))
  BY <1>6 DEF IfForwards
<1>10. type \in Type
  BY <1>9, Forwards
<1> HIDE DEF c
<1>11. CASE o.at \in Peer /\ Forward("IF", Unwrapped(m("IF")), o.des) /\ type = o.type
  <2>1. Exit(o) = o.des
    BY <1>9, <1>11 DEF Exit, Peer
  <2>2. CASE o.des \notin Task
    <3>1. Stop("AK 1A") /\ UNCHANGED <<offered, history>>
      BY <1>1, <1>11, <2>2 DEF Forward
    <3>. QED  BY <3>1, StopRouted
  <2>3. CASE o.des \in Task
    <3>1. o.des \in Inner
      BY <1>11, <2>3, OffersAreKnown DEF Inner
    <3>2. PICK e : e = Unwrapped(m("IF"))
      OBVIOUS
    <3>3. e = Set(c, [sig |-> h("IF").if_sig, src_task_id |-> h("IF").if_src_task_id])
      BY <3>2 DEF Unwrapped, c, h
    <3>4. Body(e, e.data, o) /\ e.sig = o.sig /\ e.src_task_id = o.src
      <4>1. Body(e, e.data, o) /\ e.sig = h("IF").if_sig /\ e.src_task_id = h("IF").if_src_task_id
        BY ONLY <1>8, <3>3, SetBothSay
      <4>. QED  BY <1>6, <4>1
    <3>5. Carries(o.des, e, e.data, o)
      BY <1>11, <2>1, <3>1, <3>4 DEF Carries, Marked
    <3>6. OnPath(o.des, x[1]) /\ Rank(x[1], o.des) = Rank(x[1], "IF") + 1
      <4>1. CASE o.at = "serial"
        BY <1>7, <2>1, <3>1, <4>1, SerialStages
      <4>2. CASE o.at \in {"socket", "usb"}
        BY <1>7, <2>1, <3>1, <4>2, PeerStages
      <4>. QED  BY <1>11, <4>1, <4>2 DEF Peer
    <3>7. RoutedInv'
      BY <1>1, <1>2, <1>3, <1>4, <1>11, <2>3, <3>2, <3>5, <3>6, MoveStep
    <3>. QED  BY <1>1, <3>7 DEF Routed
  <2>. QED  BY <2>2, <2>3
<1>12. CASE o.at = "FW" /\ Forward("IF", c, InterfaceTask(o.if_des_type)) /\ type = o.type
  <2>1. PICK dst : dst = InterfaceTask(o.if_des_type)
    OBVIOUS
  <2>2. \/ dst = "USB" /\ Exit(o) = "usb line"
        \/ dst = "IF_APP" /\ Exit(o) = "socket"
        \/ dst = "CPU_SERIAL" /\ Exit(o) = "serial line"
    <3>1. dst \in {"USB", "IF_APP", "CPU_SERIAL"}
      BY <2>1 DEF InterfaceTask
    <3>2. Exit(o) = [USB |-> "usb line", IF_APP |-> "socket", CPU_SERIAL |-> "serial line"][dst]
      BY <1>9, <1>12, <2>1 DEF Exit, Peer
    <3>3. PICK ends : ends = [USB |-> "usb line", IF_APP |-> "socket", CPU_SERIAL |-> "serial line"]
      OBVIOUS
    <3>4. ends["USB"] = "usb line" /\ ends["IF_APP"] = "socket" /\ ends["CPU_SERIAL"] = "serial line"
      BY <3>3
    <3>. QED  BY <3>1, <3>2, <3>3, <3>4
  <2>3. OnPath(dst, x[1]) /\ Rank(x[1], dst) = Rank(x[1], "IF") + 1 /\ dst \in Task
    <3>1. /\ Rank(x[1], "IF") = 1
          /\ \A t \in {"IF_APP", "USB", "CPU_SERIAL"} : Rank(x[1], t) = 2
      BY <1>7, <1>12, FwStages
    <3>2. OnPath(dst, x[1])
      BY <1>7, <1>12, <2>2, FwStages
    <3>3. dst \in Task /\ dst \in {"IF_APP", "USB", "CPU_SERIAL"}
      BY <2>2 DEF Task, Hop
    <3>4. Rank(x[1], dst) = 2
      BY <3>1, <3>3
    <3>. QED  BY ONLY <3>1, <3>2, <3>3, <3>4
  <2>4. Carries(dst, c, c.data, o)
    <3>1. c.sig = h("IF").sig
      <4>1. Body(Header(heap, m("IF")), Data(heap, m("IF")), o) /\ c = ak_memcpy_msg(heap, m("IF"))
        BY <1>5 DEF h, c
      <4>2. c.sig = Header(heap, m("IF")).sig
        BY <4>1, CopySays
      <4>. QED  BY <4>2 DEF h
    <3>2. c.sig = GW_CPU_SERIAL_IF[o.type].OUT
      <4>1. o.at \notin Peer
        BY <1>12 DEF Peer
      <4>. QED  BY <1>4, <1>5, <3>1, <4>1, SignalsDiffer
    <3>. QED  BY <1>8, <1>12, <2>2, <3>2 DEF Carries, Marked
  <2>5. RoutedInv'
    BY <1>1, <1>2, <1>3, <1>4, <1>12, <2>1, <2>3, <2>4, MoveStep
  <2>. QED  BY <1>1, <2>5 DEF Routed
<1>13. \/ o.at \in Peer /\ Forward("IF", Unwrapped(m("IF")), o.des) /\ type = o.type
       \/ o.at = "FW" /\ Forward("IF", c, InterfaceTask(o.if_des_type)) /\ type = o.type
  BY <1>4, <1>5, <1>9, <1>10, SignalsDiffer
<1>. QED  BY <1>11, <1>12, <1>13

(* What no forward function handles is lost on its way to nowhere. *)
LEMMA IfDropsRouted == ASSUME OffersAreOrderly, RoutedInv, IfDrops PROVE Routed
<1>1. "IF" \in Task /\ Taking("IF") /\ Take("IF") /\ UNCHANGED <<heap, leaked>>
      /\ Lost(<<h("IF").if_src_task_id, "nowhere">>)
  BY DEF IfDrops, Task, Hop
<1>2. PICK x : x = carried["IF"][1]
  OBVIOUS
<1>3. PICK o \in Offer : /\ RouteOf(o) = x[1] /\ sent[x[1]][x[2]] = Promised(o)
                        /\ Carries("IF", h("IF"), Data(heap, m("IF")), o)
  BY <1>1, <1>2, FirstOffer
<1>4. Waits(done, x) /\ o.type \in Type
  BY <1>1, <1>2, FirstOffer, OffersAreKnown
<1>5. /\ h("IF").if_des_type = o.if_des_type /\ h("IF").if_src_task_id = o.src
      /\ o.at \in Peer \cup {"FW"} /\ h("IF").sig \in {GW_IF[o.type].IN, GW_IF[o.type].OUT}
  <2>1. /\ Body(h("IF"), Data(heap, m("IF")), o)
        /\ o.at \in Peer \cup {"FW"} /\ h("IF").sig \in {GW_IF[o.type].IN, GW_IF[o.type].OUT}
    BY <1>3, InnerOnly DEF Carries, Marked
  <2>. QED  BY <2>1 DEF Body, Ends, Peer
<1>6. o.type \notin Forwarded(o.if_des_type)
  BY <1>5 DEF IfDrops
<1>7. Exit(o) = "nowhere"
  BY <1>5, <1>6 DEF Exit, Peer
<1>8. At(x[1]) = o.at /\ x[1] \in Route /\ x[1] = <<o.src, "nowhere">> /\ x[1][2] = "nowhere"
  BY <1>3, <1>7, RouteIs
<1>9. \A u \in Task : OnPath(u, x[1]) => Rank(x[1], u) <= Rank(x[1], "IF")
  <2>1. "nowhere" \notin Inner
    BY DEF Inner, AppTask, Unread
  <2>2. CASE o.at = "serial"
    BY <1>8, <2>1, <2>2, SerialStages
  <2>3. CASE o.at \in {"socket", "usb"}
    BY <1>8, <2>1, <2>3, PeerStages
  <2>4. CASE o.at = "FW"
    BY <1>8, <2>4, FwStages
  <2>. QED  BY <1>5, <2>2, <2>3, <2>4 DEF Peer
<1>10. Lost(x[1]) /\ x[1][2] \in {"socket", "nowhere"}
  BY <1>1, <1>5, <1>8
<1>. QED  BY <1>1, <1>2, <1>3, <1>4, <1>9, <1>10, TakeRouted

(* Between the router and the link a message gets the signal of its type. *)
LEMMA CpuRouted == ASSUME OffersAreOrderly, RoutedInv, CpuSerialForwards PROVE Routed
<1>1. "CPU_SERIAL" \in Task /\ "IF" \in Task /\ "LINK" \in Task /\ Taking("CPU_SERIAL")
      /\ UNCHANGED history
  BY DEF CpuSerialForwards, Task, Hop
<1>2. PICK x : x = carried["CPU_SERIAL"][1]
  OBVIOUS
<1>3. PICK o \in Offer : /\ RouteOf(o) = x[1] /\ sent[x[1]][x[2]] = Promised(o)
                        /\ Carries("CPU_SERIAL", h("CPU_SERIAL"), Data(heap, m("CPU_SERIAL")), o)
  BY <1>1, <1>2, FirstOffer
<1>4. Waits(done, x) /\ o.type \in Type
  BY <1>1, <1>2, FirstOffer, OffersAreKnown
<1>5. /\ Body(h("CPU_SERIAL"), Data(heap, m("CPU_SERIAL")), o)
      /\ \/ o.at = "serial" /\ h("CPU_SERIAL").sig = GW_IF[o.type].IN
         \/ o.at = "FW" /\ Exit(o) = "serial line" /\ h("CPU_SERIAL").sig = GW_IF[o.type].OUT
  BY <1>3, <1>4, SignalsDiffer, InnerOnly DEF Carries, Marked
<1>6. At(x[1]) = o.at /\ x[1] \in Route /\ x[1][2] = Exit(o)
  BY <1>3, RouteIs
<1> DEFINE c == ak_memcpy_msg(heap, m("CPU_SERIAL"))
<1>7. Body(c, c.data, o)
  <2>1. Body(Header(heap, m("CPU_SERIAL")), Data(heap, m("CPU_SERIAL")), o)
        /\ c = ak_memcpy_msg(heap, m("CPU_SERIAL"))
    BY <1>5 DEF h
  <2>. QED  BY <2>1, CopySays
<1>8. PICK type \in Type :
        \/ /\ h("CPU_SERIAL").sig = GW_CPU_SERIAL_IF[type].OUT
           /\ Forward("CPU_SERIAL", Set(c, [sig |-> GW_LINK_SEND[type]]), "LINK")
        \/ /\ h("CPU_SERIAL").sig = GW_CPU_SERIAL_IF[type].IN
           /\ Forward("CPU_SERIAL", Set(c, [sig |-> GW_IF[type].IN]), "IF")
  BY DEF CpuSerialForwards
<1> HIDE DEF c
<1>9. CASE o.at = "serial" /\ Forward("CPU_SERIAL", Set(c, [sig |-> GW_IF[o.type].IN]), "IF")
  <2>1. PICK e : e = Set(c, [sig |-> GW_IF[o.type].IN])
    OBVIOUS
  <2>2. Body(e, e.data, o) /\ e.sig = GW_IF[o.type].IN
    BY ONLY <1>7, <2>1, SetSays
  <2>3. Carries("IF", e, e.data, o)
    BY <1>9, <2>2 DEF Carries, Marked, Peer
  <2>4. OnPath("IF", x[1]) /\ Rank(x[1], "IF") = Rank(x[1], "CPU_SERIAL") + 1
    BY <1>6, <1>9, SerialStages
  <2>5. RoutedInv'
    BY <1>1, <1>2, <1>3, <1>4, <1>9, <2>1, <2>3, <2>4, MoveStep
  <2>. QED  BY <1>1, <2>5 DEF Routed
<1>10. CASE /\ o.at = "FW" /\ Exit(o) = "serial line"
            /\ Forward("CPU_SERIAL", Set(c, [sig |-> GW_LINK_SEND[o.type]]), "LINK")
  <2>1. PICK e : e = Set(c, [sig |-> GW_LINK_SEND[o.type]])
    OBVIOUS
  <2>2. Body(e, e.data, o) /\ e.sig = GW_LINK_SEND[o.type]
    BY ONLY <1>7, <2>1, SetSays
  <2>3. Carries("LINK", e, e.data, o)
    BY <1>10, <2>2 DEF Carries, Marked
  <2>4. OnPath("LINK", x[1]) /\ Rank(x[1], "LINK") = Rank(x[1], "CPU_SERIAL") + 1
    <3>1. /\ OnPath("LINK", x[1]) /\ Rank(x[1], "LINK") = 3
          /\ \A t \in {"IF_APP", "USB", "CPU_SERIAL"} : Rank(x[1], t) = 2
      BY <1>6, <1>10, FwStages
    <3>2. Rank(x[1], "CPU_SERIAL") = 2
      BY <3>1
    <3>. QED  BY ONLY <3>1, <3>2
  <2>5. RoutedInv'
    BY <1>1, <1>2, <1>3, <1>4, <1>10, <2>1, <2>3, <2>4, MoveStep
  <2>. QED  BY <1>1, <2>5 DEF Routed
<1>11. \/ o.at = "serial" /\ Forward("CPU_SERIAL", Set(c, [sig |-> GW_IF[o.type].IN]), "IF")
       \/ /\ o.at = "FW" /\ Exit(o) = "serial line"
          /\ Forward("CPU_SERIAL", Set(c, [sig |-> GW_LINK_SEND[o.type]]), "LINK")
  <2>1. /\ GW_CPU_SERIAL_IF[type].IN = GW_IF[type].IN
        /\ GW_CPU_SERIAL_IF[type].OUT = GW_IF[type].OUT
        /\ GW_IF[o.type].IN # GW_IF[type].OUT /\ GW_IF[type].IN # GW_IF[o.type].OUT
        /\ GW_IF[o.type].IN = GW_IF[type].IN => type = o.type
        /\ GW_IF[o.type].OUT = GW_IF[type].OUT => type = o.type
    BY <1>4, SignalsDiffer
  <2>2. CASE o.at = "serial" /\ h("CPU_SERIAL").sig = GW_IF[o.type].IN
    BY <1>8, <2>1, <2>2
  <2>3. CASE o.at = "FW" /\ Exit(o) = "serial line" /\ h("CPU_SERIAL").sig = GW_IF[o.type].OUT
    BY <1>8, <2>1, <2>3
  <2>. QED  BY <1>5, <2>2, <2>3
<1>. QED  BY <1>9, <1>10, <1>11

(* The link turns a PDU into the message that was put in it. *)
LEMMA LinkReceivesRouted == ASSUME OffersAreOrderly, RoutedInv, LinkReceives PROVE Routed
<1>1. "LINK" \in Task /\ "CPU_SERIAL" \in Task /\ Taking("LINK") /\ UNCHANGED history
      /\ h("LINK").sig = GW_LINK_REV_MSG
  BY Hops DEF LinkReceives
<1>2. PICK x : x = carried["LINK"][1]
  OBVIOUS
<1>3. PICK o \in Offer : /\ RouteOf(o) = x[1] /\ sent[x[1]][x[2]] = Promised(o)
                        /\ Carries("LINK", h("LINK"), Data(heap, m("LINK")), o)
  BY <1>1, <1>2, FirstOffer
<1>4. Waits(done, x) /\ o.type \in Type /\ GW_LINK_SEND[o.type] # GW_LINK_REV_MSG
  BY <1>1, <1>2, FirstOffer, OffersAreKnown, SignalsApart
<1>5. Data(heap, m("LINK")).of = o /\ o.at = "serial"
  BY <1>1, <1>3, <1>4, InnerOnly DEF Carries, Marked
<1>6. At(x[1]) = o.at /\ x[1] \in Route
  BY <1>3, RouteIs
<1>7. PICK d : d = Build(o)
  OBVIOUS
<1>8. PICK e : e = Set(d, [sig |-> GW_CPU_SERIAL_IF[o.type].IN])
  OBVIOUS
<1>9. CASE Stop("AK 0E") /\ UNCHANGED <<offered, history>>
  BY <1>9, StopRouted
<1>10. CASE Forward("LINK", e, "CPU_SERIAL")
  <2>1. Body(d, d.data, o)
    BY <1>7, BuildSays
  <2>2. Body(e, e.data, o) /\ e.sig = GW_CPU_SERIAL_IF[o.type].IN
    BY ONLY <1>8, <2>1, SetSays
  <2>3. Carries("CPU_SERIAL", e, e.data, o)
    BY <1>5, <2>2 DEF Carries, Marked
  <2>4. OnPath("CPU_SERIAL", x[1]) /\ Rank(x[1], "CPU_SERIAL") = Rank(x[1], "LINK") + 1
    BY <1>5, <1>6, SerialStages
  <2>5. RoutedInv'
    BY <1>1, <1>2, <1>3, <1>4, <1>10, <2>3, <2>4, MoveStep
  <2>. QED  BY <1>1, <2>5 DEF Routed
<1>. QED  BY <1>1, <1>5, <1>7, <1>8, <1>9, <1>10 DEF LinkReceives

(* It sends one to the other board with all its data: their length fits. *)
LEMMA SentWhole ==
  ASSUME OffersAreOrderly, NEW o \in Offer, o.at \in {"FW", "console"}, Exit(o) = "serial line",
         NEW len, len = o.data.len, NEW type, type = o.type
  PROVE  (IF type = "PURE" THEN NoData ELSE Cut(Received(o), len % 256)) = Received(o)
<1>1. o.data.len \in Nat /\ o.data.len < 256
  BY OffersAreKnown DEF OffersAreOrderly
<1>2. len % 256 = len
  BY ONLY <1>1, len = o.data.len
<1>. QED  BY <1>2, ReceivedIs

LEMMA LinkSendsRouted == ASSUME OffersAreOrderly, RoutedInv, LinkSends PROVE Routed
<1>1. "LINK" \in Task /\ Taking("LINK")
  BY Hops DEF LinkSends
<1>2. PICK x : x = carried["LINK"][1]
  OBVIOUS
<1>3. PICK type \in Type :
        /\ h("LINK").sig = GW_LINK_SEND[type]
        /\ \/ \E code : Stop(code) /\ UNCHANGED <<offered, history>>
           \/ /\ Take("LINK")
              /\ IF Own("LINK") THEN UNCHANGED history
                 ELSE Out(<<h("LINK").if_src_task_id, "serial line">>,
                          Written("LINK", IF type = "PURE" THEN NoData
                                          ELSE Cut(Data(heap, m("LINK")), h("LINK").len % 256)))
              /\ UNCHANGED <<heap, leaked>>
  BY DEF LinkSends
<1>4. CASE \E code : Stop(code) /\ UNCHANGED <<offered, history>>
  BY <1>4, StopRouted
<1>5. CASE Take("LINK") /\ UNCHANGED <<heap, leaked>> /\ ~Waits(done, x)
  <2>1. UNCHANGED history
    BY <1>1, <1>2, <1>3, <1>4, <1>5, OwnWaits
  <2>2. RoutedInv'
    BY <1>1, <1>2, <1>5, <2>1, SkipStep
  <2>. QED  BY <2>1, <2>2 DEF Routed
<1>6. CASE /\ Take("LINK") /\ UNCHANGED <<heap, leaked>> /\ Waits(done, x)
           /\ Out(<<h("LINK").if_src_task_id, "serial line">>,
                  Written("LINK", IF type = "PURE" THEN NoData
                                  ELSE Cut(Data(heap, m("LINK")), h("LINK").len % 256)))
  <2>1. PICK o \in Offer : /\ RouteOf(o) = x[1] /\ sent[x[1]][x[2]] = Promised(o)
                          /\ Carries("LINK", h("LINK"), Data(heap, m("LINK")), o)
    BY <1>1, <1>2, <1>6, FirstOffer
  <2>2. h("LINK").sig # GW_LINK_REV_MSG
    BY <1>3, SignalsApart
  <2>3. /\ Body(h("LINK"), Data(heap, m("LINK")), o) /\ h("LINK").sig = GW_LINK_SEND[o.type]
        /\ o.at \in {"FW", "console"} /\ Exit(o) = "serial line"
    BY <2>1, <2>2, InnerOnly DEF Carries, Marked
  <2>4. At(x[1]) = o.at /\ x[1] \in Route /\ x[1] = <<o.src, "serial line">> /\ x[1][2] = "serial line"
    BY <2>1, <2>3, RouteIs
  <2>5. type = o.type
    <3>1. o.type \in Type /\ GW_LINK_SEND[type] = GW_LINK_SEND[o.type]
      BY <1>3, <2>3, OffersAreKnown
    <3>. QED  BY <3>1, SignalsApart
  <2>6. /\ h("LINK").type = o.type /\ h("LINK").len = o.data.len /\ Ends(h("LINK"), o)
        /\ Data(heap, m("LINK")) = Received(o)
    BY <2>3 DEF Body
  <2>7. (IF type = "PURE" THEN NoData ELSE Cut(Received(o), h("LINK").len % 256)) = Received(o)
    BY <2>3, <2>5, <2>6, SentWhole
  <2>8. Out(x[1], Promised(o))
    <3>1. /\ Written("LINK", Received(o)) = Promised(o)
          /\ <<h("LINK").if_src_task_id, "serial line">> = x[1]
      BY <2>4, <2>6 DEF Written, Promised, Ends
    <3>2. Out(<<h("LINK").if_src_task_id, "serial line">>, Written("LINK", Received(o)))
      BY <1>6, <2>6, <2>7
    <3>. QED  BY <3>1, <3>2
  <2>9. \A u \in Task : OnPath(u, x[1]) => Rank(x[1], u) <= Rank(x[1], "LINK")
    <3>1. CASE o.at = "FW"
      BY <2>4, <3>1, FwStages
    <3>2. CASE o.at = "console"
      BY <2>4, <3>2, ConsoleStages
    <3>. QED  BY <2>3, <3>1, <3>2
  <2>. QED  BY <1>1, <1>2, <1>6, <2>1, <2>8, <2>9, TakeRouted
<1>. QED  BY <1>1, <1>2, <1>3, <1>4, <1>5, <1>6, OwnWaits

(* The interfaces write a message as it was promised. *)
LEMMA UsbRouted == ASSUME OffersAreOrderly, RoutedInv, UsbWrites PROVE Routed
<1>1. /\ "USB" \in Task /\ Taking("USB") /\ Take("USB") /\ UNCHANGED <<heap, leaked>>
      /\ Out(<<h("USB").if_src_task_id, "usb line">>,
             Written("USB", IF h("USB").type = "DYNAMIC" THEN Stray(Data(heap, m("USB")))
                            ELSE Data(heap, m("USB"))))
  BY Hops DEF UsbWrites
<1>2. PICK x : x = carried["USB"][1]
  OBVIOUS
<1>3. PICK o \in Offer : /\ RouteOf(o) = x[1] /\ sent[x[1]][x[2]] = Promised(o)
                        /\ Carries("USB", h("USB"), Data(heap, m("USB")), o)
  BY <1>1, <1>2, FirstOffer
<1>4. Waits(done, x)
  BY <1>1, <1>2, FirstOffer
<1>5. Body(h("USB"), Data(heap, m("USB")), o) /\ o.at = "FW" /\ Exit(o) = "usb line"
  BY <1>3, InnerOnly DEF Carries, Marked
<1>6. At(x[1]) = o.at /\ x[1] \in Route /\ x[1] = <<o.src, "usb line">> /\ x[1][2] = "usb line"
  BY <1>3, <1>5, RouteIs
<1>7. Out(x[1], Promised(o))
  <2>1. /\ Written("USB", Data(heap, m("USB"))) = Promised(o)
        /\ <<h("USB").if_src_task_id, "usb line">> = x[1]
    BY <1>5, <1>6 DEF Written, Promised, Body, Ends
  <2>2. h("USB").type # "DYNAMIC"
    BY <1>5, OffersAreKnown DEF Body
  <2>. QED  BY <1>1, <2>1, <2>2
<1>8. \A u \in Task : OnPath(u, x[1]) => Rank(x[1], u) <= Rank(x[1], "USB")
  <2>1. /\ \A t \in {"IF_APP", "USB", "CPU_SERIAL"} : Rank(x[1], t) = 2
        /\ \A u : OnPath(u, x[1]) => Rank(x[1], u) <= 2
    BY <1>5, <1>6, FwStages
  <2>2. Rank(x[1], "USB") = 2
    BY <2>1
  <2>. QED  BY <2>1, <2>2
<1>. QED  BY <1>1, <1>2, <1>3, <1>4, <1>7, <1>8, TakeRouted

LEMMA IfAppRouted == ASSUME OffersAreOrderly, RoutedInv, IfAppWrites PROVE Routed
<1>1. /\ "IF_APP" \in Task /\ Taking("IF_APP") /\ Take("IF_APP") /\ UNCHANGED <<heap, leaked>>
      /\ send_message_to_app(<<h("IF_APP").if_src_task_id, "socket">>,
                             Written("IF_APP", Data(heap, m("IF_APP"))))
  BY DEF IfAppWrites, Task, Hop
<1>2. PICK x : x = carried["IF_APP"][1]
  OBVIOUS
<1>3. PICK o \in Offer : /\ RouteOf(o) = x[1] /\ sent[x[1]][x[2]] = Promised(o)
                        /\ Carries("IF_APP", h("IF_APP"), Data(heap, m("IF_APP")), o)
  BY <1>1, <1>2, FirstOffer
<1>4. Waits(done, x)
  BY <1>1, <1>2, FirstOffer
<1>5. Body(h("IF_APP"), Data(heap, m("IF_APP")), o) /\ o.at = "FW" /\ Exit(o) = "socket"
  BY <1>3, InnerOnly DEF Carries, Marked
<1>6. At(x[1]) = o.at /\ x[1] \in Route /\ x[1] = <<o.src, "socket">> /\ x[1][2] = "socket"
  BY <1>3, <1>5, RouteIs
<1>7. Out(x[1], Promised(o)) \/ (Lost(x[1]) /\ x[1][2] \in {"socket", "nowhere"})
  <2>1. /\ Written("IF_APP", Data(heap, m("IF_APP"))) = Promised(o)
        /\ <<h("IF_APP").if_src_task_id, "socket">> = x[1]
    BY <1>5, <1>6 DEF Written, Promised, Body, Ends
  <2>2. send_message_to_app(x[1], Promised(o))
    BY <1>1, <2>1
  <2>. QED  BY <1>6, <2>2 DEF send_message_to_app
<1>8. \A u \in Task : OnPath(u, x[1]) => Rank(x[1], u) <= Rank(x[1], "IF_APP")
  <2>1. /\ \A t \in {"IF_APP", "USB", "CPU_SERIAL"} : Rank(x[1], t) = 2
        /\ \A u : OnPath(u, x[1]) => Rank(x[1], u) <= 2
    BY <1>5, <1>6, FwStages
  <2>2. Rank(x[1], "IF_APP") = 2
    BY <2>1
  <2>. QED  BY <2>1, <2>2
<1>. QED  BY <1>1, <1>2, <1>3, <1>4, <1>7, <1>8, TakeRouted
-----------------------------------------------------------------------------
(* Messages enter at the first stage of their routes. *)
LEMMA PeerRouted ==
  ASSUME OffersAreOrderly, RoutedInv, NEW o \in Offer, PeerMessage(o) PROVE Routed
<1>1. PICK e : e = Set(Build(o), [sig |-> GW_IF[o.type].IN, src_task_id |-> "IF_APP"])
  OBVIOUS
<1>2. o.at \in {"socket", "usb"}
  BY DEF PeerMessage
<1>3. CASE Enter(o, e, "IF")
  <2>1. Body(e, e.data, o) /\ e.sig = GW_IF[o.type].IN
    <3>1. PICK d : d = Build(o)
      OBVIOUS
    <3>2. Body(d, d.data, o) /\ e = Set(d, [sig |-> GW_IF[o.type].IN, src_task_id |-> "IF_APP"])
      BY <1>1, <3>1, BuildSays
    <3>. QED  BY ONLY <3>2, SetBothSay
  <2>2. Carries("IF", e, e.data, o) /\ "IF" \in Task
    BY <1>2, <2>1 DEF Carries, Marked, Peer, Task, Hop
  <2>3. PICK r : r = RouteOf(o)
    OBVIOUS
  <2>4. OnPath("IF", r) /\ Rank(r, "IF") = 1
    <3>1. At(r) \in {"socket", "usb"}
      BY <1>2, <2>3, RouteIs
    <3>. QED  BY <3>1, PeerStages
  <2>5. RoutedInv'
    BY <1>3, <2>2, <2>3, <2>4, EnterRouted
  <2>. QED  BY <1>3, <2>5, EnterAccepts DEF Routed
<1>4. CASE Refuse(o) /\ UNCHANGED <<heap, box, hand, leaked, carried>>
  <2>1. /\ o \notin offered /\ Cardinality(offered) < MaxOffers
        /\ offered' = offered \cup {o} /\ UNCHANGED history
    BY <1>4 DEF Refuse
  <2>. QED  BY <1>4, <2>1, IdleRouted DEF Routed
<1>. QED  BY <1>1, <1>3, <1>4 DEF PeerMessage, Stop

LEMMA LinkMessageRouted ==
  ASSUME OffersAreOrderly, RoutedInv, NEW o \in Offer, LinkMessage(o) PROVE Routed
<1> DEFINE e == set_data_msg(Set(get_msg("COMMON"), [sig |-> GW_LINK_REV_MSG]), [of |-> o, len |-> 4], 4)
<1>1. Enter(o, e, "LINK") /\ o.at = "serial"
  BY DEF LinkMessage
<1>2. Every \subseteq DOMAIN e /\ e.sig = GW_LINK_REV_MSG /\ e.type = "COMMON" /\ e.data.of = o
  BY DEF set_data_msg, Set, get_msg, Cut, Every, Fields
<1> HIDE DEF e
<1>3. Carries("LINK", e, e.data, o) /\ "LINK" \in Task
  BY <1>1, <1>2 DEF Carries, Task, Hop
<1>4. PICK r : r = RouteOf(o)
  OBVIOUS
<1>5. OnPath("LINK", r) /\ Rank(r, "LINK") = 1
  <2>1. At(r) = "serial"
    BY <1>1, <1>4, RouteIs
  <2>. QED  BY <2>1, SerialStages
<1>6. RoutedInv'
  BY <1>1, <1>3, <1>4, <1>5, EnterRouted
<1>. QED  BY <1>1, <1>6, EnterAccepts DEF Routed

LEMMA TaskRouted ==
  ASSUME OffersAreOrderly, RoutedInv, NEW o \in Offer, TaskMessage(o) PROVE Routed
<1>1. PICK d : d = Build(o)
  OBVIOUS
<1>2. Body(d, d.data, o)
  BY <1>1, BuildSays
<1>3. PICK r : r = RouteOf(o)
  OBVIOUS
<1>4. At(r) = o.at
  BY <1>3, RouteIs
<1>5. CASE o.at = "FW"
  <2>1. PICK e : e = Set(d, [sig |-> GW_IF[o.type].OUT, src_task_id |-> "FW"])
    OBVIOUS
  <2>2. Enter(o, e, "IF")
    BY <1>1, <1>5, <2>1 DEF TaskMessage
  <2>3. Body(e, e.data, o) /\ e.sig = GW_IF[o.type].OUT
    BY ONLY <1>2, <2>1, SetBothSay
  <2>4. Carries("IF", e, e.data, o) /\ "IF" \in Task
    BY <1>5, <2>3 DEF Carries, Marked, Task, Hop
  <2>5. OnPath("IF", r) /\ Rank(r, "IF") = 1
    BY <1>4, <1>5, FwStages
  <2>6. RoutedInv'
    BY <1>3, <2>2, <2>4, <2>5, EnterRouted
  <2>. QED  BY <2>2, <2>6, EnterAccepts DEF Routed
<1>6. CASE o.at = "console"
  <2>1. PICK e : e = Set(d, [sig |-> GW_LINK_SEND[o.type]])
    OBVIOUS
  <2>2. Enter(o, e, "LINK")
    BY <1>1, <1>6, <2>1 DEF TaskMessage
  <2>3. Body(e, e.data, o) /\ e.sig = GW_LINK_SEND[o.type]
    BY ONLY <1>2, <2>1, SetSays
  <2>4. Carries("LINK", e, e.data, o) /\ "LINK" \in Task
    BY <1>6, <2>3 DEF Carries, Marked, Exit, Task, Hop
  <2>5. OnPath("LINK", r) /\ Rank(r, "LINK") = 1
    BY <1>4, <1>6, ConsoleStages
  <2>6. RoutedInv'
    BY <1>3, <2>2, <2>4, <2>5, EnterRouted
  <2>. QED  BY <2>2, <2>6, EnterAccepts DEF Routed
<1>7. CASE o.at = "local"
  <2>1. PICK e : e = Set(Fill(o), [sig |-> o.sig, src_task_id |-> o.src])
    OBVIOUS
  <2>2. Enter(o, e, o.des)
    BY <1>7, <2>1 DEF TaskMessage
  <2>3. o.des \in Inner /\ o.des \in Task /\ Exit(o) = o.des
    BY <1>7, OffersAreKnown, Hops DEF Exit, Timed, Inner
  <2>4. Body(e, e.data, o) /\ e.sig = o.sig /\ e.src_task_id = o.src
    <3>1. PICK f : f = Fill(o)
      OBVIOUS
    <3>2. Body(f, f.data, o)
      BY <1>7, <3>1, FillSays DEF Body
    <3>3. PICK y, z : y = o.sig /\ z = o.src
      OBVIOUS
    <3>4. e = Set(f, [sig |-> y, src_task_id |-> z])
      BY <2>1, <3>1, <3>3
    <3>5. Body(e, e.data, o) /\ e.sig = y /\ e.src_task_id = z
      BY ONLY <3>2, <3>4, SetBothSay
    <3>. QED  BY <3>3, <3>5
  <2>5. Carries(o.des, e, e.data, o)
    BY <1>7, <2>3, <2>4 DEF Carries, Marked
  <2>6. OnPath(o.des, r) /\ Rank(r, o.des) = 1
    <3>1. r[2] = o.des
      BY <1>3, <2>3, RouteIs
    <3>. QED  BY <1>4, <1>7, <2>3, <3>1, LocalStages
  <2>7. RoutedInv'
    BY <1>3, <2>2, <2>3, <2>5, <2>6, EnterRouted
  <2>. QED  BY <2>2, <2>7, EnterAccepts DEF Routed
<1>. QED  BY <1>5, <1>6, <1>7 DEF TaskMessage

LEMMA RoutedInit == Init => RoutedInv /\ R!RoutesInit
<1> SUFFICES ASSUME Init PROVE RoutedInv /\ R!RoutesInit
  OBVIOUS
<1>1. HeapInv
  BY GatewayInit DEF GatewayInv
<1>2. /\ sent = [r \in Route |-> <<>>] /\ got = [r \in Route |-> <<>>] /\ done = [r \in Route |-> 0]
      /\ carried = [t \in Task |-> <<>>] /\ box = [t \in Task |-> <<>>]
  BY DEF Init
<1>3. R!RoutesInit
  BY <1>2 DEF R!RoutesInit
<1>4. /\ carried \in [Task -> Seq(Tag)] /\ sent \in [Route -> Seq(Contents)]
      /\ done \in [Route -> Nat] /\ Lens(sent) \in [Route -> Nat]
      /\ \A t \in Task : Len(carried[t]) = 0 /\ Len(box[t]) = 0
      /\ \A r \in Route : Lens(sent)[r] = 0 /\ done[r] = 0
  BY <1>2 DEF Lens
<1>5. Placed(carried, Lens(sent), done)
  BY <1>4 DEF Placed, Typed, Underway, Single, InTurn
<1>6. Present(carried, Lens(sent), done)
  BY <1>4 DEF Present
<1>7. Told(box, heap, carried, sent, done)
  BY <1>4 DEF Told
<1>. QED  BY <1>1, <1>3, <1>4, <1>5, <1>6, <1>7 DEF RoutedInv, Lined

LEMMA RoutedStep == OffersAreOrderly /\ RoutedInv /\ [Next]_vars => Routed
<1> SUFFICES ASSUME OffersAreOrderly, RoutedInv, [Next]_vars PROVE Routed
  OBVIOUS
<1>1. ASSUME NEW o \in Offer, PeerMessage(o) \/ LinkMessage(o) \/ TaskMessage(o)
      PROVE  Routed
  BY <1>1, PeerRouted, LinkMessageRouted, TaskRouted
<1>2. CASE IfForwards
  BY <1>2, IfForwardsRouted
<1>3. CASE IfDrops
  BY <1>3, IfDropsRouted
<1>4. CASE CpuSerialForwards
  BY <1>4, CpuRouted
<1>5. CASE LinkSends
  BY <1>5, LinkSendsRouted
<1>6. CASE LinkReceives
  BY <1>6, LinkReceivesRouted
<1>7. CASE UsbWrites
  BY <1>7, UsbRouted
<1>8. CASE IfAppWrites
  BY <1>8, IfAppRouted
<1>9. CASE FwGets
  BY <1>9, FwRouted
<1>10. CASE SysGets
  BY <1>10, SysRouted
<1>11. CASE DebugGets
  BY <1>11, DebugRouted
<1>12. CASE SensorGets
  BY <1>12, SensorRouted
<1>13. ASSUME NEW t \in Task, Release(t) PROVE Routed
  <2>1. UNCHANGED history
    BY <1>13 DEF Release
  <2>. QED  BY <1>13, <2>1, ReleaseRouted DEF Routed
<1>14. CASE UNCHANGED vars
  <2>1. UNCHANGED <<heap, box, hand, leaked, carried>> /\ UNCHANGED history /\ offered' = offered
    BY <1>14 DEF vars, history
  <2>. QED  BY <2>1, IdleRouted DEF Routed
<1>. QED
  BY <1>1, <1>2, <1>3, <1>4, <1>5, <1>6, <1>7, <1>8, <1>9, <1>10, <1>11, <1>13, <1>14, <1>12
  DEF Next, Handle

(* The gateway implements its routes: a message that one of its interfaces, its
   tasks, a timer or the shell posts comes out where it was sent, with its signal, its sender and
   its data, once and in the order of its route, however many hops copy it and
   whichever task runs first; only what an application does not accept and what
   no forward function handles is lost (gw_task_if_entry, the interface tasks
   and the handlers of the tasks).                                         *)
THEOREM GatewayIsRouted == ASSUME OffersAreOrderly PROVE Spec => IsRouted
<1>1. Init => RoutedInv /\ R!RoutesInit
  BY RoutedInit
<1>2. RoutedInv /\ [Next]_vars => RoutedInv'
  BY RoutedStep DEF Routed
<1>3. RoutedInv /\ [Next]_vars => [R!RoutesNext]_history
  BY RoutedStep DEF Routed
<1>4. RoutedInv /\ [Next]_vars => [R!RoutesNext]_(R!routeVars)
  BY <1>3 DEF R!routeVars, history
<1>. QED  BY <1>1, <1>2, <1>4, PTL DEF Spec, IsRouted, R!RoutesSpec
=============================================================================
