------------------------------ MODULE Counting ------------------------------
(***************************************************************************)
(* How many elements of a sequence are members of a set, and how the       *)
(* operations on mailboxes and fifos change that number.  Every argument   *)
(* that a message is the only one of its kind, or that a PDU is named only *)
(* once, is an argument about such numbers.                                *)
(***************************************************************************)
EXTENDS FiniteSetTheorems, SequenceTheorems, TLAPS

Places(s, M) == {i \in DOMAIN s : s[i] \in M}
Occ(s, M) == Cardinality(Places(s, M))
One(b) == IF b THEN 1 ELSE 0

LEMMA PlacesFinite ==
  ASSUME NEW S, NEW s \in Seq(S), NEW M
  PROVE  /\ Places(s, M) \subseteq 1..Len(s)
         /\ IsFiniteSet(Places(s, M))
         /\ Occ(s, M) \in Nat
<1>1. Places(s, M) \subseteq 1..Len(s) /\ Len(s) \in Nat
  BY DEF Places
<1>2. IsFiniteSet(1..Len(s))
  BY <1>1, FS_Interval
<1>3. IsFiniteSet(Places(s, M))
  BY <1>1, <1>2, FS_Subset
<1>. QED  BY <1>1, <1>3, FS_CardinalityType DEF Occ

(* None are counted exactly when there is none. *)
LEMMA OccZero ==
  ASSUME NEW S, NEW s \in Seq(S), NEW M
  PROVE  Occ(s, M) = 0 <=> \A i \in 1..Len(s) : s[i] \notin M
<1>1. Occ(s, M) = 0 <=> Places(s, M) = {}
  BY PlacesFinite, FS_EmptySet DEF Occ
<1>2. Places(s, M) = {} <=> \A i \in 1..Len(s) : s[i] \notin M
  BY DEF Places
<1>. QED  BY <1>1, <1>2

LEMMA OccEmpty == ASSUME NEW M PROVE Occ(<<>>, M) = 0
<1>1. Places(<<>>, M) = {}
  BY DEF Places
<1>. QED  BY <1>1, FS_EmptySet DEF Occ

LEMMA OccOne ==
  ASSUME NEW S, NEW x \in S, NEW M
  PROVE  Occ(<<x>>, M) = One(x \in M)
<1>1. CASE x \in M
  <2>1. Places(<<x>>, M) = {1}
    BY <1>1 DEF Places
  <2>. QED  BY <1>1, <2>1, FS_Singleton DEF Occ, One
<1>2. CASE x \notin M
  <2>1. Places(<<x>>, M) = {}
    BY <1>2 DEF Places
  <2>. QED  BY <1>2, <2>1, FS_EmptySet DEF Occ, One
<1>. QED  BY <1>1, <1>2

LEMMA OccConcat ==
  ASSUME NEW S, NEW a \in Seq(S), NEW b \in Seq(S), NEW M
  PROVE  Occ(a \o b, M) = Occ(a, M) + Occ(b, M)
<1> DEFINE moved == {Len(a) + j : j \in Places(b, M)}
           shift == [j \in Places(b, M) |-> Len(a) + j]
<1>1. /\ Len(a) \in Nat /\ Len(b) \in Nat /\ a \o b \in Seq(S)
      /\ Places(a, M) \subseteq 1..Len(a) /\ Places(b, M) \subseteq 1..Len(b)
      /\ IsFiniteSet(Places(a, M)) /\ IsFiniteSet(Places(b, M))
      /\ Occ(a, M) \in Nat /\ Occ(b, M) \in Nat
  BY PlacesFinite
<1>2. shift \in Bijection(Places(b, M), moved)
  BY <1>1 DEF Bijection, Injection, Surjection, IsInjective
<1>3. IsFiniteSet(moved) /\ Cardinality(moved) = Occ(b, M)
  BY <1>1, <1>2, FS_Bijection DEF ExistsBijection, Occ
<1>4. Places(a \o b, M) = Places(a, M) \cup moved
  <2>1. ASSUME NEW i \in Places(a \o b, M) PROVE i \in Places(a, M) \cup moved
    <3>1. i \in 1 .. Len(a) + Len(b) /\ (a \o b)[i] \in M
      BY <2>1, <1>1 DEF Places
    <3>2. CASE i <= Len(a)
      BY <3>1, <3>2, <1>1 DEF Places
    <3>3. CASE i > Len(a)
      <4>1. i - Len(a) \in 1..Len(b) /\ (a \o b)[i] = b[i - Len(a)]
        BY <3>1, <3>3, <1>1
      <4>2. i - Len(a) \in Places(b, M)
        BY <4>1, <3>1 DEF Places
      <4>. QED  BY <4>1, <4>2, <3>1, <1>1
    <3>. QED  BY <3>1, <3>2, <3>3, <1>1
  <2>2. ASSUME NEW i \in Places(a, M) PROVE i \in Places(a \o b, M)
    BY <1>1 DEF Places
  <2>3. ASSUME NEW j \in Places(b, M) PROVE Len(a) + j \in Places(a \o b, M)
    <3>1. Len(a) + j \in 1 .. Len(a) + Len(b) /\ (a \o b)[Len(a) + j] = b[j] /\ b[j] \in M
      BY <1>1 DEF Places
    <3>. QED  BY <3>1, <1>1 DEF Places
  <2>. QED  BY <2>1, <2>2, <2>3
<1>5. Places(a, M) \cap moved = {}
  BY <1>1
<1> HIDE DEF moved
<1>6. Cardinality(Places(a, M) \cup moved)
        = Cardinality(Places(a, M)) + Cardinality(moved) - Cardinality({})
  BY <1>1, <1>3, <1>5, FS_Union
<1>7. Cardinality({}) = 0
  BY FS_EmptySet
<1>. QED  BY <1>1, <1>3, <1>4, <1>6, <1>7 DEF Occ

LEMMA OccAppend ==
  ASSUME NEW S, NEW s \in Seq(S), NEW x \in S, NEW M
  PROVE  Occ(Append(s, x), M) = Occ(s, M) + One(x \in M)
<1>1. Append(s, x) = s \o <<x>> /\ <<x>> \in Seq(S)
  OBVIOUS
<1>2. Occ(s \o <<x>>, M) = Occ(s, M) + Occ(<<x>>, M)
  BY <1>1, OccConcat
<1>3. Occ(<<x>>, M) = One(x \in M)
  BY OccOne
<1>. QED  BY <1>1, <1>2, <1>3

LEMMA OccTail ==
  ASSUME NEW S, NEW s \in Seq(S), s # <<>>, NEW M
  PROVE  Occ(s, M) = One(Head(s) \in M) + Occ(Tail(s), M)
<1>1. Head(s) \in S /\ <<Head(s)>> \in Seq(S) /\ Tail(s) \in Seq(S)
  OBVIOUS
<1>2. s = <<Head(s)>> \o Tail(s)
  <2> DEFINE t == <<Head(s)>> \o Tail(s)
  <2>1. t \in Seq(S) /\ Len(t) = Len(s) /\ \A i \in 1..Len(s) : t[i] = s[i]
    BY <1>1
  <2> HIDE DEF t
  <2>. QED  BY <2>1, SeqEqual
<1>3. Occ(<<Head(s)>> \o Tail(s), M) = Occ(<<Head(s)>>, M) + Occ(Tail(s), M)
  BY <1>1, OccConcat
<1>4. Occ(<<Head(s)>>, M) = One(Head(s) \in M)
  BY <1>1, OccOne
<1>. QED  BY <1>2, <1>3, <1>4, Zenon

(* A sequence that names each element of a finite set at most once is no longer
   than the set is large, and shorter if it leaves one out.                 *)
LEMMA NoRepeatIsShort ==
  ASSUME NEW S, IsFiniteSet(S), NEW s \in Seq(S),
         \A i, j \in 1..Len(s) : s[i] = s[j] => i = j
  PROVE  /\ Len(s) <= Cardinality(S)
         /\ \A x \in S : (\A i \in 1..Len(s) : s[i] # x) => Len(s) < Cardinality(S)
<1> DEFINE f == [i \in 1..Len(s) |-> s[i]]
<1>1. Len(s) \in Nat /\ Cardinality(1..Len(s)) = Len(s)
  BY FS_Interval
<1>2. ASSUME NEW T \in SUBSET S, \A i \in 1..Len(s) : s[i] \in T
      PROVE  Len(s) <= Cardinality(T)
  <2>1. IsFiniteSet(T)
    BY FS_Subset
  <2>2. f \in Injection(1..Len(s), T)
    BY <1>2 DEF Injection, IsInjective
  <2>. QED  BY <1>1, <2>1, <2>2, FS_Injection
<1>3. ASSUME NEW x \in S, \A i \in 1..Len(s) : s[i] # x
      PROVE  Len(s) < Cardinality(S)
  <2>1. Len(s) <= Cardinality(S \ {x})
    BY <1>2, <1>3
  <2>2. Cardinality(S \ {x}) = Cardinality(S) - 1 /\ Cardinality(S) \in Nat
    BY FS_RemoveElement, FS_CardinalityType
  <2>. QED  BY <1>1, <2>1, <2>2
<1>. QED  BY <1>2, <1>3

(* The same, when the occurrences are counted. *)
LEMMA CountedOnceIsShort ==
  ASSUME NEW S, IsFiniteSet(S), NEW s \in Seq(S), \A x \in S : Occ(s, {x}) <= 1
  PROVE  /\ Len(s) <= Cardinality(S)
         /\ \A x \in S : Occ(s, {x}) = 0 => Len(s) < Cardinality(S)
<1>1. ASSUME NEW i \in 1..Len(s), NEW j \in 1..Len(s), s[i] = s[j], i # j PROVE FALSE
  <2> DEFINE P == Places(s, {s[i]})
  <2>1. s[i] \in S /\ {i, j} \subseteq P /\ IsFiniteSet(P) /\ Cardinality(P) = Occ(s, {s[i]})
    <3>1. s[i] \in S /\ {i, j} \subseteq P
      BY <1>1 DEF Places
    <3>. QED  BY <3>1, PlacesFinite DEF Occ
  <2>2. Cardinality({i, j}) <= Cardinality(P) /\ Cardinality({i, j}) \in Nat
    BY <2>1, FS_Subset, FS_CardinalityType
  <2>3. Cardinality({i, j}) = 2
    <3>1. IsFiniteSet({i}) /\ Cardinality({i}) = 1
      BY FS_Singleton
    <3>2. Cardinality({i} \cup {j}) = Cardinality({i}) + 1
      BY <1>1, <3>1, FS_AddElement
    <3>3. {i} \cup {j} = {i, j}
      OBVIOUS
    <3>. QED  BY <3>1, <3>2, <3>3
  <2>4. Occ(s, {s[i]}) <= 1 /\ Occ(s, {s[i]}) \in Nat
    BY <2>1, PlacesFinite
  <2>. QED  BY <2>1, <2>2, <2>3, <2>4
<1>2. \A i, j \in 1..Len(s) : s[i] = s[j] => i = j
  BY <1>1
<1>3. ASSUME NEW x \in S, Occ(s, {x}) = 0 PROVE \A i \in 1..Len(s) : s[i] # x
  BY <1>3, OccZero
<1>. QED  BY <1>2, <1>3, NoRepeatIsShort
=============================================================================
