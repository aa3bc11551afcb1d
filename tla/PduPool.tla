------------------------------ MODULE PduPool ------------------------------
(***************************************************************************)
(* The pool of link PDUs (networks/net/link/link_data.cpp): an array of    *)
(* PDUs whose unused members are threaded into a free list.  The link and  *)
(* the MAC task call it; every call holds mt_link_pdu_pool from end to     *)
(* end, so a call is one step.                                             *)
(***************************************************************************)
EXTENDS Naturals, Sequences

CONSTANT PoolSize         \* LINK_PDU_POOL_SIZE

ASSUME PoolSizeIsPositive == PoolSize \in Nat \ {0}

Id   == 0 .. PoolSize - 1
Null == PoolSize          \* LINK_PDU_NULL, and the id of no PDU

VARIABLES
  free,       \* free_link_pdu_pool: the first free PDU or Null
  next,       \* link_pdu_pool[i].next
  used,       \* link_pdu_pool[i].is_used
  fatal,      \* the LINK_PDU code of the FATAL that ended the process, or 0
  given,      \* the PDU link_pdu_malloc returned last, or Null
  chain       \* history: the free PDUs in the order in which they are linked

poolVars == <<free, next, used, fatal, given, chain>>

(* link_pdu_init *)
PoolInit ==
  /\ free = 0
  /\ next = [i \in Id |-> IF i = PoolSize - 1 THEN Null ELSE i + 1]
  /\ used = [i \in Id |-> FALSE]
  /\ fatal = 0 /\ given = Null
  /\ chain = [i \in 1..PoolSize |-> i - 1]

Die(code) == fatal' = code /\ UNCHANGED <<free, next, used, given, chain>>

Malloc ==
  /\ fatal = 0
  /\ \/ /\ free # Null
        /\ given' = free
        /\ used' = [used EXCEPT ![free] = TRUE]
        /\ free' = next[free]
        /\ chain' = Tail(chain)
        /\ UNCHANGED <<next, fatal>>
     \/ free = Null /\ Die(1)

InUse(id) == id \in Id /\ used[id]

(* Mutant of Release: the PDU is not linked to the rest of the list. *)
ReleaseUnlinked(id) ==
  /\ used' = [used EXCEPT ![id] = FALSE]
  /\ free' = id
  /\ chain' = <<id>> \o chain
  /\ UNCHANGED <<next, fatal, given>>

Release(id) ==
  /\ used' = [used EXCEPT ![id] = FALSE]
  /\ next' = [next EXCEPT ![id] = free]
  /\ free' = id
  /\ chain' = <<id>> \o chain
  /\ UNCHANGED <<fatal, given>>

(* link_pdu_free, by id or by pointer; an id out of range and the null pointer
   are Null here.                                                          *)
FreeId(id) ==
  /\ fatal = 0
  /\ \/ InUse(id) /\ Release(id)
     \/ ~InUse(id) /\ Die(2)

FreePtr(id) ==
  /\ fatal = 0
  /\ \/ InUse(id) /\ Release(id)
     \/ ~InUse(id) /\ Die(4)

(* link_pdu_get changes nothing unless the PDU is not in use. *)
Get(id) ==
  /\ fatal = 0
  /\ \/ InUse(id) /\ UNCHANGED poolVars
     \/ ~InUse(id) /\ Die(3)

PoolNext == Malloc \/ \E id \in Id \cup {Null} : FreeId(id) \/ FreePtr(id) \/ Get(id)

PoolSpec == PoolInit /\ [][PoolNext]_poolVars

-----------------------------------------------------------------------------
PoolTypeOK ==
  /\ free \in Id \cup {Null}
  /\ next \in [Id -> Id \cup {Null}]
  /\ used \in [Id -> BOOLEAN]
  /\ fatal \in 0..4
  /\ given \in Id \cup {Null}
  /\ chain \in Seq(Id)

(* The free list holds exactly the PDUs that are not in use, each once, and
   ends: no call loses a PDU, links one twice or makes the list a cycle.   *)
ChainAt(i) == IF i \in 1..Len(chain) THEN chain[i] ELSE Null
FreeListExact ==
  /\ free = ChainAt(1)
  /\ \A i \in 1..Len(chain) : next[chain[i]] = ChainAt(i + 1)
  /\ \A i, j \in 1..Len(chain) : chain[i] = chain[j] => i = j
  /\ \A id \in Id : ~used[id] <=> \E i \in 1..Len(chain) : chain[i] = id

IInv == PoolTypeOK /\ FreeListExact

(* The free list is the abstract pool: malloc never hands out a PDU that is in
   use and fails only when all of them are.                                *)
StopReason == CASE fatal = 0 -> "no" [] fatal = 1 -> "exhausted" [] OTHER -> "misuse"
Pool == INSTANCE IdPool WITH None <- Null, held <- {id \in Id : used[id]}, stopped <- StopReason
ImplementsPool == Pool!PoolSpec
=============================================================================
