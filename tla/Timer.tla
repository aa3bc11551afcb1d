------------------------------- MODULE Timer -------------------------------
(***************************************************************************)
(* The timer list of ak/timer.cpp.  Every millisecond a fresh thread runs  *)
(* timer_handler, which walks the list from its tail, holding              *)
(* mt_timer_service, and unlinks one-shot nodes on the way; the tasks call *)
(* timer_set and timer_remove_attr, each under the same mutex.  A call of  *)
(* a task is one step; the walk takes a step per node, since each of its   *)
(* posts is seen at once by the task it is for.                            *)
(***************************************************************************)
EXTENDS Integers, Sequences, FiniteSets

CONSTANTS Key,            \* a destination task and a signal
          Node,           \* the addresses malloc can return for a node
          Null,           \* NULL
          Duty            \* the intervals that are asked for, in ticks

ASSUME EnoughNodes == Null \notin Node /\ Cardinality(Node) >= Cardinality(Key)
ASSUME DutyIsNat == Duty \subseteq Nat

VARIABLES
  head, tail, next, prev,       \* timer_service and its nodes
  data,                         \* data[n]: the key, period and counter of node n
  walking,                      \* a timer_handler holds mt_timer_service
  cur,                          \* timer_node_temp in timer_handler
  posted,                       \* the keys the last timer_handler has posted, in order
  chain                         \* history: the nodes from tail to head

listVars == <<head, tail, next, prev, data, chain>>
vars == <<head, tail, next, prev, data, walking, cur, posted, chain>>

NoData == [key |-> Null, period |-> 0, counter |-> 0]

(* timer_entry *)
Init ==
  /\ head = Null /\ tail = Null
  /\ next = [n \in Node |-> Null] /\ prev = [n \in Node |-> Null]
  /\ data = [n \in Node |-> NoData]
  /\ walking = FALSE /\ cur = Null /\ posted = <<>>
  /\ chain = <<>>

(* The nodes a walk from the tail meets: the least set that holds the tail and
   with a node its successor.                                              *)
Closed(S) == /\ tail # Null => tail \in S
             /\ \A n \in S : next[n] # Null => next[n] \in S
Listed == {n \in Node : \A S \in SUBSET Node : Closed(S) => n \in S}
NodesOf(k) == LET listed == Listed IN {n \in listed : data[n].key = k}

-----------------------------------------------------------------------------
(* Mutants of timer_set: a timer that exists is not looked for, or is given
   the new period.                                                         *)
timer_setAnew(k, duty, periodic) ==
  /\ ~walking
  /\ \E n \in Node \ Listed :
       /\ data' = [data EXCEPT ![n] = [key |-> k, counter |-> duty,
                                       period |-> IF periodic THEN duty ELSE 0]]
       /\ next' = [next EXCEPT ![n] = tail]
       /\ prev' = IF tail = Null THEN prev ELSE [prev EXCEPT ![tail] = n]
       /\ head' = IF tail = Null THEN n ELSE head
       /\ tail' = n
       /\ chain' = <<n>> \o chain
  /\ UNCHANGED <<walking, cur, posted>>

timer_setPeriod(k, duty, periodic) ==
  /\ ~walking
  /\ \/ \E n \in NodesOf(k) :
          /\ data' = [data EXCEPT ![n].counter = duty,
                                  ![n].period = IF periodic THEN duty ELSE 0]
          /\ UNCHANGED <<head, tail, next, prev, chain>>
     \/ NodesOf(k) = {} /\ timer_setAnew(k, duty, periodic)
  /\ UNCHANGED <<walking, cur, posted>>

(* A set of a timer that exists restarts its counter and nothing else. *)
timer_set(k, duty, periodic) ==
  /\ ~walking
  /\ \/ \E n \in NodesOf(k) :
          /\ data' = [data EXCEPT ![n].counter = duty]
          /\ UNCHANGED <<head, tail, next, prev, chain>>
     \/ /\ NodesOf(k) = {}
        /\ \E n \in Node \ Listed :
             /\ data' = [data EXCEPT ![n] = [key |-> k, counter |-> duty,
                                             period |-> IF periodic THEN duty ELSE 0]]
             /\ next' = [next EXCEPT ![n] = tail]
             /\ prev' = IF tail = Null THEN [prev EXCEPT ![n] = Null]
                        ELSE [prev EXCEPT ![n] = Null, ![tail] = n]
             /\ head' = IF tail = Null THEN n ELSE head
             /\ tail' = n
             /\ chain' = <<n>> \o chain
  /\ UNCHANGED <<walking, cur, posted>>

(* The order of the nodes that are left when n is gone. *)
Positions == 1..Len(chain)
PositionOf(n) == CHOOSE i \in Positions : chain[i] = n
Without(n) ==
  [i \in 1 .. Len(chain) - 1 |-> IF i < PositionOf(n) THEN chain[i] ELSE chain[i + 1]]

(* Mutant of Unlink: the neighbours of a node in the middle are not joined. *)
UnlinkLoose(n) ==
  /\ head' = IF head = n THEN prev[n] ELSE head
  /\ tail' = IF tail = n THEN next[n] ELSE tail
  /\ next' = [next EXCEPT ![n] = Null]
  /\ prev' = [prev EXCEPT ![n] = Null]
  /\ chain' = Without(n)

(* timer_service_remove_node, once the node is found: the fields of a freed
   node, which nothing reads, are reset.                                   *)
Unlink(n) ==
  /\ \/ /\ next[n] = Null /\ prev[n] = Null
        /\ head' = Null /\ tail' = Null
        /\ next' = next /\ prev' = prev
     \/ /\ next[n] # Null /\ prev[n] # Null
        /\ prev' = [prev EXCEPT ![next[n]] = prev[n], ![n] = Null]
        /\ next' = [next EXCEPT ![prev[n]] = next[n], ![n] = Null]
        /\ UNCHANGED <<head, tail>>
     \/ /\ next[n] # Null /\ prev[n] = Null
        /\ tail' = next[tail]
        /\ prev' = [prev EXCEPT ![next[tail]] = Null]
        /\ next' = [next EXCEPT ![n] = Null]
        /\ UNCHANGED head
     \/ /\ next[n] = Null /\ prev[n] # Null
        /\ head' = prev[head]
        /\ next' = [next EXCEPT ![prev[head]] = Null]
        /\ prev' = [prev EXCEPT ![n] = Null]
        /\ UNCHANGED tail
  /\ chain' = Without(n)

timer_remove_attr(k) ==
  /\ ~walking
  /\ \E n \in NodesOf(k) : Unlink(n) /\ data' = [data EXCEPT ![n] = NoData]
  /\ UNCHANGED <<walking, cur, posted>>

-----------------------------------------------------------------------------
(* timer_handler: it takes the mutex, visits a node a step and releases it. *)
StartWalk ==
  /\ ~walking
  /\ walking' = TRUE /\ cur' = tail /\ posted' = <<>>
  /\ UNCHANGED listVars

Due(n) == data[n].counter - 1 <= 0

(* The next node is read before the visited one is unlinked. *)
Visit ==
  /\ walking /\ cur # Null
  /\ cur' = next[cur]
  /\ \/ /\ ~Due(cur)
        /\ data' = [data EXCEPT ![cur].counter = @ - 1]
        /\ UNCHANGED <<head, tail, next, prev, chain, posted>>
     \/ /\ Due(cur) /\ data[cur].period # 0
        /\ posted' = Append(posted, data[cur].key)
        /\ data' = [data EXCEPT ![cur].counter = data[cur].period]
        /\ UNCHANGED <<head, tail, next, prev, chain>>
     \/ /\ Due(cur) /\ data[cur].period = 0
        /\ posted' = Append(posted, data[cur].key)
        /\ \E n \in NodesOf(data[cur].key) : Unlink(n) /\ data' = [data EXCEPT ![n] = NoData]
  /\ UNCHANGED walking

EndWalk ==
  /\ walking /\ cur = Null
  /\ walking' = FALSE
  /\ UNCHANGED listVars /\ UNCHANGED <<cur, posted>>

Next == \/ StartWalk \/ Visit \/ EndWalk
        \/ \E k \in Key : \/ timer_remove_attr(k)
                          \/ \E d \in Duty, periodic \in BOOLEAN : timer_set(k, d, periodic)

Spec == Init /\ [][Next]_vars

-----------------------------------------------------------------------------
TypeOK ==
  /\ head \in Node \cup {Null} /\ tail \in Node \cup {Null} /\ cur \in Node \cup {Null}
  /\ next \in [Node -> Node \cup {Null}] /\ prev \in [Node -> Node \cup {Null}]
  /\ data \in [Node -> [key : Key \cup {Null}, period : Nat, counter : Int]]
  /\ walking \in BOOLEAN /\ posted \in Seq(Key)

(* The list reads the same from both ends, holds a key at most once, and is
   not left by the node the walk stands on: no case of the unlinking breaks
   it (timer_service_remove_node), even in the middle of a walk.           *)
PointersAgree ==
  /\ \A i \in Positions :
       /\ next[chain[i]] = (IF i = Len(chain) THEN Null ELSE chain[i + 1])
       /\ prev[chain[i]] = (IF i = 1 THEN Null ELSE chain[i - 1])
  /\ tail = (IF chain = <<>> THEN Null ELSE chain[1])
  /\ head = (IF chain = <<>> THEN Null ELSE chain[Len(chain)])
OneTimerPerKey ==
  \A i, j \in Positions : data[chain[i]].key = data[chain[j]].key => i = j
WalkOnList == cur # Null => \E i \in Positions : cur = chain[i]
ListConsistent == PointersAgree /\ OneTimerPerKey /\ WalkOnList

(* The walk is one simultaneous tick of all timers.  It takes effect when the
   mutex is taken: what the nodes still ahead of the walk will become is
   already determined.  An expired one-shot counts as gone from then on.   *)
Ahead == {i \in Positions : cur # Null /\ \E j \in 1..i : chain[j] = cur}
Gone(i) == i \in Ahead /\ Due(chain[i]) /\ data[chain[i]].period = 0
Timers == {i \in Positions : ~Gone(i)}
LeftOf(i) == IF i \notin Ahead THEN data[chain[i]].counter
             ELSE IF Due(chain[i]) THEN data[chain[i]].period
             ELSE data[chain[i]].counter - 1
KeyAt(i) == data[chain[i]].key
Left == LET timers == Timers IN
        [k \in Key |-> IF \E i \in timers : KeyAt(i) = k
                       THEN LeftOf(CHOOSE i \in timers : KeyAt(i) = k) ELSE -1]
Period == LET timers == Timers IN
          [k \in Key |-> IF \E i \in timers : KeyAt(i) = k
                         THEN data[chain[CHOOSE i \in timers : KeyAt(i) = k]].period ELSE 0]
Expired == {posted[i] : i \in DOMAIN posted} \cup {KeyAt(i) : i \in {j \in Ahead : Due(chain[j])}}
Service == INSTANCE TimerService WITH left <- Left, period <- Period, expired <- Expired
ImplementsService == Service!ServiceSpec

(* No timer is posted twice in one tick. *)
PostedOnce == \A i, j \in DOMAIN posted : posted[i] = posted[j] => i = j
=============================================================================
