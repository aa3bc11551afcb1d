------------------------------ MODULE MsgList ------------------------------
(***************************************************************************)
(* The doubly linked list behind a mailbox (ak/message.cpp): messages are  *)
(* put at the tail and taken at the head; `next` points towards the head,  *)
(* `prev` towards the tail.  Every call holds the list's mutex, so a call  *)
(* is one step.                                                            *)
(***************************************************************************)
EXTENDS Integers, Sequences, FiniteSets

CONSTANTS Msg,            \* the addresses get_*_msg can return
          AK_MSG_NULL     \* NULL, which is none of them

Width == 2^16             \* bound: len is a uint32_t; any width wraps alike

(* There is less memory than there are numbers to count it with. *)
ASSUME MsgsFit == IsFiniteSet(Msg) /\ Cardinality(Msg) < Width
ASSUME NullIsNoMsg == AK_MSG_NULL \notin Msg

VARIABLES msg_head, msg_tail, msg_next, msg_prev, msg_len,
          msg_got,        \* the message q_msg_get returned last, or NULL
          messages        \* history: what is in the list, oldest first

listOfMessages == <<msg_head, msg_tail, msg_next, msg_prev, msg_len, msg_got, messages>>

(* q_msg_init; the fields of a fresh message hold anything, here NULL. *)
MsgListInit ==
  /\ msg_head = AK_MSG_NULL /\ msg_tail = AK_MSG_NULL /\ msg_len = 0
  /\ msg_next = [m \in Msg |-> AK_MSG_NULL] /\ msg_prev = [m \in Msg |-> AK_MSG_NULL]
  /\ msg_got = AK_MSG_NULL
  /\ messages = <<>>

(* Mutant of q_msg_put: the old tail is not linked to the new one. *)
q_msg_putOneWay(m) ==
  /\ msg_next' = [msg_next EXCEPT ![m] = msg_tail]
  /\ msg_prev' = [msg_prev EXCEPT ![m] = AK_MSG_NULL]
  /\ msg_tail' = m
  /\ msg_head' = IF msg_tail = AK_MSG_NULL THEN m ELSE msg_head
  /\ msg_len' = (msg_len + 1) % Width
  /\ messages' = Append(messages, m)
  /\ UNCHANGED msg_got

q_msg_put(m) ==
  /\ \/ /\ msg_tail # AK_MSG_NULL
        /\ msg_prev' = [msg_prev EXCEPT ![m] = AK_MSG_NULL, ![msg_tail] = m]
        /\ msg_next' = [msg_next EXCEPT ![m] = msg_tail]
        /\ msg_tail' = m
        /\ UNCHANGED msg_head
     \/ /\ msg_tail = AK_MSG_NULL
        /\ msg_next' = [msg_next EXCEPT ![m] = AK_MSG_NULL]
        /\ msg_prev' = [msg_prev EXCEPT ![m] = AK_MSG_NULL]
        /\ msg_tail' = m /\ msg_head' = m
  /\ msg_len' = (msg_len + 1) % Width
  /\ messages' = Append(messages, m)
  /\ UNCHANGED msg_got

(* Mutant of q_msg_get: the message that is returned is the next one. *)
q_msg_getNext ==
  /\ msg_head # AK_MSG_NULL
  /\ msg_head' = msg_prev[msg_head] /\ msg_got' = msg_prev[msg_head]
  /\ msg_tail' = IF msg_head = msg_tail THEN AK_MSG_NULL ELSE msg_tail
  /\ msg_next' = [m \in Msg |-> IF msg_next[m] = msg_head THEN AK_MSG_NULL ELSE msg_next[m]]
  /\ msg_prev' = [msg_prev EXCEPT ![msg_head] = AK_MSG_NULL]
  /\ msg_len' = (msg_len - 1) % Width
  /\ messages' = Tail(messages)

(* On an empty list q_msg_get would only decrement the counter, which would
   wrap; ak_msg_rev, its one caller, asks q_msg_available first.           *)
q_msg_get ==
  /\ msg_head # AK_MSG_NULL
  /\ msg_got' = msg_head
  /\ \/ /\ msg_head = msg_tail
        /\ msg_head' = AK_MSG_NULL /\ msg_tail' = AK_MSG_NULL
        /\ UNCHANGED <<msg_next, msg_prev>>
     \/ /\ msg_head # msg_tail
        /\ msg_next' = [msg_next EXCEPT ![msg_prev[msg_head]] = AK_MSG_NULL]
        /\ msg_prev' = [msg_prev EXCEPT ![msg_head] = AK_MSG_NULL]
        /\ msg_head' = msg_prev[msg_head]
        /\ UNCHANGED msg_tail
  /\ msg_len' = (msg_len - 1) % Width
  /\ messages' = Tail(messages)

q_msg_available == msg_head # AK_MSG_NULL /\ msg_tail # AK_MSG_NULL

(* task_post puts a message that malloc has just returned; ak_msg_rev takes
   one only when q_msg_available says there is one.                        *)
Ranks == 1..Len(messages)
MsgListNext == \/ \E m \in Msg : (\A i \in Ranks : messages[i] # m) /\ q_msg_put(m)
               \/ q_msg_available /\ q_msg_get

MsgListSpec == MsgListInit /\ [][MsgListNext]_listOfMessages

-----------------------------------------------------------------------------
MsgListTypeOK ==
  /\ msg_head \in Msg \cup {AK_MSG_NULL} /\ msg_tail \in Msg \cup {AK_MSG_NULL}
  /\ msg_next \in [Msg -> Msg \cup {AK_MSG_NULL}] /\ msg_prev \in [Msg -> Msg \cup {AK_MSG_NULL}]
  /\ msg_len \in 0 .. Width - 1
  /\ msg_got \in Msg \cup {AK_MSG_NULL}

(* The two chains of pointers run through the same messages in opposite
   orders, each message once, and the counter ak_msg_rev tests is the number
   of messages: a task never sleeps on a list that holds one, nor takes from
   one that is empty.                                                      *)
MsgPointersAgree ==
  /\ \A i \in Ranks :
       /\ msg_next[messages[i]] = (IF i = 1 THEN AK_MSG_NULL ELSE messages[i - 1])
       /\ msg_prev[messages[i]] = (IF i = Len(messages) THEN AK_MSG_NULL ELSE messages[i + 1])
  /\ msg_head = (IF messages = <<>> THEN AK_MSG_NULL ELSE messages[1])
  /\ msg_tail = (IF messages = <<>> THEN AK_MSG_NULL ELSE messages[Len(messages)])
MsgListConsistent ==
  /\ MsgPointersAgree
  /\ \A i, j \in Ranks : messages[i] = messages[j] => i = j
  /\ msg_len = Len(messages)
  /\ q_msg_available <=> msg_len # 0

(* The list of a mailbox is a first-in first-out queue that never runs full or
   empty: what q_msg_get returns is what was put first.                    *)
Queue == INSTANCE BoundedQueue WITH Elem <- Msg, None <- AK_MSG_NULL, items <- messages,
                                    got <- msg_got, Size <- Width, stopped <- "no"
MsgListQueue == Queue!QueueSpec
=============================================================================
