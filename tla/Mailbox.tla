------------------------------ MODULE Mailbox ------------------------------
(***************************************************************************)
(* One task's mailbox in the active kernel (ak/ak.cpp): any thread may     *)
(* task_post to it, one task calls ak_msg_rev on it.  Both take the        *)
(* mailbox mutex mt_mailbox_cond; the task sleeps on mailbox_cond.         *)
(*                                                                         *)
(* The list of ak/message.cpp behind the mailbox is the sequence `queue`,  *)
(* oldest first; module MsgList shows that the linked list is that         *)
(* sequence.  The list's own mutex is only taken by a thread that holds    *)
(* mt_mailbox_cond, so it excludes nothing more and is left out.           *)
(***************************************************************************)
EXTENDS Naturals, Sequences

CONSTANTS Poster,       \* the threads other than the task that post to it
          Task,         \* the task that owns the mailbox (it posts to itself too)
          MaxPost,      \* bound: posts by one thread
          Spurious      \* whether pthread_cond_wait may return unsignalled

ASSUME TaskIsNoPoster == Task \notin Poster
ASSUME MaxPostIsNat == MaxPost \in Nat
ASSUME SpuriousIsBool == Spurious \in BOOLEAN

Thread == Poster \cup {Task}
Nobody == "nobody"
NoMsg  == <<>>                            \* AK_MSG_NULL

(* A message is named by the thread that posts it and its number there. *)
Message == Thread \X (1..MaxPost)

ASSUME NobodyIsNoThread == Nobody \notin Thread

VARIABLES
  pc,        \* where each thread is in task_post or ak_msg_rev
  mutex,     \* the holder of mt_mailbox_cond, or Nobody
  queue,     \* q_msg_t, oldest first
  wokenBy,   \* why the task last left pthread_cond_wait
  handed,    \* what ak_msg_rev last returned, while the task handles it
  begun,     \* posts each thread has begun
  sent,      \* history: every message put, in order
  rcvd       \* history: every message ak_msg_rev returned, in order

mailboxVars == <<pc, mutex, queue, wokenBy, handed, begun, sent, rcvd>>

PostPc == {"put", "signal", "unlock"}            \* inside task_post, mutex held
RevPc  == {"check", "take", "return"}            \* inside ak_msg_rev, mutex held
WaitPc == {"wait", "woken"}                      \* in pthread_cond_wait
Pc     == {"run", "crashed"} \cup PostPc \cup RevPc \cup WaitPc

MailboxTypeOK ==
  /\ pc \in [Thread -> Pc]
  /\ mutex \in Thread \cup {Nobody}
  /\ queue \in Seq(Message)
  /\ wokenBy \in {"none", "signal", "spurious"}
  /\ handed \in Message \cup {NoMsg}
  /\ begun \in [Thread -> 0..MaxPost]
  /\ sent \in Seq(Message)
  /\ rcvd \in Seq(Message)

MailboxInit ==
  /\ pc = [t \in Thread |-> "run"]
  /\ mutex = Nobody
  /\ queue = <<>>
  /\ wokenBy = "none"
  /\ handed = NoMsg
  /\ begun = [t \in Thread |-> 0]
  /\ sent = <<>>
  /\ rcvd = <<>>

Goto(t, where) == pc' = [pc EXCEPT ![t] = where]

-----------------------------------------------------------------------------
(* task_post, from any thread, the task itself included.                   *)

PostLock(t) ==
  /\ pc[t] = "run" /\ mutex = Nobody /\ begun[t] < MaxPost
  /\ mutex' = t
  /\ begun' = [begun EXCEPT ![t] = @ + 1]
  /\ Goto(t, "put")
  /\ UNCHANGED <<queue, wokenBy, handed, sent, rcvd>>

PostPut(t) ==
  /\ pc[t] = "put"
  /\ queue' = Append(queue, <<t, begun[t]>>)
  /\ sent' = Append(sent, <<t, begun[t]>>)
  /\ Goto(t, "signal")
  /\ UNCHANGED <<mutex, wokenBy, handed, begun, rcvd>>

(* Mutant of PostSignal: the signal goes to nobody. *)
PostSignalMute(t) ==
  /\ pc[t] = "signal"
  /\ Goto(t, "unlock")
  /\ UNCHANGED <<mutex, queue, wokenBy, handed, begun, sent, rcvd>>

(* pthread_cond_signal wakes the task if it sleeps and is forgotten if not. *)
PostSignal(t) ==
  /\ pc[t] = "signal"
  /\ pc' = [pc EXCEPT ![t] = "unlock",
                      ![Task] = IF pc[Task] = "wait" THEN "woken" ELSE @]
  /\ wokenBy' = IF pc[Task] = "wait" THEN "signal" ELSE wokenBy
  /\ UNCHANGED <<mutex, queue, handed, begun, sent, rcvd>>

PostUnlock(t) ==
  /\ pc[t] = "unlock"
  /\ mutex' = Nobody
  /\ Goto(t, "run")
  /\ UNCHANGED <<queue, wokenBy, handed, begun, sent, rcvd>>

-----------------------------------------------------------------------------
(* ak_msg_rev, from the task's loop.                                       *)

RevLock ==
  /\ pc[Task] = "run" /\ mutex = Nobody
  /\ mutex' = Task
  /\ wokenBy' = "none" /\ handed' = NoMsg
  /\ Goto(Task, "check")
  /\ UNCHANGED <<queue, begun, sent, rcvd>>

(* Mutants of RevWait and RevNoWait: the length is not tested. *)
RevWaitUntested ==
  /\ pc[Task] = "check"
  /\ mutex' = Nobody
  /\ Goto(Task, "wait")
  /\ UNCHANGED <<queue, wokenBy, handed, begun, sent, rcvd>>

RevNoWaitUntested ==
  /\ pc[Task] = "check"
  /\ Goto(Task, "take")
  /\ UNCHANGED <<mutex, queue, wokenBy, handed, begun, sent, rcvd>>

(* if (q_msg->len == 0) pthread_cond_wait: sleeps and releases the mutex in
   one step.                                                               *)
RevWait ==
  /\ pc[Task] = "check" /\ queue = <<>>
  /\ mutex' = Nobody
  /\ Goto(Task, "wait")
  /\ UNCHANGED <<queue, wokenBy, handed, begun, sent, rcvd>>

RevNoWait ==
  /\ pc[Task] = "check" /\ queue # <<>>
  /\ Goto(Task, "take")
  /\ UNCHANGED <<mutex, queue, wokenBy, handed, begun, sent, rcvd>>

RevSpurious ==
  /\ Spurious /\ pc[Task] = "wait"
  /\ wokenBy' = "spurious"
  /\ Goto(Task, "woken")
  /\ UNCHANGED <<mutex, queue, handed, begun, sent, rcvd>>

(* pthread_cond_wait returns with the mutex.  The length is not tested
   again: the code says if, not while.                                     *)
RevRelock ==
  /\ pc[Task] = "woken" /\ mutex = Nobody
  /\ mutex' = Task
  /\ Goto(Task, "take")
  /\ UNCHANGED <<queue, wokenBy, handed, begun, sent, rcvd>>

(* Mutant of RevGet: the newest message is taken. *)
RevGetNewest ==
  /\ pc[Task] = "take" /\ queue # <<>>
  /\ handed' = queue[Len(queue)]
  /\ queue' = SubSeq(queue, 1, Len(queue) - 1)
  /\ rcvd' = Append(rcvd, handed')
  /\ Goto(Task, "return")
  /\ UNCHANGED <<mutex, wokenBy, begun, sent>>

(* q_msg_available, then q_msg_get. *)
RevGet ==
  /\ pc[Task] = "take" /\ queue # <<>>
  /\ handed' = Head(queue)
  /\ queue' = Tail(queue)
  /\ rcvd' = Append(rcvd, Head(queue))
  /\ Goto(Task, "return")
  /\ UNCHANGED <<mutex, wokenBy, begun, sent>>

RevNull ==
  /\ pc[Task] = "take" /\ queue = <<>>
  /\ Goto(Task, "return")
  /\ UNCHANGED <<mutex, queue, wokenBy, handed, begun, sent, rcvd>>

(* Every task loop reads msg->header->sig of what it is handed, without a
   test: AK_MSG_NULL ends the process.                                     *)
RevReturn ==
  /\ pc[Task] = "return"
  /\ mutex' = Nobody
  /\ pc' = IF handed = NoMsg THEN [t \in Thread |-> "crashed"]
                             ELSE [pc EXCEPT ![Task] = "run"]
  /\ UNCHANGED <<queue, wokenBy, handed, begun, sent, rcvd>>

-----------------------------------------------------------------------------
Post(t) == PostLock(t) \/ PostPut(t) \/ PostSignal(t) \/ PostUnlock(t)

Rev == \/ RevLock \/ RevWait \/ RevNoWait \/ RevSpurious
       \/ RevRelock \/ RevGet \/ RevNull \/ RevReturn

MailboxNext == Rev \/ \E t \in Thread : Post(t)

MailboxSpec == MailboxInit /\ [][MailboxNext]_mailboxVars

(* A thread inside task_post keeps running, and the task keeps calling
   ak_msg_rev and gets the mutex it asks for.  No thread has to post.      *)
Fairness ==
  /\ \A t \in Thread : WF_mailboxVars(PostPut(t) \/ PostSignal(t) \/ PostUnlock(t))
  /\ SF_mailboxVars(RevLock) /\ SF_mailboxVars(RevRelock)
  /\ WF_mailboxVars(RevWait \/ RevNoWait \/ RevGet \/ RevNull \/ RevReturn)

FairSpec == MailboxSpec /\ Fairness

-----------------------------------------------------------------------------
(* No wakeup is lost: the task sleeps over a message only while the thread
   that posted it still holds the mutex and is about to signal.            *)
NoLostWakeup ==
  pc[Task] = "wait" /\ queue # <<>> => \E t \in Poster : pc[t] = "signal"

(* ak_msg_rev returns AK_MSG_NULL, which the task loops dereference, only
   when the wait before it was left without a signal: the if around
   pthread_cond_wait is safe but for spurious wakeups.                     *)
NullOnlySpurious ==
  pc[Task] = "return" /\ handed = NoMsg => wokenBy = "spurious"

(* The mailbox implements the channel: nothing posted is lost, duplicated or
   reordered on its way to the task (task_post, ak_msg_rev).               *)
Chan == INSTANCE Channel
IsChannel == Chan!ChanSpec

(* Under FairSpec a message that waits is also delivered, unless AK_MSG_NULL
   ends the process.                                                       *)
Delivers == Chan!ChanDelivers \/ <>(pc[Task] = "crashed")

-----------------------------------------------------------------------------
(* The inductive invariant.  Mutual exclusion and the owner of the receiving
   states come first; the rest speaks of the queue, which only the holder of
   the mutex changes.                                                      *)
MutexHeld == \A t \in Thread : pc[t] \in PostPc \cup RevPc => mutex = t

OnlyTaskReceives == \A t \in Thread : pc[t] \in RevPc \cup WaitPc => t = Task

(* A thread about to put or to signal has numbered its message. *)
PutIsNumbered == \A t \in Thread : pc[t] = "put" => begun[t] \in 1..MaxPost

(* What is about to be signalled is in the queue, if the task sleeps. *)
SignalHasMessage ==
  \A t \in Thread : pc[t] = "signal" /\ pc[Task] = "wait" => queue # <<>>

(* The task finds the queue empty only if no signal woke it. *)
WokenHasMessage ==
  /\ pc[Task] = "woken" => \/ wokenBy = "spurious"
                           \/ wokenBy = "signal" /\ queue # <<>>
  /\ pc[Task] = "take" /\ queue = <<>> => wokenBy = "spurious"

NothingLost == sent = rcvd \o queue

IInv ==
  /\ MailboxTypeOK
  /\ MutexHeld
  /\ OnlyTaskReceives
  /\ PutIsNumbered
  /\ SignalHasMessage
  /\ WokenHasMessage
  /\ NoLostWakeup
  /\ NullOnlySpurious
  /\ NothingLost
=============================================================================
