-------------------------------- MODULE Boot --------------------------------
(***************************************************************************)
(* The start of the process (ak/ak.cpp): main makes the tasks one by one,  *)
(* each a mailbox, a thread and a condition variable, while the threads    *)
(* already made run up to a barrier, which they pass when all of them have *)
(* been counted.  Two threads act before that: the timer task empties the  *)
(* timer list, and the LINK_PHY task starts the thread that reads the      *)
(* serial port and posts and sets a timer for what it reads.               *)
(*                                                                         *)
(* Four of the fourteen tasks, in the order of task_list: APP stands for   *)
(* any task that posts to others, LINK, the last, posts to itself first.   *)
(* A mailbox is its list and its condition variable, whose own protocol is *)
(* that of Mailbox.                                                        *)
(***************************************************************************)
EXTENDS Naturals, Sequences

CONSTANT MaxBootPosts       \* bound: the posts of the APP task and of the reader

task_list == <<"TIMER", "APP", "LINK_PHY", "LINK">>
AK_TASK_LIST_LEN == Len(task_list)
BootTask == {task_list[i] : i \in 1..AK_TASK_LIST_LEN}
EarlyPoster == {"APP", "reader"}

VARIABLES
  making,           \* the step main is at, and the index of the task
  at,               \* at[t]: where the thread of task t is
  ak_thread_started,
  len,              \* len[t]: the messages in the mailbox of t
  cond,             \* mailbox_cond of t: "zero", as loaded, or "ready"
  serial,           \* the reader runs
  timers,           \* the timer list, as the set of who set one
  posts,            \* posts[p]: made by p
  wiped             \* history: the lists that were emptied when they held something

bootVars == <<making, at, ak_thread_started, len, cond, serial, timers, posts, wiped>>

BootInit ==
  /\ making = [step |-> "q_msg_init", index |-> 1]
  /\ at = [t \in BootTask |-> "none"] /\ ak_thread_started = 0
  /\ len = [t \in BootTask |-> 0] /\ cond = [t \in BootTask |-> "zero"]
  /\ serial = FALSE /\ timers = {}
  /\ posts = [p \in EarlyPoster |-> 0] /\ wiped = {}

-----------------------------------------------------------------------------
(* main: the three steps of a task, in the order in which it takes them. *)
MainAt(step) == making.step = step /\ making.index <= AK_TASK_LIST_LEN
Made == task_list[making.index]
Then(step) == making' = [making EXCEPT !.step = step]

MailboxMade ==
  /\ MainAt("q_msg_init") /\ Then("pthread_create")
  /\ len' = [len EXCEPT ![Made] = 0]
  /\ wiped' = wiped \cup (IF len[Made] = 0 THEN {} ELSE {Made})
  /\ UNCHANGED <<at, ak_thread_started, cond, serial, timers, posts>>

ThreadMade ==
  /\ MainAt("pthread_create") /\ Then("pthread_cond_init")
  /\ at' = [at EXCEPT ![Made] = "entry"]
  /\ UNCHANGED <<ak_thread_started, len, cond, serial, timers, posts, wiped>>

(* A task that sleeps on the variable may be forgotten: no wakeup finds it. *)
CondMade ==
  /\ MainAt("pthread_cond_init")
  /\ making' = [step |-> "q_msg_init", index |-> making.index + 1]
  /\ cond' = [cond EXCEPT ![Made] = "ready"]
  /\ \/ UNCHANGED at
     \/ at[Made] = "asleep" /\ at' = [at EXCEPT ![Made] = "forgotten"]
  /\ UNCHANGED <<ak_thread_started, len, serial, timers, posts, wiped>>

(* The entry of a task up to the barrier; the serial port may fail to open. *)
Enter(t) ==
  /\ at[t] = "entry" /\ at' = [at EXCEPT ![t] = "barrier"]
  /\ \/ /\ t = "TIMER" /\ timers' = {}
        /\ wiped' = wiped \cup timers
        /\ UNCHANGED serial
     \/ /\ t = "LINK_PHY" /\ serial' \in BOOLEAN
        /\ UNCHANGED <<timers, wiped>>
     \/ t \in {"APP", "LINK"} /\ UNCHANGED <<serial, timers, wiped>>
  /\ UNCHANGED <<making, ak_thread_started, len, cond, posts>>

(* Mutant of Pass: the barrier opens one task too early. *)
PassEarly(t) ==
  /\ at[t] = "counted" /\ ak_thread_started >= AK_TASK_LIST_LEN - 1
  /\ at' = [at EXCEPT ![t] = IF t = "TIMER" THEN "done" ELSE "started"]
  /\ UNCHANGED <<making, ak_thread_started, len, cond, serial, timers, posts, wiped>>

(* wait_all_tasks_started; the thread of the timer task ends after it. *)
Count(t) ==
  /\ at[t] = "barrier" /\ at' = [at EXCEPT ![t] = "counted"]
  /\ ak_thread_started' = ak_thread_started + 1
  /\ UNCHANGED <<making, len, cond, serial, timers, posts, wiped>>

Pass(t) ==
  /\ at[t] = "counted" /\ ak_thread_started >= AK_TASK_LIST_LEN
  /\ at' = [at EXCEPT ![t] = IF t = "TIMER" THEN "done" ELSE "started"]
  /\ UNCHANGED <<making, ak_thread_started, len, cond, serial, timers, posts, wiped>>

-----------------------------------------------------------------------------
Puts(t) ==
  /\ len' = [len EXCEPT ![t] = @ + 1]
  /\ at' = IF at[t] = "asleep" THEN [at EXCEPT ![t] = "serving"] ELSE at

(* The first thing the LINK task does is to post itself GW_LINK_INIT. *)
Start(t) ==
  /\ at[t] = "started" /\ at' = [at EXCEPT ![t] = "serving"]
  /\ len' = IF t = "LINK" THEN [len EXCEPT ![t] = @ + 1] ELSE len
  /\ UNCHANGED <<making, ak_thread_started, cond, serial, timers, posts, wiped>>

(* ak_msg_rev takes a message or sleeps. *)
Serve(t) ==
  /\ at[t] = "serving"
  /\ \/ len[t] > 0 /\ len' = [len EXCEPT ![t] = @ - 1] /\ UNCHANGED at
     \/ len[t] = 0 /\ at' = [at EXCEPT ![t] = "asleep"] /\ UNCHANGED len
  /\ UNCHANGED <<making, ak_thread_started, cond, serial, timers, posts, wiped>>

(* A task that serves posts to any other; the reader to LINK_PHY. *)
AppPosts ==
  /\ at["APP"] = "serving" /\ posts["APP"] < MaxBootPosts
  /\ \E t \in BootTask \ {"TIMER"} : Puts(t)
  /\ timers' = timers \cup {"APP"}
  /\ posts' = [posts EXCEPT !["APP"] = @ + 1]
  /\ UNCHANGED <<making, ak_thread_started, cond, serial, wiped>>

ReaderPosts ==
  /\ serial /\ posts["reader"] < MaxBootPosts
  /\ Puts("LINK_PHY")
  /\ timers' = timers \cup {"reader"}
  /\ posts' = [posts EXCEPT !["reader"] = @ + 1]
  /\ UNCHANGED <<making, ak_thread_started, cond, serial, wiped>>

BootNext ==
  \/ MailboxMade \/ ThreadMade \/ CondMade
  \/ \E t \in BootTask : Enter(t) \/ Count(t) \/ Pass(t) \/ Start(t) \/ Serve(t)
  \/ AppPosts \/ ReaderPosts

BootSpec == BootInit /\ [][BootNext]_bootVars

-----------------------------------------------------------------------------
(* The barrier is enough for all but two cases: only the last task can sleep
   on a condition variable that main has yet to initialise (LINK, which handles
   its own message first), and only the timer the reader sets for a frame
   that is arriving can be swept away by the start of the timer task.  No
   message is lost.                                                         *)
LastTask == task_list[AK_TASK_LIST_LEN]
StartSafe ==
  /\ \A t \in BootTask : at[t] \in {"asleep", "forgotten"} /\ t # LastTask => cond[t] = "ready"
  /\ \A t \in BootTask \ {LastTask} : at[t] # "forgotten"
  /\ wiped \subseteq {"reader"}
=============================================================================
