---------------------------- MODULE TimerService ----------------------------
(***************************************************************************)
(* What the timer service promises the tasks: one timer per destination    *)
(* and signal, all of them counted down together once a tick; a timer that *)
(* reaches zero is posted in that tick, once, and is reloaded if periodic. *)
(***************************************************************************)
EXTENDS Integers

CONSTANTS Key,            \* a destination task and a signal
          Duty            \* the intervals that are asked for

Off == -1

VARIABLES left,           \* ticks until the timer of a key expires, or Off
          period,         \* the interval of a periodic timer, 0 for a one-shot
          expired         \* the keys posted by the last tick

serviceVars == <<left, period, expired>>

ServiceInit ==
  /\ left = [k \in Key |-> Off] /\ period = [k \in Key |-> 0] /\ expired = {}

(* A timer that is set again keeps the period it was created with. *)
Set(k, d, p) ==
  /\ left' = [left EXCEPT ![k] = d]
  /\ period' = [period EXCEPT ![k] = IF left[k] = Off THEN p ELSE @]
  /\ UNCHANGED expired

Remove(k) ==
  /\ left' = [left EXCEPT ![k] = Off]
  /\ period' = [period EXCEPT ![k] = 0]
  /\ UNCHANGED expired

Expires(l) == l # Off /\ l - 1 <= 0

Tick ==
  LET before == left  reload == period IN
  /\ left' = [k \in Key |-> IF before[k] = Off THEN Off
                            ELSE IF ~Expires(before[k]) THEN before[k] - 1
                            ELSE IF reload[k] # 0 THEN reload[k] ELSE Off]
  /\ expired' = {k \in Key : Expires(before[k])}
  /\ period' = [k \in Key |-> IF Expires(before[k]) /\ reload[k] = 0 THEN 0 ELSE reload[k]]

ServiceNext ==
  Tick \/ \E k \in Key : \/ Remove(k)
                         \/ \E d \in Duty : Set(k, d, 0) \/ Set(k, d, d)

ServiceSpec == ServiceInit /\ [][ServiceNext]_serviceVars
=============================================================================
