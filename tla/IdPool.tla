------------------------------- MODULE IdPool -------------------------------
(***************************************************************************)
(* What the pool of link PDUs promises the link and MAC tasks: a PDU is    *)
(* handed out to one holder at a time, one that is given back can be       *)
(* handed out again, and only a mistake of the caller or a pool that is    *)
(* really empty stops the process.                                         *)
(***************************************************************************)
CONSTANTS Id,             \* the PDUs of the pool
          None            \* no PDU

VARIABLES held,           \* the PDUs that are handed out
          given,          \* the PDU handed out last
          stopped         \* why a FATAL has ended the process, or "no"

poolVars == <<held, given, stopped>>

PoolInit == held = {} /\ given = None /\ stopped = "no"

Take == /\ \E id \in Id \ held : held' = held \cup {id} /\ given' = id
        /\ UNCHANGED stopped

Give == /\ \E id \in held : held' = held \ {id}
        /\ UNCHANGED <<given, stopped>>

(* A PDU is asked for when every one is handed out. *)
Exhaust == held = Id /\ stopped' = "exhausted" /\ UNCHANGED <<held, given>>

(* A PDU that is not handed out, or no PDU at all, is given back or looked up. *)
Misuse == stopped' = "misuse" /\ UNCHANGED <<held, given>>

PoolNext == stopped = "no" /\ (Take \/ Give \/ Exhaust \/ Misuse)

PoolSpec == PoolInit /\ [][PoolNext]_poolVars
=============================================================================
