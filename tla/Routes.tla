------------------------------- MODULE Routes -------------------------------
(***************************************************************************)
(* What the gateway promises: on every route, from a sender to a task of   *)
(* the gateway or to one of its interfaces, messages come out as they were *)
(* accepted, once and in order.  Only a route that ends at another process *)
(* or nowhere may lose some.                                               *)
(***************************************************************************)
EXTENDS Naturals, Sequences

CONSTANTS Route, Content,
          Lossy             \* the routes that may lose a message

VARIABLES sent,             \* sent[r]: the messages accepted on r, oldest first
          done,             \* done[r]: how many of them have left the gateway
          got               \* got[r]: the messages that came out of r

routeVars == <<sent, done, got>>

RoutesInit == /\ sent = [r \in Route |-> <<>>] /\ got = [r \in Route |-> <<>>]
              /\ done = [r \in Route |-> 0]

Accept(r, m) == sent' = [sent EXCEPT ![r] = Append(@, m)] /\ UNCHANGED <<done, got>>

Leave(r) == /\ done[r] < Len(sent[r])
            /\ done' = [done EXCEPT ![r] = @ + 1]
            /\ UNCHANGED sent

Deliver(r) == Leave(r) /\ got' = [got EXCEPT ![r] = Append(@, sent[r][done[r] + 1])]
Lose(r) == r \in Lossy /\ Leave(r) /\ UNCHANGED got

RoutesNext == \E r \in Route : \/ Deliver(r) \/ Lose(r)
                               \/ \E m \in Content : Accept(r, m)

RoutesSpec == RoutesInit /\ [][RoutesNext]_routeVars
=============================================================================
