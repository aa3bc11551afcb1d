---------------------------- MODULE BoundedQueue ----------------------------
(* What the MAC layer expects of the fifo of PDU ids: a first-in first-out
   queue of at most Size elements that stops the process, and loses nothing,
   when it is asked for more than it has room for or has.                  *)
EXTENDS Naturals, Sequences

CONSTANTS Elem, None, Size

VARIABLES items,          \* the elements, oldest first
          got,            \* the element fifo_get gave last
          stopped         \* why a FATAL has ended the process, or "no"

queueVars == <<items, got, stopped>>

QueueInit == items = <<>> /\ got = None /\ stopped = "no"

Enqueue(e) == /\ Len(items) < Size
              /\ items' = Append(items, e)
              /\ UNCHANGED <<got, stopped>>

Dequeue == /\ items # <<>>
           /\ got' = Head(items)
           /\ items' = Tail(items)
           /\ UNCHANGED stopped

Overflow  == Len(items) = Size /\ stopped' = "full" /\ UNCHANGED <<items, got>>
Underflow == items = <<>> /\ stopped' = "empty" /\ UNCHANGED <<items, got>>

QueueNext == /\ stopped = "no"
             /\ Dequeue \/ Overflow \/ Underflow \/ \E e \in Elem : Enqueue(e)

QueueSpec == QueueInit /\ [][QueueNext]_queueVars
=============================================================================
