-------------------------------- MODULE Fifo --------------------------------
(***************************************************************************)
(* The ring buffer of common/fifo.cpp, which holds the ids of the PDUs     *)
(* that wait for the MAC layer.  One task uses it, so a call is one step.  *)
(***************************************************************************)
EXTENDS Naturals, Sequences

CONSTANTS Elem,           \* what can be queued
          None,           \* what a cell holds before it is written
          Size            \* buffer_size

ASSUME SizeIsPositive == Size \in Nat \ {0}
ASSUME NoneIsNoElem == None \notin Elem

VARIABLES buffer, head_index, tail_index, fill_size,
          got,            \* the element fifo_get copied out last
          stop           \* the FIFO code of the FATAL that ended the process, or 0

fifoVars == <<buffer, head_index, tail_index, fill_size, got, stop>>

Cell == 0 .. Size - 1

(* fifo_init *)
FifoInit ==
  /\ buffer = [i \in Cell |-> None]
  /\ head_index = 0 /\ tail_index = 0 /\ fill_size = 0
  /\ got = None
  /\ stop = 0

Stop(code) ==
  stop' = code /\ UNCHANGED <<buffer, head_index, tail_index, fill_size, got>>

(* Mutant of fifo_put: the ring takes one element more than it has cells. *)
fifo_putOverfull(e) ==
  /\ stop = 0
  /\ \/ fill_size > Size /\ Stop(2)
     \/ /\ fill_size <= Size
        /\ fill_size' = fill_size + 1
        /\ buffer' = [buffer EXCEPT ![tail_index] = e]
        /\ tail_index' = (tail_index + 1) % Size
        /\ UNCHANGED <<head_index, got, stop>>

fifo_put(e) ==
  /\ stop = 0
  /\ \/ fill_size = Size /\ Stop(2)
     \/ /\ fill_size # Size
        /\ fill_size' = fill_size + 1
        /\ buffer' = [buffer EXCEPT ![tail_index] = e]
        /\ tail_index' = (tail_index + 1) % Size
        /\ UNCHANGED <<head_index, got, stop>>

(* Mutant of fifo_get: the fill size is left as it was. *)
fifo_getUncounted ==
  /\ stop = 0
  /\ \/ fill_size = 0 /\ Stop(3)
     \/ /\ fill_size # 0
        /\ got' = buffer[head_index]
        /\ head_index' = (head_index + 1) % Size
        /\ UNCHANGED <<buffer, fill_size, tail_index, stop>>

fifo_get ==
  /\ stop = 0
  /\ \/ fill_size = 0 /\ Stop(3)
     \/ /\ fill_size # 0
        /\ got' = buffer[head_index]
        /\ head_index' = (head_index + 1) % Size
        /\ fill_size' = fill_size - 1
        /\ UNCHANGED <<buffer, tail_index, stop>>

FifoNext == fifo_get \/ \E e \in Elem : fifo_put(e)

FifoSpec == FifoInit /\ [][FifoNext]_fifoVars

-----------------------------------------------------------------------------
FifoTypeOK ==
  /\ buffer \in [Cell -> Elem \cup {None}]
  /\ head_index \in Cell /\ tail_index \in Cell
  /\ fill_size \in 0..Size
  /\ got \in Elem \cup {None}
  /\ stop \in {0, 2, 3}

(* The cell of the i-th oldest element. *)
CellOf(i) == (head_index + i - 1) % Size

(* The three counters agree across every wrap, and each of the fill_size
   cells from head_index on holds something that was put.                  *)
RingConsistent ==
  /\ tail_index = (head_index + fill_size) % Size
  /\ \A i \in 1..fill_size : buffer[CellOf(i)] \in Elem

(* The ring is a bounded first-in first-out queue: no wrap loses an element,
   reorders two or gives one out twice.                                    *)
Contents == [i \in 1..fill_size |-> buffer[CellOf(i)]]
FifoStopped == CASE stop = 2 -> "full" [] stop = 3 -> "empty" [] OTHER -> "no"
Queue == INSTANCE BoundedQueue WITH items <- Contents, stopped <- FifoStopped
ImplementsQueue == Queue!QueueSpec
=============================================================================
