\* Every sequence of calls, right or wrong, on a pool of four; a ring of three cells,
\* which wraps after every third call, and two element values.
CONSTANTS
  PoolSize = 4
  Elem = {a, b}
  None = none
  Size = 3
SPECIFICATION EitherSpec
INVARIANTS IInv RingConsistent
PROPERTIES ImplementsPool ImplementsQueue
\* a FATAL ends the process
CHECK_DEADLOCK FALSE
