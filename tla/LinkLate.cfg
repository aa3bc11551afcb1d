\* Sending and receiving while the timer thread and the tasks overtake each other, twice.
CONSTANTS
  Pdu = {p1}
  None = none
  MaxFrames = 1
  MacSeqMod = 2
  PhySeqMod = 2
  MaxRetry = 1
  PhyTo = 1
  LineMax = 1
  MaxLate = 2
  MaxBacklog = 1
  PeerFrame <- OnePdu
  PeerGarbles = FALSE
  MaxArrived = 1
SPECIFICATION Spec
SYMMETRY Symmetry
INVARIANTS PhyArmed RevArmed
\* a FATAL ends the process
CHECK_DEADLOCK FALSE
