\* Sending and receiving at once, on time: the two share a pool of two PDUs.
CONSTANTS
  Pdu = {p1, p2}
  None = none
  MaxFrames = 2
  MacSeqMod = 2
  PhySeqMod = 4
  MaxRetry = 1
  PhyTo = 1
  LineMax = 2
  MaxLate = 0
  MaxBacklog = 1
  PeerFrame <- TwoPdus
  PeerGarbles = TRUE
  MaxArrived = 1
SPECIFICATION Spec
SYMMETRY Symmetry
INVARIANT StackSafe
\* a FATAL ends the process
CHECK_DEADLOCK FALSE
