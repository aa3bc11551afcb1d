\* One ACK that arrives while the timeout is being posted is enough.
CONSTANTS
  Pdu = {p1}
  None = none
  MaxFrames = 1
  MacSeqMod = 2
  PhySeqMod = 4
  MaxRetry = 1
  PhyTo = 1
  LineMax = 1
  MaxLate = 1
  MaxBacklog = 1
  PeerFrame <- NoPeerFrame
  PeerGarbles = FALSE
  MaxArrived = 1
SPECIFICATION Spec
SYMMETRY Symmetry
INVARIANT PhyIdleOnRequest
\* a FATAL ends the process
CHECK_DEADLOCK FALSE
