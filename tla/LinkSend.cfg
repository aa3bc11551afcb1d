\* Sending, on time and fairly: two messages of one or two frames, answers lost, negative
\* or late.  No symmetry, since one of the properties is of liveness.
CONSTANTS
  Pdu = {p1, p2}
  None = none
  MaxFrames = 2
  MacSeqMod = 2
  PhySeqMod = 4
  MaxRetry = 1
  PhyTo = 1
  LineMax = 1
  MaxLate = 0
  MaxBacklog = 2
  PeerFrame <- NoPeerFrame
  PeerGarbles = FALSE
  MaxArrived = 1
SPECIFICATION FairSpec
INVARIANTS TypeOK StackSafe StartupLossless MacBackstop
PROPERTY PduReturned
