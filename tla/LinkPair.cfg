\* Two PDUs of one or two frames over a line that loses, garbles or delays a few frames.
CONSTANTS
  Pdu = {p1, p2}
  None = none
  MaxFrames = 2
  MacSeqMod = 4
  PhySeqMod = 4
  MaxRetry = 1
  PhyTo = 1
  LineMax = 5
  MaxLate = 0
  MaxBacklog = 1
  PeerFrame <- NoPeerFrame
  PeerGarbles = FALSE
  MaxArrived = 1
  MaxSends = 2
  MaxFaults = 4
SPECIFICATION PairSpec
SYMMETRY Symmetry
INVARIANTS Whole InOrderOnce ReportedArrived
\* the sends and the faults are bounded
CHECK_DEADLOCK FALSE
