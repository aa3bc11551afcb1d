\* The device falls silent: every packet after the first is lost.
CONSTANTS
  BinLens = {4}
  PacketSize = 2
  Word = 64
  RetryMax = 1
  MaxOta = 1
  MaxLoss = 3
  MaxLate = 0
SPECIFICATION Spec
INVARIANT RetryLimited
CHECK_DEADLOCK FALSE
