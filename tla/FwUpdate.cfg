\* A short last packet, or none: three packets of two bytes; two losses, two late timeouts, two updates.
CONSTANTS
  BinLens = {5, 6}
  PacketSize = 2
  Word = 64
  RetryMax = 1
  MaxOta = 2
  MaxLoss = 2
  MaxLate = 2
SPECIFICATION FairSpec
INVARIANTS IndexInFile DeviceIntact QuietEnd
PROPERTY Concludes
\* the task may have nothing left to do
CHECK_DEADLOCK FALSE
