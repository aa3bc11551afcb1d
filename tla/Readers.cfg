\* Link PHY layer: addresses of two bytes, up to two bytes of data, three faults.  USB stick:
\* four frames of one or two bytes of data, damaged or not, read up to six bytes at a time.
\* Console: a buffer of four characters, three lines typed ahead.
CONSTANTS
  AddrLast = 1
  DataLen = 2
  MaxFaults = 3
  MaxBacklog = 2
  IFCPU_DATA_SIZE = 2
  MaxChunk = 6
  MaxWritten = 4
  CMD_BUFFER_SIZE = 4
  lgn_cmd_table <- CommandWords
  Line <- TypedLines
  MaxLines = 3
SPECIFICATION EitherSpec
INVARIANTS MidFrameTimed Lossless UsbInStep LinesRunAsTyped
PROPERTY Resync
\* a FATAL, or the memcpy of UsbParser, ends the process
CHECK_DEADLOCK FALSE
