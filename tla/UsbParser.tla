------------------------------ MODULE UsbParser ------------------------------
(***************************************************************************)
(* The receive thread of the USB radio stick                               *)
(* (app/interfaces/if_usb_stick_rf24.cpp): read returns the bytes of the   *)
(* serial line in chunks cut anywhere, and rx_frame_parser goes through a  *)
(* chunk, copying the data of a frame in blocks.  Nothing ever times out.  *)
(*                                                                         *)
(* A byte is known by its frame and its place there: 0 the start, 1 the    *)
(* length, then the data, then the checksum, which is taken to tell every  *)
(* damaged frame.  No byte of data looks like a start of frame.  A chunk   *)
(* stays below the 256 bytes that the uint8_t length of rx_frame_parser    *)
(* can say.                                                                *)
(***************************************************************************)
EXTENDS Integers, Sequences, SequencesExt

CONSTANTS IFCPU_DATA_SIZE,      \* the longest data, and the largest length accepted
          MaxChunk,             \* bound: the bytes of one read
          MaxWritten            \* bound: frames the stick writes

ASSUME UsbBounds == IFCPU_DATA_SIZE \in Nat /\ MaxChunk \in Nat /\ MaxWritten \in Nat

VARIABLES
  stream,           \* the bytes on the line
  chunk,            \* rx_buffer from `data` on, `len` bytes
  rx_frame_state,
  frame,            \* if_usb_stick_rf24_frame: its len and the bytes of its data
  posted,           \* history: the frames that became a message, in order
  written,          \* history: how many frames were written
  clean,            \* history: bytes written since the last damaged frame
  due,              \* history: the frames that must be received
  crashed              \* memcpy was given a negative length

usbVars == <<stream, chunk, rx_frame_state, frame, posted, written, clean, due, crashed>>

UsbInit ==
  /\ stream = <<>> /\ chunk = <<>>
  /\ rx_frame_state = "SOP" /\ frame = [len |-> 0, data |-> <<>>]
  /\ posted = <<>> /\ written = 0 /\ due = {} /\ crashed = FALSE
  /\ clean = IFCPU_DATA_SIZE + MaxChunk

-----------------------------------------------------------------------------
UsbByte(f, n, place) == [of |-> f, len |-> n, place |-> place]
Bytes(f, n) == [i \in 1 .. n + 3 |-> UsbByte(f, n, i - 1)]

(* A length that is misread, or the start of frames to come, does no more
   damage than this.                                                       *)
Recovery == IF MaxChunk - 1 > IFCPU_DATA_SIZE + 1 THEN MaxChunk - 1 ELSE IFCPU_DATA_SIZE + 1

(* The stick writes a frame, of which a byte may be lost. *)
Write ==
  /\ written < MaxWritten /\ Len(stream) < MaxChunk
  /\ written' = written + 1
  /\ \E n \in 1..IFCPU_DATA_SIZE :
       \/ /\ stream' = stream \o Bytes(written', n)
          /\ clean' = clean + n + 3
          /\ due' = IF clean >= Recovery THEN due \cup {written'} ELSE due
       \/ /\ \E i \in 1 .. n + 3 : stream' = stream \o RemoveAt(Bytes(written', n), i)
          /\ clean' = 0
          /\ UNCHANGED due
  /\ UNCHANGED <<chunk, rx_frame_state, frame, posted, crashed>>

(* read returns what is there, or less *)
Read ==
  /\ chunk = <<>> /\ stream # <<>> /\ ~crashed
  /\ \E n \in 1..MaxChunk :
       /\ n <= Len(stream)
       /\ chunk' = SubSeq(stream, 1, n)
       /\ stream' = SubSeq(stream, n + 1, Len(stream))
  /\ UNCHANGED <<rx_frame_state, frame, posted, written, clean, due, crashed>>

-----------------------------------------------------------------------------
(* rx_frame_parser, one turn of its loop a step. *)
Turn(state) == rx_frame_state = state /\ chunk # <<>> /\ ~crashed
ch == Head(chunk)

UsbRxSop ==
  /\ Turn("SOP") /\ chunk' = Tail(chunk)
  /\ rx_frame_state' = IF ch.place = 0 THEN "LEN" ELSE "SOP"
  /\ UNCHANGED <<stream, frame, posted, written, clean, due, crashed>>

(* What is read as a length: any byte but a length itself may have any value.
   A length that is too large costs the rest of the chunk.                  *)
Value == IF ch.place = 1 THEN {ch.len} ELSE 0 .. IFCPU_DATA_SIZE + 1
UsbRxLen ==
  /\ Turn("LEN")
  /\ \E n \in Value :
       \/ /\ n > IFCPU_DATA_SIZE
          /\ rx_frame_state' = "SOP" /\ chunk' = <<>>
          /\ UNCHANGED frame
       \/ /\ n <= IFCPU_DATA_SIZE
          /\ frame' = [len |-> n, data |-> <<>>]
          /\ rx_frame_state' = "DATA" /\ chunk' = Tail(chunk)
  /\ UNCHANGED <<stream, posted, written, clean, due, crashed>>

(* Mutant of Copied: what the byte before has already taken is not counted. *)
CopiedWhole == IF frame.len < Len(Tail(chunk)) THEN frame.len ELSE Len(Tail(chunk))

(* After the byte ch come as many of the chunk as the frame still lacks. *)
rx_remain == frame.len - Len(frame.data) - 1
Copied == IF rx_remain < Len(Tail(chunk)) THEN rx_remain ELSE Len(Tail(chunk))

UsbRxData ==
  /\ Turn("DATA")
  /\ \/ rx_remain < 0 /\ crashed' = TRUE /\ UNCHANGED <<chunk, frame, rx_frame_state>>
     \/ /\ rx_remain >= 0
        /\ frame' = [frame EXCEPT !.data = @ \o SubSeq(chunk, 1, 1 + Copied)]
        /\ chunk' = SubSeq(chunk, 2 + Copied, Len(chunk))
        /\ rx_frame_state' = IF Copied = rx_remain THEN "FCS" ELSE "DATA"
        /\ UNCHANGED crashed
  /\ UNCHANGED <<stream, posted, written, clean, due>>

(* The checksum covers the length and the data; a good frame is posted. *)
Good == ch.place = ch.len + 2 /\ frame.len = ch.len
        /\ frame.data = SubSeq(Bytes(ch.of, ch.len), 3, ch.len + 2)
UsbRxFcs ==
  /\ Turn("FCS") /\ chunk' = Tail(chunk)
  /\ rx_frame_state' = "SOP"
  /\ posted' = IF Good THEN Append(posted, ch.of) ELSE posted
  /\ UNCHANGED <<stream, frame, written, clean, due, crashed>>

UsbNext == Write \/ Read \/ UsbRxSop \/ UsbRxLen \/ UsbRxData \/ UsbRxFcs

UsbSpec == UsbInit /\ [][UsbNext]_usbVars

-----------------------------------------------------------------------------
(* However the line is cut into chunks, every frame is received once and in
   order, but those that a damaged one before them may cost: after Recovery
   good bytes the parser is in step again, without any timeout.  A damaged
   frame can also end the process (UsbRxData): a length that is read as 0 makes
   rx_remain negative.                                                      *)
UsbInStep ==
  /\ \A i, j \in DOMAIN posted : i < j => posted[i] < posted[j]
  /\ stream = <<>> /\ chunk = <<>> /\ ~crashed
       => \A f \in due : \E i \in DOMAIN posted : posted[i] = f
=============================================================================
