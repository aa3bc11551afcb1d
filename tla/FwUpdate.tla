------------------------------ MODULE FwUpdate ------------------------------
(***************************************************************************)
(* The firmware transfer task (app/task_fw.cpp): it asks a device for its  *)
(* firmware, offers it the file, and sends the file packet by packet, each *)
(* acknowledged, with a timeout and a resend.  A packet carries no         *)
(* position: the device appends what it gets.                              *)
(*                                                                         *)
(* The device is not part of the program; it is modelled from the messages *)
(* the task sends and expects.  The way to it and back (interface task,    *)
(* link stack or radio, line) keeps the order and may lose messages.       *)
(***************************************************************************)
EXTENDS Naturals, Sequences

CONSTANTS BinLens,      \* the possible file sizes, in bytes
          PacketSize,   \* AK_COMMON_MSG_DATA_SIZE
          Word,         \* 2^32, the modulus of the uint32_t indices
          RetryMax,     \* GW_FW_PACKED_TIMEOUT_RETRY_COUNTER_MAX
          MaxOta,       \* bound: update requests from the shell
          MaxLoss,      \* bound: messages lost
          MaxLate       \* bound: timers that expire while an answer is on its way

ASSUME PacketSizeIsPos == PacketSize \in Nat \ {0}
ASSUME RetryMaxIsNat == RetryMax \in Nat
ASSUME BinLensFit == BinLens \subseteq Nat /\ Word \in Nat
                     /\ \A n \in BinLens \cup {0} : n + PacketSize < Word
ASSUME FwBounds == MaxOta \in Nat /\ MaxLoss \in Nat /\ MaxLate \in Nat

VARIABLES
  file,        \* firmware_file_name: a file is named by its size, 0 is no file yet
  bin_len,     \* file_firmware_info.bin_len
  index,       \* fw_bin_index
  packet_len,  \* fw_bin_packet_len
  retry,       \* gw_fw_packed_timeout_retry_counter
  timers,      \* the timers of the task that are set, named as their signals
  mailbox,     \* gw_task_fw_mailbox, oldest first
  toDev, toFw, \* the messages on their way
  dev,         \* the device: phase, bytes got, and whether they are the file's
  open,        \* history: an update was asked for and its end not reported
  otas, resent, lost, late, lostAnswer, lostEnd   \* history: see the actions

vars == <<file, bin_len, index, packet_len, retry, timers, mailbox, toDev, toFw, dev,
          open, otas, resent, lost, late, lostAnswer, lostEnd>>
task == <<file, bin_len, index, packet_len, retry>>
history == <<open, resent>>
outside == <<toFw, dev, otas, lost, late, lostAnswer, lostEnd>>

Timeout == {"PACKED_TIMEOUT", "GET_FIRMWARE_INFO_TIMEOUT", "DEV_INTERNAL_UPDATE_TIMEOUT"}
Answer  == {"CURRENT_INFO_RES", "UPDATE_RES_OK", "UPDATE_BUSY", "TRANSFER_RES_OK",
            "TRANSFER_CHECKSUM_ERR", "INTERNAL_UPDATE_REQ", "UPDATE_COMPLETED"}
Signal  == Timeout \cup Answer \cup {"OTA_REQ", "SM_UPDATE_RES_OK", "TRANFER_REQ"}
Request == {"FW_INFO_REQ", "FW_UPDATE_REQ", "FW_TRANSFER_REQ", "FW_INTERNAL_UPDATE_RES_OK"}

(* The bytes of a packet are named by the file and the place they were read
   from; the zeros of a read that fails have a place no file has.          *)
NoBytes == Word
File == BinLens \cup {0}
Message == [sig : Request, file : File, from : 0..NoBytes]

TypeOK ==
  /\ file \in File /\ bin_len \in File
  /\ index \in 0..(Word - 1) /\ packet_len \in 0..PacketSize
  /\ retry \in 0..255
  /\ timers \subseteq Timeout
  /\ mailbox \in Seq(Signal) /\ toDev \in Seq(Message) /\ toFw \in Seq(Answer)
  /\ dev \in [phase : {"idle", "transfer", "updating"}, len : File, got : Nat, intact : BOOLEAN]
  /\ open \in BOOLEAN /\ otas \in 0..MaxOta /\ resent \in 0..(RetryMax + 2)
  /\ lost \in 0..MaxLoss /\ late \in 0..MaxLate
  /\ lostAnswer \in BOOLEAN /\ lostEnd \in BOOLEAN

Init ==
  /\ file = 0 /\ bin_len = 0 /\ index = 0 /\ packet_len = 0 /\ retry = 0
  /\ timers = {} /\ mailbox = <<>> /\ toDev = <<>> /\ toFw = <<>>
  /\ dev = [phase |-> "idle", len |-> 0, got |-> 0, intact |-> TRUE]
  /\ open = FALSE /\ otas = 0 /\ resent = 0 /\ lost = 0 /\ late = 0
  /\ lostAnswer = FALSE /\ lostEnd = FALSE

Least(a, b) == IF a < b THEN a ELSE b

-----------------------------------------------------------------------------
(* The task: one handler per signal.  Each handles the oldest message and
   posts to its own mailbox, sends to the device, sets and removes timers.  *)
Handle(sig, posts) ==
  /\ mailbox # <<>> /\ Head(mailbox) = sig
  /\ mailbox' = Tail(mailbox) \o posts
  /\ UNCHANGED outside

Send(sig, from) == toDev' = Append(toDev, [sig |-> sig, file |-> file, from |-> from])
Set(t) == timers' = timers \cup {t}
Remove(t) == timers' = timers \ {t}

(* What a packet gets: bytes up to the end of the file, or nothing. *)
FirmwareRead(cursor, size) == IF (cursor + size) % Word > file THEN NoBytes ELSE cursor

(* The length of the file, into file_firmware_info. *)
FirmwareGetInfo == bin_len' = file /\ UNCHANGED <<file, index, packet_len, retry>>

(* What is left of the file: an unsigned subtraction. *)
Remain == (bin_len + Word - index) % Word

(* The functions that report an end to the user: fw_update_err and others. *)
Report == open' = FALSE /\ UNCHANGED resent

(* The request names a file; it exists, or fw_update_err(1). *)
OtaReq ==
  /\ file' \in BinLens
  /\ \/ Handle("OTA_REQ", <<"SM_UPDATE_RES_OK">>) /\ open' = TRUE /\ UNCHANGED resent
     \/ Handle("OTA_REQ", <<>>) /\ Report
  /\ UNCHANGED <<bin_len, index, packet_len, retry, timers, toDev>>

SmUpdateResOk ==
  /\ Handle("SM_UPDATE_RES_OK", <<>>)
  /\ Send("FW_INFO_REQ", 0)
  /\ Set("GET_FIRMWARE_INFO_TIMEOUT")
  /\ UNCHANGED <<task, history>>

(* The device has this firmware already, or it is offered the file. *)
CurrentInfoRes ==
  /\ Handle("CURRENT_INFO_RES", <<>>)
  /\ Remove("GET_FIRMWARE_INFO_TIMEOUT")
  /\ FirmwareGetInfo
  /\ \/ Report /\ UNCHANGED toDev
     \/ Send("FW_UPDATE_REQ", 0) /\ UNCHANGED history

UpdateResOk ==
  /\ Handle("UPDATE_RES_OK", <<"TRANFER_REQ">>)
  /\ index' = 0
  /\ resent' = 0
  /\ UNCHANGED <<file, bin_len, packet_len, retry, timers, toDev, open>>

(* Mutant of TranferReq: the packet before the last has no timeout either. *)
TranferReqUntimed ==
  /\ Handle("TRANFER_REQ", <<>>)
  /\ packet_len' = Least(Remain, PacketSize)
  /\ index' = (index + packet_len') % Word
  /\ retry' = 0
  /\ IF index' + PacketSize < bin_len THEN Set("PACKED_TIMEOUT") ELSE UNCHANGED timers
  /\ Send("FW_TRANSFER_REQ", FirmwareRead(index, packet_len'))
  /\ UNCHANGED <<file, bin_len, history>>

(* The unsigned remainder, the read, the step of the index, the reset of the
   retry counter; the last packet gets no timeout.                         *)
TranferReq ==
  /\ Handle("TRANFER_REQ", <<>>)
  /\ packet_len' = Least(Remain, PacketSize)
  /\ index' = (index + packet_len') % Word
  /\ retry' = 0
  /\ IF index' < bin_len THEN Set("PACKED_TIMEOUT") ELSE UNCHANGED timers
  /\ Send("FW_TRANSFER_REQ", FirmwareRead(index, packet_len'))
  /\ UNCHANGED <<file, bin_len, history>>

TransferResOk ==
  /\ Handle("TRANSFER_RES_OK", <<"TRANFER_REQ">>)
  /\ Remove("PACKED_TIMEOUT")
  /\ resent' = 0
  /\ UNCHANGED <<task, toDev, open>>

(* Mutants of PackedTimeout: the index is not set back, or twice as far. *)
PackedTimeoutForward ==
  /\ Handle("PACKED_TIMEOUT", IF retry > RetryMax THEN <<>> ELSE <<"TRANFER_REQ">>)
  /\ retry' = (retry + 1) % 256
  /\ IF retry > RetryMax
     THEN Report
     ELSE resent' = Least(resent + 1, RetryMax + 2) /\ UNCHANGED open
  /\ UNCHANGED <<file, bin_len, index, packet_len, timers, toDev>>

PackedTimeoutTwice ==
  /\ Handle("PACKED_TIMEOUT", IF retry > RetryMax THEN <<>> ELSE <<"TRANFER_REQ">>)
  /\ retry' = (retry + 1) % 256
  /\ IF retry > RetryMax
     THEN Report /\ UNCHANGED index
     ELSE /\ index' = (index + 2 * (Word - packet_len)) % Word
          /\ resent' = Least(resent + 1, RetryMax + 2)
          /\ UNCHANGED open
  /\ UNCHANGED <<file, bin_len, packet_len, timers, toDev>>

(* retry_counter++ > MAX (an 8-bit counter): give up; else go back one packet and send again.
   `resent` counts the resends since the device last answered.             *)
PackedTimeout ==
  /\ Handle("PACKED_TIMEOUT", IF retry > RetryMax THEN <<>> ELSE <<"TRANFER_REQ">>)
  /\ retry' = (retry + 1) % 256
  /\ IF retry > RetryMax
     THEN Report /\ UNCHANGED index
     ELSE /\ index' = (index + Word - packet_len) % Word
          /\ resent' = Least(resent + 1, RetryMax + 2)
          /\ UNCHANGED open
  /\ UNCHANGED <<file, bin_len, packet_len, timers, toDev>>

InternalUpdateReq ==
  /\ Handle("INTERNAL_UPDATE_REQ", <<>>)
  /\ timers' = (timers \ {"PACKED_TIMEOUT"}) \cup {"DEV_INTERNAL_UPDATE_TIMEOUT"}
  /\ Send("FW_INTERNAL_UPDATE_RES_OK", 0)
  /\ UNCHANGED <<task, history>>

(* Mutant of TransferChecksumErr: the packet timer is left running. *)
TransferChecksumErrTimed ==
  Handle("TRANSFER_CHECKSUM_ERR", <<>>) /\ Report /\ UNCHANGED <<task, timers, toDev>>

TransferChecksumErr ==
  /\ Handle("TRANSFER_CHECKSUM_ERR", <<>>)
  /\ Remove("PACKED_TIMEOUT")
  /\ Report
  /\ UNCHANGED <<task, toDev>>

UpdateCompleted ==
  /\ Handle("UPDATE_COMPLETED", <<>>)
  /\ Remove("DEV_INTERNAL_UPDATE_TIMEOUT")
  /\ Report
  /\ UNCHANGED <<task, toDev>>

(* GET_FIRMWARE_INFO_TIMEOUT, DEV_INTERNAL_UPDATE_TIMEOUT and UPDATE_BUSY only
   report.                                                                 *)
OnlyReport ==
  /\ \E sig \in {"GET_FIRMWARE_INFO_TIMEOUT", "DEV_INTERNAL_UPDATE_TIMEOUT", "UPDATE_BUSY"} :
        Handle(sig, <<>>)
  /\ Report
  /\ UNCHANGED <<task, timers, toDev>>

Task == \/ OtaReq \/ SmUpdateResOk \/ CurrentInfoRes \/ UpdateResOk \/ TranferReq
        \/ TransferResOk \/ PackedTimeout \/ InternalUpdateReq
        \/ TransferChecksumErr \/ UpdateCompleted \/ OnlyReport

-----------------------------------------------------------------------------
(* What is outside the task.                                               *)

(* The shell asks for an update, at any time. *)
Ask ==
  /\ otas < MaxOta
  /\ otas' = otas + 1
  /\ mailbox' = Append(mailbox, "OTA_REQ")
  /\ UNCHANGED <<task, timers, toDev, toFw, dev, open, resent, lost, late,
                 lostAnswer, lostEnd>>

(* Whether all there is to say has been said, and only a timer can go on. *)
Silent(t) ==
  /\ mailbox = <<>> /\ toDev = <<>> /\ toFw = <<>>
  /\ t = "DEV_INTERNAL_UPDATE_TIMEOUT" => dev.phase # "updating"

(* The timer thread posts the timeout of a one-shot timer; `late` counts those
   that an answer still on its way could have prevented.                   *)
Expire(t) ==
  /\ t \in timers
  /\ IF Silent(t) THEN UNCHANGED late ELSE late < MaxLate /\ late' = late + 1
  /\ timers' = timers \ {t}
  /\ mailbox' = Append(mailbox, t)
  /\ UNCHANGED <<task, toDev, toFw, dev, open, otas, resent, lost, lostAnswer, lostEnd>>

Arrive ==
  /\ toFw # <<>>
  /\ toFw' = Tail(toFw)
  /\ mailbox' = Append(mailbox, Head(toFw))
  /\ UNCHANGED <<task, timers, toDev, dev, open, otas, resent, lost, late,
                 lostAnswer, lostEnd>>

LoseRequest ==
  /\ toDev # <<>> /\ lost < MaxLoss
  /\ toDev' = Tail(toDev)
  /\ lost' = lost + 1
  /\ lostEnd' = (lostEnd \/ LET m == Head(toDev) IN
                             \/ m.sig = "FW_UPDATE_REQ"
                             \/ m.sig = "FW_TRANSFER_REQ" /\ m.from + PacketSize >= bin_len)
  /\ UNCHANGED <<task, timers, mailbox, toFw, dev, open, otas, resent, late, lostAnswer>>

LoseAnswer ==
  /\ toFw # <<>> /\ lost < MaxLoss
  /\ toFw' = Tail(toFw)
  /\ lost' = lost + 1
  /\ lostAnswer' = (lostAnswer \/ Head(toFw) = "TRANSFER_RES_OK")
  /\ lostEnd' = (lostEnd \/ Head(toFw) \in {"UPDATE_RES_OK", "UPDATE_BUSY",
                                            "TRANSFER_CHECKSUM_ERR", "INTERNAL_UPDATE_REQ"})
  /\ UNCHANGED <<task, timers, mailbox, toDev, dev, open, otas, resent, late>>

(* The device takes up a transfer or is busy. *)
DevOffer(m) ==
  /\ m.sig = "FW_UPDATE_REQ"
  /\ \/ /\ dev' = [phase |-> "transfer", len |-> m.file, got |-> 0, intact |-> TRUE]
        /\ toFw' = Append(toFw, "UPDATE_RES_OK")
     \/ toFw' = Append(toFw, "UPDATE_BUSY") /\ UNCHANGED dev

(* It appends the packet and asks for the next or, with the announced length,
   judges the checksum.                                                    *)
DevPacket(m) ==
  LET got    == Least(dev.got + PacketSize, dev.len)
      intact == dev.intact /\ m.file = dev.len /\ m.from = dev.got
  IN /\ m.sig = "FW_TRANSFER_REQ" /\ dev.phase = "transfer"
     /\ dev' = [phase |-> IF got < dev.len THEN "transfer" ELSE "idle",
                len |-> dev.len, got |-> got, intact |-> intact]
     /\ toFw' = Append(toFw, CASE got < dev.len -> "TRANSFER_RES_OK"
                               [] got = dev.len /\ intact -> "INTERNAL_UPDATE_REQ"
                               [] OTHER -> "TRANSFER_CHECKSUM_ERR")

DevOther(m) ==
  \/ m.sig = "FW_INFO_REQ" /\ toFw' = Append(toFw, "CURRENT_INFO_RES") /\ UNCHANGED dev
  \/ m.sig = "FW_INTERNAL_UPDATE_RES_OK" /\ dev' = [dev EXCEPT !.phase = "updating"] /\ UNCHANGED toFw
  \/ m.sig = "FW_TRANSFER_REQ" /\ dev.phase # "transfer" /\ UNCHANGED <<dev, toFw>>

Device ==
  /\ \/ /\ toDev # <<>> /\ toDev' = Tail(toDev)
        /\ DevOffer(Head(toDev)) \/ DevPacket(Head(toDev)) \/ DevOther(Head(toDev))
     \/ /\ dev.phase = "updating"
        /\ dev' = [dev EXCEPT !.phase = "idle"]
        /\ toFw' = Append(toFw, "UPDATE_COMPLETED")
        /\ UNCHANGED toDev
  /\ UNCHANGED <<task, timers, mailbox, open, otas, resent, lost, late, lostAnswer, lostEnd>>

Next == \/ Task \/ Ask \/ Arrive \/ LoseRequest \/ LoseAnswer \/ Device
        \/ \E t \in Timeout : Expire(t)

Spec == Init /\ [][Next]_vars

(* The task's loop and the timer thread run, and what is not lost goes on. *)
Fairness == /\ WF_vars(Task) /\ WF_vars(Arrive) /\ WF_vars(Device)
            /\ \A t \in Timeout : WF_vars(Expire(t))

FairSpec == Spec /\ Fairness

-----------------------------------------------------------------------------
(* The hypothesis of the properties below that name it: one update at a time,
   and no timeout overtakes an answer.                                     *)
Punctual == late = 0 /\ otas <= 1

(* fw_bin_index never leaves the file: the unsigned subtraction of the
   PACKED_TIMEOUT handler does not wrap, however late timeouts are, as long as
   no second update sets the index back, or takes a shorter file, under way. *)
IndexInFile == otas <= 1 => index <= bin_len

(* Unless an acknowledgement is lost, what the device has collected is the
   beginning of the file: lost packets are sent again, and none twice
   (PACKED_TIMEOUT and TRANFER_REQ handlers).                              *)
DeviceIntact == Punctual /\ ~lostAnswer => dev.intact

(* Once the end of the update is reported nothing of it goes on: no packet is
   waiting to be sent or resent.                                           *)
QuietEnd ==
  Punctual /\ ~open =>
    /\ "PACKED_TIMEOUT" \notin timers
    /\ \A i \in 1..Len(mailbox) : mailbox[i] \notin {"PACKED_TIMEOUT", "TRANFER_REQ"}

(* Every update is reported to an end, unless a message is lost that no timer
   of the task stands for: the offer, the last packet, or their answers.   *)
Concludes == open ~> (~open \/ lostEnd \/ ~Punctual)

(* The name GW_FW_PACKED_TIMEOUT_RETRY_COUNTER_MAX says that the resends of a
   packet that nobody answers are limited (PACKED_TIMEOUT handler).        *)
RetryLimited == resent <= RetryMax + 1
=============================================================================
