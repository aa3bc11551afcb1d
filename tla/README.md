# TLA+ models of ak_linux_base

`ak_linux_base` is an event-driven ("active kernel") gateway program in C++.
Every task is a POSIX thread with a mailbox; tasks, timers and receive threads
talk by posting messages. The program's largest piece of logic is a link stack
(PHY, MAC, link) that carries messages to another board over a serial line; its
longest protocol is the transfer of firmware to a device.

This directory models the kernel's start-up, message passing and timers, the
memory of messages and their way through the gateway, the link stack on one and
on two boards, the readers of bytes, and the firmware transfer; it checks them
with TLC, and proves with TLAPS, for every value of their constants, the kernel
(start-up, mailbox, message list, timer service), the data structures and the
stack of the link, its byte parser, the memory of messages in the gateway and the
firmware transfer. Source paths below are relative to `src/source/`.

## Inventory

| Part | State | Operations | Interacts with |
|---|---|---|---|
| Mailbox (`ak/ak.cpp`) | mutex and condition variable per task, its message list | `task_post`, `task_post_*_msg`, `ak_msg_rev` | every thread |
| Message list (`ak/message.cpp`) | `head`, `tail`, `len`, `next`/`prev` of messages | `q_msg_put`, `q_msg_get`, `q_msg_available`; `q_msg_len`, which nothing calls | mailbox, under its mutex |
| Message memory (`ak/ak.cpp`, `ak_msg_free` and the get/set/copy functions) | header and payload of a message | get, set, copy, free | every task |
| Start-up (`ak/ak.cpp`, `main`) | the task table, a start barrier | `task_init`, `wait_all_tasks_started` | every task |
| Timer service (`ak/timer.cpp`) | doubly linked list of timers, `mt_timer_service` | `timer_set`, `timer_remove_attr`, `timer_handler` every millisecond | posts to tasks |
| Fifo (`common/fifo.cpp`) | ring, two indices, fill size | `fifo_put`, `fifo_get` | MAC layer |
| PDU pool (`networks/net/link/link_data.cpp`) | array of PDUs, free list | `link_pdu_malloc`, `link_pdu_free` (two), `link_pdu_get` | link and MAC layer |
| PHY layer (`link_phy.cpp`) | send state, retries, sequence number | request, timeout, frame received, checksum error | MAC layer, timer, serial line |
| Byte parser (`link_phy.cpp`, receive thread) | parser state under a mutex, index, frame | one byte; reset by the frame timeout | PHY task, timer, serial line |
| MAC layer (`link_mac.cpp`) | sender (PDU, frame, retries), fifo of waiting PDUs, receiver | send request/start/done/err/timeout, frame received, receive timeout | PHY and link layer, timer, pool |
| Link layer (`link.cpp`) | only its start-up state | send a message of four kinds, done, err, PDU received | MAC layer, CPU serial task, pool |
| Firmware transfer (`app/task_fw.cpp`) | file index, packet length, retry counter | request, transfer, timeout, acknowledgement | shell, router, timer, the device |
| Router (`app/task_if.cpp`) | none | forward a message to a task or to an interface task | every task, interface tasks |
| CPU serial interface (`app/interfaces/if_cpu_serial.cpp`) | none | translate between router and link layer | router, link layer |
| Application socket (`if_app.cpp`) | the sockets | write a message to an application; receive thread | router, application processes |
| USB radio stick (`if_usb_stick_rf24.cpp`) | parser state, the frame so far | write a message; receive thread with a byte parser | router, the stick |
| Console (`if_console.cpp`, `task_console.cpp`, `common/cmd_line.cpp`) | line buffer and index | a character; a line | keyboard, shell commands |
| Shell (`app/shell.cpp`) | none | `fw`, `dbg 1` to `dbg 4`, `ver`, `help` | router, link layer, firmware task |
| System, debug and sensor tasks | a counter; test data; none | answer two signals; load tests; free what comes | router, themselves |
| RF24 and RF433 drivers, configuration object, vendored libraries | - | - | not part of the program's own logic, or disabled in the build |

What is hard in it:

* **Threads.** Every mailbox has many posters and one reader; the reader tests
  the length once, with `if`, before it sleeps (`ak.cpp:501`).
* **Timeouts that cannot be taken back.** `timer_remove_attr` removes the timer
  but not a timeout that has already been posted: it waits in the mailbox
  behind, or in front of, the answer it was meant to guard (`link_phy.cpp:320`,
  `link_mac.cpp:203-244`).
* **A lossy line.** Requests, ACKs and NACKs may be lost, late or garbled; two
  layers retry, each with its own timer and counter.
* **Bounded resources.** Pool and fifo end the process (`FATAL`) when they are
  exhausted or misused, so a leak or a double free is a crash in time.
* **Start-up.** Threads run before the condition variables and mailboxes of
  later tasks exist (`ak.cpp:36-48`); a barrier is to hold them back, and two
  act in front of it. Then the three link layers start in a handshake (LINK asks
  MAC, MAC asks PHY, and back) while others already post to them.
* **Manual memory.** A message is three blocks. Every hop copies it, posts the
  copy and frees the original, while the next hop may already be done with the
  copy (`ak.cpp:198`).
* **Two boards.** What a lost ACK, a late one or a PDU given up half-way does to
  the other board shows only when both stacks and the line are taken together.
* **Pointer surgery.** The timer list is modified in the middle of its walk.
* **Read, then store.** The parser's mutex covers each read and each store of its
  state, not the two together; a reset by the PHY task fits in between.
* **No positions.** Firmware packets carry no offset: task and device must stay
  in step through loss, resends and late timeouts.

What makes each part correct: the mailbox loses, repeats and reorders nothing
and never sleeps over a message; the lists, the ring and the free list are
exactly the queue or set they stand for; every timer that is set fires or is
removed; every PDU has exactly one owner; the MAC and PHY layers agree on the
frame in flight; neither waits for ever; no `FATAL` is reached but for a
pool that is really empty, or over a message from outside that a handler does not stand; a PDU
reported sent has arrived, whole and once; a message comes out of the gateway
where it was sent, and its memory is freed exactly once; a reader of bytes is in
step again some bytes after a fault.

## Modules

| Module | Models | Kind |
|---|---|---|
| `Channel` | what a mailbox promises | abstract |
| `Mailbox` | `task_post` and `ak_msg_rev`, step by step | detailed, implements `Channel` |
| `BoundedQueue` | what a queue promises | abstract |
| `MsgList` | the linked list of `message.cpp` | implements `BoundedQueue` |
| `Fifo` | the ring of `fifo.cpp` | implements `BoundedQueue` |
| `IdPool` | what the PDU pool promises | abstract |
| `PduPool` | the free list of `link_data.cpp` | implements `IdPool` |
| `TimerService` | what the timer service promises | abstract |
| `Timer` | the timer list of `timer.cpp` | implements `TimerService` |
| `LinkBase` | mailboxes, timers, pool and FATAL as the link tasks see them | shared state |
| `LinkPhy`, `LinkMac`, `Link` | the handlers of the three tasks, one action per signal and outcome | components |
| `LinkStack` | the tasks, the timer thread, a client and the peer | composition |
| `LinkPair` | two boards and the line between them, one sending | composition |
| `PhyParser` | the byte parser of the link: receive thread, PHY task, timer, line | component |
| `UsbParser` | the byte parser of the USB stick | component |
| `Console` | from the character typed to the command that is run | component |
| `Boot` | `main`, the start barrier and the first steps of four tasks | component |
| `Message` | the blocks of a message; get, set, copy, free | component |
| `Routes` | what the gateway promises | abstract |
| `Gateway` | router, interface tasks and the tasks behind them, on the heap of `Message` | composition, implements `Routes` |
| `FwUpdate` | the firmware transfer task, with the device and the way to it | component |
| `MC*` | instances for TLC; `MCKernel`, `MCLinkData` and `MCReaders` put unrelated components side by side, a behaviour being one of either (`used_one`) | |
| `KernelProofs` | of `Mailbox`, `MsgList`, `Timer` and `Boot` | proofs |
| `BufferProofs` | of `PduPool`, `Fifo`, `PhyParser`, `UsbParser` and `Console` | proofs |
| `LinkProofs` | of `LinkStack`: however tasks and timer thread overtake each other, then while they do not | proofs |
| `LinkPairProofs`, `LinkWholeProofs` | of `LinkPair`, on top of `LinkProofs`: what holds whatever the faults, and the account of the faults; then what holds while they are few | proofs |
| `GatewayProofs`, `FwProofs` | of `Gateway` with `Message`; of `FwUpdate` | proofs |
| `Counting` | lemmas on how often something occurs in a sequence | proofs |

The layering is that of the program. `LinkStack` uses each mailbox as a
sequence, which is what `Mailbox` is shown to implement (`Channel`), the pool
as a set of ids (`IdPool`), the waiting PDUs as a sequence (`BoundedQueue`)
and the timers as counters that are decremented together (`TimerService`).
`Gateway` stands on the same mailboxes, and on a link that does what `LinkPair`
shows.

### Mailbox

`pc` says where a thread is in `task_post` or `ak_msg_rev`, `mutex` is
`mt_mailbox_cond`, `queue` the list. Waiting releases the mutex in the same
step, and a woken task takes it again before it goes on, without testing the
length again. `Spurious` lets `pthread_cond_wait` return unsignalled, as POSIX
allows. `ak_msg_rev` then returns `AK_MSG_NULL`, which every task loop
dereferences: the model stops in `crashed`. `sent` and `rcvd` are histories.
The list's own mutex is taken only inside `mt_mailbox_cond` and left out.

### Start-up

`Boot` has a step for each of the three things `main` does for a task (mailbox,
thread, condition variable), and for each thread the steps to and through
`wait_all_tasks_started`. Of the fourteen tasks it has four: the timer task, which
empties the timer list before the barrier; the PHY task, which before the
barrier starts the thread that reads the serial port; the last one, LINK, which
posts to itself; and one that stands for all others. The counter of the barrier is
incremented and read under a mutex. `StartSafe` states what the barrier achieves and
names the two things it does not: the last task may reach its mailbox while
`main` has yet to initialise its condition variable, and a timer that the reader
sets may be swept away by the start of the timer task.

### Data structures

`MsgList`, `Fifo`, `PduPool` and `Timer` keep the code's pointers and indices.
Calls hold a mutex (or run on one task), so a call is one step, except the walk
of `timer_handler`, which visits a node a step because each of its posts is
seen at once. `chain` in `PduPool` and `Timer` is a history variable, the
order of the linked nodes: it makes the invariants local statements about
neighbours, which can be proved without induction over the list; `messages` in
`MsgList` is the same for a mailbox. What a walk from the tail of the timer list meets
(`Listed`) is the least set that holds the tail and with a node its successor. In `Timer`
the walk takes effect when the mutex is taken: the refinement mapping
(`LeftOf`, `Gone`, `Expired`) reads what the nodes ahead of the walk are about
to become. `TimerService` also states, as the code has it, that `timer_set` on
a timer that exists keeps the old period.

### Link stack

A handler runs on its task's thread to its end and is one step. Its posts are
appended to the mailboxes when it ends; the posts of one handler go to
different mailboxes or are listed in order. `fsm` is the pair of state
functions (`*_state_init`, `*_state_handle`) a task starts in and switches to.
A message carries its signal and a PDU id or frame header; payload, addresses
and checksums are left out (a frame with a wrong checksum arrives as
`FRAME_REV_CS_ERR`), and a PDU's length is counted in frames.

`line` is the serial line: what was written and not yet heard, the last
`LineMax` frames. The peer answers a request with ACK or NACK or loses it, and
its answer may come after any number of timeouts; it sends frames of its own
(`PeerFrame`), in any order and repeatedly, or garbled.

The timer thread is two kinds of step: `Tick` decrements every counter while
it holds the timer mutex, `Expire` posts one timeout; until all are posted no
task gets through `timer_set` or `timer_remove_attr`. A frame's timeout
can thus be posted just before, or just after, its ACK arrives. `late` counts
these overtakings: a tick that finds a message waiting, or a message that
arrives during a tick. `MaxLate = 0` is the program on a machine where a
millisecond is long compared with a handler; with `MaxLate > 0` the two race.

Not every step of the code is possible in the model's larger sense: the FATAL
branches `LINK_MAC 01`, `03`, `04`, `LINK_PDU 03` are there because the code
has them, and the invariants show which of them are never reached.

### Two boards

`LinkPair` takes the stack twice, one for the board that sends and one
(`INSTANCE LinkStack`) for the one that receives, without its client. `Carry`
takes a frame from one line to the other board, or garbles or loses it, and a
tick that finds a frame still on its way makes it late: each is one of
`faults`. `slots` records which frames the receiver wrote into a PDU, which is
what the payload bytes would tell; `given` is what its LINK task is handed. PDUs
and frames are known by their sequence number and index; the initial sequence
number of the receiver is any (`first`), for `rand()` gives it and nothing seeds
it. When it happens to be that of the sender's first PDU, that PDU is
acknowledged, reported DONE and ignored (`TakenForOld`), which the code does
nothing against. The properties have limits that belong to the code:
`ReportedArrived` needs fewer faults than the repetitions of both layers,
`2 * (MaxRetry + 1)`. `Whole` holds up to that number and not beyond: the sender
then gives up a PDU half-way; the receiver, which still waits for its rest, acknowledges
and ignores the beginning of the next one, times out, and takes what follows of it for a
PDU, which lacks its first frame. With `MaxRetry = 1` TLC finds this with five faults.
Two PDUs are never mixed, whatever the faults (`PairUnmixed`).

### Messages and the gateway

`Message` has the heap: a message is a block that points to a header block that
points to a payload block. A message under construction is nobody else's and has
no address yet; `Stored` takes its blocks when it is posted. `ak_memcpy_msg`
and `ak_msg_free` go along the pointers. malloc does not fail: the heap has three
blocks for every offer and every task (`HeapIsLarge`), and the proofs show that
this is enough: an offer is at most one message in a mailbox, and a task has one in
hand.

`Gateway` has one action per task and kind of outcome. A handler is two steps,
so that others run between its post and its `ak_msg_free`. Signals are the
numbers of the code, since the router and the socket task post a message on under the
number it came with (`task_if.cpp:197`): the enumerations of two tasks must
agree. An offer is a message that may enter: by the socket, the stick or the serial
line, from the firmware task or from the console, or one that the timer service or the
shell posts to a task (`"local"`: the timers that handlers set, `Timed`, and the
request for an update). `Promised` is what has to come out.
A message to an application is a connection that is made or fails. `Routes` is
the promise: order and content on every route, from sender to task or
interface; only routes that end at another process, or for which the router has
no case, may lose. `carried` is history: the route of each message in a mailbox, and its
number there.

The application tasks take every signal they have a handler for. What they do with it is in
`FwUpdate` for the firmware task; here it is what they post (`FwPosts`, `SysPosts`, `DebugSends`,
`DebugPosts`), what they forget (`leaked`) and where they end the process. A message that a task posts
for one it has handled is on no route (`Own`). The load tests of the debug task run as they
are: each of its signals may come from a timer or from outside, and starts a
message over the link, a signal to the system task, or a timer. Whether a file exists that an update
asks for, or the timeouts were too many, is a choice.

The process may end at these places, and `fatal` says at which:

| Code | Where | Over |
|---|---|---|
| AK 1A | `task_post` (`ak.cpp:435`) | a message addressed to none of the fourteen tasks |
| AK 0E | `set_data_common_msg` (`ak.cpp:295`) | more than 64 bytes from the socket (`if_app.cpp:179`), the stick (`if_usb_stick_rf24.cpp:313`) or the serial line (`link.cpp:210`) |
| AK 12, AK 22 | `get_data_len_common_msg`, `get_data_len_dynamic_msg` (`ak.cpp:358`, 418) | a message to the link, or a `GW_DEBUG_MSG_1` (`task_debug_msg.cpp:46`), of another type than its signal says |
| AK 17, AK 18 | `get_data_dynamic_msg` (`ak.cpp:397`) | `GW_FW_OTA_REQ` that is short or not dynamic (`task_fw.cpp:116`) |
| AK 0F, AK 10 | `get_data_common_msg` (`ak.cpp:315`) | `GW_FW_CURRENT_INFO_RES` that is short or not common (`task_fw.cpp:170`) |
| GFW 01, GFW 02 | `task_fw.cpp:149`, 286 | `GW_FW_SM_UPDATE_RES_OK`, `GW_FW_INTERNAL_UPDATE_REQ` when no update was asked for |
| LINK_PDU 01 | `link_pdu_malloc` (`link_data.cpp:46`) | any message to the link: how full the pool is, is known to `LinkStack` and not here |
| SIGSEGV | `if_usb_stick_rf24.cpp:330` | a message of DYNAMIC type from the stick, whose data are a pointer of the other side |

`OnlyForeign` says who may cause that. Whatever the tasks of the gateway, the timers and the shell
post, through whatever hops, ends the process only when the pool of PDUs is empty. Every
other end has a message from outside that a handler does not stand (`Wrong`: no such task, too much
data, a pointer, another type or length than its signal is read with; `GW_FW_OTA_REQ` is always one of them,
for no interface can carry its 1028 bytes), or one that goes with an update when there was
none (`Unasked`, which ends the process no more once an update was asked for). That such messages do end the process
is how the code is written: nothing between the socket and the handlers looks at type or length.

A DYNAMIC message to or from the stick is written and read as a pointer
(`if_usb_stick_rf24.cpp:141-143`, 330). What comes of it is `Stray`: data nobody sent, or the end of
the process. The socket knows no DYNAMIC messages (`if_app.cpp:187`) and the application task
writes none: such a message is refused (`Refuse`) or dropped (`IfDrops`). The eight bits of
a length that goes over the link are there (`LinkSends`): the 256 bytes of the debug task's
test leave as none.

`IsRouted` has conditions (`OffersAreOrderly`, which TLC evaluates for the twenty-two offers
of the run): messages of one route enter at one place, a PURE message has no data, and
data that go over the link are shorter than 256 bytes. It promises nothing about messages that
the interface refuses, and ends with the process. `HeapExact` and `OnlyForeign` need
none of this; they rest on `OffersAreKnown` alone, which says what can enter where.

Left out: `GW_LINK_SEND_DATA`, whose payload the link layer never copies; messages
from outside that are addressed to a hop, to the console or to the PHY or MAC layer,
which take them for messages of their own neighbours (`OffersAreKnown` excludes them, and
`OnlyForeign` is not claimed for them); what is addressed to the two tasks that never look into their
mailboxes stays there, so that `AllLeave` is not claimed for it; several socket messages in one
read, of which the thread takes only the first; descriptors.

### Console

`Console` has the loop of `if_console.cpp` a character at a time and the lookup
in the command table. The buffer includes the byte behind it, which the code writes
before it finds out that a line is too long. Each character carries the line
it was typed in, which makes `LinesRunAsTyped` a statement about whole lines: of every
line no more is run than its end, of one that fits all of it; lines run in the order
typed, none twice; and a command that fits has run once a later line has, or once the
keyboard and the mailbox are empty. Nobody types a NUL, and the input does not end.

### USB stick

`UsbParser` reads the line in chunks cut anywhere and goes through one, copying data
in blocks. It has no timeout. The checksum is taken to detect every damaged
frame, no byte of data looks like a start of frame, and a read is below 256
bytes, which is all the 8-bit length can say. A frame may lose one byte. What is then
read as a length has any value; one read as 0 makes the code copy a negative number
of bytes, and the model stops (`crashed`). `UsbInStep` holds for frames
written at least `Recovery` good bytes after the last loss.

### Byte parser

`LinkStack` receives whole frames; `PhyParser` is how they are made. A byte takes
the receive thread two steps: `RxGet` reads the state, an action named after the
state (`RxSof`, `RxAddr`, ...) acts and stores the next one. Setting the timer,
removing it, posting the frame and going back to the first state are steps of
their own, in the code's order. `PhyRevTo` is the reset by the PHY task. A byte is
known by its frame and its place; a frame's checksum is correct exactly when
each byte was stored in its own field in order, so collisions of the 8-bit
checksum are left out. Bytes read out of place have any value: they may look
like a start of frame, or be a length the code refuses with FATAL. A misread
length is in the range of a data field; lengths between the size of the data
field and that of the frame, which the test at `link_phy.cpp:499` lets through,
store outside the field and are not modelled. `faults` counts bytes lost and
garbled and events out of time: a frame timeout although bytes are arriving
(25 ms are many frames' time), a peer that begins a frame while the parser is
inside one and its timeout has not been handled.

### Firmware transfer

`FwUpdate` has one action per signal of `gw_task_fw_entry`; the signals that do
nothing but report are one. `toDev` and `toFw` are the way to the device and back:
in order, with losses. The device is outside the repository; it appends what it
gets, asks for the next packet, judges the checksum when it has the announced
length, and ignores packets when no transfer is on. A packet's bytes are named
by the file and the place they were read from, so that the device can tell whether
it got the file; a read beyond the end fails and sends zeros, as the ignored error
of `firmware_read` does. Each request of the shell names a file; a file is named
by its size and does not change while it is sent. Indices are 32-bit words (`Word`), the counter an 8-bit one. `late`
counts timeouts posted while an answer was still on its way. `DeviceIntact` is about lost and
resent packets: it excludes lost acknowledgements and late timeouts, after which the device really gets a packet twice, and
`Concludes` excludes the loss of what the code sends without a timeout (`lostEnd`). `QuietEnd` excludes
late timeouts only, `IndexInFile` neither.

## Runs

| Run | Configuration | Shows |
|---|---|---|
| `mailbox` | two posters and the task, two posts each, spurious wakeups, fair | `NoLostWakeup`, `NullOnlySpurious`, the inductive invariant of the proofs; `IsChannel` and `Delivers`: the mailbox implements the `Channel`, its delivery included |
| `kernel` | three timers, intervals 1 and 2, one-shot and periodic; or a list of four messages; or the start of four tasks | `ListConsistent`, `PostedOnce`, the walk is a `TimerService` tick; `MsgListConsistent`, `MsgListQueue`; `StartSafe` |
| `link_data` | four PDUs, right and wrong calls; or a ring of three cells, two values | the inductive invariant of the free list, the pool is an `IdPool`; `RingConsistent`, the ring is a `BoundedQueue` |
| `link_send` | two PDUs of one or two frames, on time, fair | `StackSafe` (one owner per PDU, layers agree on the frame in flight, no FATAL but an empty pool), lossless start-up, the MAC timeout never fires, every PDU that is sent returns to the pool |
| `link_both` | two PDUs shared by sending and receiving, line of two, garbled frames, on time | `StackSafe`: no PDU leaks or is freed twice, layers agree |
| `link_late` | one PDU, sending and receiving, two overtakings | whoever waits has a timeout to come (`PhyArmed`, `RevArmed`) |
| `link_late_phy` | one PDU, one overtaking | **violated**: `PhyIdleOnRequest` |
| `link_pair` | two boards, two PDUs of one or two frames, four faults, line of five | `Whole`, `InOrderOnce`, `ReportedArrived` |
| `readers` | link parser: addresses of two bytes, data of up to two, three faults; or USB stick: four frames, reads of up to six bytes; or console: buffer of four, three lines | `MidFrameTimed`, `Lossless` on a good line, `Resync` after faults; `UsbInStep`; `LinesRunAsTyped` |
| `fw` | files of two and a half and of three packets, two losses, two late timeouts, two updates | `IndexInFile`, `DeviceIntact`, `QuietEnd`, `Concludes` |
| `fw_retry` | a device that falls silent | **violated**: `RetryLimited` |
| `gateway` | any two of twenty-two messages: twelve from outside, eight of them wrong in one way, five that go out, five of timers and the shell; fair | `HeapExact`: every block has one holder; `IsRouted`: the gateway implements `Routes`; `AllLeave`: all come out and what tasks post for them comes to rest; only a wrong message from outside, or an empty pool, ends the process (`OnlyForeign`) |

Every behaviour of `kernel`, `link_data` and `readers` is one of a single component:
the others keep their initial state, and their properties hold of it trivially.

### Bounds

* Mailbox: two posters are the least that contend for the mutex while the task
  sleeps; two posts each let a second message follow before the first is read.
  The proofs remove the bound.
* Lists: three or four nodes give the empty list, a single node, a first, a
  middle and a last one.
* Timers: an interval of 2 leaves a timer unexpired for one walk, 1 does not;
  with three timers first, middle and last node expire in one walk.
* Link: `MaxFrames = 2` has a first and a last frame; `LineMax = 2`
  in `link_both` lets a late answer meet a newer request; sequence numbers wrap; `MacSeqMod = 2` tells only "same" from "other", which is all the
  receiver asks; `MaxRetry = 1` gives a first try and a repetition;
  `PhyTo = 1` tick, with the MAC timeout derived from it as in the code.
  `MaxBacklog` bounds the client, `MaxArrived` the frames of the peer in the
  mailboxes. `MaxLate` bounds the overtakings; one is enough for the
  finding.
* Parser: two address bytes have a first and a last one; data of zero, one and two
  bytes takes both ends of a frame; three faults can lose the start, the reset
  and the resynchronisation of one frame. Frames follow each other without bound.
* Start-up: two posts of the task and of the reader let one come before, and one
  after, a mailbox is made, if any can.
* Two boards: two PDUs let the frames of one meet those of the next;
  four faults exhaust the repetitions of both layers for one frame;
  the line holds five frames, one more than so many faults keep on it, as the
  theorem on whole PDUs assumes (`Fits`).
* USB stick: six bytes is more than a frame, so a read may begin and end inside
  frames and hold the end of one, and the start of the next; four frames leave two
  behind a damaged one and its recovery.
* Console: the lines include one that just fits, one that does not and
  ends in a command, and one that does not by a single character; three lines
  have one before, and one behind, a line that is too long.
* Gateway: with two messages each pair shares a task, or a route, or crosses; a third
  only makes mailboxes longer, and the channels are known to keep order. Eight of the offers are
  wrong, and between them end the process by AK 0E, 0F, 18, 1A, 22, GFW 02 and SIGSEGV, as any message to the link does
  by LINK_PDU 01. AK 10, AK 17 and GFW 01 differ from these only in the field or signal that is tested, and the code of the link
  for AK 12 is not reached. `HeapSize` is what `HeapIsLarge` asks for.
* Firmware: `BinLens` is a file with a short last packet and one without; two
  losses take a packet and the acknowledgement of its resend. `RetryMax = 1`
  stands for 9. `Word` is larger than any index but one that has wrapped.

### Fairness

* `Mailbox`: a thread inside `task_post`, which holds the mutex, goes on (WF);
  the task asks for the mutex again and again and gets it in the end (SF), as
  a pthread mutex with finitely many contenders gives it. No thread is required
  to post.
* `LinkStack`: each task handles the message at the head of its mailbox and the
  timer thread posts what expired (WF). A tick is enabled only while the tasks
  are idle when `MaxLate = 0`, hence SF: the interval timer keeps expiring. The
  line and the peer have no fairness: they may lose everything.
* `PhyParser`: the receive thread, the PHY task and the timer run (WF). That the
  peer sends again and again is a hypothesis of `Resync`, not fairness, and so
  is that it does not for ever begin its frames between the expiry of a timeout
  and its handling: without that hypothesis every frame could be reset by the
  timeout of the one before.
  In `MCReaders` the fairness is that of `PhyParser`, in behaviours that are its.
* `Gateway`: as long as a task has a message to handle or to free, one of them
  does so (WF of their disjunction). That is less than the threads give, and
  enough, for `AllLeave` depends on no particular task.
* `FwUpdate`: the task, the device, what is on its way and the timers go on (WF);
  losses have no fairness but their bound.

### Deadlock

It is checked in `kernel` and `link_send`; the start of the process may stop only
when every task waits for messages (`AtRest`). Elsewhere the system may
really stop: by a FATAL, by `memcpy` in `UsbParser`, or when nobody asks for
anything and the bounded inputs are used up.

## Findings

1. **`link_late_phy`.** The ACK of the last repetition is waiting in front of
   the timeout of the same frame, which was posted before the timer was removed.
   The PHY layer handles the ACK, reports success and goes idle; the timeout
   follows, and its handler (`link_phy.cpp:320-329`) looks at the retry counter
   only and reports a failure as well. The MAC layer has by then gone on to the
   next frame and sends a second request, which meets `FATAL("LK_PHY", 0x02)`
   (`link_phy.cpp:315`), the code's assertion that this cannot happen. If there
   is no next frame, `GW_LINK_MAC_FRAME_SEND_ERR` (`link_mac.cpp:203`), which does
   not ask whether a PDU is being sent, ends the last one again and LINK frees
   it twice (`link_data.cpp:98`). A test of the send state in the timeout handler
   of the PHY layer removes both for one overtaking, not for two: then the MAC
   layer's own timeout can be posted behind the failure report, and
   `GW_LINK_MAC_FRAME_SEND_TO` (`link_mac.cpp:225`), which tests no state either,
   takes one failed transmission for two. With `MaxLate = 0` neither FATAL is
   reached.
2. **`fw_retry`.** `GW_FW_PACKED_TIMEOUT` increments the retry counter and resends
   by posting `GW_FW_TRANFER_REQ`, whose handler resets the counter
   (`task_fw.cpp:227`). The limit of line 47 is never reached and the packet is
   resent for ever; `fw_packed_time_out` is never called.

Facts worth knowing that are no defects by themselves: the NACK branch
gives up one retry later than the timeout branch (`>` at `link_phy.cpp:373`
against `>=` at 322), so a frame takes up to `MaxRetry + 2` timeouts, which is
why the factor 2 in the MAC timeout is needed (`MacBackstop` fails without it);
and a peer that keeps repeating a frame that is not the last keeps a reception
open, and with it a PDU, for ever, which is why `PduReturned` is checked for
sending only. In the parser a reset can be lost between the read and the store
of one byte; it then waits without a timeout until the next frame's bytes run
into it (`overwrote` in `MidFrameTimed`). In the firmware transfer a second
update under way sets the index back under a late timeout, which takes it below 0,
or takes a shorter file under the index of the longer one; in both cases the
unsigned arithmetic wraps, the read fails and a packet of zeros is sent
(`IndexInFile` holds for one update at a time). Nothing ends an update whose last packet or offer is lost
(`lostEnd` in `Concludes`). On two boards a PDU that is reported as failed may have
arrived, and after one that was given up half-way the next may arrive without its
beginning (`Whole` has the limit). Each `GW_DEBUG_MSG_1` costs the memory of a copy that is never
freed (`task_debug_msg.cpp:49`; `leaked`). A message over the link whose data are 256 bytes long
arrives with a length of none (`ak.cpp:422`).

## Proofs

TLAPS proves, for every value of the constants that the named ASSUMEs allow:

| Theorem | Statement |
|---|---|
| `KernelProofs!MailboxInvariant`, `MailboxTypeCorrect` | the mailbox keeps its inductive invariant `IInv` and its types |
| `KernelProofs!WakeupSafe`, `NullSafe` | no wakeup is lost; `AK_MSG_NULL` is returned only after a spurious wakeup |
| `KernelProofs!MailboxImplementsChannel` | the mailbox implements the safety part of `Channel` |
| `KernelProofs!MessagesConsistent`, `MessagesInOrder` | the list of messages is consistent; it implements `BoundedQueue` |
| `KernelProofs!TimerListConsistent`, `TimerPostedOnce` | the timer list is consistent; a tick posts a timer once |
| `KernelProofs!TimerImplementsService` | the list and its walk implement `TimerService` |
| `KernelProofs!BootStartSafe` | `StartSafe`, for any number of early posts |
| `BufferProofs!FreeListCorrect`, `PoolCorrect` | the free list is exact; it implements `IdPool` |
| `BufferProofs!RingCorrect`, `QueueCorrect` | the ring is consistent; it implements `BoundedQueue` |
| `LinkProofs!LinkTypes`, `LinkStartupLossless` | the stack is type-correct; the start-up handshake loses nothing |
| `LinkProofs!LinkPhyArmed`, `LinkRevArmed` | whoever waits has a timeout to come, however tasks and timer thread overtake each other |
| `LinkProofs!LinkStackSafe`, `LinkMacBackstop` | with `MaxLate = 0`: one owner per PDU, one frame in flight, no FATAL but an empty pool; the MAC timeout never fires |
| `LinkPairProofs!PairInOrderOnce` | the other board is given PDUs in the order they were sent in and none twice, for any number of faults |
| `LinkPairProofs!PairUnmixed` | no PDU it is given has frames of two |
| `LinkWholeProofs!PairWhole` | every PDU it is given is one that was sent, whole, while there are no more faults than it takes to give two frames up |
| `LinkWholeProofs!PairReported` | with fewer faults than that, every PDU whose end A reports was acknowledged, and B has it |
| `BufferProofs!NoEndlessFrame` | inside a frame the parser has a timeout to come, or its reset was overwritten |
| `BufferProofs!ParserTypeCorrect`, `ParserLossless` | the index stays in its field; on a good line no frame is lost |
| `BufferProofs!UsbStaysInStep` | the parser of the USB stick is in step again after `Recovery` good bytes |
| `BufferProofs!ConsoleRunsAsTyped` | every line that fits the buffer is run as it was typed, once and in order |
| `GatewayProofs!GatewayHeapExact` | every block has one holder |
| `GatewayProofs!GatewayOnlyForeign` | what the tasks, timers and shell post ends the process only when the pool of PDUs is empty |
| `GatewayProofs!GatewayIsRouted` | with orderly offers, the gateway implements `Routes` |
| `FwProofs!FwTypeCorrect`, `FwIndexInFile` | the index stays a word, and in the file while one update runs |
| `FwProofs!FwDeviceIntact`, `FwQuietEnd` | the device has the beginning of the file; after its end nothing of an update goes on |

What is proved has no bound on queues, posts, offers, losses or overtakings
but the constants that bound TLC, which may be any natural number.

*Mailbox.* `NoLostWakeup` is not inductive: that the task sleeps only over an
empty queue depends on who holds the mutex between the test and the wait.
`IInv` adds mutual exclusion (`MutexHeld`), that only the task receives, that a
thread about to signal a sleeping task has put something (`SignalHasMessage`),
and that a woken task finds something unless the wakeup was spurious
(`WokenHasMessage`). `NothingLost` (`sent = rcvd \o queue`) is the abstraction
that gives the refinement: put maps to the channel's send, get to its receive,
every other step to a stutter. Assumed: the task is not among the posters, and
no thread is the value that stands for "nobody".

*Message list.* The history `messages` is what the two chains of pointers spell,
forwards and backwards (`MsgListConsistent`); it is inductive with the types,
since a put and a get touch the nodes at one end. Assumed: there are
fewer messages than the width of `len` can count, and `AK_MSG_NULL` is none.

*Timer service.* `TimerIInv` is `ListInv /\ WalkInv`. `ListInv` says that `chain` is
what the pointers spell from either end, that no two nodes have one
timer, and that every listed timer has a counter that has not run out: without the
last the walk could find an expired timer that the abstract tick does
not know of. `WalkInv` says that what the walk has posted is not ahead of it any more,
which gives `PostedOnce`. For the refinement the walk takes effect when it begins;
each visit then changes the concrete list and not the abstract set. That `Listed` is
the chain needs the least closed set in both directions: `RemoveList` shows what
unlinking in the middle leaves of it. Assumed: there is a node for each
timer, and intervals are natural numbers.

*Start-up.* `BootIInv` adds that `main` makes tasks in their order (`MadeInOrder`), that
nobody passes the barrier before all are counted (`BarrierHolds`), and that a mailbox
holds something, and a task's timer is set, only when the thread that empties
the list at its start is beyond that (`NothingToWipe`).

*PDU pool.* The history `chain` makes the list local: each node's `next` is its
successor in `chain`, whose members are distinct and exactly the unused PDUs.
Malloc takes the head of `chain`, free puts one in front, and both preserve the
three facts. That every malloc returns an unused PDU, and fails only when there
is none, is the refinement. Assumed: the pool is not empty.

*Fifo.* `tail_index = (head_index + fill_size) % Size`, and the cells counted
from the head hold elements. The lemmas on `%` say how a position moves when
the head moves by one; the refinement then needs that the cell written by a put
is none of the cells in use. Assumed: the ring has a cell.

*Link stack, whatever overtakes.* `IInv` of `LinkProofs` has the types of what is in the
mailboxes, which messages may be there before each layer has started
(`Unsent`, `Handshake`, `InOrder`, `Dormant`), and `Armed`: a layer that waits has
its timer running, due, or its timeout in the mailbox. `StartupLossless` needs that
the handshake runs in its one order, and that the other layers are silent until then.
Assumed: at most 254 retries (the counters have eight bits),
finitely many PDUs, and a peer that sends frames.

*Link stack, on time.* With `MaxLate = 0` a tick finds the mailboxes empty. `Safe` counts: the
owners of a PDU in the messages, the fifo, the sender and the receiver are
one exactly when it is in use (`Owned`); requests, transmissions and
reports on the frame in flight are one exactly when the sender holds a PDU
(`InFlight`). Both need the others: `PhyTimer` (a transmission has exactly one
timeout, and a posted one is handled next) keeps a timeout from meeting an idle PHY
layer, and `Budget` (the MAC timer leaves the PHY layer all the
repetitions it may still make) keeps the MAC timeout from firing at all. With
`MaxLate > 0` the statement is false: that is the finding `link_late_phy`.

*Two boards.* `InOrderOnce` says nothing of what is still under way, so it is not inductive.
`PairInv` follows the sequence numbers from A's sender to B's receiver: what the MAC layer of A
asks for, the requests on the line, those in the mailbox of B's PHY layer and the frames in that of its
MAC layer. At each stage they never fall, and each stage lies between two bounds, the lower of which is
the upper of the next one towards B (`Rising`, `Upper`, `Lower`): a repetition, by either layer, repeats
the newest number of its stage, and a frame that is lost leaves the order as it is. The numbers of A do not
wrap, as A numbers only what it was asked to send (`Agenda`). At B, whatever waits for its LINK task is
older than what is being received, and no frame to come is older than the receiver (`Newest`); so a PDU
that opens is newer than every complete one, and a repetition of a complete one does not open again. A PDU of
B has one owner and an unused one is empty (`Owns`), B only receives and answers (`Receives`), and what was
given and what waits is in order (`InTurn`). `IInv` of `LinkProofs` is used for board A. `PairUnmixed` adds that
the frames in each PDU have one number (`Alike`). Neither needs tasks to be on time or the
faults to be few. Assumed: fewer PDUs than there are sequence numbers (`PairBounds`); beyond that the
property is false, as numbers come round again.

*Whole PDUs.* `Whole` holds up to a number of faults, so its invariant `WholeInv` is half book-keeping and
half the way of the frames. The books: `Room` says that no more is on its way than one frame and the faults,
so that no buffer of the line overflows. `Paid(G)` says that the faults so far pay for G frames that were given
up, `MaxRetry + 1` each, and for the attempts of the present one: an attempt fails only when a fault took its
request or its answer, or a refusal that still waits counts for it (`Owed`). `Windowed(G)` says that the PHY numbers on the
way from A to B and back get older, and none is older than the frames given up: as G stays
below 3, an answer with the number of the frame being sent is about this frame (`Carries`), though numbers come round.
The frames: the PDUs stand in line in the order in which they were sent, and each is cut into as many frames
as it has (`LineUp`). The frame that the MAC layer of A holds, each on its way and each in the
mailbox of B's MAC layer comes after the frame it follows: that one waits ahead of it, or the receiver has
met it (`InOrderly`). For the sender to go on, an acknowledgement that has not been read yet must be true (`Truth`); for
it to begin the next PDU, what is left of the last must have reached B whole, unless two
frames were given up (`Rest`, `Tried`). Then what the receiver gathers is always the beginning of a PDU, and complete PDUs are whole (`Prefix`).
The limit is sharp: one fault more and a receiver that still waits for the rest of a PDU acknowledges
and ignores the first frame of the next. Tasks are on time here, as `LinkPair` lets time pass
only over empty mailboxes. Assumed (`Fits`): a buffer of the line holds one frame more than the faults that give two
up, and PHY numbers do not come round within three. In the code that is 6 faults, buffers of 4096 bytes, which
hold 64 frames, and 256 numbers.

*True reports.* `ReportedArrived` needs one fault less, so that at most one frame was given up (`Few`), and
`ArrivedInv` says what becomes of a PDU at B. The danger is the timeout of the receiver, which drops what it has
gathered without a word. `Timely` is a bound on it in ticks: what the frame being sent may still have to wait
(`Delay`: one interval of the PHY layer for every refusal under way, which costs an attempt, or what is left of the
present interval) and the whole timeout, `MacTo`, are together no more than what is left of the timer and one
interval for every fault. A tick takes one from both sides, or costs a fault; and since `MacTo` is as
many intervals as it takes faults to give two frames up (`MacTo` doubles what the PHY layer needs for one), the timer does not run out while the
faults are fewer. So the receiver leaves a PDU only by handing it over (`Delivered`), and the last frame of a PDU that the
sender is done with, which `Truth` has brought to B, either waits there or has completed it (`Landed`). `Reports`
counts: what A was told, what waits in the mailbox of its LINK task and what the sender holds are the PDUs begun,
and all of it is DONE, as one frame given up makes no PDU given up. A PDU that is taken for an old one is
left out, as in the property.

*Byte parser.* `MidFrameTimed` is preserved by every step once the types of the
mailbox and the receive thread are known (`Shape`). The lemma `StoreStep` is the
heart: a store that stays inside a frame either found the state it had read,
and then the frame was timed before, or stored over a reset. A timeout that waits
is not taken by the handling of other messages (`WaitsInFront`). The types need
`IndexInField`: the index fits the state in which the byte in hand was read,
whatever was stored since. `Lossless` needs where in the frame the peer and the parser are, at
each place of the receive thread (`InStep`, `AtPlace`), and that without
faults no timeout is in the mailbox (`Quiet`). Assumed: the address index and the
data length are natural numbers.

*USB stick.* `UsbInv` looks at what waits, in the chunk and on the line together, so that
where a read cuts does not matter. Order: the bytes that wait are sorted and behind what was posted
(`Sorted`). Recovery: `Ends` bounds how far the parser may read past the last byte written. A start is
never the last byte; a length, the true one of a frame or another byte in its place, asks for
at most the good bytes since the damage, or for `IFCPU_DATA_SIZE` + 1 less those
that have come since. So a frame begun after `Recovery` good bytes lies where nothing before it can
reach (`Room`), and stays there until it is read (`Reading`) and posted. A length that
is too large drops the rest of a chunk, which is why `Recovery` counts `MaxChunk` too. Assumed:
the sizes are natural numbers (`UsbBounds`).

*Gateway.* `HeapExact` is about pairs of holders; what is inductive is that every message in
a mailbox or hand is there once (`Once`), has well-formed blocks of its own, and
that all other blocks in use are leaked (`Exact`). That malloc finds a block
needs a bound on messages: those in mailboxes and the leaked blocks are at most as many
as the offers, those in hands as the tasks (`OffersCounted`). `OnlyForeign`
needs what a message in each mailbox looks like (`AllFit`), as long as nothing wrong has come from outside
(`Foreign`): its signal, type and length are those that its receiver posts on to a task that exists, sends over
the link under that type, or handles (`Suits`). The two signals that go with an update may wait only
when one was asked for or a message from outside of that kind has come (`Asked`), which is why `KnownInv` says
`Asked` of the mailboxes and `Excused` of the end of the process. `IsRouted` needs two things of the messages under way
(`RoutedInv`). Each says in its mailbox what its offer promised (`Told`, `Letter`): the task's
mark is on it (`Marked`) and its fields and data are the offer's (`Body`), or it is still the PDU that
holds them. And they are lined up (`Lined`): a route goes through the tasks of `OnPath` in the order of
`Rank`, every number that has not left is in exactly one mailbox (`Present`, `Single`), and a
smaller number is at a later stage or further ahead in the same mailbox (`InTurn`). So
the message that leaves at the last stage is the next one of its route (`LeaveLined`). What
is not under way is what a task posts itself for a message it has handled (`Aside`): to the firmware or system
task, or to LINK, and there it comes out of no route. Every action is then one of five: a message
enters, goes on, leaves, leaves with an answer, or nothing of this changes. Assumed: what can enter where
(`OffersAreKnown`), `HeapIsLarge`, and for `IsRouted` `OffersAreOrderly`.

*Console.* `ConsoleInv`: there is a line that is being read, and every line from
it on begins in the keyboard where the one before it ends (`Comes`; the first
begins before the keyboard by what was read of it). The buffer holds the end of
what was read of that line, and all of it if the line fits (`Gathered`): only a line
that is too long ever empties the buffer before its end. What is in the mailbox
or was run is the end of an earlier line, in the order of the lines, and each earlier
line that fits and is a command is there as a whole (`Posted`). Assumed: a line ends
with its only newline (`LinesEnd`), which is what a line is.

*Firmware transfer.* `IndexInv`: the index is not beyond the file and at least a packet for
every timeout that is still to come (`Covered`), so that setting it back never
wraps; it needs one update at a time. `TalkInv`: with one update and no late timeout
(`Punctual`) at most one message is anywhere, and the timers that may be
set are the ones it answers to (`Talk`); unless an acknowledgement was lost, task and device
agree on their places in the file at that point (`InStep`). Assumed:
packets and files are natural numbers that a word can count (`BinLensFit`).

Only model-checked is liveness (`Delivers`, `PduReturned`, `Resync`, `Concludes`,
`AllLeave`), which needs fairness and ENABLED.

Every invariant and every refinement that a passing run checks is also a theorem.

## Not modelled

* Payload bytes, addresses and checksums; the received length of a PDU, which
  `LinkPair` replaces by the set of frames that were written.
* `link_phy_rev_seq_num`, which is assigned and never read, and the unlocked
  millisecond counter of `timer_handler`.
* RF24 and RF433 drivers: disabled by their build options; the calls are those
  of a hardware library.
* `tsm`, which no task uses; the configuration object, which holds path strings
  and has two empty functions.
* `q_msg_len`, which nothing calls; the shell's `ver`, `help` and `dbg 4`.
* In the gateway: `GW_LINK_SEND_DATA`, messages from outside that are addressed to a hop, the console, PHY or MAC, and what
  a pointer from the other side of the stick reads.
* Third-party code (`json.hpp`, `jsmn`, `base64`, RCSwitch, the unit test of the
  JSON vector). It is two thirds of the repository's lines, and no task
  uses the JSON parsers.
* Opening serial ports and sockets, reading configuration, logging.

## Plan

1. PDUs in both directions in `LinkPair`.
2. `Gateway` on `LinkStack`, so that its link runs out of PDUs only when they are in use.
