------------------------------ MODULE Gateway ------------------------------
(***************************************************************************)
(* How messages travel through the gateway: from its interfaces (socket,   *)
(* USB stick, serial link) through the router, the task IF, to the tasks   *)
(* they are addressed to, and from the tasks out again.  Every hop copies  *)
(* the message, posts the copy and frees the original.                     *)
(*                                                                         *)
(* A task takes a message and handles it in one step and frees it in a     *)
(* second one, between which the other threads run: until the copy is      *)
(* posted nobody else can tell how far the handler is.  The mailboxes are  *)
(* the channels that Mailbox implements; the MAC layer below LINK takes    *)
(* what LINK sends and hands up what the other board sent (LinkPair).      *)
(***************************************************************************)
EXTENDS Message, Sequences

CONSTANTS Offer,            \* the messages that may enter the gateway, each once
          MaxOffers         \* bound: how many of them do


(* The task table, by what becomes of the messages of a task: the hops post
   them on, the application tasks handle them, two never look at theirs, and
   the last three are posted nothing by what is modelled here.             *)
Hop == {"IF", "IF_APP", "CPU_SERIAL", "USB", "LINK"}
AppTask == {"FW", "SYS", "DEBUG", "SENSOR"}
Unread == {"TIMER", "IF_CONSOLE"}
Task == Hop \cup AppTask \cup Unread \cup {"CONSOLE", "PHY", "MAC"}
Type == {"PURE", "COMMON", "DYNAMIC"}
Peer == {"socket", "usb", "serial"}

(* The signals are numbers, each task counts its own from AK_USER_DEFINE_SIG:
   IF and IF_APP post a message on under the number it came with.          *)
GW_IF == [PURE |-> [IN |-> 10, OUT |-> 11], COMMON |-> [IN |-> 12, OUT |-> 13],
          DYNAMIC |-> [IN |-> 14, OUT |-> 15]]

(* Mutant of GW_CPU_SERIAL_IF: the types are numbered first, then again. *)
GW_CPU_SERIAL_IFShuffled ==
  [PURE |-> [IN |-> 10, OUT |-> 13], COMMON |-> [IN |-> 11, OUT |-> 14],
   DYNAMIC |-> [IN |-> 12, OUT |-> 15]]

GW_CPU_SERIAL_IF ==
  [PURE |-> [IN |-> 10, OUT |-> 11], COMMON |-> [IN |-> 12, OUT |-> 13],
   DYNAMIC |-> [IN |-> 14, OUT |-> 15]]
GW_LINK_SEND == [PURE |-> 12, COMMON |-> 13, DYNAMIC |-> 14]
GW_LINK_REV_MSG == 18
GW_FW == [OTA_REQ |-> 10, CURRENT_INFO_RES |-> 11, UPDATE_RES_OK |-> 12, TRANFER_REQ |-> 13,
          TRANSFER_RES_OK |-> 14, INTERNAL_UPDATE_REQ |-> 16, PACKED_TIMEOUT |-> 18,
          SM_UPDATE_RES_OK |-> 20, GET_FIRMWARE_INFO_TIMEOUT |-> 22,
          DEV_INTERNAL_UPDATE_TIMEOUT |-> 23]
GW_DEBUG_MSG_1 == 10

(* The signals that handlers set a timer for, by the task it posts them to *)
Timed == [FW |-> {GW_FW.PACKED_TIMEOUT, GW_FW.GET_FIRMWARE_INFO_TIMEOUT,
                  GW_FW.DEV_INTERNAL_UPDATE_TIMEOUT},
          SYS |-> {10}, DEBUG |-> {12, 13, 16, 20, 21}]

(* What a message of DYNAMIC type carries when it asks for an update, and the
   least data of two handlers: sizeof(gateway_fw_dev_update_req_t) and
   sizeof(firmware_header_t).                                              *)
UpdateType == {"app update", "boot update"}
UpdateReqSize == 1028
FirmwareHeaderSize == 12

(* set_data_common_msg ends the process over data that are too long. *)
TooLong(o) == o.type = "COMMON" /\ o.data.len > AK_COMMON_MSG_DATA_SIZE

(* The offers are the messages of the other processes and boards, of the
   firmware task, of the shell, and those that the timer service and the shell
   post to a task of the gateway.  What becomes of a message from outside that
   is addressed to a hop, to the shell or to the layers below LINK is not
   modelled.  What LINK of the other board sends has its length in eight bits. *)
ASSUME MaxOffersIsNat == MaxOffers \in Nat
ASSUME OffersAreKnown ==
  \A o \in Offer :
    /\ o.at \in Peer \cup {"FW", "console", "local"} /\ o.type \in Type
    /\ o.data = [of |-> o.data.of, len |-> o.data.len] /\ o.data.len \in Nat
    /\ o.at \in Peer => o.des \notin Task \ (AppTask \cup Unread)
    /\ o.at = "serial" => o.data.len < 256
    /\ o.at \notin Peer => ~TooLong(o)
    /\ o.at = "FW" => o.type # "DYNAMIC"
    /\ o.at = "local" =>
         \/ /\ o.src = "TIMER" /\ o.type = "PURE"
            /\ o.des \in DOMAIN Timed /\ o.sig \in Timed[o.des]
         \/ /\ o.src = "CONSOLE" /\ o.type = "DYNAMIC"
            /\ o.des = "FW" /\ o.sig = GW_FW.OTA_REQ
            /\ o.data.of \in UpdateType /\ o.data.len >= UpdateReqSize

(* malloc does not fail: an offer is at most one message in a mailbox, and
   each task has at most one in hand, of three blocks each.                *)
ASSUME HeapIsLarge == HeapSize \in Nat /\ HeapSize >= 3 * (MaxOffers + Cardinality(Task))

(* What the tasks post themselves, by the signal that they handle: the firmware
   task to itself, the system task a copy to itself, and the debug task test
   messages to LINK and signals to the system task.                        *)
FwPosts == [n \in {GW_FW.OTA_REQ, GW_FW.UPDATE_RES_OK, GW_FW.TRANSFER_RES_OK,
                   GW_FW.PACKED_TIMEOUT} |->
              IF n = GW_FW.OTA_REQ THEN GW_FW.SM_UPDATE_RES_OK ELSE GW_FW.TRANFER_REQ]

(* Mutant of SysPosts: each of the two signals is answered with the other. *)
SysPostsBack == [n \in {12, 13} |-> IF n = 12 THEN 13 ELSE 12]

SysPosts == [n \in {12, 13} |-> IF n = 12 THEN 16 ELSE 15]
DebugSends == [n \in {12, 15} |-> IF n = 12 THEN "COMMON" ELSE "DYNAMIC"]
DebugPosts == [n \in {16, 17, 18, 21} |->
                 CASE n = 16 -> 14 [] n = 17 -> 13 [] n = 18 -> 12 [] OTHER -> 11]

(* gw_task_if_entry, by the interface a message names: the messages that its
   forward function handles, and the task it posts the outgoing ones to.   *)
Forwarded(ifType) ==
  CASE ifType \in {"RF24_GW", "RF24_AC", "UART_GW", "UART_AC"} -> Type
    [] ifType \in {"APP_GMNG", "APP_GW"} -> {"PURE", "COMMON"}
    [] OTHER -> {}
InterfaceTask(ifType) ==
  CASE ifType \in {"RF24_GW", "RF24_AC"} -> "USB"
    [] ifType \in {"UART_GW", "UART_AC"} -> "CPU_SERIAL"
    [] OTHER -> "IF_APP"

VARIABLES
  heap,             \* heap[b]: what block b holds, Free if nothing
  box,              \* box[t]: the mailbox of task t, oldest message first
  hand,             \* hand[t]: the message task t has handled and not yet freed
  offered,          \* the offers that have been made
  leaked,           \* the blocks the debug task has forgotten
  update,           \* the firmware task has been asked for an update it knows
  fatal,            \* the FATAL that ended the process
  sent, done, got,  \* history, by route: what entered, how many left, what came out
  carried           \* history: carried[t][i] is the route of message i of box[t] and
                    \* its number there

vars == <<heap, box, hand, offered, leaked, update, fatal, sent, done, got, carried>>
history == <<sent, done, got>>

-----------------------------------------------------------------------------
(* What an offer promises: the route it takes and what comes out of it, with
   the data that are read.  A DYNAMIC message from the stick has the address of
   its data on the other side: what is there on this one is not known.     *)
Stray(data) == [of |-> "stray", len |-> data.len]
Received(o) == IF o.at = "usb" /\ o.type = "DYNAMIC" THEN Stray(o.data) ELSE o.data
Exit(o) ==
  IF o.at = "console" THEN "serial line"
  ELSE IF o.at = "local" THEN o.des
  ELSE IF o.type \notin Forwarded(o.if_des_type) THEN "nowhere"
  ELSE IF o.at \in Peer THEN o.des
  ELSE [USB |-> "usb line", IF_APP |-> "socket", CPU_SERIAL |-> "serial line"]
         [InterfaceTask(o.if_des_type)]
RouteOf(o) == <<o.src, Exit(o)>>
Seen(type, sig, src, des, data) ==
  [type |-> type, sig |-> sig, src |-> src, des |-> des, data |-> data]
Promised(o) == Seen(o.type, o.sig, o.src, o.des, Received(o))

Route == {RouteOf(o) : o \in Offer}

Init ==
  /\ heap = [b \in Block |-> Free]
  /\ box = [t \in Task |-> <<>>] /\ hand = [t \in Task |-> NULL]
  /\ offered = {} /\ leaked = {} /\ update = FALSE /\ fatal = "none"
  /\ sent = [r \in Route |-> <<>>] /\ got = [r \in Route |-> <<>>]
  /\ done = [r \in Route |-> 0] /\ carried = [t \in Task |-> <<>>]

-----------------------------------------------------------------------------
(* A message enters: a thread posts it to task dst. *)
Enter(o, draft, dst) ==
  /\ fatal = "none"
  /\ o \notin offered /\ Cardinality(offered) < MaxOffers
  /\ offered' = offered \cup {o}
  /\ sent' = [sent EXCEPT ![RouteOf(o)] = Append(@, Promised(o))]
  /\ carried' = [carried EXCEPT ![dst] = Append(@, <<RouteOf(o), Len(sent'[RouteOf(o)])>>)]
  /\ LET new == Stored(heap, Set(draft, [des_task_id |-> dst])) IN
     heap' = new.mem /\ box' = [box EXCEPT ![dst] = Append(@, new.msg)]
  /\ UNCHANGED <<hand, leaked, update, fatal, done, got>>

(* One does not enter. *)
Refuse(o) == /\ fatal = "none"
             /\ o \notin offered /\ Cardinality(offered) < MaxOffers
             /\ offered' = offered \cup {o}
             /\ UNCHANGED <<update, history>>

(* A message has data if its type has any; the interface fields. *)
Fill(o) == IF o.type = "PURE" THEN get_msg(o.type)
           ELSE set_data_msg(get_msg(o.type), Received(o), o.data.len)
Build(o) == Set(Fill(o), [if_src_task_id |-> o.src, if_des_task_id |-> o.des, if_sig |-> o.sig,
                          if_src_type |-> o.if_src_type, if_des_type |-> o.if_des_type])

(* The process ends. *)
Stop(code) == fatal' = code /\ UNCHANGED <<heap, box, hand, leaked, carried>>

(* app_rev_thread_entry reads a message from the socket, and knows two types;
   rx_frame_parser one from the USB stick, and may read where no memory is;
   both write GW_TASK_IF_APP_ID as its sender.                             *)
PeerMessage(o) ==
  /\ o.at \in {"socket", "usb"}
  /\ \/ /\ o.at = "socket" /\ o.type = "DYNAMIC"
        /\ Refuse(o) /\ UNCHANGED <<heap, box, hand, leaked, fatal, carried>>
     \/ TooLong(o) /\ Refuse(o) /\ Stop("AK 0E")
     \/ o.at = "usb" /\ o.type = "DYNAMIC" /\ Refuse(o) /\ Stop("SIGSEGV")
     \/ /\ (o.at = "socket" => o.type # "DYNAMIC") /\ ~TooLong(o)
        /\ Enter(o, Set(Build(o), [sig |-> GW_IF[o.type].IN, src_task_id |-> "IF_APP"]), "IF")

(* The MAC layer posts the PDU in which a message arrived. *)
LinkMessage(o) ==
  /\ o.at = "serial"
  /\ Enter(o, set_data_msg(Set(get_msg("COMMON"), [sig |-> GW_LINK_REV_MSG]),
                        [of |-> o, len |-> 4], 4), "LINK")

(* The firmware task posts to the router, the shell to LINK; the timer service
   and the shell post to a task.                                           *)
TaskMessage(o) ==
  \/ /\ o.at = "FW"
     /\ Enter(o, Set(Build(o), [sig |-> GW_IF[o.type].OUT, src_task_id |-> "FW"]), "IF")
  \/ /\ o.at = "console"
     /\ Enter(o, Set(Build(o), [sig |-> GW_LINK_SEND[o.type]]), "LINK")
  \/ /\ o.at = "local"
     /\ Enter(o, Set(Fill(o), [sig |-> o.sig, src_task_id |-> o.src]), o.des)

-----------------------------------------------------------------------------
(* Task t takes its next message, m(t) with the header h(t), and has it in hand
   until it frees it (ak_msg_rev and the switch of the task's loop).       *)
m(t) == Head(box[t])
h(t) == Header(heap, m(t))
Taking(t) == fatal = "none" /\ hand[t] = NULL /\ box[t] # <<>>

(* The task posts nothing for it. *)
Take(t) == /\ hand' = [hand EXCEPT ![t] = m(t)]
           /\ box' = [box EXCEPT ![t] = Tail(@)]
           /\ carried' = [carried EXCEPT ![t] = Tail(@)]
           /\ UNCHANGED <<offered, fatal>>

(* Mutant of Forward: the message itself is posted, and freed later. *)
ForwardSame(t, draft, dst) ==
  /\ dst \in Task
  /\ hand' = [hand EXCEPT ![t] = m(t)]
  /\ box' = [[box EXCEPT ![t] = Tail(@)] EXCEPT ![dst] = Append(@, m(t))]
  /\ carried' = [[carried EXCEPT ![t] = Tail(@)] EXCEPT ![dst] = Append(@, Head(carried[t]))]
  /\ UNCHANGED <<heap, offered, leaked, fatal>>

(* It posts a new one; task_post ends the process over a task that is none. *)
Forward(t, draft, dst) ==
  \/ /\ dst \in Task
     /\ hand' = [hand EXCEPT ![t] = m(t)]
     /\ LET new == Stored(heap, Set(draft, [des_task_id |-> dst])) IN
        /\ heap' = new.mem
        /\ box' = [[box EXCEPT ![t] = Tail(@)] EXCEPT ![dst] = Append(@, new.msg)]
     /\ carried' = [[carried EXCEPT ![t] = Tail(@)] EXCEPT ![dst] = Append(@, Head(carried[t]))]
     /\ UNCHANGED <<offered, leaked, fatal>>
  \/ dst \notin Task /\ Stop("AK 1A") /\ UNCHANGED offered

(* The message that t takes comes out of route r, or it is lost.  What a task
   posts itself, for a message from elsewhere that it has handled, goes under
   that message's number and is on no route.                               *)
Left(r) == done' = [done EXCEPT ![r] = @ + 1] /\ UNCHANGED sent
Out(r, seen) == Left(r) /\ got' = [got EXCEPT ![r] = Append(@, seen)]
Lost(r) == Left(r) /\ UNCHANGED got
Own(t) == LET x == Head(carried[t]) IN done[x[1]] >= x[2]

(* What task t writes to the other side of an interface. *)
Written(t, data) == Seen(h(t).type, h(t).if_sig, h(t).if_src_task_id, h(t).if_des_task_id, data)

(* Mutant of Release: the message is kept. *)
ReleaseNot(t) ==
  /\ fatal = "none" /\ hand[t] # NULL
  /\ hand' = [hand EXCEPT ![t] = NULL]
  /\ UNCHANGED <<heap, box, offered, leaked, update, fatal, carried, history>>

Release(t) ==
  /\ fatal = "none" /\ hand[t] # NULL
  /\ heap' = ak_msg_free(heap, hand[t])
  /\ hand' = [hand EXCEPT ![t] = NULL]
  /\ UNCHANGED <<box, offered, leaked, update, fatal, carried, history>>

-----------------------------------------------------------------------------
(* What the router makes of an incoming message: it gets its own signal and
   its own sender.                                                         *)
Unwrapped(msg) ==
  Set(ak_memcpy_msg(heap, msg), [sig |-> Header(heap, msg).if_sig,
                                 src_task_id |-> Header(heap, msg).if_src_task_id])

(* An incoming message goes to its task, an outgoing one to its interface. *)
IfForwards ==
  /\ Taking("IF")
  /\ \E type \in Forwarded(h("IF").if_des_type) :
       \/ /\ h("IF").sig = GW_IF[type].IN
          /\ Forward("IF", Unwrapped(m("IF")), h("IF").if_des_task_id)
       \/ /\ h("IF").sig = GW_IF[type].OUT
          /\ Forward("IF", ak_memcpy_msg(heap, m("IF")), InterfaceTask(h("IF").if_des_type))
  /\ UNCHANGED <<update, history>>

(* What no forward function handles is freed without a word. *)
IfDrops ==
  /\ Taking("IF")
  /\ \A type \in Forwarded(h("IF").if_des_type) :
       h("IF").sig \notin {GW_IF[type].IN, GW_IF[type].OUT}
  /\ Take("IF") /\ Lost(<<h("IF").if_src_task_id, "nowhere">>)
  /\ UNCHANGED <<heap, leaked, update>>

(* gw_task_if_cpu_serial_entry: between the router and the link.  No other
   signal is posted to it.                                                 *)
CpuSerialForwards ==
  /\ Taking("CPU_SERIAL")
  /\ \E type \in Type :
       LET copy(sig) == Set(ak_memcpy_msg(heap, m("CPU_SERIAL")), [sig |-> sig]) IN
       \/ /\ h("CPU_SERIAL").sig = GW_CPU_SERIAL_IF[type].OUT
          /\ Forward("CPU_SERIAL", copy(GW_LINK_SEND[type]), "LINK")
       \/ /\ h("CPU_SERIAL").sig = GW_CPU_SERIAL_IF[type].IN
          /\ Forward("CPU_SERIAL", copy(GW_IF[type].IN), "IF")
  /\ UNCHANGED <<update, history>>

(* fsm_link_state_handle puts the message in a PDU; get_data_len_common_msg and
   get_data_len_dynamic_msg give the length in eight bits, and end the process
   over a message of another type, link_pdu_malloc when its pool is empty,
   which is known below LINK (LinkStack).                                  *)
LinkSends ==
  /\ Taking("LINK")
  /\ \E type \in Type :
       /\ h("LINK").sig = GW_LINK_SEND[type]
       /\ \/ /\ type \notin {"PURE", h("LINK").type}
             /\ Stop(IF type = "COMMON" THEN "AK 12" ELSE "AK 22")
             /\ UNCHANGED <<offered, history>>
          \/ /\ type \in {"PURE", h("LINK").type}
             /\ Stop("LINK_PDU 01") /\ UNCHANGED <<offered, history>>
          \/ /\ type \in {"PURE", h("LINK").type}
             /\ Take("LINK")
             /\ IF Own("LINK") THEN UNCHANGED history
                ELSE Out(<<h("LINK").if_src_task_id, "serial line">>,
                         Written("LINK", IF type = "PURE" THEN NoData
                                         ELSE Cut(Data(heap, m("LINK")), h("LINK").len % 256)))
             /\ UNCHANGED <<heap, leaked>>
  /\ UNCHANGED update

(* A PDU is turned into a message for the CPU serial task. *)
LinkReceives ==
  /\ Taking("LINK") /\ h("LINK").sig = GW_LINK_REV_MSG
  /\ LET o == Data(heap, m("LINK")).of IN
     \/ TooLong(o) /\ Stop("AK 0E") /\ UNCHANGED offered
     \/ ~TooLong(o)
        /\ Forward("LINK", Set(Build(o), [sig |-> GW_CPU_SERIAL_IF[o.type].IN]), "CPU_SERIAL")
  /\ UNCHANGED <<update, history>>

(* gw_task_if_usb_stick_rf24_entry writes a frame to the stick; one of DYNAMIC
   type has the address of its data in it and what follows that in memory. *)
UsbWrites ==
  /\ Taking("USB") /\ Take("USB")
  /\ Out(<<h("USB").if_src_task_id, "usb line">>,
         Written("USB", LET data == Data(heap, m("USB")) IN
                        IF h("USB").type = "DYNAMIC" THEN Stray(data) ELSE data))
  /\ UNCHANGED <<heap, leaked, update>>

(* The application may not be there to connect to. *)
send_message_to_app(route, seen) == Out(route, seen) \/ Lost(route)

(* gw_task_if_app_entry, which goes by the signal, writes a message of the two
   types that the router posts to it.                                      *)
IfAppWrites ==
  /\ Taking("IF_APP") /\ Take("IF_APP")
  /\ send_message_to_app(<<h("IF_APP").if_src_task_id, "socket">>,
                         Written("IF_APP", Data(heap, m("IF_APP"))))
  /\ UNCHANGED <<heap, leaked, update>>

-----------------------------------------------------------------------------
(* A task of the gateway is handed a message: one from elsewhere, unless it is
   its own.                                                                *)
Handed(t) == IF Own(t) THEN UNCHANGED history
             ELSE Out(<<h(t).src_task_id, t>>,
                      Seen(h(t).type, h(t).sig, h(t).src_task_id, h(t).des_task_id,
                           Data(heap, m(t))))

(* Why task_fw.cpp ends the process over its next message. *)
FwFatal ==
  LET sig == h("FW").sig
      Lacks(type, size) == h("FW").type # type \/ h("FW").len < size
  IN CASE sig = GW_FW.OTA_REQ /\ Lacks("DYNAMIC", UpdateReqSize) ->
            IF h("FW").type # "DYNAMIC" THEN "AK 18" ELSE "AK 17"
       [] sig = GW_FW.CURRENT_INFO_RES /\ Lacks("COMMON", FirmwareHeaderSize) ->
            IF h("FW").type # "COMMON" THEN "AK 10" ELSE "AK 0F"
       [] sig = GW_FW.SM_UPDATE_RES_OK /\ ~update -> "GFW 01"
       [] sig = GW_FW.INTERNAL_UPDATE_REQ /\ ~update -> "GFW 02"
       [] OTHER -> "none"

(* task_fw.cpp: what it posts itself, when the file of a request exists and the
   timeouts are not too many.  What it posts to the router are the offers at
   "FW"; FwUpdate says when.                                               *)
FwGets ==
  /\ Taking("FW")
  /\ IF FwFatal # "none" THEN Stop(FwFatal) /\ UNCHANGED <<offered, update, history>>
     ELSE /\ update' = IF h("FW").sig = GW_FW.OTA_REQ THEN Data(heap, m("FW")).of \in UpdateType
                       ELSE update
          /\ Handed("FW")
          /\ \/ /\ h("FW").sig \in DOMAIN FwPosts
                /\ Forward("FW", Set(get_msg("PURE"), [sig |-> FwPosts[h("FW").sig],
                                                       src_task_id |-> "FW"]), "FW")
             \/ /\ h("FW").sig \notin {GW_FW.UPDATE_RES_OK, GW_FW.TRANSFER_RES_OK}
                /\ Take("FW") /\ UNCHANGED <<heap, leaked>>

(* task_sys.cpp answers two signals with a copy to itself. *)
SysGets ==
  /\ Taking("SYS") /\ Handed("SYS")
  /\ \/ /\ h("SYS").sig \in DOMAIN SysPosts
        /\ Forward("SYS", Set(ak_memcpy_msg(heap, m("SYS")),
                              [sig |-> SysPosts[h("SYS").sig], src_task_id |-> "SYS"]), "SYS")
     \/ /\ h("SYS").sig \notin DOMAIN SysPosts
        /\ Take("SYS") /\ UNCHANGED <<heap, leaked>>
  /\ UNCHANGED update

(* The messages of task_debug_msg.cpp: 64 bytes and 256 bytes for the debug task
   of the device, and a signal, whose sender task_post_pure_msg calls after the
   task it is for.                                                         *)
Test(type) ==
  Set(set_data_msg(get_msg(type), [of |-> "test", len |-> 256],
                   IF type = "COMMON" THEN 64 ELSE 256),
      [sig |-> GW_LINK_SEND[type], if_src_type |-> "UART_GW", if_des_type |-> "UART_AC",
       if_des_task_id |-> "AC_TASK_DBG", if_sig |-> "AC_DBG_TEST"])
Signal(sig) == Set(get_msg("PURE"), [sig |-> sig, src_task_id |-> "SYS"])

(* task_debug_msg.cpp copies the data of GW_DEBUG_MSG_1, as many bytes as eight
   bits tell, and forgets the copy; some of its messages make it post another,
   the rest set a timer or nothing.                                        *)
DebugGets ==
  /\ Taking("DEBUG")
  /\ \/ /\ h("DEBUG").sig = GW_DEBUG_MSG_1 /\ h("DEBUG").type # "DYNAMIC"
        /\ Stop("AK 22") /\ UNCHANGED <<offered, history>>
     \/ /\ h("DEBUG").sig = GW_DEBUG_MSG_1 /\ h("DEBUG").type = "DYNAMIC"
        /\ Take("DEBUG") /\ Handed("DEBUG")
        /\ LET b == malloc({b \in Block : heap[b] = Free})
               bytes == Cut(Data(heap, m("DEBUG")), h("DEBUG").len % 256)
           IN /\ heap' = [heap EXCEPT ![b] = [kind |-> "data", bytes |-> bytes]]
              /\ leaked' = leaked \cup {b}
     \/ /\ h("DEBUG").sig \in DOMAIN DebugSends
        /\ Forward("DEBUG", Test(DebugSends[h("DEBUG").sig]), "LINK") /\ Handed("DEBUG")
     \/ /\ h("DEBUG").sig \in DOMAIN DebugPosts
        /\ Forward("DEBUG", Signal(DebugPosts[h("DEBUG").sig]), "SYS") /\ Handed("DEBUG")
     \/ /\ h("DEBUG").sig \notin {GW_DEBUG_MSG_1} \cup DOMAIN DebugSends \cup DOMAIN DebugPosts
        /\ Take("DEBUG") /\ Handed("DEBUG") /\ UNCHANGED <<heap, leaked>>
  /\ UNCHANGED update

(* task_sensor.cpp knows no signal. *)
SensorGets == /\ Taking("SENSOR") /\ Take("SENSOR") /\ Handed("SENSOR")
              /\ UNCHANGED <<heap, leaked, update>>

-----------------------------------------------------------------------------
Handle == \/ IfForwards \/ IfDrops \/ CpuSerialForwards \/ LinkSends \/ LinkReceives
          \/ UsbWrites \/ IfAppWrites
          \/ FwGets \/ SysGets \/ DebugGets \/ SensorGets

Next == \/ \E o \in Offer : PeerMessage(o) \/ LinkMessage(o) \/ TaskMessage(o)
        \/ Handle \/ \E t \in Task : Release(t)

Spec == Init /\ [][Next]_vars

(* The tasks keep handling and freeing what is in their mailboxes; that some
   task does is enough, for the work is finite.                            *)
FairSpec == Spec /\ WF_vars(Handle \/ \E t \in Task : Release(t))

-----------------------------------------------------------------------------
(* Every message in a mailbox or in the hand of a task has three blocks of its
   own, and nothing else is in use but what GW_DEBUG_MSG_1 forgot: however the
   tasks overtake each other, nothing leaks, nothing is freed twice and
   nobody keeps a block that another frees (ak_memcpy_msg, ak_msg_free).   *)
Holder == {<<t, 0>> : t \in {t \in Task : hand[t] # NULL}}
          \cup UNION {{t} \X DOMAIN box[t] : t \in Task}
Holds(r) == BlocksOf(heap, IF r[2] = 0 THEN hand[r[1]] ELSE box[r[1]][r[2]])

HeapExact ==
  /\ \A r \in Holder, s \in Holder : r # s => Holds(r) \cap Holds(s) = {}
  /\ UNION {Holds(r) : r \in Holder} = {b \in Block : heap[b] # Free} \ leaked

(* The gateway implements its routes: a message comes out where it was sent,
   with its signal, its sender and its data, once and in order.            *)
R == INSTANCE Routes WITH
       Content <- {Promised(o) : o \in Offer},
       Lossy <- {r \in Route : r[2] \in {"socket", "nowhere"}}
IsRouted == R!RoutesSpec

(* That needs offers whose order the gateway can keep and whose data it can
   carry: those of one route enter at one place, and the length of what goes
   over the link fits eight bits.                                          *)
OffersAreOrderly ==
  /\ \A o \in Offer, p \in Offer : RouteOf(o) = RouteOf(p) => o.at = p.at
  /\ \A o \in Offer :
       /\ o.type = "PURE" => o.data = NoData
       /\ Exit(o) = "serial line" => o.data.len < 256

(* Every message that enters leaves, and the gateway comes to rest, unless the
   process ends: no message stays in a mailbox, none is lost on the way, none
   goes round between the tasks for ever, nor do those that tasks post for it. *)
AllLeave ==
  <>[](\/ fatal # "none"
       \/ /\ \A t \in Task : box[t] = <<>> /\ hand[t] = NULL
          /\ \A r \in Route : done[r] = Len(sent[r]))

(* The messages from outside that a handler does not stand: those addressed to
   no task, those with too many data, what the stick passes on under the pointer
   of a DYNAMIC one, those of another type or with less data than the handler of
   their signal reads, and those that only go with an update.              *)
Wrong(o) ==
  \/ o.des \notin Task
  \/ TooLong(o)
  \/ o.at = "usb" /\ o.type = "DYNAMIC"
  \/ o.des = "DEBUG" /\ o.sig = GW_DEBUG_MSG_1 /\ o.type # "DYNAMIC"
  \/ o.des = "FW" /\ o.sig = GW_FW.OTA_REQ
  \/ o.des = "FW" /\ o.sig = GW_FW.CURRENT_INFO_RES
       /\ (o.type # "COMMON" \/ o.data.len < FirmwareHeaderSize)
Unasked(o) == o.des = "FW" /\ o.sig \in {GW_FW.SM_UPDATE_RES_OK, GW_FW.INTERNAL_UPDATE_REQ}

(* None of these tasks ends the process over what the tasks, the shell and the
   timers post: wherever a message has got to, its signal is one of the task that takes it,
   of the type it has there.  Only an empty pool of PDUs does (link_data.cpp:46),
   or a message from outside that a handler does not stand, the last kind as long
   as there has been no update.                                            *)
OnlyForeign ==
  fatal \notin {"none", "LINK_PDU 01"} =>
    \E o \in offered : o.at \in Peer /\ (Wrong(o) \/ (Unasked(o) /\ ~update))
=============================================================================
