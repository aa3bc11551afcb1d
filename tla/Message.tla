------------------------------ MODULE Message ------------------------------
(***************************************************************************)
(* The memory of messages (ak/ak.cpp, ak/message.cpp): an ak_msg_t, its    *)
(* header_t and its payload are three blocks taken from malloc one by one  *)
(* and given back together.  Nobody sees a message between get_..._msg and *)
(* task_post, so that it is a draft, its header and its bytes, until it is *)
(* posted.  malloc does not fail: HeapSize is a bound that no state        *)
(* reaches.                                                                *)
(***************************************************************************)
EXTENDS Naturals, FiniteSets

CONSTANT HeapSize           \* bound: the blocks of the heap

Block == 1..HeapSize
NULL == 0
Unset == "unset"            \* 0xFFFFFFFF, and 0xFF in a field of eight bits

AK_COMMON_MSG_DATA_SIZE == 64

(* The bytes of a payload: where they come from and how many of them. *)
NoData == [of |-> "none", len |-> 0]
Cut(bytes, len) == [bytes EXCEPT !.len = len]

(* get_pure_msg, get_common_msg, get_dynamic_msg; sig, src_task_id and
   if_src_type are left as malloc found them.                              *)
get_msg(type) ==
  [type |-> type, sig |-> Unset, src_task_id |-> Unset, des_task_id |-> Unset,
   if_des_type |-> "APP_GW", if_src_type |-> Unset, if_sig |-> Unset,
   if_src_task_id |-> Unset, if_des_task_id |-> Unset, len |-> 0, data |-> NoData]

(* set_msg_..., set_if_... and set_data_..._msg, which copies the data *)
Set(draft, fields) ==
  [f \in DOMAIN draft |-> IF f \in DOMAIN fields THEN fields[f] ELSE draft[f]]
set_data_msg(draft, bytes, len) == Set(draft, [len |-> len, data |-> Cut(bytes, len)])

-----------------------------------------------------------------------------
(* A block holds a message, which points to its header, a header, which points
   to its payload, or the bytes of one.                                    *)
Free == [kind |-> "free"]

(* The block malloc returns: which one tells no property apart. *)
malloc(free) == CHOOSE b \in free : TRUE

Header(mem, m) == mem[mem[m].header].of
BlocksOf(mem, m) == {m, mem[m].header, mem[mem[m].header].payload} \ {NULL}

(* The draft takes its blocks, for the message m that comes with them. *)
Stored(mem, draft) ==
  LET free == {b \in Block : mem[b] = Free}
      m == malloc(free)
      header == malloc(free \ {m})
      payload == IF draft.type = "PURE" THEN NULL ELSE malloc(free \ {m, header})
      withHeader == [mem EXCEPT
        ![m] = [kind |-> "msg", header |-> header],
        ![header] = [kind |-> "header", payload |-> payload, of |-> [draft EXCEPT !.data = NoData]]]
  IN [msg |-> m,
      mem |-> IF payload = NULL THEN withHeader
              ELSE [withHeader EXCEPT ![payload] = [kind |-> "data", bytes |-> draft.data]]]

Data(mem, m) ==
  IF mem[mem[m].header].payload = NULL THEN NoData ELSE mem[mem[mem[m].header].payload].bytes

(* Mutant of ak_memcpy_msg: the length stays that of an empty message. *)
ak_memcpy_msgEmpty(mem, src) == Set(Header(mem, src), [data |-> NoData])

(* The header is copied, its payload pointer replaced by that of the copied data. *)
ak_memcpy_msg(mem, src) ==
  set_data_msg(Header(mem, src), Data(mem, src), Header(mem, src).len)

(* Mutant of ak_msg_free: the payload is forgotten. *)
ak_msg_freeShallow(mem, m) ==
  [b \in Block |-> IF b \in {m, mem[m].header} THEN Free ELSE mem[b]]

ak_msg_free(mem, m) == [b \in Block |-> IF b \in BlocksOf(mem, m) THEN Free ELSE mem[b]]
=============================================================================
