\* Three timers, one-shot or periodic: up to three nodes, so that first, middle and last
\* nodes expire in one walk; lists of up to four messages, put and taken in every order;
\* the start of four tasks, with two posts of a task and of the serial reader.
CONSTANTS
  Key = {k1, k2, k3}
  Node = {n1, n2, n3}
  Null = null
  Duty = {1, 2}
  Msg = {m1, m2, m3, m4}
  AK_MSG_NULL = nullmsg
  MaxBootPosts = 2
SPECIFICATION AnySpec
SYMMETRY Symmetry
INVARIANTS ListConsistent PostedOnce MsgListConsistent StartSafe
PROPERTIES ImplementsService MsgListQueue
