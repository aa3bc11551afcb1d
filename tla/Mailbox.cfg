\* Two threads and the task itself post, two messages each; wakeups may be spurious.
CONSTANTS
  Poster = {p1, p2}
  Task = t
  MaxPost = 2
  Spurious = TRUE
SPECIFICATION FairSpec
INVARIANTS NoLostWakeup NullOnlySpurious IInv
PROPERTIES IsChannel Delivers
\* the task may sleep for good, and AK_MSG_NULL ends the process
CHECK_DEADLOCK FALSE
