------------------------------- MODULE Console -------------------------------
(***************************************************************************)
(* The console: the task IF_CONSOLE reads the keyboard a character at a    *)
(* time into cmd_buf and posts every line to the task CONSOLE              *)
(* (app/interfaces/if_console.cpp), which looks its first word up in       *)
(* lgn_cmd_table and runs it (app/task_console.cpp, common/cmd_line.cpp).  *)
(*                                                                         *)
(* Every character carries the line it was typed in.  Nobody types a NUL,  *)
(* and the keyboard does not end.                                          *)
(***************************************************************************)
EXTENDS Naturals, Sequences, SequencesExt

CONSTANTS CMD_BUFFER_SIZE,
          lgn_cmd_table,        \* the words that are commands
          Line,                 \* what may be typed: words, spaces, a newline at the end
          MaxLines              \* bound: the lines typed

(* A line ends with its only newline. *)
ASSUME LinesEnd ==
  \A line \in Line : /\ line \in Seq(STRING) /\ line # <<>>
                     /\ \A i \in DOMAIN line : line[i] = "\n" <=> i = Len(line)
ASSUME BufferIsNat == CMD_BUFFER_SIZE \in Nat \ {0} /\ MaxLines \in Nat

VARIABLES
  keys,             \* what was typed and not yet read
  cmd_buf,          \* the buffer, and at CMD_BUFFER_SIZE the byte behind it
  char_index,       \* index of i_get_command
  console,          \* the mailbox of the task CONSOLE
  lines,            \* history: the lines typed
  ran               \* history: the commands that were run, as they were handed over

consoleVars == <<keys, cmd_buf, char_index, console, lines, ran>>

NUL == [char |-> "NUL", of |-> 0]

ConsoleInit ==
  /\ keys = <<>> /\ console = <<>> /\ char_index = 0
  /\ cmd_buf = [i \in 0..CMD_BUFFER_SIZE |-> NUL]
  /\ lines = <<>> /\ ran = <<>>

Typed(l) == [i \in DOMAIN lines[l] |-> [char |-> lines[l][i], of |-> l]]

Type ==
  /\ Len(lines) < MaxLines
  /\ \E line \in Line :
       /\ lines' = Append(lines, line)
       /\ keys' = keys \o [i \in DOMAIN line |-> [char |-> line[i], of |-> Len(lines')]]
  /\ UNCHANGED <<cmd_buf, char_index, console, ran>>

-----------------------------------------------------------------------------
(* Mutant of Overload: a line that just fits is refused. *)
OverloadEarly == char_index + 1 >= CMD_BUFFER_SIZE

Overload == char_index + 1 > CMD_BUFFER_SIZE
EndOfLine(buf) == [buf EXCEPT ![char_index + 1] = NUL]

(* memset leaves the byte behind the buffer alone. *)
Cleaned(buf) == [i \in 0..CMD_BUFFER_SIZE |-> IF i < CMD_BUFFER_SIZE THEN NUL ELSE buf[i]]

(* The data of the message, as long as strlen says. *)
Text(buf) == LET end == CHOOSE i \in DOMAIN buf : buf[i] = NUL /\ \A j \in 0 .. i - 1 : buf[j] # NUL
             IN [i \in 1..end |-> buf[i - 1]]

(* One turn of the loop of i_get_command; a line that is too long is forgotten,
   and read on from where it was when that was found out.                  *)
GetChar ==
  /\ keys # <<>> /\ keys' = Tail(keys)
  /\ LET stored == [cmd_buf EXCEPT ![char_index] = Head(keys)] IN
     \/ /\ Overload
        /\ char_index' = 0 /\ cmd_buf' = stored
        /\ UNCHANGED console
     \/ /\ ~Overload /\ Head(keys).char # "\n"
        /\ char_index' = char_index + 1 /\ cmd_buf' = stored
        /\ UNCHANGED console
     \/ /\ ~Overload /\ Head(keys).char = "\n"
        /\ char_index' = 0
        /\ console' = Append(console, Text(EndOfLine(stored)))
        /\ cmd_buf' = Cleaned(EndOfLine(stored))
  /\ UNCHANGED <<lines, ran>>

(* What comes before the first space or newline. *)
Word(text) ==
  LET end == SelectInSeq(text, LAMBDA key : key.char \in {" ", "\n"})
  IN [i \in 1 .. end - 1 |-> text[i].char]

cmd_line_parser(text) ==
  \/ Word(text) \in lgn_cmd_table /\ ran' = Append(ran, text)
  \/ Word(text) \notin lgn_cmd_table /\ UNCHANGED ran

Handle ==
  /\ console # <<>> /\ console' = Tail(console)
  /\ cmd_line_parser(Head(console))
  /\ UNCHANGED <<keys, cmd_buf, char_index, lines>>

ConsoleNext == Type \/ GetChar \/ Handle

ConsoleSpec == ConsoleInit /\ [][ConsoleNext]_consoleVars

-----------------------------------------------------------------------------
(* Every line that fits the buffer is run as it was typed, once and in order,
   whatever lines that do not fit come before it and leave in the buffer; of
   such a line no more can run than its end, and never together with a piece
   of another line.                                                         *)
Fits(l) == Len(lines[l]) <= CMD_BUFFER_SIZE
IsCommand(l) == Word(Typed(l)) \in lgn_cmd_table
LineOf(text) == text[1].of
Had(l) == (keys = <<>> /\ console = <<>>) \/ \E r \in DOMAIN ran : l < LineOf(ran[r])

LinesRunAsTyped ==
  /\ \A r \in DOMAIN ran :
       /\ IsSuffix(ran[r], Typed(LineOf(ran[r])))
       /\ Fits(LineOf(ran[r])) => ran[r] = Typed(LineOf(ran[r])) /\ IsCommand(LineOf(ran[r]))
  /\ \A r, s \in DOMAIN ran : r < s => LineOf(ran[r]) < LineOf(ran[s])
  /\ \A l \in DOMAIN lines :
       Fits(l) /\ IsCommand(l) /\ Had(l) => \E r \in DOMAIN ran : ran[r] = Typed(l)
=============================================================================
