------------------------------- MODULE Shell -------------------------------
(***************************************************************************)
(* The shell and its input: keys arrive as bytes on the serial line, an    *)
(* interrupt puts each into a bounded queue, the shell takes them out one  *)
(* by one, decodes them, edits a line with a history and runs it.          *)
(*                                                                         *)
(* Source: src/pkg/app/sh/src/main.rs, src/pkg/lib/src/io.rs,              *)
(* src/pkg/kernel/src/drivers/input.rs, .../interrupt/serial.rs.           *)
(*                                                                         *)
(* A character is a string; "w" stands for those of two bytes in UTF-8.    *)
(* Longer ones, and what is printed, are left out.                         *)
(***************************************************************************)
EXTENDS Naturals, FiniteSets, SequencesExt

CONSTANTS
    QueueCap,    \* capacity of INPUT_BUF (128)
    Keys,        \* the keys of the keyboard that are pressed
    Meaning,     \* the lines that change something, trimmed, as commands
    MaxLine,     \* bound: characters of a line
    MaxEntered,  \* bound: lines entered
    Ahead        \* bound: bytes queued when a key is pressed, unless a program runs

(* CtrlA stands for the control characters nobody gives a meaning; Ctrl+D   *)
(* and Ctrl+C, to which the help text of the shell gives one that the code  *)
(* does not, are no keys here.                                              *)
Letters == {"a", "blank", "w"}
AllKeys == Letters \cup
    {"Enter", "Backspace", "CtrlA", "Up", "Down", "Right", "Left"}

(* External: what the terminal sends for a key.                             *)
BytesOf(key) ==
    CASE key \in {"a", "blank"} -> <<key>>
      [] key = "w" -> <<"lead", "trail">>
      [] key = "Enter" -> <<"CR">>
      [] key = "Backspace" -> <<"BS">>
      [] key = "CtrlA" -> <<"SOH">>
      [] key = "Up" -> <<"ESC", "bracket", "A">>
      [] key = "Down" -> <<"ESC", "bracket", "B">>
      [] key = "Right" -> <<"ESC", "bracket", "C">>
      [] key = "Left" -> <<"ESC", "bracket", "D">>

ASSUME QueueAssumption == QueueCap \in Nat
ASSUME KeyAssumption == Keys \subseteq AllKeys
ASSUME MeaningAssumption ==
    \A s \in DOMAIN Meaning :
        Meaning[s].name = "cd" =>
            Meaning[s].absolute \in BOOLEAN /\ Meaning[s].parts \in Seq(STRING)

VARIABLES
    wire,        \* bytes of the last key not yet received
    queue,       \* INPUT_BUF
    at,          \* the shell: reading a line, running it, waiting, gone
    escape,      \* which read_key of the escape sequence it is in
    lead,        \* to_utf8 has the first byte of two
    buffer,      \* read_line_history: the line
    cursor,      \*   the place of the cursor in it, as a byte index
    history,     \* main: the lines entered
    history_index,
    cwd,         \* main: current_working_directory, without the slashes
    entered,     \* lines entered so far
    meant,       \* what the user expects to see
    garbled,     \* a byte was dropped, or a character of two bytes typed
    trail        \* all parts of the paths changed to, from the root

input == <<wire, queue, entered, meant, garbled>>
line  == <<escape, lead, buffer, cursor>>
main  == <<history, history_index, cwd, trail>>
vars  == <<input, line, main, at>>

-----------------------------------------------------------------------------
(* String: indices count bytes and must lie between two characters.         *)
ByteLen(s) == Len(s) + Cardinality({i \in DOMAIN s : s[i] = "w"})
IsBoundary(s, k) == \E i \in 0..Len(s) : ByteLen(SubSeq(s, 1, i)) = k
Before(s, k) == CHOOSE i \in 0..Len(s) : ByteLen(SubSeq(s, 1, i)) = k

Inserted(s, k, c) == SubSeq(s, 1, Before(s, k)) \o <<c>> \o SubSeq(s, Before(s, k) + 1, Len(s))
Removed(s, k) == RemoveAt(s, Before(s, k) + 1)

(* trim                                                                     *)
Trim(s) ==
    LET Ink == {i \in DOMAIN s : s[i] # "blank"}
    IN IF Ink = {} THEN <<>> ELSE SubSeq(s, Min(Ink), Max(Ink))

(* normalize_path: the parts of a path appended to the directory, with "."  *)
(* dropped and ".." removing the last one.                                  *)
Dot    == "."
DotDot == ".."

MutTaken(dir, part) ==                         \* ".." of the root kept
    CASE part = Dot -> dir
      [] part = DotDot /\ dir # <<>> -> Front(dir)
      [] OTHER -> Append(dir, part)

Taken(dir, part) ==
    CASE part = Dot -> dir
      [] part = DotDot -> IF dir = <<>> THEN dir ELSE Front(dir)
      [] OTHER -> Append(dir, part)

NormalizePath(dir, path) ==
    LET upto[n \in 0..Len(path.parts)] ==
            IF n = 0 THEN (IF path.absolute THEN <<>> ELSE dir)
            ELSE Taken(upto[n - 1], path.parts[n])
    IN upto[Len(path.parts)]

CommandOf(s) == IF s \in DOMAIN Meaning THEN Meaning[s] ELSE [name |-> "other"]

-----------------------------------------------------------------------------
(* The user's own idea of the line, independent of bytes: what is to the    *)
(* left and to the right of the cursor, and the lines entered before.       *)
Idea(l, r, lines, i) == [left |-> l, right |-> r, lines |-> lines, index |-> i]
Blank == Idea(<<>>, <<>>, <<>>, 0)

Moved(m, l, r) == Idea(l, r, m.lines, m.index)
Recall(m, i)   == Idea(m.lines[i + 1], <<>>, m.lines, i)

Erase(m)   == IF m.left = <<>> THEN m ELSE Moved(m, Front(m.left), m.right)
GoLeft(m)  == IF m.left = <<>> THEN m
              ELSE Moved(m, Front(m.left), <<Last(m.left)>> \o m.right)
GoRight(m) == IF m.right = <<>> THEN m
              ELSE Moved(m, Append(m.left, Head(m.right)), Tail(m.right))
GoUp(m)    == IF m.lines = <<>> THEN m
              ELSE Recall(m, IF m.index > 0 THEN m.index - 1 ELSE 0)
GoDown(m)  == IF m.lines = <<>> THEN m
              ELSE IF m.index + 1 < Len(m.lines) THEN Recall(m, m.index + 1)
              ELSE Idea(<<>>, <<>>, m.lines, Len(m.lines))

Enter(m) ==
    LET t     == Trim(m.left \o m.right)
        lines == IF t = <<>> \/ (m.lines # <<>> /\ Last(m.lines) = t)
                 THEN m.lines ELSE Append(m.lines, t)
    IN Idea(<<>>, <<>>, lines, IF t = <<>> THEN m.index ELSE Len(lines))

Press(m, key) ==
    CASE key = "Enter" -> Enter(m)
      [] key = "Backspace" -> Erase(m)
      [] key = "Left" -> GoLeft(m)
      [] key = "Right" -> GoRight(m)
      [] key = "Up" -> GoUp(m)
      [] key = "Down" -> GoDown(m)
      [] key \in Letters -> Moved(m, Append(m.left, key), m.right)
      [] OTHER -> m

-----------------------------------------------------------------------------
Init ==
    /\ wire = <<>> /\ queue = <<>> /\ entered = 0
    /\ meant = Blank /\ garbled = FALSE
    /\ at = "line" /\ escape = "none" /\ lead = FALSE
    /\ buffer = <<>> /\ cursor = 0
    /\ history = <<>> /\ history_index = 0
    /\ cwd = <<>> /\ trail = <<>>

(* External: a key is pressed and its bytes travel.                         *)
PressKey ==
    /\ wire = <<>>
    /\ at # "wait" => Len(queue) <= Ahead
    /\ \E key \in Keys :
         /\ key = "Enter" => entered < MaxEntered
         /\ key \in Letters => Len(buffer) < MaxLine
         /\ wire' = BytesOf(key)
         /\ entered' = IF key = "Enter" THEN entered + 1 ELSE entered
         /\ garbled' = (garbled \/ key = "w")
         /\ meant' = IF garbled' THEN Blank ELSE Press(meant, key)
    /\ UNCHANGED <<queue, line, main, at>>

(* serial_handler, receive, push_key: a key that does not fit is dropped.   *)
MutKept(byte) ==                               \* last in, first out
    IF Len(queue) < QueueCap THEN <<byte>> \o queue ELSE queue

Kept(byte) == IF Len(queue) < QueueCap THEN Append(queue, byte) ELSE queue

SerialHandler ==
    /\ wire # <<>> /\ wire' = Tail(wire)
    /\ queue' = Kept(Head(wire))
    /\ garbled' = (garbled \/ Len(queue) = QueueCap)
    /\ UNCHANGED <<entered, meant, line, main, at>>

(* pop_key asks again until there is a byte.  read_key takes the byte after *)
(* a lead byte whatever it is; a trailing byte alone is a character, too.   *)
HasByte == at = "line" /\ queue # <<>>
Char == IF lead \/ Head(queue) = "trail" THEN "w" ELSE Head(queue)

ReadLead ==
    /\ HasByte /\ ~lead /\ Head(queue) = "lead"
    /\ queue' = Tail(queue) /\ lead' = TRUE
    /\ UNCHANGED <<wire, entered, meant, garbled, escape, buffer, cursor, main, at>>

HasKey == HasByte /\ (lead \/ Head(queue) # "lead")

Read(e) ==
    /\ queue' = Tail(queue) /\ lead' = FALSE /\ escape' = e
    /\ UNCHANGED <<wire, entered, meant, garbled>>

(* The arms of read_line_history.                                           *)
EndOfLine ==
    /\ HasKey /\ escape = "none" /\ Char = "CR"
    /\ queue' = Tail(queue) /\ at' = "run"
    /\ UNCHANGED <<wire, entered, meant, garbled, line, main>>

Backspace ==
    /\ HasKey /\ escape = "none" /\ Char = "BS"
    /\ Read("none")
    /\ \/ cursor = 0 /\ UNCHANGED <<at, buffer, cursor>>
       \/ /\ cursor > 0 /\ IsBoundary(buffer, cursor - 1)
          /\ buffer' = Removed(buffer, cursor - 1) /\ cursor' = cursor - 1
          /\ UNCHANGED at
       \/ /\ cursor > 0 /\ ~IsBoundary(buffer, cursor - 1)
          /\ at' = "panic" /\ UNCHANGED <<buffer, cursor>>
    /\ UNCHANGED main

Escape ==
    /\ HasKey /\ escape = "none" /\ Char = "ESC"
    /\ Read("esc")
    /\ UNCHANGED <<main, at, buffer, cursor>>

Bracket ==
    /\ HasKey /\ escape = "esc"
    /\ Read(IF Char = "bracket" THEN "csi" ELSE "none")
    /\ UNCHANGED <<main, at, buffer, cursor>>

MutShow(i) ==                                  \* the cursor not moved
    history_index' = i /\ buffer' = history[i + 1] /\ UNCHANGED cursor

Show(i) ==
    /\ history_index' = i
    /\ buffer' = history[i + 1] /\ cursor' = ByteLen(history[i + 1])

Up ==
    /\ HasKey /\ escape = "csi" /\ Char = "A"
    /\ Read("none")
    /\ \/ history # <<>> /\ Show(IF history_index > 0 THEN history_index - 1 ELSE 0)
       \/ history = <<>> /\ UNCHANGED <<history_index, buffer, cursor>>
    /\ UNCHANGED <<history, cwd, trail, at>>

Down ==
    /\ HasKey /\ escape = "csi" /\ Char = "B"
    /\ Read("none")
    /\ \/ history_index + 1 < Len(history) /\ Show(history_index + 1)
       \/ /\ history # <<>> /\ history_index + 1 >= Len(history)
          /\ history_index' = Len(history) /\ buffer' = <<>> /\ cursor' = 0
       \/ history = <<>> /\ UNCHANGED <<history_index, buffer, cursor>>
    /\ UNCHANGED <<history, cwd, trail, at>>

Rightward == IF cursor < ByteLen(buffer) THEN cursor + 1 ELSE cursor
Leftward  == IF cursor > 0 THEN cursor - 1 ELSE cursor

Sideways ==
    /\ HasKey /\ escape = "csi" /\ Char \notin {"A", "B"}
    /\ Read("none")
    /\ \/ Char = "C" /\ cursor' = Rightward
       \/ Char = "D" /\ cursor' = Leftward
       \/ Char \notin {"C", "D"} /\ UNCHANGED cursor
    /\ UNCHANGED <<main, at, buffer>>

Insert ==
    /\ HasKey /\ escape = "none" /\ Char \notin {"CR", "BS", "ESC", "SOH"}
    /\ Read("none")
    /\ \/ /\ IsBoundary(buffer, cursor)
          /\ buffer' = Inserted(buffer, cursor, Char) /\ cursor' = cursor + 1
          /\ UNCHANGED at
       \/ ~IsBoundary(buffer, cursor) /\ at' = "panic" /\ UNCHANGED <<buffer, cursor>>
    /\ UNCHANGED main

(* Other control characters are dropped.                                    *)
Control ==
    /\ HasKey /\ escape = "none" /\ Char = "SOH"
    /\ Read("none")
    /\ UNCHANGED <<main, at, buffer, cursor>>

-----------------------------------------------------------------------------
(* main: the line is remembered, unless it is blank or the last one again,  *)
(* and run.  The programs run here do not read the input.                   *)
Typed == Trim(buffer)
Command == CommandOf(Typed)

Remembered ==
    IF Typed = <<>> \/ (history # <<>> /\ Last(history) = Typed)
    THEN history ELSE Append(history, Typed)

NewIndex == IF Typed = <<>> THEN history_index ELSE Len(Remembered)

NextAt ==
    CASE Command.name = "exit" -> "exited"
      [] Command.name = "exec" -> "wait"
      [] OTHER -> "line"

RunLine ==
    /\ at = "run" /\ at' = NextAt
    /\ history' = Remembered /\ history_index' = NewIndex
    /\ \/ /\ Command.name = "cd"
          /\ cwd' = NormalizePath(cwd, Command)
          /\ trail' = (IF Command.absolute THEN <<>> ELSE trail) \o Command.parts
       \/ Command.name # "cd" /\ UNCHANGED <<cwd, trail>>
    /\ buffer' = <<>> /\ cursor' = 0
    /\ UNCHANGED <<input, escape, lead>>

(* exec waits for the program; meanwhile the queue fills.                   *)
ProgramEnds ==
    /\ at = "wait" /\ at' = "line"
    /\ UNCHANGED <<input, line, main>>

Next ==
    \/ PressKey \/ SerialHandler \/ ReadLead
    \/ EndOfLine \/ Backspace \/ Escape \/ Bracket
    \/ Up \/ Down \/ Sideways \/ Insert \/ Control
    \/ RunLine \/ ProgramEnds

Spec == Init /\ [][Next]_vars
-----------------------------------------------------------------------------
(* Properties.                                                              *)

CaughtUp == at = "line" /\ wire = <<>> /\ queue = <<>>

(* What the user typed is what the shell has, although keys come as bytes,  *)
(* wait in a queue and are decoded by three nested reads: once the shell    *)
(* has caught up, its line, cursor and history are the ones the keys ask    *)
(* for, unless the queue overflowed or a character took two bytes.          *)
EditsAsTyped ==
    (CaughtUp /\ ~garbled) =>
        /\ escape = "none" /\ ~lead
        /\ buffer = meant.left \o meant.right /\ cursor = Len(meant.left)
        /\ history = meant.lines /\ history_index = meant.index

(* read_line_history panics, and so ends the shell and the machine, only on *)
(* a line with a character of several bytes: for all others each place the  *)
(* arrows, the history and lost bytes lead to is one String accepts.        *)
PanicNeedsWide == at = "panic" => "w" \in Range(buffer)

(* The parts of a path that no later ".." cancels.                          *)
Names(s, i, j) == Cardinality({k \in i..j : s[k] \notin {Dot, DotDot}})
Ups(s, i, j)   == Cardinality({k \in i..j : s[k] = DotDot})
Survives(s, i) == s[i] \notin {Dot, DotDot}
                  /\ \A j \in i..Len(s) : Names(s, i, j) > Ups(s, i, j)

(* The working directory is where all the cd commands together lead, from   *)
(* the root and never above it (normalize_path, main.rs:169-214).           *)
CwdIsWalk ==
    LET Places == {i \in DOMAIN trail : Survives(trail, i)}
    IN cwd = [n \in 1..Cardinality(Places) |->
                 trail[CHOOSE i \in Places : Cardinality({k \in Places : k <= i}) = n]]
=============================================================================
