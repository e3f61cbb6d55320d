----------------------------- MODULE LineEditor -----------------------------
(***************************************************************************)
(* The REPL on a terminal: run_repl and read_tty_repl_line of main.c with  *)
(* the functions that edit the line buffer, the terminal that switches     *)
(* between its own line editing and raw mode, and the user at the keys.    *)
(*                                                                         *)
(* A key is the sequence of bytes it sends.  The buffer is the C array:    *)
(* what lies after the terminating NUL is what earlier lines left there.   *)
(***************************************************************************)
EXTENDS Integers, SequencesExt

CONSTANTS
    Letters,        \* printable bytes the keyboard has
    Keys,           \* the keys the user presses
    BUFFER_SIZE,    \* size of line_buffer, MAX_SQL_TEXT_LENGTH in the code
    ExitWords,      \* what "exit" and "quit" stand for
    Garbage,        \* bytes line_buffer, never initialised, may start with
    Faults,         \* subset of {"read", "termios", "interrupt", "hangup"}
    MaxKeys         \* bound on the number of keys pressed

NUL == "NUL"
ESC == "ESC"
DEL == "DEL"
EOT == "EOT"
NEWLINE == "NL"
UNPRINTABLE == "UNP" \* a byte isprint refuses: a tab, any byte of a Korean letter
Control == {NUL, ESC, DEL, EOT, NEWLINE, UNPRINTABLE}
Printable == (Letters \cup {"[", "C", "D", "A", "3", "~"}) \ Control
Bytes == Printable \cup Control

LeftKey   == <<ESC, "[", "D">>
RightKey  == <<ESC, "[", "C">>
UpKey     == <<ESC, "[", "A">>
DeleteKey == <<ESC, "[", "3", "~">>
EscapeKey == <<ESC>>

ASSUME LineEditorConstants ==
    /\ BUFFER_SIZE \in Nat \ {0}
    /\ Garbage \subseteq Bytes
    /\ Faults \subseteq {"read", "termios", "interrupt", "hangup"}
    /\ Keys \subseteq Seq(Bytes \ {NUL})

VARIABLES
    buffer,     \* line_buffer
    length, cursor,
    pc,         \* where the program is
    mode,       \* of the terminal: "cooked" or "raw"
    saved,      \* the mode in original_termios
    gone,       \* the terminal has hung up
    refused,    \* has a tcsetattr to leave raw mode failed?
    input,      \* bytes typed and not read
    executed,   \* the lines passed to run_statement
    wish,       \* the user's idea of the line: <<text before the cursor, text after>>
    asked,      \* what the user has asked for: "edit", "submit" or "leave"; "lost"
                \* once a lone ESC or a read error has cut a key in two
    pressed     \* number of keys pressed

line == <<buffer, length, cursor>>
user == <<wish, asked, pressed>>
terminal == <<mode, saved, gone, refused>>
vars == <<line, pc, terminal, input, executed, user>>

Text(from, to) == [i \in 1..(to - from) |-> buffer[from + i - 1]]
LeftText == Text(0, cursor)
RightText == Text(cursor, length)

Editing == {"edit", "escape", "bracket", "other"}
Over == {"exited", "killed"}

Init ==
    /\ buffer \in [0..BUFFER_SIZE - 1 -> Garbage]
    /\ length = 0 /\ cursor = 0
    /\ pc = "prompt"
    /\ mode = "cooked" /\ saved = "cooked" /\ gone = FALSE /\ refused = FALSE
    /\ input = <<>>
    /\ executed = <<>>
    /\ wish = <<<<>>, <<>>>> /\ asked = "edit" /\ pressed = 0

-----------------------------------------------------------------------------
(* The buffer *)

EmptyLine ==
    /\ buffer' = [buffer EXCEPT ![0] = NUL]
    /\ length' = 0 /\ cursor' = 0

Moved(to, from, n) ==
    [i \in DOMAIN buffer |-> IF i \in to..(to + n - 1) THEN buffer[i - to + from] ELSE buffer[i]]

\* Mutant of InsertCharacter: the move forgets the NUL.
InsertLeavesNul(ch) ==
    IF length + 1 >= BUFFER_SIZE
    THEN UNCHANGED line
    ELSE /\ buffer' = [Moved(cursor + 1, cursor, length - cursor) EXCEPT ![cursor] = ch]
         /\ length' = length + 1 /\ cursor' = cursor + 1

InsertCharacter(ch) ==
    IF length + 1 >= BUFFER_SIZE
    THEN UNCHANGED line
    ELSE /\ buffer' = [Moved(cursor + 1, cursor, length - cursor + 1) EXCEPT ![cursor] = ch]
         /\ length' = length + 1
         /\ cursor' = cursor + 1

\* Mutants of DeleteCharacterLeft: no check of the start, the wrong character.
DeleteUnchecked ==
    /\ buffer' = Moved(cursor - 1, cursor, length - cursor + 1)
    /\ length' = length - 1 /\ cursor' = cursor - 1

DeleteUnderCursor ==
    IF cursor = 0 \/ length = 0
    THEN UNCHANGED line
    ELSE /\ buffer' = Moved(cursor, cursor + 1, length - cursor)
         /\ length' = length - 1 /\ cursor' = cursor - 1

DeleteCharacterLeft ==
    IF cursor = 0 \/ length = 0
    THEN UNCHANGED line
    ELSE /\ buffer' = Moved(cursor - 1, cursor, length - cursor + 1)
         /\ length' = length - 1
         /\ cursor' = cursor - 1

MoveCursorLeft ==
    /\ cursor' = IF cursor > 0 THEN cursor - 1 ELSE cursor
    /\ UNCHANGED <<buffer, length>>

MoveCursorRight ==
    /\ cursor' = IF cursor < length THEN cursor + 1 ELSE cursor
    /\ UNCHANGED <<buffer, length>>

-----------------------------------------------------------------------------
(* The terminal.  tcsetattr with TCSAFLUSH also drops the bytes not read yet. *)

\* Mutant: TCSANOW in place of TCSAFLUSH.
EnableWithoutFlush == saved' = mode /\ mode' = "raw" /\ UNCHANGED <<input, gone, refused>>

EnableRawMode ==
    /\ saved' = mode /\ mode' = "raw"
    /\ input' = <<>>
    /\ UNCHANGED <<gone, refused>>

\* The result of tcsetattr is ignored.
DisableRawMode ==
    /\ \/ mode' = saved /\ input' = <<>> /\ UNCHANGED refused
       \/ (gone \/ "termios" \in Faults) /\ refused' = TRUE /\ UNCHANGED <<mode, input>>
    /\ UNCHANGED <<saved, gone>>

-----------------------------------------------------------------------------
(* read_tty_repl_line *)

\* The prompt is printed and raw mode entered.  The user starts a new line.
StartLine ==
    /\ pc = "prompt" /\ ~gone
    /\ EnableRawMode
    /\ EmptyLine
    /\ pc' = "edit"
    /\ wish' = <<<<>>, <<>>>> /\ asked' = "edit"
    /\ UNCHANGED <<executed, pressed>>

\* tcgetattr or tcsetattr fails: run_repl reports it and prompts again.
StartFails ==
    /\ gone \/ "termios" \in Faults
    /\ pc = "prompt"
    /\ UNCHANGED vars

\* A terminal that has gone is no terminal to isatty: fgets finds the end.
PromptEof ==
    /\ pc = "prompt" /\ gone
    /\ EmptyLine
    /\ pc' = "exited"
    /\ UNCHANGED <<terminal, input, executed, user>>

\* read returns the next byte.
Reads(b) == input # <<>> /\ b = Head(input)
Consumes == input' = Tail(input) /\ UNCHANGED <<terminal, executed, user>>

ReadPrintable ==
    /\ pc = "edit" /\ \E ch \in Printable : Reads(ch) /\ InsertCharacter(ch)
    /\ Consumes
    /\ UNCHANGED pc

ReadBackspace ==
    /\ pc = "edit" /\ Reads(DEL)
    /\ DeleteCharacterLeft
    /\ Consumes
    /\ UNCHANGED pc

ReadOther ==
    /\ pc = "edit" /\ Reads(UNPRINTABLE)
    /\ Consumes
    /\ UNCHANGED <<line, pc>>

\* handle_repl_escape_sequence reads two more bytes, whatever they are.
ReadEscape ==
    /\ pc = "edit" /\ Reads(ESC)
    /\ pc' = "escape"
    /\ Consumes
    /\ UNCHANGED line

ReadBracket ==
    /\ pc = "escape" /\ input # <<>>
    /\ pc' = IF Reads("[") THEN "bracket" ELSE "other"
    /\ Consumes
    /\ UNCHANGED line

\* Mutant: reads on until it finds a direction.
ReadUntilDirection ==
    /\ pc \in {"bracket", "other"} /\ input # <<>>
    /\ \/ Reads("D") /\ MoveCursorLeft /\ pc' = "edit"
       \/ Reads("C") /\ MoveCursorRight /\ pc' = "edit"
       \/ ~Reads("C") /\ ~Reads("D") /\ UNCHANGED <<line, pc>>
    /\ Consumes

ReadDirection ==
    /\ pc \in {"bracket", "other"} /\ input # <<>>
    /\ IF pc = "bracket" /\ Reads("D") THEN MoveCursorLeft
       ELSE IF pc = "bracket" /\ Reads("C") THEN MoveCursorRight
       ELSE UNCHANGED line
    /\ pc' = "edit"
    /\ Consumes

ReadEnter ==
    /\ pc = "edit" /\ Reads(NEWLINE)
    /\ buffer' = [buffer EXCEPT ![length] = NUL]
    /\ DisableRawMode
    /\ pc' = "run"
    /\ UNCHANGED <<length, cursor, executed, user>>

\* Ctrl-D ends the session on an empty line only.
ReadEot ==
    /\ pc = "edit" /\ Reads(EOT)
    /\ IF length = 0
       THEN DisableRawMode /\ pc' = "exited" /\ UNCHANGED <<executed, user>>
       ELSE Consumes /\ UNCHANGED pc
    /\ UNCHANGED line

\* Mutant: an early return that stays in raw mode.
ReadFailsInRawMode ==
    /\ "read" \in Faults
    /\ pc = "edit"
    /\ pc' = "prompt"
    /\ UNCHANGED <<line, terminal, input, executed, user>>

\* read fails: raw mode is left, run_repl reports it and prompts again.
ReadFails ==
    /\ "read" \in Faults
    /\ pc = "edit"
    /\ DisableRawMode
    /\ pc' = "prompt"
    /\ UNCHANGED <<line, executed, user>>

\* Mutant: 0 is taken for an interrupted read.
ReadEofRetries == pc = "edit" /\ gone /\ UNCHANGED vars

\* read returns 0 on a terminal that has gone: the end of the session.
ReadEof ==
    /\ pc = "edit" /\ gone
    /\ DisableRawMode
    /\ pc' = "exited"
    /\ UNCHANGED <<line, executed, user>>

\* In the middle of an escape sequence neither is told from the other.
EscapeFails ==
    /\ gone \/ "read" \in Faults
    /\ pc \in Editing \ {"edit"}
    /\ pc' = "edit"
    /\ asked' = IF gone THEN asked ELSE "lost"
    /\ UNCHANGED <<line, terminal, input, executed, wish, pressed>>

\* The terminal goes away, with what was typed (and SIGHUP is ignored).
HangUp ==
    /\ "hangup" \in Faults /\ ~gone
    /\ pc \notin Over
    /\ gone' = TRUE /\ input' = <<>>
    /\ UNCHANGED <<line, pc, mode, saved, refused, executed, user>>

\* Raw mode keeps ISIG: Ctrl-C kills the program, which has no handler for it.
Interrupt ==
    /\ "interrupt" \in Faults
    /\ pc \notin Over
    /\ pc' = "killed"
    /\ UNCHANGED <<line, terminal, input, executed, user>>

-----------------------------------------------------------------------------
(* run_repl: what becomes of the line *)

\* strlen finds the NUL; trim_range drops blanks at both ends.
StringIn == LET end == Min({i \in DOMAIN buffer : buffer[i] = NUL}) IN Text(0, end)
Trimmed(t) ==
    LET kept == {i \in DOMAIN t : t[i] # " "}
    IN  IF kept = {} THEN <<>> ELSE SubSeq(t, Min(kept), Max(kept))

RunLine ==
    /\ pc = "run"
    /\ LET statement == Trimmed(StringIn)
       IN  /\ executed' = IF statement = <<>> \/ statement \in ExitWords
                          THEN executed ELSE Append(executed, statement)
           /\ pc' = IF statement \in ExitWords THEN "exited" ELSE "prompt"
    /\ UNCHANGED <<line, terminal, input, user>>

-----------------------------------------------------------------------------
(* The user *)

Edited == INSTANCE EditedLine WITH
    left <- LeftText, right <- RightText,
    Letters <- Printable, Limit <- BUFFER_SIZE - 1

Meaning(key, l, r) ==
    CASE Len(key) = 1 /\ key[1] \in Printable -> Edited!Inserted(l, r, key[1])
      [] key = <<DEL>>  -> Edited!Deleted(l, r)
      [] key = LeftKey  -> Edited!MovedLeft(l, r)
      [] key = RightKey -> Edited!MovedRight(l, r)
      [] OTHER          -> <<l, r>>

\* A key pressed at the prompt has its meaning; one pressed after Enter, or while
\* a statement runs, is dropped with the terminal's input.  What a lone ESC does
\* depends on the next two bytes, so after it nobody can say what is asked for.
PressKey ==
    /\ pressed < MaxKeys
    /\ pc \notin Over /\ ~gone
    /\ \E key \in Keys :
        /\ input' = input \o key
        /\ IF mode = "raw" /\ asked = "edit"
           THEN /\ wish' = Meaning(key, wish[1], wish[2])
                /\ asked' = CASE key = <<NEWLINE>> -> "submit"
                              [] key = <<EOT>> /\ wish = <<<<>>, <<>>>> -> "leave"
                              [] key = EscapeKey -> "lost"
                              [] OTHER -> "edit"
           ELSE UNCHANGED <<wish, asked>>
    /\ pressed' = pressed + 1
    /\ UNCHANGED <<line, pc, terminal, executed>>

-----------------------------------------------------------------------------
Reading ==
    \/ ReadPrintable \/ ReadBackspace \/ ReadOther \/ ReadEscape \/ ReadBracket
    \/ ReadDirection \/ ReadEnter \/ ReadEot

\* What a terminal that has gone leaves of the program.
Ending == PromptEof \/ ReadEof \/ (gone /\ EscapeFails)

Program == StartLine \/ Reading \/ Ending \/ RunLine
Failing == StartFails \/ ReadFails \/ EscapeFails \/ HangUp \/ Interrupt

\* The session is over, or every key has been pressed and read.
Finished ==
    /\ pc \in Over \/ (pc \in Editing /\ pressed = MaxKeys /\ input = <<>>)
    /\ UNCHANGED vars

Next == Program \/ Failing \/ PressKey \/ Finished

Spec == Init /\ [][Next]_vars

\* The program goes on whenever it can; nobody has to press a key.
FairSpec == Spec /\ WF_vars(Program)

-----------------------------------------------------------------------------
(* Properties *)

TypeOK ==
    /\ buffer \in [0..BUFFER_SIZE - 1 -> Bytes]
    /\ length \in 0..BUFFER_SIZE - 1 /\ cursor \in 0..BUFFER_SIZE - 1
    /\ pc \in {"prompt", "run"} \cup Editing \cup Over
    /\ mode \in {"cooked", "raw"} /\ saved \in {"cooked", "raw"}
    /\ gone \in BOOLEAN /\ refused \in BOOLEAN
    /\ input \in Seq(Bytes)
    /\ executed \in Seq(Seq(Bytes))
    /\ wish \in Seq(Bytes) \X Seq(Bytes)
    /\ asked \in {"edit", "submit", "leave", "lost"}
    /\ pressed \in Nat

\* While a line is edited and run, the two memmove calls and the stores into
\* line_buffer keep it a C string of exactly "length" characters, with the cursor
\* inside it and the NUL inside the array (main.c:118-129, 148-153, 361).
BufferIsString ==
    pc \in Editing \cup {"run"} =>
        /\ length < BUFFER_SIZE
        /\ cursor \in 0..length
        /\ buffer[length] = NUL
        /\ \A i \in 0..(length - 1) : buffer[i] \in Printable

\* Every step of the program on its array is a step of an editor whose state is
\* the text left of the cursor and the text right of it (main.c:104-172).
EditedSpec == Edited!Spec

\* Whatever was typed, when and however fast: once the keys are read the line and
\* its cursor are what those keys mean, the line that runs is the one the user saw
\* when pressing Enter, and the session ends only when asked to (main.c:355-403,
\* 995-1003).  What is typed outside a prompt never reaches a line.  Only a read
\* error inside a key's bytes, or a lone ESC, which takes the next two bytes into
\* its key (main.c:268-283), leaves the rest of that line open; the next line is as
\* its keys say again.  This is so of keys of one byte, or of ESC and two more, and
\* false of the Delete key, which has four.
KeysHaveTheirMeaning ==
    asked # "lost" =>
        /\ pc = "edit" /\ input = <<>> /\ ~gone =>
            asked = "edit" /\ <<LeftText, RightText>> = wish
        /\ pc = "run" => asked = "submit" /\ StringIn = wish[1] \o wish[2]
        /\ pc = "exited" /\ ~gone =>
            asked = "leave" \/ (asked = "submit" /\ Trimmed(wish[1] \o wish[2]) \in ExitWords)

\* Outside of the editing of a line the terminal is as it was found, also when the
\* reading of a line failed and when the program has ended, unless a signal killed
\* it or the terminal refused to leave raw mode (main.c:248, 262-303).
TerminalRestored == pc \notin Editing \cup {"killed"} => mode = "cooked" \/ gone \/ refused

\* Once the terminal has gone the program ends, wherever it was: at the prompt, in
\* a line, in an escape sequence or running a statement (main.c:336-341, 451-461).
HangUpEndsTheSession == gone ~> pc \in Over

\* An Enter typed in a line ends the reading of it, whatever came before, unless an
\* ESC is one of the two bytes before it: handle_repl_escape_sequence takes the two
\* bytes after an ESC whatever they are (main.c:268-283), so an Enter soon after a
\* lone ESC is swallowed.  No key can swallow one that comes later.
EnterIsAnswered ==
    /\ pc = "edit"
    /\ \E i \in DOMAIN input :
        input[i] = NEWLINE /\ \A k \in {i - 1, i - 2} \cap DOMAIN input : input[k] # ESC
    ~> pc \notin Editing
=============================================================================
