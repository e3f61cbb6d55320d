------------------------------ MODULE PipedRepl ------------------------------
(***************************************************************************)
(* The REPL on a pipe or a file: run_repl of main.c with the fgets part of *)
(* read_repl_line.  A statement is what one call of fgets leaves in        *)
(* line_buffer; the stream remembers that a read has failed.               *)
(***************************************************************************)
EXTENDS Integers, SequencesExt

CONSTANTS
    Inputs,         \* what may be on the input: sequences of bytes
    BUFFER_SIZE,    \* size of line_buffer, MAX_SQL_TEXT_LENGTH in the code
    ExitWords,      \* what "exit" and "quit" stand for
    Faults          \* {} or {"read"}

NEWLINE == "\n"
Spaces == {" ", "\t", "\r", NEWLINE}

ASSUME PipedReplConstants ==
    /\ BUFFER_SIZE \in Nat /\ BUFFER_SIZE > 1
    /\ Faults \subseteq {"read"}
    /\ \A t \in Inputs : t \in Seq(STRING)

VARIABLES
    whole,      \* the input from its first byte
    input,      \* what is left of it
    error,      \* the error indicator of the stream
    line,       \* the string in line_buffer
    executed,   \* the statements passed to run_statement
    pc          \* "prompt", "run" or "exited"

vars == <<whole, input, error, line, executed, pc>>

Init ==
    /\ whole \in Inputs /\ input = whole
    /\ error = FALSE
    /\ line = <<>>
    /\ executed = <<>>
    /\ pc = "prompt"

-----------------------------------------------------------------------------
(* fgets stops after a newline, at the end of the input or one short of the *)
(* size of the buffer.                                                      *)

\* Mutant of ChunkLength: no room for the NUL.
ChunkOfFullSize ==
    LET ends == {i \in DOMAIN input : input[i] = NEWLINE}
    IN  Min({BUFFER_SIZE, Len(input)} \cup ends)

ChunkLength ==
    LET ends == {i \in DOMAIN input : input[i] = NEWLINE}
    IN  Min({BUFFER_SIZE - 1, Len(input)} \cup ends)

\* trim_line_ending
WithoutEnding(t) ==
    LET kept == {i \in DOMAIN t : t[i] \notin {NEWLINE, "\r"}}
    IN  IF kept = {} THEN <<>> ELSE SubSeq(t, 1, Max(kept))

FgetsLine ==
    /\ pc = "prompt" /\ input # <<>>
    /\ line' = WithoutEnding(SubSeq(input, 1, ChunkLength))
    /\ input' = SubSeq(input, ChunkLength + 1, Len(input))
    /\ pc' = "run"
    /\ UNCHANGED <<whole, error, executed>>

\* A read fails; the bytes fgets had before that are lost with it.  run_repl reports
\* the error and prompts again.
FgetsFails ==
    /\ "read" \in Faults
    /\ pc = "prompt"
    /\ \E lost \in 0..(IF input = <<>> THEN 0 ELSE ChunkLength - 1) :
          input' = SubSeq(input, lost + 1, Len(input))
    /\ line' = <<>>
    /\ error' = TRUE
    /\ UNCHANGED <<whole, executed, pc>>

\* Mutant of FgetsEof: the blank line at the end of the input is prompted for again.
FgetsEofAgain ==
    /\ pc = "prompt" /\ input = <<>>
    /\ line' = <<>>
    /\ UNCHANGED <<whole, input, error, executed, pc>>

\* At the end of the input fgets returns NULL, and ferror is asked first.
FgetsEof ==
    /\ pc = "prompt" /\ input = <<>>
    /\ line' = <<>>
    /\ pc' = IF error THEN "prompt" ELSE "exited"
    /\ UNCHANGED <<whole, input, error, executed>>

\* trim_range
Trimmed(t) ==
    LET kept == {i \in DOMAIN t : t[i] \notin Spaces}
    IN  IF kept = {} THEN <<>> ELSE SubSeq(t, Min(kept), Max(kept))

\* Mutant of RunLine: the comparison with the exit words forgets the blanks.
RunUntrimmed ==
    /\ pc = "run"
    /\ executed' = IF Trimmed(line) = <<>> \/ line \in ExitWords
                   THEN executed ELSE Append(executed, Trimmed(line))
    /\ pc' = IF line \in ExitWords THEN "exited" ELSE "prompt"
    /\ UNCHANGED <<whole, input, error, line>>

RunLine ==
    /\ pc = "run"
    /\ LET statement == Trimmed(line)
       IN  /\ executed' = IF statement = <<>> \/ statement \in ExitWords
                          THEN executed ELSE Append(executed, statement)
           /\ pc' = IF statement \in ExitWords THEN "exited" ELSE "prompt"
    /\ UNCHANGED <<whole, input, error, line>>

Program == FgetsLine \/ FgetsEof \/ RunLine

Finished == pc = "exited" /\ UNCHANGED vars

Next == Program \/ FgetsFails \/ Finished

Spec == Init /\ [][Next]_vars

\* Nothing but the input holds the program up.
FairSpec == Spec /\ WF_vars(Program)

-----------------------------------------------------------------------------
(* The statements an input stands for: its lines, blank ones left out, up  *)
(* to the first that asks for the end.                                     *)

\* The lines before the last newline, and what follows it.
NoLines == [done |-> <<>>, open |-> <<>>]
WithByte(cut, b) ==
    IF b = NEWLINE THEN [done |-> Append(cut.done, cut.open), open |-> <<>>]
    ELSE [done |-> cut.done, open |-> Append(cut.open, b)]
Cut(t) == FoldLeft(WithByte, NoLines, t)

LinesOf(t) == Append(Cut(t).done, Cut(t).open)

\* What has been said, and whether the end was asked for.
Silence == [said |-> <<>>, over |-> FALSE]
WithLine(talk, l) ==
    IF talk.over THEN talk
    ELSE IF Trimmed(l) \in ExitWords THEN [said |-> talk.said, over |-> TRUE]
    ELSE IF Trimmed(l) = <<>> THEN talk
    ELSE [said |-> Append(talk.said, Trimmed(l)), over |-> FALSE]
Talk(lines) == FoldLeft(WithLine, Silence, lines)

StatementsOf(t) == Talk(LinesOf(t)).said

-----------------------------------------------------------------------------
(* Properties *)

TypeOK ==
    /\ IsSuffix(input, whole)
    /\ error \in BOOLEAN
    /\ Len(line) < BUFFER_SIZE
    /\ \A i \in DOMAIN executed : Len(executed[i]) \in 1..BUFFER_SIZE - 1
    /\ pc \in {"prompt", "run", "exited"}

\* main.c:945: each line of the input is one statement, executed whole, once and in
\* its place; nothing else is executed.
LinesAreStatements ==
    /\ IsPrefix(executed, StatementsOf(whole))
    /\ pc = "exited" => executed = StatementsOf(whole)

\* That holds of inputs whose lines, line ending and NUL included, fit the buffer
\* (main.c:451-463, 991-1017), whatever blanks and blank lines they have, as long as
\* no read fails.
ShortLinesAreStatements ==
    (~error /\ \A i \in DOMAIN LinesOf(whole) : Len(LinesOf(whole)[i]) + 2 <= BUFFER_SIZE)
        => LinesAreStatements

\* main.c:952: the end of the input ends the session.
EofEndsTheSession == (input = <<>>) ~> (pc = "exited")

\* It does as long as no read has failed (main.c:451-461, 985-989).
EofEndsAnErrorFreeSession == (input = <<>>) ~> (pc = "exited" \/ error)
=============================================================================
