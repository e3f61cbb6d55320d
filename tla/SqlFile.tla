------------------------------- MODULE SqlFile -------------------------------
(***************************************************************************)
(* The program run on a file of SQL: main, read_text_file,                 *)
(* split_sql_statements and run_sql_file of main.c.  All of the text is    *)
(* split before its first statement runs; a statement that fails ends the  *)
(* run.  What a statement does is the business of module Executor: here it *)
(* succeeds or fails, and fails when its text has no tokens.               *)
(***************************************************************************)
EXTENDS Tokenizer

CONSTANTS
    Texts,      \* what the file may hold
    Faults      \* subset of {"read", "alloc"}

ASSUME SqlFileConstants ==
    /\ Faults \subseteq {"read", "alloc"}
    /\ \A t \in Texts : t \in Seq(STRING)

VARIABLES
    text,       \* the file, and then sql_text
    pc,         \* "start", "split", "run", "release" or "exited"
    cursor,     \* the byte the splitter looks at
    start,      \* where the current statement starts
    quoted,     \* in_single_quote
    statements, \* the list
    ran,        \* how many of them have run
    status,     \* the exit status
    live        \* the number of heap blocks

vars == <<text, pc, cursor, start, quoted, statements, ran, status, live>>
scan == <<cursor, start, quoted>>

Init ==
    /\ text \in Texts
    /\ pc = "start"
    /\ cursor = 1 /\ start = 1 /\ quoted = FALSE
    /\ statements = <<>>
    /\ ran = 0
    /\ status = 0
    /\ live = 0

\* The error is printed and the program leaves through its frees.
Fail == pc' = "release" /\ status' = 1

-----------------------------------------------------------------------------
(* read_text_file *)

ReadText ==
    /\ pc = "start"
    /\ pc' = "split" /\ live' = live + 1
    /\ UNCHANGED <<text, scan, statements, ran, status>>

\* fopen, fseek, ftell, malloc or fread fails: whatever was allocated is freed.
ReadTextFails ==
    /\ "read" \in Faults
    /\ pc = "start"
    /\ pc' = "exited" /\ status' = 1
    /\ UNCHANGED <<text, scan, statements, ran, live>>

-----------------------------------------------------------------------------
(* split_sql_statements *)

Blanks == {" ", "\t", "\n", "\r"}
\* trim_range of the bytes from one place to before another.
TrimRange(t, from, to) ==
    LET kept == {i \in from..(to - 1) : t[i] \notin Blanks}
    IN  IF kept = {} THEN <<>> ELSE SubSeq(t, Min(kept), Max(kept))

\* append_statement: a block for the statement, and the list's own block.
AppendStatement(s) ==
    /\ statements' = Append(statements, s)
    /\ live' = live + (IF statements = <<>> THEN 2 ELSE 1)

\* The statement that ends before the cursor is added, unless it is empty.
AddsStatement ==
    LET s == TrimRange(text, start, cursor)
    IN  IF s = <<>> THEN UNCHANGED <<statements, live>> ELSE AppendStatement(s)

\* Mutant of ScanQuote: the byte after a quote is skipped as an escaped one.
ScanEscape ==
    /\ pc = "split" /\ cursor <= Len(text) /\ text[cursor] = QUOTE
    /\ quoted' = ~quoted
    /\ cursor' = cursor + 2
    /\ UNCHANGED <<text, pc, start, statements, ran, status, live>>

ScanQuote ==
    /\ pc = "split" /\ cursor <= Len(text) /\ text[cursor] = QUOTE
    /\ quoted' = ~quoted
    /\ cursor' = cursor + 1
    /\ UNCHANGED <<text, pc, start, statements, ran, status, live>>

\* Mutant of ScanSemicolon: the next statement starts with the semicolon.
ScanSemicolonKept ==
    /\ pc = "split" /\ cursor <= Len(text) /\ text[cursor] = ";" /\ ~quoted
    /\ AddsStatement
    /\ start' = cursor /\ cursor' = cursor + 1
    /\ UNCHANGED <<text, pc, quoted, ran, status>>

\* Mutant of ScanSemicolon: strings are not looked at.
ScanAnySemicolon ==
    /\ pc = "split" /\ cursor <= Len(text) /\ text[cursor] = ";"
    /\ AddsStatement
    /\ start' = cursor + 1 /\ cursor' = cursor + 1
    /\ UNCHANGED <<text, pc, quoted, ran, status>>

ScanSemicolon ==
    /\ pc = "split" /\ cursor <= Len(text) /\ text[cursor] = ";" /\ ~quoted
    /\ AddsStatement
    /\ start' = cursor + 1 /\ cursor' = cursor + 1
    /\ UNCHANGED <<text, pc, quoted, ran, status>>

ScanByte ==
    /\ pc = "split" /\ cursor <= Len(text) /\ text[cursor] # QUOTE
    /\ text[cursor] = ";" => quoted
    /\ cursor' = cursor + 1
    /\ UNCHANGED <<text, pc, start, quoted, statements, ran, status, live>>

\* malloc or realloc fails in append_statement; the list stays as it was.
AppendFails ==
    /\ "alloc" \in Faults
    /\ pc = "split"
    /\ \/ cursor > Len(text) /\ ~quoted
       \/ cursor <= Len(text) /\ text[cursor] = ";" /\ ~quoted
    /\ TrimRange(text, start, cursor) # <<>>
    /\ Fail
    /\ UNCHANGED <<text, scan, statements, ran, live>>

\* Mutant of OpenString: what was split off before it runs.
OpenStringRuns ==
    /\ pc = "split" /\ cursor > Len(text) /\ quoted
    /\ pc' = "run"
    /\ UNCHANGED <<text, scan, statements, ran, status, live>>

OpenString ==
    /\ pc = "split" /\ cursor > Len(text) /\ quoted
    /\ Fail
    /\ UNCHANGED <<text, scan, statements, ran, live>>

LastStatement ==
    /\ pc = "split" /\ cursor > Len(text) /\ ~quoted
    /\ AddsStatement
    /\ pc' = "run"
    /\ UNCHANGED <<text, scan, ran, status>>

-----------------------------------------------------------------------------
(* run_sql_file and the end of main *)

Runnable(s) == Tokenize(s).ok /\ Tokenize(s).tokens # <<>>

RunStatement ==
    /\ pc = "run" /\ ran < Len(statements)
    /\ Runnable(statements[ran + 1])
    /\ ran' = ran + 1
    /\ UNCHANGED <<text, pc, scan, statements, status, live>>

\* Mutant of StatementFails: the result of run_sql_file is not looked at.
StatementFailsUnnoticed ==
    /\ pc = "run" /\ ran < Len(statements)
    /\ pc' = "release"
    /\ UNCHANGED <<text, scan, statements, ran, status, live>>

\* parse_sql or execute_command fails.
StatementFails ==
    /\ pc = "run" /\ ran < Len(statements)
    /\ Fail
    /\ UNCHANGED <<text, scan, statements, ran, live>>

AllHaveRun ==
    /\ pc = "run" /\ ran = Len(statements)
    /\ pc' = "release"
    /\ UNCHANGED <<text, scan, statements, ran, status, live>>

\* Mutant of Release: the list's own block is forgotten.
ReleaseItems ==
    /\ pc = "release"
    /\ live' = live - 1 - Len(statements)
    /\ pc' = "exited"
    /\ UNCHANGED <<text, scan, statements, ran, status>>

\* free_sql_statement_list and free(sql_text)
Release ==
    /\ pc = "release"
    /\ live' = live - 1 - (IF statements = <<>> THEN 0 ELSE 1 + Len(statements))
    /\ pc' = "exited"
    /\ UNCHANGED <<text, scan, statements, ran, status>>

Exited == pc = "exited" /\ UNCHANGED vars

Next ==
    \/ ReadText \/ ReadTextFails
    \/ ScanQuote \/ ScanSemicolon \/ ScanByte \/ AppendFails \/ OpenString \/ LastStatement
    \/ RunStatement \/ StatementFails \/ AllHaveRun \/ Release \/ Exited

Spec == Init /\ [][Next]_vars

-----------------------------------------------------------------------------
(* What the statements of a text are. *)

QuotesBefore(t, i) == Cardinality({j \in 1..(i - 1) : t[j] = QUOTE})
Balanced(t) == QuotesBefore(t, Len(t) + 1) % 2 = 0
\* The semicolons outside of strings, and the end of the text.
Ends(t) ==
    {i \in DOMAIN t : t[i] = ";" /\ QuotesBefore(t, i) % 2 = 0} \cup {Len(t) + 1}
\* What is between an end and the end before it.
Piece(t, i) == TrimRange(t, Max({0} \cup {j \in Ends(t) : j < i}) + 1, i)
WithPiece(t, found, i) ==
    IF i \in Ends(t) /\ Piece(t, i) # <<>> THEN Append(found, Piece(t, i)) ELSE found
PiecesUpTo(t, n) ==
    FoldLeft(LAMBDA found, i : WithPiece(t, found, i), <<>>, [i \in 1..n |-> i])
StatementsOf(t) == PiecesUpTo(t, Len(t) + 1)

\* The tokens of each of a list of texts, those that have any.
WithGroup(found, group) == IF group = <<>> THEN found ELSE Append(found, group)
TokensOf(texts) ==
    FoldLeft(LAMBDA found, t : WithGroup(found, Tokenize(t).tokens), <<>>, texts)

\* The groups of tokens between semicolon tokens: one is open, the others are done.
WithToken(groups, token) ==
    IF token.type = ";"
    THEN [done |-> WithGroup(groups.done, groups.open), open |-> <<>>]
    ELSE [done |-> groups.done, open |-> Append(groups.open, token)]
Grouped(tokens) == FoldLeft(WithToken, [done |-> <<>>, open |-> <<>>], tokens)
Groups(tokens) == WithGroup(Grouped(tokens).done, Grouped(tokens).open)

-----------------------------------------------------------------------------
(* Properties *)

TypeOK ==
    /\ pc \in {"start", "split", "run", "release", "exited"}
    /\ cursor \in 1..(Len(text) + 1) /\ start \in 1..(Len(text) + 1)
    /\ quoted \in BOOLEAN
    /\ ran \in 0..Len(statements)
    /\ status \in {0, 1}
    /\ live \in Nat

\* The byte by byte scan finds the pieces of the text between the semicolons outside
\* of strings, in order, none lost, none empty (main.c:590-597).
StatementsAreThePieces == pc = "run" => Balanced(text) /\ statements = StatementsOf(text)

\* The splitter and the tokenizer agree on what is inside a string: the tokens of the
\* statements are the tokens of the whole text, semicolons aside, and a statement is
\* refused only if the whole text is (main.c:622-646, tokenizer.c:140-170).
SplitAgreesWithTokens ==
    pc = "run" =>
        /\ Tokenize(text).ok <=> \A i \in DOMAIN statements : Tokenize(statements[i]).ok
        /\ Tokenize(text).ok => TokensOf(statements) = Groups(Tokenize(text).tokens)

\* Nothing of a file runs before all of it has been split: an open string at the end
\* keeps every statement before it from running (main.c:597, 648-652, 1051-1066).
OpenStringRunsNothing == ~Balanced(text) => ran = 0

\* The exit status is 0 only when all of the file was read and split and every one
\* of its statements has run (main.c:919-939, 1043-1073).
StatusTellsTheTruth ==
    pc = "exited" /\ status = 0 =>
        Balanced(text) /\ statements = StatementsOf(text) /\ ran = Len(statements)

\* On every way to the exit all that was allocated is freed, once.
NothingLeaks == pc = "exited" => live = 0
=============================================================================
