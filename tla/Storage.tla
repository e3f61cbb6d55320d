------------------------------- MODULE Storage -------------------------------
(***************************************************************************)
(* append_row and read_all_rows of storage.c, run by several processes     *)
(* that share one data file.  No lock is taken: the C library opens the    *)
(* file in append mode, collects the line in the stream's buffer and       *)
(* writes it to the file a buffer at a time; a reader consumes the file    *)
(* line by line while others append.                                       *)
(*                                                                         *)
(* The file is its complete lines and the text after the last newline.     *)
(***************************************************************************)
EXTENDS CsvCodec

CONSTANTS
    Sessions,       \* the processes that use the table
    Schema,         \* the table's schema
    Rows,           \* the rows an INSERT may carry, valid or not
    InitLines,      \* the complete lines of the file at the start
    InitTail,       \* the text after its last newline
    STDIO_BUFFER,   \* size of a stream's buffer
    Faults,         \* which library calls may fail
    MaxCalls        \* bound on the number of operations begun

ASSUME StorageConstants ==
    /\ InitLines \in Seq(Seq(Bytes))
    /\ InitTail \in Seq(Bytes)
    /\ STDIO_BUFFER \in Nat \ {0}
    /\ Faults \subseteq {"open", "write", "close", "read", "crash"}
    /\ MaxCalls \in Nat

VARIABLES
    lines,  \* the complete lines of the file
    tail,   \* the bytes after the last newline
    pc,     \* where each process is
    row,    \* the row a process is appending
    stream, \* what it has not written of line and newline
    got,    \* the complete lines it has read
    answer, \* what its last operation returned
    calls,  \* number of operations begun
    acked,  \* the rows whose INSERT returned success, in that order
    broken, \* number of INSERTs that had begun and did not succeed
    overlaps \* number of INSERTs that opened the file while another printed

vars == <<lines, tail, pc, row, stream, got, answer, calls, acked, broken, overlaps>>
file == <<lines, tail>>

NoAnswer == [status |-> "none", items |-> <<>>]
Ok       == [status |-> "ok", items |-> <<>>]
Error    == [status |-> "error", items |-> <<>>]
Found(items) == [status |-> "found", items |-> items]

FileLines == IF tail = <<>> THEN lines ELSE Append(lines, tail)
ReadableLines == {l \in Seq(Bytes) : Readable(Schema, l)}

Init ==
    /\ lines = InitLines
    /\ tail = InitTail
    /\ pc = [s \in Sessions |-> "idle"]
    /\ row = [s \in Sessions |-> <<>>]
    /\ stream = [s \in Sessions |-> <<>>]
    /\ got = [s \in Sessions |-> <<>>]
    /\ answer = [s \in Sessions |-> NoAnswer]
    /\ calls = 0
    /\ acked = <<>>
    /\ broken = 0
    /\ overlaps = 0

\* The file after a write of text, whose only newline may be its last byte.
Written(text) ==
    /\ lines' = IF text # <<>> /\ text[Len(text)] = NL
                THEN Append(lines, tail \o SubSeq(text, 1, Len(text) - 1))
                ELSE lines
    /\ tail' = IF text # <<>> /\ text[Len(text)] = NL THEN <<>> ELSE tail \o text

Goto(s, place) == pc' = [pc EXCEPT ![s] = place]

Return(s, result) ==
    /\ Goto(s, "idle")
    /\ row' = [row EXCEPT ![s] = <<>>]
    /\ stream' = [stream EXCEPT ![s] = <<>>]
    /\ got' = [got EXCEPT ![s] = <<>>]
    /\ answer' = [answer EXCEPT ![s] = result]
    /\ acked' = IF result.status = "ok" THEN Append(acked, row[s]) ELSE acked
    /\ broken' = IF pc[s] \in {"print", "failed", "written"} /\ result.status # "ok"
                 THEN broken + 1 ELSE broken
    /\ UNCHANGED overlaps

Begin(s) ==
    /\ pc[s] = "idle"
    /\ calls < MaxCalls
    /\ calls' = calls + 1

-----------------------------------------------------------------------------
(* append_row *)

\* Validation and serialization precede every effect.
BeginAppend(s) ==
    /\ Begin(s)
    /\ \E r \in Rows :
        /\ Storable(Schema, r)
        /\ row' = [row EXCEPT ![s] = r]
    /\ Goto(s, "open")
    /\ answer' = [answer EXCEPT ![s] = NoAnswer]
    /\ UNCHANGED <<lines, tail, stream, got, acked, broken, overlaps>>

RefuseAppend(s) ==
    /\ Begin(s)
    /\ \E r \in Rows : ~Storable(Schema, r)
    /\ Return(s, Error)
    /\ UNCHANGED <<lines, tail>>

\* The file is opened: two appends overlap if another still has bytes to write.
Overlaps(s) ==
    overlaps' = IF \E t \in Sessions \ {s} : pc[t] \in {"print", "failed"}
                THEN overlaps + 1 ELSE overlaps

\* Slips in the code that the checks must notice.
OpenNewlineFirst(s) ==
    /\ pc[s] = "open"
    /\ stream' = [stream EXCEPT ![s] = <<NL>> \o Serialize(row[s])]
    /\ Goto(s, "print")
    /\ Overlaps(s)
    /\ UNCHANGED <<lines, tail, row, got, answer, calls, acked, broken>>
OpenWithoutNewline(s) ==
    /\ pc[s] = "open"
    /\ stream' = [stream EXCEPT ![s] = Serialize(row[s])]
    /\ Goto(s, "print")
    /\ Overlaps(s)
    /\ UNCHANGED <<lines, tail, row, got, answer, calls, acked, broken>>
OpenTruncates(s) ==
    /\ pc[s] = "open"
    /\ lines' = <<>> /\ tail' = <<>>
    /\ stream' = [stream EXCEPT ![s] = Append(Serialize(row[s]), NL)]
    /\ Goto(s, "print")
    /\ Overlaps(s)
    /\ UNCHANGED <<row, got, answer, calls, acked, broken>>
WriteUnbuffered(s) ==
    /\ pc[s] = "print"
    /\ Len(stream[s]) > 1
    /\ Written(SubSeq(stream[s], 1, 1))
    /\ stream' = [stream EXCEPT ![s] = Tail(@)]
    /\ UNCHANGED <<pc, row, got, answer, calls, acked, broken, overlaps>>
AppendOkBeforeClose(s) ==
    /\ pc[s] \in {"print", "written"}
    /\ Return(s, Ok)
    /\ UNCHANGED <<lines, tail, calls>>
EofOnlyInALine(s) ==
    /\ pc[s] = "read"
    /\ Len(got[s]) = Len(lines)
    /\ tail # <<>>
    /\ Return(s, IF tail \in ReadableLines THEN Found(Append(got[s], tail)) ELSE Error)
    /\ UNCHANGED <<lines, tail, calls>>

\* fopen(path, "a") and the start of fprintf: the line enters the stream.
OpenAppend(s) ==
    /\ pc[s] = "open"
    /\ stream' = [stream EXCEPT ![s] = Append(Serialize(row[s]), NL)]
    /\ Goto(s, "print")
    /\ Overlaps(s)
    /\ UNCHANGED <<lines, tail, row, got, answer, calls, acked, broken>>

\* There is no data directory, or fopen fails (a missing file is an empty one).
OpenFails(s) ==
    /\ "open" \in Faults
    /\ pc[s] \in {"open", "read"} /\ got[s] = <<>>
    /\ Return(s, Error)
    /\ UNCHANGED <<lines, tail, calls>>

\* fprintf writes the buffer each time it is full and there is more to print.
WriteBuffer(s) ==
    /\ pc[s] = "print"
    /\ Len(stream[s]) > STDIO_BUFFER
    /\ Written(SubSeq(stream[s], 1, STDIO_BUFFER))
    /\ stream' = [stream EXCEPT ![s] = SubSeq(@, STDIO_BUFFER + 1, Len(@))]
    /\ UNCHANGED <<pc, row, got, answer, calls, acked, broken, overlaps>>

\* fclose writes what is left in the buffer.
CloseWrites(s) ==
    /\ pc[s] = "print"
    /\ Len(stream[s]) <= STDIO_BUFFER
    /\ Written(stream[s])
    /\ stream' = [stream EXCEPT ![s] = <<>>]
    /\ Goto(s, "written")
    /\ UNCHANGED <<row, got, answer, calls, acked, broken, overlaps>>

\* The disk is full in fprintf: a part of the buffer is written.  The error path
\* still calls fclose: as the C library chooses, it writes more of the buffer or drops it.
PrintFails(s) ==
    /\ "write" \in Faults
    /\ pc[s] = "print"
    /\ Len(stream[s]) > STDIO_BUFFER
    /\ \E n \in 0..STDIO_BUFFER - 1 :
        /\ Written(SubSeq(stream[s], 1, n))
        /\ stream' = [stream EXCEPT ![s] = SubSeq(@, n + 1, STDIO_BUFFER)]
    /\ Goto(s, "failed")
    /\ UNCHANGED <<row, got, answer, calls, acked, broken, overlaps>>

CloseAfterError(s) ==
    /\ pc[s] = "failed"
    /\ \E n \in 0..Len(stream[s]) : Written(SubSeq(stream[s], 1, n))
    /\ Return(s, Error)
    /\ UNCHANGED calls

\* The disk is full in fclose: the rest of the buffer is lost.
FlushFails(s) ==
    /\ "write" \in Faults
    /\ pc[s] = "print"
    /\ Len(stream[s]) <= STDIO_BUFFER
    /\ \E n \in 0..Len(stream[s]) - 1 : Written(SubSeq(stream[s], 1, n))
    /\ Return(s, Error)
    /\ UNCHANGED calls

\* close(2) itself answers.
AppendOk(s) ==
    /\ pc[s] = "written"
    /\ Return(s, Ok)
    /\ UNCHANGED <<lines, tail, calls>>

CloseFails(s) ==
    /\ "close" \in Faults
    /\ pc[s] = "written"
    /\ Return(s, Error)
    /\ UNCHANGED <<lines, tail, calls>>

-----------------------------------------------------------------------------
(* read_all_rows *)

BeginRead(s) ==
    /\ Begin(s)
    /\ Goto(s, "read")
    /\ answer' = [answer EXCEPT ![s] = NoAnswer]
    /\ UNCHANGED <<lines, tail, row, stream, got, acked, broken, overlaps>>

NextLine(s) == lines[Len(got[s]) + 1]

\* One turn of the fgets loop.  The rows of the list are those of got.
FgetsLine(s) ==
    /\ pc[s] = "read"
    /\ Len(got[s]) < Len(lines)
    /\ NextLine(s) \in ReadableLines
    /\ got' = [got EXCEPT ![s] = Append(@, NextLine(s))]
    /\ UNCHANGED <<lines, tail, pc, row, stream, answer, calls, acked, broken, overlaps>>

FgetsBadLine(s) ==
    /\ pc[s] = "read"
    /\ Len(got[s]) < Len(lines)
    /\ NextLine(s) \notin ReadableLines
    /\ Return(s, Error)
    /\ UNCHANGED <<lines, tail, calls>>

\* The end of the file: a last line without newline is a line like another.
FgetsEof(s) ==
    /\ pc[s] = "read"
    /\ Len(got[s]) = Len(lines)
    /\ Return(s, IF tail = <<>> THEN Found(got[s])
                 ELSE IF tail \in ReadableLines THEN Found(Append(got[s], tail))
                 ELSE Error)
    /\ UNCHANGED <<lines, tail, calls>>

ReadFails(s) ==
    /\ "read" \in Faults
    /\ pc[s] = "read"
    /\ Return(s, Error)
    /\ UNCHANGED <<lines, tail, calls>>

-----------------------------------------------------------------------------
\* The process is killed: its buffers are gone, the file is what was written.
Crash(s) ==
    /\ "crash" \in Faults
    /\ pc[s] # "idle"
    /\ Return(s, NoAnswer)
    /\ UNCHANGED <<lines, tail, calls>>

Works(s) ==
    \/ OpenAppend(s) \/ WriteBuffer(s) \/ CloseWrites(s) \/ CloseAfterError(s)
    \/ AppendOk(s) \/ FgetsLine(s) \/ FgetsBadLine(s) \/ FgetsEof(s)

Breaks(s) ==
    \/ OpenFails(s) \/ PrintFails(s) \/ FlushFails(s) \/ CloseFails(s)
    \/ ReadFails(s) \/ Crash(s)

Finished ==
    /\ calls = MaxCalls
    /\ \A s \in Sessions : pc[s] = "idle"
    /\ UNCHANGED vars

Next ==
    \/ \E s \in Sessions :
        BeginAppend(s) \/ RefuseAppend(s) \/ BeginRead(s) \/ Works(s) \/ Breaks(s)
    \/ Finished

Spec == Init /\ [][Next]_vars

\* An operation that has begun keeps running; nothing makes a user begin one.
FairSpec == Spec /\ \A s \in Sessions : WF_vars(Works(s))
=============================================================================
