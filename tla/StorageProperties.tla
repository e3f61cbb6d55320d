-------------------------- MODULE StorageProperties --------------------------
(***************************************************************************)
(* What append_row and read_all_rows guarantee to the processes that use   *)
(* them, and under which conditions.                                       *)
(***************************************************************************)
EXTENDS Storage

InitFile == IF InitTail = <<>> THEN InitLines ELSE Append(InitLines, InitTail)
AllIdle == \A s \in Sessions : pc[s] = "idle"
StorableRows == {r \in Rows : Storable(Schema, r)}

Places == {"idle", "open", "print", "failed", "written", "read"}
Stream == {t \in Text : \A i \in 1..Len(t) - 1 : t[i] \in Bytes}
Answers == [status : {"none", "ok", "error", "found"}, items : Seq(Seq(Bytes))]

\* Every variable has its type; an INSERT in progress carries a storable row.
TypeOK ==
    /\ lines \in Seq(Seq(Bytes))
    /\ tail \in Seq(Bytes)
    /\ pc \in [Sessions -> Places]
    /\ row \in [Sessions -> StorableRows \cup {<<>>}]
    /\ \A s \in Sessions :
        pc[s] \in {"open", "print", "failed", "written"} => row[s] \in StorableRows
    /\ stream \in [Sessions -> Stream]
    /\ got \in [Sessions -> Seq(Seq(Bytes))]
    /\ answer \in [Sessions -> Answers]
    /\ calls \in Nat
    /\ acked \in Seq(StorableRows)
    /\ broken \in Nat
    /\ overlaps \in Nat

-----------------------------------------------------------------------------
(* Refinement *)

CallOf(s) == CASE pc[s] = "idle" -> "none"
               [] pc[s] = "read" -> "select"
               [] OTHER          -> "insert"

\* The file, line by line, is a table of lines: whatever the interleaving of
\* fopen, write, close and fgets of the processes, each INSERT adds its line at
\* one instant and each SELECT reads the file of one instant.
LineTable == INSTANCE Table WITH
    Items <- {Serialize(r) : r \in StorableRows},
    Initial <- InitFile,
    table <- FileLines,
    call <- [s \in Sessions |-> CallOf(s)],
    item <- [s \in Sessions |->
                IF CallOf(s) = "insert" THEN Serialize(row[s]) ELSE <<>>],
    added <- [s \in Sessions |-> pc[s] = "written"],
    answer <- answer
LineTableSpec == LineTable!Spec

\* The same of the rows the lines stand for: what an INSERT was given is what
\* later SELECTs read, so writing and parsing a value are inverse.
RowsIn == [texts \in Seq(Seq(Bytes)) |-> RowsOf(Schema, texts)]
RowTable == INSTANCE Table WITH
    Items <- StorableRows,
    Initial <- RowsIn[InitFile],
    table <- RowsIn[FileLines],
    call <- [s \in Sessions |-> CallOf(s)],
    item <- [s \in Sessions |-> row[s]],
    added <- [s \in Sessions |-> pc[s] = "written"],
    answer <- [s \in Sessions |->
                [answer[s] EXCEPT !.items = RowsIn[@]]]
RowTableSpec == RowTable!Spec

-----------------------------------------------------------------------------
(* Safety *)

\* With no operation in progress the file is readable, and it holds the rows of
\* the start, one row for each INSERT that returned success, and at most one for
\* each that had opened the file and did not return success.
InsertAddsOneRow ==
    AllIdle =>
        /\ \A i \in DOMAIN FileLines : Readable(Schema, FileLines[i])
        /\ Len(RowsOf(Schema, FileLines)) - Len(RowsOf(Schema, InitFile))
            \in Len(acked)..(Len(acked) + broken)

\* The rows a SELECT has answered are never taken back: they stay the first rows
\* of the file while other processes go on writing.  (A row read from half a
\* line would change when the other half is written.)
AnswersStayTrue ==
    \A s \in Sessions :
        answer[s].status = "found" => IsPrefix(answer[s].items, FileLines)

\* Whatever fails, however long the lines and whoever prints at once: an append
\* that did not succeed spoils at most one acknowledged row, the one printed after
\* the half line it left behind, and two appends that overlap in time at most each
\* other's (storage.c:530-544).
Occurs(x, seq) == Cardinality({i \in DOMAIN seq : seq[i] = x})
Lost(r) ==
    LET missing == Occurs(r, acked) + Occurs(Serialize(r), InitLines)
                   - Occurs(Serialize(r), lines)
    IN  IF missing > 0 THEN missing ELSE 0
\* A lost row is <<row, number of its copy>>.
LostRows ==
    {copy \in StorableRows \X (1..(Len(acked) + Len(InitLines))) : copy[2] <= Lost(copy[1])}
FailureSpoilsOneRow == Cardinality(LostRows) <= broken + 2 * overlaps

\* Lines longer than the stream's buffer, printed by several processes at once:
\* their pieces mix, yet unless a call fails no byte is lost or overwritten and
\* each INSERT ends one line (storage.c:530).
TextLength(texts) == FoldLeft(LAMBDA n, t : n + Len(t), 0, texts)
AckedLines == [i \in DOMAIN acked |-> Serialize(acked[i])]
NothingIsOverwritten ==
    AllIdle /\ broken = 0 =>
        /\ Len(lines) = Len(InitLines) + Len(acked)
        /\ TextLength(FileLines) = TextLength(InitFile) + TextLength(AckedLines)

\* Why the file is a table of lines: no line is longer than the stream's buffer,
\* so each line reaches the file in one write, and what a reader has consumed
\* stays the beginning of the file.
ShortLines == \A r \in StorableRows : Len(Serialize(r)) + 1 <= STDIO_BUFFER
WholeLines ==
    /\ tail = <<>>
    /\ \A s \in Sessions :
        /\ pc[s] # "failed"
        /\ pc[s] = "print" => stream[s] = Append(Serialize(row[s]), NL)
        /\ IsPrefix(got[s], lines)
        /\ pc[s] # "read" => got[s] = <<>>

-----------------------------------------------------------------------------
(* Liveness *)

\* An INSERT that has begun returns (or its process dies), whatever the other
\* processes do to the file and whichever call fails.  A SELECT returns if the file
\* is let alone: from a file of n lines it ends its reading, or a line is added
\* meanwhile.  Nothing more holds of the loop of fgets (storage.c:604), which others
\* that append for ever, and as fast as it reads, can keep from the end of the file.
LineCounts == Len(InitLines)..(Len(InitLines) + MaxCalls)
CallsReturn ==
    \A s \in Sessions :
        /\ pc[s] \in {"open", "print", "failed", "written"} ~> pc[s] = "idle"
        /\ \A n \in LineCounts :
            (pc[s] = "read" /\ Len(lines) = n) ~> (pc[s] # "read" \/ Len(lines) > n)
=============================================================================
