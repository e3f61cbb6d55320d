------------------------------ MODULE Executor ------------------------------
(***************************************************************************)
(* execute_command of executor.c as run_statement, run_sql_file and        *)
(* run_repl of main.c call it: the steps of a SELECT with the three row    *)
(* lists it moves rows between, each allocation that may fail and each     *)
(* early return with the lists it frees.                                   *)
(*                                                                         *)
(* A row list is a pointer to a block and a count; the heap maps the live  *)
(* blocks to the rows in them.  append_row is one step here; its own steps *)
(* are in module Storage.                                                  *)
(***************************************************************************)
EXTENDS Sql

CONSTANTS
    TableName, Schema,           \* as in SqlSession
    Statements, MaxStatements,
    InitRows,
    Blocks,     \* the addresses malloc returns
    NULL,       \* the null pointer
    Faults      \* which of "alloc", "append" and "read" may fail

\* What cast_value and the parsing of a line make of a text, and the rows of them.
Value == [type : {"int"}, int : Int] \cup [type : {"text"}, text : Text]
Row == [DOMAIN Schema -> Value]
Name == Seq(STRING)

ASSUME ExecutorConstants ==
    /\ NULL \notin Blocks
    /\ Faults \subseteq {"alloc", "append", "read"}
    /\ Schema \in Seq([name : Name, type : {"int", "text"}])
    /\ InitRows \in Seq(Row)
    /\ \A sql \in Statements : sql.columns \in Seq(Name) /\ sql.values \in Seq(Value)

VARIABLES
    interactive, \* main was called without a file
    script,     \* the statements so far, the last one perhaps in progress
    pc,         \* where its execution is
    table,      \* the rows of the data file
    heap,       \* the live blocks and their rows
    full,       \* full_rows: what read_all_rows returned
    filtered,   \* filtered_rows: the rows WHERE keeps
    result,     \* out_result->rows
    output,     \* what has been printed
    failures    \* which of them failed

lists == <<heap, full, filtered, result>>
vars == <<interactive, script, pc, table, lists, output, failures>>

Sql == script[Len(script)]
\* The session these steps amount to; a statement counts once it has ended.
Ended == IF pc \in {"ready", "failed", "stopped"} THEN script ELSE SubSeq(script, 1, Len(script) - 1)
Session == INSTANCE SqlSession WITH script <- Ended, Unreliable <- Faults # {}

EmptyList == [block |-> NULL, count |-> 0]

Init ==
    /\ interactive \in BOOLEAN
    /\ script = <<>>
    /\ pc = "ready"
    /\ table = InitRows
    /\ heap = <<>>
    /\ full = EmptyList
    /\ filtered = EmptyList
    /\ result = EmptyList
    /\ output = <<>>
    /\ failures = {}

\* malloc, realloc and free as functions of the heap.
Unused == Blocks \ DOMAIN heap
With(h, b, rows) == [c \in DOMAIN h \cup {b} |-> IF c = b THEN rows ELSE h[c]]
Without(h, b) == [c \in DOMAIN h \ {b} |-> h[c]]
RowsIn(list) == IF list.count = 0 THEN <<>> ELSE SubSeq(heap[list.block], 1, list.count)

-----------------------------------------------------------------------------
(* How a statement ends *)

\* The local lists are gone, and out_result->rows is what is left in it.
Leave(left) ==
    /\ full' = EmptyList /\ filtered' = EmptyList /\ result' = left
    /\ UNCHANGED <<interactive, script>>

\* -1 is returned to run_statement, whose result still holds what is left in it.
FailsWith(left) ==
    /\ failures' = failures \cup {Len(script)}
    /\ pc' = "failed"
    /\ Leave(left)
    /\ UNCHANGED output
Fails == FailsWith(EmptyList)

\* run_statement returns without free_execution_result, and the error is printed.
\* A file stops there, the REPL reads the next line.
ReportFailure ==
    /\ pc = "failed"
    /\ pc' = IF interactive THEN "ready" ELSE "stopped"
    /\ Leave(EmptyList)
    /\ UNCHANGED <<table, heap, output, failures>>

Shows(what) ==
    /\ output' = Append(output, what)
    /\ pc' = "ready"
    /\ Leave(EmptyList)
    /\ UNCHANGED failures

-----------------------------------------------------------------------------
(* parse_sql and execute_insert_command: no list is allocated. *)

\* The next statement is taken up.
NextStatement ==
    /\ pc = "ready" /\ Len(script) < MaxStatements
    /\ \E sql \in Statements : script' = Append(script, sql)
    /\ pc' = "execute"
    /\ UNCHANGED <<interactive, table, lists, output, failures>>

Accepted == Sql.table = TableName /\ ValidInsert(Schema, Sql)

RejectStatement ==
    /\ pc = "execute"
    /\ \/ Sql.kind = "bad"
       \/ Sql.table # TableName
       \/ Sql.kind = "insert" /\ ~ValidInsert(Schema, Sql)
    /\ Fails
    /\ UNCHANGED <<table, heap>>

ExecuteInsert ==
    /\ pc = "execute"
    /\ Sql.kind = "insert" /\ Accepted
    /\ table' = Append(table, Sql.values)
    /\ Shows(InsertShown)
    /\ UNCHANGED heap

AppendFailsSilently ==                                          \* a slip
    /\ "append" \in Faults
    /\ pc = "execute"
    /\ Sql.kind = "insert" /\ Accepted
    /\ Shows(InsertShown)
    /\ UNCHANGED <<table, heap>>

AppendFails ==
    /\ "append" \in Faults
    /\ pc = "execute"
    /\ Sql.kind = "insert" /\ Accepted
    /\ table' \in {table, Append(table, Sql.values)}
    /\ Fails
    /\ UNCHANGED heap

-----------------------------------------------------------------------------
(* execute_select_command *)

Goto(place) == pc' = place /\ UNCHANGED <<interactive, script, table, output, failures>>

BeginSelect ==
    /\ pc = "execute"
    /\ Sql.kind = "select" /\ Sql.table = TableName
    /\ Goto("read")
    /\ UNCHANGED lists

ReadRowUnchecked ==             \* a slip: realloc's null pointer is not noticed
    /\ pc = "read" /\ full.count < Len(table)
    /\ \E b \in Unused \cup {full.block} :
        /\ heap' = With(Without(heap, full.block), b,
                        Append(RowsIn(full), table[full.count + 1]))
        /\ full' = [block |-> b, count |-> full.count + 1]
    /\ Goto("read")
    /\ UNCHANGED <<filtered, result>>
ReadRowAgain ==                 \* a slip: the count stays
    /\ pc = "read" /\ full.count < Len(table)
    /\ \E b \in Unused \cup ({full.block} \ {NULL}) :
        /\ heap' = With(Without(heap, full.block), b,
                        Append(RowsIn(full), table[full.count + 1]))
        /\ full' = [block |-> b, count |-> full.count]
    /\ Goto("read")
    /\ UNCHANGED <<filtered, result>>

\* append_row_to_list: realloc by one row, perhaps to another address.
ReadRow ==
    /\ pc = "read" /\ full.count < Len(table)
    /\ \E b \in Unused \cup ({full.block} \ {NULL}) :
        /\ heap' = With(Without(heap, full.block), b,
                        Append(RowsIn(full), table[full.count + 1]))
        /\ full' = [block |-> b, count |-> full.count + 1]
    /\ Goto("read")
    /\ UNCHANGED <<filtered, result>>

\* realloc, fgets or the parsing of a line fails: the rows so far are freed.
ReadFails ==
    /\ pc = "read"
    /\ \/ "alloc" \in Faults /\ full.count < Len(table)
       \/ "read" \in Faults
    /\ heap' = Without(heap, full.block)
    /\ Fails
    /\ UNCHANGED table

ReadEnds ==
    /\ pc = "read" /\ full.count = Len(table)
    /\ Goto("filter")
    /\ UNCHANGED lists

\* apply_select_where_filter
FilterMoves ==
    /\ pc = "filter" /\ Sql.where = <<>>
    /\ filtered' = full
    /\ full' = EmptyList
    /\ Goto("release")
    /\ UNCHANGED <<heap, result>>

FilterFailsAndKeeps ==          \* a slip: the rows read are not freed
    /\ pc = "filter" /\ Sql.where # <<>>
    /\ \/ ~ValidWhere(Schema, Sql.where)
       \/ "alloc" \in Faults /\ full.count > 0
    /\ Fails
    /\ UNCHANGED <<table, heap>>
FilterFails ==
    /\ pc = "filter" /\ Sql.where # <<>>
    /\ \/ ~ValidWhere(Schema, Sql.where)
       \/ "alloc" \in Faults /\ full.count > 0
    /\ heap' = Without(heap, full.block)
    /\ Fails
    /\ UNCHANGED table

FilterKeepsCount ==             \* a slip: the count of the rows read
    /\ pc = "filter" /\ Sql.where # <<>> /\ ValidWhere(Schema, Sql.where)
    /\ LET kept == Matching(Schema, Sql.where, RowsIn(full))
       IN  IF kept = <<>>
           THEN UNCHANGED <<heap, filtered>>
           ELSE \E b \in Unused :
                    /\ heap' = With(heap, b, kept)
                    /\ filtered' = [block |-> b, count |-> full.count]
    /\ Goto("release")
    /\ UNCHANGED <<full, result>>

\* The buffer for the matching rows is freed at once when none matches.
FilterCopies ==
    /\ pc = "filter" /\ Sql.where # <<>> /\ ValidWhere(Schema, Sql.where)
    /\ LET kept == Matching(Schema, Sql.where, RowsIn(full))
       IN  IF kept = <<>>
           THEN UNCHANGED <<heap, filtered>>
           ELSE \E b \in Unused :
                    /\ heap' = With(heap, b, kept)
                    /\ filtered' = [block |-> b, count |-> Len(kept)]
    /\ Goto("release")
    /\ UNCHANGED <<full, result>>

ReleaseFull ==
    /\ pc = "release"
    /\ heap' = Without(heap, full.block)
    /\ full' = EmptyList
    /\ Goto("project")
    /\ UNCHANGED <<filtered, result>>

\* SELECT *: the result takes the list over, and its local name is gone.
ProjectMoves ==
    /\ pc = "project" /\ Sql.columns = <<>>
    /\ result' = filtered
    /\ filtered' = EmptyList
    /\ Goto("print")
    /\ UNCHANGED <<heap, full>>

KnownColumns == \A i \in DOMAIN Sql.columns : IsColumn(Schema, Sql.columns[i])

UnknownColumn ==
    /\ pc = "project" /\ Sql.columns # <<>> /\ ~KnownColumns
    /\ heap' = Without(heap, filtered.block)
    /\ Fails
    /\ UNCHANGED table

\* The count is stored before calloc fails, and stays in the result.
ProjectFails ==
    /\ "alloc" \in Faults
    /\ pc = "project" /\ Sql.columns # <<>> /\ KnownColumns
    /\ filtered.count > 0
    /\ heap' = Without(heap, filtered.block)
    /\ FailsWith([block |-> NULL, count |-> filtered.count])
    /\ UNCHANGED table

ProjectCopies ==
    /\ pc = "project" /\ Sql.columns # <<>> /\ KnownColumns
    /\ IF filtered.count = 0
       THEN UNCHANGED <<heap, result>>
       ELSE \E b \in Unused :
                /\ heap' = With(heap, b, Projection(Schema, Sql.columns, RowsIn(filtered)))
                /\ result' = [block |-> b, count |-> filtered.count]
    /\ Goto("drop")
    /\ UNCHANGED <<full, filtered>>

DropFiltered ==
    /\ pc = "drop"
    /\ heap' = Without(heap, filtered.block)
    /\ filtered' = EmptyList
    /\ Goto("print")
    /\ UNCHANGED <<full, result>>

\* print_select_result widens each column row by row, the names first.
Wider(widths, row) ==
    [i \in DOMAIN widths |->
        IF Len(FieldText(row[i])) > widths[i] THEN Len(FieldText(row[i])) ELSE widths[i]]
PrintedWidths(header, rows) ==
    FoldLeft(Wider, [i \in DOMAIN header |-> Len(header[i])], rows)

\* print_select_result and free_execution_result in run_statement.
PrintResult ==
    /\ pc = "print"
    /\ heap' = Without(heap, result.block)
    /\ LET header == Header(Schema, Sql.columns)
       IN  Shows(Shown(header, RowsIn(result), PrintedWidths(header, RowsIn(result))))
    /\ UNCHANGED table

-----------------------------------------------------------------------------
Finished == (pc = "stopped" \/ (pc = "ready" /\ Len(script) = MaxStatements)) /\ UNCHANGED vars

Next ==
    \/ NextStatement \/ RejectStatement \/ ExecuteInsert \/ AppendFails \/ BeginSelect
    \/ ReadRow \/ ReadFails \/ ReadEnds
    \/ FilterMoves \/ FilterFails \/ FilterCopies \/ ReleaseFull
    \/ ProjectMoves \/ UnknownColumn \/ ProjectFails \/ ProjectCopies \/ DropFiltered
    \/ PrintResult \/ ReportFailure
    \/ Finished

Spec == Init /\ [][Next]_vars

\* One process, no waiting: it goes on while it has a step.
FairSpec == Spec /\ WF_vars(Next)

-----------------------------------------------------------------------------
(* Properties *)

List == [block : Blocks \cup {NULL}, count : Nat]

\* Every variable has its type.
TypeOK ==
    /\ interactive \in BOOLEAN
    /\ script \in Seq(Statements)
    /\ pc \in {"ready", "execute", "read", "filter", "release", "project", "drop", "print",
              "failed", "stopped"}
    /\ DOMAIN heap \subseteq Blocks
    /\ full \in List /\ filtered \in List /\ result \in List
    /\ failures \subseteq Nat

\* The live blocks are exactly the ones a list owns, each owned once, and none is
\* left between statements or when execute_command has failed: nothing leaks or is
\* freed twice on any path through the early returns of a SELECT, though
\* run_statement frees no result that failed (main.c:879-886), nor is there
\* anything to free for a caller that does (executor.c:41-44).
MemoryOwned ==
    /\ DOMAIN heap = {full.block, filtered.block, result.block} \ {NULL}
    /\ full.block # NULL => full.block \notin {filtered.block, result.block}
    /\ filtered.block # NULL => filtered.block # result.block
    /\ pc \in {"ready", "execute", "failed", "stopped"} => DOMAIN heap = {}

\* A list that may be read, by the filter, the projection or the printing, counts
\* no rows that its block does not hold, and owns no block without rows.  The one
\* list that breaks this is the result of a SELECT whose calloc failed: it counts
\* rows and has no block (executor.c:415-425), and run_statement never reads it.
Fits(list) == IF list.block = NULL THEN list.count = 0
              ELSE list.count \in 1..Len(heap[list.block])
InBounds == Fits(full) /\ Fits(filtered) /\ (pc # "failed" => Fits(result))

\* Which lists are empty at each place: what makes MemoryOwned inductive.
Phases ==
    /\ pc \notin {"read", "filter", "release"} => full = EmptyList
    /\ pc \notin {"release", "project", "drop"} => filtered = EmptyList
    /\ pc \notin {"drop", "print", "failed"} => result = EmptyList

\* The steps of executor.c amount to the meaning of the statements: the same
\* output, table and failures as if each statement were one step.
SessionSpec == Session!Spec

\* A batch or a session comes to its end.
RunEnds == <>(pc = "stopped" \/ (pc = "ready" /\ Len(script) = MaxStatements))
=============================================================================
