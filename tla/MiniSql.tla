------------------------------- MODULE MiniSql -------------------------------
(***************************************************************************)
(* The program in several processes of one directory, while its user edits *)
(* the schema file of a table that has rows.  No process keeps a schema:   *)
(* each statement loads it, and then appends to the data file or reads it  *)
(* under what it has loaded (execute_insert_command,                       *)
(* execute_select_command).                                                *)
(*                                                                         *)
(* append_row and read_all_rows are one step each, which is what           *)
(* LineTableSpec of StorageProperties says of them for short lines; how a  *)
(* text becomes a statement is in module Statement.                        *)
(***************************************************************************)
EXTENDS Sql

CONSTANTS
    Sessions,       \* the processes
    Statements,     \* what they may be asked
    FirstSchema, FirstRows,     \* the table at the start
    Schemas,        \* what the user may make of the schema file
    MaxEdits, MaxRows           \* bounds on the edits and on the file

\* An edit that keeps the old rows: columns get other names, and int becomes text.
Widens(old, new) ==
    /\ Len(new) = Len(old)
    /\ \A i \in DOMAIN old : new[i].type \in {old[i].type, "text"}

Inserts == {FirstRows[k] : k \in DOMAIN FirstRows}
           \cup {y.values : y \in {x \in Statements : x.kind = "insert"}}
StoredUnder(schema, row) == Storable(Types(schema), row)

\* Rows and literals are values, and no row is written as a blank line.
ASSUME MiniSqlConstants ==
    /\ FirstSchema \in Schemas
    /\ \A t \in Schemas : /\ Len(t) \in Nat /\ DOMAIN t = 1..Len(t)
                          /\ \A i \in DOMAIN t : t[i].type \in ColumnTypes
    /\ Inserts \subseteq Seq(Cells)
    /\ \A x \in Statements : x.kind = "select" /\ x.where # <<>> => x.where[2] \in Cells
    /\ FirstRows \in Seq(Inserts)
    /\ \A k \in DOMAIN FirstRows : StoredUnder(FirstSchema, FirstRows[k])
    /\ \A t \in Schemas : \A r \in Inserts : StoredUnder(t, r) => Serialize(r) # <<>>

VARIABLES
    schemas,    \* the schema files there have been; the last one is there now
    file,       \* the lines of the data file
    added,      \* history: the texts of the fields of the row of each line
    pc,         \* pc[s]: "idle", "load" or "run"
    sql,        \* sql[s]: the statement of s
    loaded,     \* loaded[s]: which schema it has loaded, 0 for none
    began,      \* history: how many schemas and lines there were when it began
    answer      \* answer[s]: what it came to

vars == <<schemas, file, added, pc, sql, loaded, began, answer>>

Answer(status, rows, quiet) == [status |-> status, rows |-> rows, quiet |-> quiet]
NoAnswer == Answer("none", <<>>, TRUE)

Init ==
    /\ schemas = <<FirstSchema>>
    /\ file = [k \in DOMAIN FirstRows |-> Serialize(FirstRows[k])]
    /\ added = [k \in DOMAIN FirstRows |-> FieldTexts(FirstRows[k])]
    /\ pc = [s \in Sessions |-> "idle"]
    /\ sql = [s \in Sessions |-> BadSql]
    /\ loaded = [s \in Sessions |-> 0]
    /\ began = [s \in Sessions |-> [schemas |-> 1, lines |-> 0]]
    /\ answer = [s \in Sessions |-> NoAnswer]

-----------------------------------------------------------------------------
Quiet(s) == began[s].schemas = Len(schemas)     \* no edit since it began

Begin(s) ==
    /\ pc[s] = "idle"
    /\ \E x \in Statements :
        /\ x.kind = "insert" => Len(file) < MaxRows
        /\ sql' = [sql EXCEPT ![s] = x]
    /\ pc' = [pc EXCEPT ![s] = "load"]
    /\ began' = [began EXCEPT ![s] = [schemas |-> Len(schemas), lines |-> Len(file)]]
    /\ answer' = [answer EXCEPT ![s] = NoAnswer]
    /\ UNCHANGED <<schemas, file, added, loaded>>

EndsWithSchema(s, status, rows) ==  \* a slip: the schema is kept for later
    /\ pc' = [pc EXCEPT ![s] = "idle"]
    /\ answer' = [answer EXCEPT ![s] = Answer(status, rows, Quiet(s))]
    /\ UNCHANGED <<schemas, sql, loaded, began>>
Ends(s, status, rows) ==
    /\ pc' = [pc EXCEPT ![s] = "idle"]
    /\ loaded' = [loaded EXCEPT ![s] = 0]
    /\ answer' = [answer EXCEPT ![s] = Answer(status, rows, Quiet(s))]
    /\ UNCHANGED <<schemas, sql, began>>

\* load_schema: nothing is kept of what an earlier statement loaded.
LoadSchemaOnce(s) ==                \* a slip: the first schema is kept for good
    /\ pc[s] = "load"
    /\ pc' = [pc EXCEPT ![s] = "run"]
    /\ loaded' = [loaded EXCEPT ![s] = 1]
    /\ UNCHANGED <<schemas, file, added, sql, began, answer>>
LoadSchema(s) ==
    /\ pc[s] = "load"
    /\ pc' = [pc EXCEPT ![s] = "run"]
    /\ loaded' = [loaded EXCEPT ![s] = Len(schemas)]
    /\ UNCHANGED <<schemas, file, added, sql, began, answer>>

\* The file is away while it is being replaced, or cannot be read.
LoadFails(s) ==
    /\ pc[s] = "load"
    /\ Ends(s, "failed", <<>>)
    /\ UNCHANGED <<file, added>>

Runs(s, kind) == pc[s] = "run" /\ sql[s].kind = kind
Schema(s) == schemas[loaded[s]]
AllReadable(schema) == \A k \in DOMAIN file : Readable(Types(schema), file[k])

Rejects(s) ==
    /\ \/ Runs(s, "insert") /\ ~ValidInsert(Schema(s), sql[s])
       \/ Runs(s, "select") /\ AllReadable(Schema(s)) /\ ~ValidSelect(Schema(s), sql[s])
    /\ Ends(s, "rejected", <<>>)
    /\ UNCHANGED <<file, added>>

AddsRow(s) ==
    /\ file' = Append(file, Serialize(sql[s].values))
    /\ added' = Append(added, FieldTexts(sql[s].values))

AppendRow(s) ==
    /\ Runs(s, "insert") /\ ValidInsert(Schema(s), sql[s])
    /\ Ends(s, "inserted", <<>>)
    /\ AddsRow(s)

\* Nothing was written, or fclose reports an error after the whole line.
AppendFails(s) ==
    /\ Runs(s, "insert") /\ ValidInsert(Schema(s), sql[s])
    /\ Ends(s, "failed", <<>>)
    /\ AddsRow(s) \/ UNCHANGED <<file, added>>

\* A row that does not parse under the schema ends the whole SELECT.
MeetsBadRow(s) ==
    /\ Runs(s, "select") /\ ~AllReadable(Schema(s))
    /\ Ends(s, "unreadable", <<>>)
    /\ UNCHANGED <<file, added>>

ReadRows(s) ==
    /\ Runs(s, "select") /\ AllReadable(Schema(s)) /\ ValidSelect(Schema(s), sql[s])
    /\ Ends(s, "shown",
            SelectShown(Schema(s), sql[s], RowsOf(Types(Schema(s)), file)).rows)
    /\ UNCHANGED <<file, added>>

\* A read error, or no memory for the rows.
ReadFails(s) ==
    /\ Runs(s, "select")
    /\ Ends(s, "failed", <<>>)
    /\ UNCHANGED <<file, added>>

\* The process is killed, and the program started again.
Dies(s) ==
    /\ pc[s] # "idle"
    /\ Ends(s, "none", <<>>)
    /\ UNCHANGED <<file, added>>

EditSchema ==
    /\ Len(schemas) <= MaxEdits
    /\ \E new \in Schemas \ {Last(schemas)} :
        /\ Widens(Last(schemas), new)
        /\ schemas' = Append(schemas, new)
    /\ UNCHANGED <<file, added, pc, sql, loaded, began, answer>>

Next ==
    \/ \E s \in Sessions :
        \/ Begin(s) \/ LoadSchema(s) \/ LoadFails(s)
        \/ Rejects(s) \/ AppendRow(s) \/ AppendFails(s)
        \/ MeetsBadRow(s) \/ ReadRows(s) \/ ReadFails(s) \/ Dies(s)
    \/ EditSchema

Spec == Init /\ [][Next]_vars

-----------------------------------------------------------------------------
(* Properties *)

\* Every variable has its type; a schema is held exactly while a statement runs.
TypeOK ==
    /\ schemas \in Seq(Schemas) /\ schemas # <<>>
    /\ file \in Seq(Line)
    /\ added \in Seq(Seq(Seq(Bytes)))
    /\ Len(added) = Len(file)
    /\ pc \in [Sessions -> {"idle", "load", "run"}]
    /\ sql \in [Sessions -> Statements \cup {BadSql}]
    /\ loaded \in [Sessions -> Nat]
    /\ began \in [Sessions -> [schemas : Nat, lines : Nat]]
    /\ \A s \in Sessions :
        /\ loaded[s] \in 0..Len(schemas)
        /\ began[s].schemas \in 1..Len(schemas) /\ began[s].lines \in 0..Len(file)
        /\ pc[s] = "run" <=> loaded[s] # 0
        /\ answer[s].status \in
            {"none", "inserted", "shown", "rejected", "unreadable", "failed"}

\* The rows stored under older schemas, and by statements that are still running
\* under them, never make the table unreadable: a SELECT can only stop at a row
\* when the schema file was edited after the SELECT began
\* (executor.c:293-318, 345-370; schema_manager.c:188).
OnlyEditsSpoilSelects ==
    \A s \in Sessions : answer[s].status = "unreadable" => ~answer[s].quiet

\* A SELECT during which no edit was made is valid under the schema file there is,
\* and shows, whatever schema each row was stored under and whoever stored it, the
\* texts that were inserted, in order and whole: all rows there were when it began,
\* and perhaps later ones (executor.c:331-443; storage.c:296-323, 421-449).
TextWhere(where) == IF where = <<>> THEN <<>> ELSE <<where[1], FieldText(where[2])>>
Expected(schema, x, n) ==
    Projection(schema, x.columns, Matching(schema, TextWhere(x.where), SubSeq(added, 1, n)))
RowsAreShownAsInserted ==
    \A s \in Sessions : answer[s].status = "shown" /\ answer[s].quiet =>
        /\ ValidSelect(schemas[began[s].schemas], sql[s])
        /\ \E n \in began[s].lines..Len(added) :
            [k \in DOMAIN answer[s].rows |-> FieldTexts(answer[s].rows[k])]
                = Expected(schemas[began[s].schemas], sql[s], n)
=============================================================================
