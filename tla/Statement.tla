------------------------------ MODULE Statement ------------------------------
(***************************************************************************)
(* One statement from its text to what is asked of the data file:          *)
(* run_statement parses it; execute_command loads the schema of its table, *)
(* checks its values, casts each raw literal to the type of its column and *)
(* looks its columns up.  The plan is the row given to append_row, or the  *)
(* condition and the columns a SELECT applies to the rows it reads.        *)
(***************************************************************************)
EXTENDS Parser, SchemaLoader, Sql

CONSTANTS
    TableName,      \* the table that has a schema file
    Inputs          \* [text |-> a statement, content |-> a schema file]

ASSUME StatementConstants ==
    \A input \in Inputs : input.text \in Seq(Bytes) /\ input.content \in Seq(Bytes)

VARIABLES
    cast,       \* the values cast so far
    outcome,    \* "none"; then "planned", "rejected", or "failed" by a library call
    plan        \* what is asked of the data file

vars == <<parserVars, loaderVars, cast, outcome, plan>>

Init ==
    /\ \E input \in Inputs : text = input.text /\ content = input.content
    /\ ParserInit
    /\ LoaderInit
    /\ cast = <<>>
    /\ outcome = "none"
    /\ plan = BadSql

Parses == ParserNext /\ UNCHANGED <<loaderVars, cast, outcome, plan>>

Opens ==
    /\ pc = "accepted"
    /\ \E found \in {FALSE, command.table = TableName} : OpenSchema(found)
    /\ UNCHANGED <<parserVars, cast, outcome, plan>>

LoadsSchema == Loads /\ UNCHANGED <<parserVars, cast, outcome, plan>>

-----------------------------------------------------------------------------
Executing(kind) == outcome = "none" /\ load = "loaded" /\ command.kind = kind

Outcome(result) == outcome' = result /\ UNCHANGED <<parserVars, loaderVars, cast>>
Plans(sql) == plan' = sql /\ Outcome("planned")
Rejects == Outcome("rejected") /\ UNCHANGED plan

\* parse_sql or load_schema has returned an error.
NotParsed ==
    /\ outcome = "none" /\ pc \in {"rejected", "failed"}
    /\ Outcome(pc) /\ UNCHANGED plan
NotLoaded ==
    /\ outcome = "none" /\ load \in {"refused", "failed"}
    /\ Outcome(IF load = "refused" THEN "rejected" ELSE "failed") /\ UNCHANGED plan

\* cast_value of a raw literal: parse_int_token and parse_string_token.
IsQuoted(raw) ==
    /\ Len(raw) >= 2
    /\ {i \in DOMAIN raw : raw[i] = QUOTE} = {1, Len(raw)}
    /\ Len(raw) - 2 < MAX_VALUE_LENGTH
CastsUnquoted(type, raw) == type = "int" => IsInt(raw)      \* a slip: quotes not required
Casts(type, raw) == IF type = "int" THEN IsInt(raw) ELSE IsQuoted(raw)
ValueOf(type, raw) ==
    IF type = "int" THEN IntV(NumeralValue(raw)) ELSE TextV(SubSeq(raw, 2, Len(raw) - 1))

\* validate_values compares the numbers.
CountDiffers ==
    /\ Executing("insert") /\ Len(command.values) # Len(schema)
    /\ Rejects

\* build_storage_row_from_insert, value by value.
NextValue == Len(cast) + 1
CastValue ==
    /\ Executing("insert") /\ Len(command.values) = Len(schema) /\ NextValue <= Len(schema)
    /\ Casts(schema[NextValue].type, command.values[NextValue])
    /\ cast' = Append(cast, ValueOf(schema[NextValue].type, command.values[NextValue]))
    /\ UNCHANGED <<parserVars, loaderVars, outcome, plan>>
CastFails ==
    /\ Executing("insert") /\ Len(command.values) = Len(schema) /\ NextValue <= Len(schema)
    /\ ~Casts(schema[NextValue].type, command.values[NextValue])
    /\ Rejects

\* append_row checks the row again before it opens the file.
PlanInsert ==
    /\ Executing("insert") /\ Len(cast) = Len(schema) /\ Len(command.values) = Len(schema)
    /\ IF Storable(Types(schema), cast)
       THEN Plans(InsertSql(command.table, cast))
       ELSE Rejects

\* apply_select_where_filter, then the lookup of the selected columns.
KnownWhere ==
    /\ IsColumn(schema, command.where[1])
    /\ Casts(schema[ColumnIndex(schema, command.where[1])].type, command.where[2])
Where ==
    IF command.where = <<>> THEN <<>>
    ELSE <<command.where[1],
           ValueOf(schema[ColumnIndex(schema, command.where[1])].type, command.where[2])>>
KnownColumns == \A i \in DOMAIN command.columns : IsColumn(schema, command.columns[i])
PlanSelect ==
    /\ Executing("select")
    /\ command.where # <<>> => KnownWhere
    /\ command.columns = Star \/ KnownColumns
    /\ Plans(SelectSql(command.table, IF command.columns = Star THEN <<>> ELSE command.columns,
                       Where))
RejectSelect ==
    /\ Executing("select")
    /\ \/ command.where # <<>> /\ ~KnownWhere
       \/ command.columns # Star /\ ~KnownColumns
    /\ Rejects

Over == outcome # "none" /\ UNCHANGED vars

Next ==
    \/ Parses \/ Opens \/ LoadsSchema \/ NotParsed \/ NotLoaded
    \/ CountDiffers \/ CastValue \/ CastFails \/ PlanInsert \/ PlanSelect \/ RejectSelect
    \/ Over

Spec == Init /\ [][Next]_vars

-----------------------------------------------------------------------------
(* Properties *)

Places == {"scan", "statement", "accepted", "rejected", "failed"}
          \cup {m[1] : m \in Moves} \cup {m[3] : m \in Moves} \cup DOMAIN After
Raws == {t \in Seq(Bytes) : Len(t) < TOKEN_SIZE}
Commands == [kind : {"none", "insert", "select"}, table : Raws, columns : Seq(Raws),
             where : Seq(Raws), values : Seq(Raws)]
Values == [type : {"int"}, int : INT_MIN..INT_MAX] \cup [type : {"text"}, text : Seq(Bytes)]

\* Every variable has its type.
TypeOK ==
    /\ text \in Seq(Bytes) /\ at \in 1..(Len(text) + 1)
    /\ tokens \in Seq([type : {"identifier", "string", "number"} \cup Symbols, text : Raws])
    /\ index \in 0..Len(tokens)
    /\ pc \in Places
    /\ draft \in Commands /\ command \in Commands
    /\ offset \in 0..Len(content)
    /\ schema \in Seq([name : Seq(Bytes), type : {"int", "text"}])
    /\ load \in {"idle", "reading", "loaded", "refused", "failed"}
    /\ cast \in Seq(Values)
    /\ outcome \in {"none", "planned", "rejected", "failed"}

\* No text is longer than the array it is copied into, and no list than its array
\* of MAX_COLUMNS, whatever the statement and the schema file hold: the sizes are
\* checked before each copy, in the parser, the tokenizer and load_schema
\* (parser.c:102, 222, 313; tokenizer.c:49; schema_manager.c:303-327).
Fits(c) ==
    /\ Len(c.table) < MAX_NAME_LENGTH
    /\ Len(c.columns) <= MAX_COLUMNS
    /\ \A i \in DOMAIN c.columns : Len(c.columns[i]) < MAX_NAME_LENGTH
    /\ Len(c.values) <= MAX_COLUMNS
    /\ \A i \in DOMAIN c.values : Len(c.values[i]) < MAX_VALUE_LENGTH
    /\ c.where # <<>> => Len(c.where[1]) < MAX_NAME_LENGTH
    /\ Len(c.where) = 2 => Len(c.where[2]) < MAX_VALUE_LENGTH
ArraysHold ==
    /\ Fits(draft) /\ Fits(command)
    /\ \A i \in DOMAIN tokens : Len(tokens[i].text) < TOKEN_SIZE
    /\ Len(schema) <= MAX_COLUMNS
    /\ \A i \in DOMAIN schema : Len(schema[i].name) < MAX_NAME_LENGTH
    /\ Len(cast) <= Len(schema)

\* The parser accepts exactly the sentences of the grammar, for any text: the
\* command it hands over is the only one the tokens can stand for, and a rejected
\* text is no sentence.  The caller's command stays empty otherwise
\* (parser.c:440-526, 578-651).
Sentence(t) == LET scanned == Tokenize(t) IN IF scanned.ok THEN Meaning(scanned.tokens) ELSE {}
SentencesAreAccepted ==
    /\ pc = "accepted" => Sentence(text) = {command}
    /\ pc = "rejected" => Sentence(text) = {}
    /\ pc # "accepted" => command = NoCommand

\* load_schema, which reads through a small buffer, sees the columns a reader of
\* the whole file sees, and refuses exactly the files that are no list of columns
\* (schema_manager.c:188-371).
SchemaIsTheText ==
    /\ load = "loaded" => WellFormed(content) /\ schema = SchemaOf(content)
    /\ load = "refused" => ~WellFormed(content)

\* What a raw literal means, before there is a schema.
LiteralOf(raw) ==
    IF raw # <<>> /\ Head(raw) = QUOTE THEN TextV(SubSeq(raw, 2, Len(raw) - 1))
    ELSE IF IsNumeral(raw) THEN IntV(NumeralValue(raw))
    ELSE [type |-> "name"]
SqlOf(c) ==
    IF c.kind = "insert"
    THEN InsertSql(c.table, [i \in DOMAIN c.values |-> LiteralOf(c.values[i])])
    ELSE SelectSql(c.table, IF c.columns = Star THEN <<>> ELSE c.columns,
                   IF c.where = <<>> THEN <<>> ELSE <<c.where[1], LiteralOf(c.where[2])>>)

\* Through parser, schema and casts, what is asked of the data file is the meaning
\* of the text under the schema file, and a statement is refused only if its text
\* is no sentence, its schema is no schema, or it is not valid under it: no order
\* of the checks lets a wrong one through (main.c:853-905, executor.c:137-360).
PlanIsTheMeaning ==
    LET Good(c) == c.table = TableName /\ WellFormed(content)
                   /\ Valid(SchemaOf(content), SqlOf(c))
    IN  /\ outcome = "planned" =>
            \A c \in {command} : Sentence(text) = {c} /\ Good(c) /\ plan = SqlOf(c)
        /\ outcome = "rejected" => \A c \in Sentence(text) : ~Good(c)
=============================================================================
