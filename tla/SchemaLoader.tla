----------------------------- MODULE SchemaLoader -----------------------------
(***************************************************************************)
(* load_schema of schema_manager.c: the lines of a schema file become the  *)
(* columns of a table, or the file is refused at the first line that is    *)
(* no column.  The file is a text without NUL bytes.                       *)
(***************************************************************************)
EXTENDS Models, CsvCodec

CONSTANTS
    LINE_SIZE,      \* size of the line buffer, NUL included
    TypeWords       \* how the types "int" and "text" are spelled

ASSUME LoaderConstants ==
    /\ LINE_SIZE \in Nat /\ LINE_SIZE > 2
    /\ DOMAIN TypeWords = {"int", "text"} /\ TypeWords["int"] # TypeWords["text"]
    /\ \A type \in {"int", "text"} : TypeWords[type] # <<>>

VARIABLES
    content,    \* the bytes of schema/<table>.schema
    offset,     \* bytes read of it
    schema,     \* *out_schema
    load        \* "idle", "reading", or how load_schema returned: "loaded",
                \* "refused", or "failed" when the file cannot be opened or read

loaderVars == <<content, offset, schema, load>>

LoaderInit ==
    /\ offset = 0
    /\ schema = <<>>
    /\ load = "idle"

\* fopen, of a file that may not be there
OpenSchema(found) ==
    /\ load = "idle"
    /\ load' = IF found THEN "reading" ELSE "failed"
    /\ UNCHANGED <<content, offset, schema>>

-----------------------------------------------------------------------------
\* fgets: up to and with the next newline, as much as the buffer takes.
Newlines == {i \in (offset + 1)..Len(content) : content[i] = NL}
ChunkEnd == Min(Newlines \cup {Len(content), offset + LINE_SIZE - 1})
Chunk == SubSeq(content, offset + 1, ChunkEnd)

\* feof is set when fgets met the end before its buffer was full.
TooLongAtEof == NL \notin Range(Chunk)      \* a slip: feof is not asked
TooLong == NL \notin Range(Chunk) /\ Len(Chunk) = LINE_SIZE - 1

\* trim_in_place
Trim(t) ==
    LET kept == {i \in DOMAIN t : t[i] \notin WhiteSpace}
    IN  IF kept = {} THEN <<>> ELSE SubSeq(t, Min(kept), Max(kept))

Colons(t) == {i \in DOMAIN t : t[i] = ":"}
NamePart(t) == Trim(SubSeq(t, 1, Min(Colons(t)) - 1))
TypePart(t) == Trim(SubSeq(t, Min(Colons(t)) + 1, Len(t)))

TypeOf(word) == CHOOSE type \in {"int", "text"} : TypeWords[type] = word
IsType(word) == \E type \in {"int", "text"} : TypeWords[type] = word

Fgets ==
    /\ load = "reading" /\ offset < Len(content)
    /\ offset' = ChunkEnd
    /\ UNCHANGED content

SkipBlank ==
    /\ Fgets
    /\ ~TooLong /\ Trim(Chunk) = <<>>
    /\ UNCHANGED <<schema, load>>

\* The checks of a line, in the order of the code.
IsColumnLine(t) ==
    /\ Cardinality(Colons(t)) = 1
    /\ NamePart(t) # <<>> /\ TypePart(t) # <<>>
    /\ Len(NamePart(t)) < MAX_NAME_LENGTH
    /\ Len(schema) < MAX_COLUMNS
    /\ IsType(TypePart(t))

\* The name is compared with no other: two columns may have the same one.
ReadColumn ==
    /\ Fgets
    /\ ~TooLong /\ Trim(Chunk) # <<>> /\ IsColumnLine(Chunk)
    /\ schema' = Append(schema, [name |-> NamePart(Chunk), type |-> TypeOf(TypePart(Chunk))])
    /\ UNCHANGED load

\* Every refusal closes the file; the columns so far stay in *out_schema.
RefuseLine ==
    /\ Fgets
    /\ TooLong \/ (Trim(Chunk) # <<>> /\ ~IsColumnLine(Chunk))
    /\ load' = "refused"
    /\ UNCHANGED schema

ReadFails ==
    /\ load = "reading"
    /\ load' = "failed"
    /\ UNCHANGED <<content, offset, schema>>

\* A file without a column is no schema.
ReadEnds ==
    /\ load = "reading" /\ offset = Len(content)
    /\ load' = IF schema = <<>> THEN "refused" ELSE "loaded"
    /\ UNCHANGED <<content, offset, schema>>

Loads == SkipBlank \/ ReadColumn \/ RefuseLine \/ ReadFails \/ ReadEnds

-----------------------------------------------------------------------------
(* What a schema file says: its pieces between the newlines, the last one       *)
(* perhaps empty.                                                               *)

WithLetter(pieces, byte) ==
    IF byte = NL THEN Append(pieces, <<>>)
    ELSE [pieces EXCEPT ![Len(pieces)] = Append(@, byte)]
Pieces(t) == FoldLeft(WithLetter, <<<<>>>>, t)

\* name : type, with blanks around both; the reading of a piece that has this form.
Describes(p, column) ==
    \E i \in DOMAIN p :
        /\ p[i] = ":" /\ \A j \in DOMAIN p \ {i} : p[j] # ":"
        /\ column.name = Trim(SubSeq(p, 1, i - 1))
        /\ TypeWords[column.type] = Trim(SubSeq(p, i + 1, Len(p)))
Names(p) == UNION {{SubSeq(p, i, j) : j \in DOMAIN p} : i \in DOMAIN p}
ColumnsOf(p) ==
    {c \in [name : {n \in Names(p) : Len(n) \in 1..(MAX_NAME_LENGTH - 1)}, type : {"int", "text"}] :
        Describes(p, c)}

\* Every piece that is not blank is a column.
IsBlank(p) == Range(p) \subseteq WhiteSpace
WithColumn(columns, p) ==
    IF IsBlank(p) THEN columns ELSE Append(columns, CHOOSE c \in ColumnsOf(p) : TRUE)
SchemaOf(t) == FoldLeft(WithColumn, <<>>, Pieces(t))

\* A line holds fewer than LINE_SIZE - 1 bytes, newline aside, the last one too.
WellFormed(t) ==
    /\ \A k \in DOMAIN Pieces(t) :
           LET p == Pieces(t)[k] IN Len(p) < LINE_SIZE - 1 /\ (IsBlank(p) \/ ColumnsOf(p) # {})
    /\ Len(SchemaOf(t)) \in 1..MAX_COLUMNS
=============================================================================
