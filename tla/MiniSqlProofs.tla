---------------------------- MODULE MiniSqlProofs ----------------------------
(***************************************************************************)
(* For any sessions, statements, rows and schemas, and any number of edits:*)
(* a SELECT is stopped by a stored row only when the schema file was edited*)
(* while it ran, and a SELECT that no edit overlaps shows what was inserted.*)
(*                                                                         *)
(* The argument: the schemas widen each other in order, each line was      *)
(* stored under one of them, and what a running statement has loaded is no *)
(* older than the schema at its beginning.  So when nothing was edited it  *)
(* reads under the widest schema of all, under which every line is read    *)
(* with the texts it was written from (CodecProofs); and WHERE and the     *)
(* choice of columns do to typed rows what they do to their texts.         *)
(***************************************************************************)
EXTENDS MiniSql, CodecProofs

InsertLines == {Serialize(row) : row \in Inserts}

Typed ==
    /\ schemas \in Seq(Schemas) /\ Len(schemas) \in Nat \ {0}
    /\ file \in Seq(InsertLines)
    /\ pc \in [Sessions -> {"idle", "load", "run"}]
    /\ loaded \in [Sessions -> Nat]
    /\ began \in [Sessions -> [schemas : Nat, lines : Nat]]
    /\ DOMAIN answer = Sessions

SchemasWiden == \A v, w \in 1..Len(schemas) : v <= w => Widens(schemas[v], schemas[w])

StoredLine(line, texts) ==
    \E row \in Inserts, v \in 1..Len(schemas) :
        line = Serialize(row) /\ texts = FieldTexts(row) /\ StoredUnder(schemas[v], row)
LinesWereStored == \A k \in 1..Len(file) : StoredLine(file[k], added[k])

StatementsAreFresh ==
    \A s \in Sessions :
        /\ pc[s] # "idle" => sql[s] \in Statements
        /\ began[s].schemas <= Len(schemas)
        /\ pc[s] = "run" => loaded[s] \in began[s].schemas..Len(schemas) /\ loaded[s] # 0

\* What the SELECT of s may show.
Correct(s, rows) ==
    /\ ValidSelect(schemas[began[s].schemas], sql[s])
    /\ \E n \in began[s].lines..Len(added) :
        [k \in DOMAIN rows |-> FieldTexts(rows[k])]
            = Expected(schemas[began[s].schemas], sql[s], n)

IInv ==
    /\ Typed
    /\ TypeOK
    /\ SchemasWiden
    /\ LinesWereStored
    /\ StatementsAreFresh
    /\ OnlyEditsSpoilSelects
    /\ RowsAreShownAsInserted

-----------------------------------------------------------------------------
(* Edits *)

\* Keeping the types is an edit, and two edits in a row are one.
LEMMA WidensItself == ASSUME NEW t PROVE Widens(t, t)
BY DEF Widens

LEMMA WidensFurther ==
    ASSUME NEW t, NEW u, NEW v, Widens(t, u), Widens(u, v),
           DOMAIN t = 1..Len(t), DOMAIN u = 1..Len(u)
    PROVE  Widens(t, v)
BY DEF Widens

\* Kinds of rows: what is read under a schema.
TypedRows(schema) ==
    {r \in Seq(ReadCells) : /\ Len(r) = Len(schema)
                            /\ \A i \in 1..Len(schema) : r[i].type = schema[i].type}

LEMMA TypesOf ==
    ASSUME NEW t \in Schemas
    PROVE  /\ Types(t) \in Seq(ColumnTypes) /\ Len(Types(t)) = Len(t) /\ Len(t) \in Nat
           /\ DOMAIN t = 1..Len(t)
           /\ \A i \in 1..Len(t) : Types(t)[i] = t[i].type
<1>1. /\ Len(t) \in Nat /\ DOMAIN t = 1..Len(t)
      /\ \A i \in 1..Len(t) : t[i].type \in ColumnTypes
  BY MiniSqlConstants
<1> DEFINE types == Types(t)
<1>2. types = [i \in 1..Len(t) |-> types[i]] /\ \A i \in 1..Len(t) : types[i] = t[i].type
  BY <1>1 DEF Types
<1> HIDE DEF types
<1>3. types \in Seq(ColumnTypes) /\ Len(types) = Len(t)
  BY <1>1, <1>2, MappedSeq
<1> QED  BY <1>1, <1>2, <1>3 DEF types

\* A line that was stored is read with its texts under every later schema.
LEMMA StoredLineIsRead ==
    ASSUME NEW old \in Schemas, NEW new \in Schemas, NEW row \in Inserts,
           StoredUnder(old, row), Widens(old, new)
    PROVE  LET line == Serialize(row)
               read == ParsedRow(Types(new), StripLineEndings(line))
           IN  /\ Readable(Types(new), line) /\ ~Blank(line)
               /\ read \in TypedRows(new) /\ FieldTexts(read) = FieldTexts(row)
<1>1. /\ row \in Seq(Cells) /\ Serialize(row) # <<>>
      /\ ValidRow(Types(old), row) /\ Serialize(row) \in Line
  BY MiniSqlConstants DEF StoredUnder, Storable
<1>2. /\ Types(old) \in Seq(ColumnTypes) /\ Types(new) \in Seq(ColumnTypes)
      /\ Len(Types(new)) = Len(new) /\ \A i \in 1..Len(new) : Types(new)[i] = new[i].type
  BY TypesOf
<1>3. TypesWiden(Types(old), Types(new))
  BY TypesOf DEF Widens, TypesWiden
<1> DEFINE line == Serialize(row)
<1>4. /\ ~Blank(line) /\ StripLineEndings(line) = line /\ Parsable(Types(new), line)
      /\ ParsedRow(Types(new), line) \in Seq(ReadCells)
      /\ Len(ParsedRow(Types(new), line)) = Len(Types(new))
      /\ \A i \in 1..Len(Types(new)) : ParsedRow(Types(new), line)[i].type = Types(new)[i]
      /\ FieldTexts(ParsedRow(Types(new), line)) = FieldTexts(row)
  BY <1>1, <1>2, <1>3, ReadWider
<1>5. Len(line) < MAX_LINE_LENGTH
  <2>1. Len(line) \in Nat /\ Len(line) + 1 <= MAX_LINE_LENGTH
    BY <1>1 DEF Line
  <2> QED  BY <2>1, CodecConstants
<1>6. Readable(Types(new), line)
  BY <1>4, <1>5, Zenon DEF Readable
<1>7. ParsedRow(Types(new), line) \in TypedRows(new)
  BY <1>2, <1>4 DEF TypedRows
<1> QED  BY <1>4, <1>6, <1>7, Zenon

\* Under the last schema every line can be read.
LEMMA LastSchemaReadsAll ==
    ASSUME Typed, SchemasWiden, LinesWereStored
    PROVE  AllReadable(schemas[Len(schemas)])
<1>0. DOMAIN file = 1..Len(file)
    BY DEF Typed
<1>1. SUFFICES ASSUME NEW k \in 1..Len(file)
               PROVE  Readable(Types(schemas[Len(schemas)]), file[k])
    BY <1>0, Zenon DEF AllReadable
<1>2. PICK row \in Inserts, v \in 1..Len(schemas) :
        file[k] = Serialize(row) /\ StoredUnder(schemas[v], row)
    BY DEF LinesWereStored, StoredLine
<1>3. v <= Len(schemas) /\ Len(schemas) \in 1..Len(schemas) /\ schemas \in Seq(Schemas)
    BY DEF Typed
<1>4. /\ schemas[v] \in Schemas /\ schemas[Len(schemas)] \in Schemas
      /\ Widens(schemas[v], schemas[Len(schemas)])
    BY <1>3 DEF SchemasWiden
<1> QED
    BY <1>2, <1>4, StoredLineIsRead

-----------------------------------------------------------------------------
(* The invariant *)

LEMMA InitInv == Init => IInv
<1> SUFFICES ASSUME Init PROVE IInv
    OBVIOUS
<1>1. /\ Len(schemas) = 1 /\ schemas[1] = FirstSchema /\ schemas \in Seq(Schemas)
    BY MiniSqlConstants DEF Init
<1> DEFINE n == Len(FirstRows)
<1>2. /\ n \in Nat /\ DOMAIN FirstRows = 1..n
      /\ \A k \in 1..n : /\ FirstRows[k] \in Inserts /\ FirstRows[k] \in Seq(Cells)
                         /\ StoredUnder(FirstSchema, FirstRows[k])
    BY MiniSqlConstants
<1>3. /\ file = [k \in 1..n |-> file[k]] /\ added = [k \in 1..n |-> added[k]]
      /\ \A k \in 1..n : /\ file[k] = Serialize(FirstRows[k])
                         /\ added[k] = FieldTexts(FirstRows[k])
    BY <1>2 DEF Init
<1>4. \A k \in 1..n : FieldTexts(FirstRows[k]) \in Seq(Seq(Bytes)) /\ Serialize(FirstRows[k]) \in Line
    BY <1>2, TypesOf, StoredTexts, MiniSqlConstants DEF StoredUnder
<1> HIDE DEF n
<1>5. /\ Len(file) = n /\ file \in Seq(InsertLines) /\ file \in Seq(Line)
      /\ Len(added) = n /\ added \in Seq(Seq(Seq(Bytes)))
  <2>1. file \in Seq(InsertLines) /\ Len(file) = n
    BY <1>2, <1>3, MappedSeq DEF InsertLines
  <2>2. file \in Seq(Line)
    BY <1>2, <1>3, <1>4, MappedSeq
  <2>3. added \in Seq(Seq(Seq(Bytes))) /\ Len(added) = n
    BY <1>2, <1>3, <1>4, MappedSeq
  <2> QED  BY <2>1, <2>2, <2>3
<1>6. Typed
    BY <1>1, <1>5 DEF Init, Typed
<1>7. TypeOK
    BY <1>1, <1>2, <1>5 DEF Init, TypeOK, NoAnswer, Answer
<1>8. SchemasWiden
    BY <1>1, WidensItself DEF SchemasWiden
<1>9. LinesWereStored
    BY <1>1, <1>2, <1>3, <1>5 DEF LinesWereStored, StoredLine
<1>10. StatementsAreFresh /\ OnlyEditsSpoilSelects /\ RowsAreShownAsInserted
    BY <1>1 DEF Init, StatementsAreFresh, OnlyEditsSpoilSelects, RowsAreShownAsInserted,
                NoAnswer, Answer
<1> QED
    BY <1>6, <1>7, <1>8, <1>9, <1>10 DEF IInv

\* What a step may do to the file.
Grows ==
    /\ file' \in Seq(InsertLines) /\ file' \in Seq(Line)
    /\ added' \in Seq(Seq(Seq(Bytes)))
    /\ Len(added') = Len(file') /\ Len(file) <= Len(file')
    /\ \A n \in 0..Len(added) : SubSeq(added', 1, n) = SubSeq(added, 1, n)

LEMMA NothingAdded == ASSUME IInv, UNCHANGED <<file, added>> PROVE Grows
BY DEF IInv, Typed, TypeOK, Grows

\* A right answer stays right.
LEMMA StaysCorrect ==
    ASSUME IInv, Grows, NEW s \in Sessions, NEW rows, Correct(s, rows),
           sql'[s] = sql[s], began'[s] = began[s],
           \A v \in 1..Len(schemas) : schemas'[v] = schemas[v]
    PROVE  Correct(s, rows)'
<1>1. PICK n \in began[s].lines..Len(added) :
        [k \in DOMAIN rows |-> FieldTexts(rows[k])] = Expected(schemas[began[s].schemas], sql[s], n)
  BY DEF Correct
<1>2. /\ began[s].schemas \in 1..Len(schemas) /\ began[s].lines \in Nat
      /\ Len(added) \in Nat /\ Len(added') \in Nat /\ Len(added) <= Len(added')
  BY DEF IInv, TypeOK, Grows
<1>3. schemas'[began'[s].schemas] = schemas[began[s].schemas]
  BY <1>2
<1>4. n \in 0..Len(added) /\ n \in began[s].lines..Len(added')
  BY <1>1, <1>2
<1>5. SubSeq(added', 1, n) = SubSeq(added, 1, n)
  BY <1>4 DEF Grows
<1>6. Expected(schemas[began[s].schemas], sql[s], n)'
        = Expected(schemas[began[s].schemas], sql[s], n)
  BY <1>3, <1>5 DEF Expected
<1> QED
  BY <1>1, <1>3, <1>4, <1>6 DEF Correct

LEMMA OthersStayCorrect ==
    ASSUME IInv, Grows, NEW s \in Sessions,
           answer'[s] = answer[s] \/ answer'[s].status # "shown",
           answer'[s] = answer[s] => sql'[s] = sql[s] /\ began'[s] = began[s],
           \A v \in 1..Len(schemas) : schemas'[v] = schemas[v],
           answer'[s].status = "shown", answer'[s].quiet
    PROVE  Correct(s, answer[s].rows)'
<1>1. answer'[s] = answer[s] /\ sql'[s] = sql[s] /\ began'[s] = began[s]
  OBVIOUS
<1>2. Correct(s, answer[s].rows)
  BY <1>1 DEF IInv, RowsAreShownAsInserted, Correct
<1>3. PICK rows : rows = answer[s].rows
  OBVIOUS
<1>4. Correct(s, rows)
  BY <1>2, <1>3
<1>5. Correct(s, rows)'
  BY <1>1, <1>4, StaysCorrect
<1> QED  BY <1>1, <1>3, <1>5 DEF Correct

Statuses == {"none", "inserted", "shown", "rejected", "unreadable", "failed"}

\* The end of a statement.
LEMMA EndKeepsInv ==
    ASSUME IInv, NEW s \in Sessions, NEW status \in Statuses, NEW rows, Ends(s, status, rows),
           status = "unreadable" => ~Quiet(s),
           status = "shown" /\ Quiet(s) => Correct(s, rows),
           Grows, LinesWereStored'
    PROVE  IInv'
<1>1. SchemasWiden' /\ schemas' = schemas
    BY DEF Ends, IInv, SchemasWiden
<1>2. Typed'
    BY <1>1 DEF Ends, IInv, Typed, Grows
<1>3. TypeOK'
    BY <1>1 DEF Ends, IInv, Typed, TypeOK, Grows, Answer, Statuses
<1>4. StatementsAreFresh'
    BY DEF Ends, IInv, StatementsAreFresh, Typed
<1>5. OnlyEditsSpoilSelects'
    BY DEF Ends, IInv, OnlyEditsSpoilSelects, Typed, Answer
<1>6. RowsAreShownAsInserted'
  <2> SUFFICES ASSUME NEW z \in Sessions, answer'[z].status = "shown", answer'[z].quiet
               PROVE  Correct(z, answer[z].rows)'
    BY DEF RowsAreShownAsInserted, Correct
  <2>1. CASE z = s
    <3>1. answer'[s] = Answer(status, rows, Quiet(s)) /\ UNCHANGED <<sql, began>>
      BY DEF Ends, IInv, Typed
    <3>2. status = "shown" /\ Quiet(s) /\ answer'[s].rows = rows
      BY <2>1, <3>1 DEF Answer
    <3>3. Correct(s, rows)'
      BY <1>1, <3>1, <3>2, StaysCorrect
    <3> QED  BY <2>1, <3>2, <3>3 DEF Correct
  <2>2. CASE z # s
    <3>1. answer'[z] = answer[z] /\ UNCHANGED <<sql, began>>
      BY <2>2 DEF Ends, IInv, Typed
    <3> QED  BY <1>1, <3>1, OthersStayCorrect
  <2> QED  BY <2>1, <2>2
<1> QED
    BY <1>1, <1>2, <1>3, <1>4, <1>5, <1>6 DEF IInv

LEMMA QuietEndKeepsInv ==
    ASSUME IInv, NEW s \in Sessions, NEW status \in Statuses, NEW rows, Ends(s, status, rows),
           status = "unreadable" => ~Quiet(s),
           status = "shown" /\ Quiet(s) => Correct(s, rows), UNCHANGED <<file, added>>
    PROVE  IInv'
<1>1. LinesWereStored'
    BY DEF IInv, LinesWereStored, StoredLine, Ends
<1> QED
    BY <1>1, EndKeepsInv, NothingAdded

\* The line of a valid INSERT is stored under the schema it has loaded.
LEMMA AddedLineKeepsInv ==
    ASSUME IInv, NEW s \in Sessions, NEW status \in Statuses, Ends(s, status, <<>>),
           status # "unreadable", status # "shown", AddsRow(s),
           Runs(s, "insert"), ValidInsert(Schema(s), sql[s])
    PROVE  IInv'
<1> DEFINE row == sql[s].values
<1>1. /\ row \in Inserts /\ loaded[s] \in 1..Len(schemas)
      /\ StoredUnder(schemas[loaded[s]], row)
    BY DEF IInv, Typed, StatementsAreFresh, Runs, Inserts, ValidInsert, Schema, StoredUnder
<1>2. /\ file \in Seq(InsertLines) /\ file \in Seq(Line) /\ added \in Seq(Seq(Seq(Bytes)))
      /\ Len(added) = Len(file) /\ Len(file) \in Nat
    BY DEF IInv, Typed, TypeOK
<1>3. Serialize(row) \in InsertLines /\ FieldTexts(row) \in Seq(Seq(Bytes)) /\ Serialize(row) \in Line
  <2>1. row \in Seq(Cells)
    BY <1>1, MiniSqlConstants
  <2>2. schemas[loaded[s]] \in Schemas
    BY <1>1 DEF IInv, Typed
  <2>3. Types(schemas[loaded[s]]) \in Seq(ColumnTypes)
    BY <2>2, TypesOf
  <2> QED  BY <1>1, <2>1, <2>3, StoredTexts DEF InsertLines, StoredUnder
<1> HIDE DEF row
<1>4. /\ file' \in Seq(InsertLines) /\ file' \in Seq(Line) /\ Len(file') = Len(file) + 1
      /\ \A k \in 1..Len(file) : file'[k] = file[k]
      /\ file'[Len(file) + 1] = Serialize(row)
    BY <1>2, <1>3 DEF AddsRow, row
<1>5. /\ added' = Append(added, FieldTexts(row)) /\ added' \in Seq(Seq(Seq(Bytes)))
      /\ Len(added') = Len(added) + 1
      /\ \A k \in 1..Len(added) : added'[k] = added[k]
      /\ added'[Len(added) + 1] = FieldTexts(row)
    BY <1>2, <1>3, AppendProperties DEF AddsRow, row
<1>6. Grows
  <2>1. ASSUME NEW n \in 0..Len(added) PROVE SubSeq(added', 1, n) = SubSeq(added, 1, n)
    BY <1>2, <1>5
  <2> QED  BY <1>2, <1>4, <1>5, <2>1 DEF Grows
<1>7. schemas' = schemas
    BY DEF Ends
<1>8. LinesWereStored'
  <2> SUFFICES ASSUME NEW k \in 1..Len(file') PROVE StoredLine(file[k], added[k])'
    BY DEF LinesWereStored
  <2>1. CASE k <= Len(file)
    BY <2>1, <1>2, <1>4, <1>5, <1>7 DEF IInv, LinesWereStored, StoredLine
  <2>2. CASE k = Len(file) + 1
    BY <2>2, <1>1, <1>2, <1>4, <1>5, <1>7 DEF StoredLine
  <2> QED
    BY <2>1, <2>2, <1>2, <1>4
<1> QED
    BY <1>6, <1>8, EndKeepsInv

\* Without an edit, what is loaded is the last schema.
LEMMA LoadedIsLast ==
    ASSUME IInv, NEW s \in Sessions, pc[s] = "run", Quiet(s)
    PROVE  loaded[s] = Len(schemas) /\ began[s].schemas = Len(schemas)
BY DEF IInv, Typed, StatementsAreFresh, Quiet

\* It reads every line.
LEMMA BadRowMeansEdit ==
    ASSUME IInv, NEW s \in Sessions, MeetsBadRow(s)
    PROVE  ~Quiet(s)
<1>1. ASSUME Quiet(s) PROVE loaded[s] = Len(schemas)
    BY <1>1, LoadedIsLast DEF MeetsBadRow, Runs
<1>2. AllReadable(schemas[Len(schemas)])
    BY LastSchemaReadsAll DEF IInv
<1> QED
    BY <1>1, <1>2 DEF MeetsBadRow, Schema

LEMMA EditKeepsInv == ASSUME IInv, EditSchema PROVE IInv'
<1> DEFINE n == Len(schemas)
<1>1. PICK new \in Schemas : Widens(schemas[n], new) /\ schemas' = Append(schemas, new)
    BY DEF EditSchema, Last
<1>2. /\ schemas' \in Seq(Schemas) /\ Len(schemas') = n + 1 /\ n \in Nat \ {0}
      /\ \A v \in 1..n : schemas'[v] = schemas[v]
      /\ schemas'[n + 1] = new
    BY <1>1 DEF IInv, Typed
<1>0. UNCHANGED <<file, added, pc, sql, loaded, began, answer>>
    BY DEF EditSchema
<1>3. Typed' /\ TypeOK'
  <2>1. Typed'
    BY <1>0, <1>2 DEF IInv, Typed
  <2>2. TypeOK'
    BY <1>0, <1>2 DEF IInv, TypeOK
  <2> QED  BY <2>1, <2>2
<1>4. SchemasWiden'
  <2> SUFFICES ASSUME NEW v \in 1..(n + 1), NEW w \in 1..(n + 1), v <= w
               PROVE  Widens(schemas'[v], schemas'[w])
    BY <1>2 DEF SchemasWiden
  <2>1. CASE w <= n
    BY <2>1, <1>2 DEF IInv, SchemasWiden
  <2>2. CASE v = n + 1
    BY <2>2, <1>2, WidensItself
  <2>3. CASE v <= n /\ w = n + 1
    <3>1. Widens(schemas[v], schemas[n])
        BY <2>3, <1>2 DEF IInv, SchemasWiden
    <3>2. schemas[v] \in Schemas /\ schemas[n] \in Schemas
        BY <2>3, <1>2 DEF IInv, Typed
    <3> QED
        BY <3>1, <3>2, <2>3, <1>1, <1>2, WidensFurther, MiniSqlConstants
  <2> QED
    BY <2>1, <2>2, <2>3, <1>2
<1>5. LinesWereStored'
  <2> SUFFICES ASSUME NEW k \in 1..Len(file) PROVE StoredLine(file[k], added[k])'
    BY <1>0 DEF LinesWereStored
  <2>1. PICK row \in Inserts, v \in 1..n :
            /\ file[k] = Serialize(row) /\ added[k] = FieldTexts(row)
            /\ StoredUnder(schemas[v], row)
    BY DEF IInv, LinesWereStored, StoredLine
  <2> QED
    BY <1>0, <2>1, <1>2 DEF StoredLine
<1>6. StatementsAreFresh'
    BY <1>2 DEF IInv, Typed, StatementsAreFresh, EditSchema
<1>7. OnlyEditsSpoilSelects'
    BY DEF IInv, OnlyEditsSpoilSelects, EditSchema
<1>8. RowsAreShownAsInserted'
  <2> SUFFICES ASSUME NEW z \in Sessions, answer'[z].status = "shown", answer'[z].quiet
               PROVE  Correct(z, answer[z].rows)'
    BY DEF RowsAreShownAsInserted, Correct
  <2>1. Grows
    BY <1>0, NothingAdded
  <2> QED
    BY <1>0, <1>2, <2>1, OthersStayCorrect
<1> QED
    BY <1>3, <1>4, <1>5, <1>6, <1>7, <1>8 DEF IInv

LEMMA BeginKeepsInv == ASSUME IInv, NEW s \in Sessions, Begin(s) PROVE IInv'
<1>1. SchemasWiden' /\ LinesWereStored'
    BY DEF IInv, SchemasWiden, LinesWereStored, StoredLine, Begin
<1>2. Typed'
    BY DEF IInv, Typed, Begin
<1>3. TypeOK'
    BY DEF IInv, Typed, TypeOK, Begin, NoAnswer, Answer
<1>4. StatementsAreFresh'
    BY DEF IInv, Typed, TypeOK, StatementsAreFresh, Begin
<1>5. OnlyEditsSpoilSelects'
    BY DEF IInv, Typed, OnlyEditsSpoilSelects, Begin, NoAnswer, Answer
<1>6. RowsAreShownAsInserted'
  <2> SUFFICES ASSUME NEW z \in Sessions, answer'[z].status = "shown", answer'[z].quiet
               PROVE  Correct(z, answer[z].rows)'
    BY DEF RowsAreShownAsInserted, Correct
  <2>1. Grows
    BY NothingAdded DEF Begin
  <2>2. z # s /\ answer'[z] = answer[z] /\ sql'[z] = sql[z] /\ began'[z] = began[z]
    BY DEF IInv, Typed, TypeOK, Begin, NoAnswer, Answer
  <2>3. schemas' = schemas
    BY DEF Begin
  <2> QED
    BY <2>1, <2>2, <2>3, OthersStayCorrect
<1> QED
    BY <1>1, <1>2, <1>3, <1>4, <1>5, <1>6 DEF IInv

LEMMA LoadKeepsInv == ASSUME IInv, NEW s \in Sessions, LoadSchema(s) PROVE IInv'
<1>1. SchemasWiden' /\ LinesWereStored' /\ OnlyEditsSpoilSelects'
    BY DEF IInv, SchemasWiden, LinesWereStored, StoredLine, OnlyEditsSpoilSelects, LoadSchema
<1>2. Typed' /\ TypeOK'
  <2>1. Typed'
    BY DEF IInv, Typed, LoadSchema
  <2>2. TypeOK'
    BY DEF IInv, Typed, TypeOK, LoadSchema
  <2> QED  BY <2>1, <2>2
<1>3. StatementsAreFresh'
    BY DEF IInv, Typed, TypeOK, StatementsAreFresh, LoadSchema
<1>4. RowsAreShownAsInserted'
    BY DEF IInv, RowsAreShownAsInserted, Expected, LoadSchema
<1> QED
    BY <1>1, <1>2, <1>3, <1>4 DEF IInv

-----------------------------------------------------------------------------
(* WHERE and the choice of columns, on rows and on their texts                 *)

Filtering == INSTANCE FoldFacts WITH
    Op <- LAMBDA p, kept, r : IF Meets(p[1], p[2], r) THEN Append(kept, r) ELSE kept,
    Base <- LAMBDA p : <<>>

LEMMA MatchingIsLoop ==
    \A schema, where, rows :
        Matching(schema, where, rows) =
            IF where = <<>> THEN rows ELSE Filtering!Fold(<<schema, where>>, rows)
<1>1. SUFFICES ASSUME NEW schema, NEW where, NEW rows
               PROVE  FoldLeft(LAMBDA kept, r : IF Meets(schema, where, r) THEN Append(kept, r) ELSE kept,
                               <<>>, rows) = Filtering!Fold(<<schema, where>>, rows)
  BY DEF Matching
<1> QED  BY DEF Filtering!Fold, FoldLeft, Filtering!FoldLeft, MapThenFoldSet,
                Filtering!MapThenFoldSet, Max, Filtering!Max

LEMMA ColumnIsThere ==
    ASSUME NEW schema \in Schemas, NEW name, IsColumn(schema, name)
    PROVE  ColumnIndex(schema, name) \in 1..Len(schema)
<1> DEFINE places == {i \in DOMAIN schema : schema[i].name = name}
<1>1. places \in SUBSET Nat /\ places \in SUBSET (1..Len(schema)) /\ places # {}
  BY TypesOf DEF IsColumn
<1> HIDE DEF places
<1>2. Filtering!Min(places) \in places /\ \A y \in places : Filtering!Min(places) <= y
  BY <1>1, Filtering!FirstOf
<1>3. Min(places) \in places
  BY <1>2, Zenon DEF Min, Filtering!Min
<1> QED  BY <1>1, <1>3 DEF ColumnIndex, places

\* A condition means the same of a row and of its texts.
Comparable(schema, where) ==
    where # <<>> => where[2] \in Cells /\ ValidWhere(schema, where)

LEMMA MeetsAlike ==
    ASSUME NEW schema \in Schemas, NEW where, where # <<>>, Comparable(schema, where),
           NEW r \in TypedRows(schema)
    PROVE  Meets(schema, where, r) <=> Meets(schema, TextWhere(where), FieldTexts(r))
<1> DEFINE c == ColumnIndex(schema, where[1])
           T == Seq(FieldBytes \cup Bytes)
<1>1. c \in 1..Len(schema)
  BY ColumnIsThere DEF Comparable, ValidWhere
<1>2. DOMAIN r = 1..Len(schema) /\ r[c] \in ReadCells /\ r[c].type = schema[c].type
  BY <1>1 DEF TypedRows
<1>3. where[2] \in Cells /\ where[2].type = schema[c].type
  BY DEF Comparable, ValidWhere, Castable
<1>4. TextWhere(where) = <<where[1], FieldText(where[2])>>
  BY DEF TextWhere
<1>5. FieldTexts(r)[c] = FieldText(r[c])
  BY <1>1, <1>2 DEF FieldTexts
<1>6. /\ r[c] \in [type : {"int"}, int : INT_MIN..INT_MAX] \cup [type : {"text"}, text : T]
      /\ where[2] \in [type : {"int"}, int : INT_MIN..INT_MAX] \cup [type : {"text"}, text : T]
  <2>1. Seq(FieldBytes) \subseteq T /\ Seq(Bytes) \subseteq T
    BY SeqIsLarger
  <2> HIDE DEF T
  <2> QED  BY <1>2, <1>3, <2>1 DEF ReadCells, Cells
<1>7. r[c] = where[2] <=> FieldText(r[c]) = FieldText(where[2])
  <2> DEFINE v == r[c]
             w == where[2]
  <2>1. v.type = w.type
    BY <1>2, <1>3
  <2> HIDE DEF v, w, c, T
  <2>2. /\ v \in [type : {"int"}, int : INT_MIN..INT_MAX] \cup [type : {"text"}, text : T]
        /\ w \in [type : {"int"}, int : INT_MIN..INT_MAX] \cup [type : {"text"}, text : T]
    BY <1>6 DEF v, w
  <2>3. v = w <=> FieldText(v) = FieldText(w)
    BY <2>1, <2>2, WrittenAlike, Zenon
  <2> QED  BY <2>3 DEF v, w
<1>8. Meets(schema, where, r) <=> r[c] = where[2]
  BY DEF Meets
<1>9. Meets(schema, TextWhere(where), FieldTexts(r)) <=> FieldText(r[c]) = FieldText(where[2])
  BY <1>4, <1>5 DEF Meets
<1> QED  BY <1>7, <1>8, <1>9

AllTexts(rows) == [k \in DOMAIN rows |-> FieldTexts(rows[k])]

LEMMA AllTextsOfMore ==
    ASSUME NEW E, NEW rows \in Seq(E), NEW r \in E
    PROVE  /\ AllTexts(rows) \in Seq({FieldTexts(e) : e \in E})
           /\ AllTexts(Append(rows, r)) = Append(AllTexts(rows), FieldTexts(r))
<1> DEFINE F == {FieldTexts(e) : e \in E}
           more == Append(rows, r)
           n == Len(rows)
           g == AllTexts(rows)
<1>1. n \in Nat /\ DOMAIN rows = 1..n /\ \A k \in 1..n : rows[k] \in E
  OBVIOUS
<1>2. g = [k \in 1..n |-> g[k]] /\ \A k \in 1..n : g[k] = FieldTexts(rows[k]) /\ g[k] \in F
  BY <1>1 DEF AllTexts
<1>3. FieldTexts(r) \in F
  OBVIOUS
<1>4. DOMAIN more = 1..(n + 1) /\ \A k \in 1..(n + 1) : more[k] = IF k = n + 1 THEN r ELSE rows[k]
  OBVIOUS
<1> HIDE DEF F, more, n, g
<1>5. g \in Seq(F) /\ Len(g) = n
  BY <1>1, <1>2, MappedSeq
<1>6. Append(g, FieldTexts(r)) = [k \in 1..(n + 1) |-> IF k = n + 1 THEN FieldTexts(r) ELSE g[k]]
  BY <1>3, <1>5, AppendIs
<1>7. AllTexts(more) = [k \in 1..(n + 1) |-> FieldTexts(more[k])]
  BY <1>4 DEF AllTexts
<1>8. \A k \in 1..(n + 1) : FieldTexts(more[k]) = IF k = n + 1 THEN FieldTexts(r) ELSE g[k]
  BY <1>1, <1>2, <1>4
<1>9. AllTexts(more) = Append(g, FieldTexts(r))
  BY <1>6, <1>7, <1>8
<1> QED  BY <1>5, <1>9 DEF F, more, g

LEMMA MatchingAlike ==
    ASSUME NEW schema \in Schemas, NEW where, Comparable(schema, where)
    PROVE  \A rows \in Seq(TypedRows(schema)) :
                /\ Matching(schema, where, rows) \in Seq(TypedRows(schema))
                /\ AllTexts(Matching(schema, where, rows))
                        = Matching(schema, TextWhere(where), AllTexts(rows))
<1>1. CASE where = <<>>
  BY <1>1 DEF Matching, TextWhere
<1>2. CASE where # <<>>
  <2> DEFINE E == TypedRows(schema)
             F == {FieldTexts(e) : e \in E}
             p == <<schema, where>>
             q == <<schema, TextWhere(where)>>
             T == {rows \in Seq(E) : /\ Filtering!Fold(p, rows) \in Seq(E)
                                     /\ AllTexts(Filtering!Fold(p, rows))
                                            = Filtering!Fold(q, AllTexts(rows))}
  <2>1. TextWhere(where) # <<>>
    BY <1>2 DEF TextWhere
  <2>2. <<>> \in T
    <3>1. AllTexts(<<>>) = <<>> /\ <<>> \in Seq(E)
      BY DEF AllTexts
    <3>2. Filtering!Fold(p, <<>>) = <<>> /\ Filtering!Fold(q, <<>>) = <<>>
      BY Filtering!FoldOfNone
    <3> HIDE DEF p, q, E
    <3> QED  BY <3>1, <3>2
  <2>3. ASSUME NEW rows \in Seq(E), NEW r \in E, rows \in T PROVE Append(rows, r) \in T
    <3> DEFINE kept == Filtering!Fold(p, rows)
    <3>1. kept \in Seq(E) /\ AllTexts(kept) = Filtering!Fold(q, AllTexts(rows))
      BY <2>3
    <3>2. Filtering!Fold(p, Append(rows, r))
            = IF Meets(schema, where, r) THEN Append(kept, r) ELSE kept
      BY Filtering!FoldOfMore
    <3>3. AllTexts(rows) \in Seq(F) /\ FieldTexts(r) \in F
          /\ AllTexts(Append(rows, r)) = Append(AllTexts(rows), FieldTexts(r))
      BY AllTextsOfMore
    <3>4. Filtering!Fold(q, Append(AllTexts(rows), FieldTexts(r)))
            = IF Meets(schema, TextWhere(where), FieldTexts(r))
              THEN Append(Filtering!Fold(q, AllTexts(rows)), FieldTexts(r))
              ELSE Filtering!Fold(q, AllTexts(rows))
      <4> HIDE DEF F
      <4> QED  BY <3>3, Filtering!FoldOfMore
    <3>5. Meets(schema, where, r) <=> Meets(schema, TextWhere(where), FieldTexts(r))
      BY <1>2, MeetsAlike
    <3>6. AllTexts(Append(kept, r)) = Append(AllTexts(kept), FieldTexts(r))
      BY <3>1, AllTextsOfMore
    <3>7. Append(kept, r) \in Seq(E) /\ Append(rows, r) \in Seq(E)
      BY <3>1, AppendProperties
    <3> HIDE DEF kept, p, q, E, F
    <3>8. CASE Meets(schema, where, r)
      <4>1. Filtering!Fold(p, Append(rows, r)) = Append(kept, r)
        BY <3>2, <3>8
      <4>2. Filtering!Fold(q, AllTexts(Append(rows, r))) = Append(AllTexts(kept), FieldTexts(r))
        BY <3>1, <3>3, <3>4, <3>5, <3>8
      <4> QED  BY <3>6, <3>7, <4>1, <4>2
    <3>9. CASE ~Meets(schema, where, r)
      <4>1. Filtering!Fold(p, Append(rows, r)) = kept
        BY <3>2, <3>9
      <4>2. Filtering!Fold(q, AllTexts(Append(rows, r))) = AllTexts(kept)
        BY <3>1, <3>3, <3>4, <3>5, <3>9
      <4> QED  BY <3>1, <3>7, <4>1, <4>2
    <3> QED  BY <3>8, <3>9
  <2> HIDE DEF T
  <2>4. \A rows \in Seq(E) : rows \in T
    BY <2>2, <2>3, Filtering!SeqInduction
  <2> QED  BY <1>2, <2>1, <2>4, MatchingIsLoop DEF T
<1> QED  BY <1>1, <1>2

LEMMA ProjectionAlike ==
    ASSUME NEW schema \in Schemas, NEW columns,
           \A i \in DOMAIN columns : IsColumn(schema, columns[i]),
           NEW rows \in Seq(TypedRows(schema))
    PROVE  AllTexts(Projection(schema, columns, rows))
                = Projection(schema, columns, AllTexts(rows))
<1>1. CASE columns = <<>>
  BY <1>1 DEF Projection
<1>2. CASE columns # <<>>
  <2> DEFINE Cell(k, i) == rows[k][ColumnIndex(schema, columns[i])]
  <2>1. DOMAIN AllTexts(rows) = DOMAIN rows
        /\ \A k \in DOMAIN rows : AllTexts(rows)[k] = FieldTexts(rows[k])
    BY DEF AllTexts
  <2>2. \A k \in DOMAIN rows, i \in DOMAIN columns :
            FieldTexts(rows[k])[ColumnIndex(schema, columns[i])] = FieldText(Cell(k, i))
    <3> TAKE k \in DOMAIN rows, i \in DOMAIN columns
    <3>1. rows[k] \in TypedRows(schema)
      OBVIOUS
    <3>2. DOMAIN rows[k] = 1..Len(schema)
      BY <3>1 DEF TypedRows
    <3>3. ColumnIndex(schema, columns[i]) \in DOMAIN rows[k]
      BY <3>2, ColumnIsThere
    <3> QED  BY <3>3 DEF FieldTexts
  <2>3. Projection(schema, columns, rows)
            = [k \in DOMAIN rows |-> [i \in DOMAIN columns |-> Cell(k, i)]]
    BY <1>2 DEF Projection
  <2>4. Projection(schema, columns, AllTexts(rows))
            = [k \in DOMAIN rows |-> [i \in DOMAIN columns |-> FieldText(Cell(k, i))]]
    BY <1>2, <2>1, <2>2 DEF Projection
  <2> HIDE DEF Cell
  <2>5. AllTexts(Projection(schema, columns, rows))
            = [k \in DOMAIN rows |-> FieldTexts([i \in DOMAIN columns |-> Cell(k, i)])]
    BY <2>3 DEF AllTexts
  <2>6. \A k \in DOMAIN rows : FieldTexts([i \in DOMAIN columns |-> Cell(k, i)])
            = [i \in DOMAIN columns |-> FieldText(Cell(k, i))]
    BY DEF FieldTexts
  <2> QED  BY <2>4, <2>5, <2>6
<1> QED  BY <1>1, <1>2

\* What is read of the file under the last schema.
LEMMA RowsAreRead ==
    ASSUME IInv
    PROVE  LET last == schemas[Len(schemas)]
               rows == RowsOf(Types(last), file)
           IN  rows \in Seq(TypedRows(last)) /\ AllTexts(rows) = added
<1> DEFINE last == schemas[Len(schemas)]
           E == {l \in InsertLines : ~Blank(l)}
           Parsed(l) == ParsedRow(Types(last), StripLineEndings(l))
           n == Len(file)
<1>1. /\ n \in Nat /\ file \in Seq(InsertLines) /\ added \in Seq(Seq(Seq(Bytes)))
      /\ Len(added) = n /\ last \in Schemas
  BY DEF IInv, Typed, TypeOK
<1>2. ASSUME NEW k \in 1..n
      PROVE  /\ ~Blank(file[k]) /\ Parsed(file[k]) \in TypedRows(last)
             /\ FieldTexts(Parsed(file[k])) = added[k]
  <2>1. PICK row \in Inserts, v \in 1..Len(schemas) :
            /\ file[k] = Serialize(row) /\ added[k] = FieldTexts(row)
            /\ StoredUnder(schemas[v], row)
    BY DEF IInv, LinesWereStored, StoredLine
  <2>2. v <= Len(schemas) /\ Len(schemas) \in 1..Len(schemas) /\ schemas \in Seq(Schemas)
    BY DEF IInv, Typed
  <2>3. schemas[v] \in Schemas /\ Widens(schemas[v], last)
    BY <2>2 DEF IInv, SchemasWiden
  <2> HIDE DEF last
  <2> QED  BY <1>1, <2>1, <2>3, StoredLineIsRead
<1>3. file \in Seq(E)
  <2>1. \A k \in 1..Len(file) : file[k] \in E
    BY <1>1, <1>2
  <2> QED  BY <1>1, <2>1, SeqElements
<1>4. RowsOf(Types(last), file) = [k \in 1..n |-> Parsed(file[k])]
  <2> HIDE DEF last
  <2>1. \A l \in E : ~Blank(l)
    OBVIOUS
  <2> QED  BY <1>3, <2>1, EveryLineARow
<1>5. PICK rows : rows = RowsOf(Types(last), file)
  OBVIOUS
<1> HIDE DEF last, Parsed, n
<1>6. /\ rows = [k \in 1..n |-> rows[k]] /\ DOMAIN rows = 1..n
      /\ \A k \in 1..n : rows[k] = Parsed(file[k])
  BY <1>4, <1>5
<1>7. rows \in Seq(TypedRows(last))
  <2>1. \A k \in 1..n : rows[k] \in TypedRows(last)
    BY <1>2, <1>6
  <2> QED  BY <1>1, <1>6, <2>1, MappedSeq, Zenon
<1>8. AllTexts(rows) = added
  <2>1. AllTexts(rows) = [k \in 1..n |-> FieldTexts(rows[k])]
    BY <1>6 DEF AllTexts
  <2>2. added = [k \in 1..n |-> added[k]]
    BY <1>1
  <2> QED  BY <1>2, <1>6, <2>1, <2>2
<1> QED  BY <1>5, <1>7, <1>8 DEF last

\* A SELECT that nothing edits shows what was inserted.
LEMMA ShowsAreCorrect ==
    ASSUME IInv, NEW s \in Sessions, ReadRows(s), Quiet(s)
    PROVE  Correct(s, SelectShown(Schema(s), sql[s], RowsOf(Types(Schema(s)), file)).rows)
<1> DEFINE S == schemas[Len(schemas)]
           rows == RowsOf(Types(S), file)
           x == sql[s]
<1>1. pc[s] = "run" /\ x.kind = "select" /\ ValidSelect(Schema(s), x)
  BY DEF ReadRows, Runs
<1>2. Schema(s) = S /\ schemas[began[s].schemas] = S
  BY <1>1, LoadedIsLast DEF Schema
<1>3. S \in Schemas /\ x \in Statements
  BY <1>1 DEF IInv, Typed, StatementsAreFresh
<1>4. rows \in Seq(TypedRows(S)) /\ AllTexts(rows) = added
  BY RowsAreRead
<1>5. Comparable(S, x.where) /\ \A i \in DOMAIN x.columns : IsColumn(S, x.columns[i])
  BY <1>1, <1>2, <1>3, MiniSqlConstants DEF ValidSelect, Comparable
<1> DEFINE kept == Matching(S, x.where, rows)
           shown == Projection(S, x.columns, kept)
<1>6. SelectShown(S, x, rows).rows = shown
  BY DEF SelectShown, Shown
<1> HIDE DEF S, x, rows
<1>7. kept \in Seq(TypedRows(S)) /\ AllTexts(kept) = Matching(S, TextWhere(x.where), added)
  BY <1>3, <1>4, <1>5, MatchingAlike
<1> HIDE DEF kept
<1>8. AllTexts(shown) = Projection(S, x.columns, Matching(S, TextWhere(x.where), added))
  BY <1>3, <1>5, <1>7, ProjectionAlike
<1>9. SubSeq(added, 1, Len(added)) = added /\ Len(added) \in began[s].lines..Len(added)
  BY DEF IInv, TypeOK
<1>10. AllTexts(shown) = Expected(S, x, Len(added))
  BY <1>8, <1>9 DEF Expected
<1> HIDE DEF shown
<1>11. Correct(s, shown)
  BY <1>1, <1>2, <1>9, <1>10 DEF Correct, AllTexts, x
<1> QED  BY <1>2, <1>6, <1>11 DEF x, rows

-----------------------------------------------------------------------------
LEMMA StepInv == IInv /\ [Next]_vars => IInv'
<1> SUFFICES ASSUME IInv, [Next]_vars PROVE IInv'
    OBVIOUS
<1> USE DEF Statuses
<1>1. ASSUME NEW s \in Sessions, Begin(s) PROVE IInv'
    BY <1>1, BeginKeepsInv
<1>2. ASSUME NEW s \in Sessions, LoadSchema(s) PROVE IInv'
    BY <1>2, LoadKeepsInv
<1>3. ASSUME NEW s \in Sessions, LoadFails(s) PROVE IInv'
    BY <1>3, QuietEndKeepsInv DEF LoadFails
<1>4. ASSUME NEW s \in Sessions, Rejects(s) PROVE IInv'
    BY <1>4, QuietEndKeepsInv DEF Rejects
<1>5. ASSUME NEW s \in Sessions, AppendRow(s) PROVE IInv'
    BY <1>5, AddedLineKeepsInv DEF AppendRow
<1>6. ASSUME NEW s \in Sessions, AppendFails(s) PROVE IInv'
  <2>1. Ends(s, "failed", <<>>) /\ Runs(s, "insert") /\ ValidInsert(Schema(s), sql[s])
    BY <1>6 DEF AppendFails
  <2>2. CASE AddsRow(s)
    BY <2>1, <2>2, AddedLineKeepsInv
  <2>3. CASE UNCHANGED <<file, added>>
    BY <2>1, <2>3, QuietEndKeepsInv
  <2> QED
    BY <1>6, <2>2, <2>3 DEF AppendFails
<1>7. ASSUME NEW s \in Sessions, MeetsBadRow(s) PROVE IInv'
    BY <1>7, BadRowMeansEdit, QuietEndKeepsInv DEF MeetsBadRow
<1>8. ASSUME NEW s \in Sessions, ReadRows(s) PROVE IInv'
  <2> DEFINE rows == SelectShown(Schema(s), sql[s], RowsOf(Types(Schema(s)), file)).rows
  <2>1. Ends(s, "shown", rows) /\ UNCHANGED <<file, added>>
    BY <1>8 DEF ReadRows
  <2>2. Quiet(s) => Correct(s, rows)
    BY <1>8, ShowsAreCorrect
  <2>3. PICK shown : shown = rows
    OBVIOUS
  <2> HIDE DEF rows
  <2>4. Ends(s, "shown", shown) /\ (Quiet(s) => Correct(s, shown))
    BY <2>1, <2>2, <2>3
  <2> QED
    BY <2>1, <2>4, QuietEndKeepsInv
<1>9. ASSUME NEW s \in Sessions, ReadFails(s) PROVE IInv'
    BY <1>9, QuietEndKeepsInv DEF ReadFails
<1>10. ASSUME NEW s \in Sessions, Dies(s) PROVE IInv'
    BY <1>10, QuietEndKeepsInv DEF Dies
<1>11. CASE EditSchema
    BY <1>11, EditKeepsInv
<1>12. CASE UNCHANGED vars
  <2>1. UNCHANGED <<schemas, file, added, pc, sql, loaded, began, answer>>
    BY <1>12 DEF vars
  <2>2. Typed' /\ TypeOK' /\ StatementsAreFresh'
    BY <2>1 DEF IInv, Typed, TypeOK, StatementsAreFresh
  <2>3. SchemasWiden' /\ LinesWereStored'
    BY <2>1 DEF IInv, SchemasWiden, LinesWereStored, StoredLine
  <2>4. OnlyEditsSpoilSelects'
    BY <2>1 DEF IInv, OnlyEditsSpoilSelects
  <2>5. RowsAreShownAsInserted'
    BY <2>1 DEF IInv, RowsAreShownAsInserted, Correct, Expected
  <2> QED
    BY <2>2, <2>3, <2>4, <2>5 DEF IInv
<1> QED
    BY <1>1, <1>2, <1>3, <1>4, <1>5, <1>6, <1>7, <1>8, <1>9, <1>10, <1>11, <1>12 DEF Next

\* However many processes run whatever statements, and however often the schema
\* file is edited, a SELECT that no edit overlaps never stops at a stored row
\* (executor.c:293-318, 345-370; schema_manager.c:188).
THEOREM SelectsReadOldRows == Spec => []OnlyEditsSpoilSelects
<1>1. IInv => OnlyEditsSpoilSelects
    BY DEF IInv
<1> QED
    BY InitInv, StepInv, <1>1, PTL DEF Spec

\* Whatever schemas the rows were stored under, by whichever processes, a SELECT that
\* no edit overlaps shows the texts that were inserted, in order and whole, through
\* the file, its parser, WHERE and the choice of columns (executor.c:331-443;
\* storage.c:296-323, 421-449).
THEOREM SelectsShowWhatWasInserted == Spec => []RowsAreShownAsInserted
<1>1. IInv => RowsAreShownAsInserted
    BY DEF IInv
<1> QED
    BY InitInv, StepInv, <1>1, PTL DEF Spec

\* The variables keep their types, and a schema is held while a statement runs and
\* no longer.
THEOREM MiniSqlTypes == Spec => []TypeOK
<1>1. IInv => TypeOK
    BY DEF IInv
<1> QED
    BY InitInv, StepInv, <1>1, PTL DEF Spec
=============================================================================
