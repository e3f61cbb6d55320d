--------------------------- MODULE ExecutorProofs ---------------------------
(***************************************************************************)
(* Ownership of the row lists in executor.c, for every table, script and   *)
(* pattern of failing allocations.                                         *)
(***************************************************************************)
EXTENDS Executor, CodecProofs

Inv == MemoryOwned /\ Phases

LEMMA HeapDomains ==
    ASSUME NEW h, NEW b, NEW rows
    PROVE  /\ DOMAIN With(h, b, rows) = DOMAIN h \cup {b}
           /\ DOMAIN Without(h, b) = DOMAIN h \ {b}
BY DEF With, Without

LEMMA EmptyIsNull == EmptyList.block = NULL
BY DEF EmptyList

\* A statement that ends with every block freed leaves the lists empty.
LEMMA LeaveInv ==
    ASSUME Leave(EmptyList), DOMAIN heap' = {}, pc' \in {"ready", "execute", "failed", "stopped"}
    PROVE  Inv'
BY EmptyIsNull DEF Leave, Inv, MemoryOwned, Phases

LEMMA EndPlaces == /\ Fails => Leave(EmptyList) /\ pc' = "failed"
                   /\ ReportFailure => Leave(EmptyList) /\ pc' \in {"ready", "stopped"}
                   /\ \A what : Shows(what) => Leave(EmptyList) /\ pc' = "ready"
                   /\ \A left : FailsWith(left) => Leave(left) /\ pc' = "failed"
BY DEF Fails, FailsWith, Shows, ReportFailure

LEMMA InitInv == Init => Inv
BY EmptyIsNull DEF Init, Inv, MemoryOwned, Phases

LEMMA StepInv == Inv /\ [Next]_vars => Inv'
<1> SUFFICES ASSUME Inv, [Next]_vars PROVE Inv'
  OBVIOUS
<1> USE EmptyIsNull, HeapDomains, ExecutorConstants
<1>1. CASE UNCHANGED vars
  BY <1>1 DEF vars, lists, Inv, MemoryOwned, Phases
<1>2. CASE NextStatement \/ BeginSelect
  BY <1>2 DEF NextStatement, BeginSelect, Goto, lists, Inv, MemoryOwned, Phases
<1>3. CASE RejectStatement \/ ExecuteInsert \/ AppendFails \/ ReportFailure
  <2>1. pc \in {"execute", "failed"} /\ heap' = heap /\ Leave(EmptyList)
        /\ pc' \in {"ready", "failed", "stopped"}
    BY <1>3, EndPlaces DEF RejectStatement, ExecuteInsert, AppendFails, ReportFailure
  <2>2. DOMAIN heap' = {}
    BY <2>1 DEF Inv, MemoryOwned
  <2> QED  BY <2>1, <2>2, LeaveInv
<1>4. CASE ReadRow
  <2>1. PICK b \in Unused \cup ({full.block} \ {NULL}) :
            /\ \E rows : heap' = With(Without(heap, full.block), b, rows)
            /\ full'.block = b
    BY <1>4 DEF ReadRow
  <2>2. pc = "read" /\ pc' = "read" /\ UNCHANGED <<filtered, result>>
    BY <1>4 DEF ReadRow, Goto
  <2>3. filtered.block = NULL /\ result.block = NULL
    BY <2>2 DEF Inv, Phases
  <2>4. DOMAIN heap \ {full.block} = {} /\ NULL \notin DOMAIN heap
    BY <2>3 DEF Inv, MemoryOwned
  <2>5. DOMAIN heap' = (DOMAIN heap \ {full.block}) \cup {b}
    BY <2>1 DEF With, Without
  <2>6. b # NULL /\ DOMAIN heap' = {b}
    BY <2>1, <2>4, <2>5 DEF Unused
  <2> QED  BY <2>1, <2>2, <2>3, <2>6 DEF Inv, MemoryOwned, Phases
<1>5. CASE ReadFails \/ FilterFails
  <2>1. pc \in {"read", "filter"} /\ heap' = Without(heap, full.block) /\ Fails
    BY <1>5 DEF ReadFails, FilterFails
  <2>2. filtered.block = NULL /\ result.block = NULL
    BY <2>1 DEF Inv, Phases
  <2>3. DOMAIN heap' = DOMAIN heap \ {full.block}
    BY <2>1
  <2>4. DOMAIN heap' = {}
    BY <2>2, <2>3 DEF Inv, MemoryOwned
  <2> QED  BY <2>1, <2>4, LeaveInv, EndPlaces
<1>6. CASE ReadEnds
  BY <1>6 DEF ReadEnds, Goto, lists, Inv, MemoryOwned, Phases
<1>7. CASE FilterMoves
  BY <1>7 DEF FilterMoves, Goto, Inv, MemoryOwned, Phases
<1>8. CASE FilterCopies
  <2>1. pc = "filter" /\ pc' = "release" /\ UNCHANGED <<full, result>>
    BY <1>8 DEF FilterCopies, Goto
  <2>2. CASE UNCHANGED <<heap, filtered>>
    BY <2>1, <2>2 DEF Inv, MemoryOwned, Phases
  <2>3. CASE \E b \in Unused : \E rows : heap' = With(heap, b, rows) /\ filtered'.block = b
    <3>1. PICK b \in Unused : \E rows : heap' = With(heap, b, rows) /\ filtered'.block = b
      BY <2>3
    <3>2. DOMAIN heap' = DOMAIN heap \cup {b}
      <4>1. PICK rows : heap' = With(heap, b, rows)
        BY <3>1
      <4> QED  BY <4>1
    <3>3. b # NULL /\ b # full.block
      BY <3>1 DEF Inv, MemoryOwned, Unused
    <3> QED  BY <2>1, <3>1, <3>2, <3>3 DEF Inv, MemoryOwned, Phases
  <2> QED  BY <1>8, <2>2, <2>3 DEF FilterCopies
<1>9. CASE ReleaseFull
  <2>1. DOMAIN heap' = DOMAIN heap \ {full.block}
    BY <1>9 DEF ReleaseFull
  <2> QED  BY <1>9, <2>1 DEF ReleaseFull, Goto, Inv, MemoryOwned, Phases
<1>10. CASE ProjectMoves
  BY <1>10 DEF ProjectMoves, Goto, Inv, MemoryOwned, Phases
<1>11. CASE UnknownColumn \/ ProjectFails
  <2>1. PICK left : /\ pc = "project" /\ heap' = Without(heap, filtered.block)
                    /\ FailsWith(left) /\ left.block = NULL
    BY <1>11 DEF UnknownColumn, ProjectFails, Fails
  <2>2. full.block = NULL /\ result.block = NULL
    BY <2>1 DEF Inv, Phases
  <2>3. DOMAIN heap' = DOMAIN heap \ {filtered.block}
    BY <2>1
  <2>4. DOMAIN heap' = {}
    BY <2>2, <2>3 DEF Inv, MemoryOwned
  <2>5. pc' = "failed" /\ Leave(left)
    BY <2>1, EndPlaces
  <2> QED  BY <2>1, <2>4, <2>5 DEF Leave, Inv, MemoryOwned, Phases
<1>12. CASE ProjectCopies
  <2>1. pc = "project" /\ pc' = "drop" /\ UNCHANGED <<full, filtered>>
    BY <1>12 DEF ProjectCopies, Goto
  <2>2. CASE UNCHANGED <<heap, result>>
    BY <2>1, <2>2 DEF Inv, MemoryOwned, Phases
  <2>3. CASE \E b \in Unused : \E rows : heap' = With(heap, b, rows) /\ result'.block = b
    <3>1. PICK b \in Unused : \E rows : heap' = With(heap, b, rows) /\ result'.block = b
      BY <2>3
    <3>2. DOMAIN heap' = DOMAIN heap \cup {b}
      <4>1. PICK rows : heap' = With(heap, b, rows)
        BY <3>1
      <4> QED  BY <4>1
    <3>3. b # NULL /\ b # filtered.block
      BY <3>1 DEF Inv, MemoryOwned, Unused
    <3> QED  BY <2>1, <3>1, <3>2, <3>3 DEF Inv, MemoryOwned, Phases
  <2> QED  BY <1>12, <2>2, <2>3 DEF ProjectCopies
<1>13. CASE DropFiltered
  <2>1. DOMAIN heap' = DOMAIN heap \ {filtered.block}
    BY <1>13 DEF DropFiltered
  <2> QED  BY <1>13, <2>1 DEF DropFiltered, Goto, Inv, MemoryOwned, Phases
<1>14. CASE PrintResult
  <2>1. pc = "print" /\ heap' = Without(heap, result.block) /\ Leave(EmptyList) /\ pc' = "ready"
    BY <1>14, EndPlaces DEF PrintResult
  <2>2. full.block = NULL /\ filtered.block = NULL
    BY <2>1 DEF Inv, Phases
  <2>3. DOMAIN heap' = DOMAIN heap \ {result.block}
    BY <2>1
  <2>4. DOMAIN heap' = {}
    BY <2>2, <2>3 DEF Inv, MemoryOwned
  <2> QED  BY <2>1, <2>4, LeaveInv
<1> QED  BY <1>1, <1>2, <1>3, <1>4, <1>5, <1>6, <1>7, <1>8, <1>9, <1>10, <1>11,
             <1>12, <1>13, <1>14 DEF Next, Finished

\* On every path through execute_select_command, allocations failing or not, each
\* live block belongs to one row list and none outlives its statement.
THEOREM HeapIsOwned == Spec => []MemoryOwned
<1>1. Inv => MemoryOwned
  BY DEF Inv
<1> QED  BY InitInv, StepInv, <1>1, PTL DEF Spec

-----------------------------------------------------------------------------
(* apply_select_where_filter *)

Filter == INSTANCE FoldFacts WITH
    Op <- LAMBDA p, kept, r : IF Meets(p[1], p[2], r) THEN Append(kept, r) ELSE kept,
    Base <- LAMBDA p : <<>>
Measure == INSTANCE FoldFacts WITH
    Op <- LAMBDA p, w, r : Wider(w, r),
    Base <- LAMBDA p : [i \in DOMAIN p |-> Len(p[i])]

\* Matching keeps rows of the table.
LEMMA MatchingHasType ==
    ASSUME NEW where, NEW R, NEW rows \in Seq(R)
    PROVE  Matching(Schema, where, rows) \in Seq(R)
<1>1. CASE where = <<>>
  BY <1>1 DEF Matching
<1>2. CASE where # <<>>
  <2> DEFINE p == <<Schema, where>>
  <2>1. Filter!Fold(p, rows) \in Seq(R)
    <3>1. \A kept \in Seq(R), r \in R :
            (IF Meets(p[1], p[2], r) THEN Append(kept, r) ELSE kept) \in Seq(R)
      <4> HIDE DEF p
      <4> QED  BY AppendProperties
    <3>2. <<>> \in Seq(R)
      OBVIOUS
    <3> HIDE DEF p
    <3> QED  BY <3>1, <3>2, Filter!FoldHasType
  <2>2. Matching(Schema, where, rows) = Filter!Fold(p, rows)
    BY <1>2 DEF Matching, Filter!Fold, FoldLeft, Filter!FoldLeft, MapThenFoldSet, Filter!MapThenFoldSet, Max, Filter!Max
  <2> QED  BY <2>1, <2>2
<1> QED  BY <1>1, <1>2

-----------------------------------------------------------------------------
(* print_select_result *)

\* What is printed has a name and a length in each column.
Printable(header, rows) ==
    /\ \A i \in DOMAIN header : Len(header[i]) \in Nat
    /\ \A k \in DOMAIN rows : \A i \in DOMAIN header : Len(FieldText(rows[k][i])) \in Nat

\* w is the width of column i after these rows: large enough, and needed.
IsWidth(w, header, rows, i) ==
    LET needed == {Len(header[i])} \cup {Len(FieldText(rows[k][i])) : k \in DOMAIN rows}
    IN  w \in needed /\ \A n \in needed : n <= w

LEMMA WidthsOfNone ==
    ASSUME NEW header, Printable(header, <<>>)
    PROVE  /\ Measure!Fold(header, <<>>) = [i \in DOMAIN header |-> Len(header[i])]
           /\ \A i \in DOMAIN header : IsWidth(Len(header[i]), header, <<>>, i)
<1>1. Measure!Fold(header, <<>>) = [i \in DOMAIN header |-> Len(header[i])]
  BY Measure!FoldOfNone
<1>2. DOMAIN <<>> = {}
  OBVIOUS
<1> QED  BY <1>1, <1>2 DEF IsWidth, Printable

LEMMA RowMayWiden ==
    ASSUME NEW header, NEW R, NEW rows \in Seq(R), NEW row \in R,
           Printable(header, Append(rows, row)),
           NEW i \in DOMAIN header, NEW w, IsWidth(w, header, rows, i)
    PROVE  IsWidth(IF Len(FieldText(row[i])) > w THEN Len(FieldText(row[i])) ELSE w,
                   header, Append(rows, row), i)
<1> DEFINE more == Append(rows, row)
           n == Len(FieldText(row[i]))
           before == {Len(header[i])} \cup {Len(FieldText(rows[k][i])) : k \in DOMAIN rows}
           after == {Len(header[i])} \cup {Len(FieldText(more[k][i])) : k \in DOMAIN more}
<1>1. /\ DOMAIN more = DOMAIN rows \cup {Len(rows) + 1}
      /\ more[Len(rows) + 1] = row
      /\ \A k \in DOMAIN rows : more[k] = rows[k]
  OBVIOUS
<1> HIDE DEF more
<1>2. after = before \cup {n}
  BY <1>1
<1>3. after \subseteq Nat
  <2>1. \A k \in DOMAIN more : Len(FieldText(more[k][i])) \in Nat
    BY DEF Printable, more
  <2> QED  BY <2>1 DEF Printable
<1>4. w \in before /\ \A m \in before : m <= w
  BY DEF IsWidth
<1> HIDE DEF before, n
<1>5. (IF n > w THEN n ELSE w) \in after /\ \A m \in after : m <= (IF n > w THEN n ELSE w)
  <2> HIDE DEF after
  <2>1. n \in Nat /\ w \in Nat /\ before \subseteq Nat
    BY <1>2, <1>3, <1>4
  <2> QED  BY <1>2, <1>4, <2>1
<1> QED  BY <1>5 DEF IsWidth, more, n

\* w is the array of the widths of the columns after these rows.
AreWidths(w, header, rows) ==
    /\ w = [i \in DOMAIN header |-> w[i]]
    /\ \A i \in DOMAIN header : IsWidth(w[i], header, rows, i)

\* Widening row by row gives the widths the columns need.
LEMMA WidthsAreMeasured ==
    ASSUME NEW header, NEW R
    PROVE  \A rows \in Seq(R) :
            Printable(header, rows) => AreWidths(Measure!Fold(header, rows), header, rows)
<1> DEFINE Good(rows) ==
            Printable(header, rows) => AreWidths(Measure!Fold(header, rows), header, rows)
           T == {rows \in Seq(R) : Good(rows)}
<1>1. Good(<<>>)
  BY WidthsOfNone DEF AreWidths
<1>2. ASSUME NEW rows \in Seq(R), NEW row \in R, Good(rows) PROVE Good(Append(rows, row))
  <2> DEFINE more == Append(rows, row)
             w == Measure!Fold(header, rows)
  <2> SUFFICES ASSUME Printable(header, more)
               PROVE  AreWidths(Measure!Fold(header, more), header, more)
    OBVIOUS
  <2>1. Printable(header, rows)
    <3>1. \A k \in DOMAIN rows : k \in DOMAIN more /\ more[k] = rows[k]
      OBVIOUS
    <3> QED  BY <3>1 DEF Printable
  <2>2. Measure!Fold(header, more) = Wider(w, row)
    BY Measure!FoldOfMore
  <2>3. AreWidths(w, header, rows)
    BY <1>2, <2>1
  <2> HIDE DEF w
  <2>4. DOMAIN w = DOMAIN header
    BY <2>3 DEF AreWidths
  <2>5. Wider(w, row) = [i \in DOMAIN header |->
            IF Len(FieldText(row[i])) > w[i] THEN Len(FieldText(row[i])) ELSE w[i]]
    BY <2>4 DEF Wider
  <2>6. ASSUME NEW i \in DOMAIN header PROVE IsWidth(Wider(w, row)[i], header, more, i)
    <3>1. IsWidth(w[i], header, rows, i)
      BY <2>3 DEF AreWidths
    <3>2. IsWidth(IF Len(FieldText(row[i])) > w[i] THEN Len(FieldText(row[i])) ELSE w[i],
                  header, more, i)
      BY <3>1, RowMayWiden
    <3> QED  BY <2>5, <3>2
  <2>7. Wider(w, row) = [i \in DOMAIN header |-> Wider(w, row)[i]]
    BY <2>5
  <2> QED  BY <2>2, <2>6, <2>7 DEF AreWidths
<1> HIDE DEF Good
<1>3. <<>> \in T /\ \A s \in Seq(R), e \in R : s \in T => Append(s, e) \in T
  BY <1>1, <1>2
<1>4. \A rows \in Seq(R) : rows \in T
  <2> HIDE DEF T
  <2> QED  BY <1>3, Measure!SeqInduction
<1> QED  BY <1>4 DEF Good

LEMMA PrintedWidthsAreWidths ==
    ASSUME NEW header, NEW R, NEW rows \in Seq(R), Printable(header, rows)
    PROVE  PrintedWidths(header, rows) = Widths(header, rows)
<1>1. PrintedWidths(header, rows) = Measure!Fold(header, rows)
  BY DEF PrintedWidths, Measure!Fold, FoldLeft, Measure!FoldLeft, MapThenFoldSet,
         Measure!MapThenFoldSet, Max, Measure!Max
<1> DEFINE w == Measure!Fold(header, rows)
           needed(i) == {Len(header[i])} \cup {Len(FieldText(rows[k][i])) : k \in DOMAIN rows}
<1>2. AreWidths(w, header, rows)
  BY WidthsAreMeasured
<1> HIDE DEF w
<1>3. ASSUME NEW i \in DOMAIN header PROVE Max(needed(i)) = w[i]
  <2>1. w[i] \in needed(i) /\ (\A n \in needed(i) : n <= w[i]) /\ needed(i) \subseteq Nat
    BY <1>2 DEF AreWidths, IsWidth, Printable
  <2> HIDE DEF needed
  <2> QED  BY <2>1 DEF Max
<1>4. w = [i \in DOMAIN header |-> Max(needed(i))]
  BY <1>2, <1>3 DEF AreWidths
<1> QED  BY <1>1, <1>4 DEF w, Widths

-----------------------------------------------------------------------------
(* What a SELECT shows *)

LEMMA ValueHasText ==
    ASSUME NEW v \in Value
    PROVE  Len(FieldText(v)) \in Nat
<1>1. CASE v \in [type : {"int"}, int : Int]
  <2>1. FieldText(v) \in Seq(Numerals \cup {"-"})
    BY <1>1, IntTextIsText DEF FieldText
  <2> QED  BY <2>1
<1>2. CASE v \in [type : {"text"}, text : Text]
  <2>1. FieldText(v) \in Seq(Bytes \cup {NL})
    BY <1>2 DEF FieldText, Text
  <2> QED  BY <2>1
<1> QED  BY <1>1, <1>2 DEF Value

LEMMA ColumnIsThere ==
    ASSUME NEW name, IsColumn(Schema, name)
    PROVE  ColumnIndex(Schema, name) \in DOMAIN Schema
<1> DEFINE found == {i \in DOMAIN Schema : Schema[i].name = name}
<1>1. found \in SUBSET Nat /\ found # {}
  BY ExecutorConstants DEF IsColumn
<1>2. Min(found) \in found
  <2> HIDE DEF found
  <2> QED  BY <1>1, Measure!FirstOf DEF Min, Measure!Min
<1> QED  BY <1>2 DEF ColumnIndex

LEMMA ProjectionIsPrintable ==
    ASSUME NEW columns \in Seq(Name), NEW rows \in Seq(Row),
           \A i \in DOMAIN columns : IsColumn(Schema, columns[i])
    PROVE  LET header == Header(Schema, columns)
               shown  == Projection(Schema, columns, rows)
           IN  /\ shown \in Seq([DOMAIN header -> Value])
               /\ DOMAIN shown = DOMAIN rows
               /\ Printable(header, shown)
<1> DEFINE header == Header(Schema, columns)
           shown  == Projection(Schema, columns, rows)
<1>1. DOMAIN header = (IF columns = <<>> THEN DOMAIN Schema ELSE DOMAIN columns)
  BY DEF Header
<1>2. shown \in Seq([DOMAIN header -> Value]) /\ DOMAIN shown = DOMAIN rows
  <2>1. CASE columns = <<>>
    BY <1>1, <2>1 DEF Projection, Row
  <2>2. CASE columns # <<>>
    <3> DEFINE pick(k) == [i \in DOMAIN columns |-> rows[k][ColumnIndex(Schema, columns[i])]]
    <3>1. ASSUME NEW k \in DOMAIN rows PROVE pick(k) \in [DOMAIN columns -> Value]
      <4>1. rows[k] \in Row
        OBVIOUS
      <4> QED  BY <4>1, ColumnIsThere DEF Row
    <3>2. shown = [k \in DOMAIN rows |-> pick(k)]
      BY <2>2 DEF Projection
    <3>3. DOMAIN rows = 1..Len(rows) /\ Len(rows) \in Nat
      OBVIOUS
    <3> HIDE DEF pick
    <3> QED  BY <1>1, <2>2, <3>1, <3>2, <3>3, IsASeq
  <2> QED  BY <2>1, <2>2
<1>3. \A i \in DOMAIN header : Len(header[i]) \in Nat
  BY ExecutorConstants DEF Header, Name
<1>4. ASSUME NEW k \in DOMAIN shown, NEW i \in DOMAIN header
      PROVE  Len(FieldText(shown[k][i])) \in Nat
  <2>1. shown[k] \in [DOMAIN header -> Value]
    BY <1>2, ElementOfSeq
  <2>2. shown[k][i] \in Value
    BY <2>1
  <2> QED  BY <2>2, ValueHasText
<1> HIDE DEF header, shown
<1>5. Printable(header, shown)
  BY <1>3, <1>4 DEF Printable
<1> QED  BY <1>2, <1>5 DEF header, shown

-----------------------------------------------------------------------------
(* The rows in the lists *)

\* In heap h, the list owns a block with exactly these rows, or nothing for no rows.
HoldsIn(h, list, rows) ==
    IF rows = <<>> THEN list = EmptyList
    ELSE list.block \in DOMAIN h /\ h[list.block] = rows /\ list.count = Len(rows)
Holds(list, rows) == HoldsIn(heap, list, rows)

Kept == Matching(Schema, Sql.where, table)
Chosen == Projection(Schema, Sql.columns, Kept)

Selecting == pc \in {"read", "filter", "release", "project", "drop", "print"}

\* What is known of the script wherever its execution is.
Typed ==
    /\ interactive \in BOOLEAN
    /\ script \in Seq(Statements)
    /\ pc \in {"ready", "execute", "failed", "stopped"} \/ Selecting
    /\ table \in Seq(Row)
    /\ failures \subseteq Nat
    /\ interactive \/ failures = {} \/ pc \in {"failed", "stopped"}
    /\ pc \notin {"ready", "failed", "stopped"} => script # <<>> /\ Len(script) - 1 < MaxStatements
    /\ Selecting => Sql.kind = "select" /\ Sql.table = TableName

\* Which rows each list holds at each place of execute_select_command.
Rows ==
    /\ pc = "read" => full.count \in 0..Len(table) /\ Holds(full, SubSeq(table, 1, full.count))
    /\ pc = "filter" => Holds(full, table)
    /\ pc = "release" => full = EmptyList \/ Holds(full, table)
    /\ pc \in {"release", "project", "drop"} => Holds(filtered, Kept)
    /\ pc \in {"drop", "print"} => Holds(result, Chosen) /\ KnownColumns
    /\ pc = "drop" => Sql.columns # <<>>
    /\ pc \in {"release", "project", "drop", "print"} => ValidWhere(Schema, Sql.where)

IInv == Inv /\ Typed /\ Rows

\* A list that holds rows counts them, and they are what is read from it.
LEMMA HeldRows ==
    ASSUME NEW h, NEW list, NEW R, NEW rows \in Seq(R), HoldsIn(h, list, rows)
    PROVE  /\ list.count = Len(rows)
           /\ (IF list.count = 0 THEN <<>> ELSE SubSeq(h[list.block], 1, list.count)) = rows
<1>1. CASE rows = <<>>
  BY <1>1 DEF HoldsIn, EmptyList
<1>2. CASE rows # <<>>
  <2>1. list.count = Len(rows) /\ h[list.block] = rows
    BY <1>2 DEF HoldsIn
  <2>2. Len(rows) # 0
    BY <1>2, EmptySeq
  <2>3. SubSeq(rows, 1, Len(rows)) = rows
    BY SubSeqFull
  <2> QED  BY <2>1, <2>2, <2>3
<1> QED  BY <1>1, <1>2

\* NULL is no address, so an empty list holds no rows but none.
LEMMA HoldsEmpty ==
    ASSUME NEW h, NULL \notin DOMAIN h, NEW rows, HoldsIn(h, EmptyList, rows)
    PROVE  rows = <<>>
BY EmptyIsNull DEF HoldsIn

\* A new block holds what is stored in it, and what other blocks hold stays.
LEMMA NewBlockHolds ==
    ASSUME NEW h, NEW b, NEW rows, rows # <<>>
    PROVE  HoldsIn(With(h, b, rows), [block |-> b, count |-> Len(rows)], rows)
BY DEF HoldsIn, With

LEMMA OtherBlocksStay ==
    ASSUME NEW h, NEW b, NEW rows, NEW list, NEW held,
           list.block # b, HoldsIn(h, list, held)
    PROVE  HoldsIn(With(h, b, rows), list, held) /\ HoldsIn(Without(h, b), list, held)
BY DEF HoldsIn, With, Without

LEMMA KeptHasType ==
    ASSUME table \in Seq(Row)
    PROVE  Kept \in Seq(Row)
BY MatchingHasType DEF Kept

\* A valid INSERT has a value for each column.
LEMMA InsertedIsRow ==
    ASSUME NEW sql \in Statements, ValidInsert(Schema, sql)
    PROVE  sql.values \in Row
<1>1. sql.values \in Seq(Value) /\ Len(sql.values) = Len(Schema)
  BY ExecutorConstants DEF ValidInsert
<1>2. DOMAIN Schema = 1..Len(Schema)
  BY ExecutorConstants
<1> QED  BY <1>1, <1>2 DEF Row

-----------------------------------------------------------------------------
(* Each step keeps what is known of the script *)

Place == {"ready", "execute", "failed", "stopped", "read", "filter", "release", "project", "drop",
          "print"}

LEMMA InitIInv == Init => IInv
<1> SUFFICES ASSUME Init PROVE IInv
  OBVIOUS
<1>1. Typed
  BY ExecutorConstants DEF Init, Typed, Selecting
<1>2. Rows
  BY DEF Init, Rows
<1> QED  BY <1>1, <1>2, InitInv DEF IInv

LEMMA FailsTyped ==
    ASSUME Typed, NEW left, FailsWith(left), pc \notin {"ready", "failed", "stopped"},
           table' \in Seq(Row)
    PROVE  Typed'
<1>1. Len(script) \in Nat
  BY DEF Typed
<1> QED  BY <1>1 DEF Typed, FailsWith, Leave, Selecting

LEMMA ShowsTyped ==
    ASSUME Typed, NEW what, Shows(what), pc \notin {"ready", "failed", "stopped"}, table' \in Seq(Row)
    PROVE  Typed'
BY DEF Typed, Shows, Leave, Selecting

LEMMA GotoTyped ==
    ASSUME Typed, NEW place \in Place \ {"ready", "execute", "failed", "stopped"}, Goto(place),
           pc \notin {"ready", "failed", "stopped"},
           Sql.kind = "select" /\ Sql.table = TableName
    PROVE  Typed'
BY DEF Typed, Goto, Selecting, Sql, Place

LEMMA TypedStep == IInv /\ [Next]_vars => Typed'
<1> SUFFICES ASSUME IInv, [Next]_vars PROVE Typed'
  OBVIOUS
<1>0. Typed
  BY DEF IInv
<1>1. CASE UNCHANGED vars
  BY <1>0, <1>1 DEF vars, Typed, Selecting, Sql
<1>2. CASE NextStatement
  BY <1>0, <1>2 DEF NextStatement, Typed, Selecting
<1>3. CASE RejectStatement \/ ReadFails \/ FilterFails \/ UnknownColumn \/ ProjectFails
  <2>1. PICK left : FailsWith(left) /\ table' = table /\ pc \notin {"ready", "failed", "stopped"}
    BY <1>3 DEF RejectStatement, ReadFails, FilterFails, UnknownColumn, ProjectFails, Fails
  <2> QED  BY <1>0, <2>1, FailsTyped DEF Typed
<1>4. CASE ExecuteInsert \/ AppendFails
  <2>1. pc = "execute" /\ ValidInsert(Schema, Sql)
    BY <1>4 DEF ExecuteInsert, AppendFails, Accepted
  <2>2. Sql \in Statements
    BY <1>0, <2>1 DEF Typed, Sql
  <2>3. Append(table, Sql.values) \in Seq(Row) /\ table \in Seq(Row)
    BY <1>0, <2>1, <2>2, InsertedIsRow DEF Typed
  <2>4. table' \in Seq(Row)
    BY <1>4, <2>3 DEF ExecuteInsert, AppendFails
  <2> QED  BY <1>0, <1>4, <2>1, <2>4, FailsTyped, ShowsTyped DEF ExecuteInsert, AppendFails, Fails
<1>5. CASE \/ BeginSelect \/ ReadRow \/ ReadEnds \/ FilterMoves \/ FilterCopies \/ ReleaseFull
           \/ ProjectMoves \/ ProjectCopies \/ DropFiltered
  <2>1. /\ pc \notin {"ready", "failed", "stopped"}
        /\ \E place \in Place \ {"ready", "execute", "failed", "stopped"} : Goto(place)
    BY <1>5 DEF BeginSelect, ReadRow, ReadEnds, FilterMoves, FilterCopies, ReleaseFull,
                ProjectMoves, ProjectCopies, DropFiltered, Place
  <2>2. Sql.kind = "select" /\ Sql.table = TableName
    BY <1>0, <1>5 DEF Typed, Selecting, BeginSelect, ReadRow, ReadEnds, FilterMoves,
        FilterCopies, ReleaseFull, ProjectMoves, ProjectCopies, DropFiltered
  <2> QED  BY <1>0, <2>1, <2>2, GotoTyped
<1>6. CASE PrintResult
  <2>1. pc = "print" /\ table' = table /\ \E what : Shows(what)
    BY <1>6 DEF PrintResult
  <2> QED  BY <1>0, <2>1, ShowsTyped DEF Typed
<1>7. CASE ReportFailure
  BY <1>0, <1>7 DEF ReportFailure, Leave, Typed, Selecting
<1> QED  BY <1>1, <1>2, <1>3, <1>4, <1>5, <1>6, <1>7 DEF Next, Finished

-----------------------------------------------------------------------------
(* Each step keeps the rows where they belong *)

\* Between statements no list is looked at.
LEMMA EndRows ==
    ASSUME pc' \in {"ready", "execute", "failed", "stopped"}
    PROVE  Rows'
BY DEF Rows

LEMMA SameQuery ==
    ASSUME NEW place, Goto(place)
    PROVE  /\ Kept' = Kept /\ Chosen' = Chosen /\ Sql' = Sql /\ table' = table
           /\ KnownColumns' = KnownColumns
BY DEF Goto, Kept, Chosen, Sql, KnownColumns

LEMMA ReadRowRows ==
    ASSUME IInv, ReadRow
    PROVE  Rows'
<1> DEFINE n == full.count
<1>1. pc = "read" /\ pc' = "read" /\ table' = table /\ n < Len(table)
  BY DEF ReadRow, Goto
<1>2. n \in 0..Len(table) /\ HoldsIn(heap, full, SubSeq(table, 1, n)) /\ table \in Seq(Row)
  BY <1>1 DEF IInv, Rows, Holds, Typed
<1>3. SubSeq(table, 1, n) \in Seq(Row)
  BY <1>1, <1>2, SubSeqProperties
<1>4. RowsIn(full) = SubSeq(table, 1, n)
  BY <1>2, <1>3, HeldRows DEF RowsIn
<1> DEFINE more == Append(SubSeq(table, 1, n), table[n + 1])
<1>5. more = SubSeq(table, 1, n + 1) /\ Len(more) = n + 1 /\ more # <<>>
  <2>1. 1 \in 1..Len(table) /\ n + 1 \in 1..Len(table) /\ (n + 1) - 1 = n
    BY <1>1, <1>2
  <2>2. SubSeq(table, 1, n + 1) = more
    <3>1. SubSeq(table, 1, n + 1) = SubSeq(table, 1, (n + 1) - 1) \o <<table[n + 1]>>
      BY <2>1, <1>2, SubSeqRecursiveSecond
    <3>2. more = SubSeq(table, 1, n) \o <<table[n + 1]>>
      BY <2>1, <1>2, <1>3, AppendIsConcat, ElementOfSeq
    <3> HIDE DEF more
    <3> QED  BY <2>1, <3>1, <3>2
  <2>3. Len(SubSeq(table, 1, n + 1)) = n + 1
    BY <2>1, <1>2, SubSeqProperties
  <2>4. Len(more) = n + 1
    BY <2>2, <2>3
  <2> HIDE DEF more
  <2>5. more # <<>>
    BY <2>1, <2>4
  <2> QED  BY <2>2, <2>4, <2>5
<1>6. PICK b : heap' = With(Without(heap, full.block), b, more)
               /\ full' = [block |-> b, count |-> n + 1]
  BY <1>4 DEF ReadRow
<1> HIDE DEF more
<1>7. HoldsIn(heap', full', more)
  BY <1>5, <1>6, NewBlockHolds
<1>8. full'.count = n + 1 /\ n + 1 \in 0..Len(table)
  BY <1>1, <1>2, <1>6
<1> QED  BY <1>1, <1>5, <1>7, <1>8 DEF Rows, Holds

LEMMA FilterCopiesRows ==
    ASSUME IInv, FilterCopies
    PROVE  Rows'
<1>1. /\ pc = "filter" /\ pc' = "release" /\ full' = full
      /\ Sql.where # <<>> /\ ValidWhere(Schema, Sql.where)
  BY DEF FilterCopies, Goto
<1>2. Kept' = Kept /\ Sql' = Sql /\ table' = table
  BY SameQuery DEF FilterCopies
<1>3. HoldsIn(heap, full, table) /\ table \in Seq(Row) /\ filtered = EmptyList
  BY <1>1 DEF IInv, Rows, Holds, Typed, Inv, Phases
<1>4. RowsIn(full) = table
  BY <1>3, HeldRows DEF RowsIn
<1>5. CASE Kept = <<>>
  <2>1. UNCHANGED <<heap, filtered>>
    BY <1>4, <1>5 DEF FilterCopies, Kept
  <2>2. HoldsIn(heap', filtered', Kept')
    BY <1>2, <1>3, <1>5, <2>1 DEF HoldsIn
  <2> QED  BY <1>1, <1>2, <1>3, <2>1, <2>2 DEF Rows, Holds
<1>6. CASE Kept # <<>>
  <2>1. PICK b \in Unused : /\ heap' = With(heap, b, Kept)
                            /\ filtered' = [block |-> b, count |-> Len(Kept)]
    BY <1>4, <1>6 DEF FilterCopies, Kept
  <2>2. HoldsIn(heap', filtered', Kept')
    BY <1>2, <1>6, <2>1, NewBlockHolds
  <2>3. full = EmptyList \/ HoldsIn(heap', full, table)
    <3>1. full = EmptyList \/ full.block \in DOMAIN heap
      BY <1>3 DEF HoldsIn
    <3> QED  BY <1>3, <2>1, <3>1, OtherBlocksStay DEF Unused
  <2> QED  BY <1>1, <1>2, <2>2, <2>3 DEF Rows, Holds
<1> QED  BY <1>5, <1>6

LEMMA ReleaseFullRows ==
    ASSUME IInv, ReleaseFull
    PROVE  Rows'
<1>1. /\ pc = "release" /\ pc' = "project" /\ filtered' = filtered
      /\ heap' = Without(heap, full.block)
  BY DEF ReleaseFull, Goto
<1>2. Kept' = Kept /\ Sql' = Sql /\ table' = table
  BY SameQuery DEF ReleaseFull
<1>3. HoldsIn(heap, filtered, Kept) /\ ValidWhere(Schema, Sql.where)
  BY <1>1 DEF IInv, Rows, Holds
<1>4. CASE filtered = EmptyList
  <2>1. Kept = <<>>
    BY <1>3, <1>4, HoldsEmpty DEF IInv, Inv, MemoryOwned
  <2>2. HoldsIn(heap', filtered', Kept')
    BY <1>1, <1>2, <1>4, <2>1 DEF HoldsIn
  <2> QED  BY <1>1, <1>2, <1>3, <2>2 DEF Rows, Holds
<1>5. CASE filtered # EmptyList
  <2>1. filtered.block \in DOMAIN heap
    BY <1>3, <1>5 DEF HoldsIn
  <2>2. filtered.block # full.block
    BY <2>1 DEF IInv, Inv, MemoryOwned
  <2>3. HoldsIn(heap', filtered', Kept')
    BY <1>1, <1>2, <1>3, <2>2, OtherBlocksStay
  <2> QED  BY <1>1, <1>2, <1>3, <2>3 DEF Rows, Holds
<1> QED  BY <1>4, <1>5

LEMMA ProjectCopiesRows ==
    ASSUME IInv, ProjectCopies
    PROVE  Rows'
<1>1. /\ pc = "project" /\ pc' = "drop" /\ filtered' = filtered
      /\ Sql.columns # <<>> /\ KnownColumns
  BY DEF ProjectCopies, Goto
<1>2. /\ Kept' = Kept /\ Chosen' = Chosen /\ Sql' = Sql /\ table' = table
      /\ KnownColumns' = KnownColumns
  BY SameQuery DEF ProjectCopies
<1>3. /\ HoldsIn(heap, filtered, Kept) /\ ValidWhere(Schema, Sql.where)
      /\ Kept \in Seq(Row) /\ result = EmptyList
  BY <1>1, KeptHasType DEF IInv, Rows, Holds, Typed, Inv, Phases
<1>4. RowsIn(filtered) = Kept /\ filtered.count = Len(Kept)
  BY <1>3, HeldRows DEF RowsIn
<1>5. Len(Chosen) = Len(Kept) /\ (Chosen = <<>> <=> Kept = <<>>)
  <2>1. Chosen = [k \in DOMAIN Kept |->
                    [i \in DOMAIN Sql.columns |-> Kept[k][ColumnIndex(Schema, Sql.columns[i])]]]
    BY <1>1 DEF Chosen, Projection
  <2>2. DOMAIN Kept = 1..Len(Kept) /\ Len(Kept) \in Nat
    BY <1>3
  <2> QED  BY <2>1, <2>2, <1>3
<1>6. CASE Kept = <<>>
  <2>1. UNCHANGED <<heap, result>>
    BY <1>4, <1>6 DEF ProjectCopies
  <2>2. HoldsIn(heap', result', Chosen') /\ HoldsIn(heap', filtered', Kept')
    BY <1>1, <1>2, <1>3, <1>5, <1>6, <2>1 DEF HoldsIn
  <2> QED  BY <1>1, <1>2, <1>3, <2>1, <2>2 DEF Rows, Holds
<1>7. CASE Kept # <<>>
  <2>1. PICK b \in Unused : /\ heap' = With(heap, b, Chosen)
                            /\ result' = [block |-> b, count |-> Len(Chosen)]
    <3>1. filtered.count # 0
      BY <1>3, <1>4, <1>7, EmptySeq
    <3> QED  BY <1>4, <1>5, <3>1 DEF ProjectCopies, Chosen
  <2>2. HoldsIn(heap', result', Chosen')
    BY <1>2, <1>5, <1>7, <2>1, NewBlockHolds
  <2>3. filtered.block \in DOMAIN heap
    BY <1>3, <1>7 DEF HoldsIn
  <2>4. HoldsIn(heap', filtered', Kept')
    BY <1>1, <1>2, <1>3, <2>1, <2>3, OtherBlocksStay DEF Unused
  <2> QED  BY <1>1, <1>2, <1>3, <2>2, <2>4 DEF Rows, Holds
<1> QED  BY <1>6, <1>7

LEMMA DropFilteredRows ==
    ASSUME IInv, DropFiltered
    PROVE  Rows'
<1>1. /\ pc = "drop" /\ pc' = "print" /\ result' = result
      /\ heap' = Without(heap, filtered.block)
  BY DEF DropFiltered, Goto
<1>2. Chosen' = Chosen /\ Sql' = Sql /\ KnownColumns' = KnownColumns
  BY SameQuery DEF DropFiltered
<1>3. HoldsIn(heap, result, Chosen) /\ ValidWhere(Schema, Sql.where) /\ KnownColumns
  BY <1>1 DEF IInv, Rows, Holds
<1>4. HoldsIn(heap', result', Chosen')
  <2>1. CASE Chosen = <<>>
    BY <1>1, <1>2, <1>3, <2>1 DEF HoldsIn
  <2>2. CASE Chosen # <<>>
    <3>1. result.block \in DOMAIN heap
      BY <1>3, <2>2 DEF HoldsIn
    <3>2. result.block # filtered.block
      BY <3>1 DEF IInv, Inv, MemoryOwned
    <3> QED  BY <1>1, <1>2, <1>3, <3>2, OtherBlocksStay
  <2> QED  BY <2>1, <2>2
<1> QED  BY <1>1, <1>2, <1>3, <1>4 DEF Rows, Holds

LEMMA RowsStep == IInv /\ [Next]_vars => Rows'
<1> SUFFICES ASSUME IInv, [Next]_vars PROVE Rows'
  OBVIOUS
<1>0. Rows /\ Phases /\ table \in Seq(Row)
  BY DEF IInv, Inv, Typed
<1>1. CASE UNCHANGED vars
  BY <1>0, <1>1 DEF vars, lists, Rows, Holds, Kept, Chosen, Sql, KnownColumns
<1>2. CASE NextStatement
  BY <1>2, EndRows DEF NextStatement
<1>3. CASE \/ RejectStatement \/ ReadFails \/ FilterFails \/ UnknownColumn \/ ProjectFails
           \/ ExecuteInsert \/ AppendFails \/ PrintResult \/ ReportFailure
  BY <1>3, EndRows, EndPlaces DEF RejectStatement, ReadFails, FilterFails, UnknownColumn,
        ProjectFails, ExecuteInsert, AppendFails, PrintResult
<1>4. CASE BeginSelect
  <2>1. pc = "execute" /\ pc' = "read" /\ table' = table /\ UNCHANGED lists
    BY <1>4 DEF BeginSelect, Goto
  <2>2. full' = EmptyList /\ full'.count = 0
    BY <1>0, <2>1 DEF Phases, lists, EmptyList
  <2>3. SubSeq(table', 1, 0) = <<>> /\ 0 \in 0..Len(table')
    BY <1>0, <2>1
  <2> QED  BY <2>1, <2>2, <2>3 DEF Rows, Holds, HoldsIn
<1>5. CASE ReadRow
  BY <1>5, ReadRowRows
<1>6. CASE ReadEnds
  <2>1. pc = "read" /\ pc' = "filter" /\ table' = table /\ UNCHANGED lists
    BY <1>6 DEF ReadEnds, Goto
  <2>2. SubSeq(table, 1, full.count) = table
    BY <1>0, <1>6, SubSeqFull DEF ReadEnds
  <2> QED  BY <1>0, <2>1, <2>2 DEF Rows, Holds, lists
<1>7. CASE FilterMoves
  <2>1. /\ pc = "filter" /\ pc' = "release" /\ Sql' = Sql /\ Kept' = Kept /\ table' = table
        /\ Sql.where = <<>> /\ filtered' = full /\ full' = EmptyList /\ heap' = heap
    BY <1>7, SameQuery DEF FilterMoves, Goto
  <2>2. Kept = table
    BY <2>1 DEF Kept, Matching
  <2> QED  BY <1>0, <2>1, <2>2 DEF Rows, Holds, ValidWhere
<1>8. CASE FilterCopies
  BY <1>8, FilterCopiesRows
<1>9. CASE ReleaseFull
  BY <1>9, ReleaseFullRows
<1>10. CASE ProjectMoves
  <2>1. /\ pc = "project" /\ pc' = "print" /\ Sql' = Sql /\ Chosen' = Chosen
        /\ KnownColumns' = KnownColumns
        /\ Sql.columns = <<>> /\ result' = filtered /\ heap' = heap
    BY <1>10, SameQuery DEF ProjectMoves, Goto
  <2>2. Chosen = Kept /\ KnownColumns
    BY <2>1 DEF Chosen, Projection, KnownColumns
  <2> QED  BY <1>0, <2>1, <2>2 DEF Rows, Holds
<1>11. CASE ProjectCopies
  BY <1>11, ProjectCopiesRows
<1>12. CASE DropFiltered
  BY <1>12, DropFilteredRows
<1> QED  BY <1>1, <1>2, <1>3, <1>4, <1>5, <1>6, <1>7, <1>8, <1>9, <1>10, <1>11, <1>12
         DEF Next, Finished

LEMMA StepIInv == IInv /\ [Next]_vars => IInv'
BY StepInv, TypedStep, RowsStep DEF IInv

-----------------------------------------------------------------------------
(* The abstract session: its operators are those of module Sql *)

LEMMA SameMatching ==
    \A schema, where, rows : Session!Matching(schema, where, rows) = Matching(schema, where, rows)
BY DEF Session!Matching, Matching, Session!FoldLeft, FoldLeft, Session!MapThenFoldSet,
    MapThenFoldSet, Session!Max, Max, Session!Meets, Meets, Session!ColumnIndex, ColumnIndex,
    Session!Min, Min

LEMMA SameProjection ==
    \A schema, columns, rows :
        Session!Projection(schema, columns, rows) = Projection(schema, columns, rows)
BY DEF Session!Projection, Projection, Session!ColumnIndex, ColumnIndex, Session!Min, Min

LEMMA SameHeader == \A schema, columns : Session!Header(schema, columns) = Header(schema, columns)
BY DEF Session!Header, Header

LEMMA SameWidths == \A header, rows : Session!Widths(header, rows) = Widths(header, rows)
BY DEF Session!Widths, Widths, Session!Max, Max, Session!FieldText, FieldText, Session!IntText,
    IntText, Session!NatText, NatText, Session!Digits, Digits

LEMMA SameSelect ==
    \A schema, sql, rows : Session!SelectShown(schema, sql, rows) = SelectShown(schema, sql, rows)
BY SameMatching, SameProjection, SameHeader, SameWidths
   DEF Session!SelectShown, SelectShown, Session!Shown, Shown

LEMMA SameInsert == Session!InsertShown = InsertShown
BY DEF Session!InsertShown, InsertShown, Session!Shown, Shown

LEMMA SameSerialize == \A row : Session!Serialize(row) = Serialize(row)
BY DEF Session!Serialize, Serialize, Session!CommaFields, CommaFields, Session!FoldLeft, FoldLeft,
    Session!MapThenFoldSet, MapThenFoldSet, Session!Max, Max,
    Session!FieldText, FieldText, Session!IntText, IntText, Session!NatText, NatText,
    Session!Digits, Digits

LEMMA SameStorable ==
    \A schema, values : Session!Storable(schema, values) = Storable(schema, values)
<1>1. \A t : Session!ValidText(t) = ValidText(t)
  BY DEF Session!ValidText, ValidText, Session!NL, NL, Session!CR, CR, Session!DQ, DQ
<1>2. \A schema, values : Session!ValidRow(schema, values) = ValidRow(schema, values)
  BY <1>1 DEF Session!ValidRow, ValidRow
<1>3. Session!Line = Line
  BY DEF Session!Line, Line
<1> QED  BY <1>2, <1>3, SameSerialize DEF Session!Storable, Storable

LEMMA SameValid ==
    \A schema, sql : /\ Session!ValidInsert(schema, sql) = ValidInsert(schema, sql)
                     /\ Session!ValidSelect(schema, sql) = ValidSelect(schema, sql)
                     /\ Session!Valid(schema, sql) = Valid(schema, sql)
<1>1. \A literal, type : Session!Castable(literal, type) = Castable(literal, type)
  BY DEF Session!Castable, Castable
<1>2. \A schema : Session!Types(schema) = Types(schema)
  BY DEF Session!Types, Types
<1>3. \A schema, name : /\ Session!IsColumn(schema, name) = IsColumn(schema, name)
                        /\ Session!ColumnIndex(schema, name) = ColumnIndex(schema, name)
  BY DEF Session!IsColumn, IsColumn, Session!ColumnIndex, ColumnIndex, Session!Min, Min
<1>4. \A schema, where : Session!ValidWhere(schema, where) = ValidWhere(schema, where)
  BY <1>1, <1>3 DEF Session!ValidWhere, ValidWhere
<1>5. \A schema, sql : Session!ValidInsert(schema, sql) = ValidInsert(schema, sql)
  BY <1>1, <1>2, SameStorable DEF Session!ValidInsert, ValidInsert
<1>6. \A schema, sql : Session!ValidSelect(schema, sql) = ValidSelect(schema, sql)
  BY <1>3, <1>4 DEF Session!ValidSelect, ValidSelect
<1> QED  BY <1>5, <1>6 DEF Session!Valid, Valid

-----------------------------------------------------------------------------
(* Each step is a step of the session, or none *)

\* While a statement is executed, the session is still before it.
LEMMA Stutters ==
    ASSUME Typed, pc \notin {"ready", "failed", "stopped"}, pc' \notin {"ready", "failed", "stopped"},
           UNCHANGED <<interactive, script, table, output, failures>>
    PROVE  UNCHANGED Session!vars
BY DEF Session!vars, Ended

\* The end of the statement is where the session takes it.
LEMMA StatementEnds ==
    ASSUME Typed, NEW left, Leave(left),
           pc \notin {"ready", "failed", "stopped"}, pc' \in {"ready", "failed", "stopped"}
    PROVE  Sql \in Statements /\ Session!Ends(Sql) /\ Len(Ended) + 1 = Len(script)
<1>1. script \in Seq(Statements) /\ script # <<>> /\ Len(script) - 1 < MaxStatements
  BY DEF Typed
<1>2. PICK before \in Seq(Statements), last \in Statements : script = Append(before, last)
  BY <1>1, SequenceEmptyOrAppend
<1>3. Len(script) = Len(before) + 1 /\ script[Len(script)] = last
  BY <1>2
<1>4. SubSeq(script, 1, Len(script) - 1) = before
  BY <1>2, <1>3
<1>5. Ended = before /\ Ended' = script /\ Sql = last
  BY <1>3, <1>4 DEF Ended, Sql, Leave
<1>6. Len(before) = Len(script) - 1
  BY <1>2, <1>3
<1>7. interactive' = interactive /\ (interactive \/ failures = {})
  BY DEF Leave, Typed
<1> QED  BY <1>1, <1>2, <1>3, <1>5, <1>6, <1>7 DEF Session!Ends

\* A statement that fails without an effect, because it is bad or something broke.
LEMMA FailureIsSession ==
    ASSUME Typed, NEW left, FailsWith(left), pc \notin {"ready", "failed", "stopped"},
           UNCHANGED table, Faults # {} \/ ~ Session!Good(Sql)
    PROVE  Session!Next
<1>1. Leave(left) /\ pc' = "failed" /\ UNCHANGED output
      /\ failures' = failures \cup {Len(script)}
  BY DEF FailsWith
<1>2. Sql \in Statements /\ Session!Ends(Sql) /\ Len(Ended) + 1 = Len(script)
  BY <1>1, StatementEnds
<1>3. Session!Fail(Sql)
  BY <1>1, <1>2 DEF Session!Fail
<1> QED  BY <1>2, <1>3 DEF Session!Next

LEMMA InsertIsSession ==
    ASSUME Typed, ExecuteInsert \/ AppendFails
    PROVE  Session!Next
<1>1. pc = "execute" /\ Sql.kind = "insert" /\ Accepted
  BY DEF ExecuteInsert, AppendFails
<1>2. Session!Good(Sql)
  BY <1>1, SameValid DEF Session!Good, Accepted, Valid
<1>3. Leave(EmptyList) /\ pc' \in {"ready", "failed", "stopped"}
  BY EndPlaces DEF ExecuteInsert, AppendFails
<1>4. Sql \in Statements /\ Session!Ends(Sql) /\ Len(Ended) + 1 = Len(script)
  BY <1>1, <1>3, StatementEnds
<1>5. CASE ExecuteInsert
  <2>1. /\ table' = Append(table, Sql.values) /\ output' = Append(output, Session!InsertShown)
        /\ UNCHANGED failures
    BY <1>5, SameInsert DEF ExecuteInsert, Shows
  <2>2. Session!Insert(Sql)
    BY <1>1, <1>2, <1>4, <2>1 DEF Session!Insert
  <2> QED  BY <1>4, <2>2 DEF Session!Next
<1>6. CASE AppendFails
  <2>1. /\ Faults # {} /\ UNCHANGED output /\ failures' = failures \cup {Len(Ended) + 1}
        /\ table' \in {table, Append(table, Sql.values)}
    BY <1>4, <1>6 DEF AppendFails, Fails, FailsWith
  <2>2. Session!Fail(Sql)
    BY <1>1, <1>2, <1>4, <2>1 DEF Session!Fail
  <2> QED  BY <1>4, <2>2 DEF Session!Next
<1> QED  BY <1>5, <1>6

\* What PrintResult prints is what the statement means for the table.
LEMMA PrintIsSession ==
    ASSUME IInv, PrintResult
    PROVE  Session!Next
<1>1. pc = "print" /\ Typed /\ Rows /\ UNCHANGED table
  BY DEF IInv, PrintResult
<1>2. Sql.kind = "select" /\ Sql.table = TableName /\ KnownColumns /\ ValidWhere(Schema, Sql.where)
      /\ HoldsIn(heap, result, Chosen) /\ table \in Seq(Row)
  BY <1>1 DEF Typed, Selecting, Rows, Holds
<1>3. Leave(EmptyList) /\ pc' = "ready" /\ UNCHANGED failures
  BY EndPlaces DEF PrintResult, Shows
<1>4. Sql \in Statements /\ Session!Ends(Sql)
  BY <1>1, <1>3, StatementEnds
<1>5. Session!Good(Sql)
  BY <1>2, SameValid DEF Session!Good, Valid, ValidSelect, KnownColumns
<1> DEFINE header == Header(Schema, Sql.columns)
<1>6. Chosen \in Seq([DOMAIN header -> Value]) /\ Printable(header, Chosen)
  <2>1. Sql.columns \in Seq(Name) /\ Kept \in Seq(Row)
    BY <1>2, <1>4, ExecutorConstants, KeptHasType
  <2> QED  BY <1>2, <2>1, ProjectionIsPrintable DEF Chosen, KnownColumns
<1>7. RowsIn(result) = Chosen
  BY <1>2, <1>6, HeldRows DEF RowsIn
<1>8. PrintedWidths(header, Chosen) = Widths(header, Chosen)
  BY <1>6, PrintedWidthsAreWidths
<1>9. output' = Append(output, SelectShown(Schema, Sql, table))
  BY <1>7, <1>8 DEF PrintResult, Shows, SelectShown, Chosen, Kept
<1>10. Session!Select(Sql)
  BY <1>1, <1>2, <1>3, <1>4, <1>5, <1>9, SameSelect DEF Session!Select
<1> QED  BY <1>4, <1>10 DEF Session!Next

LEMMA SessionStep == IInv /\ [Next]_vars => [Session!Next]_(Session!vars)
<1> SUFFICES ASSUME IInv, [Next]_vars PROVE [Session!Next]_(Session!vars)
  OBVIOUS
<1>0. Typed
  BY DEF IInv
<1>1. CASE UNCHANGED vars
  BY <1>1 DEF vars, Session!vars, Ended
<1>2. CASE NextStatement
  <2>1. PICK sql \in Statements : script' = Append(script, sql)
    BY <1>2 DEF NextStatement
  <2>2. script \in Seq(Statements)
    BY <1>0 DEF Typed
  <2>3. SubSeq(script', 1, Len(script') - 1) = script
    BY <2>1, <2>2
  <2>4. Ended' = Ended
    BY <1>2, <2>3 DEF NextStatement, Ended
  <2> QED  BY <1>2, <2>4 DEF NextStatement, Session!vars
<1>3. CASE RejectStatement
  <2>1. ~ Session!Good(Sql)
    BY <1>3, SameValid DEF RejectStatement, Session!Good, Valid
  <2> QED  BY <1>0, <1>3, <2>1, FailureIsSession DEF RejectStatement, Fails
<1>4. CASE ReadFails
  BY <1>0, <1>4, FailureIsSession DEF ReadFails, Fails
<1>5. CASE FilterFails
  <2>1. Sql.kind = "select"
    BY <1>0, <1>5 DEF Typed, Selecting, FilterFails
  <2>2. Faults # {} \/ ~ Session!Good(Sql)
    BY <1>5, <2>1, SameValid DEF FilterFails, Session!Good, Valid, ValidSelect
  <2> QED  BY <1>0, <1>5, <2>2, FailureIsSession DEF FilterFails, Fails
<1>6. CASE UnknownColumn \/ ProjectFails
  <2>1. Sql.kind = "select"
    BY <1>0, <1>6 DEF Typed, Selecting, UnknownColumn, ProjectFails
  <2>2. Faults # {} \/ ~ Session!Good(Sql)
    BY <1>6, <2>1, SameValid DEF UnknownColumn, ProjectFails, Session!Good, Valid, ValidSelect,
        KnownColumns
  <2> QED  BY <1>0, <1>6, <2>2, FailureIsSession DEF UnknownColumn, ProjectFails, Fails
<1>7. CASE ExecuteInsert \/ AppendFails
  BY <1>0, <1>7, InsertIsSession
<1>8. CASE \/ BeginSelect \/ ReadRow \/ ReadEnds \/ FilterMoves \/ FilterCopies \/ ReleaseFull
           \/ ProjectMoves \/ ProjectCopies \/ DropFiltered
  <2>1. /\ pc \notin {"ready", "failed", "stopped"} /\ pc' \notin {"ready", "failed", "stopped"}
        /\ UNCHANGED <<interactive, script, table, output, failures>>
    BY <1>8 DEF BeginSelect, ReadRow, ReadEnds, FilterMoves, FilterCopies, ReleaseFull,
                ProjectMoves, ProjectCopies, DropFiltered, Goto
  <2> QED  BY <1>0, <2>1, Stutters
<1>9. CASE PrintResult
  BY <1>9, PrintIsSession
<1>10. CASE ReportFailure
  BY <1>10 DEF ReportFailure, Leave, Session!vars, Ended
<1> QED  BY <1>1, <1>2, <1>3, <1>4, <1>5, <1>6, <1>7, <1>8, <1>9, <1>10 DEF Next, Finished

LEMMA SessionStart == Init => Session!Init
BY DEF Init, Session!Init, Ended

\* The steps of execute_command, with every early return and failing allocation,
\* amount to the meaning of each statement: the rows it adds or shows, the widths
\* of the columns, and a batch that stops at its first failure.
THEOREM ExecutorIsASession == Spec => SessionSpec
<1>1. Spec => []IInv
  BY InitIInv, StepIInv, PTL DEF Spec
<1> QED  BY <1>1, SessionStart, SessionStep, PTL DEF Spec, SessionSpec, Session!Spec

-----------------------------------------------------------------------------
(* Lists and their bounds *)

LEMMA HeldInBounds ==
    ASSUME NEW h, NULL \notin DOMAIN h, NEW list, NEW R, NEW rows \in Seq(R), HoldsIn(h, list, rows)
    PROVE  IF list.block = NULL THEN list.count = 0 ELSE list.count \in 1..Len(h[list.block])
<1>1. CASE rows = <<>>
  BY <1>1 DEF HoldsIn, EmptyList
<1>2. CASE rows # <<>>
  <2>1. list.block # NULL /\ list.count = Len(rows) /\ h[list.block] = rows
    BY <1>2 DEF HoldsIn
  <2>2. Len(rows) \in Nat /\ Len(rows) # 0
    BY <1>2, EmptySeq
  <2> QED  BY <2>1, <2>2
<1> QED  BY <1>1, <1>2

LEMMA IInvInBounds == IInv => InBounds
<1> SUFFICES ASSUME IInv PROVE InBounds
  OBVIOUS
<1>0. NULL \notin DOMAIN heap /\ table \in Seq(Row) /\ Typed /\ Rows /\ Phases
  BY DEF IInv, Inv, MemoryOwned, Typed
<1>1. Fits(EmptyList)
  BY DEF EmptyList, Fits
<1>2. Fits(full)
  <2>1. CASE pc = "read"
    <3>1. SubSeq(table, 1, full.count) \in Seq(Row)
      BY <1>0, <2>1, SubSeqProperties DEF Rows
    <3> QED  BY <1>0, <2>1, <3>1, HeldInBounds DEF Rows, Holds, Fits
  <2>2. CASE pc = "filter" \/ pc = "release"
    BY <1>0, <1>1, <2>2, HeldInBounds DEF Rows, Holds, Fits
  <2> QED  BY <1>0, <1>1, <2>1, <2>2 DEF Phases
<1>3. Fits(filtered)
  <2>1. CASE pc \in {"release", "project", "drop"}
    BY <1>0, <2>1, KeptHasType, HeldInBounds DEF Rows, Holds, Fits
  <2> QED  BY <1>0, <1>1, <2>1 DEF Phases
<1>4. pc # "failed" => Fits(result)
  <2>1. CASE pc \in {"drop", "print"}
    <3>1. Sql \in Statements
      BY <1>0, <2>1 DEF Typed, Sql
    <3>2. Chosen \in Seq([DOMAIN Header(Schema, Sql.columns) -> Value])
      BY <1>0, <2>1, <3>1, ExecutorConstants, KeptHasType, ProjectionIsPrintable
         DEF Rows, Chosen, KnownColumns
    <3> QED  BY <1>0, <2>1, <3>2, HeldInBounds DEF Rows, Holds, Fits
  <2> QED  BY <1>0, <1>1, <2>1 DEF Phases
<1> QED  BY <1>2, <1>3, <1>4 DEF InBounds

\* A row list that may be read never counts a row that its block does not hold,
\* whatever realloc and calloc answer; only a result that execute_command returned
\* with -1 may.
THEOREM ListsStayInBounds == Spec => []InBounds
<1>1. Spec => []IInv
  BY InitIInv, StepIInv, PTL DEF Spec
<1> QED  BY <1>1, IInvInBounds, PTL

\* The lists stay pairs of an address and a count, and blocks are where malloc put them.
Lists == full \in List /\ filtered \in List /\ result \in List /\ DOMAIN heap \subseteq Blocks

LEMMA EmptyIsList == EmptyList \in List
BY DEF EmptyList, List

LEMMA LeavesLists ==
    ASSUME NEW left \in List, Leave(left), DOMAIN heap' \subseteq Blocks
    PROVE  Lists'
BY EmptyIsList DEF Leave, Lists

LEMMA NewBlock ==
    ASSUME NEW h, DOMAIN h \subseteq Blocks, NEW b \in Blocks, NEW rows, NEW n \in Nat
    PROVE  [block |-> b, count |-> n] \in List /\ DOMAIN With(h, b, rows) \subseteq Blocks
BY DEF List, With

LEMMA ListsStep == IInv /\ Lists /\ [Next]_vars => Lists'
<1> SUFFICES ASSUME IInv, Lists, [Next]_vars PROVE Lists'
  OBVIOUS
<1> USE EmptyIsList, HeapDomains
<1>1. CASE UNCHANGED vars \/ NextStatement \/ BeginSelect \/ ReadEnds
  BY <1>1 DEF vars, lists, Lists, NextStatement, BeginSelect, ReadEnds
<1>2. CASE RejectStatement \/ ExecuteInsert \/ AppendFails \/ ReportFailure
  BY <1>2, LeavesLists, EndPlaces
     DEF Lists, RejectStatement, ExecuteInsert, AppendFails, ReportFailure
<1>3. CASE ReadFails \/ FilterFails \/ UnknownColumn \/ ProjectFails \/ PrintResult
  <2>0. [block |-> NULL, count |-> filtered.count] \in List
    BY DEF Lists, List
  <2>1. PICK left \in List : Leave(left) /\ \E b : heap' = Without(heap, b)
    BY <1>3, <2>0, EndPlaces
       DEF ReadFails, FilterFails, UnknownColumn, ProjectFails, PrintResult
  <2>2. DOMAIN heap' \subseteq DOMAIN heap
    BY <2>1 DEF Without
  <2> QED  BY <2>1, <2>2, LeavesLists DEF Lists
<1>4. CASE ReadRow
  <2>1. full.count \in Nat
    BY DEF Lists, List
  <2>2. PICK b \in Unused \cup ({full.block} \ {NULL}) :
            /\ \E rows : heap' = With(Without(heap, full.block), b, rows)
            /\ full' = [block |-> b, count |-> full.count + 1]
    BY <1>4 DEF ReadRow
  <2>3. b \in Blocks
    BY <2>2 DEF Lists, List, Unused
  <2>4. DOMAIN heap' \subseteq Blocks
    BY <2>2, <2>3 DEF Lists, With, Without
  <2> QED  BY <1>4, <2>1, <2>2, <2>3, <2>4 DEF Lists, List, ReadRow
<1>5. CASE FilterMoves \/ ProjectMoves
  BY <1>5 DEF Lists, FilterMoves, ProjectMoves
<1>6. CASE FilterCopies
  <2>1. pc = "filter"
    BY <1>6 DEF FilterCopies
  <2>2. RowsIn(full) \in Seq(Row)
    BY <2>1, HeldRows DEF IInv, Rows, Holds, Typed, RowsIn
  <2>3. Len(Matching(Schema, Sql.where, RowsIn(full))) \in Nat
    BY <2>2, MatchingHasType
  <2>4. UNCHANGED <<heap, filtered>> \/
        \E b \in Unused : /\ \E rows : heap' = With(heap, b, rows)
                          /\ filtered' = [block |-> b,
                                count |-> Len(Matching(Schema, Sql.where, RowsIn(full)))]
    BY <1>6 DEF FilterCopies
  <2>5. UNCHANGED <<full, result>>
    BY <1>6 DEF FilterCopies
  <2>6. filtered' \in List /\ DOMAIN heap' \subseteq Blocks
    BY <2>3, <2>4, NewBlock DEF Lists, Unused
  <2> QED  BY <2>5, <2>6 DEF Lists
<1>7. CASE ReleaseFull
  <2>1. DOMAIN heap' = DOMAIN heap \ {full.block}
    BY <1>7 DEF ReleaseFull
  <2>2. full' = EmptyList /\ UNCHANGED <<filtered, result>>
    BY <1>7 DEF ReleaseFull
  <2> QED  BY <2>1, <2>2 DEF Lists
<1>8. CASE ProjectCopies
  <2>1. filtered.count \in Nat
    BY DEF Lists, List
  <2>2. UNCHANGED <<heap, result>> \/
        \E b \in Unused : /\ \E rows : heap' = With(heap, b, rows)
                          /\ result' = [block |-> b, count |-> filtered.count]
    BY <1>8 DEF ProjectCopies
  <2>3. UNCHANGED <<full, filtered>>
    BY <1>8 DEF ProjectCopies
  <2>4. result' \in List /\ DOMAIN heap' \subseteq Blocks
    BY <2>1, <2>2, NewBlock DEF Lists, Unused
  <2> QED  BY <2>3, <2>4 DEF Lists
<1>9. CASE DropFiltered
  <2>1. DOMAIN heap' = DOMAIN heap \ {filtered.block}
    BY <1>9 DEF DropFiltered
  <2>2. filtered' = EmptyList /\ UNCHANGED <<full, result>>
    BY <1>9 DEF DropFiltered
  <2> QED  BY <2>1, <2>2 DEF Lists
<1> QED  BY <1>1, <1>2, <1>3, <1>4, <1>5, <1>6, <1>7, <1>8, <1>9 DEF Next, Finished

\* Every variable of the executor keeps its type.
THEOREM ExecutorTypes == Spec => []TypeOK
<1>1. Init => Lists
  BY EmptyIsList DEF Init, Lists
<1>2. Spec => [](IInv /\ Lists)
  BY InitIInv, StepIInv, <1>1, ListsStep, PTL DEF Spec
<1>3. IInv /\ Lists => TypeOK
  BY DEF IInv, Typed, Selecting, Lists, TypeOK
<1> QED  BY <1>2, <1>3, PTL
=============================================================================
