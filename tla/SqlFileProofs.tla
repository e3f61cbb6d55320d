---------------------------- MODULE SqlFileProofs ----------------------------
(***************************************************************************)
(* Theorems about the program run on a file of SQL, for every text and     *)
(* every failing read, allocation and statement.                           *)
(***************************************************************************)
EXTENDS SqlFile, FiniteSetTheorems, SequenceTheorems, TLAPS

\* The collecting of the pieces, end by end.
Collecting == INSTANCE FoldFacts WITH
    Op <- LAMBDA p, v, e : WithPiece(p, v, e), Base <- LAMBDA p : <<>>

ByteString == Seq(STRING)

-----------------------------------------------------------------------------
(* One byte more of a text *)

LEMMA QuotesNext ==
    ASSUME NEW t \in ByteString, NEW i \in 1..Len(t)
    PROVE  /\ QuotesBefore(t, i) \in Nat
           /\ QuotesBefore(t, i + 1) =
                  QuotesBefore(t, i) + (IF t[i] = QUOTE THEN 1 ELSE 0)
<1> DEFINE Q(n) == {j \in 1..(n - 1) : t[j] = QUOTE}
<1>0. Len(t) \in Nat /\ i \in Nat
  BY DEF ByteString
<1>1. IsFiniteSet(Q(i)) /\ i \notin Q(i)
  <2>1. IsFiniteSet(1..(i - 1))
    BY <1>0, FS_Interval
  <2>2. Q(i) \in SUBSET (1..(i - 1))
    OBVIOUS
  <2>3. IsFiniteSet(Q(i))
    BY <2>1, <2>2, FS_Subset
  <2> QED  BY <2>3
<1>2. Cardinality(Q(i)) \in Nat
  BY <1>1, FS_CardinalityType
<1>3. CASE t[i] = QUOTE
  <2>1. Q(i + 1) = Q(i) \cup {i}
    BY <1>0, <1>3
  <2>2. Cardinality(Q(i + 1)) = Cardinality(Q(i)) + 1
    BY <2>1, <1>1, FS_AddElement
  <2> HIDE DEF Q
  <2>3. Cardinality(Q(i)) \in Nat
        /\ Cardinality(Q(i + 1)) = Cardinality(Q(i)) + (IF t[i] = QUOTE THEN 1 ELSE 0)
    BY <1>2, <1>3, <2>2
  <2> QED  BY <2>3 DEF QuotesBefore, Q
<1>4. CASE t[i] # QUOTE
  <2>1. Q(i + 1) = Q(i)
    BY <1>0, <1>4
  <2> HIDE DEF Q
  <2>3. Cardinality(Q(i)) \in Nat
        /\ Cardinality(Q(i + 1)) = Cardinality(Q(i)) + (IF t[i] = QUOTE THEN 1 ELSE 0)
    BY <1>2, <1>4, <2>1
  <2> QED  BY <2>3 DEF QuotesBefore, Q
<1> QED  BY <1>3, <1>4

LEMMA NoQuotesAtFirst ==
    ASSUME NEW t PROVE QuotesBefore(t, 1) = 0
<1>1. {j \in 1..(1 - 1) : t[j] = QUOTE} = {}
  OBVIOUS
<1> QED  BY <1>1, FS_EmptySet DEF QuotesBefore

LEMMA GreatestIs ==
    ASSUME NEW d \in SUBSET Int, NEW m \in d, \A y \in d : y <= m
    PROVE  Max(d) = m
<1>1. \A x \in d : (\A y \in d : x >= y) => x = m
  OBVIOUS
<1>2. \A y \in d : m >= y
  OBVIOUS
<1> DEFINE Greatest(x) == \A y \in d : x >= y
<1>3. Greatest(m) /\ \A x \in d : Greatest(x) => x = m
  BY <1>1, <1>2
<1>4. (CHOOSE x \in d : Greatest(x)) = m
  <2> HIDE DEF Greatest
  <2> QED  BY <1>3
<1> QED  BY <1>4 DEF Max

LEMMA EndsAreInText ==
    ASSUME NEW t \in ByteString
    PROVE  Len(t) \in Nat /\ Ends(t) \in SUBSET (1..Len(t) + 1)
<1>1. Len(t) \in Nat /\ DOMAIN t = 1..Len(t)
  BY DEF ByteString
<1>2. Len(t) + 1 \in 1..Len(t) + 1 /\ \A i \in DOMAIN t : i \in 1..Len(t) + 1
  BY <1>1
<1> QED  BY <1>1, <1>2 DEF Ends

LastEnd(t, i) == Max({0} \cup {j \in Ends(t) : j < i})

LEMMA LastEndNext ==
    ASSUME NEW t \in ByteString, NEW i \in 1..Len(t)
    PROVE  LastEnd(t, i + 1) = IF i \in Ends(t) THEN i ELSE LastEnd(t, i)
<1>0. Len(t) \in Nat /\ Ends(t) \in SUBSET (1..Len(t) + 1)
  BY EndsAreInText
<1>1. CASE i \in Ends(t)
  <2> DEFINE d == {0} \cup {j \in Ends(t) : j < i + 1}
  <2>1. d \in SUBSET Int /\ i \in d /\ \A y \in d : y <= i
    BY <1>0, <1>1
  <2>2. Max(d) = i
    <3> HIDE DEF d
    <3> QED  BY <2>1, GreatestIs
  <2> QED  BY <1>1, <2>2 DEF LastEnd
<1>2. CASE i \notin Ends(t)
  <2>1. {j \in Ends(t) : j < i + 1} = {j \in Ends(t) : j < i}
    BY <1>0, <1>2
  <2> QED  BY <1>2, <2>1 DEF LastEnd
<1> QED  BY <1>1, <1>2

LEMMA NoEndAtFirst ==
    ASSUME NEW t \in ByteString PROVE LastEnd(t, 1) = 0
<1>1. Len(t) \in Nat /\ Ends(t) \in SUBSET (1..Len(t) + 1)
  BY EndsAreInText
<1>2. {0} \cup {j \in Ends(t) : j < 1} = {0}
  BY <1>1
<1>3. Max({0}) = 0
  BY GreatestIs
<1> QED  BY <1>2, <1>3 DEF LastEnd

LEMMA PiecesAreCollected ==
    ASSUME NEW t, NEW n
    PROVE  PiecesUpTo(t, n) = Collecting!Fold(t, [i \in 1..n |-> i])
BY DEF PiecesUpTo, Collecting!Fold, FoldLeft, Collecting!FoldLeft,
       MapThenFoldSet, Collecting!MapThenFoldSet, Max, Collecting!Max

LEMMA PiecesNext ==
    ASSUME NEW t, NEW n \in Nat
    PROVE  PiecesUpTo(t, n + 1) = WithPiece(t, PiecesUpTo(t, n), n + 1)
<1> DEFINE s == [i \in 1..n |-> i]
           r == [i \in 1..n + 1 |-> i]
<1>1. s \in Seq(Nat) /\ n + 1 \in Nat
  OBVIOUS
<1>2. r = Append(s, n + 1)
  OBVIOUS
<1> HIDE DEF s, r
<1>3. Collecting!Fold(t, Append(s, n + 1)) = WithPiece(t, Collecting!Fold(t, s), n + 1)
  BY <1>1, Collecting!FoldOfMore
<1>4. PiecesUpTo(t, n) = Collecting!Fold(t, s) /\ PiecesUpTo(t, n + 1) = Collecting!Fold(t, r)
  BY PiecesAreCollected DEF s, r
<1> QED  BY <1>2, <1>3, <1>4

LEMMA NoPiecesAtFirst ==
    ASSUME NEW t PROVE PiecesUpTo(t, 0) = <<>>
<1>1. [i \in 1..0 |-> i] = <<>>
  OBVIOUS
<1>2. Collecting!Fold(t, <<>>) = <<>>
  BY Collecting!FoldOfNone
<1> QED  BY <1>1, <1>2, PiecesAreCollected

LEMMA TrimRangeIsText ==
    ASSUME NEW t \in ByteString, NEW from \in Nat \ {0}, NEW to \in 1..Len(t) + 1
    PROVE  TrimRange(t, from, to) \in ByteString
<1> DEFINE kept == {i \in from..(to - 1) : t[i] \notin Blanks}
<1>0. Len(t) \in Nat
  BY DEF ByteString
<1>1. CASE kept = {}
  BY <1>1 DEF TrimRange, ByteString
<1>2. CASE kept # {}
  <2>1. kept \in SUBSET Nat /\ kept \in SUBSET (1..Len(t))
    BY <1>0
  <2> HIDE DEF kept
  <2>2. Collecting!Min(kept) \in kept /\ Collecting!Max(kept) \in kept
    BY <1>0, <1>2, <2>1, Collecting!FirstOf, Collecting!LastOf
  <2>3. Min(kept) \in 1..Len(t) /\ Max(kept) \in 1..Len(t)
    BY <2>1, <2>2 DEF Min, Max, Collecting!Min, Collecting!Max
  <2>4. SubSeq(t, Min(kept), Max(kept)) \in ByteString
    BY <1>0, <2>3 DEF ByteString
  <2> QED  BY <1>2, <2>4 DEF TrimRange, kept
<1> QED  BY <1>1, <1>2

-----------------------------------------------------------------------------
(* The inductive invariant: how far the splitter is, what it has collected *)
(* by then, and what the heap holds.                                       *)

Typed ==
    /\ text \in ByteString
    /\ pc \in {"start", "split", "run", "release", "exited"}
    /\ cursor \in 1..(Len(text) + 1) /\ start \in 1..(Len(text) + 1)
    /\ quoted \in BOOLEAN
    /\ statements \in Seq(ByteString)
    /\ ran \in 0..Len(statements)
    /\ status \in {0, 1}

Untouched == pc = "start" => cursor = 1 /\ statements = <<>>

\* While the splitter is at the cursor.
Scanned ==
    pc \in {"start", "split"} =>
        /\ quoted <=> QuotesBefore(text, cursor) % 2 = 1
        /\ start = LastEnd(text, cursor) + 1
        /\ statements = PiecesUpTo(text, cursor - 1)
        /\ ran = 0 /\ status = 0

Complete == Balanced(text) /\ statements = StatementsOf(text)

Split ==
    /\ pc = "run" => Complete /\ status = 0
    /\ pc \in {"release", "exited"} /\ status = 0 => Complete /\ ran = Len(statements)
    /\ ran # 0 => Balanced(text)

Held == IF statements = <<>> THEN 0 ELSE 1 + Len(statements)
Blocks == live = IF pc \in {"start", "exited"} THEN 0 ELSE 1 + Held

IInv == Typed /\ Untouched /\ Scanned /\ Split /\ Blocks

LEMMA InitIsIInv == Init => IInv
<1> SUFFICES ASSUME Init PROVE IInv
  OBVIOUS
<1>1. text \in ByteString /\ Len(text) \in Nat
  BY SqlFileConstants DEF Init, ByteString
<1>2. Typed /\ Untouched
  <2>1. <<>> \in Seq(ByteString) /\ Len(<<>>) = 0 /\ 0 \in 0..0
    OBVIOUS
  <2>2. 1 \in 1..(Len(text) + 1)
    BY <1>1
  <2> QED  BY <1>1, <2>1, <2>2 DEF Init, Typed, Untouched
<1>3. Scanned
  <2>1. QuotesBefore(text, 1) = 0 /\ LastEnd(text, 1) = 0 /\ PiecesUpTo(text, 0) = <<>>
    BY <1>1, NoQuotesAtFirst, NoEndAtFirst, NoPiecesAtFirst
  <2> QED  BY <2>1 DEF Init, Scanned
<1>4. Split /\ Blocks
  BY DEF Init, Split, Blocks
<1> QED  BY <1>2, <1>3, <1>4 DEF IInv

\* What the byte at the cursor does to what has been collected.
LEMMA ScanStep ==
    ASSUME IInv, pc = "split", cursor <= Len(text)
    PROVE  /\ cursor \in 1..Len(text) /\ Len(text) \in Nat
           /\ cursor + 1 \in 1..Len(text) + 1 /\ (cursor + 1) - 1 = cursor
           /\ QuotesBefore(text, cursor) \in Nat
           /\ QuotesBefore(text, cursor + 1) =
                  QuotesBefore(text, cursor) + (IF text[cursor] = QUOTE THEN 1 ELSE 0)
           /\ LastEnd(text, cursor + 1) =
                  IF cursor \in Ends(text) THEN cursor ELSE LastEnd(text, cursor)
           /\ PiecesUpTo(text, cursor) = WithPiece(text, statements, cursor)
           /\ cursor \in Ends(text) <=> text[cursor] = ";" /\ ~quoted
<1>1. text \in ByteString /\ Len(text) \in Nat /\ DOMAIN text = 1..Len(text)
  BY DEF IInv, Typed, ByteString
<1>2. cursor \in 1..Len(text) /\ cursor + 1 \in 1..Len(text) + 1 /\ (cursor + 1) - 1 = cursor
      /\ cursor - 1 \in Nat /\ (cursor - 1) + 1 = cursor
  BY <1>1 DEF IInv, Typed
<1>3. QuotesBefore(text, cursor) \in Nat
      /\ QuotesBefore(text, cursor + 1) =
             QuotesBefore(text, cursor) + (IF text[cursor] = QUOTE THEN 1 ELSE 0)
  BY <1>1, <1>2, QuotesNext
<1>4. LastEnd(text, cursor + 1) = IF cursor \in Ends(text) THEN cursor ELSE LastEnd(text, cursor)
  BY <1>1, <1>2, LastEndNext
<1>5. PiecesUpTo(text, cursor) = WithPiece(text, statements, cursor)
  <2>1. PiecesUpTo(text, (cursor - 1) + 1)
            = WithPiece(text, PiecesUpTo(text, cursor - 1), (cursor - 1) + 1)
    BY <1>2, PiecesNext
  <2> QED  BY <2>1, <1>2 DEF IInv, Scanned
<1>6. cursor \in Ends(text) <=> text[cursor] = ";" /\ ~quoted
  <2>1. quoted <=> QuotesBefore(text, cursor) % 2 = 1
    BY DEF IInv, Scanned
  <2>2. QuotesBefore(text, cursor) % 2 = 0 <=> ~quoted
    BY <2>1, <1>3 DEF IInv, Typed
  <2>3. cursor # Len(text) + 1
    BY <1>1, <1>2
  <2> QED  BY <1>1, <1>2, <2>2, <2>3 DEF Ends
<1> QED  BY <1>1, <1>2, <1>3, <1>4, <1>5, <1>6

\* The piece that ends at the cursor is the statement the splitter trims.
LEMMA PieceAtCursor ==
    ASSUME IInv, pc = "split", cursor \in Ends(text)
    PROVE  /\ TrimRange(text, start, cursor) \in ByteString
           /\ WithPiece(text, statements, cursor) =
                  IF TrimRange(text, start, cursor) = <<>> THEN statements
                  ELSE Append(statements, TrimRange(text, start, cursor))
<1>1. Piece(text, cursor) = TrimRange(text, start, cursor)
  <2>1. start = LastEnd(text, cursor) + 1
    BY DEF IInv, Scanned
  <2> QED  BY <2>1 DEF Piece, LastEnd
<1>2. TrimRange(text, start, cursor) \in ByteString
  <2>1. text \in ByteString /\ start \in Nat \ {0} /\ cursor \in 1..Len(text) + 1
    BY EndsAreInText DEF IInv, Typed
  <2> QED  BY <2>1, TrimRangeIsText
<1> QED  BY <1>1, <1>2 DEF WithPiece

\* Adding the piece keeps the types and the count of blocks.
LEMMA AddingKeeps ==
    ASSUME IInv, pc = "split", cursor \in Ends(text), AddsStatement
    PROVE  /\ statements' = WithPiece(text, statements, cursor)
           /\ statements' \in Seq(ByteString)
           /\ live' = 1 + Held'
<1>1. TrimRange(text, start, cursor) \in ByteString
      /\ WithPiece(text, statements, cursor) =
             IF TrimRange(text, start, cursor) = <<>> THEN statements
             ELSE Append(statements, TrimRange(text, start, cursor))
  BY PieceAtCursor
<1>2. statements \in Seq(ByteString) /\ live = 1 + Held
  BY DEF IInv, Typed, Blocks
<1>3. CASE TrimRange(text, start, cursor) = <<>>
  BY <1>1, <1>2, <1>3 DEF AddsStatement, Held
<1>4. CASE TrimRange(text, start, cursor) # <<>>
  <2> DEFINE s == TrimRange(text, start, cursor)
  <2>1. statements' = Append(statements, s)
        /\ live' = live + (IF statements = <<>> THEN 2 ELSE 1)
    BY <1>4 DEF AddsStatement, AppendStatement
  <2>2. statements' \in Seq(ByteString) /\ statements' # <<>>
        /\ Len(statements') = Len(statements) + 1
        /\ (statements = <<>> => Len(statements) = 0)
    <3> HIDE DEF s
    <3> QED  BY <1>1, <1>2, <2>1 DEF s
  <2>3. Len(statements) \in Nat
    BY <1>2
  <2>4. live' = 1 + Held'
    BY <1>2, <2>1, <2>2, <2>3 DEF Held
  <2> QED  BY <1>1, <1>4, <2>1, <2>2, <2>4
<1> QED  BY <1>3, <1>4

LEMMA StartOfRange == \A list \in Seq(ByteString) : 0 \in 0..Len(list)
OBVIOUS

LEMMA ReadTextKeeps == IInv /\ ReadText => IInv'
<1> SUFFICES ASSUME IInv, ReadText PROVE IInv'
  OBVIOUS
<1> USE DEF ReadText, scan
<1>1. Typed' /\ Untouched' /\ Split'
  BY DEF IInv, Typed, Untouched, Split, Scanned
<1>2. Scanned'
  BY DEF IInv, Scanned
<1>3. Blocks'
  BY DEF IInv, Blocks, Untouched, Held
<1> QED  BY <1>1, <1>2, <1>3 DEF IInv

LEMMA ReadTextFailsKeeps == IInv /\ ReadTextFails => IInv'
<1> SUFFICES ASSUME IInv, ReadTextFails PROVE IInv'
  OBVIOUS
<1> USE DEF ReadTextFails, scan
<1>1. Typed' /\ Untouched' /\ Scanned'
  BY DEF IInv, Typed, Untouched, Scanned
<1>2. Split' /\ Blocks'
  BY DEF IInv, Split, Blocks
<1> QED  BY <1>1, <1>2 DEF IInv

LEMMA ScanQuoteKeeps == IInv /\ ScanQuote => IInv'
<1> SUFFICES ASSUME IInv, ScanQuote PROVE IInv'
  OBVIOUS
<1> USE DEF ScanQuote
<1>1. cursor + 1 \in 1..Len(text) + 1 /\ cursor \notin Ends(text)
  BY ScanStep DEF QUOTE
<1>2. Typed' /\ Untouched'
  BY <1>1 DEF IInv, Typed, Untouched
<1>3. Scanned'
  <2>1. (~quoted <=> QuotesBefore(text, cursor + 1) % 2 = 1)
    <3>1. QuotesBefore(text, cursor) \in Nat
          /\ QuotesBefore(text, cursor + 1) = QuotesBefore(text, cursor) + 1
      BY ScanStep
    <3>2. quoted <=> QuotesBefore(text, cursor) % 2 = 1
      BY DEF IInv, Scanned
    <3> QED  BY <3>1, <3>2 DEF IInv, Typed
  <2>2. start = LastEnd(text, cursor + 1) + 1
    BY <1>1, ScanStep DEF IInv, Scanned
  <2>3. statements = PiecesUpTo(text, (cursor + 1) - 1)
    BY <1>1, ScanStep DEF WithPiece
  <2> QED  BY <2>1, <2>2, <2>3 DEF IInv, Scanned
<1>4. Split' /\ Blocks'
  BY DEF IInv, Split, Blocks, Held
<1> QED  BY <1>2, <1>3, <1>4 DEF IInv

LEMMA ScanByteKeeps == IInv /\ ScanByte => IInv'
<1> SUFFICES ASSUME IInv, ScanByte PROVE IInv'
  OBVIOUS
<1> USE DEF ScanByte
<1>1. cursor + 1 \in 1..Len(text) + 1 /\ cursor \notin Ends(text)
  BY ScanStep
<1>2. Typed' /\ Untouched'
  BY <1>1 DEF IInv, Typed, Untouched
<1>3. Scanned'
  <2>1. (quoted <=> QuotesBefore(text, cursor + 1) % 2 = 1)
    <3>1. QuotesBefore(text, cursor + 1) = QuotesBefore(text, cursor)
      <4>1. QuotesBefore(text, cursor) \in Nat
            /\ QuotesBefore(text, cursor + 1) = QuotesBefore(text, cursor) + 0
        BY ScanStep
      <4>2. \A a \in Nat : a + 0 = a
        BY ONLY TRUE
      <4> QED  BY ONLY <4>1, <4>2
    <3> QED  BY <3>1 DEF IInv, Scanned
  <2>2. start = LastEnd(text, cursor + 1) + 1
    BY <1>1, ScanStep DEF IInv, Scanned
  <2>3. statements = PiecesUpTo(text, (cursor + 1) - 1)
    BY <1>1, ScanStep DEF WithPiece
  <2> QED  BY <2>1, <2>2, <2>3 DEF IInv, Scanned
<1>4. Split' /\ Blocks'
  BY DEF IInv, Split, Blocks, Held
<1> QED  BY <1>2, <1>3, <1>4 DEF IInv

LEMMA ScanSemicolonKeeps == IInv /\ ScanSemicolon => IInv'
<1> SUFFICES ASSUME IInv, ScanSemicolon PROVE IInv'
  OBVIOUS
<1> USE DEF ScanSemicolon
<1>1. cursor + 1 \in 1..Len(text) + 1 /\ cursor \in Ends(text)
  BY ScanStep
<1>2. statements' = WithPiece(text, statements, cursor) /\ statements' \in Seq(ByteString)
      /\ live' = 1 + Held'
  BY <1>1, AddingKeeps
<1>3. ran = 0 /\ status = 0
  BY DEF IInv, Scanned
<1>4. Typed' /\ Untouched'
  <2>1. ran' \in 0..Len(statements')
    BY <1>2, <1>3, StartOfRange
  <2> QED  BY <1>1, <1>2, <2>1 DEF IInv, Typed, Untouched
<1>5. Scanned'
  <2>1. (quoted <=> QuotesBefore(text, cursor + 1) % 2 = 1)
    <3>1. QuotesBefore(text, cursor + 1) = QuotesBefore(text, cursor)
      <4>1. text[cursor] # QUOTE
        BY DEF QUOTE
      <4>2. QuotesBefore(text, cursor) \in Nat
            /\ QuotesBefore(text, cursor + 1) = QuotesBefore(text, cursor) + 0
        BY <4>1, ScanStep
      <4>3. \A a \in Nat : a + 0 = a
        BY ONLY TRUE
      <4> QED  BY ONLY <4>2, <4>3
    <3> QED  BY <3>1 DEF IInv, Scanned
  <2>2. cursor + 1 = LastEnd(text, cursor + 1) + 1
    BY <1>1, ScanStep
  <2>3. statements' = PiecesUpTo(text, (cursor + 1) - 1)
    BY <1>2, ScanStep
  <2> QED  BY <1>3, <2>1, <2>2, <2>3 DEF Scanned
<1>6. Split' /\ Blocks'
  <2>1. pc' = "split" /\ ran' = 0
    BY <1>3
  <2>2. Split'
    BY <2>1 DEF Split
  <2>3. Blocks'
    BY <1>2, <2>1 DEF Blocks
  <2> QED  BY <2>2, <2>3
<1> QED  BY <1>4, <1>5, <1>6 DEF IInv

LEMMA AppendFailsKeeps == IInv /\ AppendFails => IInv'
<1> SUFFICES ASSUME IInv, AppendFails PROVE IInv'
  OBVIOUS
<1>0. /\ pc = "split" /\ pc' = "release" /\ status' = 1
      /\ UNCHANGED <<text, cursor, start, quoted, statements, ran, live>>
  BY DEF AppendFails, Fail, scan
<1>1. Typed' /\ Untouched' /\ Scanned'
  BY <1>0 DEF IInv, Typed, Untouched, Scanned
<1>2. Split' /\ Blocks'
  BY <1>0 DEF IInv, Split, Blocks, Held
<1> QED  BY <1>1, <1>2 DEF IInv

LEMMA OpenStringKeeps == IInv /\ OpenString => IInv'
<1> SUFFICES ASSUME IInv, OpenString PROVE IInv'
  OBVIOUS
<1> USE DEF OpenString, Fail, scan
<1>1. Typed' /\ Untouched' /\ Scanned'
  BY DEF IInv, Typed, Untouched, Scanned
<1>2. Split' /\ Blocks'
  BY DEF IInv, Split, Blocks, Held
<1> QED  BY <1>1, <1>2 DEF IInv

\* At the end of the text outside of a string, all has been collected.
LEMMA LastStatementKeeps == IInv /\ LastStatement => IInv'
<1> SUFFICES ASSUME IInv, LastStatement PROVE IInv'
  OBVIOUS
<1> USE DEF LastStatement, scan
<1>0. text \in ByteString /\ Len(text) \in Nat
  BY DEF IInv, Typed, ByteString
<1>1. cursor = Len(text) + 1 /\ cursor \in Ends(text)
  <2>1. cursor = Len(text) + 1
    BY <1>0 DEF IInv, Typed
  <2>2. Len(text) + 1 \in Ends(text)
    BY DEF Ends
  <2> QED  BY <2>1, <2>2
<1>2. statements' = WithPiece(text, statements, cursor) /\ statements' \in Seq(ByteString)
      /\ live' = 1 + Held'
  BY <1>1, AddingKeeps
<1>3. ran = 0 /\ status = 0
  BY DEF IInv, Scanned
<1>4. Typed' /\ Untouched' /\ Scanned'
  <2>1. ran' \in 0..Len(statements')
    BY <1>2, <1>3, StartOfRange
  <2> QED  BY <1>2, <2>1 DEF IInv, Typed, Untouched, Scanned
<1>5. Balanced(text)
  <2>1. QuotesBefore(text, cursor) \in Nat
    <3>1. CASE Len(text) = 0
      BY <1>1, <3>1, NoQuotesAtFirst
    <3>2. CASE Len(text) # 0
      <4>1. Len(text) \in 1..Len(text)
        BY <1>0, <3>2
      <4>2. QuotesBefore(text, Len(text)) \in Nat
            /\ QuotesBefore(text, Len(text) + 1) =
                  QuotesBefore(text, Len(text)) + (IF text[Len(text)] = QUOTE THEN 1 ELSE 0)
        BY <1>0, <4>1, QuotesNext
      <4> QED  BY <1>1, <4>2
    <3> QED  BY <3>1, <3>2
  <2>2. quoted <=> QuotesBefore(text, cursor) % 2 = 1
    BY DEF IInv, Scanned
  <2> QED  BY <1>1, <2>1, <2>2 DEF Balanced
<1>6. statements' = StatementsOf(text)
  <2>1. PiecesUpTo(text, Len(text) + 1)
            = WithPiece(text, PiecesUpTo(text, Len(text)), Len(text) + 1)
    BY <1>0, PiecesNext
  <2>2. statements = PiecesUpTo(text, Len(text))
    BY <1>0, <1>1 DEF IInv, Scanned
  <2> QED  BY <1>1, <1>2, <2>1, <2>2 DEF StatementsOf
<1>7. Split' /\ Blocks'
  BY <1>2, <1>3, <1>5, <1>6 DEF Split, Blocks, Complete
<1> QED  BY <1>4, <1>7 DEF IInv

LEMMA RunStatementKeeps == IInv /\ RunStatement => IInv'
<1> SUFFICES ASSUME IInv, RunStatement PROVE IInv'
  OBVIOUS
<1> USE DEF RunStatement, scan
<1>1. ran + 1 \in 0..Len(statements)
  <2>1. Len(statements) \in Nat
    BY DEF IInv, Typed
  <2> QED  BY <2>1 DEF IInv, Typed
<1>2. Typed' /\ Untouched' /\ Scanned'
  BY <1>1 DEF IInv, Typed, Untouched, Scanned
<1>3. Split' /\ Blocks'
  BY DEF IInv, Split, Blocks, Held, Complete
<1> QED  BY <1>2, <1>3 DEF IInv

LEMMA StatementFailsKeeps == IInv /\ StatementFails => IInv'
<1> SUFFICES ASSUME IInv, StatementFails PROVE IInv'
  OBVIOUS
<1> USE DEF StatementFails, Fail, scan
<1>1. Typed' /\ Untouched' /\ Scanned'
  BY DEF IInv, Typed, Untouched, Scanned
<1>2. Split' /\ Blocks'
  BY DEF IInv, Split, Blocks, Held
<1> QED  BY <1>1, <1>2 DEF IInv

LEMMA AllHaveRunKeeps == IInv /\ AllHaveRun => IInv'
<1> SUFFICES ASSUME IInv, AllHaveRun PROVE IInv'
  OBVIOUS
<1> USE DEF AllHaveRun, scan
<1>1. Typed' /\ Untouched' /\ Scanned'
  BY DEF IInv, Typed, Untouched, Scanned
<1>2. Split' /\ Blocks'
  BY DEF IInv, Split, Blocks, Held, Complete
<1> QED  BY <1>1, <1>2 DEF IInv

LEMMA ReleaseKeeps == IInv /\ Release => IInv'
<1> SUFFICES ASSUME IInv, Release PROVE IInv'
  OBVIOUS
<1> USE DEF Release, scan
<1>1. Typed' /\ Untouched' /\ Scanned'
  BY DEF IInv, Typed, Untouched, Scanned
<1>2. Split'
  BY DEF IInv, Split, Complete
<1>3. Blocks'
  <2>1. Len(statements) \in Nat
    BY DEF IInv, Typed
  <2> QED  BY <2>1 DEF IInv, Blocks, Held
<1> QED  BY <1>1, <1>2, <1>3 DEF IInv

LEMMA NextKeeps == IInv /\ [Next]_vars => IInv'
<1> SUFFICES ASSUME IInv, [Next]_vars PROVE IInv'
  OBVIOUS
<1>1. ASSUME UNCHANGED vars PROVE IInv'
  BY <1>1 DEF vars, IInv, Typed, Untouched, Scanned, Split, Complete, Blocks, Held
<1> QED  BY <1>1, ReadTextKeeps, ReadTextFailsKeeps, ScanQuoteKeeps, ScanSemicolonKeeps,
            ScanByteKeeps, AppendFailsKeeps, OpenStringKeeps, LastStatementKeeps,
            RunStatementKeeps, StatementFailsKeeps, AllHaveRunKeeps, ReleaseKeeps
         DEF Next, Exited

LEMMA IInvHolds == Spec => []IInv
BY InitIsIInv, NextKeeps, PTL DEF Spec

-----------------------------------------------------------------------------
(* The tokens of a text, from a place on *)

\* Tokenize as a function of the place to go on from, given what later places yield.
ScanBody(t, f, i) ==
    IF i > Len(t) THEN [ok |-> TRUE, tokens |-> <<>>]
    ELSE IF t[i] \in White THEN f[i + 1]
    ELSE IF TokenAt(t, i)[2] = 0 \/ TokenAt(t, i)[2] - i >= TOKEN_SIZE \/ ~f[TokenAt(t, i)[2]].ok
         THEN Refused
         ELSE [ok |-> TRUE,
               tokens |-> <<Token(TokenAt(t, i)[1], SubSeq(t, i, TokenAt(t, i)[2] - 1))>>
                          \o f[TokenAt(t, i)[2]].tokens]
IsScanFrom(t, f, k) == f = [i \in k..Len(t) + 1 |-> ScanBody(t, f, i)]
Scan(t) == CHOOSE f : IsScanFrom(t, f, 1)

LEMMA TokenizeIsScan == \A t : Tokenize(t) = Scan(t)[1]
BY Zenon DEF Tokenize, Scan, IsScanFrom, ScanBody

LEMMA LeastIs ==
    ASSUME NEW d \in SUBSET Nat, NEW m \in d, \A y \in d : m <= y
    PROVE  Min(d) = m
<1> DEFINE Least(x) == \A y \in d : x <= y
<1>1. Least(m) /\ \A x \in d : Least(x) => x = m
  OBVIOUS
<1>2. (CHOOSE x \in d : Least(x)) = m
  <2> HIDE DEF Least
  <2> QED  BY <1>1
<1> QED  BY <1>2 DEF Min

\* Where a run of bytes ends.
LEMMA EndOfIs ==
    ASSUME NEW t, Len(t) \in Nat, NEW i \in 1..(Len(t) + 1), NEW bytes,
           NEW e \in i..(Len(t) + 1), \A j \in i..(e - 1) : t[j] \in bytes,
           e = Len(t) + 1 \/ t[e] \notin bytes
    PROVE  EndOf(t, i, bytes) = e
<1> DEFINE S == {j \in i..Len(t) : t[j] \notin bytes} \cup {Len(t) + 1}
<1>1. S \in SUBSET Nat /\ e \in S /\ \A y \in S : e <= y
  <2>1. S \in SUBSET Nat /\ e \in S
    OBVIOUS
  <2>2. ASSUME NEW y \in S PROVE e <= y
    <3>1. y \in i..(Len(t) + 1) /\ (y = Len(t) + 1 \/ t[y] \notin bytes)
      OBVIOUS
    <3>2. y \notin i..(e - 1)
      BY <3>1
    <3> QED  BY <3>1, <3>2
  <2> QED  BY <2>1, <2>2
<1> HIDE DEF S
<1>2. Min(S) = e
  BY <1>1, LeastIs
<1> QED  BY <1>2 DEF EndOf, S

LEMMA EndOfFacts ==
    ASSUME NEW t, Len(t) \in Nat, NEW i \in 1..(Len(t) + 1), NEW bytes
    PROVE  /\ EndOf(t, i, bytes) \in i..(Len(t) + 1)
           /\ \A j \in i..(EndOf(t, i, bytes) - 1) : t[j] \in bytes
           /\ EndOf(t, i, bytes) = Len(t) + 1 \/ t[EndOf(t, i, bytes)] \notin bytes
<1> DEFINE S == {j \in i..Len(t) : t[j] \notin bytes} \cup {Len(t) + 1}
           e == EndOf(t, i, bytes)
<1>1. S \in SUBSET Nat /\ S # {}
  OBVIOUS
<1>2. e \in S /\ \A y \in S : e <= y
  <2>1. Min(S) \in S /\ \A y \in S : Min(S) <= y
    <3> HIDE DEF S
    <3> QED  BY <1>1, Collecting!FirstOf DEF Min, Collecting!Min
  <2> QED  BY <2>1 DEF EndOf
<1> HIDE DEF e
<1>3. \A j \in i..(e - 1) : t[j] \in bytes
  <2> TAKE j \in i..(e - 1)
  <2>1. j \notin S
    BY <1>2
  <2> QED  BY <2>1, <1>2
<1>4. e \in i..(Len(t) + 1) /\ (e = Len(t) + 1 \/ t[e] \notin bytes)
  BY <1>2
<1> QED  BY <1>3, <1>4 DEF e

LEMMA QuoteIs ==
    ASSUME NEW t, Len(t) \in Nat, NEW i \in 1..Len(t),
           NEW c \in (i + 1)..Len(t), t[c] = QUOTE,
           \A j \in (i + 1)..(c - 1) : t[j] # QUOTE
    PROVE  ClosingQuote(t, i) = c
<1> DEFINE S == {j \in (i + 1)..Len(t) : t[j] = QUOTE}
<1>1. S \in SUBSET Nat /\ c \in S /\ \A y \in S : c <= y
  <2>1. S \in SUBSET Nat /\ c \in S
    OBVIOUS
  <2>2. ASSUME NEW y \in S PROVE c <= y
    <3>1. y \in (i + 1)..Len(t) /\ t[y] = QUOTE
      OBVIOUS
    <3>2. y \notin (i + 1)..(c - 1)
      BY <3>1
    <3> QED  BY <3>1, <3>2
  <2> QED  BY <2>1, <2>2
<1> HIDE DEF S
<1>2. Min(S) = c
  BY <1>1, LeastIs
<1> QED  BY <1>1, <1>2 DEF ClosingQuote, S

LEMMA QuoteFacts ==
    ASSUME NEW t, Len(t) \in Nat, NEW i \in 1..Len(t)
    PROVE  LET c == ClosingQuote(t, i)
           IN  \/ c = 0 /\ \A j \in (i + 1)..Len(t) : t[j] # QUOTE
               \/ /\ c \in (i + 1)..Len(t) /\ t[c] = QUOTE
                  /\ \A j \in (i + 1)..(c - 1) : t[j] # QUOTE
<1> DEFINE S == {j \in (i + 1)..Len(t) : t[j] = QUOTE}
           c == ClosingQuote(t, i)
<1>1. CASE S = {}
  BY <1>1 DEF ClosingQuote
<1>2. CASE S # {}
  <2>1. S \in SUBSET Nat
    OBVIOUS
  <2>2. Min(S) \in S /\ \A y \in S : Min(S) <= y
    <3> HIDE DEF S
    <3> QED  BY <1>2, <2>1, Collecting!FirstOf DEF Min, Collecting!Min
  <2>3. c \in S /\ \A y \in S : c <= y
    BY <1>2, <2>2 DEF ClosingQuote
  <2> HIDE DEF c
  <2>4. \A j \in (i + 1)..(c - 1) : t[j] # QUOTE
    <3> TAKE j \in (i + 1)..(c - 1)
    <3>1. j \notin S
      BY <2>3
    <3> QED  BY <3>1, <2>3
  <2> QED  BY <2>3, <2>4 DEF c
<1> QED  BY <1>1, <1>2

\* What tokenize_sql makes of the byte at a place, one fact for each kind of token.
LEMMA TokenCases ==
    ASSUME NEW t, NEW i
    PROVE  /\ t[i] \in Letters \cup {"_"} =>
                  TokenAt(t, i) = <<"identifier", EndOf(t, i, NameBytes)>>
           /\ t[i] = QUOTE =>
                  TokenAt(t, i) = <<"string", IF ClosingQuote(t, i) = 0 THEN 0
                                              ELSE ClosingQuote(t, i) + 1>>
           /\ t[i] \notin Letters \cup {"_", QUOTE} /\ NumberStart(t, i) =>
                  TokenAt(t, i) = <<"number", EndOf(t, i + 1, DigitBytes)>>
           /\ t[i] \notin Letters \cup {"_", QUOTE} /\ ~NumberStart(t, i) /\ t[i] \in Symbols =>
                  TokenAt(t, i) = <<t[i], i + 1>>
           /\ t[i] \notin Letters \cup {"_", QUOTE} /\ ~NumberStart(t, i) /\ t[i] \notin Symbols =>
                  TokenAt(t, i) = <<"none", 0>>
<1> DEFINE name == t[i] \in Letters \cup {"_"}
           number == NumberStart(t, i)
           symbol == t[i] \in Symbols
           quote == t[i] = QUOTE
           Found1 == <<"identifier", EndOf(t, i, NameBytes)>>
           Found2 == <<"string", IF ClosingQuote(t, i) = 0 THEN 0 ELSE ClosingQuote(t, i) + 1>>
           Found3 == <<"number", EndOf(t, i + 1, DigitBytes)>>
           Found4 == <<t[i], i + 1>>
           Found5 == <<"none", 0>>
<1>0. TokenAt(t, i) =
        CASE name -> Found1 [] quote -> Found2 [] number -> Found3 [] symbol -> Found4
          [] OTHER -> Found5
  BY DEF TokenAt
<1>1. ~(name /\ quote) /\ ~(number /\ symbol)
  BY TokenizerConstants DEF NumberStart, Signs, Symbols, QUOTE
<1>2. t[i] \notin Letters \cup {"_", QUOTE} <=> ~name /\ ~quote
  OBVIOUS
<1>3. quote => ~number /\ ~symbol
  BY TokenizerConstants DEF NumberStart, Signs, Symbols, QUOTE
<1>4. name => ~number /\ ~symbol
  BY TokenizerConstants DEF NumberStart, Signs, Symbols, QUOTE
<1> HIDE DEF name, number, symbol, quote, Found1, Found2, Found3, Found4, Found5
<1>5. /\ name => TokenAt(t, i) = Found1
      /\ quote => TokenAt(t, i) = Found2
      /\ ~name /\ ~quote /\ number => TokenAt(t, i) = Found3
      /\ ~name /\ ~quote /\ ~number /\ symbol => TokenAt(t, i) = Found4
      /\ ~name /\ ~quote /\ ~number /\ ~symbol => TokenAt(t, i) = Found5
  BY <1>0, <1>1, <1>3, <1>4, Zenon
<1> QED  BY <1>2, <1>5, Zenon DEF name, number, symbol, quote, Found1, Found2, Found3, Found4, Found5

TokenTypes == {"identifier", "string", "number"} \cup Symbols
Tokens == [type : TokenTypes, text : ByteString]

\* A token is of a known type, and ends further on.
LEMMA TokenGoesOn ==
    ASSUME NEW t, Len(t) \in Nat, NEW i \in 1..Len(t)
    PROVE  /\ TokenAt(t, i)[2] \in {0} \cup (i + 1)..(Len(t) + 1)
           /\ TokenAt(t, i)[2] # 0 => TokenAt(t, i)[1] \in TokenTypes
<1> DEFINE Onward(found) == /\ found[2] \in {0} \cup (i + 1)..(Len(t) + 1)
                            /\ found[2] # 0 => found[1] \in TokenTypes
           name == EndOf(t, i, NameBytes)
           number == EndOf(t, i + 1, DigitBytes)
           quote == ClosingQuote(t, i)
<1>0. \A a, b : <<a, b>>[1] = a /\ <<a, b>>[2] = b
  OBVIOUS
<1>1. ASSUME t[i] \in Letters \cup {"_"} PROVE Onward(TokenAt(t, i))
  <2>1. name \in i..(Len(t) + 1) /\ (name = Len(t) + 1 \/ t[name] \notin NameBytes)
    BY EndOfFacts
  <2>1a. t[i] \in NameBytes
    BY <1>1 DEF NameBytes
  <2> HIDE DEF name
  <2>2. name # i
    BY <2>1, <2>1a
  <2>3. name \in (i + 1)..(Len(t) + 1)
    BY <2>1, <2>2
  <2>4. "identifier" \in TokenTypes
    BY DEF TokenTypes
  <2>5. TokenAt(t, i) = <<"identifier", name>>
    BY <1>1, TokenCases DEF name
  <2> QED  BY <1>0, <2>3, <2>4, <2>5
<1>2. ASSUME t[i] = QUOTE PROVE Onward(TokenAt(t, i))
  <2>1. quote = 0 \/ quote + 1 \in (i + 1)..(Len(t) + 1)
    BY QuoteFacts
  <2> HIDE DEF quote
  <2>2. "string" \in TokenTypes
    BY DEF TokenTypes
  <2>3. TokenAt(t, i) = <<"string", IF quote = 0 THEN 0 ELSE quote + 1>>
    BY <1>2, TokenCases DEF quote
  <2> QED  BY <1>0, <2>1, <2>2, <2>3
<1>3. ASSUME t[i] \notin Letters \cup {"_", QUOTE}, NumberStart(t, i)
      PROVE  Onward(TokenAt(t, i))
  <2>1. number \in (i + 1)..(Len(t) + 1)
    BY EndOfFacts
  <2> HIDE DEF number
  <2>2. "number" \in TokenTypes
    BY DEF TokenTypes
  <2>3. TokenAt(t, i) = <<"number", number>>
    BY <1>3, TokenCases DEF number
  <2> QED  BY <1>0, <2>1, <2>2, <2>3
<1>4. ASSUME t[i] \notin Letters \cup {"_", QUOTE}, ~NumberStart(t, i)
      PROVE  Onward(TokenAt(t, i))
  <2>1. CASE t[i] \in Symbols
    <3>1. TokenAt(t, i) = <<t[i], i + 1>> /\ t[i] \in TokenTypes
      BY <1>4, <2>1, TokenCases DEF TokenTypes
    <3> QED  BY <1>0, <3>1
  <2>2. CASE t[i] \notin Symbols
    <3>1. TokenAt(t, i) = <<"none", 0>>
      BY <1>4, <2>2, TokenCases
    <3> QED  BY <1>0, <3>1
  <2> QED  BY <2>1, <2>2
<1> HIDE DEF Onward
<1>5. Onward(TokenAt(t, i))
  BY <1>1, <1>2, <1>3, <1>4
<1> QED  BY <1>5 DEF Onward

\* Scanning from a byte on refers to later bytes only.
LEMMA ScanLooksAhead ==
    ASSUME NEW t, Len(t) \in Nat, NEW i \in 1..Len(t) + 1, NEW f, NEW g,
           \A j \in (i + 1)..(Len(t) + 1) : f[j] = g[j]
    PROVE  ScanBody(t, f, i) = ScanBody(t, g, i)
<1>1. CASE i > Len(t)
  BY <1>1 DEF ScanBody
<1>2. CASE i <= Len(t)
  <2> DEFINE next == TokenAt(t, i)[2]
  <2>1. ~(i > Len(t)) /\ f[i + 1] = g[i + 1]
    BY <1>2
  <2>2. next \in {0} \cup (i + 1)..(Len(t) + 1)
    BY <1>2, TokenGoesOn
  <2>3. next = 0 \/ f[next] = g[next]
    BY <2>2
  <2> QED  BY <2>1, <2>3, Zenon DEF ScanBody
<1> QED  BY <1>1, <1>2

\* Hence there is such a function: it is built from the end of the text.
LEMMA ScanUnfolds ==
    ASSUME NEW t, Len(t) \in Nat, NEW i \in 1..Len(t) + 1
    PROVE  Scan(t)[i] = ScanBody(t, Scan(t), i)
<1> DEFINE n == Len(t)
           T == {d \in Nat : d <= n => \E f : IsScanFrom(t, f, n + 1 - d)}
<1>1. 0 \in T
  <2> DEFINE f == [j \in (n + 1)..(n + 1) |-> [ok |-> TRUE, tokens |-> <<>>]]
  <2>1. \A j \in (n + 1)..(n + 1) : ScanBody(t, f, j) = [ok |-> TRUE, tokens |-> <<>>]
    BY DEF ScanBody
  <2>2. IsScanFrom(t, f, n + 1)
    BY <2>1 DEF IsScanFrom
  <2>3. n + 1 - 0 = n + 1
    OBVIOUS
  <2> QED  BY <2>2, <2>3
<1>2. ASSUME NEW d \in Nat, d \in T PROVE d + 1 \in T
  <2> SUFFICES ASSUME d + 1 <= n PROVE \E f : IsScanFrom(t, f, n + 1 - (d + 1))
    OBVIOUS
  <2> DEFINE k == n + 1 - d
  <2>0. k \in 2..n + 1 /\ n + 1 - (d + 1) = k - 1 /\ d <= n
    OBVIOUS
  <2>1. PICK h : IsScanFrom(t, h, k)
    BY <1>2, <2>0
  <2> HIDE DEF k
  <2> DEFINE f == [j \in (k - 1)..(n + 1) |-> IF j = k - 1 THEN ScanBody(t, h, j) ELSE h[j]]
  <2>2. ASSUME NEW j \in (k - 1)..(n + 1) PROVE f[j] = ScanBody(t, f, j)
    <3>1. \A l \in (j + 1)..(n + 1) : f[l] = h[l]
      BY <2>0
    <3>2. j \in 1..n + 1 /\ n = Len(t)
      BY <2>0
    <3> HIDE DEF f, n
    <3>3. ScanBody(t, f, j) = ScanBody(t, h, j)
      BY <3>1, <3>2, ScanLooksAhead
    <3>4. j # k - 1 => h[j] = ScanBody(t, h, j)
      <4>1. j # k - 1 => j \in k..n + 1
        BY <2>0, <3>2
      <4> QED  BY <4>1, <2>1, <3>2 DEF IsScanFrom
    <3> QED  BY <3>3, <3>4 DEF f
  <2>3. IsScanFrom(t, f, k - 1)
    BY <2>2 DEF IsScanFrom
  <2> QED  BY <2>0, <2>3
<1> HIDE DEF T
<1>3. n \in T
  BY <1>1, <1>2, Collecting!SetInduction
<1>4. \E f : IsScanFrom(t, f, 1)
  BY <1>3 DEF T
<1>5. IsScanFrom(t, Scan(t), 1)
  BY <1>4 DEF Scan
<1> QED  BY <1>5 DEF IsScanFrom

\* What a scan does at the end, at a blank and at a byte of a token.
LEMMA ScanAtEnd ==
    ASSUME NEW t, Len(t) \in Nat
    PROVE  Scan(t)[Len(t) + 1] = [ok |-> TRUE, tokens |-> <<>>]
<1>1. Len(t) + 1 \in 1..Len(t) + 1 /\ Len(t) + 1 > Len(t)
  OBVIOUS
<1> QED  BY <1>1, ScanUnfolds DEF ScanBody

LEMMA ScanAtBlank ==
    ASSUME NEW t, Len(t) \in Nat, NEW i \in 1..Len(t), t[i] \in White
    PROVE  Scan(t)[i] = Scan(t)[i + 1]
<1>1. i \in 1..Len(t) + 1 /\ ~(i > Len(t))
  OBVIOUS
<1> QED  BY <1>1, ScanUnfolds DEF ScanBody

TokenFrom(t, i) == Token(TokenAt(t, i)[1], SubSeq(t, i, TokenAt(t, i)[2] - 1))
LEMMA ScanAtToken ==
    ASSUME NEW t, Len(t) \in Nat, NEW i \in 1..Len(t), t[i] \notin White,
           NEW next, next = TokenAt(t, i)[2]
    PROVE  Scan(t)[i] = IF next = 0 \/ next - i >= TOKEN_SIZE \/ ~Scan(t)[next].ok
                        THEN Refused
                        ELSE [ok |-> TRUE, tokens |-> <<TokenFrom(t, i)>> \o Scan(t)[next].tokens]
<1>1. i \in 1..Len(t) + 1 /\ ~(i > Len(t))
  OBVIOUS
<1>2. Scan(t)[i] = ScanBody(t, Scan(t), i)
  BY <1>1, ScanUnfolds
<1> QED  BY <1>1, <1>2, Zenon DEF ScanBody, TokenFrom

\* From the end of a text to its first byte.
LEMMA Backwards ==
    ASSUME NEW n \in Nat, NEW T, n + 1 \in T,
           \A i \in 1..n : (\A j \in (i + 1)..(n + 1) : j \in T) => i \in T
    PROVE  \A i \in 1..n + 1 : i \in T
<1> DEFINE D == {d \in Nat : \A i \in 1..n + 1 : i >= n + 1 - d => i \in T}
<1>1. 0 \in D
  OBVIOUS
<1>2. ASSUME NEW d \in Nat, d \in D PROVE d + 1 \in D
  <2> SUFFICES ASSUME NEW i \in 1..n + 1, i >= n + 1 - (d + 1) PROVE i \in T
    OBVIOUS
  <2>1. CASE i = n + 1
    BY <2>1
  <2>2. CASE i # n + 1
    <3>1. \A j \in (i + 1)..(n + 1) : j \in 1..n + 1 /\ j >= n + 1 - d
      OBVIOUS
    <3>2. \A j \in (i + 1)..(n + 1) : j \in T
      BY <1>2, <3>1
    <3> QED  BY <2>2, <3>2
  <2> QED  BY <2>1, <2>2
<1> HIDE DEF D
<1>3. n + 1 \in D
  <2>1. n + 1 \in Nat /\ \A d \in Nat : d \in D
    BY <1>1, <1>2, Collecting!SetInduction
  <2> QED  BY <2>1
<1>4. \A i \in 1..n + 1 : i >= n + 1 - (n + 1)
  OBVIOUS
<1> QED  BY <1>3, <1>4 DEF D

ScanResults == [ok : BOOLEAN, tokens : Seq(Tokens)]

LEMMA TextFacts == \A t \in ByteString : Len(t) \in Nat /\ DOMAIN t = 1..Len(t)
BY DEF ByteString

LEMMA JoinedTokens ==
    \A token \in Tokens, s \in Seq(Tokens) : <<token>> \o s \in Seq(Tokens)
OBVIOUS

LEMMA ScanHasType ==
    ASSUME NEW t \in ByteString
    PROVE  \A i \in 1..Len(t) + 1 : Scan(t)[i] \in ScanResults
<1> DEFINE n == Len(t)
           T == {i \in 1..n + 1 : Scan(t)[i] \in ScanResults}
<1>0. n \in Nat /\ n = Len(t)
  BY TextFacts
<1>1. n + 1 \in T
  <2>1. Scan(t)[n + 1] = [ok |-> TRUE, tokens |-> <<>>]
    BY <1>0, ScanAtEnd
  <2>2. n + 1 \in 1..n + 1
    BY <1>0
  <2>3. [ok |-> TRUE, tokens |-> <<>>] \in ScanResults
    BY DEF ScanResults
  <2> QED  BY <2>1, <2>2, <2>3
<1>2. ASSUME NEW i \in 1..n, \A j \in (i + 1)..(n + 1) : j \in T PROVE i \in T
  <2> SUFFICES Scan(t)[i] \in ScanResults
    OBVIOUS
  <2>1. CASE t[i] \in White
    <3>1. Scan(t)[i] = Scan(t)[i + 1]
      BY <1>0, <2>1, ScanAtBlank
    <3>2. i + 1 \in (i + 1)..(n + 1)
      BY <1>0
    <3>3. i + 1 \in T
      BY <1>2, <3>2
    <3> QED  BY <3>1, <3>3
  <2>2. CASE t[i] \notin White
    <3> DEFINE next == TokenAt(t, i)[2]
               token == TokenFrom(t, i)
               joined == <<token>> \o Scan(t)[next].tokens
    <3>0. Refused \in ScanResults
      BY DEF ScanResults, Refused
    <3>1. Scan(t)[i] = IF next = 0 \/ next - i >= TOKEN_SIZE \/ ~Scan(t)[next].ok
                       THEN Refused ELSE [ok |-> TRUE, tokens |-> joined]
      BY <1>0, <2>2, ScanAtToken
    <3>2. ASSUME next # 0 PROVE joined \in Seq(Tokens)
      <4>1. next \in (i + 1)..(n + 1) /\ TokenAt(t, i)[1] \in TokenTypes
        BY <1>0, <3>2, TokenGoesOn
      <4>2. token = Token(TokenAt(t, i)[1], SubSeq(t, i, next - 1))
        BY DEF TokenFrom
      <4> HIDE DEF next, token
      <4>3. next \in T
        BY <1>2, <4>1
      <4>4. SubSeq(t, i, next - 1) \in ByteString
        BY <1>0, <4>1 DEF ByteString
      <4>5. token \in Tokens
        BY <4>1, <4>2, <4>4 DEF Token, Tokens
      <4>6. Scan(t)[next].tokens \in Seq(Tokens)
        BY <4>3 DEF ScanResults
      <4> QED  BY <4>5, <4>6, JoinedTokens
    <3> HIDE DEF next, joined
    <3>3. next # 0 => [ok |-> TRUE, tokens |-> joined] \in ScanResults
      BY <3>2 DEF ScanResults
    <3> QED  BY <3>0, <3>1, <3>3, Zenon
  <2> QED  BY <2>1, <2>2
<1> HIDE DEF T, n
<1>3. \A i \in 1..n + 1 : i \in T
  BY <1>0, <1>1, <1>2, Backwards
<1> QED  BY <1>0, <1>3 DEF T

LEMMA QuotesAreCounted ==
    ASSUME NEW t \in ByteString, NEW i \in 1..Len(t) + 1
    PROVE  QuotesBefore(t, i) \in Nat
<1>0. Len(t) \in Nat
  BY TextFacts
<1>1. CASE i \in 1..Len(t)
  BY <1>1, QuotesNext
<1>2. CASE i = 1
  BY <1>2, NoQuotesAtFirst
<1>3. CASE i = Len(t) + 1 /\ i # 1
  <2>1. Len(t) \in 1..Len(t)
    BY <1>0, <1>3
  <2>2. /\ QuotesBefore(t, Len(t)) \in Nat
        /\ QuotesBefore(t, Len(t) + 1) =
              QuotesBefore(t, Len(t)) + (IF t[Len(t)] = QUOTE THEN 1 ELSE 0)
    BY <2>1, QuotesNext
  <2> QED  BY <1>3, <2>2
<1> QED  BY <1>0, <1>1, <1>2, <1>3

\* Where no quote is, none is counted.
LEMMA NoQuotesBetween ==
    ASSUME NEW t \in ByteString, NEW i \in 1..Len(t) + 1, NEW j \in i..Len(t) + 1,
           \A l \in i..(j - 1) : t[l] # QUOTE
    PROVE  QuotesBefore(t, j) = QuotesBefore(t, i)
<1> DEFINE T == {d \in Nat : i + d <= j => QuotesBefore(t, i + d) = QuotesBefore(t, i)}
<1>0. Len(t) \in Nat
  BY TextFacts
<1>1. 0 \in T
  <2>1. i + 0 = i
    OBVIOUS
  <2> QED  BY <2>1
<1>2. ASSUME NEW d \in Nat, d \in T PROVE d + 1 \in T
  <2> SUFFICES ASSUME i + (d + 1) <= j
               PROVE  QuotesBefore(t, i + (d + 1)) = QuotesBefore(t, i)
    OBVIOUS
  <2> DEFINE l == i + d
  <2>1. l \in 1..Len(t) /\ l \in i..(j - 1) /\ i + d <= j /\ i + (d + 1) = l + 1
    BY <1>0
  <2>2. QuotesBefore(t, i + d) = QuotesBefore(t, i)
    BY <1>2, <2>1
  <2> HIDE DEF l
  <2>3. QuotesBefore(t, l) \in Nat
        /\ QuotesBefore(t, l + 1) = QuotesBefore(t, l) + (IF t[l] = QUOTE THEN 1 ELSE 0)
    BY <2>1, QuotesNext
  <2>4. t[l] # QUOTE
    BY <2>1
  <2>5. \A a \in Nat : a + 0 = a
    OBVIOUS
  <2>6. QuotesBefore(t, l + 1) = QuotesBefore(t, l)
    BY <2>3, <2>4, <2>5
  <2> QED  BY <2>1, <2>2, <2>6 DEF l
<1> HIDE DEF T
<1>3. j - i \in T
  <2>1. j - i \in Nat /\ \A d \in Nat : d \in T
    BY <1>0, <1>1, <1>2, Collecting!SetInduction
  <2> QED  BY <2>1
<1>4. i + (j - i) = j /\ i + (j - i) <= j
  BY <1>0
<1> QED  BY <1>3, <1>4 DEF T

-----------------------------------------------------------------------------
(* Groups of tokens *)

\* The tokens joining their groups from a state on, and the texts giving their tokens.
Grouping == INSTANCE FoldFacts WITH
    Op <- LAMBDA p, v, e : WithToken(v, e), Base <- LAMBDA p : p
Tokenizing == INSTANCE FoldFacts WITH
    Op <- LAMBDA p, v, e : WithGroup(v, Tokenize(e).tokens), Base <- LAMBDA p : p

GroupedFrom(groups, tokens) == Grouping!Fold(groups, tokens)
Opened(done, open) == [done |-> done, open |-> open]

LEMMA GroupedIsFolded == \A tokens : Grouped(tokens) = GroupedFrom(Opened(<<>>, <<>>), tokens)
BY DEF Grouped, GroupedFrom, Opened, Grouping!Fold, FoldLeft, Grouping!FoldLeft,
       MapThenFoldSet, Grouping!MapThenFoldSet, Max, Grouping!Max

LEMMA GroupedNext ==
    ASSUME NEW g
    PROVE  /\ GroupedFrom(g, <<>>) = g
           /\ \A s \in Seq(Tokens), e \in Tokens :
                 GroupedFrom(g, Append(s, e)) = WithToken(GroupedFrom(g, s), e)
BY Grouping!FoldOfNone, Grouping!FoldOfMore DEF GroupedFrom

\* What comes first joins its groups first.
LEMMA GroupedInTurn ==
    ASSUME NEW g, NEW s \in Seq(Tokens), NEW r \in Seq(Tokens)
    PROVE  GroupedFrom(g, s \o r) = GroupedFrom(GroupedFrom(g, s), r)
<1> DEFINE T == {q \in Seq(Tokens) : GroupedFrom(g, s \o q) = GroupedFrom(GroupedFrom(g, s), q)}
<1>1. <<>> \in T
  <2>1. s \o <<>> = s /\ <<>> \in Seq(Tokens)
    OBVIOUS
  <2> QED  BY <2>1, GroupedNext
<1>2. ASSUME NEW q \in Seq(Tokens), NEW e \in Tokens, q \in T PROVE Append(q, e) \in T
  <2>1. s \o Append(q, e) = Append(s \o q, e) /\ s \o q \in Seq(Tokens)
        /\ Append(q, e) \in Seq(Tokens)
    OBVIOUS
  <2>2. GroupedFrom(g, Append(s \o q, e)) = WithToken(GroupedFrom(g, s \o q), e)
    BY <2>1, GroupedNext
  <2>3. GroupedFrom(GroupedFrom(g, s), Append(q, e))
            = WithToken(GroupedFrom(GroupedFrom(g, s), q), e)
    BY GroupedNext
  <2> QED  BY <1>2, <2>1, <2>2, <2>3
<1> HIDE DEF T
<1>3. \A q \in Seq(Tokens) : q \in T
  BY <1>1, <1>2, Grouping!SeqInduction
<1> QED  BY <1>3 DEF T

\* Tokens other than semicolons stay in the open group.
Plain == {token \in Tokens : token.type # ";"}

LEMMA PlainSequences ==
    /\ Seq(Plain) \in SUBSET Seq(Tokens)
    /\ <<>> \in Seq(Plain)
    /\ \A s \in Seq(Plain), e \in Plain : Append(s, e) \in Seq(Plain) /\ <<e>> \o s \in Seq(Plain)
<1>1. Plain \in SUBSET Tokens
  BY DEF Plain
<1> HIDE DEF Plain
<1> QED  BY <1>1

LEMMA GroupedPlain ==
    ASSUME NEW done, NEW s \in Seq(Plain)
    PROVE  GroupedFrom(Opened(done, <<>>), s) = Opened(done, s)
<1> DEFINE T == {q \in Seq(Plain) : GroupedFrom(Opened(done, <<>>), q) = Opened(done, q)}
<1>1. <<>> \in T
  BY PlainSequences, GroupedNext
<1>2. ASSUME NEW q \in Seq(Plain), NEW e \in Plain, q \in T PROVE Append(q, e) \in T
  <2>1. q \in Seq(Tokens) /\ e \in Tokens /\ e.type # ";" /\ Append(q, e) \in Seq(Plain)
    BY PlainSequences DEF Plain
  <2>2. GroupedFrom(Opened(done, <<>>), Append(q, e)) = WithToken(Opened(done, q), e)
    <3>1. GroupedFrom(Opened(done, <<>>), Append(q, e))
              = WithToken(GroupedFrom(Opened(done, <<>>), q), e)
      BY <2>1, GroupedNext
    <3>2. GroupedFrom(Opened(done, <<>>), q) = Opened(done, q)
      BY <1>2
    <3> QED  BY <3>1, <3>2
  <2>3. WithToken(Opened(done, q), e) = Opened(done, Append(q, e))
    BY <2>1 DEF WithToken, Opened
  <2> QED  BY <2>1, <2>2, <2>3
<1> HIDE DEF T
<1>3. \A q \in Seq(Plain) : q \in T
  BY <1>1, <1>2, Grouping!SeqInduction
<1> QED  BY <1>3 DEF T

LEMMA TokenBetween ==
    \A s, r \in Seq(Tokens), e \in Tokens :
        /\ s \o (<<e>> \o r) = Append(s, e) \o r
        /\ Append(s, e) \in Seq(Tokens) /\ <<e>> \o r \in Seq(Tokens)
OBVIOUS

\* A semicolon ends the group.
LEMMA GroupedSemicolon ==
    ASSUME NEW done, NEW s \in Seq(Plain), NEW semi \in Tokens, semi.type = ";",
           NEW r \in Seq(Tokens)
    PROVE  GroupedFrom(Opened(done, <<>>), s \o (<<semi>> \o r))
               = GroupedFrom(Opened(WithGroup(done, s), <<>>), r)
<1>1. s \in Seq(Tokens)
  BY PlainSequences
<1>2. s \o (<<semi>> \o r) = Append(s, semi) \o r /\ Append(s, semi) \in Seq(Tokens)
  BY <1>1, TokenBetween
<1>3. GroupedFrom(Opened(done, <<>>), Append(s, semi)) = WithToken(Opened(done, s), semi)
  <2>1. GroupedFrom(Opened(done, <<>>), Append(s, semi))
            = WithToken(GroupedFrom(Opened(done, <<>>), s), semi)
    BY <1>1, GroupedNext
  <2>2. GroupedFrom(Opened(done, <<>>), s) = Opened(done, s)
    BY GroupedPlain
  <2> QED  BY <2>1, <2>2
<1>4. WithToken(Opened(done, s), semi) = Opened(WithGroup(done, s), <<>>)
  BY DEF WithToken, Opened
<1>5. GroupedFrom(Opened(done, <<>>), Append(s, semi) \o r)
          = GroupedFrom(GroupedFrom(Opened(done, <<>>), Append(s, semi)), r)
  BY <1>2, GroupedInTurn
<1> QED  BY <1>2, <1>3, <1>4, <1>5

LEMMA TokensOfNext ==
    /\ TokensOf(<<>>) = <<>>
    /\ \A s \in Seq(ByteString), t \in ByteString :
          TokensOf(Append(s, t)) = WithGroup(TokensOf(s), Tokenize(t).tokens)
<1>1. \A s : TokensOf(s) = Tokenizing!Fold(<<>>, s)
  BY DEF TokensOf, Tokenizing!Fold, FoldLeft, Tokenizing!FoldLeft,
         MapThenFoldSet, Tokenizing!MapThenFoldSet, Max, Tokenizing!Max
<1> QED  BY <1>1, Tokenizing!FoldOfNone, Tokenizing!FoldOfMore

-----------------------------------------------------------------------------
(* A piece of a text, scanned on its own and in its place *)

\* The bytes from a to b, up to blanks and the end e of the statement.
Separated(t, a, b, e) ==
    /\ a \in 1..Len(t) /\ b \in a..Len(t) /\ e \in (b + 1)..(Len(t) + 1)
    /\ \A l \in (b + 1)..(e - 1) : t[l] \in Blanks
    /\ e = Len(t) + 1 \/ t[e] = ";"
    /\ QuotesBefore(t, e) % 2 = 0
    /\ \A l \in a..b : t[l] = ";" => QuotesBefore(t, l) % 2 # 0

LEMMA SeparatedFacts ==
    ASSUME NEW t \in ByteString, NEW a, NEW b, NEW e, Separated(t, a, b, e)
    PROVE  /\ Len(t) \in Nat /\ a \in 1..Len(t) /\ b \in a..Len(t)
           /\ e \in (b + 1)..(Len(t) + 1) /\ e \in 1..(Len(t) + 1)
           /\ a \in Nat /\ b \in Nat /\ e \in Nat /\ b + 1 \in 1..(Len(t) + 1)
<1>1. Len(t) \in Nat
  BY TextFacts
<1>2. a \in 1..Len(t) /\ b \in a..Len(t) /\ e \in (b + 1)..(Len(t) + 1)
  BY Zenon DEF Separated
<1> QED  BY <1>1, <1>2

\* The piece as a text of its own.
IsPiece(t, a, b, p) ==
    /\ p \in ByteString /\ Len(t) \in Nat /\ Len(p) \in Nat
    /\ a \in 1..Len(t) /\ b \in a..Len(t) /\ Len(p) = b - a + 1
    /\ \A k \in 1..Len(p) : a + k - 1 \in a..b /\ p[k] = t[a + k - 1]
    /\ \A l \in a..b : l - a + 1 \in 1..Len(p) /\ t[l] = p[l - a + 1]

LEMMA PieceFacts ==
    ASSUME NEW t \in ByteString, NEW a, NEW b, NEW e, Separated(t, a, b, e),
           NEW p, p = SubSeq(t, a, b)
    PROVE  IsPiece(t, a, b, p)
<1>1. t \in Seq(STRING) /\ Len(t) \in Nat /\ a \in 1..Len(t) /\ b \in a..Len(t)
  BY SeparatedFacts DEF ByteString
<1>2. p \in Seq(STRING) /\ Len(p) = b - a + 1 /\ \A k \in 1..(b - a + 1) : p[k] = t[a + k - 1]
  BY <1>1
<1>3. \A l \in a..b : l - a + 1 \in 1..(b - a + 1) /\ a + (l - a + 1) - 1 = l
  BY <1>1
<1>4. \A k \in 1..(b - a + 1) : a + k - 1 \in a..b
  BY <1>1
<1>5. \A l \in a..b : t[l] = p[l - a + 1]
  BY <1>2, <1>3
<1>6. b - a + 1 \in Nat
  BY <1>1
<1> QED  BY <1>1, <1>2, <1>3, <1>4, <1>5, <1>6 DEF ByteString, IsPiece

\* No name and no number goes on after the piece.
LEMMA AfterPiece ==
    ASSUME NEW t \in ByteString, NEW a, NEW b, NEW e, Separated(t, a, b, e)
    PROVE  b + 1 = Len(t) + 1 \/ (t[b + 1] \notin NameBytes /\ t[b + 1] \notin DigitBytes)
<1>1. Len(t) \in Nat /\ b \in Nat /\ e \in (b + 1)..(Len(t) + 1)
  BY SeparatedFacts
<1>2. /\ e = Len(t) + 1 \/ t[e] = ";"
      /\ \A l \in (b + 1)..(e - 1) : t[l] \in Blanks
  BY Zenon DEF Separated
<1>3. b + 1 = Len(t) + 1 \/ t[b + 1] \in Blanks \cup {";"}
  <2>1. CASE b + 1 = e
    BY <1>1, <1>2, <2>1
  <2>2. CASE b + 1 # e
    <3>1. b + 1 \in (b + 1)..(e - 1)
      BY <1>1, <2>2
    <3> QED  BY <1>2, <3>1
  <2> QED  BY <2>1, <2>2
<1>4. \A c \in Blanks \cup {";"} : c \in White \cup Symbols /\ c # "_"
  BY DEF Blanks, White, Symbols
<1>5. \A c \in White \cup Symbols : c \notin Letters \cup DigitBytes
  BY TokenizerConstants
<1> QED  BY <1>3, <1>4, <1>5 DEF NameBytes

\* Runs and strings end at the same byte in the piece and in the text.
RunAgrees(t, a, p, k, bytes) ==
    /\ EndOf(p, k, bytes) \in k..(Len(p) + 1)
    /\ EndOf(t, a + k - 1, bytes) = a + EndOf(p, k, bytes) - 1
    /\ QuotesBefore(t, a + EndOf(p, k, bytes) - 1) = QuotesBefore(t, a + k - 1)
StringAgrees(t, a, p, k) ==
    /\ ClosingQuote(p, k) \in (k + 1)..Len(p)
    /\ ClosingQuote(t, a + k - 1) = a + ClosingQuote(p, k) - 1
    /\ QuotesBefore(t, a + ClosingQuote(p, k)) % 2 = 0

\* A run of bytes from a place of the piece ends inside of it, wherever it is read.
LEMMA RunsAgree ==
    ASSUME NEW t \in ByteString, NEW a, NEW b, NEW e, Separated(t, a, b, e),
           NEW p, p = SubSeq(t, a, b), NEW k \in 1..Len(p) + 1, NEW bytes, QUOTE \notin bytes,
           b + 1 = Len(t) + 1 \/ t[b + 1] \notin bytes
    PROVE  RunAgrees(t, a, p, k, bytes)
<1> DEFINE i == a + k - 1
           q == EndOf(p, k, bytes)
           j == a + q - 1
<1>0. IsPiece(t, a, b, p)
  BY PieceFacts, Zenon
<1>1. /\ p \in ByteString /\ Len(t) \in Nat /\ Len(p) \in Nat
      /\ a \in 1..Len(t) /\ b \in a..Len(t) /\ Len(p) = b - a + 1
      /\ \A l \in 1..Len(p) : a + l - 1 \in a..b /\ p[l] = t[a + l - 1]
      /\ \A l \in a..b : l - a + 1 \in 1..Len(p) /\ t[l] = p[l - a + 1]
  BY <1>0 DEF IsPiece
<1>2. /\ q \in k..(Len(p) + 1)
      /\ \A l \in k..(q - 1) : p[l] \in bytes
      /\ q = Len(p) + 1 \/ p[q] \notin bytes
  BY <1>1, EndOfFacts
<1> HIDE DEF q
<1>3. i \in 1..(Len(t) + 1) /\ j \in i..(Len(t) + 1) /\ j \in i..(b + 1)
  BY <1>1, <1>2
<1>4. ASSUME NEW l \in i..(j - 1) PROVE t[l] \in bytes
  <2>1. l \in a..b /\ l - a + 1 \in k..(q - 1)
    BY <1>1, <1>2, <1>3
  <2> HIDE DEF i, j
  <2>2. t[l] = p[l - a + 1] /\ p[l - a + 1] \in bytes
    BY <1>1, <1>2, <2>1
  <2> QED  BY <2>2
<1>5. j = Len(t) + 1 \/ t[j] \notin bytes
  <2>1. CASE q = Len(p) + 1
    <3>1. j = b + 1
      BY <1>1, <2>1
    <3> QED  BY <3>1
  <2>2. CASE q # Len(p) + 1
    <3>1. q \in 1..Len(p)
      BY <1>1, <1>2, <2>2
    <3>2. p[q] = t[j]
      BY <1>1, <3>1
    <3> QED  BY <1>2, <2>2, <3>2
  <2> QED  BY <2>1, <2>2
<1> HIDE DEF i, j
<1>6. EndOf(t, i, bytes) = j
  BY <1>1, <1>3, <1>4, <1>5, EndOfIs
<1>7. \A l \in i..(j - 1) : t[l] # QUOTE
  BY <1>4
<1>8. QuotesBefore(t, j) = QuotesBefore(t, i)
  BY <1>3, <1>7, NoQuotesBetween
<1> QED  BY <1>2, <1>6, <1>8 DEF RunAgrees, i, j, q

\* A string that starts outside of strings ends in the piece.
LEMMA StringsAgree ==
    ASSUME NEW t \in ByteString, NEW a, NEW b, NEW e, Separated(t, a, b, e),
           NEW p, p = SubSeq(t, a, b), NEW k \in 1..Len(p), p[k] = QUOTE,
           QuotesBefore(t, a + k - 1) % 2 = 0
    PROVE  StringAgrees(t, a, p, k)
<1> DEFINE i == a + k - 1
           q == ClosingQuote(p, k)
           c == a + q - 1
<1>0. IsPiece(t, a, b, p)
  BY PieceFacts, Zenon
<1>1. /\ p \in ByteString /\ Len(t) \in Nat /\ Len(p) \in Nat
      /\ a \in 1..Len(t) /\ b \in a..Len(t) /\ Len(p) = b - a + 1
      /\ \A l \in 1..Len(p) : a + l - 1 \in a..b /\ p[l] = t[a + l - 1]
      /\ \A l \in a..b : l - a + 1 \in 1..Len(p) /\ t[l] = p[l - a + 1]
  BY <1>0 DEF IsPiece
<1>2. i \in 1..Len(t) /\ i \in a..b /\ t[i] = QUOTE /\ i + 1 \in 1..Len(t) + 1
  BY <1>1
<1>3. \/ q = 0 /\ \A j \in (k + 1)..Len(p) : p[j] # QUOTE
      \/ /\ q \in (k + 1)..Len(p) /\ p[q] = QUOTE
         /\ \A j \in (k + 1)..(q - 1) : p[j] # QUOTE
  BY <1>1, QuoteFacts
<1> HIDE DEF q
<1>4. QuotesBefore(t, i) \in Nat /\ QuotesBefore(t, i + 1) = QuotesBefore(t, i) + 1
  BY <1>2, QuotesNext
<1>5. ASSUME q = 0 PROVE FALSE
  <2>0. \A j \in (k + 1)..Len(p) : p[j] # QUOTE
    <3>1. q \notin (k + 1)..Len(p)
      BY <1>1, <1>5
    <3> QED  BY <1>3, <3>1, Zenon
  <2>1. e \in (b + 1)..(Len(t) + 1) /\ QuotesBefore(t, e) % 2 = 0
        /\ \A l \in (b + 1)..(e - 1) : t[l] \in Blanks
    BY Zenon DEF Separated
  <2>2. e \in (i + 1)..(Len(t) + 1)
    BY <1>1, <1>2, <2>1
  <2>3. ASSUME NEW l \in (i + 1)..(e - 1) PROVE t[l] # QUOTE
    <3>1. CASE l <= b
      <4>1. l \in a..b /\ l - a + 1 \in (k + 1)..Len(p)
        BY <1>1, <2>2, <3>1
      <4>2. t[l] = p[l - a + 1]
        BY <1>1, <4>1
      <4>3. p[l - a + 1] # QUOTE
        BY <2>0, <4>1
      <4> QED  BY <4>2, <4>3
    <3>2. CASE ~(l <= b)
      <4>1. l \in (b + 1)..(e - 1)
        BY <1>1, <2>1, <2>2, <3>2
      <4> QED  BY <2>1, <4>1 DEF Blanks, QUOTE
    <3> QED  BY <3>1, <3>2
  <2>4. QuotesBefore(t, e) = QuotesBefore(t, i + 1)
    BY <1>2, <2>2, <2>3, NoQuotesBetween
  <2>5. QuotesBefore(t, i) % 2 = 0
    OBVIOUS
  <2>6. \A n \in Nat : n % 2 = 0 => (n + 1) % 2 # 0
    BY ONLY TRUE
  <2> QED  BY <1>4, <2>1, <2>4, <2>5, <2>6
<1>6. /\ q \in (k + 1)..Len(p) /\ p[q] = QUOTE
      /\ \A j \in (k + 1)..(q - 1) : p[j] # QUOTE
  BY <1>3, <1>5
<1>7. c \in (i + 1)..Len(t) /\ c \in a..b /\ c - a + 1 = q /\ a + q = c + 1
      /\ c \in (i + 1)..(Len(t) + 1) /\ c \in 1..Len(t)
  BY <1>1, <1>6
<1>8. t[c] = QUOTE
  BY <1>1, <1>6, <1>7
<1>9. ASSUME NEW l \in (i + 1)..(c - 1) PROVE t[l] # QUOTE
  <2>1. l \in a..b /\ l - a + 1 \in (k + 1)..(q - 1)
    BY <1>1, <1>6, <1>7
  <2> HIDE DEF i, c
  <2> QED  BY <1>1, <1>6, <2>1
<1>10. QuotesBefore(t, i) % 2 = 0
  OBVIOUS
<1> HIDE DEF i, c
<1>11. ClosingQuote(t, i) = c
  BY <1>1, <1>2, <1>7, <1>8, <1>9, QuoteIs
<1>12. QuotesBefore(t, c) = QuotesBefore(t, i + 1)
  BY <1>2, <1>7, <1>9, NoQuotesBetween
<1>13. QuotesBefore(t, c + 1) = QuotesBefore(t, c) + 1
  BY <1>7, <1>8, QuotesNext
<1>14. QuotesBefore(t, a + q) % 2 = 0
  <2>1. \A n \in Nat : n % 2 = 0 => ((n + 1) + 1) % 2 = 0
    BY ONLY TRUE
  <2>2. QuotesBefore(t, a + q) = (QuotesBefore(t, i) + 1) + 1
    BY <1>4, <1>7, <1>12, <1>13
  <2> QED  BY <1>4, <1>10, <2>1, <2>2
<1> QED  BY <1>6, <1>11, <1>14 DEF StringAgrees, i, c, q

\* What is found in the text is what is found in the piece, moved by the piece's place.
Agree(t, a, k, n, x, y) ==
    /\ x[1] = y[1] /\ y[1] # ";"
    /\ \/ x[2] = 0 /\ y[2] = 0
       \/ /\ y[2] \in (k + 1)..(n + 1) /\ x[2] = a + y[2] - 1
          /\ QuotesBefore(t, x[2]) % 2 = 0

LEMMA PairsAgree ==
    ASSUME NEW t, NEW a, NEW k, NEW n, NEW type, type # ";", NEW x, NEW y,
           \/ x = 0 /\ y = 0
           \/ /\ y \in (k + 1)..(n + 1) /\ x = a + y - 1
              /\ QuotesBefore(t, x) % 2 = 0
    PROVE  Agree(t, a, k, n, <<type, x>>, <<type, y>>)
<1>1. \A u, v : <<u, v>>[1] = u /\ <<u, v>>[2] = v
  OBVIOUS
<1> QED  BY <1>1, Zenon DEF Agree

\* The byte at a place of the piece starts a number in the piece if it does in the text.
LEMMA NumbersAgree ==
    ASSUME NEW t \in ByteString, NEW a, NEW b, NEW e, Separated(t, a, b, e),
           NEW p, p = SubSeq(t, a, b), NEW k \in 1..Len(p)
    PROVE  NumberStart(t, a + k - 1) <=> NumberStart(p, k)
<1> DEFINE i == a + k - 1
<1>0. IsPiece(t, a, b, p)
  BY PieceFacts, Zenon
<1>1. /\ Len(t) \in Nat /\ Len(p) \in Nat
      /\ a \in 1..Len(t) /\ b \in a..Len(t) /\ Len(p) = b - a + 1
      /\ \A l \in 1..Len(p) : a + l - 1 \in a..b /\ p[l] = t[a + l - 1]
  BY <1>0 DEF IsPiece
<1>2. p[k] = t[i] /\ i \in a..b
  BY <1>1
<1>3. CASE k = Len(p)
  <2>1. i = b /\ ~(k < Len(p))
    BY <1>1, <1>3
  <2>2. ~(i < Len(t) /\ t[i + 1] \in DigitBytes)
    <3>1. b + 1 = Len(t) + 1 \/ t[b + 1] \notin DigitBytes
      BY AfterPiece
    <3>2. b + 1 = Len(t) + 1 => ~(b < Len(t))
      BY <1>1
    <3> HIDE DEF i
    <3> QED  BY <2>1, <3>1, <3>2
  <2> HIDE DEF i
  <2>3. NumberStart(t, i) <=> NumberStart(p, k)
    BY <1>2, <2>1, <2>2 DEF NumberStart
  <2> QED  BY <2>3 DEF i
<1>4. CASE k # Len(p)
  <2>1. k + 1 \in 1..Len(p) /\ k < Len(p) /\ i < Len(t) /\ a + (k + 1) - 1 = i + 1
    BY <1>1, <1>4
  <2>2. p[k + 1] = t[i + 1]
    BY <1>1, <2>1
  <2> HIDE DEF i
  <2>3. NumberStart(t, i) <=> NumberStart(p, k)
    BY <1>2, <2>1, <2>2 DEF NumberStart
  <2> QED  BY <2>3 DEF i
<1> QED  BY <1>3, <1>4

LEMMA TokensAgree ==
    ASSUME NEW t \in ByteString, NEW a, NEW b, NEW e, Separated(t, a, b, e),
           NEW p, p = SubSeq(t, a, b), NEW k \in 1..Len(p),
           QuotesBefore(t, a + k - 1) % 2 = 0
    PROVE  Agree(t, a, k, Len(p), TokenAt(t, a + k - 1), TokenAt(p, k))
<1> DEFINE i == a + k - 1
           Agreed == Agree(t, a, k, Len(p), TokenAt(t, i), TokenAt(p, k))
<1>0. IsPiece(t, a, b, p)
  BY PieceFacts, Zenon
<1>1. /\ p \in ByteString /\ Len(t) \in Nat /\ Len(p) \in Nat
      /\ a \in 1..Len(t) /\ b \in a..Len(t) /\ Len(p) = b - a + 1
      /\ \A l \in 1..Len(p) : a + l - 1 \in a..b /\ p[l] = t[a + l - 1]
  BY <1>0 DEF IsPiece
<1>2. p[k] = t[i] /\ i \in a..b /\ i \in 1..Len(t) /\ k \in 1..Len(p) + 1
      /\ k + 1 \in 1..Len(p) + 1 /\ a + (k + 1) - 1 = i + 1 /\ i + 1 \in 1..Len(t) + 1
      /\ k \in Nat
  BY <1>1
<1>3. b + 1 = Len(t) + 1 \/ (t[b + 1] \notin NameBytes /\ t[b + 1] \notin DigitBytes)
  BY AfterPiece
<1>4. QUOTE \notin NameBytes /\ QUOTE \notin DigitBytes
  BY TokenizerConstants DEF NameBytes, QUOTE
<1>5. QuotesBefore(t, i) % 2 = 0
  OBVIOUS
<1>6. NumberStart(t, i) <=> NumberStart(p, k)
  BY NumbersAgree
<1>7. t[i] # QUOTE => QuotesBefore(t, i + 1) = QuotesBefore(t, i)
  <2>1. QuotesBefore(t, i) \in Nat
        /\ QuotesBefore(t, i + 1) = QuotesBefore(t, i) + (IF t[i] = QUOTE THEN 1 ELSE 0)
    BY <1>2, QuotesNext
  <2>2. \A c \in Nat : c + 0 = c
    BY ONLY TRUE
  <2> QED  BY <2>1, <2>2
<1>8. ASSUME t[i] \in Letters \cup {"_"} PROVE Agreed
  <2> DEFINE x == EndOf(t, i, NameBytes)
             y == EndOf(p, k, NameBytes)
  <2>0. b + 1 = Len(t) + 1 \/ t[b + 1] \notin NameBytes
    BY <1>3
  <2>1. y \in k..(Len(p) + 1) /\ x = a + y - 1 /\ QuotesBefore(t, a + y - 1) = QuotesBefore(t, i)
    <3>1. RunAgrees(t, a, p, k, NameBytes)
      BY <1>2, <1>4, <2>0, RunsAgree
    <3> QED  BY <3>1 DEF RunAgrees
  <2>2. y = Len(p) + 1 \/ p[y] \notin NameBytes
    BY <1>1, <1>2, EndOfFacts
  <2>3. p[k] \in NameBytes
    BY <1>2, <1>8 DEF NameBytes
  <2>4. TokenAt(t, i) = <<"identifier", x>>
    BY <1>8, TokenCases
  <2>5. TokenAt(p, k) = <<"identifier", y>>
    BY <1>2, <1>8, TokenCases
  <2> HIDE DEF x, y, i
  <2>6. y # k /\ y \in (k + 1)..(Len(p) + 1)
    BY <1>1, <1>2, <2>1, <2>2, <2>3
  <2>7. QuotesBefore(t, x) % 2 = 0
    BY <1>5, <2>1
  <2>8. Agree(t, a, k, Len(p), <<"identifier", x>>, <<"identifier", y>>)
    BY <2>1, <2>6, <2>7, PairsAgree
  <2> QED  BY <2>4, <2>5, <2>8
<1>9. ASSUME t[i] = QUOTE PROVE Agreed
  <2> DEFINE x == ClosingQuote(t, i)
             y == ClosingQuote(p, k)
  <2>0. p[k] = QUOTE
    BY <1>2, <1>9
  <2>1. y \in (k + 1)..Len(p) /\ x = a + y - 1 /\ QuotesBefore(t, a + y) % 2 = 0
    <3>1. StringAgrees(t, a, p, k)
      BY <1>5, <2>0, StringsAgree
    <3> QED  BY <3>1 DEF StringAgrees
  <2>2. TokenAt(t, i) = <<"string", IF x = 0 THEN 0 ELSE x + 1>>
    BY <1>9, TokenCases
  <2>3. TokenAt(p, k) = <<"string", IF y = 0 THEN 0 ELSE y + 1>>
    BY <1>2, <1>9, TokenCases
  <2> HIDE DEF x, y, i
  <2>4. x # 0 /\ y # 0 /\ y + 1 \in (k + 1)..(Len(p) + 1) /\ x + 1 = a + (y + 1) - 1
        /\ x + 1 = a + y
    BY <1>1, <1>2, <2>1
  <2>5. QuotesBefore(t, x + 1) % 2 = 0
    BY <2>1, <2>4
  <2>6. Agree(t, a, k, Len(p), <<"string", x + 1>>, <<"string", y + 1>>)
    BY <2>4, <2>5, PairsAgree
  <2> QED  BY <2>2, <2>3, <2>4, <2>6
<1>10. ASSUME t[i] \notin Letters \cup {"_", QUOTE}, NumberStart(t, i) PROVE Agreed
  <2> DEFINE x == EndOf(t, i + 1, DigitBytes)
             y == EndOf(p, k + 1, DigitBytes)
  <2>0. b + 1 = Len(t) + 1 \/ t[b + 1] \notin DigitBytes
    BY <1>3
  <2>1. y \in (k + 1)..(Len(p) + 1) /\ x = a + y - 1
        /\ QuotesBefore(t, a + y - 1) = QuotesBefore(t, i + 1)
    <3>1. RunAgrees(t, a, p, k + 1, DigitBytes)
      BY <1>2, <1>4, <2>0, RunsAgree
    <3>2. a + (k + 1) - 1 = i + 1
      BY <1>2
    <3> HIDE DEF i
    <3> QED  BY <3>1, <3>2 DEF RunAgrees
  <2>2. TokenAt(t, i) = <<"number", x>>
    BY <1>10, TokenCases
  <2>3. TokenAt(p, k) = <<"number", y>>
    BY <1>2, <1>6, <1>10, TokenCases
  <2> HIDE DEF x, y, i
  <2>4. QuotesBefore(t, x) % 2 = 0
    BY <1>5, <1>7, <1>10, <2>1
  <2>5. Agree(t, a, k, Len(p), <<"number", x>>, <<"number", y>>)
    BY <2>1, <2>4, PairsAgree
  <2> QED  BY <2>2, <2>3, <2>5
<1>11. ASSUME t[i] \notin Letters \cup {"_", QUOTE}, ~NumberStart(t, i), t[i] \in Symbols
       PROVE  Agreed
  <2>1. TokenAt(t, i) = <<t[i], i + 1>>
    BY <1>11, TokenCases
  <2>2. TokenAt(p, k) = <<t[i], k + 1>>
    BY <1>2, <1>6, <1>11, TokenCases
  <2>3. t[i] # ";"
    <3>1. \A l \in a..b : t[l] = ";" => QuotesBefore(t, l) % 2 # 0
      BY Zenon DEF Separated
    <3> HIDE DEF i
    <3> QED  BY <1>2, <1>5, <3>1
  <2>4. k + 1 \in (k + 1)..(Len(p) + 1) /\ i + 1 = a + (k + 1) - 1
    BY <1>1, <1>2
  <2> HIDE DEF i
  <2>5. QuotesBefore(t, i + 1) % 2 = 0
    BY <1>5, <1>7, <1>11
  <2>6. Agree(t, a, k, Len(p), <<t[i], i + 1>>, <<t[i], k + 1>>)
    BY <2>3, <2>4, <2>5, PairsAgree
  <2> QED  BY <2>1, <2>2, <2>6
<1>12. ASSUME t[i] \notin Letters \cup {"_", QUOTE}, ~NumberStart(t, i), t[i] \notin Symbols
       PROVE  Agreed
  <2>1. TokenAt(t, i) = <<"none", 0>>
    BY <1>12, TokenCases
  <2>2. TokenAt(p, k) = <<"none", 0>>
    BY <1>2, <1>6, <1>12, TokenCases
  <2>3. Agree(t, a, k, Len(p), <<"none", 0>>, <<"none", 0>>)
    BY PairsAgree
  <2> QED  BY <2>1, <2>2, <2>3
<1> HIDE DEF Agreed
<1>13. Agreed
  BY <1>8, <1>9, <1>10, <1>11, <1>12
<1> QED  BY <1>13 DEF Agreed

\* What is scanned from a place of the piece, in the text, is what is scanned in the
\* piece and then in the rest of the text, or refused if one of them is.
Joined(whole, part, rest) ==
    /\ part.tokens \in Seq(Plain)
    /\ whole.ok <=> part.ok /\ rest.ok
    /\ whole.ok => whole.tokens = part.tokens \o rest.tokens

LEMMA JoinedTwice ==
    ASSUME NEW token \in Plain, NEW s \in Seq(Plain), NEW r \in Seq(Tokens)
    PROVE  <<token>> \o (s \o r) = (<<token>> \o s) \o r /\ <<token>> \o s \in Seq(Plain)
<1>1. token \in Tokens /\ s \in Seq(Tokens)
  BY PlainSequences DEF Plain
<1>2. \A h \in Tokens, l, q \in Seq(Tokens) : <<h>> \o (l \o q) = (<<h>> \o l) \o q
  OBVIOUS
<1> QED  BY <1>1, <1>2, PlainSequences

LEMMA JoinedAtEnd ==
    ASSUME NEW rest \in ScanResults
    PROVE  Joined(rest, [ok |-> TRUE, tokens |-> <<>>], rest)
<1>1. rest.tokens \in Seq(Tokens) /\ rest.ok \in BOOLEAN
  BY DEF ScanResults
<1>2. \A s \in Seq(Tokens) : <<>> \o s = s
  OBVIOUS
<1> QED  BY <1>1, <1>2, PlainSequences DEF Joined

LEMMA JoinedAtToken ==
    ASSUME NEW token \in Plain, NEW long, NEW whole, NEW part, NEW rest \in ScanResults,
           Joined(whole, part, rest)
    PROVE  Joined(IF long \/ ~whole.ok THEN Refused
                  ELSE [ok |-> TRUE, tokens |-> <<token>> \o whole.tokens],
                  IF long \/ ~part.ok THEN Refused
                  ELSE [ok |-> TRUE, tokens |-> <<token>> \o part.tokens],
                  rest)
<1>1. rest.tokens \in Seq(Tokens) /\ part.tokens \in Seq(Plain)
  BY DEF ScanResults, Joined
<1>2. /\ <<token>> \o (part.tokens \o rest.tokens) = (<<token>> \o part.tokens) \o rest.tokens
      /\ <<token>> \o part.tokens \in Seq(Plain)
  BY <1>1, JoinedTwice
<1>3. Refused.ok = FALSE /\ Refused.tokens \in Seq(Plain)
  BY PlainSequences DEF Refused
<1>4. CASE long
  BY <1>3, <1>4 DEF Joined
<1>5. CASE ~long /\ ~part.ok
  BY <1>3, <1>5 DEF Joined
<1>6. CASE ~long /\ part.ok /\ ~rest.ok
  BY <1>2, <1>3, <1>6 DEF Joined
<1>7. CASE ~long /\ part.ok /\ rest.ok
  BY <1>2, <1>7 DEF Joined
<1> QED  BY <1>4, <1>5, <1>6, <1>7

LEMMA SubSeqFacts ==
    ASSUME NEW s \in Seq(STRING), NEW c \in 1..Len(s), NEW d \in c..Len(s)
    PROVE  /\ SubSeq(s, c, d) \in Seq(STRING) /\ Len(SubSeq(s, c, d)) = d - c + 1
           /\ \A l \in 1..(d - c + 1) : SubSeq(s, c, d)[l] = s[c + l - 1]
OBVIOUS

\* The same bytes of the text and of the piece.
SameToken(t, a, k, p, y) ==
    /\ SubSeq(t, a + k - 1, a + y - 1 - 1) = SubSeq(p, k, y - 1)
    /\ SubSeq(p, k, y - 1) \in ByteString
    /\ a + y - 1 - (a + k - 1) = y - k

LEMMA SameBytes ==
    ASSUME NEW t \in ByteString, NEW a, NEW b, NEW p, IsPiece(t, a, b, p),
           NEW k \in 1..Len(p), NEW y \in (k + 1)..(Len(p) + 1)
    PROVE  SameToken(t, a, k, p, y)
<1>1. /\ p \in Seq(STRING) /\ t \in Seq(STRING) /\ Len(t) \in Nat /\ Len(p) \in Nat
      /\ a \in 1..Len(t) /\ b \in a..Len(t) /\ Len(p) = b - a + 1
      /\ \A l \in 1..Len(p) : a + l - 1 \in a..b /\ p[l] = t[a + l - 1]
  BY DEF IsPiece, ByteString
<1> DEFINE u == SubSeq(t, a + k - 1, a + y - 1 - 1)
           v == SubSeq(p, k, y - 1)
<1>2. u \in Seq(STRING) /\ Len(u) = y - k
      /\ \A l \in 1..(y - k) : u[l] = t[a + k - 1 + l - 1]
  <2> DEFINE c == a + k - 1
             d == a + y - 1 - 1
  <2>0. a \in Nat /\ b \in Nat /\ k \in Nat /\ y \in Nat /\ Len(t) \in Nat
        /\ 1 <= a /\ b <= Len(t) /\ 1 <= k /\ k + 1 <= y /\ y <= b - a + 1 + 1
    BY <1>1
  <2>1. c \in 1..Len(t) /\ d \in c..Len(t) /\ d - c + 1 = y - k
    BY ONLY <2>0
  <2> HIDE DEF c, d
  <2>2. /\ SubSeq(t, c, d) \in Seq(STRING) /\ Len(SubSeq(t, c, d)) = d - c + 1
        /\ \A l \in 1..(d - c + 1) : SubSeq(t, c, d)[l] = t[c + l - 1]
    BY <1>1, <2>1, SubSeqFacts
  <2> QED  BY <2>1, <2>2 DEF c, d
<1>3. v \in Seq(STRING) /\ Len(v) = y - k /\ \A l \in 1..(y - k) : v[l] = p[k + l - 1]
  <2>1. k \in 1..Len(p) /\ y - 1 \in k..Len(p) /\ y - 1 - k + 1 = y - k
    BY <1>1
  <2>2. /\ SubSeq(p, k, y - 1) \in Seq(STRING) /\ Len(SubSeq(p, k, y - 1)) = y - 1 - k + 1
        /\ \A l \in 1..(y - 1 - k + 1) : SubSeq(p, k, y - 1)[l] = p[k + l - 1]
    BY <1>1, <2>1, SubSeqFacts
  <2> QED  BY <2>1, <2>2
<1>4. ASSUME NEW l \in 1..(y - k) PROVE u[l] = v[l]
  <2>1. k + l - 1 \in 1..Len(p) /\ a + (k + l - 1) - 1 = a + k - 1 + l - 1
    BY <1>1
  <2> HIDE DEF u, v
  <2>2. p[k + l - 1] = t[a + k - 1 + l - 1]
    BY <1>1, <2>1
  <2> QED  BY <1>2, <1>3, <2>2
<1> HIDE DEF u, v
<1>5. u = v
  BY <1>2, <1>3, <1>4
<1>6. a + y - 1 - (a + k - 1) = y - k
  BY <1>1
<1> QED  BY <1>3, <1>5, <1>6 DEF u, v, ByteString, SameToken

LEMMA AgreedIsJoined ==
    ASSUME NEW t \in ByteString, NEW a, NEW b, NEW p, IsPiece(t, a, b, p),
           \A k \in 1..Len(p) : QuotesBefore(t, a + k - 1) % 2 = 0 =>
               Agree(t, a, k, Len(p), TokenAt(t, a + k - 1), TokenAt(p, k))
    PROVE  QuotesBefore(t, a) % 2 = 0 => Joined(Scan(t)[a], Scan(p)[1], Scan(t)[b + 1])
<1> DEFINE n == Len(p)
           T == {k \in 1..n + 1 :
                    QuotesBefore(t, a + k - 1) % 2 = 0 =>
                        Joined(Scan(t)[a + k - 1], Scan(p)[k], Scan(t)[b + 1])}
<1>0. IsPiece(t, a, b, p)
  OBVIOUS
<1>1. /\ p \in ByteString /\ Len(t) \in Nat /\ n \in Nat /\ n = Len(p)
      /\ a \in 1..Len(t) /\ b \in a..Len(t) /\ n = b - a + 1
      /\ \A l \in 1..n : a + l - 1 \in a..b /\ p[l] = t[a + l - 1]
  BY <1>0 DEF IsPiece
<1>2. Scan(t)[b + 1] \in ScanResults
  <2>1. b + 1 \in 1..Len(t) + 1
    BY <1>1
  <2> QED  BY <2>1, ScanHasType
<1>3. n + 1 \in T
  <2>1. Scan(p)[n + 1] = [ok |-> TRUE, tokens |-> <<>>]
    BY <1>1, ScanAtEnd, Zenon
  <2>1a. n + 1 \in 1..n + 1
    BY <1>1
  <2>2. a + (n + 1) - 1 = b + 1
    BY <1>1
  <2>3. Joined(Scan(t)[b + 1], Scan(p)[n + 1], Scan(t)[b + 1])
    BY <1>2, <2>1, JoinedAtEnd, Zenon
  <2> HIDE DEF n
  <2> QED  BY <2>1a, <2>2, <2>3
<1>4. ASSUME NEW k \in 1..n, \A j \in (k + 1)..(n + 1) : j \in T PROVE k \in T
  <2> DEFINE i == a + k - 1
  <2> SUFFICES ASSUME QuotesBefore(t, i) % 2 = 0
               PROVE  Joined(Scan(t)[i], Scan(p)[k], Scan(t)[b + 1])
    BY <1>1
  <2>1. p[k] = t[i] /\ i \in 1..Len(t) /\ k \in 1..Len(p) /\ a + (k + 1) - 1 = i + 1
        /\ k + 1 \in (k + 1)..(n + 1)
    BY <1>1
  <2>2. CASE t[i] \in White
    <3>1. Scan(t)[i] = Scan(t)[i + 1]
      BY <1>1, <2>1, <2>2, ScanAtBlank
    <3>2. Scan(p)[k] = Scan(p)[k + 1]
      BY <1>1, <2>1, <2>2, ScanAtBlank
    <3>3. QuotesBefore(t, i + 1) % 2 = 0
      <4>1. t[i] # QUOTE
        BY <2>2 DEF White, QUOTE
      <4>2. QuotesBefore(t, i) \in Nat
            /\ QuotesBefore(t, i + 1) = QuotesBefore(t, i) + (IF t[i] = QUOTE THEN 1 ELSE 0)
        BY <2>1, QuotesNext
      <4>3. \A c \in Nat : c + 0 = c
        BY ONLY TRUE
      <4> QED  BY <4>1, <4>2, <4>3
    <3>4. k + 1 \in T
      BY <1>4, <2>1
    <3>5. Joined(Scan(t)[i + 1], Scan(p)[k + 1], Scan(t)[b + 1])
      <4> HIDE DEF i
      <4> QED  BY <2>1, <3>3, <3>4
    <3> QED  BY <3>1, <3>2, <3>5
  <2>3. CASE t[i] \notin White
    <3> DEFINE x == TokenAt(t, i)[2]
               y == TokenAt(p, k)[2]
    <3>1. Scan(t)[i] = IF x = 0 \/ x - i >= TOKEN_SIZE \/ ~Scan(t)[x].ok THEN Refused
                       ELSE [ok |-> TRUE, tokens |-> <<TokenFrom(t, i)>> \o Scan(t)[x].tokens]
      <4> HIDE DEF i
      <4> QED  BY <1>1, <2>1, <2>3, ScanAtToken
    <3>2. Scan(p)[k] = IF y = 0 \/ y - k >= TOKEN_SIZE \/ ~Scan(p)[y].ok THEN Refused
                       ELSE [ok |-> TRUE, tokens |-> <<TokenFrom(p, k)>> \o Scan(p)[y].tokens]
      <4>1. p[k] \notin White
        BY <2>1, <2>3, Zenon
      <4> QED  BY <1>1, <2>1, <4>1, ScanAtToken, Zenon
    <3>3. Agree(t, a, k, Len(p), TokenAt(t, i), TokenAt(p, k))
      BY <2>1
    <3>4. /\ TokenAt(t, i)[1] = TokenAt(p, k)[1] /\ TokenAt(p, k)[1] # ";"
          /\ \/ x = 0 /\ y = 0
             \/ /\ y \in (k + 1)..(n + 1) /\ x = a + y - 1
                /\ QuotesBefore(t, x) % 2 = 0
      BY <3>3 DEF Agree
    <3>5. CASE x = 0 /\ y = 0
      <4>1. Scan(t)[i] = Refused /\ Scan(p)[k] = Refused
        BY <3>1, <3>2, <3>5
      <4>2. Refused.ok = FALSE /\ Refused.tokens \in Seq(Plain)
        BY PlainSequences DEF Refused
      <4> QED  BY <4>1, <4>2 DEF Joined
    <3>6. CASE ~(x = 0 /\ y = 0)
      <4>1. y \in (k + 1)..(n + 1) /\ x = a + y - 1 /\ QuotesBefore(t, x) % 2 = 0
        BY <3>4, <3>6
      <4>2. TokenAt(p, k)[1] \in TokenTypes
        <5>1. y # 0
          BY <1>1, <4>1
        <5> QED  BY <1>1, <2>1, <5>1, TokenGoesOn
      <4>3. TokenFrom(t, i) = Token(TokenAt(p, k)[1], SubSeq(t, i, x - 1))
            /\ TokenFrom(p, k) = Token(TokenAt(p, k)[1], SubSeq(p, k, y - 1))
        BY <3>4 DEF TokenFrom
      <4> HIDE DEF x, y
      <4>4. /\ SubSeq(t, i, x - 1) = SubSeq(p, k, y - 1)
            /\ SubSeq(p, k, y - 1) \in ByteString
            /\ x - i = y - k
        <5>1. SameToken(t, a, k, p, y)
          BY <1>0, <2>1, <4>1, SameBytes
        <5>2. /\ SubSeq(t, i, a + y - 1 - 1) = SubSeq(p, k, y - 1)
              /\ SubSeq(p, k, y - 1) \in ByteString
              /\ a + y - 1 - i = y - k
          BY <5>1, Zenon DEF SameToken
        <5> HIDE DEF i
        <5>3. x = a + y - 1
          BY <4>1
        <5>4. x - 1 = a + y - 1 - 1 /\ x - i = a + y - 1 - i
          <6>1. a \in Int /\ y \in Int /\ x \in Int /\ i \in Int
            BY <1>1, <2>1, <4>1
          <6> QED  BY ONLY <5>3, <6>1
        <5>5. SubSeq(t, i, x - 1) = SubSeq(t, i, a + y - 1 - 1)
          BY ONLY <5>4, Zenon
        <5> QED  BY ONLY <5>2, <5>4, <5>5, Zenon
      <4>5. TokenFrom(t, i) = TokenFrom(p, k) /\ TokenFrom(p, k) \in Plain
        <5>1. TokenFrom(t, i) = TokenFrom(p, k)
          BY <4>3, <4>4, Zenon
        <5> DEFINE type == TokenAt(p, k)[1]
                   bytes == SubSeq(p, k, y - 1)
        <5>2. type \in TokenTypes /\ type # ";" /\ bytes \in ByteString
              /\ TokenFrom(p, k) = Token(type, bytes)
          BY <3>4, <4>2, <4>3, <4>4, Zenon
        <5> HIDE DEF type, bytes
        <5>3. Token(type, bytes) \in Plain
          BY <5>2 DEF Token, Plain, Tokens
        <5> QED  BY <5>1, <5>2, <5>3, Zenon
      <4>6. Joined(Scan(t)[x], Scan(p)[y], Scan(t)[b + 1])
        <5>1. y \in T
          BY <1>4, <4>1
        <5> QED  BY <4>1, <5>1, Zenon
      <4>7. x # 0 /\ y # 0
        BY <1>1, <4>1
      <4> DEFINE long == y - k >= TOKEN_SIZE
      <4>8. /\ Scan(t)[i] = IF long \/ ~Scan(t)[x].ok THEN Refused
                            ELSE [ok |-> TRUE,
                                  tokens |-> <<TokenFrom(p, k)>> \o Scan(t)[x].tokens]
            /\ Scan(p)[k] = IF long \/ ~Scan(p)[y].ok THEN Refused
                            ELSE [ok |-> TRUE,
                                  tokens |-> <<TokenFrom(p, k)>> \o Scan(p)[y].tokens]
        BY <3>1, <3>2, <4>4, <4>5, <4>7, Zenon
      <4> DEFINE whole == Scan(t)[x]
                 part == Scan(p)[y]
                 rest == Scan(t)[b + 1]
      <4>9. Joined(IF long \/ ~whole.ok THEN Refused
                   ELSE [ok |-> TRUE, tokens |-> <<TokenFrom(p, k)>> \o whole.tokens],
                   IF long \/ ~part.ok THEN Refused
                   ELSE [ok |-> TRUE, tokens |-> <<TokenFrom(p, k)>> \o part.tokens],
                   rest)
        <5> HIDE DEF long, whole, part, rest
        <5>1. TokenFrom(p, k) \in Plain /\ rest \in ScanResults /\ Joined(whole, part, rest)
          BY <1>2, <4>5, <4>6 DEF whole, part, rest
        <5> QED  BY <5>1, JoinedAtToken
      <4> HIDE DEF long, i
      <4> QED  BY <4>8, <4>9, Zenon
    <3> QED  BY <3>5, <3>6
  <2> QED  BY <2>2, <2>3
<1> HIDE DEF T
<1>5. \A k \in 1..n + 1 : k \in T
  BY <1>1, <1>3, <1>4, Backwards
<1>6. 1 \in T /\ a + 1 - 1 = a
  BY <1>1, <1>5
<1> QED  BY <1>6 DEF T

LEMMA PieceIsScannedAlone ==
    ASSUME NEW t \in ByteString, NEW a, NEW b, NEW e, Separated(t, a, b, e),
           QuotesBefore(t, a) % 2 = 0
    PROVE  Joined(Scan(t)[a], Tokenize(SubSeq(t, a, b)), Scan(t)[b + 1])
<1> DEFINE p == SubSeq(t, a, b)
<1>1. IsPiece(t, a, b, p)
  BY PieceFacts
<1>2. ASSUME NEW k \in 1..Len(p), QuotesBefore(t, a + k - 1) % 2 = 0
      PROVE  Agree(t, a, k, Len(p), TokenAt(t, a + k - 1), TokenAt(p, k))
  BY <1>2, TokensAgree
<1> HIDE DEF p
<1>3. Joined(Scan(t)[a], Scan(p)[1], Scan(t)[b + 1])
  BY <1>1, <1>2, AgreedIsJoined
<1> QED  BY <1>3, TokenizeIsScan DEF p

-----------------------------------------------------------------------------
(* The text between two ends *)

LEMMA BlanksAreSkipped ==
    ASSUME NEW t \in ByteString, NEW i \in 1..Len(t) + 1, NEW j \in i..Len(t) + 1,
           \A l \in i..(j - 1) : t[l] \in White
    PROVE  Scan(t)[i] = Scan(t)[j]
<1> DEFINE T == {d \in Nat : i + d <= j => Scan(t)[i] = Scan(t)[i + d]}
<1>0. Len(t) \in Nat
  BY TextFacts
<1>1. 0 \in T
  <2>1. i + 0 = i
    OBVIOUS
  <2> QED  BY <2>1
<1>2. ASSUME NEW d \in Nat, d \in T PROVE d + 1 \in T
  <2> SUFFICES ASSUME i + (d + 1) <= j PROVE Scan(t)[i] = Scan(t)[i + (d + 1)]
    OBVIOUS
  <2> DEFINE l == i + d
  <2>1. l \in 1..Len(t) /\ l \in i..(j - 1) /\ i + d <= j /\ i + (d + 1) = l + 1
    BY <1>0
  <2>2. Scan(t)[i] = Scan(t)[i + d]
    BY <1>2, <2>1
  <2> HIDE DEF l
  <2>3. t[l] \in White
    BY <2>1
  <2>4. Scan(t)[l] = Scan(t)[l + 1]
    BY <1>0, <2>1, <2>3, ScanAtBlank
  <2> QED  BY <2>1, <2>2, <2>4 DEF l
<1> HIDE DEF T
<1>3. j - i \in T
  <2>1. j - i \in Nat /\ \A d \in Nat : d \in T
    BY <1>0, <1>1, <1>2, Collecting!SetInduction
  <2> QED  BY <2>1
<1>4. i + (j - i) = j /\ i + (j - i) <= j
  BY <1>0
<1> QED  BY <1>3, <1>4 DEF T

\* The last end before a place is an end, and none comes after it.
IsLastEnd(t, last, n) ==
    /\ last \in 0..n /\ (last = 0 \/ last \in Ends(t))
    /\ \A l \in (last + 1)..n : l \notin Ends(t)

LEMMA LastEndFacts ==
    ASSUME NEW t \in ByteString
    PROVE  \A n \in 0..Len(t) : IsLastEnd(t, LastEnd(t, n + 1), n)
<1> DEFINE T == {n \in Nat : n <= Len(t) => IsLastEnd(t, LastEnd(t, n + 1), n)}
<1>0. Len(t) \in Nat
  BY TextFacts
<1>1. 0 \in T
  <2>1. LastEnd(t, 0 + 1) = 0
    BY NoEndAtFirst
  <2> QED  BY <2>1 DEF IsLastEnd
<1>2. ASSUME NEW n \in Nat, n \in T PROVE n + 1 \in T
  <2> SUFFICES ASSUME n + 1 <= Len(t) PROVE IsLastEnd(t, LastEnd(t, (n + 1) + 1), n + 1)
    OBVIOUS
  <2> DEFINE last == LastEnd(t, n + 1)
             i == n + 1
  <2>1. i \in 1..Len(t) /\ n <= Len(t) /\ i \in 0..i
    BY <1>0
  <2>2. LastEnd(t, i + 1) = IF i \in Ends(t) THEN i ELSE last
    BY <2>1, LastEndNext
  <2>3. IsLastEnd(t, last, n)
    BY <1>2, <2>1
  <2> HIDE DEF last
  <2>4. CASE i \in Ends(t)
    <3>1. IsLastEnd(t, i, i)
      BY <2>1, <2>4 DEF IsLastEnd
    <3> QED  BY <2>2, <2>4, <3>1
  <2>5. CASE i \notin Ends(t)
    <3>1. last \in 0..n /\ (last = 0 \/ last \in Ends(t))
          /\ \A l \in (last + 1)..n : l \notin Ends(t)
      BY <2>3 DEF IsLastEnd
    <3>2. last \in 0..(n + 1)
      BY <3>1
    <3>3. ASSUME NEW l \in (last + 1)..(n + 1) PROVE l \notin Ends(t)
      <4>1. CASE l = n + 1
        BY <2>5, <4>1
      <4>2. CASE l # n + 1
        <5>1. l \in (last + 1)..n
          BY <3>1, <4>2
        <5> QED  BY <3>1, <5>1
      <4> QED  BY <4>1, <4>2
    <3>4. IsLastEnd(t, last, n + 1)
      BY <3>1, <3>2, <3>3 DEF IsLastEnd
    <3> QED  BY <2>2, <2>5, <3>4
  <2> QED  BY <2>4, <2>5
<1> HIDE DEF T
<1>3. \A n \in Nat : n \in T
  BY <1>1, <1>2, Collecting!SetInduction
<1> QED  BY <1>0, <1>3 DEF T

\* At an end of a balanced text no string is open, and none is after the end before it;
\* a semicolon between the two is in a string.
BetweenEnds(t, s, e) ==
    /\ Len(t) \in Nat /\ s \in 1..e /\ e \in 1..(Len(t) + 1)
    /\ e = Len(t) + 1 \/ t[e] = ";"
    /\ QuotesBefore(t, e) % 2 = 0 /\ QuotesBefore(t, s) % 2 = 0
    /\ \A l \in s..(e - 1) : t[l] = ";" => QuotesBefore(t, l) % 2 # 0

LEMMA EndFacts ==
    ASSUME NEW t \in ByteString, Balanced(t), NEW e \in Ends(t)
    PROVE  /\ Len(t) \in Nat /\ DOMAIN t = 1..Len(t) /\ e \in 1..(Len(t) + 1)
           /\ QuotesBefore(t, e) % 2 = 0
           /\ e # Len(t) + 1 => t[e] = ";" /\ e \in 1..Len(t)
<1>1. Len(t) \in Nat /\ DOMAIN t = 1..Len(t) /\ e \in 1..(Len(t) + 1)
  BY TextFacts, EndsAreInText
<1>2. e = Len(t) + 1 \/ (t[e] = ";" /\ QuotesBefore(t, e) % 2 = 0 /\ e \in DOMAIN t)
  BY DEF Ends
<1>3. QuotesBefore(t, Len(t) + 1) % 2 = 0
  BY DEF Balanced
<1> QED  BY <1>1, <1>2, <1>3

LEMMA EndsAreOutsideStrings ==
    ASSUME NEW t \in ByteString, Balanced(t), NEW e \in Ends(t)
    PROVE  BetweenEnds(t, LastEnd(t, e) + 1, e)
<1> DEFINE last == LastEnd(t, e)
<1>0. Len(t) \in Nat /\ e \in 1..(Len(t) + 1)
  BY EndFacts
<1>1. DOMAIN t = 1..Len(t) /\ QuotesBefore(t, e) % 2 = 0
      /\ (e # Len(t) + 1 => t[e] = ";")
  BY EndFacts
<1>2. IsLastEnd(t, last, e - 1)
  <2>1. e - 1 \in 0..Len(t) /\ (e - 1) + 1 = e
    BY <1>0
  <2>2. IsLastEnd(t, LastEnd(t, (e - 1) + 1), e - 1)
    BY <2>1, LastEndFacts
  <2> QED  BY <2>1, <2>2
<1> HIDE DEF last
<1>3. last \in 0..(e - 1) /\ (last = 0 \/ last \in Ends(t))
      /\ \A l \in (last + 1)..(e - 1) : l \notin Ends(t)
  BY <1>2 DEF IsLastEnd
<1>4. last + 1 \in 1..e /\ last # Len(t) + 1 /\ last \in Nat
  BY <1>0, <1>3
<1>5. QuotesBefore(t, last + 1) % 2 = 0
  <2>1. CASE last = 0
    <3>1. last + 1 = 1 /\ 0 % 2 = 0
      BY <2>1
    <3> QED  BY <3>1, NoQuotesAtFirst
  <2>2. CASE last # 0
    <3>1. last \in Ends(t) /\ last # Len(t) + 1
      BY <1>3, <1>4, <2>2
    <3>2. t[last] = ";" /\ last \in 1..Len(t) /\ QuotesBefore(t, last) % 2 = 0
      BY <3>1, EndFacts
    <3>3. QuotesBefore(t, last) \in Nat
          /\ QuotesBefore(t, last + 1)
                = QuotesBefore(t, last) + (IF t[last] = QUOTE THEN 1 ELSE 0)
      BY <3>2, QuotesNext
    <3>4. t[last] # QUOTE
      BY <3>2 DEF QUOTE
    <3>5. \A c \in Nat : c + 0 = c
      BY ONLY TRUE
    <3> QED  BY <3>2, <3>3, <3>4, <3>5
  <2> QED  BY <2>1, <2>2
<1>6. ASSUME NEW l \in (last + 1)..(e - 1), t[l] = ";"
      PROVE  QuotesBefore(t, l) % 2 # 0
  <2>1. l \notin Ends(t)
    BY <1>3
  <2>2. l \in DOMAIN t
    <3>1. l \in 1..Len(t)
      BY <1>0, <1>3
    <3> QED  BY <1>1, <3>1
  <2> QED  BY <1>6, <2>1, <2>2 DEF Ends
<1> QED  BY <1>0, <1>1, <1>4, <1>5, <1>6 DEF BetweenEnds, last

LEMMA EmptyIsScanned ==
    /\ Tokenize(<<>>) = [ok |-> TRUE, tokens |-> <<>>]
    /\ Tokenize(<<>>).ok /\ Tokenize(<<>>).tokens = <<>>
<1>1. Len(<<>>) = 0 /\ 0 \in Nat /\ 0 + 1 = 1
  OBVIOUS
<1>2. Scan(<<>>)[1] = [ok |-> TRUE, tokens |-> <<>>]
  BY <1>1, ScanAtEnd
<1> QED  BY <1>2, TokenizeIsScan

\* What is between two ends is scanned like the statement trimmed from it.
LEMMA StatementIsScannedAlone ==
    ASSUME NEW t \in ByteString, NEW s, NEW e, BetweenEnds(t, s, e)
    PROVE  Joined(Scan(t)[s], Tokenize(TrimRange(t, s, e)), Scan(t)[e])
<1> DEFINE kept == {i \in s..(e - 1) : t[i] \notin Blanks}
<1>1. Len(t) \in Nat /\ e \in 1..(Len(t) + 1) /\ s \in 1..e /\ s \in 1..(Len(t) + 1)
  <2>1. Len(t) \in Nat /\ s \in 1..e /\ e \in 1..(Len(t) + 1)
    BY Zenon DEF BetweenEnds
  <2> QED  BY <2>1
<1>2. \A c \in Blanks : c \in White /\ c # QUOTE
  BY DEF Blanks, White, QUOTE
<1>3. CASE kept = {}
  <2>1. e \in s..(Len(t) + 1) /\ \A l \in s..(e - 1) : t[l] \in White
    BY <1>1, <1>2, <1>3
  <2>2. Scan(t)[s] = Scan(t)[e]
    BY <1>1, <2>1, BlanksAreSkipped
  <2>3. Scan(t)[e] \in ScanResults
    BY <1>1, ScanHasType
  <2>4. TrimRange(t, s, e) = <<>>
    BY <1>3 DEF TrimRange
  <2> QED  BY <2>2, <2>3, <2>4, EmptyIsScanned, JoinedAtEnd
<1>4. CASE kept # {}
  <2> DEFINE a == Min(kept)
             b == Max(kept)
  <2>1. kept \in SUBSET Nat /\ kept \in SUBSET (1..Len(t))
    BY <1>1
  <2>2. /\ a \in kept /\ \A y \in kept : a <= y
        /\ b \in kept /\ \A y \in kept : y <= b
    <3> HIDE DEF kept
    <3> QED  BY <1>1, <1>4, <2>1, Collecting!FirstOf, Collecting!LastOf
             DEF Min, Max, Collecting!Min, Collecting!Max
  <2>3. TrimRange(t, s, e) = SubSeq(t, a, b)
    BY <1>4 DEF TrimRange
  <2> HIDE DEF a, b
  <2>4. /\ a \in 1..Len(t) /\ b \in a..Len(t) /\ e \in (b + 1)..(Len(t) + 1)
        /\ a \in s..(e - 1) /\ b \in s..(e - 1)
    BY <1>1, <2>2
  <2>5. ASSUME NEW l \in s..(a - 1) PROVE t[l] \in Blanks
    <3>1. l \notin kept /\ l \in s..(e - 1)
      BY <1>1, <2>2, <2>4
    <3> QED  BY <3>1
  <2>6. ASSUME NEW l \in (b + 1)..(e - 1) PROVE t[l] \in Blanks
    <3>1. l \notin kept /\ l \in s..(e - 1)
      BY <1>1, <2>2, <2>4
    <3> QED  BY <3>1
  <2>7. Separated(t, a, b, e)
    <3>1. /\ e = Len(t) + 1 \/ t[e] = ";"
          /\ QuotesBefore(t, e) % 2 = 0
          /\ \A l \in s..(e - 1) : t[l] = ";" => QuotesBefore(t, l) % 2 # 0
      BY Zenon DEF BetweenEnds
    <3>2. \A l \in a..b : l \in s..(e - 1)
      BY <1>1, <2>4
    <3>3. \A l \in a..b : t[l] = ";" => QuotesBefore(t, l) % 2 # 0
      BY <3>1, <3>2, Zenon
    <3> QED  BY <2>4, <2>6, <3>1, <3>3, Zenon DEF Separated
  <2>8. QuotesBefore(t, a) % 2 = 0
    <3>1. a \in s..Len(t) + 1 /\ \A l \in s..(a - 1) : t[l] # QUOTE
      BY <1>1, <1>2, <2>4, <2>5
    <3>2. QuotesBefore(t, a) = QuotesBefore(t, s)
      BY <1>1, <3>1, NoQuotesBetween
    <3>3. QuotesBefore(t, s) % 2 = 0
      BY Zenon DEF BetweenEnds
    <3> QED  BY <3>2, <3>3
  <2>9. Scan(t)[s] = Scan(t)[a]
    <3>1. a \in s..Len(t) + 1 /\ \A l \in s..(a - 1) : t[l] \in White
      BY <1>1, <1>2, <2>4, <2>5
    <3> QED  BY <1>1, <3>1, BlanksAreSkipped
  <2>10. Scan(t)[b + 1] = Scan(t)[e]
    <3>1. b + 1 \in 1..Len(t) + 1 /\ e \in (b + 1)..Len(t) + 1
          /\ \A l \in (b + 1)..(e - 1) : t[l] \in White
      BY <1>1, <1>2, <2>4, <2>6
    <3> QED  BY <3>1, BlanksAreSkipped
  <2>11. Joined(Scan(t)[a], Tokenize(SubSeq(t, a, b)), Scan(t)[b + 1])
    BY <2>7, <2>8, PieceIsScannedAlone
  <2> QED  BY <2>3, <2>9, <2>10, <2>11
<1> QED  BY <1>3, <1>4

-----------------------------------------------------------------------------
(* The statements found so far, and the text after them *)

AllScan(list) == \A i \in DOMAIN list : Tokenize(list[i]).ok

LEMMA AppendedText ==
    ASSUME NEW list \in Seq(ByteString), NEW s \in ByteString
    PROVE  /\ Append(list, s) \in Seq(ByteString)
           /\ AllScan(Append(list, s)) <=> AllScan(list) /\ Tokenize(s).ok
<1> DEFINE r == Append(list, s)
           n == Len(list)
<1>1. n \in Nat /\ DOMAIN list = 1..n /\ DOMAIN r = 1..(n + 1) /\ r \in Seq(ByteString)
      /\ (\A i \in 1..n : r[i] = list[i]) /\ r[n + 1] = s
  OBVIOUS
<1> HIDE DEF r, n
<1>2. \A i \in 1..(n + 1) : i \in 1..n \/ i = n + 1
  BY <1>1
<1>3. n + 1 \in 1..(n + 1) /\ \A i \in 1..n : i \in 1..(n + 1)
  BY <1>1
<1>4. AllScan(r) <=> AllScan(list) /\ Tokenize(s).ok
  BY <1>1, <1>2, <1>3, Zenon DEF AllScan
<1> QED  BY <1>1, <1>4 DEF r

\* A piece more.
LEMMA PieceAdded ==
    ASSUME NEW t, NEW found \in Seq(ByteString), NEW e \in Ends(t), Piece(t, e) \in ByteString,
           NEW list, list = WithPiece(t, found, e)
    PROVE  /\ list \in Seq(ByteString)
           /\ AllScan(list) <=> AllScan(found) /\ Tokenize(Piece(t, e)).ok
           /\ TokensOf(list) = WithGroup(TokensOf(found), Tokenize(Piece(t, e)).tokens)
<1>1. CASE Piece(t, e) = <<>>
  <2>1. list = found
    BY <1>1 DEF WithPiece
  <2>2. Tokenize(Piece(t, e)).ok /\ Tokenize(Piece(t, e)).tokens = <<>>
    BY <1>1, EmptyIsScanned
  <2> QED  BY <2>1, <2>2 DEF WithGroup
<1>2. CASE Piece(t, e) # <<>>
  <2>1. list = Append(found, Piece(t, e))
    BY <1>2 DEF WithPiece
  <2>2. Append(found, Piece(t, e)) \in Seq(ByteString)
        /\ (AllScan(Append(found, Piece(t, e))) <=> AllScan(found) /\ Tokenize(Piece(t, e)).ok)
    BY AppendedText
  <2>3. TokensOf(Append(found, Piece(t, e)))
            = WithGroup(TokensOf(found), Tokenize(Piece(t, e)).tokens)
    BY TokensOfNext
  <2> QED  BY <2>1, <2>2, <2>3
<1> QED  BY <1>1, <1>2

\* The text is refused if a statement found or the rest is; otherwise its tokens go on
\* from those of the statements.
SoFar(t, found, rest) ==
    /\ found \in Seq(ByteString)
    /\ Tokenize(t).ok <=> AllScan(found) /\ rest.ok
    /\ Tokenize(t).ok =>
          Grouped(Tokenize(t).tokens) = GroupedFrom(Opened(TokensOf(found), <<>>), rest.tokens)

LEMMA PieceIsJoined ==
    ASSUME NEW t \in ByteString, Balanced(t), NEW e \in Ends(t)
    PROVE  /\ Piece(t, e) \in ByteString
           /\ Joined(Scan(t)[LastEnd(t, e) + 1], Tokenize(Piece(t, e)), Scan(t)[e])
<1> DEFINE s == LastEnd(t, e) + 1
<1>1. BetweenEnds(t, s, e)
  BY EndsAreOutsideStrings
<1>2. Piece(t, e) = TrimRange(t, s, e)
  BY DEF Piece, LastEnd
<1> HIDE DEF s
<1>3. Len(t) \in Nat /\ s \in 1..e /\ e \in 1..(Len(t) + 1)
  BY <1>1, Zenon DEF BetweenEnds
<1>4. TrimRange(t, s, e) \in ByteString
  BY <1>3, TrimRangeIsText
<1>5. Joined(Scan(t)[s], Tokenize(TrimRange(t, s, e)), Scan(t)[e])
  BY <1>1, StatementIsScannedAlone
<1> QED  BY <1>2, <1>4, <1>5 DEF s

\* A semicolon outside of strings is a token.
LEMMA SemicolonIsScanned ==
    ASSUME NEW t \in ByteString, NEW e \in 1..Len(t), t[e] = ";"
    PROVE  \E semi \in Tokens :
              /\ semi.type = ";"
              /\ Scan(t)[e] = IF ~Scan(t)[e + 1].ok THEN Refused
                              ELSE [ok |-> TRUE, tokens |-> <<semi>> \o Scan(t)[e + 1].tokens]
<1>0. Len(t) \in Nat /\ t \in Seq(STRING)
  BY TextFacts DEF ByteString
<1>1. e + 1 # 0 /\ (e + 1) - e = 1 /\ (e + 1) - 1 = e /\ e \in Nat
      /\ e \in e..Len(t)
  <2>1. \A n \in Nat : \A x \in 1..n :
            x + 1 # 0 /\ (x + 1) - x = 1 /\ (x + 1) - 1 = x /\ x \in Nat /\ x \in x..n
    BY ONLY TRUE
  <2> QED  BY <1>0, <2>1, Zenon
<1>2. t[e] \notin Letters \cup {"_", QUOTE} /\ ~NumberStart(t, e) /\ t[e] \in Symbols
      /\ t[e] \notin White
  BY TokenizerConstants DEF NumberStart, Signs, Symbols, QUOTE, White
<1>3. TokenAt(t, e) = <<t[e], e + 1>>
  BY <1>2, TokenCases
<1>4. TokenAt(t, e)[1] = ";" /\ TokenAt(t, e)[2] = e + 1
  <2>1. \A x, y : <<x, y>>[1] = x /\ <<x, y>>[2] = y
    OBVIOUS
  <2>2. TokenAt(t, e)[1] = t[e] /\ TokenAt(t, e)[2] = e + 1
    BY ONLY <1>3, <2>1
  <2> QED  BY <2>2, Zenon
<1> DEFINE semi == TokenFrom(t, e)
<1>5. semi = Token(";", SubSeq(t, e, e))
  BY <1>1, <1>4 DEF TokenFrom
<1>6. semi \in Tokens /\ semi.type = ";"
  <2>1. SubSeq(t, e, e) \in ByteString
    BY <1>0, <1>1, SubSeqFacts DEF ByteString
  <2>2. ";" \in TokenTypes
    BY DEF TokenTypes, Symbols
  <2> HIDE DEF semi
  <2> QED  BY <1>5, <2>1, <2>2 DEF Tokens, Token
<1> HIDE DEF semi
<1>7. Scan(t)[e] = IF e + 1 = 0 \/ (e + 1) - e >= TOKEN_SIZE \/ ~Scan(t)[e + 1].ok THEN Refused
                   ELSE [ok |-> TRUE, tokens |-> <<semi>> \o Scan(t)[e + 1].tokens]
  <2>1. e + 1 = TokenAt(t, e)[2] /\ t[e] \notin White /\ Len(t) \in Nat
    BY <1>0, <1>2, <1>4, Zenon
  <2> QED  BY <2>1, ScanAtToken, Zenon DEF semi
<1>8. ~((e + 1) - e >= TOKEN_SIZE)
  <2>1. TOKEN_SIZE \in Nat \ {0, 1}
    BY TokenizerConstants
  <2>2. ~(1 >= TOKEN_SIZE)
    BY ONLY <2>1
  <2> QED  BY <1>1, <2>2
<1>9. Scan(t)[e] = IF ~Scan(t)[e + 1].ok THEN Refused
                   ELSE [ok |-> TRUE, tokens |-> <<semi>> \o Scan(t)[e + 1].tokens]
  BY <1>1, <1>7, <1>8, Zenon
<1> QED  BY <1>6, <1>9

LEMMA SoFarAtSemicolon ==
    ASSUME NEW t \in ByteString, NEW found, NEW whole, SoFar(t, found, whole),
           NEW piece, NEW part, Joined(whole, part, piece),
           NEW rest \in ScanResults, NEW semi \in Tokens, semi.type = ";",
           piece = IF ~rest.ok THEN Refused
                   ELSE [ok |-> TRUE, tokens |-> <<semi>> \o rest.tokens],
           NEW list \in Seq(ByteString), AllScan(list) <=> AllScan(found) /\ part.ok,
           TokensOf(list) = WithGroup(TokensOf(found), part.tokens)
    PROVE  SoFar(t, list, rest)
<1>1. rest.ok \in BOOLEAN /\ rest.tokens \in Seq(Tokens) /\ part.tokens \in Seq(Plain)
  BY DEF ScanResults, Joined
<1>2. piece.ok <=> rest.ok
  BY <1>1 DEF Refused
<1>3. Tokenize(t).ok <=> AllScan(list) /\ rest.ok
  BY <1>2 DEF SoFar, Joined
<1>4. ASSUME Tokenize(t).ok
      PROVE  Grouped(Tokenize(t).tokens) = GroupedFrom(Opened(TokensOf(list), <<>>), rest.tokens)
  <2>1. rest.ok /\ whole.ok
    BY <1>3, <1>4 DEF SoFar
  <2>2. piece.tokens = <<semi>> \o rest.tokens
    BY <2>1
  <2>3. whole.tokens = part.tokens \o (<<semi>> \o rest.tokens)
    BY <2>1, <2>2 DEF Joined
  <2>4. Grouped(Tokenize(t).tokens) = GroupedFrom(Opened(TokensOf(found), <<>>), whole.tokens)
    BY <1>4 DEF SoFar
  <2>5. GroupedFrom(Opened(TokensOf(found), <<>>), part.tokens \o (<<semi>> \o rest.tokens))
            = GroupedFrom(Opened(WithGroup(TokensOf(found), part.tokens), <<>>), rest.tokens)
    BY <1>1, GroupedSemicolon
  <2> QED  BY <2>3, <2>4, <2>5
<1> QED  BY <1>3, <1>4 DEF SoFar

LEMMA SplitSoFar ==
    ASSUME NEW t \in ByteString, Balanced(t)
    PROVE  \A n \in 0..Len(t) : SoFar(t, PiecesUpTo(t, n), Scan(t)[LastEnd(t, n + 1) + 1])
<1> DEFINE Holds(n) == SoFar(t, PiecesUpTo(t, n), Scan(t)[LastEnd(t, n + 1) + 1])
           T == {n \in Nat : n <= Len(t) => Holds(n)}
<1>0. Len(t) \in Nat
  BY TextFacts
<1>1. 0 \in T
  <2>1. PiecesUpTo(t, 0) = <<>> /\ LastEnd(t, 0 + 1) + 1 = 1
    <3>1. LastEnd(t, 0 + 1) = 0
      BY NoEndAtFirst
    <3> QED  BY <3>1, NoPiecesAtFirst
  <2>2. Tokenize(t) = Scan(t)[1] /\ AllScan(<<>>) /\ TokensOf(<<>>) = <<>>
        /\ <<>> \in Seq(ByteString)
    BY TokenizeIsScan, TokensOfNext DEF AllScan
  <2>3. SoFar(t, <<>>, Scan(t)[1])
    BY <2>2, GroupedIsFolded DEF SoFar
  <2> QED  BY <2>1, <2>3
<1>2. ASSUME NEW n \in Nat, n \in T PROVE n + 1 \in T
  <2> DEFINE e == n + 1
  <2> SUFFICES ASSUME e <= Len(t) PROVE Holds(e)
    OBVIOUS
  <2>1. e \in 1..Len(t) /\ n <= Len(t) /\ e + 1 \in 1..Len(t) + 1
    BY <1>0
  <2>2. Holds(n)
    BY <1>2, <2>1
  <2>3. PiecesUpTo(t, e) = WithPiece(t, PiecesUpTo(t, n), e)
    BY PiecesNext
  <2>4. LastEnd(t, e + 1) = IF e \in Ends(t) THEN e ELSE LastEnd(t, e)
    BY <2>1, LastEndNext
  <2>5. SoFar(t, PiecesUpTo(t, n), Scan(t)[LastEnd(t, e) + 1])
    BY <2>2
  <2> HIDE DEF e
  <2>6. CASE e \notin Ends(t)
    <3>1. PiecesUpTo(t, e) = PiecesUpTo(t, n) /\ LastEnd(t, e + 1) = LastEnd(t, e)
      BY <2>3, <2>4, <2>6 DEF WithPiece
    <3> QED  BY <2>5, <3>1
  <2>7. CASE e \in Ends(t)
    <3> DEFINE whole == Scan(t)[LastEnd(t, e) + 1]
               part == Tokenize(Piece(t, e))
               list == PiecesUpTo(t, e)
               found == PiecesUpTo(t, n)
    <3>1. t[e] = ";"
      <4>1. e # Len(t) + 1
        BY <1>0, <2>1
      <4> QED  BY <2>7, <4>1, EndFacts
    <3>2. Piece(t, e) \in ByteString /\ Joined(whole, part, Scan(t)[e])
      BY <2>7, PieceIsJoined
    <3>3. PICK semi \in Tokens :
              /\ semi.type = ";"
              /\ Scan(t)[e] = IF ~Scan(t)[e + 1].ok THEN Refused
                              ELSE [ok |-> TRUE, tokens |-> <<semi>> \o Scan(t)[e + 1].tokens]
      BY <2>1, <3>1, SemicolonIsScanned
    <3>4. found \in Seq(ByteString)
      BY <2>5 DEF SoFar
    <3> HIDE DEF whole, list, found
    <3>5. /\ list \in Seq(ByteString)
          /\ AllScan(list) <=> AllScan(found) /\ part.ok
          /\ TokensOf(list) = WithGroup(TokensOf(found), part.tokens)
      BY <2>3, <2>7, <3>2, <3>4, PieceAdded DEF list, found
    <3>6. Scan(t)[e + 1] \in ScanResults
      BY <2>1, ScanHasType
    <3>7. SoFar(t, found, whole)
      BY <2>5 DEF found, whole
    <3> HIDE DEF part
    <3>8. SoFar(t, list, Scan(t)[e + 1])
      BY <3>2, <3>3, <3>5, <3>6, <3>7, SoFarAtSemicolon
    <3>9. LastEnd(t, e + 1) = e
      BY <2>4, <2>7
    <3> QED  BY <3>8, <3>9 DEF list
  <2> QED  BY <2>6, <2>7
<1> HIDE DEF T
<1>3. \A n \in Nat : n \in T
  BY <1>1, <1>2, Collecting!SetInduction
<1> QED  BY <1>0, <1>3 DEF T

\* The statements of a balanced text have its tokens.
LEMMA StatementsHaveTheTokens ==
    ASSUME NEW t \in ByteString, Balanced(t)
    PROVE  /\ Tokenize(t).ok <=> AllScan(StatementsOf(t))
           /\ Tokenize(t).ok => TokensOf(StatementsOf(t)) = Groups(Tokenize(t).tokens)
<1> DEFINE e == Len(t) + 1
           whole == Scan(t)[LastEnd(t, e) + 1]
           part == Tokenize(Piece(t, e))
           found == PiecesUpTo(t, Len(t))
           list == StatementsOf(t)
<1>1. Len(t) \in Nat /\ Len(t) \in 0..Len(t) /\ e \in Ends(t)
  BY TextFacts DEF Ends
<1>2. SoFar(t, found, whole)
  BY <1>1, SplitSoFar
<1>3. Piece(t, e) \in ByteString /\ Joined(whole, part, Scan(t)[e])
  BY <1>1, PieceIsJoined
<1>4. Scan(t)[e] = [ok |-> TRUE, tokens |-> <<>>]
  BY <1>1, ScanAtEnd
<1>5. list = WithPiece(t, found, e)
  BY <1>1, PiecesNext DEF StatementsOf
<1>6. found \in Seq(ByteString)
  BY <1>2 DEF SoFar
<1> HIDE DEF e, whole, found, list
<1>7. /\ list \in Seq(ByteString)
      /\ AllScan(list) <=> AllScan(found) /\ part.ok
      /\ TokensOf(list) = WithGroup(TokensOf(found), part.tokens)
  BY <1>1, <1>3, <1>5, <1>6, PieceAdded
<1> HIDE DEF part
<1>8. part.tokens \in Seq(Plain) /\ (whole.ok <=> part.ok)
      /\ (whole.ok => whole.tokens = part.tokens \o <<>>)
  BY <1>3, <1>4 DEF Joined
<1>9. Tokenize(t).ok <=> AllScan(list)
  BY <1>2, <1>7, <1>8 DEF SoFar
<1>10. ASSUME Tokenize(t).ok PROVE TokensOf(list) = Groups(Tokenize(t).tokens)
  <2>1. whole.ok /\ Grouped(Tokenize(t).tokens)
                        = GroupedFrom(Opened(TokensOf(found), <<>>), whole.tokens)
    BY <1>2, <1>10 DEF SoFar
  <2>2. whole.tokens = part.tokens
    <3>1. part.tokens \in Seq(Tokens) /\ \A s \in Seq(Tokens) : s \o <<>> = s
      BY <1>8, PlainSequences
    <3> QED  BY <1>8, <2>1, <3>1
  <2>3. Grouped(Tokenize(t).tokens) = Opened(TokensOf(found), part.tokens)
    BY <1>8, <2>1, <2>2, GroupedPlain
  <2> QED  BY <1>7, <2>3 DEF Groups, Opened
<1> QED  BY <1>9, <1>10 DEF list

-----------------------------------------------------------------------------
(* What follows *)

\* Every variable of the program keeps its type: cursor and start of the statement
\* stay inside the text, and no more statements run than there are.
THEOREM SqlFileTypes == Spec => []TypeOK
<1>1. IInv => TypeOK
  <2> SUFFICES ASSUME IInv PROVE TypeOK
    OBVIOUS
  <2>1. Len(statements) \in Nat
    BY DEF IInv, Typed
  <2>2. live \in Nat
    BY <2>1 DEF IInv, Blocks, Held
  <2> QED  BY <2>2 DEF IInv, Typed, TypeOK
<1> QED  BY <1>1, IInvHolds, PTL

\* For every text, the byte by byte scan of split_sql_statements finds exactly the
\* pieces between the semicolons outside of strings, and runs none before.
THEOREM SplitterFindsThePieces == Spec => []StatementsAreThePieces
<1>1. IInv => StatementsAreThePieces
  BY DEF IInv, Split, Complete, StatementsAreThePieces
<1> QED  BY <1>1, IInvHolds, PTL

\* A text that ends inside a string runs none of its statements.
THEOREM NothingOfAnOpenStringRuns == Spec => []OpenStringRunsNothing
<1>1. IInv => OpenStringRunsNothing
  BY DEF IInv, Split, OpenStringRunsNothing
<1> QED  BY <1>1, IInvHolds, PTL

\* main returns 0 only if the whole file was split and every statement of it ran.
THEOREM ZeroMeansAllHasRun == Spec => []StatusTellsTheTruth
<1>1. IInv => StatusTellsTheTruth
  BY DEF IInv, Split, Complete, StatusTellsTheTruth
<1> QED  BY <1>1, IInvHolds, PTL

\* Whatever fails, main frees the text, the list and each of its statements once.
THEOREM EverythingIsFreed == Spec => []NothingLeaks
<1>1. IInv => NothingLeaks
  BY DEF IInv, Blocks, NothingLeaks
<1> QED  BY <1>1, IInvHolds, PTL

\* Splitter and tokenizer agree on every text: what is split off and tokenized, statement
\* by statement, is the text tokenized as a whole.
THEOREM SplitterAgreesWithTokenizer == Spec => []SplitAgreesWithTokens
<1>1. IInv => SplitAgreesWithTokens
  <2> SUFFICES ASSUME IInv, pc = "run" PROVE SplitAgreesWithTokens
    BY DEF SplitAgreesWithTokens
  <2>1. text \in ByteString /\ Balanced(text) /\ statements = StatementsOf(text)
    BY DEF IInv, Typed, Split, Complete
  <2> QED  BY <2>1, StatementsHaveTheTokens DEF SplitAgreesWithTokens, AllScan
<1> QED  BY <1>1, IInvHolds, PTL

=============================================================================
