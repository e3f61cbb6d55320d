--------------------------- MODULE StatementProofs ---------------------------
(***************************************************************************)
(* No array of the tokenizer, the parser, load_schema or the executor is   *)
(* overrun, the parser accepts exactly the sentences of the grammar,       *)
(* load_schema sees the columns of the whole file, and what is asked of    *)
(* the data file is what the text means under them: for every text, every  *)
(* schema file and all sizes of the arrays.                                *)
(*                                                                         *)
(* The arrays.  The tokenizer never goes beyond the end of the text, so    *)
(* that a token is as long as the distance that was compared with its      *)
(* buffer.  And the parser reaches the places that fill an array only with *)
(* the array in the state its check expects: where the value of a condition*)
(* is expected its column has been stored, and nothing is added to the     *)
(* column list after a star.                                               *)
(*                                                                         *)
(* The sentences.  While the text is scanned, the tokens in the list and   *)
(* those the rest of the text yields are the tokens of the text.  While    *)
(* they are parsed, those consumed are the beginning of an INSERT or a     *)
(* SELECT, up to the place the parser is at, and the draft is what they    *)
(* say; at the end that is a sentence, and no other one.  Conversely,      *)
(* where the tokens are a sentence, the number of values or columns and    *)
(* the place say which token comes next, and the parser accepts it: so     *)
(* where it can go no further, they are none.                              *)
(*                                                                         *)
(* The schema.  Between two lines the bytes read are whole pieces of the   *)
(* file, all of them sound, and the columns so far are those of these      *)
(* pieces.  A line is the next piece, and trimming its two halves finds    *)
(* its column where it has one; a refused line is a piece that has none,   *)
(* is too long or is one too many, and pieces are only added after it.     *)
(*                                                                         *)
(* The plan.  It brings the others together: the command is the only       *)
(* meaning of the text, the schema that of the file, and a raw literal,    *)
(* which is quoted at both ends or does not begin with a quote, is cast    *)
(* exactly when its meaning is a value of the column's type.               *)
(*                                                                         *)
(* The types follow from these: the tokens are tokens of the text, the     *)
(* draft holds their texts, the schema names trimmed from its lines.       *)
(***************************************************************************)
EXTENDS Statement, FiniteSetTheorems, SequenceTheorems, WellFoundedInduction, TLAPS

\* A token's text has room for a byte and its NUL.
LEMMA TokenHasRoom == TOKEN_SIZE \in Nat /\ TOKEN_SIZE > 1
<1>1. TOKEN_SIZE \in Nat \ {0, 1}
    BY TokenizerConstants, Zenon
<1> QED  BY <1>1

-----------------------------------------------------------------------------
(* Sequences of unknown elements *)

IsSequence(s) == s \in Seq(Range(s))

LEMMA SequenceFacts ==
    ASSUME NEW s, IsSequence(s)
    PROVE  Len(s) \in Nat /\ DOMAIN s = 1..Len(s)
BY DEF IsSequence

LEMMA EmptyIsSequence == IsSequence(<<>>) /\ Len(<<>>) = 0
BY DEF IsSequence

LEMMA AppendFacts ==
    ASSUME NEW s, IsSequence(s), NEW x
    PROVE  /\ IsSequence(Append(s, x))
           /\ Len(Append(s, x)) = Len(s) + 1
           /\ \A i \in 1..Len(s) : Append(s, x)[i] = s[i]
           /\ Append(s, x)[Len(s) + 1] = x
<1> DEFINE S == Range(s) \cup {x}
           t == Append(s, x)
<1>1. s \in Seq(S) /\ x \in S
    BY DEF IsSequence
<1>2. /\ t \in Seq(S) /\ Len(t) = Len(s) + 1 /\ Len(s) \in Nat
      /\ \A i \in 1..Len(s) : t[i] = s[i]
      /\ t[Len(s) + 1] = x
    BY <1>1
<1> HIDE DEF t
<1>3. t \in Seq(Range(t))
  <2>1. DOMAIN t = 1..Len(t) /\ t = [i \in 1..Len(t) |-> t[i]] /\ Len(t) \in Nat
    BY <1>2
  <2>2. \A i \in 1..Len(t) : t[i] \in Range(t)
    BY <2>1 DEF Range
  <2> QED
    BY <2>1, <2>2
<1> QED
    BY <1>2, <1>3 DEF IsSequence, t

LEMMA SingletonFacts ==
    ASSUME NEW x
    PROVE  IsSequence(<<x>>) /\ Len(<<x>>) = 1 /\ <<x>>[1] = x
<1>1. Range(<<x>>) = {x}
    BY DEF Range
<1> QED
    BY <1>1 DEF IsSequence

LEMMA SingletonFits ==
    ASSUME NEW x, NEW size, Len(x) < size
    PROVE  /\ IsSequence(<<x>>) /\ Len(<<x>>) <= MAX_COLUMNS
           /\ \A i \in DOMAIN <<x>> : Len(<<x>>[i]) < size
<1> DEFINE s == <<x>>
<1>1. IsSequence(s) /\ Len(s) = 1 /\ s[1] = x
    BY SingletonFacts
<1> HIDE DEF s
<1>2. DOMAIN s = 1..1 /\ 1 <= MAX_COLUMNS
    BY <1>1, SequenceFacts, CodecConstants
<1>3. \A i \in DOMAIN s : i = 1
    BY <1>2
<1>4. Len(s) <= MAX_COLUMNS /\ \A i \in DOMAIN s : Len(s[i]) < size
    BY <1>1, <1>2, <1>3
<1> QED
    BY <1>1, <1>4 DEF s

\* A text is added to an array that has room for it.
LEMMA AppendFits ==
    ASSUME NEW s, IsSequence(s), NEW x, NEW size, Len(s) < MAX_COLUMNS, Len(x) < size,
           \A i \in DOMAIN s : Len(s[i]) < size
    PROVE  /\ IsSequence(Append(s, x))
           /\ Len(Append(s, x)) <= MAX_COLUMNS
           /\ \A i \in DOMAIN Append(s, x) : Len(Append(s, x)[i]) < size
<1> DEFINE t == Append(s, x)
<1>1. /\ IsSequence(t) /\ Len(t) = Len(s) + 1
      /\ \A i \in 1..Len(s) : t[i] = s[i]
      /\ t[Len(s) + 1] = x
    BY AppendFacts
<1> HIDE DEF t
<1>2. /\ DOMAIN t = 1..(Len(s) + 1) /\ DOMAIN s = 1..Len(s) /\ Len(s) \in Nat
      /\ MAX_COLUMNS \in Nat
    BY <1>1, SequenceFacts, CodecConstants
<1>3. ASSUME NEW i \in DOMAIN t PROVE Len(t[i]) < size
  <2>1. CASE i = Len(s) + 1
    BY <2>1, <1>1
  <2>2. CASE i \in DOMAIN s
    BY <2>2, <1>1, <1>2
  <2> QED
    BY <2>1, <2>2, <1>2
<1> QED
    BY <1>1, <1>2, <1>3 DEF t

-----------------------------------------------------------------------------
(* The tokenizer stays within the text *)

Less == {pair \in Nat \X Nat : pair[1] < pair[2]}

LEMMA LessIsWellFounded == IsWellFoundedOn(Less, Nat)
BY NatLessThanWellFounded, Zenon DEF OpToRel, Less

\* A set of natural numbers that has an element has a least one.
LEMMA MinIsLeast ==
    ASSUME NEW S \in SUBSET Nat, S # {}
    PROVE  Min(S) \in S /\ \A y \in S : Min(S) <= y
<1>1. PICK x \in S : \A y \in S : <<y, x>> \notin Less
    BY WFMin, LessIsWellFounded
<1>2. \A y \in S : ~(y < x)
  <2> TAKE y \in S
  <2>1. <<y, x>> \notin Less
    BY <1>1
  <2> QED
    BY <2>1 DEF Less
<1>3. \A y \in S : x <= y
    BY <1>2
<1> QED
    BY <1>3, Zenon DEF Min

LEMMA EndOfIsInText ==
    ASSUME NEW t, Len(t) \in Nat, NEW i \in 1..(Len(t) + 1), NEW bytes
    PROVE  EndOf(t, i, bytes) \in i..(Len(t) + 1)
<1> DEFINE S == {j \in i..Len(t) : t[j] \notin bytes} \cup {Len(t) + 1}
<1>1. S \in SUBSET Nat /\ S # {} /\ S \subseteq i..(Len(t) + 1)
    OBVIOUS
<1>2. Min(S) \in S
    BY <1>1, MinIsLeast
<1> QED
    BY <1>1, <1>2 DEF EndOf

LEMMA QuoteIsInText ==
    ASSUME NEW t, Len(t) \in Nat, NEW i \in 1..Len(t)
    PROVE  ClosingQuote(t, i) \in {0} \cup (i + 1)..Len(t)
<1> DEFINE S == {j \in (i + 1)..Len(t) : t[j] = QUOTE}
<1>1. S \in SUBSET Nat /\ S \subseteq (i + 1)..Len(t)
    OBVIOUS
<1>2. S # {} => Min(S) \in S
    BY <1>1, MinIsLeast
<1> QED
    BY <1>1, <1>2 DEF ClosingQuote

LEMMA TokenIsInText ==
    ASSUME NEW t, Len(t) \in Nat, NEW i \in 1..Len(t)
    PROVE  TokenAt(t, i)[2] \in {0} \cup i..(Len(t) + 1)
<1>1. /\ EndOf(t, i, NameBytes) \in i..(Len(t) + 1)
      /\ EndOf(t, i + 1, DigitBytes) \in (i + 1)..(Len(t) + 1)
    BY EndOfIsInText
<1>2. ClosingQuote(t, i) \in {0} \cup (i + 1)..Len(t)
    BY QuoteIsInText
<1> DEFINE Found1 == <<"identifier", EndOf(t, i, NameBytes)>>
           Found2 == <<"string", IF ClosingQuote(t, i) = 0 THEN 0 ELSE ClosingQuote(t, i) + 1>>
           Found3 == <<"number", EndOf(t, i + 1, DigitBytes)>>
           Found4 == <<t[i], i + 1>>
           Found5 == <<"none", 0>>
<1>3. TokenAt(t, i) \in {Found1, Found2, Found3, Found4, Found5}
    BY Zenon DEF TokenAt
<1>4. /\ Found1[2] \in {0} \cup i..(Len(t) + 1)
      /\ Found2[2] \in {0} \cup i..(Len(t) + 1)
      /\ Found3[2] \in {0} \cup i..(Len(t) + 1)
      /\ Found4[2] \in {0} \cup i..(Len(t) + 1)
      /\ Found5[2] \in {0} \cup i..(Len(t) + 1)
    BY <1>1, <1>2
<1> QED
    BY <1>3, <1>4, Zenon

-----------------------------------------------------------------------------
(* The invariant *)

IsCommand(c) ==
    /\ DOMAIN c = {"kind", "table", "columns", "where", "values"}
    /\ IsSequence(c.columns) /\ IsSequence(c.where) /\ IsSequence(c.values)

Typed ==
    /\ text \in Seq(Bytes) /\ at \in 1..(Len(text) + 1)
    /\ IsSequence(tokens) /\ IsSequence(schema) /\ IsSequence(cast)
    /\ IsCommand(draft) /\ IsCommand(command)

\* Where the condition's value comes next, its column is there.
ConditionHasColumn == pc \in {"equal", "where value"} => Len(draft.where) = 1

ParserHolds ==
    /\ Fits(draft) /\ Fits(command)
    /\ \A i \in DOMAIN tokens : Len(tokens[i].text) < TOKEN_SIZE
SchemaHolds ==
    /\ Len(schema) <= MAX_COLUMNS
    /\ \A i \in DOMAIN schema : Len(schema[i].name) < MAX_NAME_LENGTH
    /\ Len(cast) <= Len(schema)

IInv == Typed /\ ConditionHasColumn /\ ParserHolds /\ SchemaHolds

LEMMA ArraysHoldParts == ArraysHold <=> ParserHolds /\ SchemaHolds
BY DEF ArraysHold, ParserHolds, SchemaHolds

\* The commands a draft starts from.
LEMMA EmptyCommands ==
    \A c \in {NoCommand, InsertCommand(<<>>, <<>>), SelectCommand(<<>>, <<>>, <<>>)} :
        IsCommand(c) /\ Fits(c)
<1>1. /\ MAX_NAME_LENGTH \in Nat /\ MAX_NAME_LENGTH > 1 /\ MAX_COLUMNS \in Nat \ {0}
    BY ModelsConstants, CodecConstants
<1> DEFINE Empty(c) ==
        /\ DOMAIN c = {"kind", "table", "columns", "where", "values"}
        /\ c.table = <<>> /\ c.columns = <<>> /\ c.where = <<>> /\ c.values = <<>>
<1>2. Empty(NoCommand)
    BY DEF NoCommand
<1>3. Empty(InsertCommand(<<>>, <<>>))
    BY DEF NoCommand, InsertCommand
<1>4. Empty(SelectCommand(<<>>, <<>>, <<>>))
    BY DEF NoCommand, SelectCommand
<1>5. \A c : Empty(c) => IsCommand(c) /\ Fits(c)
    BY <1>1, EmptyIsSequence DEF IsCommand, Fits
<1> HIDE DEF Empty
<1> QED
    BY <1>2, <1>3, <1>4, <1>5

LEMMA InitInv == Init => IInv
<1> SUFFICES ASSUME Init PROVE IInv
    OBVIOUS
<1>1. text \in Seq(Bytes) /\ at \in 1..(Len(text) + 1)
    BY StatementConstants DEF Init, ParserInit
<1>2. /\ IsSequence(tokens) /\ IsSequence(schema) /\ IsSequence(cast)
      /\ tokens = <<>> /\ schema = <<>> /\ cast = <<>> /\ pc = "scan"
    BY EmptyIsSequence DEF Init, ParserInit, LoaderInit
<1>3. IsCommand(draft) /\ IsCommand(command) /\ Fits(draft) /\ Fits(command)
    BY EmptyCommands DEF Init, ParserInit
<1> QED
    BY <1>1, <1>2, <1>3, CodecConstants
    DEF IInv, Typed, ConditionHasColumn, ParserHolds, SchemaHolds

\* A step that leaves the schema and the values alone.
LEMMA ParserStepInv ==
    ASSUME IInv, UNCHANGED <<schema, cast>>, UNCHANGED text, at' \in 1..(Len(text) + 1),
           IsSequence(tokens)', \A i \in DOMAIN tokens' : Len(tokens'[i].text) < TOKEN_SIZE,
           IsCommand(draft)', IsCommand(command)', Fits(draft)', Fits(command)',
           ConditionHasColumn'
    PROVE  IInv'
BY DEF IInv, Typed, ParserHolds, SchemaHolds, IsSequence

-----------------------------------------------------------------------------
(* The tokenizer *)

LEMMA ScanTokenInv == ASSUME IInv, ScanToken, UNCHANGED <<schema, cast>> PROVE IInv'
<1>1. Len(text) \in Nat /\ Start \in 1..Len(text)
    BY EndOfIsInText DEF IInv, Typed, ScanToken, Tokenized, Start
<1>2. Found[2] \in Start..(Len(text) + 1) /\ Found[2] - Start < TOKEN_SIZE
    BY <1>1, TokenIsInText DEF ScanToken, Acceptable, Found
<1> DEFINE piece == SubSeq(text, Start, Found[2] - 1)
           token == Token(Found[1], piece)
<1>3. Len(piece) < TOKEN_SIZE
    BY <1>1, <1>2, TokenHasRoom DEF IInv, Typed
<1>4. token.text = piece /\ tokens' = Append(tokens, token)
    BY DEF Token, ScanToken
<1> HIDE DEF piece, token
<1>5. /\ IsSequence(tokens)' /\ Len(tokens') = Len(tokens) + 1
      /\ \A i \in 1..Len(tokens) : tokens'[i] = tokens[i]
      /\ tokens'[Len(tokens) + 1] = token
    BY <1>4, AppendFacts DEF IInv, Typed
<1>6. \A i \in DOMAIN tokens' : Len(tokens'[i].text) < TOKEN_SIZE
  <2>1. DOMAIN tokens' = 1..(Len(tokens) + 1) /\ DOMAIN tokens = 1..Len(tokens)
        /\ Len(tokens) \in Nat
    BY <1>5, SequenceFacts DEF IInv, Typed
  <2> QED
    BY <2>1, <1>3, <1>4, <1>5 DEF IInv, ParserHolds
<1>7. at' \in 1..(Len(text) + 1) /\ UNCHANGED <<text, pc, draft, command>>
    BY <1>1, <1>2 DEF ScanToken
<1> QED
    BY <1>5, <1>6, <1>7, ParserStepInv
    DEF IInv, Typed, ParserHolds, ConditionHasColumn, IsCommand, Fits, IsSequence

\* Every return frees the tokens and drops the draft.
LEMMA ReleaseInv ==
    ASSUME IInv, NEW result \in {"accepted", "rejected", "failed"}, Release(result),
           UNCHANGED <<text, at, schema, cast>>, command' \in {command, draft}
    PROVE  IInv'
<1>1. /\ IsSequence(tokens)' /\ \A i \in DOMAIN tokens' : Len(tokens'[i].text) < TOKEN_SIZE
    BY EmptyIsSequence DEF Release, IsSequence
<1>2. IsCommand(draft)' /\ Fits(draft)'
    BY EmptyCommands DEF Release
<1>3. IsCommand(command)' /\ Fits(command)'
    BY DEF IInv, Typed, ParserHolds
<1>4. ConditionHasColumn'
    BY DEF Release, ConditionHasColumn
<1> QED
    BY <1>1, <1>2, <1>3, <1>4, ParserStepInv DEF IInv, Typed

-----------------------------------------------------------------------------
(* The cursor *)

\* Only "=" leads to the value of a condition, and no symbol or keyword to the "=".
ConditionMove(m) ==
    m[3] # "equal" /\ (m[3] = "where value" => m[1] = "equal" /\ m[2] = "=")

LEMMA MoveParts ==
    ASSUME NEW a, NEW b, NEW c
    PROVE  <<a, b, c>>[1] = a /\ <<a, b, c>>[2] = b /\ <<a, b, c>>[3] = c
OBVIOUS

LEMMA MoveFacts == \A m \in Moves : ConditionMove(m)
<1>1. ASSUME NEW a, NEW b, NEW c, c # "equal", c = "where value" => a = "equal" /\ b = "="
      PROVE  ConditionMove(<<a, b, c>>)
    BY <1>1, MoveParts, Zenon DEF ConditionMove
<1>2. \A m \in InsertMoves : ConditionMove(m)
    BY <1>1, Zenon DEF InsertMoves
<1>3. \A m \in SelectMoves : ConditionMove(m)
    BY <1>1, Zenon DEF SelectMoves
<1> QED
    BY <1>1, <1>2, <1>3, Zenon DEF Moves

LEMMA AfterFacts ==
    /\ After["insert table"] = "values" /\ After["columns"] = "comma"
    /\ After["column"] = "comma" /\ After["select table"] = "where"
    /\ After["where column"] = "equal"
    /\ After["value"] = "separator" /\ After["where value"] = "end"
BY DEF After

\* One list of the draft is replaced.
LEMMA DraftWithPart ==
    ASSUME IInv, NEW part \in {"columns", "where", "values"}, NEW list, IsSequence(list),
           draft' = [draft EXCEPT ![part] = list]
    PROVE  /\ IsCommand(draft') /\ draft'[part] = list
           /\ draft'.table = draft.table
           /\ \A other \in {"columns", "where", "values"} \ {part} :
                draft'[other] = draft[other]
BY DEF IInv, Typed, IsCommand

\* A token is consumed, and the draft fits after it.
LEMMA ConsumeInv ==
    ASSUME IInv, NEW place, Consume(place), UNCHANGED <<schema, cast>>,
           IsCommand(draft'), Fits(draft'),
           place \in {"equal", "where value"} => Len(draft'.where) = 1
    PROVE  IInv'
<1>1. IsCommand(draft)' /\ Fits(draft)' /\ IsCommand(command)' /\ Fits(command)'
    BY DEF IInv, Typed, ParserHolds, Consume, IsCommand, Fits, IsSequence
<1>2. ConditionHasColumn'
    BY DEF ConditionHasColumn, Consume
<1>3. /\ IsSequence(tokens)' /\ \A i \in DOMAIN tokens' : Len(tokens'[i].text) < TOKEN_SIZE
      /\ UNCHANGED text /\ at' \in 1..(Len(text) + 1)
    BY DEF IInv, Typed, ParserHolds, Consume, IsSequence
<1> QED
    BY <1>1, <1>2, <1>3, ParserStepInv

LEMMA MatchKeywordInv == ASSUME IInv, MatchKeyword, UNCHANGED <<schema, cast>> PROVE IInv'
<1>1. PICK m \in Fitting :
        /\ Consume(m[3])
        /\ draft' = CASE m[2] = "INSERT" -> InsertCommand(<<>>, <<>>)
                      [] m[2] = "SELECT" -> SelectCommand(<<>>, <<>>, <<>>)
                      [] OTHER -> draft
    BY DEF MatchKeyword
<1>2. m \in Moves /\ m[1] = pc
    BY DEF Fitting
<1>3. draft' \in {InsertCommand(<<>>, <<>>), SelectCommand(<<>>, <<>>, <<>>), draft}
    BY <1>1, Zenon
<1>4. IsCommand(draft') /\ Fits(draft')
    BY <1>3, EmptyCommands DEF IInv, Typed, ParserHolds
<1>5. m[3] # "equal" /\ (m[3] = "where value" => Len(draft'.where) = 1)
  <2>1. m[3] # "equal" /\ (m[3] = "where value" => pc = "equal" /\ m[2] = "=")
    BY <1>2, MoveFacts DEF ConditionMove
  <2>2. m[2] = "=" => draft' = draft
    BY <1>1
  <2> QED
    BY <2>1, <2>2 DEF IInv, ConditionHasColumn
<1> QED
    BY <1>1, <1>4, <1>5, ConsumeInv

LEMMA MatchTokenTypeInv == ASSUME IInv, MatchTokenType, UNCHANGED <<schema, cast>> PROVE IInv'
<1>1. PICK m \in Fitting :
        /\ Consume(m[3])
        /\ draft' = IF m[2] = "*" THEN [draft EXCEPT !.columns = Star] ELSE draft
    BY DEF MatchTokenType
<1>2. m \in Moves /\ m[1] = pc
    BY DEF Fitting
<1>3. /\ IsSequence(Star) /\ Len(Star) <= MAX_COLUMNS
      /\ \A i \in DOMAIN Star : Len(Star[i]) < MAX_NAME_LENGTH
  <2>1. \A x : Len(<<x>>) < MAX_NAME_LENGTH
    BY SingletonFacts, ModelsConstants
  <2> QED
    BY <2>1, SingletonFits, Zenon DEF Star
<1>4. IsCommand(draft') /\ Fits(draft') /\ draft'.where = draft.where
  <2>1. CASE m[2] = "*"
    <3>1. draft' = [draft EXCEPT !.columns = Star]
        BY <1>1, <2>1
    <3> QED
        BY <1>3, <3>1, DraftWithPart DEF IInv, ParserHolds, Fits
  <2>2. CASE m[2] # "*"
    BY <1>1, <2>2 DEF IInv, Typed, ParserHolds
  <2> QED
    BY <2>1, <2>2
<1>5. m[3] # "equal" /\ (m[3] = "where value" => Len(draft'.where) = 1)
    BY <1>2, <1>4, MoveFacts DEF IInv, ConditionHasColumn, ConditionMove
<1> QED
    BY <1>1, <1>4, <1>5, ConsumeInv

\* A name goes to the table, to the column list, or to the condition.
LEMMA ParseIdentifierInv ==
    ASSUME IInv, ParseIdentifier, UNCHANGED <<schema, cast>>
    PROVE  IInv'
<1> DEFINE t == Peek.text
<1>1. /\ Len(t) < MAX_NAME_LENGTH /\ draft' = Drafted(pc, t) /\ Consume(After[pc])
      /\ pc \in {"columns", "column"} => Len(draft.columns) < MAX_COLUMNS
      /\ pc \in {"insert table", "columns", "column", "select table", "where column"}
    BY DEF ParseIdentifier, NameFits, IsName
<1> HIDE DEF t
<1>2. CASE pc \in {"insert table", "select table"}
  <2>1. draft' = [draft EXCEPT !.table = t]
    BY <1>1, <1>2 DEF Drafted
  <2>2. IsCommand(draft') /\ Fits(draft')
    BY <1>1, <2>1 DEF IInv, Typed, ParserHolds, IsCommand, Fits
  <2> QED
    BY <1>1, <1>2, <2>2, AfterFacts, ConsumeInv
<1>3. CASE pc \in {"columns", "column"}
  <2> DEFINE columns == Append(draft.columns, t)
  <2>1. draft' = [draft EXCEPT !.columns = columns]
    BY <1>1, <1>3 DEF Drafted
  <2>2. /\ IsSequence(columns) /\ Len(columns) <= MAX_COLUMNS
        /\ \A i \in DOMAIN columns : Len(columns[i]) < MAX_NAME_LENGTH
    BY <1>1, <1>3, AppendFits DEF IInv, Typed, IsCommand, ParserHolds, Fits
  <2> HIDE DEF columns
  <2>5. IsCommand(draft') /\ Fits(draft')
    BY <2>1, <2>2 DEF IInv, Typed, ParserHolds, IsCommand, Fits
  <2> QED
    BY <1>1, <1>3, <2>5, AfterFacts, ConsumeInv
<1>4. CASE pc = "where column"
  <2> DEFINE where == <<t>>
  <2>1. draft' = [draft EXCEPT !.where = where]
    BY <1>1, <1>4 DEF Drafted
  <2>2. IsSequence(where) /\ Len(where) = 1 /\ where[1] = t
    BY SingletonFacts
  <2> HIDE DEF where
  <2>3. /\ IsCommand(draft') /\ draft'.where = where /\ draft'.table = draft.table
        /\ draft'.columns = draft.columns /\ draft'.values = draft.values
    BY <2>1, <2>2, DraftWithPart
  <2>4. Fits(draft)
    BY DEF IInv, ParserHolds
  <2>5. Fits(draft')
  <3>0. Len(t) < MAX_NAME_LENGTH
    BY <1>1
  <3>1. where[1] = t
    BY <2>2
  <3>2. Len(where[1]) < MAX_NAME_LENGTH
    BY <3>0, <3>1, Zenon
  <3>3. Len(where) # 2
    BY <2>2
  <3> QED
    BY <2>3, <2>4, <3>2, <3>3 DEF Fits
  <2> QED
    BY <1>1, <2>2, <2>3, <2>5, ConsumeInv
<1> QED
    BY <1>1, <1>2, <1>3, <1>4

\* A value goes to the value list, or to the condition after its column.
LEMMA ParseValueTokenInv ==
    ASSUME IInv, ParseValueToken, UNCHANGED <<schema, cast>>
    PROVE  IInv'
<1> DEFINE t == Peek.text
<1>1. /\ Len(t) < MAX_VALUE_LENGTH /\ draft' = Drafted(pc, t) /\ Consume(After[pc])
      /\ pc = "value" => Len(draft.values) < MAX_COLUMNS
      /\ pc \in {"value", "where value"}
    BY DEF ParseValueToken, ValueFits, IsValue
<1> HIDE DEF t
<1>2. CASE pc = "value"
  <2> DEFINE values == Append(draft.values, t)
  <2>1. draft' = [draft EXCEPT !.values = values]
    BY <1>1, <1>2 DEF Drafted
  <2>2. /\ IsSequence(values) /\ Len(values) <= MAX_COLUMNS
        /\ \A i \in DOMAIN values : Len(values[i]) < MAX_VALUE_LENGTH
    BY <1>1, <1>2, AppendFits DEF IInv, Typed, IsCommand, ParserHolds, Fits
  <2> HIDE DEF values
  <2>5. IsCommand(draft') /\ Fits(draft')
    BY <2>1, <2>2 DEF IInv, Typed, ParserHolds, IsCommand, Fits
  <2> QED
    BY <1>1, <1>2, <2>5, AfterFacts, ConsumeInv
<1>3. CASE pc = "where value"
  <2> DEFINE where == Append(draft.where, t)
  <2>1. draft' = [draft EXCEPT !.where = where]
    BY <1>1, <1>3 DEF Drafted
  <2>2. Len(draft.where) = 1
    BY <1>3 DEF IInv, ConditionHasColumn
  <2>3. IsSequence(where) /\ Len(where) = 2 /\ where[1] = draft.where[1] /\ where[2] = t
  <3>1. IsSequence(draft.where)
    BY DEF IInv, Typed, IsCommand
  <3>2. /\ IsSequence(where) /\ Len(where) = Len(draft.where) + 1
        /\ \A i \in 1..Len(draft.where) : where[i] = draft.where[i]
        /\ where[Len(draft.where) + 1] = t
    BY <3>1, AppendFacts
  <3> HIDE DEF where
  <3> QED
    BY <3>2, <2>2
  <2> HIDE DEF where
  <2>4. Len(draft.where[1]) < MAX_NAME_LENGTH
    BY <2>2, EmptyIsSequence DEF IInv, ParserHolds, Fits
  <2>5. IsCommand(draft') /\ Fits(draft')
    BY <1>1, <2>1, <2>3, <2>4 DEF IInv, Typed, ParserHolds, IsCommand, Fits
  <2> QED
    BY <1>1, <1>3, <2>5, AfterFacts, ConsumeInv
<1> QED
    BY <1>1, <1>2, <1>3

LEMMA ParserNextInv == ASSUME IInv, ParserNext, UNCHANGED <<schema, cast>> PROVE IInv'
<1>1. CASE ScanToken
    BY <1>1, ScanTokenInv
<1>2. CASE ScanFails
    BY <1>2, ReleaseInv DEF ScanFails
<1>3. CASE ReallocFails
    BY <1>3, ReleaseInv DEF ReallocFails
<1>4. CASE ScanEnds
    BY <1>4 DEF ScanEnds, IInv, Typed, ConditionHasColumn, ParserHolds, SchemaHolds,
                IsCommand, Fits, IsSequence
<1>5. CASE MatchKeyword
    BY <1>5, MatchKeywordInv
<1>6. CASE MatchTokenType
    BY <1>6, MatchTokenTypeInv
<1>7. CASE ParseIdentifier
    BY <1>7, ParseIdentifierInv
<1>8. CASE ParseValueToken
    BY <1>8, ParseValueTokenInv
<1>9. CASE Accept
    BY <1>9, ReleaseInv DEF Accept
<1>10. CASE Reject
    BY <1>10, ReleaseInv DEF Reject
<1> QED
    BY <1>1, <1>2, <1>3, <1>4, <1>5, <1>6, <1>7, <1>8, <1>9, <1>10 DEF ParserNext

-----------------------------------------------------------------------------
(* The schema and the values *)

\* The parser's part stays as it is.
LEMMA LoaderStepInv ==
    ASSUME IInv, UNCHANGED parserVars, IsSequence(schema)', IsSequence(cast)', SchemaHolds'
    PROVE  IInv'
BY DEF parserVars, IInv, Typed, ConditionHasColumn, ParserHolds, IsCommand, Fits, IsSequence

LEMMA ReadColumnInv ==
    ASSUME IInv, ReadColumn, UNCHANGED parserVars, UNCHANGED cast
    PROVE  IInv'
<1> DEFINE column == [name |-> NamePart(Chunk), type |-> TypeOf(TypePart(Chunk))]
<1>1. /\ schema' = Append(schema, column) /\ column.name = NamePart(Chunk)
      /\ Len(NamePart(Chunk)) < MAX_NAME_LENGTH /\ Len(schema) < MAX_COLUMNS
    BY DEF ReadColumn, IsColumnLine
<1> HIDE DEF column
<1>2. /\ IsSequence(schema') /\ Len(schema') = Len(schema) + 1
      /\ \A i \in 1..Len(schema) : schema'[i] = schema[i]
      /\ schema'[Len(schema) + 1] = column
    BY <1>1, AppendFacts DEF IInv, Typed
<1>3. /\ DOMAIN schema' = 1..(Len(schema) + 1) /\ DOMAIN schema = 1..Len(schema)
      /\ Len(schema) \in Nat /\ Len(cast) \in Nat /\ MAX_COLUMNS \in Nat
    BY <1>2, SequenceFacts, CodecConstants DEF IInv, Typed
<1>4. ASSUME NEW i \in DOMAIN schema' PROVE Len(schema'[i].name) < MAX_NAME_LENGTH
  <2>1. CASE i = Len(schema) + 1
    BY <2>1, <1>1, <1>2, Zenon
  <2>2. CASE i \in DOMAIN schema
    BY <2>2, <1>2, <1>3 DEF IInv, SchemaHolds
  <2> QED
    BY <2>1, <2>2, <1>3
<1>5. SchemaHolds'
    BY <1>1, <1>2, <1>3, <1>4 DEF IInv, SchemaHolds
<1> QED
    BY <1>2, <1>5, LoaderStepInv DEF IInv, Typed, IsSequence

LEMMA CastValueInv == ASSUME IInv, CastValue PROVE IInv'
<1> DEFINE value == ValueOf(schema[NextValue].type, command.values[NextValue])
<1>1. /\ cast' = Append(cast, value) /\ Len(cast) + 1 <= Len(schema)
      /\ UNCHANGED parserVars /\ UNCHANGED schema
    BY DEF CastValue, NextValue, loaderVars
<1> HIDE DEF value
<1>2. IsSequence(cast') /\ Len(cast') = Len(cast) + 1
    BY <1>1, AppendFacts DEF IInv, Typed
<1>3. SchemaHolds'
    BY <1>1, <1>2 DEF IInv, SchemaHolds
<1> QED
    BY <1>1, <1>2, <1>3, LoaderStepInv DEF IInv, Typed, IsSequence

\* Every other step leaves the commands, the schema and the values.
LEMMA OtherStepInv == ASSUME IInv, UNCHANGED <<parserVars, schema, cast>> PROVE IInv'
BY LoaderStepInv DEF IInv, Typed, SchemaHolds, IsSequence

LEMMA StepInv == IInv /\ [Next]_vars => IInv'
<1> SUFFICES ASSUME IInv, [Next]_vars PROVE IInv'
    OBVIOUS
<1>1. CASE Parses
    BY <1>1, ParserNextInv DEF Parses, loaderVars
<1>2. CASE Opens
    BY <1>2, OtherStepInv DEF Opens, OpenSchema
<1>3. CASE LoadsSchema
  <2>1. CASE ReadColumn
    BY <1>3, <2>1, ReadColumnInv DEF LoadsSchema
  <2>2. CASE ~ReadColumn
    BY <1>3, <2>2, OtherStepInv
    DEF LoadsSchema, Loads, SkipBlank, RefuseLine, ReadFails, ReadEnds
  <2> QED
    BY <2>1, <2>2
<1>4. CASE NotParsed \/ NotLoaded \/ CountDiffers \/ CastFails \/ RejectSelect
    BY <1>4, OtherStepInv
    DEF NotParsed, NotLoaded, CountDiffers, CastFails, RejectSelect, Rejects, Outcome, loaderVars
<1>5. CASE CastValue
    BY <1>5, CastValueInv
<1>6. CASE PlanInsert
  <2>1. UNCHANGED <<parserVars, schema, cast>>
    BY <1>6, Zenon DEF PlanInsert, Plans, Rejects, Outcome, loaderVars
  <2> QED
    BY <2>1, OtherStepInv
<1>7. CASE PlanSelect
  <2>1. UNCHANGED <<parserVars, schema, cast>>
    BY <1>7, Zenon DEF PlanSelect, Plans, Outcome, loaderVars
  <2> QED
    BY <2>1, OtherStepInv
<1>8. CASE Over \/ UNCHANGED vars
    BY <1>8, OtherStepInv DEF Over, vars, loaderVars
<1> QED
    BY <1>1, <1>2, <1>3, <1>4, <1>5, <1>6, <1>7, <1>8 DEF Next

\* Whatever the statement and the schema file hold and however large the arrays
\* are, no text and no list is copied into an array that is too small for it
\* (parser.c:102, 222, 313; tokenizer.c:49; schema_manager.c:303-327).
THEOREM ArraysAlwaysHold == Spec => []ArraysHold
<1>1. IInv => ArraysHold
    BY ArraysHoldParts DEF IInv
<1> QED
    BY InitInv, StepInv, <1>1, PTL DEF Spec

-----------------------------------------------------------------------------
(* tokenize_sql finds the tokens of the text *)

\* Induction on the natural numbers.
Upward == INSTANCE FoldFacts WITH Op <- LAMBDA p, v, e : v, Base <- LAMBDA p : p
\* Tokenize as a function of the place to go on from, given what later places yield.
ScanBody(t, f, i) ==
    IF i > Len(t) THEN [ok |-> TRUE, tokens |-> <<>>]
    ELSE IF t[i] \in White THEN f[i + 1]
    ELSE IF TokenAt(t, i)[2] = 0 \/ TokenAt(t, i)[2] - i >= TOKEN_SIZE \/ ~f[TokenAt(t, i)[2]].ok
         THEN Refused
         ELSE [ok |-> TRUE,
               tokens |-> <<Token(TokenAt(t, i)[1], SubSeq(t, i, TokenAt(t, i)[2] - 1))>>
                          \o f[TokenAt(t, i)[2]].tokens]
IsScanFrom(t, f, k) == f = [i \in k..Len(t) + 1 |-> ScanBody(t, f, i)]
Scan(t) == CHOOSE f : IsScanFrom(t, f, 1)

LEMMA TokenizeIsScan == \A t : Tokenize(t) = Scan(t)[1]
BY Zenon DEF Tokenize, Scan, IsScanFrom, ScanBody

\* A token takes at least one byte.
LEMMA EndOfIsFurther ==
    ASSUME NEW t, Len(t) \in Nat, NEW i \in 1..Len(t), NEW bytes, t[i] \in bytes
    PROVE  EndOf(t, i, bytes) \in (i + 1)..(Len(t) + 1)
<1> DEFINE S == {j \in i..Len(t) : t[j] \notin bytes} \cup {Len(t) + 1}
<1>1. S \in SUBSET Nat /\ S # {} /\ S \subseteq (i + 1)..(Len(t) + 1)
    OBVIOUS
<1>2. Min(S) \in S
    BY <1>1, MinIsLeast
<1> QED
    BY <1>1, <1>2 DEF EndOf

\* The token at a place ends further on, so a scan looks ahead only.
LEMMA TokenGoesOn ==
    ASSUME NEW t, Len(t) \in Nat, NEW i \in 1..Len(t)
    PROVE  TokenAt(t, i)[2] \in {0} \cup (i + 1)..(Len(t) + 1)
<1> DEFINE name == EndOf(t, i, NameBytes)
           number == EndOf(t, i + 1, DigitBytes)
           quote == ClosingQuote(t, i)
           Onward(found) == found[2] \in {0} \cup (i + 1)..(Len(t) + 1)
<1>1. t[i] \in Letters \cup {"_"} => name \in (i + 1)..(Len(t) + 1)
    BY EndOfIsFurther DEF NameBytes
<1>2. number \in (i + 1)..(Len(t) + 1)
    BY EndOfIsInText
<1>3. quote \in {0} \cup (i + 1)..Len(t)
    BY QuoteIsInText
<1>4. TokenAt(t, i) =
        CASE t[i] \in Letters \cup {"_"} -> <<"identifier", name>>
          [] t[i] = QUOTE -> <<"string", IF quote = 0 THEN 0 ELSE quote + 1>>
          [] NumberStart(t, i) -> <<"number", number>>
          [] t[i] \in Symbols -> <<t[i], i + 1>>
          [] OTHER -> <<"none", 0>>
    BY DEF TokenAt
<1> HIDE DEF name, number, quote
<1>5. /\ t[i] \in Letters \cup {"_"} => Onward(<<"identifier", name>>)
      /\ Onward(<<"string", IF quote = 0 THEN 0 ELSE quote + 1>>)
      /\ Onward(<<"number", number>>)
      /\ Onward(<<t[i], i + 1>>)
      /\ Onward(<<"none", 0>>)
  <2>1. \A a, b : <<a, b>>[2] = b
    OBVIOUS
  <2>2. /\ i + 1 \in (i + 1)..(Len(t) + 1)
        /\ quote # 0 => quote + 1 \in (i + 1)..(Len(t) + 1)
    BY <1>3
  <2> QED
    BY <1>1, <1>2, <2>1, <2>2, Zenon
<1> HIDE DEF Onward
<1>6. Onward(TokenAt(t, i))
    BY <1>4, <1>5, Zenon
<1> QED
    BY <1>6 DEF Onward

\* Scanning from a byte on refers to later bytes only.
LEMMA ScanLooksAhead ==
    ASSUME NEW t, Len(t) \in Nat, NEW i \in 1..Len(t) + 1, NEW f, NEW g,
           \A j \in (i + 1)..(Len(t) + 1) : f[j] = g[j]
    PROVE  ScanBody(t, f, i) = ScanBody(t, g, i)
<1>1. CASE i > Len(t)
    BY <1>1 DEF ScanBody
<1>2. CASE i <= Len(t)
  <2>0. ~(i > Len(t))
    BY <1>2
  <2>1. f[i + 1] = g[i + 1]
    BY <1>2
  <2> DEFINE next == TokenAt(t, i)[2]
  <2>2. next \in {0} \cup (i + 1)..(Len(t) + 1)
    BY <1>2, TokenGoesOn
  <2>3. next = 0 \/ f[next] = g[next]
    BY <2>2
  <2> QED
    BY <2>0, <2>1, <2>3, Zenon DEF ScanBody
<1> QED
    BY <1>1, <1>2

\* Hence there is such a function: it is built from the end of the text.
LEMMA ScanExists ==
    ASSUME NEW t, Len(t) \in Nat
    PROVE  IsScanFrom(t, Scan(t), 1)
<1> DEFINE n == Len(t)
           T == {d \in Nat : d <= n => \E f : IsScanFrom(t, f, n + 1 - d)}
<1>1. 0 \in T
  <2> DEFINE f == [i \in (n + 1)..(n + 1) |-> [ok |-> TRUE, tokens |-> <<>>]]
  <2>1. \A i \in (n + 1)..(n + 1) : ScanBody(t, f, i) = [ok |-> TRUE, tokens |-> <<>>]
    BY DEF ScanBody
  <2>2. IsScanFrom(t, f, n + 1)
    BY <2>1 DEF IsScanFrom
  <2>3. n + 1 - 0 = n + 1
    OBVIOUS
  <2> QED
    BY <2>2, <2>3
<1>2. ASSUME NEW d \in Nat, d \in T PROVE d + 1 \in T
  <2> SUFFICES ASSUME d + 1 <= n PROVE \E f : IsScanFrom(t, f, n + 1 - (d + 1))
    OBVIOUS
  <2> DEFINE k == n + 1 - d
  <2>0. k \in 2..n + 1 /\ n + 1 - (d + 1) = k - 1 /\ d <= n
    OBVIOUS
  <2>1. PICK h : IsScanFrom(t, h, k)
    BY <1>2, <2>0
  <2> HIDE DEF k
  <2> DEFINE f == [i \in (k - 1)..(n + 1) |-> IF i = k - 1 THEN ScanBody(t, h, i) ELSE h[i]]
  <2>2. ASSUME NEW i \in (k - 1)..(n + 1) PROVE f[i] = ScanBody(t, f, i)
    <3>1. \A j \in (i + 1)..(n + 1) : f[j] = h[j]
      BY <2>0
    <3>2. i \in 1..n + 1
      BY <2>0
    <3>2a. n = Len(t)
      OBVIOUS
    <3> HIDE DEF f, n
    <3>3. ScanBody(t, f, i) = ScanBody(t, h, i)
      BY <3>1, <3>2, <3>2a, ScanLooksAhead
    <3>4. i # k - 1 => h[i] = ScanBody(t, h, i)
      <4>1. i # k - 1 => i \in k..n + 1
        BY <2>0, <3>2a
      <4> QED
        BY <4>1, <2>1, <3>2a DEF IsScanFrom
    <3> QED
      BY <3>3, <3>4 DEF f
  <2>3. IsScanFrom(t, f, k - 1)
    BY <2>2 DEF IsScanFrom
  <2> QED
    BY <2>0, <2>3
<1> HIDE DEF T
<1>3. n \in T
  BY <1>1, <1>2, Upward!SetInduction
<1>4. \E f : IsScanFrom(t, f, 1)
  BY <1>3 DEF T
<1> QED
  BY <1>4 DEF Scan

\* What is scanned at a place.
LEMMA ScanUnfolds ==
    ASSUME NEW t, Len(t) \in Nat, NEW i \in 1..Len(t) + 1
    PROVE  Scan(t)[i] = ScanBody(t, Scan(t), i)
BY ScanExists DEF IsScanFrom

\* skip_spaces loses nothing.
LEMMA ScanSkipsBlanks ==
    ASSUME NEW t, Len(t) \in Nat, NEW i \in 1..Len(t) + 1
    PROVE  Scan(t)[EndOf(t, i, White)] = Scan(t)[i]
<1> DEFINE S == {j \in i..Len(t) : t[j] \notin White} \cup {Len(t) + 1}
           end == EndOf(t, i, White)
           T == {d \in Nat : i + d <= end => Scan(t)[i + d] = Scan(t)[i]}
<1>1. S \in SUBSET Nat /\ S # {}
    OBVIOUS
<1>2. \A j \in S : end <= j
    BY <1>1, MinIsLeast DEF EndOf
<1>3. end \in i..(Len(t) + 1)
    BY EndOfIsInText
<1> HIDE DEF end
<1>4. \A j \in i..(end - 1) : t[j] \in White /\ j \in 1..Len(t)
    BY <1>2, <1>3
<1>5. \A j \in i..(end - 1) : Scan(t)[j] = Scan(t)[j + 1]
  <2> TAKE j \in i..(end - 1)
  <2>1. j \in 1..Len(t) + 1 /\ ~(j > Len(t)) /\ t[j] \in White
    BY <1>4
  <2> QED
    BY <2>1, ScanUnfolds DEF ScanBody
<1>6. 0 \in T
    OBVIOUS
<1>7. ASSUME NEW d \in Nat, d \in T PROVE d + 1 \in T
  <2> SUFFICES ASSUME i + (d + 1) <= end PROVE Scan(t)[i + (d + 1)] = Scan(t)[i]
    OBVIOUS
  <2>1. i + d \in i..(end - 1) /\ i + d <= end /\ (i + d) + 1 = i + (d + 1)
    BY <1>3
  <2>2. Scan(t)[i + d] = Scan(t)[i]
    BY <1>7, <2>1
  <2> QED
    BY <1>5, <2>1, <2>2
<1> HIDE DEF T
<1>8. end - i \in T /\ end - i \in Nat
    BY <1>3, <1>6, <1>7, Upward!SetInduction
<1>9. i + (end - i) = end
    BY <1>3
<1> QED
    BY <1>8, <1>9 DEF T, end

\* The tokens of a text.
TokenFrom(t, i) == Token(TokenAt(t, i)[1], SubSeq(t, i, TokenAt(t, i)[2] - 1))
Lexed(t) == {TokenFrom(t, i) : i \in {j \in 1..Len(t) : TokenAt(t, j)[2] # 0}}

\* The token of type "*" is the star: the text stored for select_all.
LEMMA LexedTypes ==
    ASSUME NEW t \in Seq(Bytes), NEW token \in Lexed(t), token.type = "*"
    PROVE  token.text = <<"*">>
<1>1. PICK i \in 1..Len(t) : TokenAt(t, i)[2] # 0 /\ token = TokenFrom(t, i)
    BY DEF Lexed
<1>2. TokenAt(t, i)[1] = "*"
    BY <1>1 DEF TokenFrom, Token
<1> DEFINE name == EndOf(t, i, NameBytes)
           number == EndOf(t, i + 1, DigitBytes)
           quote == ClosingQuote(t, i)
           Starred(found) == found[1] = "*" => found = <<t[i], i + 1>>
<1>4. TokenAt(t, i) =
        CASE t[i] \in Letters \cup {"_"} -> <<"identifier", name>>
          [] t[i] = QUOTE -> <<"string", IF quote = 0 THEN 0 ELSE quote + 1>>
          [] NumberStart(t, i) -> <<"number", number>>
          [] t[i] \in Symbols -> <<t[i], i + 1>>
          [] OTHER -> <<"none", 0>>
    BY DEF TokenAt
<1> HIDE DEF name, number, quote
<1>5. /\ Starred(<<"identifier", name>>)
      /\ Starred(<<"string", IF quote = 0 THEN 0 ELSE quote + 1>>)
      /\ Starred(<<"number", number>>)
      /\ Starred(<<t[i], i + 1>>)
      /\ Starred(<<"none", 0>>)
  <2>1. \A a, b : <<a, b>>[1] = a
    OBVIOUS
  <2>2. "identifier" # "*" /\ "string" # "*" /\ "number" # "*" /\ "none" # "*"
    OBVIOUS
  <2> QED
    BY <2>1, <2>2, Zenon
<1> HIDE DEF Starred
<1>6. Starred(TokenAt(t, i))
    BY <1>4, <1>5, Zenon
<1>7. TokenAt(t, i) = <<"*", i + 1>> /\ t[i] = "*"
    BY <1>2, <1>6 DEF Starred
<1>8. token.text = SubSeq(t, i, i)
    BY <1>1, <1>7 DEF TokenFrom, Token
<1>9. SubSeq(t, i, i) = <<t[i]>>
  <2> DEFINE s == SubSeq(t, i, i)
  <2>1. s \in Seq(Bytes) /\ Len(s) = 1 /\ s[1] = t[i]
    BY SubSeqProperties
  <2> HIDE DEF s
  <2>2. s = [k \in 1..1 |-> s[k]]
    BY <2>1
  <2>3. <<t[i]>> = [k \in 1..1 |-> t[i]]
    OBVIOUS
  <2>4. s = <<t[i]>>
    BY <2>1, <2>2, <2>3
  <2> QED
    BY <2>4 DEF s
<1> QED
    BY <1>7, <1>8, <1>9

\* What is scanned from any place on is a list of tokens of the text.
LEMMA ScanType ==
    ASSUME NEW t \in Seq(Bytes)
    PROVE  \A i \in 1..Len(t) + 1 :
                \/ Scan(t)[i] = Refused
                \/ /\ Scan(t)[i].ok = TRUE
                   /\ Scan(t)[i].tokens \in Seq(Lexed(t))
                   /\ Scan(t)[i] = [ok |-> TRUE, tokens |-> Scan(t)[i].tokens]
<1> DEFINE n == Len(t)
           Good(r) == \/ r = Refused
                      \/ /\ r.ok = TRUE
                         /\ r.tokens \in Seq(Lexed(t))
                         /\ r = [ok |-> TRUE, tokens |-> r.tokens]
           T == {d \in Nat : \A i \in 1..n + 1 : i >= n + 1 - d => Good(Scan(t)[i])}
<1>0. \A list \in Seq(Lexed(t)) : Good([ok |-> TRUE, tokens |-> list])
  OBVIOUS
<1>1. Good(Refused)
  OBVIOUS
<1>1a. <<>> \in Seq(Lexed(t))
  OBVIOUS
<1> HIDE DEF Good
<1>2a. ASSUME NEW i \in 1..n + 1, i > n PROVE Good(Scan(t)[i])
  <2>1. Scan(t)[i] = ScanBody(t, Scan(t), i)
    BY ScanUnfolds
  <2>2. Scan(t)[i] = [ok |-> TRUE, tokens |-> <<>>]
    BY <1>2a, <2>1, Zenon DEF ScanBody
  <2> QED
    BY <2>2, <1>0, <1>1a
<1>2. 0 \in T
  <2> SUFFICES ASSUME NEW i \in 1..n + 1, i >= n + 1 - 0 PROVE Good(Scan(t)[i])
    OBVIOUS
  <2>1. i > n
    OBVIOUS
  <2> QED
    BY <2>1, <1>2a
<1>3. ASSUME NEW d \in Nat, d \in T PROVE d + 1 \in T
  <2> SUFFICES ASSUME NEW i \in 1..n + 1, i >= n + 1 - (d + 1) PROVE Good(Scan(t)[i])
    OBVIOUS
  <2>1. CASE i > n
    BY <2>1, <1>2a
  <2>2. CASE ~(i > n)
    <3>1. \A j \in (i + 1)..(n + 1) : Good(Scan(t)[j])
      BY <1>3
    <3> DEFINE next == TokenAt(t, i)[2]
               rest == Scan(t)[next]
    <3>2. next \in {0} \cup (i + 1)..(n + 1) /\ i \in 1..n /\ i + 1 \in (i + 1)..(n + 1)
      BY <2>2, TokenGoesOn
    <3>3. next # 0 => Good(rest) /\ TokenFrom(t, i) \in Lexed(t)
      BY <3>1, <3>2 DEF Lexed
    <3>4. Scan(t)[i] = ScanBody(t, Scan(t), i)
      BY ScanUnfolds
    <3>5. \/ Scan(t)[i] = Scan(t)[i + 1]
          \/ Scan(t)[i] = Refused
          \/ /\ next # 0 /\ rest.ok
             /\ Scan(t)[i] = [ok |-> TRUE, tokens |-> <<TokenFrom(t, i)>> \o rest.tokens]
      BY <2>2, <3>4, Zenon DEF ScanBody, TokenFrom
    <3> HIDE DEF next, rest
    <3>6. CASE next # 0 /\ rest.ok
      <4>1. rest.tokens \in Seq(Lexed(t))
        BY <3>3, <3>6 DEF Good, Refused
      <4>2. <<TokenFrom(t, i)>> \o rest.tokens \in Seq(Lexed(t))
        BY <3>3, <3>6, <4>1
      <4> QED
        BY <3>1, <3>2, <3>5, <4>2, <1>0, <1>1
    <3> QED
      BY <3>1, <3>2, <3>5, <3>6, <1>1
  <2> QED
    BY <2>1, <2>2
<1> HIDE DEF T
<1>4. n \in T
  BY <1>2, <1>3, Upward!SetInduction
<1>5. \A i \in 1..n + 1 : Good(Scan(t)[i])
  BY <1>4 DEF T
<1> QED
  BY <1>5 DEF Good

\* What the text from a place on yields, by the token that comes next.
LEMMA ScanNext ==
    ASSUME NEW t \in Seq(Bytes), NEW i \in 1..Len(t) + 1
    PROVE  LET s == EndOf(t, i, White)
               next == TokenAt(t, s)[2]
           IN  /\ s > Len(t) => Scan(t)[i] = [ok |-> TRUE, tokens |-> <<>>]
               /\ s <= Len(t) /\ (next = 0 \/ next - s >= TOKEN_SIZE) => Scan(t)[i] = Refused
               /\ s <= Len(t) /\ next # 0 /\ ~(next - s >= TOKEN_SIZE) =>
                    Scan(t)[i] =
                        IF Scan(t)[next].ok
                        THEN [ok |-> TRUE, tokens |-> <<TokenFrom(t, s)>> \o Scan(t)[next].tokens]
                        ELSE Refused
<1> DEFINE s == EndOf(t, i, White)
           next == TokenAt(t, s)[2]
           S == {j \in i..Len(t) : t[j] \notin White} \cup {Len(t) + 1}
<1>1. S \in SUBSET Nat /\ S # {}
    OBVIOUS
<1>2. s \in S
    BY <1>1, MinIsLeast DEF EndOf
<1>3. s \in 1..Len(t) + 1 /\ (s <= Len(t) => t[s] \notin White /\ ~(s > Len(t)))
    BY <1>2
<1>4. Scan(t)[i] = Scan(t)[s]
    BY ScanSkipsBlanks
<1>5. Scan(t)[s] = ScanBody(t, Scan(t), s)
    BY <1>3, ScanUnfolds
<1> HIDE DEF s
<1>6. s > Len(t) => Scan(t)[i] = [ok |-> TRUE, tokens |-> <<>>]
    BY <1>4, <1>5, Zenon DEF ScanBody
<1>7. s <= Len(t) /\ (next = 0 \/ next - s >= TOKEN_SIZE) => Scan(t)[i] = Refused
    BY <1>3, <1>4, <1>5, Zenon DEF ScanBody
<1>8. s <= Len(t) /\ next # 0 /\ ~(next - s >= TOKEN_SIZE) =>
                    Scan(t)[i] =
                        IF Scan(t)[next].ok
                        THEN [ok |-> TRUE, tokens |-> <<TokenFrom(t, s)>> \o Scan(t)[next].tokens]
                        ELSE Refused
    BY <1>3, <1>4, <1>5, Zenon DEF ScanBody, TokenFrom
<1> QED
    BY <1>6, <1>7, <1>8 DEF s

\* How parse_sql returns.
Returned == {"accepted", "rejected", "failed"}

\* What has been scanned and what is left make up the tokens of the text.
Rest == Scan(text)[at]
Scanned ==
    /\ tokens \in Seq(Lexed(text))
    /\ pc = "scan" =>
        Tokenize(text) = IF Rest.ok THEN [ok |-> TRUE, tokens |-> tokens \o Rest.tokens]
                         ELSE Refused
    /\ pc \notin Returned \cup {"scan"} => Tokenize(text) = [ok |-> TRUE, tokens |-> tokens]

LEMMA RestType ==
    ASSUME Typed
    PROVE  \/ Rest = Refused
           \/ /\ Rest.ok = TRUE /\ Rest.tokens \in Seq(Lexed(text))
              /\ Rest = [ok |-> TRUE, tokens |-> Rest.tokens]
BY ScanType DEF Typed, Rest

\* Scanned holds at first and after every step of tokenize_sql.
LEMMA ScannedInit == Init => Scanned
<1> SUFFICES ASSUME Init PROVE Scanned
    OBVIOUS
<1>1. Typed
    BY InitInv DEF IInv
<1>2. tokens = <<>> /\ pc = "scan" /\ at = 1
    BY DEF Init, ParserInit
<1>3. tokens \in Seq(Lexed(text))
    BY <1>2
<1>4. Tokenize(text) = Rest
    BY <1>2, TokenizeIsScan DEF Rest
<1>5. CASE Rest = Refused
  <2>1. ~Rest.ok
    BY <1>5 DEF Refused
  <2> QED
    BY <1>2, <1>3, <1>4, <1>5, <2>1 DEF Scanned
<1>6. CASE /\ Rest.ok = TRUE /\ Rest.tokens \in Seq(Lexed(text))
           /\ Rest = [ok |-> TRUE, tokens |-> Rest.tokens]
  <2>1. tokens \o Rest.tokens = Rest.tokens
    BY <1>2, <1>6, ConcatEmptySeq
  <2> QED
    BY <1>2, <1>3, <1>4, <1>6, <2>1, Zenon DEF Scanned
<1> QED
    BY <1>1, <1>5, <1>6, RestType

LEMMA TokenIsMoved ==
    ASSUME NEW E, NEW p \in Seq(E), NEW e \in E, NEW q \in Seq(E)
    PROVE  p \o (<<e>> \o q) = Append(p, e) \o q
<1>1. <<e>> \in Seq(E)
    OBVIOUS
<1>2. (p \o <<e>>) \o q = p \o (<<e>> \o q)
    BY <1>1, ConcatAssociative
<1>3. Append(p, e) = p \o <<e>>
    BY AppendIsConcat
<1> QED
    BY <1>2, <1>3

LEMMA ScanTokenScanned == ASSUME Typed, Scanned, ScanToken PROVE Scanned'
<1> DEFINE token == TokenFrom(text, Start)
           next == Found[2]
           later == Scan(text)[next]
<1>0. /\ text \in Seq(Bytes) /\ at \in 1..Len(text) + 1 /\ Len(text) \in Nat
      /\ Start <= Len(text) /\ next # 0 /\ ~(next - Start >= TOKEN_SIZE)
      /\ Start \in 1..Len(text)
  <2>1. text \in Seq(Bytes) /\ at \in 1..Len(text) + 1 /\ Len(text) \in Nat
    BY DEF Typed
  <2>2. Start \in 1..Len(text) + 1
    BY <2>1, EndOfIsInText DEF Start
  <2>3. Start <= Len(text) /\ Start \in 1..Len(text)
    BY <2>1, <2>2 DEF ScanToken, Tokenized
  <2>4. next \in Nat /\ next # 0
    BY <2>1, <2>3, TokenGoesOn DEF ScanToken, Acceptable, Found
  <2>5. next - Start < TOKEN_SIZE
    BY DEF ScanToken, Acceptable
  <2>6. ~(next - Start >= TOKEN_SIZE)
    BY <2>3, <2>4, <2>5, TokenHasRoom
  <2> QED
    BY <2>1, <2>3, <2>4, <2>6
<1>1. Rest = IF later.ok THEN [ok |-> TRUE, tokens |-> <<token>> \o later.tokens] ELSE Refused
    BY <1>0, ScanNext DEF Rest, Start, Found
<1>2. /\ tokens' = Append(tokens, token) /\ at' = next /\ UNCHANGED <<text, pc>> /\ pc = "scan"
    BY DEF ScanToken, TokenFrom, Found
<1>3. token \in Lexed(text) /\ next \in 1..Len(text) + 1
    BY <1>0, TokenGoesOn DEF Lexed, Found
<1>4. Rest' = later
    BY <1>2 DEF Rest
<1>5. \/ later = Refused
      \/ later.ok = TRUE /\ later.tokens \in Seq(Lexed(text))
    BY <1>0, <1>3, ScanType
<1>6. Tokenize(text) = IF Rest.ok THEN [ok |-> TRUE, tokens |-> tokens \o Rest.tokens] ELSE Refused
    BY <1>2 DEF Scanned
<1>7. tokens \in Seq(Lexed(text))
    BY DEF Scanned
<1> HIDE DEF token, next, later
<1>8. tokens' \in Seq(Lexed(text))
    BY <1>2, <1>3, <1>7
<1>9. Tokenize(text) = IF later.ok THEN [ok |-> TRUE, tokens |-> tokens' \o later.tokens]
                       ELSE Refused
  <2>1. CASE ~later.ok
    <3>1. Rest = Refused
      BY <1>1, <2>1
    <3>2. ~Rest.ok
      BY <3>1 DEF Refused
    <3> QED
      BY <1>6, <2>1, <3>2
  <2>2. CASE later.ok
    <3>1. later.tokens \in Seq(Lexed(text))
      BY <1>5, <2>2 DEF Refused
    <3>2. Rest.ok /\ Rest.tokens = <<token>> \o later.tokens
      BY <1>1, <2>2
    <3>3. tokens \o (<<token>> \o later.tokens) = Append(tokens, token) \o later.tokens
      <4> DEFINE E == Lexed(text)
                 q == later.tokens
      <4>1. token \in E /\ tokens \in Seq(E) /\ q \in Seq(E)
        BY <1>3, <1>7, <3>1
      <4> HIDE DEF E, q
      <4>2. tokens \o (<<token>> \o q) = Append(tokens, token) \o q
        BY <4>1, TokenIsMoved
      <4> QED
        BY <4>2 DEF q
    <3>4. tokens' = Append(tokens, token)
      BY <1>2
    <3>5. tokens \o Rest.tokens = tokens' \o later.tokens
      BY <3>2, <3>3, <3>4, Zenon
    <3> QED
      BY <1>6, <2>2, <3>2, <3>5, Zenon
  <2> QED
    BY <2>1, <2>2
<1> QED
    BY <1>2, <1>4, <1>8, <1>9 DEF Scanned

LEMMA ScanEndsScanned == ASSUME Typed, Scanned, ScanEnds PROVE Scanned'
<1>1. text \in Seq(Bytes) /\ at \in 1..Len(text) + 1 /\ Start > Len(text)
    BY DEF Typed, ScanEnds, Tokenized
<1>2. Rest = [ok |-> TRUE, tokens |-> <<>>]
    BY <1>1, ScanNext DEF Rest, Start
<1>3. tokens \in Seq(Lexed(text)) /\ UNCHANGED <<text, tokens, at>> /\ pc' = "statement"
      /\ pc = "scan"
    BY DEF ScanEnds, Scanned
<1>4. tokens \o Rest.tokens = tokens /\ Rest.ok = TRUE
    BY <1>2, <1>3, ConcatEmptySeq
<1>5. Tokenize(text) = [ok |-> TRUE, tokens |-> tokens]
    BY <1>3, <1>4 DEF Scanned
<1> QED
    BY <1>3, <1>5 DEF Scanned, Returned

\* A text that cannot be scanned is no sentence.
LEMMA ScanFailsRefused == ASSUME Typed, Scanned, ScanFails PROVE Sentence(text) = {}
<1>0. /\ text \in Seq(Bytes) /\ at \in 1..Len(text) + 1
      /\ Start <= Len(text) /\ (Found[2] = 0 \/ Found[2] - Start >= TOKEN_SIZE)
  <2>1. text \in Seq(Bytes) /\ at \in 1..Len(text) + 1 /\ Len(text) \in Nat
    BY DEF Typed
  <2>2. Start \in 1..Len(text) + 1
    BY <2>1, EndOfIsInText DEF Start
  <2>3. Start <= Len(text) /\ Start \in 1..Len(text)
    BY <2>1, <2>2 DEF ScanFails, Tokenized
  <2>4. Found[2] \in Nat
    BY <2>1, <2>3, TokenGoesOn DEF Found
  <2>5. Found[2] = 0 \/ ~(Found[2] - Start < TOKEN_SIZE)
    BY DEF ScanFails, Acceptable
  <2>6. Found[2] = 0 \/ Found[2] - Start >= TOKEN_SIZE
    BY <2>3, <2>4, <2>5, TokenHasRoom
  <2> QED
    BY <2>1, <2>3, <2>6
<1>1. Rest = Refused
    BY <1>0, ScanNext DEF Rest, Start, Found
<1>2. Tokenize(text) = Refused /\ ~Refused.ok
    BY <1>1 DEF Scanned, ScanFails, Refused
<1> QED
    BY <1>2, Zenon DEF Sentence

-----------------------------------------------------------------------------
(* A command under way *)

\* The first i tokens of T have been read, place is what the parser expects next,
\* and d is the draft.  Of an INSERT: its head, word by word,
InsertIs(T) == IsWord(T[1], "INSERT")
IntoIs(T) == InsertIs(T) /\ IsWord(T[2], "INTO")
InsertTableIs(T) == IntoIs(T) /\ IsName(T[3])
ValuesWordIs(T) == InsertTableIs(T) /\ IsWord(T[4], "VALUES")
HeadIs(T) == ValuesWordIs(T) /\ T[5].type = "("
InHead(T, place, i, d) ==
    \/ place = "into" /\ i = 1 /\ InsertIs(T) /\ d = InsertCommand(<<>>, <<>>)
    \/ place = "insert table" /\ i = 2 /\ IntoIs(T) /\ d = InsertCommand(<<>>, <<>>)
    \/ place = "values" /\ i = 3 /\ InsertTableIs(T) /\ d = InsertCommand(T[3].text, <<>>)
    \/ place = "open" /\ i = 4 /\ ValuesWordIs(T) /\ d = InsertCommand(T[3].text, <<>>)

\* then the list of values, n of them so far.
ReadValues(T, n) == [k \in 1..n |-> T[4 + 2 * k].text]
ValuesAre(T, n) ==
    /\ HeadIs(T)
    /\ \A k \in 1..n : IsValue(T[4 + 2 * k])
    /\ \A k \in 1..n - 1 : T[5 + 2 * k].type = ","
InValues(T, place, i, d, n) ==
    /\ ValuesAre(T, n)
    /\ d = InsertCommand(T[3].text, ReadValues(T, n))
    /\ \/ place = "value" /\ i = 5 + 2 * n /\ (n > 0 => T[5 + 2 * n].type = ",")
       \/ place = "separator" /\ i = 4 + 2 * n /\ n > 0
       \/ place = "end" /\ i = 5 + 2 * n /\ n > 0 /\ T[5 + 2 * n].type = ")"
       \/ /\ place = "last" /\ i = 6 + 2 * n /\ n > 0 /\ T[5 + 2 * n].type = ")"
          /\ T[6 + 2 * n].type = ";"
InsertUnderWay(T, place, i, d) ==
    \/ InHead(T, place, i, d)
    \/ \E n \in Nat : n <= MAX_COLUMNS /\ InValues(T, place, i, d, n)

\* Of a SELECT: the list of columns, n of them so far,
ReadColumns(T, n) == [k \in 1..n |-> T[2 * k].text]
NamesAre(T, n) ==
    /\ IsWord(T[1], "SELECT")
    /\ \A k \in 1..n : IsName(T[2 * k])
    /\ \A k \in 1..n - 1 : T[2 * k + 1].type = ","
StarIs(T) == IsWord(T[1], "SELECT") /\ T[2].type = "*"
InList(T, place, i, d, n) ==
    /\ d = SelectCommand(<<>>, ReadColumns(T, n), <<>>)
    /\ \/ place = "columns" /\ i = 1 /\ n = 0 /\ NamesAre(T, 0)
       \/ place = "from" /\ i = 2 /\ n = 1 /\ StarIs(T)
       \/ place = "comma" /\ i = 2 * n /\ n > 0 /\ NamesAre(T, n)
       \/ place = "column" /\ i = 2 * n + 1 /\ n > 0 /\ NamesAre(T, n) /\ T[2 * n + 1].type = ","
\* then the table and the condition.
FromIs(T, n) ==
    /\ n > 0
    /\ NamesAre(T, n) \/ (n = 1 /\ StarIs(T))
    /\ IsWord(T[2 * n + 1], "FROM")
TableIs(T, n) == FromIs(T, n) /\ IsName(T[2 * n + 2])
WhereIs(T, n) == TableIs(T, n) /\ IsWord(T[2 * n + 3], "WHERE")
ColumnIs(T, n) == WhereIs(T, n) /\ IsName(T[2 * n + 4])
EqualIs(T, n) == ColumnIs(T, n) /\ T[2 * n + 5].type = "="
ConditionIs(T, n) == EqualIs(T, n) /\ IsValue(T[2 * n + 6])
ReadSelect(T, n, where) == SelectCommand(T[2 * n + 2].text, ReadColumns(T, n), where)
ReadWhereColumn(T, n) == ReadSelect(T, n, <<T[2 * n + 4].text>>)
ReadCondition(T, n) == ReadSelect(T, n, <<T[2 * n + 4].text, T[2 * n + 6].text>>)
InTail(T, place, i, d, n) ==
    \/ /\ place = "select table" /\ i = 2 * n + 1 /\ FromIs(T, n)
       /\ d = SelectCommand(<<>>, ReadColumns(T, n), <<>>)
    \/ place = "where" /\ i = 2 * n + 2 /\ TableIs(T, n) /\ d = ReadSelect(T, n, <<>>)
    \/ place = "where column" /\ i = 2 * n + 3 /\ WhereIs(T, n) /\ d = ReadSelect(T, n, <<>>)
    \/ place = "equal" /\ i = 2 * n + 4 /\ ColumnIs(T, n) /\ d = ReadWhereColumn(T, n)
    \/ place = "where value" /\ i = 2 * n + 5 /\ EqualIs(T, n) /\ d = ReadWhereColumn(T, n)
    \/ place = "end" /\ i = 2 * n + 6 /\ ConditionIs(T, n) /\ d = ReadCondition(T, n)
    \/ /\ place = "last" /\ i = 2 * n + 3 /\ TableIs(T, n) /\ d = ReadSelect(T, n, <<>>)
       /\ T[2 * n + 3].type = ";"
    \/ /\ place = "last" /\ i = 2 * n + 7 /\ ConditionIs(T, n) /\ d = ReadCondition(T, n)
       /\ T[2 * n + 7].type = ";"
SelectUnderWay(T, place, i, d) ==
    \E n \in Nat :
        n <= MAX_COLUMNS /\ (InList(T, place, i, d, n) \/ InTail(T, place, i, d, n))

UnderWay(T, place, i, d) ==
    \/ place = "statement" /\ i = 0 /\ d = NoCommand
    \/ InsertUnderWay(T, place, i, d)
    \/ SelectUnderWay(T, place, i, d)

\* One more value or column is the list with it appended.
LEMMA ReadOneMore ==
    ASSUME NEW T, NEW n \in Nat
    PROVE  /\ ReadValues(T, n + 1) = Append(ReadValues(T, n), T[4 + 2 * (n + 1)].text)
           /\ ReadColumns(T, n + 1) = Append(ReadColumns(T, n), T[2 * (n + 1)].text)
           /\ Len(ReadValues(T, n)) = n /\ Len(ReadColumns(T, n)) = n
<1>1. ASSUME NEW f, DOMAIN f = 1..(n + 1), f = [k \in 1..(n + 1) |-> f[k]]
      PROVE  f = Append([k \in 1..n |-> f[k]], f[n + 1]) /\ Len([k \in 1..n |-> f[k]]) = n
  <2> DEFINE g == [k \in 1..n |-> f[k]]
             E == {f[k] : k \in 1..(n + 1)}
  <2>1. g \in Seq(E) /\ Len(g) = n /\ f[n + 1] \in E
    OBVIOUS
  <2>2. \A k \in 1..n : g[k] = f[k]
    OBVIOUS
  <2> HIDE DEF g
  <2>3. Append(g, f[n + 1]) = [k \in 1..(n + 1) |-> IF k = n + 1 THEN f[n + 1] ELSE g[k]]
    BY <2>1
  <2>4. Append(g, f[n + 1]) = [k \in 1..(n + 1) |-> f[k]]
    BY <2>2, <2>3
  <2> QED
    BY <1>1, <2>1, <2>4 DEF g
<1>2. /\ ReadValues(T, n) = [k \in 1..n |-> ReadValues(T, n + 1)[k]]
      /\ ReadColumns(T, n) = [k \in 1..n |-> ReadColumns(T, n + 1)[k]]
    BY DEF ReadValues, ReadColumns
<1>3. /\ DOMAIN ReadValues(T, n + 1) = 1..(n + 1)
      /\ ReadValues(T, n + 1) = [k \in 1..(n + 1) |-> ReadValues(T, n + 1)[k]]
      /\ DOMAIN ReadColumns(T, n + 1) = 1..(n + 1)
      /\ ReadColumns(T, n + 1) = [k \in 1..(n + 1) |-> ReadColumns(T, n + 1)[k]]
    BY DEF ReadValues, ReadColumns
<1>4. /\ ReadValues(T, n + 1)[n + 1] = T[4 + 2 * (n + 1)].text
      /\ ReadColumns(T, n + 1)[n + 1] = T[2 * (n + 1)].text
    BY DEF ReadValues, ReadColumns
<1>5. ReadValues(T, n + 1) = Append(ReadValues(T, n), T[4 + 2 * (n + 1)].text)
      /\ Len(ReadValues(T, n)) = n
    BY <1>1, <1>2, <1>3, <1>4
<1>6. ReadColumns(T, n + 1) = Append(ReadColumns(T, n), T[2 * (n + 1)].text)
      /\ Len(ReadColumns(T, n)) = n
    BY <1>1, <1>2, <1>3, <1>4
<1> QED
    BY <1>5, <1>6

LEMMA ReadNone == ASSUME NEW T PROVE ReadValues(T, 0) = <<>> /\ ReadColumns(T, 0) = <<>>
BY DEF ReadValues, ReadColumns

\* A draft with one more part.
LEMMA DraftedMore ==
    /\ \A t, v, x : [InsertCommand(t, v) EXCEPT !.table = x] = InsertCommand(x, v)
    /\ \A t, v, x : [InsertCommand(t, v) EXCEPT !.values = x] = InsertCommand(t, x)
    /\ \A t, c, w, x : [SelectCommand(t, c, w) EXCEPT !.table = x] = SelectCommand(x, c, w)
    /\ \A t, c, w, x : [SelectCommand(t, c, w) EXCEPT !.columns = x] = SelectCommand(t, x, w)
    /\ \A t, c, w, x : [SelectCommand(t, c, w) EXCEPT !.where = x] = SelectCommand(t, c, x)
    /\ \A t, v : InsertCommand(t, v).values = v /\ InsertCommand(t, v).kind = "insert"
    /\ \A t, c, w : SelectCommand(t, c, w).columns = c /\ SelectCommand(t, c, w).where = w
                    /\ SelectCommand(t, c, w).kind = "select"
<1>3. \A t, v, x : [InsertCommand(t, v) EXCEPT !.table = x] = InsertCommand(x, v)
    BY DEF InsertCommand
<1>4. \A t, v, x : [InsertCommand(t, v) EXCEPT !.values = x] = InsertCommand(t, x)
    BY DEF InsertCommand
<1>5. \A t, c, w, x : [SelectCommand(t, c, w) EXCEPT !.table = x] = SelectCommand(x, c, w)
    BY DEF SelectCommand
<1>6. \A t, c, w, x : [SelectCommand(t, c, w) EXCEPT !.columns = x] = SelectCommand(t, x, w)
    BY DEF SelectCommand
<1>7. \A t, c, w, x : [SelectCommand(t, c, w) EXCEPT !.where = x] = SelectCommand(t, c, x)
    BY DEF SelectCommand
<1>8. \A t, v : InsertCommand(t, v).values = v /\ InsertCommand(t, v).kind = "insert"
    BY DEF InsertCommand
<1>9. \A t, c, w : SelectCommand(t, c, w).columns = c /\ SelectCommand(t, c, w).where = w
                   /\ SelectCommand(t, c, w).kind = "select"
    BY DEF SelectCommand
<1> QED
    BY <1>3, <1>4, <1>5, <1>6, <1>7, <1>8, <1>9

LEMMA MaxColumns == MAX_COLUMNS \in Nat /\ MAX_COLUMNS > 0
BY CodecConstants

\* Up to the parenthesis.
LEMMA HeadIsRead ==
    ASSUME NEW T, NEW i \in Nat, NEW d
    PROVE  /\ IsWord(T[1], "INSERT") => InsertUnderWay(T, "into", 1, InsertCommand(<<>>, <<>>))
           /\ InsertUnderWay(T, "into", i, d) /\ IsWord(T[i + 1], "INTO") =>
                InsertUnderWay(T, "insert table", i + 1, d)
           /\ InsertUnderWay(T, "insert table", i, d) /\ IsName(T[i + 1]) =>
                InsertUnderWay(T, "values", i + 1, [d EXCEPT !.table = T[i + 1].text])
           /\ InsertUnderWay(T, "values", i, d) /\ IsWord(T[i + 1], "VALUES") =>
                InsertUnderWay(T, "open", i + 1, d)
           /\ InsertUnderWay(T, "open", i, d) /\ T[i + 1].type = "(" =>
                InsertUnderWay(T, "value", i + 1, d)
<1>1. \A place \in {"into", "insert table", "values", "open"} :
            InsertUnderWay(T, place, i, d) => InHead(T, place, i, d)
    BY DEF InsertUnderWay, InValues
<1>2. IsWord(T[1], "INSERT") => InsertUnderWay(T, "into", 1, InsertCommand(<<>>, <<>>))
    BY DEF InsertUnderWay, InHead, InsertIs
<1>3. ASSUME InsertUnderWay(T, "into", i, d), IsWord(T[i + 1], "INTO")
      PROVE  InsertUnderWay(T, "insert table", i + 1, d)
  <2>1. i = 1 /\ InsertIs(T) /\ d = InsertCommand(<<>>, <<>>)
    BY <1>1, <1>3 DEF InHead
  <2>2. i + 1 = 2
    BY <2>1
  <2> QED
    BY <1>3, <2>1, <2>2 DEF InsertUnderWay, InHead, IntoIs
<1>4. ASSUME InsertUnderWay(T, "insert table", i, d), IsName(T[i + 1])
      PROVE  InsertUnderWay(T, "values", i + 1, [d EXCEPT !.table = T[i + 1].text])
  <2>1. i = 2 /\ IntoIs(T) /\ d = InsertCommand(<<>>, <<>>)
    BY <1>1, <1>4 DEF InHead
  <2>2. i + 1 = 3
    BY <2>1
  <2>3. [d EXCEPT !.table = T[3].text] = InsertCommand(T[3].text, <<>>)
    BY <2>1, DraftedMore
  <2>4. InHead(T, "values", 3, [d EXCEPT !.table = T[3].text])
    BY <1>4, <2>1, <2>2, <2>3 DEF InHead, InsertTableIs
  <2> QED
    BY <2>2, <2>4 DEF InsertUnderWay
<1>5. ASSUME InsertUnderWay(T, "values", i, d), IsWord(T[i + 1], "VALUES")
      PROVE  InsertUnderWay(T, "open", i + 1, d)
  <2>1. i = 3 /\ InsertTableIs(T) /\ d = InsertCommand(T[3].text, <<>>)
    BY <1>1, <1>5 DEF InHead
  <2>2. i + 1 = 4
    BY <2>1
  <2> QED
    BY <1>5, <2>1, <2>2 DEF InsertUnderWay, InHead, ValuesWordIs
<1>6. ASSUME InsertUnderWay(T, "open", i, d), T[i + 1].type = "("
      PROVE  InsertUnderWay(T, "value", i + 1, d)
  <2>1. i = 4 /\ ValuesWordIs(T) /\ d = InsertCommand(T[3].text, <<>>)
    BY <1>1, <1>6 DEF InHead
  <2>2. i + 1 = 5 /\ 0 \in Nat /\ 0 <= MAX_COLUMNS
    BY <2>1, MaxColumns
  <2>3. HeadIs(T)
    BY <1>6, <2>1, <2>2 DEF HeadIs
  <2>4. InValues(T, "value", 5, d, 0)
    BY <2>1, <2>3, ReadNone DEF InValues, ValuesAre
  <2> QED
    BY <2>2, <2>4 DEF InsertUnderWay
<1> QED
    BY <1>2, <1>3, <1>4, <1>5, <1>6

\* The values, and what follows them.
LEMMA ValueIsAdded ==
    ASSUME NEW T, NEW i \in Nat, NEW d, InsertUnderWay(T, "value", i, d), IsValue(T[i + 1]),
           Len(d.values) < MAX_COLUMNS
    PROVE  InsertUnderWay(T, "separator", i + 1, [d EXCEPT !.values = Append(@, T[i + 1].text)])
<1>1. PICK n \in Nat : n <= MAX_COLUMNS /\ InValues(T, "value", i, d, n)
    BY DEF InsertUnderWay, InHead
<1>2. /\ ValuesAre(T, n) /\ d = InsertCommand(T[3].text, ReadValues(T, n)) /\ i = 5 + 2 * n
      /\ n > 0 => T[5 + 2 * n].type = ","
    BY <1>1 DEF InValues
<1>3. n \in Nat /\ n < MAX_COLUMNS
  <2>1. d.values = ReadValues(T, n)
    BY <1>2, DraftedMore
  <2>2. Len(ReadValues(T, n)) = n
    BY MaxColumns, ReadOneMore
  <2> QED
    BY <2>1, <2>2, MaxColumns
<1>4. n + 1 \in Nat /\ n + 1 <= MAX_COLUMNS /\ i + 1 = 4 + 2 * (n + 1) /\ n + 1 > 0
  <2>1. i = 5 + 2 * n
    BY <1>2
  <2> QED
    BY <2>1, <1>3, MaxColumns
<1>5. [d EXCEPT !.values = Append(@, T[i + 1].text)] =
        InsertCommand(T[3].text, ReadValues(T, n + 1))
  <2>1. d.values = ReadValues(T, n)
    BY <1>2, DraftedMore
  <2>2. Append(d.values, T[i + 1].text) = ReadValues(T, n + 1)
    BY <1>3, <1>4, <2>1, ReadOneMore
  <2>3. \A x : [d EXCEPT !.values = x] = InsertCommand(T[3].text, x)
    <3>1. d = InsertCommand(T[3].text, ReadValues(T, n))
      BY <1>2
    <3> QED
      BY <3>1 DEF InsertCommand
  <2> QED
    BY <2>2, <2>3, Zenon
<1>6. ValuesAre(T, n + 1)
  <2>1. \A k \in 1..n + 1 : k \in 1..n \/ 4 + 2 * k = i + 1
    BY <1>3, <1>4
  <2>2. \A k \in 1..n + 1 : IsValue(T[4 + 2 * k])
    BY <1>2, <2>1 DEF ValuesAre
  <2>3. \A k \in 1..(n + 1) - 1 : k \in 1..n - 1 \/ (k = n /\ n > 0)
    BY <1>3
  <2>4. \A k \in 1..(n + 1) - 1 : T[5 + 2 * k].type = ","
    BY <1>2, <2>3 DEF ValuesAre
  <2> QED
    BY <1>2, <2>2, <2>4 DEF ValuesAre
<1>7. InValues(T, "separator", i + 1, InsertCommand(T[3].text, ReadValues(T, n + 1)), n + 1)
    BY <1>4, <1>6 DEF InValues
<1> QED
    BY <1>4, <1>5, <1>7 DEF InsertUnderWay

LEMMA ValuesAreRead ==
    ASSUME NEW T, NEW i \in Nat, NEW d
    PROVE  /\ InsertUnderWay(T, "separator", i, d) /\ T[i + 1].type = "," =>
                InsertUnderWay(T, "value", i + 1, d)
           /\ InsertUnderWay(T, "separator", i, d) /\ T[i + 1].type = ")" =>
                InsertUnderWay(T, "end", i + 1, d)
           /\ InsertUnderWay(T, "end", i, d) /\ T[i + 1].type = ";" =>
                InsertUnderWay(T, "last", i + 1, d)
<1>1. \A place \in {"separator", "end"} : InsertUnderWay(T, place, i, d) =>
            \E n \in Nat : n <= MAX_COLUMNS /\ InValues(T, place, i, d, n)
    BY DEF InsertUnderWay, InHead
<1>2. ASSUME InsertUnderWay(T, "separator", i, d)
      PROVE  /\ T[i + 1].type = "," => InsertUnderWay(T, "value", i + 1, d)
             /\ T[i + 1].type = ")" => InsertUnderWay(T, "end", i + 1, d)
  <2>1. PICK n \in Nat : n <= MAX_COLUMNS /\ InValues(T, "separator", i, d, n)
    BY <1>1, <1>2
  <2>2. i = 4 + 2 * n /\ n > 0 /\ n \in Nat
    BY <2>1, MaxColumns DEF InValues
  <2>3. i + 1 = 5 + 2 * n
    BY <2>2
  <2>0. n <= MAX_COLUMNS
    BY <2>1
  <2>4. T[i + 1].type = "," => InValues(T, "value", i + 1, d, n)
    BY <2>1, <2>2, <2>3 DEF InValues
  <2>5. T[i + 1].type = ")" => InValues(T, "end", i + 1, d, n)
    BY <2>1, <2>2, <2>3 DEF InValues
  <2> QED
    BY <2>0, <2>2, <2>4, <2>5, Zenon DEF InsertUnderWay
<1>3. ASSUME InsertUnderWay(T, "end", i, d), T[i + 1].type = ";"
      PROVE  InsertUnderWay(T, "last", i + 1, d)
  <2>1. PICK n \in Nat : n <= MAX_COLUMNS /\ InValues(T, "end", i, d, n)
    BY <1>1, <1>3
  <2>2. i = 5 + 2 * n /\ n > 0 /\ n \in Nat
    BY <2>1, MaxColumns DEF InValues
  <2>3. i + 1 = 6 + 2 * n
    BY <2>2
  <2>0. n <= MAX_COLUMNS
    BY <2>1
  <2>4. InValues(T, "last", i + 1, d, n)
    BY <1>3, <2>1, <2>2, <2>3 DEF InValues
  <2> QED
    BY <2>0, <2>2, <2>4, Zenon DEF InsertUnderWay
<1> QED
    BY <1>2, <1>3

-----------------------------------------------------------------------------
(* An INSERT under way and the sentence it begins *)

\* The number of values of a sentence is the number of values read, or greater.
LEMMA ValuesOfSentence ==
    ASSUME NEW T, NEW n \in Nat, NEW m \in Nat, m > 0, ValuesAre(T, n), IsInsert(T, m)
    PROVE  /\ n <= m
           /\ n > 0 /\ T[5 + 2 * n].type = "," => n < m
           /\ n > 0 /\ T[5 + 2 * n].type = ")" => n = m
<1>1. \A k \in 1..m : T[5 + 2 * k].type = IF k = m THEN ")" ELSE ","
    BY DEF IsInsert
<1>2. \A k \in 1..n - 1 : T[5 + 2 * k].type = ","
    BY DEF ValuesAre
<1>3. n <= m
  <2> SUFFICES ASSUME m < n PROVE FALSE
    OBVIOUS
  <2>1. m \in 1..m /\ m \in 1..n - 1
    OBVIOUS
  <2>2. T[5 + 2 * m].type = ")" /\ T[5 + 2 * m].type = ","
    BY <1>1, <1>2, <2>1
  <2> QED
    BY <2>2
<1>4. n > 0 => n \in 1..m
    BY <1>3
<1>5. n > 0 /\ n = m => T[5 + 2 * n].type = ")"
    BY <1>1, <1>4
<1>6. n > 0 /\ n # m => T[5 + 2 * n].type = ","
    BY <1>1, <1>4
<1>7. n > 0 /\ T[5 + 2 * n].type = "," => n < m
  <2>1. n > 0 /\ T[5 + 2 * n].type = "," => n # m
    BY <1>5
  <2>2. n # m => n < m
    BY <1>3
  <2> QED
    BY <2>1, <2>2, Zenon
<1>8. n > 0 /\ T[5 + 2 * n].type = ")" => n = m
    BY <1>6
<1> QED
    BY <1>3, <1>7, <1>8

\* The tokens of an INSERT with m values.
LEMMA LengthOfInsert ==
    ASSUME NEW T, NEW len \in Nat, len = Len(T), NEW m \in Nat, IsInsert(T, m)
    PROVE  \/ len = 5 + 2 * m
           \/ len = 6 + 2 * m /\ T[6 + 2 * m].type = ";"
<1>1. Ends(T, 5 + 2 * m)
    BY DEF IsInsert
<1>2. (5 + 2 * m) + 1 = 6 + 2 * m
    OBVIOUS
<1> QED
    BY <1>1, <1>2 DEF Ends

\* Where an INSERT is a sentence, its next token is what the parser expects.
InsertExpects(T, len, place, i, d) ==
    /\ place = "into" => i < len /\ IsWord(T[i + 1], "INTO")
    /\ place = "insert table" => i < len /\ IsName(T[i + 1])
    /\ place = "values" => i < len /\ IsWord(T[i + 1], "VALUES")
    /\ place = "open" => i < len /\ T[i + 1].type = "("
    /\ place = "value" => i < len /\ IsValue(T[i + 1]) /\ Len(d.values) < MAX_COLUMNS
    /\ place = "separator" => i < len /\ T[i + 1].type \in {",", ")"}
    /\ place = "end" => i = len \/ (i < len /\ T[i + 1].type = ";")
    /\ place = "last" => i = len

LEMMA InsertGoesOn ==
    ASSUME NEW T, NEW len \in Nat, len = Len(T), NEW i \in Nat, i <= len, NEW d, NEW place,
           InsertUnderWay(T, place, i, d), NEW m \in Nat, m > 0, m <= MAX_COLUMNS, IsInsert(T, m)
    PROVE  InsertExpects(T, len, place, i, d)
<1>1. /\ IsWord(T[1], "INSERT") /\ IsWord(T[2], "INTO") /\ IsName(T[3])
      /\ IsWord(T[4], "VALUES") /\ T[5].type = "("
    BY DEF IsInsert
<1>2. \/ len = 5 + 2 * m
      \/ len = 6 + 2 * m /\ T[6 + 2 * m].type = ";"
    BY LengthOfInsert
<1>3. len = 5 + 2 * m \/ len = 6 + 2 * m
    BY <1>2, Zenon
<1>3a. len >= 7
    BY <1>3
<1>4. CASE InHead(T, place, i, d)
  <2>1. \/ place = "into" /\ i = 1
        \/ place = "insert table" /\ i = 2
        \/ place = "values" /\ i = 3
        \/ place = "open" /\ i = 4
    BY <1>4 DEF InHead
  <2>2. i \in {1, 2, 3, 4}
    BY <2>1
  <2>3. i < len
    BY <1>3a, <2>2
  <2>4. /\ i = 1 => i + 1 = 2
        /\ i = 2 => i + 1 = 3
        /\ i = 3 => i + 1 = 4
        /\ i = 4 => i + 1 = 5
    OBVIOUS
  <2> QED
    BY <1>1, <2>1, <2>3, <2>4 DEF InsertExpects
<1>5. ASSUME NEW n \in Nat, n <= MAX_COLUMNS, InValues(T, place, i, d, n)
      PROVE  /\ place \in {"value", "separator", "end", "last"}
             /\ place = "value" => i < len /\ IsValue(T[i + 1]) /\ Len(d.values) < MAX_COLUMNS
             /\ place = "separator" => i < len /\ T[i + 1].type \in {",", ")"}
             /\ place = "end" => i = len \/ (i < len /\ T[i + 1].type = ";")
             /\ place = "last" => i = len
  <2>2. /\ n <= m
        /\ n > 0 /\ T[5 + 2 * n].type = "," => n < m
        /\ n > 0 /\ T[5 + 2 * n].type = ")" => n = m
    BY <1>3, <1>5, ValuesOfSentence DEF InValues
  <2>3. /\ place \in {"value", "separator", "end", "last"}
        /\ place = "value" => i = 5 + 2 * n /\ (n > 0 => T[5 + 2 * n].type = ",")
        /\ place = "separator" => i = 4 + 2 * n /\ n > 0
        /\ place = "end" => i = 5 + 2 * n /\ n > 0 /\ T[5 + 2 * n].type = ")"
        /\ place = "last" => i = 6 + 2 * n /\ n > 0 /\ T[5 + 2 * n].type = ")"
    BY <1>5 DEF InValues
  <2>4. \A k \in 1..m : IsValue(T[4 + 2 * k]) /\ T[5 + 2 * k].type \in {",", ")"}
    BY DEF IsInsert
  <2>5. ASSUME place = "value"
        PROVE  i < len /\ IsValue(T[i + 1]) /\ Len(d.values) < MAX_COLUMNS
    <3>0. i = 5 + 2 * n /\ (n > 0 => n < m)
      BY <2>2, <2>3, <2>5, Zenon
    <3>1. n < m
      BY <3>0
    <3>2. n + 1 \in 1..m /\ i + 1 = 4 + 2 * (n + 1) /\ i < len
      BY <1>3, <3>0, <3>1
    <3>3. Len(d.values) = n
      <4>1. d = InsertCommand(T[3].text, ReadValues(T, n))
        BY <1>5 DEF InValues
      <4>2. d.values = ReadValues(T, n)
        BY <4>1, DraftedMore
      <4> QED
        BY <4>2, ReadOneMore
    <3>4. n < MAX_COLUMNS
      BY <3>1, MaxColumns
    <3>5. IsValue(T[i + 1])
      BY <2>4, <3>2
    <3> QED
      BY <3>2, <3>3, <3>4, <3>5
  <2>6. ASSUME place = "separator"
        PROVE  i < len /\ T[i + 1].type \in {",", ")"}
    <3>0. i = 4 + 2 * n /\ n > 0 /\ n <= m
      BY <2>2, <2>3, <2>6, Zenon
    <3>1. n \in 1..m /\ i + 1 = 5 + 2 * n /\ i < len
      BY <1>3, <3>0
    <3> QED
      BY <2>4, <3>1
  <2>7. ASSUME place = "end"
        PROVE  i = len \/ (i < len /\ T[i + 1].type = ";")
    <3>0. i = 5 + 2 * n /\ n = m
      BY <2>2, <2>3, <2>7, Zenon
    <3>1. i + 1 = 6 + 2 * m /\ (i = len \/ i < len) /\ (i = len \/ len # 5 + 2 * m)
      BY <1>3, <3>0
    <3> QED
      BY <1>2, <3>1
  <2>8. ASSUME place = "last"
        PROVE  i = len
    <3>1. i = 6 + 2 * n /\ n = m
      BY <2>2, <2>3, <2>8, Zenon
    <3> QED
      BY <1>3, <3>1
  <2> QED
    BY <2>3, <2>5, <2>6, <2>7, <2>8
<1> QED
  <2>1. InsertExpects(T, len, place, i, d) \/ ~InHead(T, place, i, d)
    BY <1>4, Zenon DEF InsertExpects
  <2> QED
    BY <1>5, <2>1, Zenon DEF InsertUnderWay, InsertExpects

\* An INSERT that has been read to the end is a sentence, with as many values.
OnlyInsert(T, d, n) ==
    /\ IsInsert(T, n) /\ d = InsertCommand(T[3].text, ReadValues(T, n))
    /\ \A m \in 1..MAX_COLUMNS : IsInsert(T, m) => m = n
LEMMA InsertIsWhole ==
    ASSUME NEW T, NEW i \in Nat, i = Len(T), NEW d, NEW place \in {"end", "last"},
           InsertUnderWay(T, place, i, d)
    PROVE  \E n \in 1..MAX_COLUMNS : OnlyInsert(T, d, n)
<1>1. PICK n \in Nat : n <= MAX_COLUMNS /\ InValues(T, place, i, d, n)
    BY DEF InsertUnderWay, InHead
<1>2. /\ ValuesAre(T, n) /\ d = InsertCommand(T[3].text, ReadValues(T, n))
      /\ n > 0 /\ T[5 + 2 * n].type = ")"
      /\ i = 5 + 2 * n \/ (i = 6 + 2 * n /\ T[6 + 2 * n].type = ";")
    BY <1>1 DEF InValues
<1>3. n \in 1..MAX_COLUMNS
  <2>1. n > 0 /\ n <= MAX_COLUMNS
    BY <1>1, <1>2
  <2> QED
    BY <2>1, MaxColumns
<1>4. Ends(T, 5 + 2 * n)
  <2>1. (5 + 2 * n) + 1 = 6 + 2 * n
    BY <1>3
  <2> QED
    BY <1>2, <2>1 DEF Ends
<1>5. \A k \in 1..n : T[5 + 2 * k].type = IF k = n THEN ")" ELSE ","
  <2>1. \A k \in 1..n : k = n \/ k \in 1..n - 1
    BY <1>3
  <2> QED
    BY <1>2, <2>1 DEF ValuesAre
<1>6. IsInsert(T, n)
    BY <1>2, <1>4, <1>5
    DEF IsInsert, ValuesAre, HeadIs, ValuesWordIs, InsertTableIs, IntoIs, InsertIs
<1>7. \A m \in 1..MAX_COLUMNS : IsInsert(T, m) => m = n
  <2> SUFFICES ASSUME NEW m \in 1..MAX_COLUMNS, IsInsert(T, m) PROVE m = n
    OBVIOUS
  <2>1. m \in Nat /\ m > 0
    BY MaxColumns
  <2> QED
    BY <1>2, <2>1, ValuesOfSentence
<1> QED
    BY <1>2, <1>3, <1>6, <1>7 DEF OnlyInsert

-----------------------------------------------------------------------------
(* A SELECT under way and the sentence it begins *)

\* The state of a SELECT under way, by its place.
\* The place tells which part is being read.
LEMMA ListPlaces ==
    ASSUME NEW T, NEW i \in Nat, NEW d, NEW place, SelectUnderWay(T, place, i, d),
           place \in {"columns", "from", "comma", "column"}
    PROVE  \E n \in Nat : n <= MAX_COLUMNS /\ InList(T, place, i, d, n)
BY DEF SelectUnderWay, InTail

LEMMA TailPlaces ==
    ASSUME NEW T, NEW i \in Nat, NEW d, NEW place, SelectUnderWay(T, place, i, d),
           place \in {"select table", "where", "where column", "equal", "where value",
                      "end", "last"}
    PROVE  \E n \in Nat : n <= MAX_COLUMNS /\ InTail(T, place, i, d, n)
BY DEF SelectUnderWay, InList

LEMMA AppendToOne == \A a, b : Append(<<a>>, b) = <<a, b>>
<1> SUFFICES ASSUME NEW a, NEW b PROVE Append(<<a>>, b) = <<a, b>>
    OBVIOUS
<1> DEFINE one == <<a>>
           s == Append(one, b)
<1>1. IsSequence(one) /\ Len(one) = 1 /\ one[1] = a
    BY SingletonFacts
<1> HIDE DEF one
<1>2. /\ IsSequence(s) /\ Len(s) = Len(one) + 1
      /\ \A k \in 1..Len(one) : s[k] = one[k]
      /\ s[Len(one) + 1] = b
    BY <1>1, AppendFacts
<1> HIDE DEF s
<1>3. IsSequence(s) /\ Len(s) = 2 /\ s[1] = a /\ s[2] = b
    BY <1>1, <1>2
<1>4. s = [k \in 1..2 |-> s[k]]
    BY <1>3 DEF IsSequence
<1>5. s = <<a, b>>
    BY <1>3, <1>4
<1> QED
    BY <1>5 DEF one, s

\* From SELECT to the end of the list, then to the end of the statement.
LEMMA SelectIsRead ==
    ASSUME NEW T, IsWord(T[1], "SELECT")
    PROVE  SelectUnderWay(T, "columns", 1, SelectCommand(<<>>, <<>>, <<>>))
<1>1. NamesAre(T, 0)
    BY DEF NamesAre
<1>2. InList(T, "columns", 1, SelectCommand(<<>>, <<>>, <<>>), 0)
    BY <1>1, ReadNone DEF InList
<1>3. 0 \in Nat /\ 0 <= MAX_COLUMNS
    BY MaxColumns
<1> QED
    BY <1>2, <1>3, Zenon DEF SelectUnderWay

LEMMA StarIsRead ==
    ASSUME NEW T, NEW i \in Nat, NEW d, SelectUnderWay(T, "columns", i, d),
           T[i + 1].type = "*", T[i + 1].text = <<"*">>
    PROVE  SelectUnderWay(T, "from", i + 1, [d EXCEPT !.columns = Star])
<1>1. i = 1 /\ IsWord(T[1], "SELECT") /\ d = SelectCommand(<<>>, <<>>, <<>>)
  <2>1. PICK n \in Nat : n <= MAX_COLUMNS /\ InList(T, "columns", i, d, n)
    BY ListPlaces
  <2>2. i = 1 /\ n = 0 /\ NamesAre(T, 0) /\ d = SelectCommand(<<>>, ReadColumns(T, 0), <<>>)
    BY <2>1 DEF InList
  <2> QED
    BY <2>2, ReadNone DEF NamesAre
<1>2. i + 1 = 2
    BY <1>1
<1>3. ReadColumns(T, 1) = Star
  <2>1. ReadColumns(T, 1) = Append(<<>>, T[2].text)
    <3>1. 0 + 1 = 1 /\ 2 * 1 = 2 /\ 0 \in Nat
      OBVIOUS
    <3>2. ReadColumns(T, 0 + 1) = Append(ReadColumns(T, 0), T[2 * (0 + 1)].text)
      BY ReadOneMore
    <3> QED
      BY <3>1, <3>2, ReadNone
  <2>2. Append(<<>>, T[2].text) = <<T[2].text>>
    OBVIOUS
  <2> QED
    BY <1>2, <2>1, <2>2 DEF Star
<1>4. [d EXCEPT !.columns = Star] = SelectCommand(<<>>, ReadColumns(T, 1), <<>>)
    BY <1>1, <1>3 DEF SelectCommand
<1>5. InList(T, "from", 2, [d EXCEPT !.columns = Star], 1)
    BY <1>1, <1>2, <1>4 DEF InList, StarIs
<1>6. 1 \in Nat /\ 1 <= MAX_COLUMNS
    BY MaxColumns
<1> QED
    BY <1>2, <1>5, <1>6, Zenon DEF SelectUnderWay

LEMMA ColumnIsAdded ==
    ASSUME NEW T, NEW i \in Nat, NEW d, NEW place \in {"columns", "column"},
           SelectUnderWay(T, place, i, d), IsName(T[i + 1]), Len(d.columns) < MAX_COLUMNS
    PROVE  SelectUnderWay(T, "comma", i + 1, [d EXCEPT !.columns = Append(@, T[i + 1].text)])
<1>1. PICK n \in Nat : n <= MAX_COLUMNS /\ InList(T, place, i, d, n)
    BY ListPlaces
<1>2. /\ i = 2 * n + 1 /\ NamesAre(T, n) /\ d = SelectCommand(<<>>, ReadColumns(T, n), <<>>)
      /\ n > 0 => T[2 * n + 1].type = ","
  <2>1. CASE place = "columns"
    <3>1. i = 1 /\ n = 0 /\ NamesAre(T, n) /\ d = SelectCommand(<<>>, ReadColumns(T, n), <<>>)
      BY <1>1, <2>1 DEF InList
    <3>2. i = 2 * n + 1 /\ ~(n > 0)
      <4>1. i = 1 /\ n = 0
        BY <3>1
      <4> QED
        BY <4>1
    <3> QED
      BY <3>1, <3>2
  <2>2. CASE place = "column"
    BY <1>1, <2>2 DEF InList
  <2> QED
    BY <2>1, <2>2
<1>3. n < MAX_COLUMNS
  <2>1. d = SelectCommand(<<>>, ReadColumns(T, n), <<>>)
    BY <1>2
  <2>2. d.columns = ReadColumns(T, n)
    BY <2>1, DraftedMore
  <2> QED
    BY <2>2, ReadOneMore
<1>4. n + 1 \in Nat /\ n + 1 <= MAX_COLUMNS /\ n + 1 > 0
    BY <1>3, MaxColumns
<1>5. i + 1 = 2 * (n + 1)
  <2>1. i = 2 * n + 1
    BY <1>2
  <2> QED
    BY <2>1
<1>6. [d EXCEPT !.columns = Append(@, T[i + 1].text)] =
        SelectCommand(<<>>, ReadColumns(T, n + 1), <<>>)
  <2>1. d = SelectCommand(<<>>, ReadColumns(T, n), <<>>)
    BY <1>2
  <2>2. d.columns = ReadColumns(T, n)
    BY <2>1, DraftedMore
  <2>3. Append(d.columns, T[i + 1].text) = ReadColumns(T, n + 1)
    BY <1>5, <2>2, ReadOneMore
  <2>4. \A x : [d EXCEPT !.columns = x] = SelectCommand(<<>>, x, <<>>)
    BY <2>1 DEF SelectCommand
  <2> QED
    BY <2>3, <2>4, Zenon
<1>7. NamesAre(T, n + 1)
  <2>1. \A k \in 1..n + 1 : k \in 1..n \/ 2 * k = i + 1
    BY <1>5
  <2>2. \A k \in 1..n + 1 : IsName(T[2 * k])
    BY <1>2, <2>1 DEF NamesAre
  <2>3. \A k \in 1..(n + 1) - 1 : k \in 1..n - 1 \/ (k = n /\ n > 0)
    OBVIOUS
  <2>4. \A k \in 1..(n + 1) - 1 : T[2 * k + 1].type = ","
    BY <1>2, <2>3 DEF NamesAre
  <2> QED
    BY <1>2, <2>2, <2>4 DEF NamesAre
<1>8. InList(T, "comma", i + 1, SelectCommand(<<>>, ReadColumns(T, n + 1), <<>>), n + 1)
    BY <1>4, <1>5, <1>7 DEF InList
<1> QED
    BY <1>4, <1>6, <1>8, Zenon DEF SelectUnderWay

\* What follows a column.
LEMMA ListIsRead ==
    ASSUME NEW T, NEW i \in Nat, NEW d
    PROVE  /\ SelectUnderWay(T, "comma", i, d) /\ T[i + 1].type = "," =>
                SelectUnderWay(T, "column", i + 1, d)
           /\ \A place \in {"comma", "from"} :
                SelectUnderWay(T, place, i, d) /\ IsWord(T[i + 1], "FROM") =>
                    SelectUnderWay(T, "select table", i + 1, d)
<1>1. ASSUME SelectUnderWay(T, "comma", i, d), T[i + 1].type = ","
      PROVE  SelectUnderWay(T, "column", i + 1, d)
  <2>1. PICK n \in Nat : n <= MAX_COLUMNS /\ InList(T, "comma", i, d, n)
    BY <1>1, ListPlaces
  <2>2. i = 2 * n /\ n <= MAX_COLUMNS
    BY <2>1 DEF InList
  <2>3. i + 1 = 2 * n + 1
    BY <2>2
  <2>4. InList(T, "column", i + 1, d, n)
    BY <1>1, <2>1, <2>3 DEF InList
  <2> QED
    BY <2>2, <2>4, Zenon DEF SelectUnderWay
<1>2. ASSUME NEW place \in {"comma", "from"}, SelectUnderWay(T, place, i, d),
             IsWord(T[i + 1], "FROM")
      PROVE  SelectUnderWay(T, "select table", i + 1, d)
  <2>1. PICK n \in Nat : n <= MAX_COLUMNS /\ InList(T, place, i, d, n)
    BY <1>2, ListPlaces
  <2>2. /\ i = 2 * n /\ n > 0 /\ (NamesAre(T, n) \/ (n = 1 /\ StarIs(T)))
        /\ d = SelectCommand(<<>>, ReadColumns(T, n), <<>>) /\ n <= MAX_COLUMNS
    <3>1. CASE place = "comma"
      BY <3>1, <2>1 DEF InList
    <3>2. CASE place = "from"
      <4>1. /\ i = 2 /\ n = 1 /\ StarIs(T) /\ n <= MAX_COLUMNS
            /\ d = SelectCommand(<<>>, ReadColumns(T, n), <<>>)
        BY <3>2, <2>1 DEF InList
      <4>2. i = 2 * n /\ n > 0
        <5>1. i = 2 /\ n = 1
          BY <4>1
        <5> QED
          BY <5>1
      <4> QED
        BY <4>1, <4>2
    <3> QED
      BY <1>2, <3>1, <3>2
  <2>3. i + 1 = 2 * n + 1
    BY <2>2
  <2>4. FromIs(T, n)
    BY <1>2, <2>2, <2>3 DEF FromIs
  <2>5. InTail(T, "select table", i + 1, d, n)
    BY <2>2, <2>3, <2>4 DEF InTail
  <2> QED
    BY <2>2, <2>5, Zenon DEF SelectUnderWay
<1> QED
    BY <1>1, <1>2

\* What follows the columns.
LEMMA TailIsRead ==
    ASSUME NEW T, NEW i \in Nat, NEW d
    PROVE  /\ SelectUnderWay(T, "select table", i, d) /\ IsName(T[i + 1]) =>
                SelectUnderWay(T, "where", i + 1, [d EXCEPT !.table = T[i + 1].text])
           /\ SelectUnderWay(T, "where", i, d) /\ IsWord(T[i + 1], "WHERE") =>
                SelectUnderWay(T, "where column", i + 1, d)
           /\ SelectUnderWay(T, "where", i, d) /\ T[i + 1].type = ";" =>
                SelectUnderWay(T, "last", i + 1, d)
           /\ SelectUnderWay(T, "where column", i, d) /\ IsName(T[i + 1]) =>
                SelectUnderWay(T, "equal", i + 1, [d EXCEPT !.where = <<T[i + 1].text>>])
           /\ SelectUnderWay(T, "equal", i, d) /\ T[i + 1].type = "=" =>
                SelectUnderWay(T, "where value", i + 1, d)
           /\ SelectUnderWay(T, "where value", i, d) /\ IsValue(T[i + 1]) =>
                SelectUnderWay(T, "end", i + 1, [d EXCEPT !.where = Append(@, T[i + 1].text)])
           /\ SelectUnderWay(T, "end", i, d) /\ T[i + 1].type = ";" =>
                SelectUnderWay(T, "last", i + 1, d)
<1>0. \A place, j, e : \A n \in Nat :
        n <= MAX_COLUMNS /\ InTail(T, place, j, e, n) => SelectUnderWay(T, place, j, e)
    BY Zenon DEF SelectUnderWay
<1>1. ASSUME SelectUnderWay(T, "select table", i, d), IsName(T[i + 1])
      PROVE  SelectUnderWay(T, "where", i + 1, [d EXCEPT !.table = T[i + 1].text])
  <2>1. PICK n \in Nat : n <= MAX_COLUMNS /\ InTail(T, "select table", i, d, n)
    BY <1>1, TailPlaces
  <2>2. /\ i = 2 * n + 1 /\ FromIs(T, n) /\ n <= MAX_COLUMNS
        /\ d = SelectCommand(<<>>, ReadColumns(T, n), <<>>)
    BY <2>1 DEF InTail
  <2>3. i + 1 = 2 * n + 2
    <3>1. i = 2 * n + 1
      BY <2>2
    <3> QED
      BY <3>1
  <2>4. [d EXCEPT !.table = T[i + 1].text] = ReadSelect(T, n, <<>>)
    <3>1. d = SelectCommand(<<>>, ReadColumns(T, n), <<>>)
      BY <2>2
    <3>2. \A x : [d EXCEPT !.table = x] = SelectCommand(x, ReadColumns(T, n), <<>>)
      BY <3>1 DEF SelectCommand
    <3> QED
      BY <2>3, <3>2 DEF ReadSelect
  <2>5. TableIs(T, n)
    BY <1>1, <2>2, <2>3 DEF TableIs
  <2>6. InTail(T, "where", i + 1, ReadSelect(T, n, <<>>), n)
    BY <2>3, <2>5 DEF InTail
  <2> QED
    BY <1>0, <2>2, <2>4, <2>6
<1>2. ASSUME SelectUnderWay(T, "where", i, d)
      PROVE  /\ IsWord(T[i + 1], "WHERE") => SelectUnderWay(T, "where column", i + 1, d)
             /\ T[i + 1].type = ";" => SelectUnderWay(T, "last", i + 1, d)
  <2>1. PICK n \in Nat : n <= MAX_COLUMNS /\ InTail(T, "where", i, d, n)
    BY <1>2, TailPlaces
  <2>2. i = 2 * n + 2 /\ TableIs(T, n) /\ n <= MAX_COLUMNS /\ d = ReadSelect(T, n, <<>>)
    BY <2>1 DEF InTail
  <2>3. i + 1 = 2 * n + 3
    <3>1. i = 2 * n + 2
      BY <2>2
    <3> QED
      BY <3>1
  <2>4. IsWord(T[i + 1], "WHERE") => InTail(T, "where column", i + 1, d, n)
    BY <2>2, <2>3 DEF InTail, WhereIs
  <2>5. T[i + 1].type = ";" => InTail(T, "last", i + 1, d, n)
    BY <2>2, <2>3 DEF InTail
  <2> QED
    BY <1>0, <2>2, <2>4, <2>5
<1>3. ASSUME SelectUnderWay(T, "where column", i, d), IsName(T[i + 1])
      PROVE  SelectUnderWay(T, "equal", i + 1, [d EXCEPT !.where = <<T[i + 1].text>>])
  <2>1. PICK n \in Nat : n <= MAX_COLUMNS /\ InTail(T, "where column", i, d, n)
    BY <1>3, TailPlaces
  <2>2. i = 2 * n + 3 /\ WhereIs(T, n) /\ n <= MAX_COLUMNS /\ d = ReadSelect(T, n, <<>>)
    BY <2>1 DEF InTail
  <2>3. i + 1 = 2 * n + 4
    <3>1. i = 2 * n + 3
      BY <2>2
    <3> QED
      BY <3>1
  <2>4. [d EXCEPT !.where = <<T[i + 1].text>>] = ReadWhereColumn(T, n)
    BY <2>2, <2>3 DEF ReadWhereColumn, ReadSelect, SelectCommand
  <2>5. ColumnIs(T, n)
    BY <1>3, <2>2, <2>3 DEF ColumnIs
  <2>6. InTail(T, "equal", i + 1, ReadWhereColumn(T, n), n)
    BY <2>3, <2>5 DEF InTail
  <2> QED
    BY <1>0, <2>2, <2>4, <2>6
<1>4. ASSUME SelectUnderWay(T, "equal", i, d), T[i + 1].type = "="
      PROVE  SelectUnderWay(T, "where value", i + 1, d)
  <2>1. PICK n \in Nat : n <= MAX_COLUMNS /\ InTail(T, "equal", i, d, n)
    BY <1>4, TailPlaces
  <2>2. i = 2 * n + 4 /\ ColumnIs(T, n) /\ n <= MAX_COLUMNS /\ d = ReadWhereColumn(T, n)
    BY <2>1 DEF InTail
  <2>3. i + 1 = 2 * n + 5
    <3>1. i = 2 * n + 4
      BY <2>2
    <3> QED
      BY <3>1
  <2>4. InTail(T, "where value", i + 1, d, n)
    BY <1>4, <2>2, <2>3 DEF InTail, EqualIs
  <2> QED
    BY <1>0, <2>2, <2>4
<1>5. ASSUME SelectUnderWay(T, "where value", i, d), IsValue(T[i + 1])
      PROVE  SelectUnderWay(T, "end", i + 1, [d EXCEPT !.where = Append(@, T[i + 1].text)])
  <2>1. PICK n \in Nat : n <= MAX_COLUMNS /\ InTail(T, "where value", i, d, n)
    BY <1>5, TailPlaces
  <2>2. i = 2 * n + 5 /\ EqualIs(T, n) /\ n <= MAX_COLUMNS /\ d = ReadWhereColumn(T, n)
    BY <2>1 DEF InTail
  <2>3. i + 1 = 2 * n + 6
    <3>1. i = 2 * n + 5
      BY <2>2
    <3> QED
      BY <3>1
  <2>4. Append(d.where, T[i + 1].text) = <<T[2 * n + 4].text, T[2 * n + 6].text>>
    <3>1. d.where = <<T[2 * n + 4].text>>
      BY <2>2, DraftedMore DEF ReadWhereColumn, ReadSelect
    <3> QED
      BY <2>3, <3>1, AppendToOne
  <2>5. \A x : [d EXCEPT !.where = x] = ReadSelect(T, n, x)
    BY <2>2 DEF ReadWhereColumn, ReadSelect, SelectCommand
  <2>6. [d EXCEPT !.where = Append(@, T[i + 1].text)] = ReadCondition(T, n)
    BY <2>4, <2>5, Zenon DEF ReadCondition
  <2>7. ConditionIs(T, n)
    BY <1>5, <2>2, <2>3 DEF ConditionIs
  <2>8. InTail(T, "end", i + 1, ReadCondition(T, n), n)
    BY <2>3, <2>7 DEF InTail
  <2> QED
    BY <1>0, <2>2, <2>6, <2>8
<1>6. ASSUME SelectUnderWay(T, "end", i, d), T[i + 1].type = ";"
      PROVE  SelectUnderWay(T, "last", i + 1, d)
  <2>1. PICK n \in Nat : n <= MAX_COLUMNS /\ InTail(T, "end", i, d, n)
    BY <1>6, TailPlaces
  <2>2. i = 2 * n + 6 /\ ConditionIs(T, n) /\ n <= MAX_COLUMNS /\ d = ReadCondition(T, n)
    BY <2>1 DEF InTail
  <2>3. i + 1 = 2 * n + 7
    <3>1. i = 2 * n + 6
      BY <2>2
    <3> QED
      BY <3>1
  <2>4. InTail(T, "last", i + 1, d, n)
    BY <1>6, <2>2, <2>3 DEF InTail
  <2> QED
    BY <1>0, <2>2, <2>4
<1> QED
    BY <1>1, <1>2, <1>3, <1>4, <1>5, <1>6

\* The tokens of a SELECT with m columns, without and with a condition.
LEMMA LengthOfSelect ==
    ASSUME NEW T, NEW len \in Nat, len = Len(T), NEW m \in Nat, NEW c, IsSelect(T, m, c)
    PROVE  /\ c = 0 => \/ len = 2 * m + 2
                       \/ len = 2 * m + 3 /\ T[2 * m + 3].type = ";"
           /\ c = 4 => \/ len = 2 * m + 6
                       \/ len = 2 * m + 7 /\ T[2 * m + 7].type = ";"
<1>1. ASSUME c = 0 PROVE len = 2 * m + 2 \/ (len = 2 * m + 3 /\ T[2 * m + 3].type = ";")
  <2>1. Ends(T, 2 * m + 2 + 0)
    BY <1>1 DEF IsSelect
  <2>2. 2 * m + 2 + 0 = 2 * m + 2 /\ (2 * m + 2 + 0) + 1 = 2 * m + 3
    OBVIOUS
  <2> QED
    BY <2>1, <2>2 DEF Ends
<1>2. ASSUME c = 4 PROVE len = 2 * m + 6 \/ (len = 2 * m + 7 /\ T[2 * m + 7].type = ";")
  <2>1. Ends(T, 2 * m + 2 + 4)
    BY <1>2 DEF IsSelect
  <2>2. 2 * m + 2 + 4 = 2 * m + 6 /\ (2 * m + 2 + 4) + 1 = 2 * m + 7
    OBVIOUS
  <2> QED
    BY <2>1, <2>2 DEF Ends
<1> QED
    BY <1>1, <1>2

LEMMA LengthsOfSelect ==
    ASSUME NEW T, NEW len \in Nat, len = Len(T), NEW m \in Nat, NEW c, IsSelect(T, m, c)
    PROVE  /\ c = 0 => len = 2 * m + 2 \/ len = 2 * m + 3
           /\ c = 4 => len = 2 * m + 6 \/ len = 2 * m + 7
BY LengthOfSelect, Zenon

\* The columns of a sentence are those read, or more.
LEMMA ColumnsOfSentence ==
    ASSUME NEW T, NEW n \in Nat, NEW m \in Nat, m > 0, NEW c, IsSelect(T, m, c),
           NamesAre(T, n), n > 0
    PROVE  /\ n = m \/ (n < m /\ T[2 * n + 1].type = ",")
           /\ \A k \in 1..m : IsName(T[2 * k])
<1>1. T[2].type # "*"
  <2>1. 1 \in 1..n /\ 2 * 1 = 2
    OBVIOUS
  <2>2. IsName(T[2])
    BY <2>1 DEF NamesAre
  <2> QED
    BY <2>2 DEF IsName
<1>2. \A k \in 1..m : IsName(T[2 * k]) /\ (k < m => T[2 * k + 1].type = ",")
    BY <1>1 DEF IsSelect
<1>3. n <= m
  <2> SUFFICES ASSUME m < n PROVE FALSE
    OBVIOUS
  <2>1. m \in 1..n - 1
    OBVIOUS
  <2>2. T[2 * m + 1].type = ","
    BY <2>1 DEF NamesAre
  <2>3. T[2 * m + 1].type = "identifier"
    BY DEF IsSelect, IsWord
  <2> QED
    BY <2>2, <2>3
<1>4. n = m \/ (n < m /\ n \in 1..m)
    BY <1>3
<1> QED
    BY <1>2, <1>4

LEMMA ListOfSentence ==
    ASSUME NEW T, NEW n \in Nat, NEW m \in Nat, m > 0, NEW c, IsSelect(T, m, c), FromIs(T, n)
    PROVE  n = m
<1>1. CASE NamesAre(T, n)
  <2>1. n > 0 /\ T[2 * n + 1].type = "identifier"
    BY DEF FromIs, IsWord
  <2>2. n = m \/ T[2 * n + 1].type = ","
    BY <1>1, <2>1, ColumnsOfSentence
  <2> QED
    BY <2>1, <2>2
<1>2. CASE n = 1 /\ StarIs(T)
  <2>1. 1 \in 1..m /\ 2 * 1 = 2
    OBVIOUS
  <2>2. ~ IsName(T[2])
    BY <1>2 DEF StarIs, IsName
  <2>3. ~ \A k \in 1..m : IsName(T[2 * k])
    BY <2>1, <2>2
  <2> QED
    BY <1>2, <2>3 DEF IsSelect
<1> QED
    BY <1>1, <1>2 DEF FromIs

\* Where a SELECT is a sentence, its next token is what the parser expects: in the
\* list of columns,
LEMMA ListGoesOn ==
    ASSUME NEW T, NEW len \in Nat, len = Len(T), NEW i \in Nat, i <= len, NEW d, NEW place,
           SelectUnderWay(T, place, i, d),
           NEW m \in Nat, m > 0, m <= MAX_COLUMNS, NEW c \in {0, 4}, IsSelect(T, m, c)
    PROVE  /\ place = "columns" =>
                /\ i < len
                /\ T[i + 1].type = "*" \/ (IsName(T[i + 1]) /\ Len(d.columns) < MAX_COLUMNS)
           /\ place = "from" => i < len /\ IsWord(T[i + 1], "FROM")
           /\ place = "comma" => i < len /\ (T[i + 1].type = "," \/ IsWord(T[i + 1], "FROM"))
           /\ place = "column" => i < len /\ IsName(T[i + 1]) /\ Len(d.columns) < MAX_COLUMNS
<1>1. /\ \/ m = 1 /\ T[2].type = "*"
         \/ \A k \in 1..m : IsName(T[2 * k])
      /\ IsWord(T[2 * m + 1], "FROM")
    BY DEF IsSelect
<1>2. len >= 2 * m + 2
  <2>1. c = 0 => len = 2 * m + 2 \/ len = 2 * m + 3
    BY LengthsOfSelect, Zenon
  <2>2. c = 4 => len = 2 * m + 6 \/ len = 2 * m + 7
    BY LengthsOfSelect, Zenon
  <2>3. len = 2 * m + 2 \/ len = 2 * m + 3 \/ len = 2 * m + 6 \/ len = 2 * m + 7
    BY <2>1, <2>2
  <2> QED
    BY <2>3
<1>3. \A n \in Nat : d = SelectCommand(<<>>, ReadColumns(T, n), <<>>) => Len(d.columns) = n
  <2> SUFFICES ASSUME NEW n \in Nat, d = SelectCommand(<<>>, ReadColumns(T, n), <<>>)
               PROVE  Len(d.columns) = n
    OBVIOUS
  <2>1. d.columns = ReadColumns(T, n)
    BY DraftedMore
  <2> QED
    BY <2>1, ReadOneMore
<1>4. ASSUME place = "columns"
      PROVE  i < len /\ (T[i + 1].type = "*" \/ (IsName(T[i + 1]) /\ Len(d.columns) < MAX_COLUMNS))
  <2>1. PICK n \in Nat : InList(T, "columns", i, d, n)
    BY <1>4, ListPlaces
  <2>2. i = 1 /\ n = 0 /\ d = SelectCommand(<<>>, ReadColumns(T, n), <<>>)
    BY <2>1 DEF InList
  <2>3. Len(d.columns) = 0 /\ 0 < MAX_COLUMNS
    BY <2>2, <1>3, MaxColumns
  <2>4. i < len /\ i + 1 = 2 /\ 1 \in 1..m /\ 2 * 1 = 2
    <3>1. i = 1
      BY <2>2
    <3> QED
      BY <3>1, <1>2
  <2>5. T[2].type = "*" \/ IsName(T[2])
    BY <1>1, <2>4
  <2> QED
    BY <2>3, <2>4, <2>5
<1>5. ASSUME place = "from"
      PROVE  i < len /\ IsWord(T[i + 1], "FROM")
  <2>1. PICK n \in Nat : InList(T, "from", i, d, n)
    BY <1>5, ListPlaces
  <2>2. i = 2 /\ StarIs(T)
    BY <2>1 DEF InList
  <2>3. 1 \in 1..m /\ 2 * 1 = 2
    OBVIOUS
  <2>4. m = 1
    <3>1. ~ IsName(T[2])
      BY <2>2 DEF StarIs, IsName
    <3> QED
      BY <1>1, <2>3, <3>1
  <2>5. i < len /\ i + 1 = 2 * m + 1
    <3>1. i = 2
      BY <2>2
    <3> QED
      BY <3>1, <1>2, <2>4
  <2> QED
    BY <1>1, <2>5
<1>6. ASSUME place = "comma"
      PROVE  i < len /\ (T[i + 1].type = "," \/ IsWord(T[i + 1], "FROM"))
  <2>1. PICK n \in Nat : InList(T, "comma", i, d, n)
    BY <1>6, ListPlaces
  <2>2. i = 2 * n /\ n > 0 /\ NamesAre(T, n)
    BY <2>1 DEF InList
  <2>3. n = m \/ (n < m /\ T[2 * n + 1].type = ",")
    BY <2>2, ColumnsOfSentence
  <2>4. i < len /\ i + 1 = 2 * n + 1
    <3>0. n = m \/ n < m
      BY <2>3, Zenon
    <3>1. i = 2 * n /\ n <= m
      BY <2>2, <3>0
    <3> QED
      BY <3>1, <1>2
  <2> QED
    BY <1>1, <2>3, <2>4
<1>7. ASSUME place = "column"
      PROVE  i < len /\ IsName(T[i + 1]) /\ Len(d.columns) < MAX_COLUMNS
  <2>1. PICK n \in Nat : InList(T, "column", i, d, n)
    BY <1>7, ListPlaces
  <2>2. /\ i = 2 * n + 1 /\ n > 0 /\ NamesAre(T, n) /\ T[2 * n + 1].type = ","
        /\ d = SelectCommand(<<>>, ReadColumns(T, n), <<>>)
    BY <2>1 DEF InList
  <2>3. /\ n = m \/ (n < m /\ T[2 * n + 1].type = ",")
        /\ \A k \in 1..m : IsName(T[2 * k])
    BY <2>2, ColumnsOfSentence
  <2>4. n # m
    BY <1>1, <2>2 DEF IsWord
  <2>5. n < m
    BY <2>3, <2>4, Zenon
  <2>6. i < len /\ n + 1 \in 1..m /\ i + 1 = 2 * (n + 1)
    <3>1. i = 2 * n + 1
      BY <2>2
    <3> QED
      BY <3>1, <2>5, <1>2
  <2>7. Len(d.columns) = n
    BY <1>3, <2>2
  <2>8. n < MAX_COLUMNS
    BY <2>5, MaxColumns
  <2> QED
    BY <2>3, <2>6, <2>7, <2>8
<1> QED
    BY <1>4, <1>5, <1>6, <1>7

\* What follows the table tells whether the sentence has a condition.
TableEnds(T, n) == TableIs(T, n) /\ T[2 * n + 3].type = ";"
LEMMA ConditionOfSentence ==
    ASSUME NEW T, NEW len \in Nat, len = Len(T), NEW n \in Nat, len >= 2 * n + 3,
           NEW m \in Nat, m > 0, NEW c \in {0, 4}, IsSelect(T, m, c)
    PROVE  /\ WhereIs(T, n) => n = m /\ c = 4
           /\ TableEnds(T, n) => n = m /\ c = 0
<1>1. FromIs(T, n) => n = m
    BY ListOfSentence
<1>2. ASSUME WhereIs(T, n) PROVE n = m /\ c = 4
  <2>1. n = m /\ T[2 * n + 3].type = "identifier"
    BY <1>1, <1>2 DEF WhereIs, TableIs, IsWord
  <2>2. ASSUME c = 0 PROVE FALSE
    <3>1. len = 2 * m + 2 \/ (len = 2 * m + 3 /\ T[2 * m + 3].type = ";")
      BY <2>2, LengthOfSelect
    <3>2. len # 2 * m + 2
      <4>1. n = m
        BY <2>1
      <4> QED
        BY <4>1
    <3> QED
      BY <2>1, <3>1, <3>2
  <2> QED
    BY <2>1, <2>2
<1>3. ASSUME TableIs(T, n), T[2 * n + 3].type = ";" PROVE n = m /\ c = 0
  <2>1. n = m
    BY <1>1, <1>3 DEF TableIs
  <2>2. c = 4 => T[2 * m + 3].type = "identifier"
    BY DEF IsSelect, IsWord
  <2> QED
    BY <1>3, <2>1, <2>2
<1> QED
    BY <1>2, <1>3 DEF TableEnds

LEMMA ConditionParts ==
    ASSUME NEW T, NEW m \in Nat, NEW c, IsSelect(T, m, c)
    PROVE  /\ IsWord(T[1], "SELECT")
           /\ IsWord(T[2 * m + 1], "FROM") /\ IsName(T[2 * m + 2])
           /\ c = 4 => /\ IsWord(T[2 * m + 3], "WHERE") /\ IsName(T[2 * m + 4])
                       /\ T[2 * m + 5].type = "=" /\ IsValue(T[2 * m + 6])
BY DEF IsSelect

\* and after the columns.
TailExpects(T, len, place, i) ==
    /\ place = "select table" => i < len /\ IsName(T[i + 1])
    /\ place = "where" =>
         i = len \/ (i < len /\ (T[i + 1].type = ";" \/ IsWord(T[i + 1], "WHERE")))
    /\ place = "where column" => i < len /\ IsName(T[i + 1])
    /\ place = "equal" => i < len /\ T[i + 1].type = "="
    /\ place = "where value" => i < len /\ IsValue(T[i + 1])
    /\ place = "end" => i = len \/ (i < len /\ T[i + 1].type = ";")
    /\ place = "last" => i = len

LEMMA TailGoesOn ==
    ASSUME NEW T, NEW len \in Nat, len = Len(T), NEW i \in Nat, i <= len, NEW d, NEW place,
           SelectUnderWay(T, place, i, d),
           NEW m \in Nat, m > 0, NEW c \in {0, 4}, IsSelect(T, m, c)
    PROVE  TailExpects(T, len, place, i)
<1>1. /\ IsWord(T[2 * m + 1], "FROM") /\ IsName(T[2 * m + 2])
      /\ c = 4 => /\ IsWord(T[2 * m + 3], "WHERE") /\ IsName(T[2 * m + 4])
                  /\ T[2 * m + 5].type = "=" /\ IsValue(T[2 * m + 6])
    BY ConditionParts
<1>2. /\ c = 0 => len = 2 * m + 2 \/ len = 2 * m + 3
      /\ c = 4 => len = 2 * m + 6 \/ len = 2 * m + 7
    BY LengthsOfSelect, Zenon
<1>3. len >= 2 * m + 2
  <2>1. c = 0 \/ c = 4
    OBVIOUS
  <2> QED
    BY <1>2, <2>1
<1>4. ASSUME place = "select table"
      PROVE  i < len /\ IsName(T[i + 1])
  <2>1. PICK n \in Nat : InTail(T, "select table", i, d, n)
    BY <1>4, TailPlaces
  <2>2. i = 2 * n + 1 /\ FromIs(T, n)
    BY <2>1 DEF InTail
  <2>3. n = m
    BY <2>2, ListOfSentence
  <2>4. i < len /\ i + 1 = 2 * m + 2
    <3>1. i = 2 * n + 1
      BY <2>2
    <3> QED
      BY <1>3, <2>3, <3>1
  <2> QED
    BY <1>1, <2>4
<1>5. ASSUME place = "where"
      PROVE  i = len \/ (i < len /\ (T[i + 1].type = ";" \/ IsWord(T[i + 1], "WHERE")))
  <2>1. PICK n \in Nat : InTail(T, "where", i, d, n)
    BY <1>5, TailPlaces
  <2>2. i = 2 * n + 2 /\ TableIs(T, n)
    BY <2>1 DEF InTail
  <2>3. n = m
    BY <2>2, ListOfSentence DEF TableIs
  <2>4. i + 1 = 2 * m + 3 /\ (i = len \/ i < len) /\ (i = len \/ len # 2 * m + 2)
    <3>1. i = 2 * n + 2
      BY <2>2
    <3> QED
      BY <2>3, <3>1
  <2>5. CASE c = 0
    <3>1. len = 2 * m + 2 \/ (len = 2 * m + 3 /\ T[2 * m + 3].type = ";")
      BY <2>5, LengthOfSelect
    <3> QED
      BY <2>4, <3>1
  <2>6. CASE c = 4
    BY <1>1, <2>4, <2>6
  <2> QED
    BY <2>5, <2>6
<1>6. ASSUME place \in {"where column", "equal", "where value"}
      PROVE  /\ place = "where column" => i < len /\ IsName(T[i + 1])
             /\ place = "equal" => i < len /\ T[i + 1].type = "="
             /\ place = "where value" => i < len /\ IsValue(T[i + 1])
  <2>1. PICK n \in Nat : InTail(T, place, i, d, n)
    BY <1>6, TailPlaces
  <2>2. /\ WhereIs(T, n)
        /\ place = "where column" => i = 2 * n + 3
        /\ place = "equal" => i = 2 * n + 4
        /\ place = "where value" => i = 2 * n + 5
    BY <1>6, <2>1 DEF InTail, EqualIs, ColumnIs
  <2>3. i = 2 * n + 3 \/ i = 2 * n + 4 \/ i = 2 * n + 5
    BY <1>6, <2>2
  <2>4. len >= 2 * n + 3
    BY <2>3
  <2>5. n = m /\ c = 4
    BY <2>2, <2>4, ConditionOfSentence
  <2>6. len = 2 * m + 6 \/ len = 2 * m + 7
    BY <1>2, <2>5, Zenon
  <2>7. /\ i < len
        /\ i = 2 * n + 3 => i + 1 = 2 * m + 4
        /\ i = 2 * n + 4 => i + 1 = 2 * m + 5
        /\ i = 2 * n + 5 => i + 1 = 2 * m + 6
    <3>1. n = m
      BY <2>5
    <3> QED
      BY <2>3, <2>6, <3>1
  <2> QED
    BY <1>1, <1>6, <2>2, <2>5, <2>7
<1>7. ASSUME place = "end"
      PROVE  i = len \/ (i < len /\ T[i + 1].type = ";")
  <2>1. PICK n \in Nat : InTail(T, "end", i, d, n)
    BY <1>7, TailPlaces
  <2>2. i = 2 * n + 6 /\ WhereIs(T, n)
    BY <2>1 DEF InTail, ConditionIs, EqualIs, ColumnIs
  <2>3. len >= 2 * n + 3
    <3>1. i = 2 * n + 6
      BY <2>2
    <3> QED
      BY <3>1
  <2>4. n = m /\ c = 4
    BY <2>2, <2>3, ConditionOfSentence
  <2>5. i + 1 = 2 * m + 7 /\ (i = len \/ i < len) /\ (i = len \/ len # 2 * m + 6)
    <3>1. i = 2 * n + 6 /\ n = m
      BY <2>2, <2>4
    <3> QED
      BY <3>1
  <2>6. len = 2 * m + 6 \/ (len = 2 * m + 7 /\ T[2 * m + 7].type = ";")
    BY <2>4, LengthOfSelect
  <2> QED
    BY <2>5, <2>6
<1>8. ASSUME place = "last"
      PROVE  i = len
  <2>1. PICK n \in Nat : InTail(T, "last", i, d, n)
    BY <1>8, TailPlaces
  <2>2. \/ i = 2 * n + 3 /\ TableIs(T, n) /\ T[2 * n + 3].type = ";"
        \/ i = 2 * n + 7 /\ WhereIs(T, n)
    BY <2>1 DEF InTail, ConditionIs, EqualIs, ColumnIs
  <2>3. CASE i = 2 * n + 3 /\ TableIs(T, n) /\ T[2 * n + 3].type = ";"
    <3>0. i = 2 * n + 3
      BY <2>3
    <3>1. len >= 2 * n + 3
      BY <3>0
    <3>2. n = m /\ c = 0
      <4>1. TableEnds(T, n)
        BY <2>3 DEF TableEnds
      <4> QED
        BY <3>1, <4>1, ConditionOfSentence
    <3>3. len = 2 * m + 2 \/ len = 2 * m + 3
      BY <1>2, <3>2, Zenon
    <3>4. n = m
      BY <3>2
    <3> QED
      BY <3>0, <3>3, <3>4
  <2>4. CASE i = 2 * n + 7 /\ WhereIs(T, n)
    <3>0. i = 2 * n + 7
      BY <2>4
    <3>1. len >= 2 * n + 3
      BY <3>0
    <3>2. n = m /\ c = 4
      BY <2>4, <3>1, ConditionOfSentence
    <3>3. len = 2 * m + 6 \/ len = 2 * m + 7
      BY <1>2, <3>2, Zenon
    <3>4. n = m
      BY <3>2
    <3> QED
      BY <3>0, <3>3, <3>4
  <2> QED
    BY <2>2, <2>3, <2>4
<1> QED
    BY <1>4, <1>5, <1>6, <1>7, <1>8 DEF TailExpects

\* A SELECT that has been read to the end is a sentence, with these columns and this
\* condition.
Condition(T, n, c) == IF c = 0 THEN <<>> ELSE <<T[2 * n + 4].text, T[2 * n + 6].text>>
OnlySelect(T, d, n, c) ==
    /\ IsSelect(T, n, c) /\ d = ReadSelect(T, n, Condition(T, n, c))
    /\ \A m \in 1..MAX_COLUMNS, e \in {0, 4} : IsSelect(T, m, e) => m = n /\ e = c
LEMMA SelectIsWhole ==
    ASSUME NEW T, NEW i \in Nat, i = Len(T), NEW d, NEW place \in {"where", "end", "last"},
           SelectUnderWay(T, place, i, d)
    PROVE  \E n \in 1..MAX_COLUMNS, c \in {0, 4} : OnlySelect(T, d, n, c)
<1>1. PICK n \in Nat : n <= MAX_COLUMNS /\ InTail(T, place, i, d, n)
    BY TailPlaces
<1>2. TableIs(T, n)
    BY <1>1 DEF InTail, ConditionIs, EqualIs, ColumnIs, WhereIs
<1>3. n \in 1..MAX_COLUMNS /\ n > 0
  <2>1. n > 0 /\ n <= MAX_COLUMNS
    BY <1>1, <1>2 DEF TableIs, FromIs
  <2> QED
    BY <2>1, MaxColumns
<1>4. \/ n = 1 /\ T[2].type = "*"
      \/ \A k \in 1..n : IsName(T[2 * k]) /\ (k < n => T[2 * k + 1].type = ",")
  <2>1. CASE NamesAre(T, n)
    <3>1. \A k \in 1..n : k < n => k \in 1..n - 1
      OBVIOUS
    <3> QED
      BY <2>1, <3>1 DEF NamesAre
  <2>2. CASE n = 1 /\ StarIs(T)
    BY <2>2 DEF StarIs
  <2> QED
    BY <1>2, <2>1, <2>2 DEF TableIs, FromIs
<1>5. IsWord(T[1], "SELECT") /\ IsWord(T[2 * n + 1], "FROM") /\ IsName(T[2 * n + 2])
    BY <1>2 DEF TableIs, FromIs, NamesAre, StarIs
<1>6. \/ /\ i = 2 * n + 2 \/ (i = 2 * n + 3 /\ T[2 * n + 3].type = ";")
         /\ d = ReadSelect(T, n, <<>>)
      \/ /\ i = 2 * n + 6 \/ (i = 2 * n + 7 /\ T[2 * n + 7].type = ";")
         /\ d = ReadCondition(T, n) /\ ConditionIs(T, n)
    BY <1>1 DEF InTail
<1>7. CASE /\ i = 2 * n + 2 \/ (i = 2 * n + 3 /\ T[2 * n + 3].type = ";")
           /\ d = ReadSelect(T, n, <<>>)
  <2>1. Ends(T, 2 * n + 2 + 0)
    <3>1. 2 * n + 2 + 0 = 2 * n + 2 /\ (2 * n + 2 + 0) + 1 = 2 * n + 3
      OBVIOUS
    <3> QED
      BY <1>7, <3>1 DEF Ends
  <2>2. IsSelect(T, n, 0)
    <3>1. 0 # 4
      OBVIOUS
    <3> QED
      BY <1>4, <1>5, <2>1, <3>1, Zenon DEF IsSelect
  <2>3. d = ReadSelect(T, n, Condition(T, n, 0))
    BY <1>7 DEF Condition
  <2>4. ASSUME NEW m \in 1..MAX_COLUMNS, NEW e \in {0, 4}, IsSelect(T, m, e) PROVE m = n /\ e = 0
    <3>1. m \in Nat /\ m > 0
      BY MaxColumns
    <3>2. n = m
      BY <1>2, <2>4, <3>1, ListOfSentence DEF TableIs
    <3>3. e = 4 => i = 2 * m + 6 \/ i = 2 * m + 7
      BY <2>4, <3>1, LengthsOfSelect, Zenon
    <3>4. i = 2 * n + 2 \/ i = 2 * n + 3
      BY <1>7, Zenon
    <3>5. ~(i = 2 * n + 6 \/ i = 2 * n + 7)
      BY <3>4
    <3> QED
      BY <3>2, <3>3, <3>5
  <2> QED
    BY <1>3, <2>2, <2>3, <2>4 DEF OnlySelect
<1>8. CASE /\ i = 2 * n + 6 \/ (i = 2 * n + 7 /\ T[2 * n + 7].type = ";")
           /\ d = ReadCondition(T, n) /\ ConditionIs(T, n)
  <2>1. Ends(T, 2 * n + 2 + 4)
    <3>1. 2 * n + 2 + 4 = 2 * n + 6 /\ (2 * n + 2 + 4) + 1 = 2 * n + 7
      OBVIOUS
    <3> QED
      BY <1>8, <3>1 DEF Ends
  <2>2. IsSelect(T, n, 4)
    BY <1>4, <1>5, <1>8, <2>1 DEF IsSelect, ConditionIs, EqualIs, ColumnIs, WhereIs
  <2>3. d = ReadSelect(T, n, Condition(T, n, 4))
    <3>1. Condition(T, n, 4) = <<T[2 * n + 4].text, T[2 * n + 6].text>>
      <4>1. 4 # 0
        OBVIOUS
      <4> QED
        BY <4>1, Zenon DEF Condition
    <3> QED
      BY <1>8, <3>1, Zenon DEF ReadCondition
  <2>4. ASSUME NEW m \in 1..MAX_COLUMNS, NEW e \in {0, 4}, IsSelect(T, m, e) PROVE m = n /\ e = 4
    <3>1. m \in Nat /\ m > 0
      BY MaxColumns
    <3>2. n = m
      BY <1>2, <2>4, <3>1, ListOfSentence DEF TableIs
    <3>3. e = 0 => i = 2 * m + 2 \/ i = 2 * m + 3
      BY <2>4, <3>1, LengthsOfSelect, Zenon
    <3>4. i = 2 * n + 6 \/ i = 2 * n + 7
      BY <1>8, Zenon
    <3>5. ~(i = 2 * n + 2 \/ i = 2 * n + 3)
      BY <3>4
    <3> QED
      BY <3>2, <3>3, <3>5
  <2> QED
    BY <1>3, <2>2, <2>3, <2>4 DEF OnlySelect
<1> QED
    BY <1>6, <1>7, <1>8

-----------------------------------------------------------------------------
(* What the tokens mean *)

\* No token is two keywords.
LEMMA OneWord ==
    ASSUME NEW v \in DOMAIN Keywords, NEW w \in DOMAIN Keywords, NEW token,
           IsWord(token, v), IsWord(token, w)
    PROVE  v = w
<1>1. v # w => Keywords[v] \cap Keywords[w] = {}
    BY GrammarConstants
<1> QED
    BY <1>1 DEF IsWord

\* The first token tells an INSERT from a SELECT.
LEMMA FirstToken ==
    ASSUME NEW T
    PROVE  /\ \A place, i, d : InsertUnderWay(T, place, i, d) => IsWord(T[1], "INSERT")
           /\ \A place, i, d : SelectUnderWay(T, place, i, d) => IsWord(T[1], "SELECT")
           /\ \A m : IsInsert(T, m) => IsWord(T[1], "INSERT")
           /\ \A m, c : IsSelect(T, m, c) => IsWord(T[1], "SELECT")
           /\ ~ (IsWord(T[1], "INSERT") /\ IsWord(T[1], "SELECT"))
<1>1. ASSUME NEW place, NEW i, NEW d, InsertUnderWay(T, place, i, d) PROVE IsWord(T[1], "INSERT")
  <2>1. InsertIs(T)
    BY <1>1, Zenon
    DEF InsertUnderWay, InHead, InValues, ValuesAre, HeadIs, ValuesWordIs, InsertTableIs, IntoIs
  <2> QED
    BY <2>1 DEF InsertIs
<1>2. ASSUME NEW place, NEW i, NEW d, SelectUnderWay(T, place, i, d) PROVE IsWord(T[1], "SELECT")
  <2>1. PICK n \in Nat : InList(T, place, i, d, n) \/ InTail(T, place, i, d, n)
    BY <1>2, Zenon DEF SelectUnderWay
  <2>2. InTail(T, place, i, d, n) => FromIs(T, n)
    BY Zenon DEF InTail, ConditionIs, EqualIs, ColumnIs, WhereIs, TableIs
  <2>3. FromIs(T, n) => IsWord(T[1], "SELECT")
    BY Zenon DEF FromIs, NamesAre, StarIs
  <2>4. InList(T, place, i, d, n) => IsWord(T[1], "SELECT")
    BY Zenon DEF InList, NamesAre, StarIs
  <2> QED
    BY <2>1, <2>2, <2>3, <2>4
<1>3. /\ \A m : IsInsert(T, m) => IsWord(T[1], "INSERT")
      /\ \A m, c : IsSelect(T, m, c) => IsWord(T[1], "SELECT")
    BY Zenon DEF IsInsert, IsSelect
<1>4. ~ (IsWord(T[1], "INSERT") /\ IsWord(T[1], "SELECT"))
  <2>1. "INSERT" \in DOMAIN Keywords /\ "SELECT" \in DOMAIN Keywords /\ "INSERT" # "SELECT"
    BY GrammarConstants
  <2> QED
    BY <2>1, OneWord, Zenon
<1> QED
    BY <1>1, <1>2, <1>3, <1>4

\* The sentences a list of tokens can be read as.
Inserts(T) == {m \in 1..MAX_COLUMNS : IsInsert(T, m)}
Selects(T) == {m \in (1..MAX_COLUMNS) \X {0, 4} : IsSelect(T, m[1], m[2])}
LEMMA MeaningParts ==
    ASSUME NEW T
    PROVE  Meaning(T) =
                {InsertCommand(T[3].text, ReadValues(T, n)) : n \in Inserts(T)}
                \cup {ReadSelect(T, s[1], Condition(T, s[1], s[2])) : s \in Selects(T)}
BY Zenon DEF Meaning, Inserts, Selects, ReadValues, ReadSelect, ReadColumns, Condition

\* A command read to the end is the only meaning of its tokens.
LEMMA InsertIsMeant ==
    ASSUME NEW T, NEW i \in Nat, i = Len(T), NEW d, NEW place \in {"end", "last"},
           InsertUnderWay(T, place, i, d)
    PROVE  Meaning(T) = {d}
<1>0. PICK n \in 1..MAX_COLUMNS : OnlyInsert(T, d, n)
    BY InsertIsWhole
<1>1. /\ IsInsert(T, n) /\ d = InsertCommand(T[3].text, ReadValues(T, n))
      /\ \A m \in 1..MAX_COLUMNS : IsInsert(T, m) => m = n
    BY <1>0 DEF OnlyInsert
<1>2. Inserts(T) = {n}
    BY <1>1 DEF Inserts
<1>3. Selects(T) = {}
    BY FirstToken DEF Selects
<1>4. /\ {InsertCommand(T[3].text, ReadValues(T, k)) : k \in Inserts(T)} = {d}
      /\ {ReadSelect(T, s[1], Condition(T, s[1], s[2])) : s \in Selects(T)} = {}
    BY <1>1, <1>2, <1>3
<1> QED
    BY <1>4, MeaningParts

LEMMA SelectIsMeant ==
    ASSUME NEW T, NEW i \in Nat, i = Len(T), NEW d, NEW place \in {"where", "end", "last"},
           SelectUnderWay(T, place, i, d)
    PROVE  Meaning(T) = {d}
<1>0. PICK n \in 1..MAX_COLUMNS, c \in {0, 4} : OnlySelect(T, d, n, c)
    BY SelectIsWhole
<1>1. /\ IsSelect(T, n, c) /\ d = ReadSelect(T, n, Condition(T, n, c))
      /\ \A m \in 1..MAX_COLUMNS, e \in {0, 4} : IsSelect(T, m, e) => m = n /\ e = c
    BY <1>0 DEF OnlySelect
<1>2. Selects(T) = {<<n, c>>}
  <2>1. <<n, c>> \in Selects(T)
    BY <1>1 DEF Selects
  <2>2. ASSUME NEW s \in Selects(T) PROVE s = <<n, c>>
    <3>1. PICK m \in 1..MAX_COLUMNS, e \in {0, 4} : s = <<m, e>>
      BY DEF Selects
    <3>2. IsSelect(T, m, e)
      BY <3>1 DEF Selects
    <3> QED
      BY <1>1, <3>1, <3>2
  <2> QED
    BY <2>1, <2>2
<1>3. Inserts(T) = {}
    BY FirstToken DEF Inserts
<1>4. /\ {InsertCommand(T[3].text, ReadValues(T, k)) : k \in Inserts(T)} = {}
      /\ {ReadSelect(T, s[1], Condition(T, s[1], s[2])) : s \in Selects(T)} = {d}
  <2>1. <<n, c>>[1] = n /\ <<n, c>>[2] = c
    OBVIOUS
  <2> QED
    BY <1>1, <1>2, <1>3, <2>1
<1> QED
    BY <1>4, MeaningParts

LEMMA NoMeaning ==
    ASSUME NEW T, \A m \in 1..MAX_COLUMNS : ~IsInsert(T, m),
           \A m \in 1..MAX_COLUMNS, c \in {0, 4} : ~IsSelect(T, m, c)
    PROVE  Meaning(T) = {}
<1>1. Inserts(T) = {} /\ Selects(T) = {}
    BY DEF Inserts, Selects
<1> QED
    BY <1>1, MeaningParts

-----------------------------------------------------------------------------
(* Each move leads on *)

\* The places of each command.
InsertPlaces == {"into", "insert table", "values", "open", "value", "separator", "end", "last"}
SelectPlaces == {"columns", "from", "comma", "column", "select table", "where",
                 "where column", "equal", "where value", "end", "last"}
LEMMA PlacesOf ==
    /\ \A T, place, i, d : InsertUnderWay(T, place, i, d) => place \in InsertPlaces
    /\ \A T, place, i, d : SelectUnderWay(T, place, i, d) => place \in SelectPlaces
<1>1. ASSUME NEW T, NEW place, NEW i, NEW d, InsertUnderWay(T, place, i, d)
      PROVE  place \in InsertPlaces
  <2>1. \A n : InValues(T, place, i, d, n) => place \in InsertPlaces
    BY DEF InValues, InsertPlaces
  <2>2. InHead(T, place, i, d) => place \in InsertPlaces
    BY DEF InHead, InsertPlaces
  <2> QED
    BY <1>1, <2>1, <2>2, Zenon DEF InsertUnderWay
<1>2. ASSUME NEW T, NEW place, NEW i, NEW d, SelectUnderWay(T, place, i, d)
      PROVE  place \in SelectPlaces
  <2>1. \A n : InList(T, place, i, d, n) => place \in SelectPlaces
    BY DEF InList, SelectPlaces
  <2>2. \A n : InTail(T, place, i, d, n) => place \in SelectPlaces
    BY DEF InTail, SelectPlaces
  <2> QED
    BY <1>2, <2>1, <2>2, Zenon DEF SelectUnderWay
<1> QED
    BY <1>1, <1>2

\* A keyword or a symbol leads from place a to place c, with what was read so far.
Suits(token, b) ==
    IF b \in DOMAIN Keywords THEN IsWord(token, b)
    ELSE token.type = b /\ (b = "*" => token.text = <<"*">>)
Marked(b, d) ==
    CASE b = "INSERT" -> InsertCommand(<<>>, <<>>)
      [] b = "SELECT" -> SelectCommand(<<>>, <<>>, <<>>)
      [] b = "*" -> [d EXCEPT !.columns = Star]
      [] OTHER -> d
Leads(a, b, c) ==
    \A T, d : \A i \in Nat :
        UnderWay(T, a, i, d) /\ Suits(T[i + 1], b) => UnderWay(T, c, i + 1, Marked(b, d))

\* The place tells which command is under way, but for the two they share.
LEMMA InsertsUnderWay ==
    /\ \A T, i, d : \A place \in InsertPlaces \ SelectPlaces :
            UnderWay(T, place, i, d) => InsertUnderWay(T, place, i, d)
    /\ \A T, i, d : \A place \in SelectPlaces \ InsertPlaces :
            UnderWay(T, place, i, d) => SelectUnderWay(T, place, i, d)
    /\ \A T, i, d : \A place \in {"end", "last"} :
            UnderWay(T, place, i, d) =>
                InsertUnderWay(T, place, i, d) \/ SelectUnderWay(T, place, i, d)
    /\ \A T, i, d : UnderWay(T, "statement", i, d) => i = 0 /\ d = NoCommand
<1>1. \A place \in InsertPlaces \cup SelectPlaces : place # "statement"
    BY DEF InsertPlaces, SelectPlaces
<1>2. "statement" \notin InsertPlaces /\ "statement" \notin SelectPlaces
    BY DEF InsertPlaces, SelectPlaces
<1> QED
    BY <1>1, <1>2, PlacesOf, Zenon DEF UnderWay

LEMMA KeywordsSuit ==
    /\ \A b \in {"INSERT", "INTO", "VALUES", "SELECT", "FROM", "WHERE"} : \A token :
            Suits(token, b) => IsWord(token, b)
    /\ \A b \in {"(", ",", ")", ";", "=", "*"} : \A token : Suits(token, b) => token.type = b
    /\ \A token : Suits(token, "*") => token.text = <<"*">>
<1>1. \A b \in {"(", ",", ")", ";", "=", "*"} : b \notin DOMAIN Keywords
    BY GrammarConstants
<1>2. \A b \in {"INSERT", "INTO", "VALUES", "SELECT", "FROM", "WHERE"} : b \in DOMAIN Keywords
    BY GrammarConstants
<1> QED
    BY <1>1, <1>2, Zenon DEF Suits

LEMMA MarkedAs ==
    ASSUME NEW d
    PROVE  /\ Marked("INSERT", d) = InsertCommand(<<>>, <<>>)
           /\ Marked("SELECT", d) = SelectCommand(<<>>, <<>>, <<>>)
           /\ Marked("*", d) = [d EXCEPT !.columns = Star]
           /\ \A b \in {"INTO", "VALUES", "FROM", "WHERE", "(", ",", ")", ";", "="} :
                Marked(b, d) = d
BY DEF Marked

LEMMA InsertLeads ==
    /\ Leads("into", "INTO", "insert table") /\ Leads("values", "VALUES", "open")
    /\ Leads("open", "(", "value") /\ Leads("separator", ",", "value")
    /\ Leads("separator", ")", "end")
<1>1. {"into", "values", "open", "separator"} \subseteq InsertPlaces \ SelectPlaces
    BY DEF InsertPlaces, SelectPlaces
<1> SUFFICES ASSUME NEW T, NEW d, NEW i \in Nat
             PROVE  /\ UnderWay(T, "into", i, d) /\ Suits(T[i + 1], "INTO") =>
                            UnderWay(T, "insert table", i + 1, Marked("INTO", d))
                    /\ UnderWay(T, "values", i, d) /\ Suits(T[i + 1], "VALUES") =>
                            UnderWay(T, "open", i + 1, Marked("VALUES", d))
                    /\ UnderWay(T, "open", i, d) /\ Suits(T[i + 1], "(") =>
                            UnderWay(T, "value", i + 1, Marked("(", d))
                    /\ UnderWay(T, "separator", i, d) /\ Suits(T[i + 1], ",") =>
                            UnderWay(T, "value", i + 1, Marked(",", d))
                    /\ UnderWay(T, "separator", i, d) /\ Suits(T[i + 1], ")") =>
                            UnderWay(T, "end", i + 1, Marked(")", d))
    BY Zenon DEF Leads
<1>2. \A b \in {"INTO", "VALUES", "(", ",", ")"} : Marked(b, d) = d
    BY MarkedAs
<1>3. \A place \in {"into", "values", "open", "separator"} :
        UnderWay(T, place, i, d) => InsertUnderWay(T, place, i, d)
    BY <1>1, InsertsUnderWay
<1>4. /\ Suits(T[i + 1], "INTO") => IsWord(T[i + 1], "INTO")
      /\ Suits(T[i + 1], "VALUES") => IsWord(T[i + 1], "VALUES")
      /\ \A b \in {"(", ",", ")"} : Suits(T[i + 1], b) => T[i + 1].type = b
    BY KeywordsSuit
<1>5. \A place : InsertUnderWay(T, place, i + 1, d) => UnderWay(T, place, i + 1, d)
    BY DEF UnderWay
<1> QED
    BY <1>2, <1>3, <1>4, <1>5, HeadIsRead, ValuesAreRead

LEMMA SelectLeads ==
    /\ Leads("columns", "*", "from") /\ Leads("comma", ",", "column")
    /\ Leads("comma", "FROM", "select table") /\ Leads("from", "FROM", "select table")
    /\ Leads("where", "WHERE", "where column") /\ Leads("where", ";", "last")
    /\ Leads("equal", "=", "where value")
<1>1. {"columns", "comma", "from", "where", "equal"} \subseteq SelectPlaces \ InsertPlaces
    BY DEF InsertPlaces, SelectPlaces
<1> SUFFICES ASSUME NEW T, NEW d, NEW i \in Nat
             PROVE  /\ UnderWay(T, "columns", i, d) /\ Suits(T[i + 1], "*") =>
                            UnderWay(T, "from", i + 1, Marked("*", d))
                    /\ UnderWay(T, "comma", i, d) /\ Suits(T[i + 1], ",") =>
                            UnderWay(T, "column", i + 1, Marked(",", d))
                    /\ \A place \in {"comma", "from"} :
                          UnderWay(T, place, i, d) /\ Suits(T[i + 1], "FROM") =>
                            UnderWay(T, "select table", i + 1, Marked("FROM", d))
                    /\ UnderWay(T, "where", i, d) /\ Suits(T[i + 1], "WHERE") =>
                            UnderWay(T, "where column", i + 1, Marked("WHERE", d))
                    /\ UnderWay(T, "where", i, d) /\ Suits(T[i + 1], ";") =>
                            UnderWay(T, "last", i + 1, Marked(";", d))
                    /\ UnderWay(T, "equal", i, d) /\ Suits(T[i + 1], "=") =>
                            UnderWay(T, "where value", i + 1, Marked("=", d))
    BY Zenon DEF Leads
<1>2. /\ \A b \in {"FROM", "WHERE", ";", ",", "="} : Marked(b, d) = d
      /\ Marked("*", d) = [d EXCEPT !.columns = Star]
    BY MarkedAs
<1>3. \A place \in {"columns", "comma", "from", "where", "equal"} :
        UnderWay(T, place, i, d) => SelectUnderWay(T, place, i, d)
    BY <1>1, InsertsUnderWay
<1>4. /\ Suits(T[i + 1], "FROM") => IsWord(T[i + 1], "FROM")
      /\ Suits(T[i + 1], "WHERE") => IsWord(T[i + 1], "WHERE")
      /\ \A b \in {";", ",", "=", "*"} : Suits(T[i + 1], b) => T[i + 1].type = b
      /\ Suits(T[i + 1], "*") => T[i + 1].text = <<"*">>
    BY KeywordsSuit
<1>5. \A place, e : SelectUnderWay(T, place, i + 1, e) => UnderWay(T, place, i + 1, e)
    BY DEF UnderWay
<1>6. UnderWay(T, "columns", i, d) /\ Suits(T[i + 1], "*") =>
        UnderWay(T, "from", i + 1, Marked("*", d))
    BY <1>2, <1>3, <1>4, <1>5, StarIsRead
<1>7. /\ UnderWay(T, "comma", i, d) /\ Suits(T[i + 1], ",") =>
            UnderWay(T, "column", i + 1, Marked(",", d))
      /\ \A place \in {"comma", "from"} :
            UnderWay(T, place, i, d) /\ Suits(T[i + 1], "FROM") =>
                UnderWay(T, "select table", i + 1, Marked("FROM", d))
    BY <1>2, <1>3, <1>4, <1>5, ListIsRead
<1>8. /\ UnderWay(T, "where", i, d) /\ Suits(T[i + 1], "WHERE") =>
            UnderWay(T, "where column", i + 1, Marked("WHERE", d))
      /\ UnderWay(T, "where", i, d) /\ Suits(T[i + 1], ";") =>
            UnderWay(T, "last", i + 1, Marked(";", d))
      /\ UnderWay(T, "equal", i, d) /\ Suits(T[i + 1], "=") =>
            UnderWay(T, "where value", i + 1, Marked("=", d))
    BY <1>2, <1>3, <1>4, <1>5, TailIsRead
<1> QED
    BY <1>6, <1>7, <1>8

LEMMA FirstLeads ==
    /\ Leads("statement", "INSERT", "into") /\ Leads("statement", "SELECT", "columns")
    /\ Leads("end", ";", "last")
<1>1. ASSUME NEW T, NEW d, NEW i \in Nat, UnderWay(T, "statement", i, d)
      PROVE  /\ Suits(T[i + 1], "INSERT") => UnderWay(T, "into", i + 1, Marked("INSERT", d))
             /\ Suits(T[i + 1], "SELECT") => UnderWay(T, "columns", i + 1, Marked("SELECT", d))
  <2>1. i + 1 = 1
    BY <1>1, InsertsUnderWay
  <2>2. /\ Suits(T[1], "INSERT") => IsWord(T[1], "INSERT")
        /\ Suits(T[1], "SELECT") => IsWord(T[1], "SELECT")
    BY KeywordsSuit
  <2>3. /\ Suits(T[1], "INSERT") => InsertUnderWay(T, "into", 1, InsertCommand(<<>>, <<>>))
        /\ Suits(T[1], "SELECT") => SelectUnderWay(T, "columns", 1, SelectCommand(<<>>, <<>>, <<>>))
    BY <2>2, HeadIsRead, SelectIsRead
  <2> QED
    BY <2>1, <2>3, MarkedAs, Zenon DEF UnderWay
<1>2. ASSUME NEW T, NEW d, NEW i \in Nat, UnderWay(T, "end", i, d), Suits(T[i + 1], ";")
      PROVE  UnderWay(T, "last", i + 1, Marked(";", d))
  <2>1. InsertUnderWay(T, "end", i, d) \/ SelectUnderWay(T, "end", i, d)
    BY <1>2, InsertsUnderWay
  <2>2. T[i + 1].type = ";"
    BY <1>2, KeywordsSuit
  <2>3. InsertUnderWay(T, "last", i + 1, d) \/ SelectUnderWay(T, "last", i + 1, d)
    BY <2>1, <2>2, ValuesAreRead, TailIsRead
  <2>4. Marked(";", d) = d
    BY MarkedAs
  <2> QED
    BY <2>3, <2>4 DEF UnderWay
<1> QED
    BY <1>1, <1>2, Zenon DEF Leads

\* The table of moves keeps a command under way.
LEMMA MovesLead == \A m \in Moves : Leads(m[1], m[2], m[3])
<1> DEFINE Good(m) == Leads(m[1], m[2], m[3])
<1>1. ASSUME NEW a, NEW b, NEW c, Leads(a, b, c) PROVE Good(<<a, b, c>>)
    BY <1>1, MoveParts, Zenon
<1> HIDE DEF Good
<1>2. \A m \in InsertMoves : Good(m)
    BY <1>1, InsertLeads, Zenon DEF InsertMoves
<1>3. \A m \in SelectMoves : Good(m)
    BY <1>1, SelectLeads, Zenon DEF SelectMoves
<1>4. \A m \in Moves : Good(m)
    BY <1>1, <1>2, <1>3, FirstLeads, Zenon DEF Moves
<1> QED
    BY <1>4 DEF Good

-----------------------------------------------------------------------------
(* The sentences and the answers of parse_sql *)

\* What has been parsed is a command under way.
Parsed ==
    /\ pc = "scan" => index = 0 /\ draft = NoCommand
    /\ pc \notin Returned \cup {"scan"} =>
        index \in Nat /\ index <= Len(tokens) /\ UnderWay(tokens, pc, index, draft)

SentenceInv == Typed /\ Scanned /\ Parsed /\ SentencesAreAccepted

LEMMA PlacesUnderWay ==
    \A T, place, i, d : UnderWay(T, place, i, d) => place \notin Returned \cup {"scan"}
<1>1. /\ \A place \in InsertPlaces \cup SelectPlaces \cup {"statement"} :
            place \notin Returned \cup {"scan"}
      /\ "statement" \notin Returned \cup {"scan"}
    BY DEF InsertPlaces, SelectPlaces, Returned
<1> QED
    BY <1>1, PlacesOf, Zenon DEF UnderWay

\* Scanned to the end, the text means what its tokens mean.
LEMMA SentenceOfTokens ==
    ASSUME Scanned, pc \notin Returned \cup {"scan"}
    PROVE  Sentence(text) = Meaning(tokens)
<1>1. Tokenize(text) = [ok |-> TRUE, tokens |-> tokens]
    BY DEF Scanned
<1>2. Tokenize(text).ok /\ Tokenize(text).tokens = tokens
    BY <1>1
<1> QED
    BY <1>2, Zenon DEF Sentence

\* A token is consumed.
LEMMA NextToken ==
    ASSUME SentenceInv, More, pc \notin Returned \cup {"scan"}
    PROVE  /\ index \in Nat /\ index + 1 <= Len(tokens) /\ Peek = tokens[index + 1]
           /\ UnderWay(tokens, pc, index, draft)
           /\ Peek.type = "*" => Peek.text = <<"*">>
<1>1. index \in Nat /\ UnderWay(tokens, pc, index, draft) /\ index < Len(tokens)
      /\ tokens \in Seq(Lexed(text)) /\ text \in Seq(Bytes)
    BY DEF SentenceInv, Parsed, Scanned, Typed, More
<1>2. Len(tokens) \in Nat /\ index + 1 \in 1..Len(tokens)
    BY <1>1
<1>3. tokens[index + 1] \in Lexed(text)
    BY <1>1, <1>2
<1> QED
    BY <1>1, <1>2, <1>3, LexedTypes DEF Peek

LEMMA ConsumeSentence ==
    ASSUME SentenceInv, More, pc \notin Returned \cup {"scan"}, Typed', NEW place,
           Consume(place), UnderWay(tokens, place, index + 1, draft')
    PROVE  SentenceInv'
<1>1. place \notin Returned \cup {"scan"}
    BY PlacesUnderWay
<1>2. index + 1 \in Nat /\ index + 1 <= Len(tokens)
    BY NextToken
<1>3. UNCHANGED <<text, at, tokens, command>> /\ index' = index + 1 /\ pc' = place
    BY DEF Consume
<1>4. Parsed'
    BY <1>1, <1>2, <1>3 DEF Parsed
<1>5. Scanned'
    BY <1>1, <1>3 DEF SentenceInv, Scanned
<1>6. SentencesAreAccepted'
    BY <1>1, <1>3 DEF SentenceInv, SentencesAreAccepted, Returned
<1> QED
    BY <1>4, <1>5, <1>6 DEF SentenceInv

\* One lemma for each step of the parser.
LEMMA MoveSentence ==
    ASSUME SentenceInv, Typed', NEW m \in Fitting, Consume(m[3]),
           m[2] \in DOMAIN Keywords \/ m[2] \in Symbols, draft' = Marked(m[2], draft)
    PROVE  SentenceInv'
<1>1. m \in Moves /\ m[1] = pc /\ IsNext(m[2]) /\ More
    BY DEF Fitting, IsNext
<1>2. pc \notin Returned \cup {"scan"}
  <2>1. Returned \cup {"scan"} = {"accepted", "rejected", "failed", "scan"}
    BY DEF Returned
  <2>2. \A a, b, c : a \notin {"accepted", "rejected", "failed", "scan"} =>
            <<a, b, c>>[1] \notin {"accepted", "rejected", "failed", "scan"}
    BY MoveParts
  <2> DEFINE Open(x) == x[1] \notin {"accepted", "rejected", "failed", "scan"}
  <2>3. ASSUME NEW a, NEW b, NEW c, a \notin {"accepted", "rejected", "failed", "scan"}
        PROVE  Open(<<a, b, c>>)
    BY <2>2, <2>3
  <2> HIDE DEF Open
  <2>4. \A x \in InsertMoves : Open(x)
    BY <2>3, Zenon DEF InsertMoves
  <2>5. \A x \in SelectMoves : Open(x)
    BY <2>3, Zenon DEF SelectMoves
  <2>6. \A x \in Moves : Open(x)
    BY <2>3, <2>4, <2>5, Zenon DEF Moves
  <2> QED
    BY <1>1, <2>1, <2>6 DEF Open
<1>3. /\ index \in Nat /\ Peek = tokens[index + 1] /\ UnderWay(tokens, pc, index, draft)
      /\ Peek.type = "*" => Peek.text = <<"*">>
    BY <1>1, <1>2, NextToken
<1>4. Suits(Peek, m[2])
    BY <1>1, <1>3, Zenon DEF IsNext, Suits
<1>5. UnderWay(tokens, m[3], index + 1, draft')
    BY <1>1, <1>3, <1>4, MovesLead, Zenon DEF Leads
<1> QED
    BY <1>1, <1>2, <1>5, ConsumeSentence

LEMMA MatchKeywordSentence == ASSUME SentenceInv, Typed', MatchKeyword PROVE SentenceInv'
<1>1. PICK m \in Fitting :
        /\ m[2] \in DOMAIN Keywords
        /\ Consume(m[3])
        /\ draft' = CASE m[2] = "INSERT" -> InsertCommand(<<>>, <<>>)
                      [] m[2] = "SELECT" -> SelectCommand(<<>>, <<>>, <<>>)
                      [] OTHER -> draft
    BY DEF MatchKeyword
<1>2. m[2] # "*"
    BY <1>1, GrammarConstants
<1>3. draft' = Marked(m[2], draft)
    BY <1>1, <1>2 DEF Marked
<1> QED
    BY <1>1, <1>3, MoveSentence

LEMMA MatchTokenTypeSentence == ASSUME SentenceInv, Typed', MatchTokenType PROVE SentenceInv'
<1>1. PICK m \in Fitting :
        /\ m[2] \in Symbols
        /\ Consume(m[3])
        /\ draft' = IF m[2] = "*" THEN [draft EXCEPT !.columns = Star] ELSE draft
    BY DEF MatchTokenType
<1>2. m[2] # "INSERT" /\ m[2] # "SELECT"
    BY <1>1 DEF Symbols
<1>3. draft' = Marked(m[2], draft)
    BY <1>1, <1>2 DEF Marked
<1> QED
    BY <1>1, <1>3, MoveSentence

\* A name or a value is added to what was read.
LEMMA NamesLead ==
    ASSUME NEW T, NEW i \in Nat, NEW d, NEW token, token = T[i + 1], IsName(token), NEW e
    PROVE  /\ InsertUnderWay(T, "insert table", i, d) /\ e = [d EXCEPT !.table = token.text] =>
                InsertUnderWay(T, "values", i + 1, e)
           /\ \A place \in {"columns", "column"} :
                /\ SelectUnderWay(T, place, i, d) /\ Len(d.columns) < MAX_COLUMNS
                /\ e = [d EXCEPT !.columns = Append(@, token.text)]
                => SelectUnderWay(T, "comma", i + 1, e)
           /\ SelectUnderWay(T, "select table", i, d) /\ e = [d EXCEPT !.table = token.text] =>
                SelectUnderWay(T, "where", i + 1, e)
           /\ SelectUnderWay(T, "where column", i, d) /\ e = [d EXCEPT !.where = <<token.text>>] =>
                SelectUnderWay(T, "equal", i + 1, e)
<1>1. InsertUnderWay(T, "insert table", i, d) =>
        InsertUnderWay(T, "values", i + 1, [d EXCEPT !.table = token.text])
    BY HeadIsRead, Zenon
<1>2. /\ SelectUnderWay(T, "select table", i, d) =>
            SelectUnderWay(T, "where", i + 1, [d EXCEPT !.table = token.text])
      /\ SelectUnderWay(T, "where column", i, d) =>
            SelectUnderWay(T, "equal", i + 1, [d EXCEPT !.where = <<token.text>>])
    BY TailIsRead, Zenon
<1>3. \A place \in {"columns", "column"} :
        SelectUnderWay(T, place, i, d) /\ Len(d.columns) < MAX_COLUMNS =>
            SelectUnderWay(T, "comma", i + 1, [d EXCEPT !.columns = Append(@, token.text)])
    BY ColumnIsAdded, Zenon
<1> QED
    BY <1>1, <1>2, <1>3, Zenon

LEMMA ValuesLead ==
    ASSUME NEW T, NEW i \in Nat, NEW d, NEW token, token = T[i + 1], IsValue(token), NEW e
    PROVE  /\ /\ InsertUnderWay(T, "value", i, d) /\ Len(d.values) < MAX_COLUMNS
              /\ e = [d EXCEPT !.values = Append(@, token.text)]
              => InsertUnderWay(T, "separator", i + 1, e)
           /\ /\ SelectUnderWay(T, "where value", i, d)
              /\ e = [d EXCEPT !.where = Append(@, token.text)]
              => SelectUnderWay(T, "end", i + 1, e)
<1>1. InsertUnderWay(T, "value", i, d) /\ Len(d.values) < MAX_COLUMNS =>
        InsertUnderWay(T, "separator", i + 1, [d EXCEPT !.values = Append(@, token.text)])
    BY ValueIsAdded, Zenon
<1>2. SelectUnderWay(T, "where value", i, d) =>
        SelectUnderWay(T, "end", i + 1, [d EXCEPT !.where = Append(@, token.text)])
    BY TailIsRead, Zenon
<1> QED
    BY <1>1, <1>2, Zenon

LEMMA ParseIdentifierSentence == ASSUME SentenceInv, Typed', ParseIdentifier PROVE SentenceInv'
<1>1. /\ More /\ IsName(Peek) /\ draft' = Drafted(pc, Peek.text) /\ Consume(After[pc])
      /\ pc \in {"columns", "column"} => Len(draft.columns) < MAX_COLUMNS
      /\ pc \in {"insert table", "columns", "column", "select table", "where column"}
    BY DEF ParseIdentifier, NameFits
<1>2. pc \notin Returned \cup {"scan"}
    BY <1>1 DEF Returned
<1>3. index \in Nat /\ Peek = tokens[index + 1] /\ UnderWay(tokens, pc, index, draft)
    BY <1>1, <1>2, NextToken
<1>4. CASE pc = "insert table"
  <2>1. InsertUnderWay(tokens, pc, index, draft)
    BY <1>3, <1>4, InsertsUnderWay DEF InsertPlaces, SelectPlaces
  <2>2. draft' = [draft EXCEPT !.table = Peek.text]
    BY <1>1, <1>4 DEF Drafted
  <2>3. InsertUnderWay(tokens, "values", index + 1, draft')
    BY <1>1, <1>3, <1>4, <2>1, <2>2, NamesLead
  <2> QED
    BY <1>1, <1>2, <1>4, <2>3, AfterFacts, ConsumeSentence DEF UnderWay
<1>5. CASE pc \in {"columns", "column"}
  <2>1. SelectUnderWay(tokens, pc, index, draft)
    BY <1>3, <1>5, InsertsUnderWay DEF InsertPlaces, SelectPlaces
  <2>2. draft' = [draft EXCEPT !.columns = Append(@, Peek.text)]
    BY <1>1, <1>5 DEF Drafted
  <2>3. SelectUnderWay(tokens, "comma", index + 1, draft')
    BY <1>1, <1>3, <1>5, <2>1, <2>2, NamesLead
  <2> QED
    BY <1>1, <1>2, <1>5, <2>3, AfterFacts, ConsumeSentence DEF UnderWay
<1>6. CASE pc = "select table"
  <2>1. SelectUnderWay(tokens, pc, index, draft)
    BY <1>3, <1>6, InsertsUnderWay DEF InsertPlaces, SelectPlaces
  <2>2. draft' = [draft EXCEPT !.table = Peek.text]
    BY <1>1, <1>6 DEF Drafted
  <2>3. SelectUnderWay(tokens, "where", index + 1, draft')
    BY <1>1, <1>3, <1>6, <2>1, <2>2, NamesLead
  <2> QED
    BY <1>1, <1>2, <1>6, <2>3, AfterFacts, ConsumeSentence DEF UnderWay
<1>7. CASE pc = "where column"
  <2>1. SelectUnderWay(tokens, pc, index, draft)
    BY <1>3, <1>7, InsertsUnderWay DEF InsertPlaces, SelectPlaces
  <2>2. draft' = [draft EXCEPT !.where = <<Peek.text>>]
    BY <1>1, <1>7 DEF Drafted
  <2>3. SelectUnderWay(tokens, "equal", index + 1, draft')
    BY <1>1, <1>3, <1>7, <2>1, <2>2, NamesLead
  <2> QED
    BY <1>1, <1>2, <1>7, <2>3, AfterFacts, ConsumeSentence DEF UnderWay
<1> QED
    BY <1>1, <1>4, <1>5, <1>6, <1>7

LEMMA ParseValueTokenSentence == ASSUME SentenceInv, Typed', ParseValueToken PROVE SentenceInv'
<1>1. /\ More /\ IsValue(Peek) /\ draft' = Drafted(pc, Peek.text) /\ Consume(After[pc])
      /\ pc = "value" => Len(draft.values) < MAX_COLUMNS
      /\ pc \in {"value", "where value"}
    BY DEF ParseValueToken, ValueFits
<1>2. pc \notin Returned \cup {"scan"}
    BY <1>1 DEF Returned
<1>3. index \in Nat /\ Peek = tokens[index + 1] /\ UnderWay(tokens, pc, index, draft)
    BY <1>1, <1>2, NextToken
<1>4. CASE pc = "value"
  <2>1. InsertUnderWay(tokens, pc, index, draft)
    BY <1>3, <1>4, InsertsUnderWay DEF InsertPlaces, SelectPlaces
  <2>2. draft' = [draft EXCEPT !.values = Append(@, Peek.text)]
    BY <1>1, <1>4 DEF Drafted
  <2>3. InsertUnderWay(tokens, "separator", index + 1, draft')
    BY <1>1, <1>3, <1>4, <2>1, <2>2, ValuesLead
  <2> QED
    BY <1>1, <1>2, <1>4, <2>3, AfterFacts, ConsumeSentence DEF UnderWay
<1>5. CASE pc = "where value"
  <2>1. SelectUnderWay(tokens, pc, index, draft)
    BY <1>3, <1>5, InsertsUnderWay DEF InsertPlaces, SelectPlaces
  <2>2. draft' = [draft EXCEPT !.where = Append(@, Peek.text)]
    BY <1>1, <1>5 DEF Drafted
  <2>3. SelectUnderWay(tokens, "end", index + 1, draft')
    BY <1>1, <1>3, <1>5, <2>1, <2>2, ValuesLead
  <2> QED
    BY <1>1, <1>2, <1>5, <2>3, AfterFacts, ConsumeSentence DEF UnderWay
<1> QED
    BY <1>1, <1>4, <1>5

\* What parse_sql returns, with the answer the text has.
LEMMA ReleaseSentence ==
    ASSUME SentenceInv, Typed', NEW result \in Returned, Release(result), UNCHANGED <<text, at>>,
           result = "accepted" => Sentence(text) = {command'},
           result = "rejected" => Sentence(text) = {},
           result # "accepted" => command' = NoCommand
    PROVE  SentenceInv'
<1>1. pc' = result /\ tokens' = <<>> /\ UNCHANGED text
    BY DEF Release
<1>2. pc' \in Returned /\ pc' # "scan"
    BY <1>1 DEF Returned
<1>3. Scanned' /\ Parsed'
    BY <1>1, <1>2 DEF Scanned, Parsed
<1>4. SentencesAreAccepted'
  <2>1. Sentence(text)' = Sentence(text)
    BY <1>1
  <2> QED
    BY <1>1, <2>1 DEF SentencesAreAccepted
<1> QED
    BY <1>3, <1>4 DEF SentenceInv

LEMMA NoCommandYet == ASSUME SentenceInv, pc \notin Returned PROVE command = NoCommand
BY DEF SentenceInv, SentencesAreAccepted, Returned

LEMMA AcceptSentence == ASSUME SentenceInv, Typed', Accept PROVE SentenceInv'
<1>1. /\ pc \in {"end", "where", "last"} /\ ~More /\ command' = draft /\ Release("accepted")
      /\ UNCHANGED <<text, at>>
    BY DEF Accept, Complete
<1>2. pc \notin Returned \cup {"scan"}
    BY <1>1 DEF Returned
<1>3. /\ index \in Nat /\ UnderWay(tokens, pc, index, draft) /\ index = Len(tokens)
  <2>1. index \in Nat /\ index <= Len(tokens) /\ UnderWay(tokens, pc, index, draft)
    BY <1>2 DEF SentenceInv, Parsed
  <2>2. Len(tokens) \in Nat
    BY DEF SentenceInv, Scanned
  <2> QED
    BY <1>1, <2>1, <2>2 DEF More
<1>4. \/ InsertUnderWay(tokens, pc, index, draft) /\ pc \in {"end", "last"}
      \/ SelectUnderWay(tokens, pc, index, draft)
    BY <1>1, <1>3, InsertsUnderWay DEF InsertPlaces, SelectPlaces
<1>5. Meaning(tokens) = {draft}
    BY <1>1, <1>3, <1>4, InsertIsMeant, SelectIsMeant
<1>6. Sentence(text) = {command'}
    BY <1>1, <1>2, <1>5, SentenceOfTokens DEF SentenceInv
<1> QED
    BY <1>1, <1>6, ReleaseSentence DEF Returned

\* Where nothing fits, the token is none of those that could come.
LEMMA NothingFits ==
    ASSUME Fitting = {}, More
    PROVE  /\ pc = "statement" => ~IsWord(Peek, "INSERT") /\ ~IsWord(Peek, "SELECT")
           /\ pc = "into" => ~IsWord(Peek, "INTO")
           /\ pc = "values" => ~IsWord(Peek, "VALUES")
           /\ pc = "open" => Peek.type # "("
           /\ pc = "separator" => Peek.type \notin {",", ")"}
           /\ pc = "columns" => Peek.type # "*"
           /\ pc = "comma" => Peek.type # "," /\ ~IsWord(Peek, "FROM")
           /\ pc = "from" => ~IsWord(Peek, "FROM")
           /\ pc = "where" => Peek.type # ";" /\ ~IsWord(Peek, "WHERE")
           /\ pc = "equal" => Peek.type # "="
           /\ pc = "end" => Peek.type # ";"
<1>1. \A m \in Moves : m[1] = pc => ~IsNext(m[2])
    BY DEF Fitting
<1>2. ASSUME NEW a, NEW b, NEW c, <<a, b, c>> \in Moves PROVE a = pc => ~IsNext(b)
    BY <1>1, <1>2, MoveParts
<1>3. /\ \A b \in {"INSERT", "INTO", "VALUES", "SELECT", "FROM", "WHERE"} :
            IsWord(Peek, b) => IsNext(b)
      /\ \A b \in {"(", ",", ")", ";", "=", "*"} : Peek.type = b => IsNext(b)
  <2>1. \A b \in {"(", ",", ")", ";", "=", "*"} : b \notin DOMAIN Keywords
    BY GrammarConstants
  <2>2. \A b \in {"INSERT", "INTO", "VALUES", "SELECT", "FROM", "WHERE"} : b \in DOMAIN Keywords
    BY GrammarConstants
  <2> QED
    BY <2>1, <2>2, Zenon DEF IsNext
<1>4. /\ pc = "statement" => ~IsNext("INSERT") /\ ~IsNext("SELECT")
      /\ pc = "end" => ~IsNext(";")
    BY <1>2, Zenon DEF Moves
<1>5. /\ pc = "into" => ~IsNext("INTO")
      /\ pc = "values" => ~IsNext("VALUES")
      /\ pc = "open" => ~IsNext("(")
      /\ pc = "separator" => ~IsNext(",") /\ ~IsNext(")")
  <2>1. /\ <<"into", "INTO", "insert table">> \in Moves
        /\ <<"values", "VALUES", "open">> \in Moves
        /\ <<"open", "(", "value">> \in Moves
        /\ <<"separator", ",", "value">> \in Moves /\ <<"separator", ")", "end">> \in Moves
    BY Zenon DEF Moves, InsertMoves
  <2> QED
    BY <1>2, <2>1, Zenon
<1>6. /\ pc = "columns" => ~IsNext("*")
      /\ pc = "comma" => ~IsNext(",") /\ ~IsNext("FROM")
      /\ pc = "from" => ~IsNext("FROM")
      /\ pc = "where" => ~IsNext(";") /\ ~IsNext("WHERE")
      /\ pc = "equal" => ~IsNext("=")
  <2>1. /\ <<"columns", "*", "from">> \in Moves
        /\ <<"comma", ",", "column">> \in Moves
        /\ <<"comma", "FROM", "select table">> \in Moves
        /\ <<"from", "FROM", "select table">> \in Moves
        /\ <<"where", "WHERE", "where column">> \in Moves /\ <<"where", ";", "last">> \in Moves
        /\ <<"equal", "=", "where value">> \in Moves
    BY Zenon DEF Moves, SelectMoves
  <2> QED
    BY <1>2, <2>1, Zenon
<1> QED
    BY <1>3, <1>4, <1>5, <1>6

LEMMA RejectSentence == ASSUME SentenceInv, Typed', Reject PROVE SentenceInv'
<1>1. /\ pc \notin Returned \cup {"scan"} /\ ~NameFits /\ ~ValueFits /\ ~Complete
      /\ Fitting = {} /\ Release("rejected") /\ UNCHANGED <<text, at, command>>
    BY DEF Reject, Returned
<1>2. /\ index \in Nat /\ index <= Len(tokens) /\ Len(tokens) \in Nat
      /\ UnderWay(tokens, pc, index, draft)
      /\ index < Len(tokens) <=> More
      /\ Peek = tokens[index + 1]
  <2>1. index \in Nat /\ index <= Len(tokens) /\ UnderWay(tokens, pc, index, draft)
    BY <1>1 DEF SentenceInv, Parsed
  <2>2. Len(tokens) \in Nat
    BY DEF SentenceInv, Scanned
  <2> QED
    BY <2>1, <2>2 DEF More, Peek
<1>3. More => /\ pc = "statement" => ~IsWord(Peek, "INSERT") /\ ~IsWord(Peek, "SELECT")
              /\ pc = "into" => ~IsWord(Peek, "INTO")
              /\ pc = "values" => ~IsWord(Peek, "VALUES")
              /\ pc = "open" => Peek.type # "("
              /\ pc = "separator" => Peek.type \notin {",", ")"}
              /\ pc = "columns" => Peek.type # "*"
              /\ pc = "comma" => Peek.type # "," /\ ~IsWord(Peek, "FROM")
              /\ pc = "from" => ~IsWord(Peek, "FROM")
              /\ pc = "where" => Peek.type # ";" /\ ~IsWord(Peek, "WHERE")
              /\ pc = "equal" => Peek.type # "="
              /\ pc = "end" => Peek.type # ";"
    BY <1>1, NothingFits
<1>4. /\ pc \in {"insert table", "select table", "where column"} => ~(More /\ IsName(Peek))
      /\ pc \in {"columns", "column"} =>
            ~(More /\ IsName(Peek) /\ Len(draft.columns) < MAX_COLUMNS)
      /\ pc = "value" => ~(More /\ IsValue(Peek) /\ Len(draft.values) < MAX_COLUMNS)
      /\ pc = "where value" => ~(More /\ IsValue(Peek))
      /\ pc \in {"end", "where", "last"} => More
    BY <1>1 DEF NameFits, ValueFits, Complete
<1>5. ASSUME NEW m \in 1..MAX_COLUMNS, IsInsert(tokens, m) PROVE FALSE
  <2>1. m \in Nat /\ m > 0 /\ m <= MAX_COLUMNS
    BY MaxColumns
  <2>2. ~SelectUnderWay(tokens, pc, index, draft) /\ IsWord(tokens[1], "INSERT")
    BY <1>5, FirstToken
  <2>3. CASE pc = "statement"
    <3>1. index = 0
      BY <1>2, <2>3, InsertsUnderWay
    <3>2. Len(tokens) = 5 + 2 * m \/ Len(tokens) = 6 + 2 * m
      BY <1>2, <1>5, <2>1, LengthOfInsert, Zenon
    <3>3. index < Len(tokens) /\ index + 1 = 1
      BY <1>2, <2>1, <3>1, <3>2
    <3> QED
      BY <1>2, <1>3, <2>2, <2>3, <3>3
  <2>4. CASE InsertUnderWay(tokens, pc, index, draft)
    <3>1. /\ pc = "into" => index < Len(tokens) /\ IsWord(Peek, "INTO")
          /\ pc = "insert table" => index < Len(tokens) /\ IsName(Peek)
          /\ pc = "values" => index < Len(tokens) /\ IsWord(Peek, "VALUES")
          /\ pc = "open" => index < Len(tokens) /\ Peek.type = "("
          /\ pc = "value" => /\ index < Len(tokens) /\ IsValue(Peek)
                             /\ Len(draft.values) < MAX_COLUMNS
          /\ pc = "separator" => index < Len(tokens) /\ Peek.type \in {",", ")"}
          /\ pc = "end" => index = Len(tokens) \/ (index < Len(tokens) /\ Peek.type = ";")
          /\ pc = "last" => index = Len(tokens)
      <4>1. InsertExpects(tokens, Len(tokens), pc, index, draft)
        BY <1>2, <1>5, <2>1, <2>4, InsertGoesOn
      <4> QED
        BY <1>2, <4>1 DEF InsertExpects
    <3>2. pc \in InsertPlaces
      BY <2>4, PlacesOf
    <3>3. index = Len(tokens) => ~More
      BY <1>2
    <3> QED
      BY <1>2, <1>3, <1>4, <3>1, <3>2, <3>3 DEF InsertPlaces
  <2> QED
    BY <1>2, <2>2, <2>3, <2>4 DEF UnderWay
<1>6. ASSUME NEW m \in 1..MAX_COLUMNS, NEW c \in {0, 4}, IsSelect(tokens, m, c) PROVE FALSE
  <2>1. m \in Nat /\ m > 0 /\ m <= MAX_COLUMNS
    BY MaxColumns
  <2>2. ~InsertUnderWay(tokens, pc, index, draft) /\ IsWord(tokens[1], "SELECT")
    BY <1>6, FirstToken
  <2>3. CASE pc = "statement"
    <3>1. index = 0
      BY <1>2, <2>3, InsertsUnderWay
    <3>2. /\ c = 0 => Len(tokens) = 2 * m + 2 \/ Len(tokens) = 2 * m + 3
          /\ c = 4 => Len(tokens) = 2 * m + 6 \/ Len(tokens) = 2 * m + 7
      BY <1>2, <1>6, <2>1, LengthsOfSelect, Zenon
    <3>3. index < Len(tokens) /\ index + 1 = 1
      BY <1>2, <2>1, <3>1, <3>2
    <3> QED
      BY <1>2, <1>3, <2>2, <2>3, <3>3
  <2>4. CASE SelectUnderWay(tokens, pc, index, draft)
    <3>1. /\ pc = "columns" =>
                /\ index < Len(tokens)
                /\ Peek.type = "*" \/ (IsName(Peek) /\ Len(draft.columns) < MAX_COLUMNS)
          /\ pc = "from" => index < Len(tokens) /\ IsWord(Peek, "FROM")
          /\ pc = "comma" => index < Len(tokens) /\ (Peek.type = "," \/ IsWord(Peek, "FROM"))
          /\ pc = "column" => /\ index < Len(tokens) /\ IsName(Peek)
                              /\ Len(draft.columns) < MAX_COLUMNS
      BY <1>2, <1>6, <2>1, <2>4, ListGoesOn, Zenon
    <3>2. /\ pc = "select table" => index < Len(tokens) /\ IsName(Peek)
          /\ pc = "where" => \/ index = Len(tokens)
                             \/ /\ index < Len(tokens)
                                /\ Peek.type = ";" \/ IsWord(Peek, "WHERE")
          /\ pc = "where column" => index < Len(tokens) /\ IsName(Peek)
          /\ pc = "equal" => index < Len(tokens) /\ Peek.type = "="
          /\ pc = "where value" => index < Len(tokens) /\ IsValue(Peek)
          /\ pc = "end" => index = Len(tokens) \/ (index < Len(tokens) /\ Peek.type = ";")
          /\ pc = "last" => index = Len(tokens)
      <4>1. TailExpects(tokens, Len(tokens), pc, index)
        BY <1>2, <1>6, <2>1, <2>4, TailGoesOn
      <4> QED
        BY <1>2, <4>1 DEF TailExpects
    <3>3. pc \in SelectPlaces
      BY <2>4, PlacesOf
    <3>4. index = Len(tokens) => ~More
      BY <1>2
    <3> QED
      BY <1>2, <1>3, <1>4, <3>1, <3>2, <3>3, <3>4 DEF SelectPlaces
  <2> QED
    BY <1>2, <2>2, <2>3, <2>4 DEF UnderWay
<1>7. Meaning(tokens) = {}
    BY <1>5, <1>6, NoMeaning
<1>8. Sentence(text) = {}
    BY <1>1, <1>7, SentenceOfTokens DEF SentenceInv
<1>9. command' = NoCommand
    BY <1>1, NoCommandYet
<1> QED
    BY <1>1, <1>8, <1>9, ReleaseSentence DEF Returned

LEMMA ScanSentence ==
    ASSUME SentenceInv, Typed', ScanToken \/ ScanFails \/ ReallocFails \/ ScanEnds
    PROVE  SentenceInv'
<1>1. pc = "scan" /\ pc \notin Returned /\ index = 0 /\ draft = NoCommand /\ command = NoCommand
  <2>1. pc = "scan"
    BY DEF ScanToken, ScanFails, ReallocFails, ScanEnds
  <2> QED
    BY <2>1, NoCommandYet DEF SentenceInv, Parsed, Returned
<1>2. CASE ScanToken
  <2>1. Scanned'
    BY <1>2, ScanTokenScanned DEF SentenceInv
  <2>2. UNCHANGED <<text, index, pc, draft, command>>
    BY <1>2 DEF ScanToken
  <2> QED
    BY <1>1, <2>1, <2>2 DEF SentenceInv, Parsed, SentencesAreAccepted
<1>3. CASE ScanFails
  <2>1. Sentence(text) = {}
    BY <1>3, ScanFailsRefused DEF SentenceInv
  <2> QED
    BY <1>1, <1>3, <2>1, ReleaseSentence DEF ScanFails, Returned
<1>4. CASE ReallocFails
    BY <1>1, <1>4, ReleaseSentence DEF ReallocFails, Returned
<1>5. CASE ScanEnds
  <2>1. Scanned'
    BY <1>5, ScanEndsScanned DEF SentenceInv
  <2>2. pc' = "statement" /\ UNCHANGED <<text, tokens, index, draft, command>>
    BY <1>5 DEF ScanEnds
  <2>3. Len(tokens) \in Nat
    BY DEF SentenceInv, Scanned
  <2>4. index' \in Nat /\ index' <= Len(tokens')
    BY <1>1, <2>2, <2>3
  <2>5. UnderWay(tokens', pc', index', draft')
    BY <1>1, <2>2 DEF UnderWay
  <2>6. Parsed'
    BY <2>2, <2>4, <2>5 DEF Parsed
  <2> QED
    BY <1>1, <2>1, <2>2, <2>6 DEF SentenceInv, SentencesAreAccepted
<1> QED
    BY <1>2, <1>3, <1>4, <1>5

LEMMA OtherSentence == ASSUME SentenceInv, Typed', UNCHANGED parserVars PROVE SentenceInv'
<1>1. Scanned'
    BY DEF SentenceInv, Scanned, Rest, parserVars
<1>2. Parsed'
    BY DEF SentenceInv, Parsed, parserVars
<1>3. SentencesAreAccepted'
    BY DEF SentenceInv, SentencesAreAccepted, parserVars
<1> QED
    BY <1>1, <1>2, <1>3 DEF SentenceInv

LEMMA InitSentence == Init => SentenceInv
<1> SUFFICES ASSUME Init PROVE SentenceInv
    OBVIOUS
<1>1. pc = "scan" /\ index = 0 /\ draft = NoCommand /\ command = NoCommand
    BY DEF Init, ParserInit
<1> QED
    BY <1>1, InitInv, ScannedInit DEF IInv, SentenceInv, Parsed, SentencesAreAccepted

LEMMA StepSentence == IInv /\ SentenceInv /\ [Next]_vars => SentenceInv'
<1> SUFFICES ASSUME IInv, SentenceInv, [Next]_vars PROVE SentenceInv'
    OBVIOUS
<1>1. Typed'
    BY StepInv DEF IInv
<1>2. CASE ScanToken \/ ScanFails \/ ReallocFails \/ ScanEnds
    BY <1>1, <1>2, ScanSentence
<1>3. CASE MatchKeyword \/ MatchTokenType
    BY <1>1, <1>3, MatchKeywordSentence, MatchTokenTypeSentence
<1>4. CASE ParseIdentifier \/ ParseValueToken
    BY <1>1, <1>4, ParseIdentifierSentence, ParseValueTokenSentence
<1>5. CASE Accept \/ Reject
    BY <1>1, <1>5, AcceptSentence, RejectSentence
<1>6. CASE UNCHANGED parserVars
    BY <1>1, <1>6, OtherSentence
<1>7. UNCHANGED parserVars \/ ParserNext
  <2>1. CASE Parses
    BY <2>1 DEF Parses
  <2>2. CASE Opens \/ LoadsSchema \/ Over \/ UNCHANGED vars
    BY <2>2, Zenon DEF Opens, LoadsSchema, Over, vars
  <2>3. CASE NotParsed \/ NotLoaded \/ CountDiffers \/ CastFails \/ RejectSelect \/ CastValue
    BY <2>3, Zenon
    DEF NotParsed, NotLoaded, CountDiffers, CastFails, RejectSelect, CastValue, Rejects, Outcome
  <2>4. CASE PlanInsert \/ PlanSelect
    BY <2>4, Zenon DEF PlanInsert, PlanSelect, Plans, Rejects, Outcome
  <2> QED
    BY <2>1, <2>2, <2>3, <2>4 DEF Next
<1> QED
    BY <1>2, <1>3, <1>4, <1>5, <1>6, <1>7 DEF ParserNext

\* For every text: parse_sql accepts it exactly when it is a sentence, and hands over
\* the one command its tokens stand for; a text it refuses is no sentence, and the
\* caller's command is assigned on success only (parser.c:440-526, 578-651).
THEOREM SentencesAlwaysAccepted == Spec => []SentencesAreAccepted
<1>1. SentenceInv => SentencesAreAccepted
    BY DEF SentenceInv
<1> QED
    BY InitInv, StepInv, InitSentence, StepSentence, <1>1, PTL DEF Spec

-----------------------------------------------------------------------------
(* The pieces of a schema file *)

Texts == Seq(Bytes)

LEMMA AppendAfter ==
    \A a, b \in Seq(Texts), c \in Texts : Append(a \o b, c) = a \o Append(b, c)
<1> SUFFICES ASSUME NEW a \in Seq(Texts), NEW b \in Seq(Texts), NEW c \in Texts
             PROVE  Append(a \o b, c) = a \o Append(b, c)
    OBVIOUS
<1>1. a \o b \in Seq(Texts) /\ <<c>> \in Seq(Texts)
    BY ConcatProperties
<1>2. (a \o b) \o <<c>> = a \o (b \o <<c>>)
    BY <1>1, ConcatAssociative
<1> QED
    BY <1>1, <1>2, AppendIsConcat

Cutting == INSTANCE FoldFacts WITH Op <- LAMBDA p, pieces, byte : WithLetter(pieces, byte),
                                   Base <- LAMBDA p : p
Columning == INSTANCE FoldFacts WITH Op <- LAMBDA p, columns, piece : WithColumn(columns, piece),
                                     Base <- LAMBDA p : p
ColumnsRead(ps) == FoldLeft(WithColumn, <<>>, ps)

LEMMA LoaderFolds ==
    /\ \A t : Pieces(t) = Cutting!Fold(<<<<>>>>, t)
    /\ \A ps : ColumnsRead(ps) = Columning!Fold(<<>>, ps)
    /\ \A t : SchemaOf(t) = ColumnsRead(Pieces(t))
<1>1. \A t : Pieces(t) = Cutting!Fold(<<<<>>>>, t)
    BY DEF Pieces, Cutting!Fold, FoldLeft, Cutting!FoldLeft, MapThenFoldSet,
           Cutting!MapThenFoldSet, Max, Cutting!Max
<1>2. \A ps : ColumnsRead(ps) = Columning!Fold(<<>>, ps)
    BY DEF ColumnsRead, Columning!Fold, FoldLeft, Columning!FoldLeft, MapThenFoldSet,
           Columning!MapThenFoldSet, Max, Columning!Max
<1> QED
    BY <1>1, <1>2 DEF SchemaOf, ColumnsRead

\* A byte ends the last piece or is added to it.
LEMMA LetterIsAdded ==
    ASSUME NEW f \in Seq(Texts), NEW x \in Texts, NEW byte \in Bytes
    PROVE  WithLetter(Append(f, x), byte) =
               IF byte = NL THEN Append(Append(f, x), <<>>) ELSE Append(f, Append(x, byte))
<1> DEFINE ps == Append(f, x)
           qs == Append(f, Append(x, byte))
           n == Len(f) + 1
<1>1. /\ Len(f) \in Nat /\ ps \in Seq(Texts) /\ qs \in Seq(Texts) /\ Append(x, byte) \in Texts
      /\ Len(ps) = n /\ Len(qs) = n /\ ps[n] = x /\ qs[n] = Append(x, byte)
      /\ \A i \in 1..Len(f) : ps[i] = f[i] /\ qs[i] = f[i]
    BY DEF Texts
<1> HIDE DEF ps, qs
<1>2. [ps EXCEPT ![n] = Append(@, byte)] \in Seq(Texts)
    BY <1>1
<1>3. [ps EXCEPT ![n] = Append(@, byte)] = qs
  <2> DEFINE rs == [ps EXCEPT ![n] = Append(@, byte)]
  <2>1. DOMAIN rs = 1..n /\ DOMAIN qs = 1..n /\ n \in Nat /\ Len(rs) = n
    BY <1>1
  <2>2. \A i \in 1..n : rs[i] = qs[i]
    BY <1>1, <2>1
  <2> HIDE DEF rs
  <2> QED
    BY <1>1, <1>2, <2>1, <2>2, SeqEqual DEF rs
<1> QED
    BY <1>1, <1>3 DEF WithLetter, ps, qs

LEMMA PiecesOfMore ==
    /\ Pieces(<<>>) = <<<<>>>>
    /\ \A s \in Texts, byte \in Bytes : Pieces(Append(s, byte)) = WithLetter(Pieces(s), byte)
<1>1. Pieces(<<>>) = <<<<>>>>
    BY LoaderFolds, Cutting!FoldOfNone
<1>2. ASSUME NEW s \in Texts, NEW byte \in Bytes
      PROVE  Pieces(Append(s, byte)) = WithLetter(Pieces(s), byte)
    BY LoaderFolds, Cutting!FoldOfMore DEF Texts
<1> QED
    BY <1>1, <1>2

\* There is a last piece.
LastPiece(s, f, x) == f \in Seq(Texts) /\ x \in Texts /\ Pieces(s) = Append(f, x)

LEMMA PiecesHaveLast == \A s \in Texts : \E f \in Seq(Texts), x \in Texts : LastPiece(s, f, x)
<1> DEFINE T == {s \in Texts : \E f \in Seq(Texts), x \in Texts : LastPiece(s, f, x)}
<1>1. <<>> \in T
  <2>1. Append(<<>>, <<>>) = <<<<>>>> /\ <<>> \in Seq(Texts) /\ <<>> \in Texts
    BY DEF Texts
  <2> QED
    BY <2>1, PiecesOfMore DEF LastPiece
<1>2. ASSUME NEW s \in Seq(Bytes), NEW byte \in Bytes, s \in T PROVE Append(s, byte) \in T
  <2>1. PICK f \in Seq(Texts), x \in Texts : LastPiece(s, f, x)
    BY <1>2
  <2>2. Pieces(Append(s, byte)) =
            IF byte = NL THEN Append(Append(f, x), <<>>) ELSE Append(f, Append(x, byte))
    <3>1. s \in Texts /\ f \in Seq(Texts) /\ x \in Texts /\ Pieces(s) = Append(f, x)
      BY <2>1 DEF LastPiece, Texts
    <3>2. Pieces(Append(s, byte)) = WithLetter(Append(f, x), byte)
      BY <3>1, PiecesOfMore
    <3> QED
      BY <3>1, <3>2, LetterIsAdded
  <2>3. Append(f, x) \in Seq(Texts) /\ <<>> \in Texts /\ Append(x, byte) \in Texts
        /\ Append(s, byte) \in Texts
    BY DEF Texts
  <2> QED
    BY <2>2, <2>3 DEF LastPiece
<1> HIDE DEF T
<1>3. \A s \in Seq(Bytes) : s \in T
    BY <1>1, <1>2, Cutting!SeqInduction
<1> QED
    BY <1>3 DEF T, Texts

\* Bytes that are no newline belong to the last piece.
LEMMA LineIsAdded ==
    ASSUME NEW s \in Texts, NEW f, NEW x, LastPiece(s, f, x)
    PROVE  \A r \in Texts : NL \notin Range(r) => LastPiece(s \o r, f, x \o r)
<1> DEFINE T == {r \in Texts : NL \notin Range(r) => LastPiece(s \o r, f, x \o r)}
<1>1. <<>> \in T
    BY ConcatEmptySeq DEF LastPiece, Texts
<1>2. ASSUME NEW r \in Seq(Bytes), NEW byte \in Bytes, r \in T PROVE Append(r, byte) \in T
  <2> SUFFICES ASSUME NL \notin Range(Append(r, byte))
               PROVE  LastPiece(s \o Append(r, byte), f, x \o Append(r, byte))
    BY DEF Texts
  <2>1. NL \notin Range(r) /\ byte # NL
    <3>1. /\ DOMAIN r = 1..Len(r) /\ DOMAIN Append(r, byte) = 1..Len(r) + 1 /\ Len(r) \in Nat
          /\ \A i \in 1..Len(r) : Append(r, byte)[i] = r[i]
          /\ Append(r, byte)[Len(r) + 1] = byte
      OBVIOUS
    <3> QED
      BY <3>1 DEF Range
  <2>2. LastPiece(s \o r, f, x \o r)
    BY <1>2, <2>1
  <2>3. s \o r \in Texts /\ x \in Texts /\ x \o r \in Texts /\ f \in Seq(Texts)
        /\ Append(x \o r, byte) \in Texts
    BY <2>2 DEF Texts, LastPiece
  <2>4. s \o Append(r, byte) = Append(s \o r, byte) /\ x \o Append(r, byte) = Append(x \o r, byte)
    BY <2>3 DEF Texts
  <2>5. Pieces(Append(s \o r, byte)) = Append(f, Append(x \o r, byte))
    <3>1. Pieces(Append(s \o r, byte)) = WithLetter(Append(f, x \o r), byte)
      BY <2>2, <2>3, PiecesOfMore DEF LastPiece
    <3> QED
      BY <2>1, <2>3, <3>1, LetterIsAdded
  <2> QED
    BY <2>3, <2>4, <2>5 DEF LastPiece
<1> HIDE DEF T
<1>3. \A r \in Seq(Bytes) : r \in T
    BY <1>1, <1>2, Cutting!SeqInduction
<1> QED
    BY <1>3 DEF T, Texts

\* What follows leaves the ended pieces as they are and makes the last one no shorter.
GoesOn(t, f, x) ==
    \E y \in Texts, g \in Seq(Texts) : Pieces(t) = Append(f, y) \o g /\ Len(y) >= Len(x)

LEMMA PiecesGoOn ==
    ASSUME NEW s \in Texts, NEW f, NEW x, LastPiece(s, f, x)
    PROVE  \A r \in Texts : GoesOn(s \o r, f, x)
<1> DEFINE T == {r \in Texts : GoesOn(s \o r, f, x)}
<1>0. f \in Seq(Texts) /\ x \in Texts
    BY DEF LastPiece
<1>1. <<>> \in T
  <2>1. s \o <<>> = s /\ Append(f, x) \o <<>> = Append(f, x) /\ Len(x) >= Len(x)
        /\ <<>> \in Seq(Texts) /\ <<>> \in Texts
    BY <1>0, ConcatEmptySeq DEF Texts
  <2> QED
    BY <1>0, <2>1 DEF GoesOn, LastPiece
<1>2. ASSUME NEW r \in Seq(Bytes), NEW byte \in Bytes, r \in T PROVE Append(r, byte) \in T
  <2>1. PICK y \in Texts, g \in Seq(Texts) :
            Pieces(s \o r) = Append(f, y) \o g /\ Len(y) >= Len(x)
    BY <1>2 DEF GoesOn
  <2>2. s \o r \in Texts /\ s \o Append(r, byte) = Append(s \o r, byte)
        /\ Append(r, byte) \in Texts
    BY DEF Texts
  <2>3. Pieces(Append(s \o r, byte)) = WithLetter(Append(f, y) \o g, byte)
    BY <2>1, <2>2, PiecesOfMore
  <2>4. CASE g = <<>>
    <3>1. Append(f, y) \o g = Append(f, y)
      BY <1>0, <2>4
    <3>2. /\ Append(y, byte) \in Texts /\ Len(Append(y, byte)) >= Len(x)
          /\ Append(f, Append(y, byte)) \o <<>> = Append(f, Append(y, byte))
          /\ Append(Append(f, y), <<>>) = Append(f, y) \o <<<<>>>>
          /\ <<>> \in Seq(Texts) /\ <<<<>>>> \in Seq(Texts)
      <4>1. Append(y, byte) \in Texts /\ Len(Append(y, byte)) >= Len(x)
        BY <1>0, <2>1 DEF Texts
      <4>2. <<>> \in Texts
        BY DEF Texts
      <4> QED
        BY <4>1, <4>2, <1>0
    <3>3. WithLetter(Append(f, y), byte) =
            IF byte = NL THEN Append(Append(f, y), <<>>) ELSE Append(f, Append(y, byte))
      BY <1>0, LetterIsAdded
    <3>4. CASE byte = NL
      BY <3>1, <3>2, <3>3, <3>4, <2>1, <2>2, <2>3 DEF GoesOn
    <3>5. CASE byte # NL
      BY <3>1, <3>2, <3>3, <3>5, <2>2, <2>3 DEF GoesOn
    <3> QED
      BY <3>4, <3>5
  <2>5. CASE g # <<>>
    <3>1. PICK h \in Seq(Texts), z \in Texts : g = Append(h, z)
      BY <2>5, SequenceEmptyOrAppend
    <3> DEFINE e == Append(f, y) \o h
    <3>2. e \in Seq(Texts) /\ Append(f, y) \o g = Append(e, z)
      BY <1>0, <3>1
    <3> DEFINE k == IF byte = NL THEN Append(Append(h, z), <<>>) ELSE Append(h, Append(z, byte))
    <3>3. Append(z, byte) \in Texts /\ <<>> \in Texts
      BY DEF Texts
    <3>4. k \in Seq(Texts)
      BY <3>3
    <3>5. WithLetter(Append(e, z), byte) =
            IF byte = NL THEN Append(Append(e, z), <<>>) ELSE Append(e, Append(z, byte))
      BY <3>2, LetterIsAdded
    <3>6. /\ Append(Append(e, z), <<>>) = Append(f, y) \o Append(Append(h, z), <<>>)
          /\ Append(e, Append(z, byte)) = Append(f, y) \o Append(h, Append(z, byte))
      <4>2. Append(f, y) \in Seq(Texts) /\ Append(h, z) \in Seq(Texts)
        BY <1>0
      <4> HIDE DEF k
      <4>3. \A c \in Texts : Append(e, c) = Append(f, y) \o Append(h, c)
        BY AppendAfter, <4>2, Zenon DEF e
      <4> HIDE DEF e
      <4>4. Append(e, z) = Append(f, y) \o Append(h, z)
            /\ Append(e, Append(z, byte)) = Append(f, y) \o Append(h, Append(z, byte))
        BY <3>3, <4>3, Zenon
      <4>5. Append(Append(f, y) \o Append(h, z), <<>>)
                = Append(f, y) \o Append(Append(h, z), <<>>)
        BY <3>3, AppendAfter, <4>2, Zenon
      <4> QED
        BY <4>3, <4>4, <4>5
    <3>7. Pieces(s \o Append(r, byte)) = Append(f, y) \o k
      BY <2>2, <2>3, <3>2, <3>5, <3>6
    <3> HIDE DEF k
    <3> QED
      BY <2>1, <2>2, <3>4, <3>7 DEF GoesOn
  <2> QED
    BY <2>4, <2>5
<1> HIDE DEF T
<1>3. \A r \in Seq(Bytes) : r \in T
    BY <1>1, <1>2, Cutting!SeqInduction
<1> QED
    BY <1>3 DEF T, Texts

-----------------------------------------------------------------------------
(* The columns of the pieces *)

LEMMA ColumnsOfMore ==
    /\ ColumnsRead(<<>>) = <<>>
    /\ \A ps \in Seq(Texts), p \in Texts :
           ColumnsRead(Append(ps, p)) = WithColumn(ColumnsRead(ps), p)
<1>1. ColumnsRead(<<>>) = <<>>
    BY LoaderFolds, Columning!FoldOfNone
<1>2. ASSUME NEW ps \in Seq(Texts), NEW p \in Texts
      PROVE  ColumnsRead(Append(ps, p)) = WithColumn(ColumnsRead(ps), p)
    BY LoaderFolds, Columning!FoldOfMore
<1> QED
    BY <1>1, <1>2

\* More pieces, no fewer columns.
LEMMA ColumnsGoOn ==
    ASSUME NEW a \in Seq(Texts), IsSequence(ColumnsRead(a))
    PROVE  \A g \in Seq(Texts) : /\ IsSequence(ColumnsRead(a \o g))
                                 /\ Len(ColumnsRead(a \o g)) >= Len(ColumnsRead(a))
<1> DEFINE T == {g \in Seq(Texts) : /\ IsSequence(ColumnsRead(a \o g))
                                    /\ Len(ColumnsRead(a \o g)) >= Len(ColumnsRead(a))}
<1>1. <<>> \in T
  <2>1. a \o <<>> = a /\ <<>> \in Seq(Texts) /\ Len(ColumnsRead(a)) \in Nat
    BY ConcatEmptySeq, SequenceFacts
  <2> QED
    BY <2>1
<1>2. ASSUME NEW g \in Seq(Texts), NEW p \in Texts, g \in T PROVE Append(g, p) \in T
  <2> DEFINE c == ColumnsRead(a \o g)
             n == CHOOSE column \in ColumnsOf(p) : TRUE
  <2>1. a \o g \in Seq(Texts) /\ a \o Append(g, p) = Append(a \o g, p)
        /\ Append(g, p) \in Seq(Texts)
    BY AppendAfter
  <2>2. ColumnsRead(a \o Append(g, p)) = IF IsBlank(p) THEN c ELSE Append(c, n)
    BY <2>1, ColumnsOfMore DEF WithColumn
  <2>3. IsSequence(c) /\ Len(c) >= Len(ColumnsRead(a)) /\ Len(c) \in Nat
        /\ Len(ColumnsRead(a)) \in Nat
    BY <1>2, SequenceFacts
  <2> HIDE DEF c, n
  <2>4. IsSequence(Append(c, n)) /\ Len(Append(c, n)) = Len(c) + 1
    BY <2>3, AppendFacts
  <2>5. CASE IsBlank(p)
    BY <2>1, <2>2, <2>3, <2>5
  <2>6. CASE ~IsBlank(p)
    <3>1. Len(Append(c, n)) >= Len(ColumnsRead(a))
      BY <2>3, <2>4
    <3> QED
      BY <2>1, <2>2, <2>4, <2>6, <3>1
  <2> QED
    BY <2>5, <2>6
<1> HIDE DEF T
<1>3. \A g \in Seq(Texts) : g \in T
    BY <1>1, <1>2, Columning!SeqInduction
<1> QED
    BY <1>3 DEF T

LEMMA ColumnsAreList == \A ps \in Seq(Texts) : IsSequence(ColumnsRead(ps))
<1>1. <<>> \in Seq(Texts) /\ IsSequence(ColumnsRead(<<>>))
    BY ColumnsOfMore, EmptyIsSequence
<1>2. \A ps \in Seq(Texts) : <<>> \o ps = ps
    BY ConcatEmptySeq
<1>3. \A ps \in Seq(Texts) : IsSequence(ColumnsRead(<<>> \o ps))
    BY <1>1, ColumnsGoOn
<1> QED
    BY <1>2, <1>3

\* A set of places of a text has a first and a last one.
LEMMA LastPlace ==
    ASSUME NEW n \in Nat, NEW d \in SUBSET (1..n), d # {}
    PROVE  Max(d) \in d /\ \A y \in d : y <= Max(d)
BY Upward!LastOf DEF Max, Upward!Max

\* Trim removes the blanks around a text: nothing is left of a blank one, and
\* the newline at the end of a line makes no difference.
Kept(t) == {i \in DOMAIN t : t[i] \notin WhiteSpace}
LEMMA KeptBounds ==
    ASSUME NEW t \in Texts, Kept(t) # {}
    PROVE  /\ Min(Kept(t)) \in 1..Len(t) /\ Max(Kept(t)) \in 1..Len(t)
           /\ Min(Kept(t)) <= Max(Kept(t))
<1>1. DOMAIN t = 1..Len(t) /\ Len(t) \in Nat
    BY DEF Texts
<1>2. Kept(t) \in SUBSET (1..Len(t)) /\ Kept(t) \in SUBSET Nat
    BY <1>1 DEF Kept
<1>3. Max(Kept(t)) \in Kept(t) /\ \A y \in Kept(t) : y <= Max(Kept(t))
    BY <1>1, <1>2, LastPlace
<1>4. Min(Kept(t)) \in Kept(t)
    BY <1>2, MinIsLeast
<1> QED
    BY <1>2, <1>3, <1>4

LEMMA TrimParts ==
    ASSUME NEW t \in Texts
    PROVE  /\ Trim(t) \in Texts
           /\ Trim(t) = <<>> <=> Kept(t) = {}
           /\ IsBlank(t) <=> Kept(t) = {}
           /\ Trim(t) # <<>> => \E i, j \in DOMAIN t : Trim(t) = SubSeq(t, i, j)
<1>1. Trim(t) = IF Kept(t) = {} THEN <<>> ELSE SubSeq(t, Min(Kept(t)), Max(Kept(t)))
    BY DEF Trim, Kept
<1>2. IsBlank(t) <=> Kept(t) = {}
    BY DEF IsBlank, Kept, Range
<1>3. CASE Kept(t) = {}
    BY <1>1, <1>2, <1>3 DEF Texts
<1>4. CASE Kept(t) # {}
  <2> DEFINE i == Min(Kept(t))
             j == Max(Kept(t))
  <2>1. i \in 1..Len(t) /\ j \in 1..Len(t) /\ i <= j
    BY <1>4, KeptBounds
  <2> HIDE DEF i, j
  <2>2. SubSeq(t, i, j) \in Seq(Bytes) /\ Len(SubSeq(t, i, j)) = j - i + 1
        /\ SubSeq(t, i, j) # <<>>
    BY <2>1 DEF Texts
  <2>3. DOMAIN t = 1..Len(t)
    BY DEF Texts
  <2>4. Trim(t) = SubSeq(t, i, j)
    BY <1>1, <1>4 DEF i, j
  <2> QED
    BY <1>2, <1>4, <2>1, <2>2, <2>3, <2>4 DEF Texts
<1> QED
    BY <1>3, <1>4

LEMMA TrimOfLine ==
    ASSUME NEW t \in Texts, Append(t, NL) \in Texts
    PROVE  Trim(Append(t, NL)) = Trim(t) /\ (IsBlank(Append(t, NL)) <=> IsBlank(t))
<1> DEFINE u == Append(t, NL)
<1>1. /\ DOMAIN t = 1..Len(t) /\ DOMAIN u = 1..Len(t) + 1 /\ Len(t) \in Nat
      /\ \A i \in 1..Len(t) : u[i] = t[i]
      /\ u[Len(t) + 1] = NL /\ Len(u) = Len(t) + 1
  <2>1. t \in Seq(Bytes \cup {NL})
    BY DEF Texts
  <2> QED
    BY <2>1
<1>2. NL \in WhiteSpace
    BY DEF WhiteSpace
<1> HIDE DEF u
<1>3. Kept(u) = Kept(t)
    BY <1>1, <1>2 DEF Kept
<1>4. ASSUME Kept(t) # {} 
      PROVE  SubSeq(u, Min(Kept(t)), Max(Kept(t))) = SubSeq(t, Min(Kept(t)), Max(Kept(t)))
  <2> DEFINE i == Min(Kept(t))
             j == Max(Kept(t))
  <2>1. i \in 1..Len(t) /\ j \in 1..Len(t) /\ i <= j
    BY <1>4, KeptBounds
  <2> HIDE DEF i, j
  <2>2. u \in Seq(Bytes) /\ t \in Seq(Bytes)
    BY DEF Texts, u
  <2>3. /\ SubSeq(u, i, j) \in Seq(Bytes) /\ SubSeq(t, i, j) \in Seq(Bytes)
        /\ Len(SubSeq(u, i, j)) = j - i + 1 /\ Len(SubSeq(t, i, j)) = j - i + 1
        /\ \A k \in 1..(j - i + 1) : /\ SubSeq(u, i, j)[k] = u[i + k - 1]
                                     /\ SubSeq(t, i, j)[k] = t[i + k - 1]
    BY <1>1, <2>1, <2>2
  <2>4. \A k \in 1..(j - i + 1) : i + k - 1 \in 1..Len(t)
    BY <1>1, <2>1
  <2>5. \A k \in 1..(j - i + 1) : SubSeq(u, i, j)[k] = SubSeq(t, i, j)[k]
    BY <1>1, <2>3, <2>4
  <2>6. SubSeq(u, i, j) = SubSeq(t, i, j)
    BY <2>3, <2>5, SeqEqual
  <2> QED
    BY <2>6 DEF i, j
<1>5. Trim(u) = Trim(t)
    BY <1>3, <1>4 DEF Trim, Kept
<1>6. (IsBlank(u) <=> Kept(u) = {}) /\ (IsBlank(t) <=> Kept(t) = {})
    BY TrimParts DEF u
<1> QED
    BY <1>3, <1>5, <1>6 DEF u

-----------------------------------------------------------------------------
(* A line of the file *)

LEMMA OneColon ==
    ASSUME NEW t \in Texts
    PROVE  Cardinality(Colons(t)) = 1 <=> \E i \in DOMAIN t : Colons(t) = {i}
<1>1. Colons(t) \subseteq 1..Len(t) /\ DOMAIN t = 1..Len(t) /\ Len(t) \in Nat
    BY DEF Colons, Texts
<1>2. IsFiniteSet(Colons(t))
  <2>1. IsFiniteSet(1..Len(t))
    BY <1>1, FS_Interval
  <2> QED
    BY <1>1, <2>1, FS_Subset
<1>3. Cardinality(Colons(t)) = 1 <=> \E i : Colons(t) = {i}
    BY <1>2, FS_Singleton
<1> QED
    BY <1>1, <1>3

LEMMA PartsOfColumn ==
    ASSUME NEW t \in Texts, NEW i \in DOMAIN t, Colons(t) = {i}
    PROVE  /\ NamePart(t) = Trim(SubSeq(t, 1, i - 1))
           /\ TypePart(t) = Trim(SubSeq(t, i + 1, Len(t)))
           /\ SubSeq(t, 1, i - 1) \in Texts /\ SubSeq(t, i + 1, Len(t)) \in Texts
<1>1. i \in 1..Len(t) /\ Len(t) \in Nat
    BY DEF Texts
<1>2. Min({i}) = i
  <2>1. {i} \in SUBSET Nat /\ {i} # {}
    BY <1>1
  <2> QED
    BY <2>1, MinIsLeast
<1>3. SubSeq(t, 1, i - 1) \in Texts /\ SubSeq(t, i + 1, Len(t)) \in Texts
  <2>1. 1 \in Int /\ i - 1 \in Int /\ i + 1 \in Int /\ Len(t) \in Int /\ t \in Seq(Bytes)
    BY <1>1 DEF Texts
  <2>2. \A k \in 1..(i - 1) : k \in 1..Len(t)
    BY <1>1
  <2>3. \A k \in (i + 1)..Len(t) : k \in 1..Len(t)
    BY <1>1
  <2> QED
    BY <2>1, <2>2, <2>3, SubSeqProperties DEF Texts
<1> QED
    BY <1>2, <1>3 DEF NamePart, TypePart

\* IsColumnLine, but for the room left in the schema.
ColumnLine(t) ==
    /\ Cardinality(Colons(t)) = 1
    /\ NamePart(t) # <<>> /\ TypePart(t) # <<>>
    /\ Len(NamePart(t)) < MAX_NAME_LENGTH
    /\ IsType(TypePart(t))
LineColumn(t) == [name |-> NamePart(t), type |-> TypeOf(TypePart(t))]

LEMMA NameIsInLine ==
    ASSUME NEW t \in Texts, NEW i \in DOMAIN t, Colons(t) = {i}, NamePart(t) # <<>>
    PROVE  NamePart(t) \in Names(t)
<1> DEFINE s == SubSeq(t, 1, i - 1)
<1>1. s \in Texts /\ NamePart(t) = Trim(s)
    BY PartsOfColumn
<1>2. i \in 1..Len(t) /\ Len(t) \in Nat /\ DOMAIN t = 1..Len(t) /\ t \in Seq(Bytes)
    BY DEF Texts
<1>3. Len(s) = i - 1 /\ \A k \in 1..(i - 1) : s[k] = t[k]
    BY <1>2
<1> HIDE DEF s
<1>4. PICK j, k \in DOMAIN s : Trim(s) = SubSeq(s, j, k)
    BY <1>1, TrimParts
<1>5. j \in 1..(i - 1) /\ k \in 1..(i - 1) /\ s \in Seq(Bytes)
    BY <1>1, <1>3 DEF Texts
<1>6. SubSeq(s, j, k) = SubSeq(t, j, k)
  <2>1. j \in Int /\ k \in Int /\ i \in Int /\ 1 <= j /\ k <= i - 1 /\ i - 1 <= Len(t)
    BY <1>2, <1>5
  <2>2. /\ \A m \in j..k : s[m] = t[m] /\ s[m] \in Bytes /\ t[m] \in Bytes
        /\ \A m \in 1..(k - j + 1) : j + m - 1 \in j..k
    <3>1. \A m \in j..k : m \in 1..(i - 1) /\ m \in 1..Len(t)
      BY <2>1
    <3> QED
      BY <1>2, <1>3, <1>5, <2>1, <3>1
  <2>3. /\ SubSeq(s, j, k) \in Seq(Bytes)
        /\ Len(SubSeq(s, j, k)) = IF j <= k THEN k - j + 1 ELSE 0
        /\ \A m \in 1..(k - j + 1) : SubSeq(s, j, k)[m] = s[j + m - 1]
    BY <2>1, <2>2, SubSeqProperties
  <2>4. /\ SubSeq(t, j, k) \in Seq(Bytes)
        /\ Len(SubSeq(t, j, k)) = IF j <= k THEN k - j + 1 ELSE 0
        /\ \A m \in 1..(k - j + 1) : SubSeq(t, j, k)[m] = t[j + m - 1]
    BY <2>1, <2>2, SubSeqProperties
  <2>5. \A m \in 1..(k - j + 1) : SubSeq(s, j, k)[m] = SubSeq(t, j, k)[m]
    BY <2>2, <2>3, <2>4
  <2>6. \A m \in 1..Len(SubSeq(s, j, k)) : m \in 1..(k - j + 1)
    BY <2>1, <2>3
  <2> QED
    BY <2>3, <2>4, <2>5, <2>6, SeqEqual
<1>7. j \in DOMAIN t /\ k \in DOMAIN t
    BY <1>2, <1>5
<1> QED
  <2>1. NamePart(t) = SubSeq(t, j, k)
    BY <1>1, <1>4, <1>6
  <2> QED
    <3>1. SubSeq(t, j, k) \in {SubSeq(t, j, b) : b \in DOMAIN t}
      BY <1>7, Zenon
    <3>2. {SubSeq(t, j, b) : b \in DOMAIN t} \in {{SubSeq(t, a, b) : b \in DOMAIN t} : a \in DOMAIN t}
      BY <1>7, Zenon
    <3> QED
      BY <2>1, <3>1, <3>2, Zenon DEF Names

LEMMA ColumnOfLine == ASSUME NEW t \in Texts, ColumnLine(t) PROVE ColumnsOf(t) = {LineColumn(t)}
<1>1. PICK i \in DOMAIN t : Colons(t) = {i}
    BY OneColon DEF ColumnLine
<1>2. /\ NamePart(t) = Trim(SubSeq(t, 1, i - 1)) /\ NamePart(t) \in Texts
      /\ TypePart(t) = Trim(SubSeq(t, i + 1, Len(t)))
    BY <1>1, PartsOfColumn, TrimParts
<1>3. NamePart(t) \in Names(t) /\ Len(NamePart(t)) \in 1..(MAX_NAME_LENGTH - 1)
  <2>1. NamePart(t) # <<>> /\ Len(NamePart(t)) < MAX_NAME_LENGTH
    BY DEF ColumnLine
  <2>2. Len(NamePart(t)) \in Nat /\ Len(NamePart(t)) # 0 /\ MAX_NAME_LENGTH \in Nat
    BY <1>2, <2>1, ModelsConstants DEF Texts
  <2> QED
    BY <1>1, <2>1, <2>2, NameIsInLine
<1>4. TypeOf(TypePart(t)) \in {"int", "text"} /\ TypeWords[TypeOf(TypePart(t))] = TypePart(t)
    BY DEF ColumnLine, IsType, TypeOf
<1>5. \A j \in DOMAIN t : t[j] = ":" <=> j = i
    BY <1>1 DEF Colons
<1>6. LineColumn(t) \in ColumnsOf(t)
  <2>1. Describes(t, LineColumn(t))
    BY <1>2, <1>4, <1>5 DEF Describes, LineColumn
  <2> QED
    BY <1>3, <1>4, <2>1 DEF ColumnsOf, LineColumn
<1>7. ASSUME NEW c \in ColumnsOf(t) PROVE c = LineColumn(t)
  <2>1. /\ c \in [name : {n \in Names(t) : Len(n) \in 1..(MAX_NAME_LENGTH - 1)},
                  type : {"int", "text"}]
        /\ Describes(t, c)
    BY <1>7 DEF ColumnsOf
  <2>2. c.name = NamePart(t) /\ TypeWords[c.type] = TypePart(t)
    BY <1>2, <1>5, <2>1 DEF Describes
  <2>3. c.type = TypeOf(TypePart(t))
    BY <1>4, <2>1, <2>2, LoaderConstants
  <2> QED
    BY <2>1, <2>2, <2>3 DEF LineColumn
<1> QED
    BY <1>6, <1>7

LEMMA NoColumnOfLine == ASSUME NEW t \in Texts, ~ColumnLine(t) PROVE ColumnsOf(t) = {}
<1> SUFFICES ASSUME NEW c \in ColumnsOf(t) PROVE ColumnLine(t)
    OBVIOUS
<1>1. /\ c \in [name : {n \in Names(t) : Len(n) \in 1..(MAX_NAME_LENGTH - 1)},
                type : {"int", "text"}]
      /\ Describes(t, c)
    BY DEF ColumnsOf
<1>2. PICK i \in DOMAIN t :
        /\ t[i] = ":" /\ \A j \in DOMAIN t \ {i} : t[j] # ":"
        /\ c.name = Trim(SubSeq(t, 1, i - 1))
        /\ TypeWords[c.type] = Trim(SubSeq(t, i + 1, Len(t)))
    BY <1>1 DEF Describes
<1>3. Colons(t) = {i}
    BY <1>2 DEF Colons
<1>4. c.name = NamePart(t) /\ TypeWords[c.type] = TypePart(t)
    BY <1>2, <1>3, PartsOfColumn
<1>5. Len(c.name) \in 1..(MAX_NAME_LENGTH - 1) /\ c.type \in {"int", "text"}
    BY <1>1
<1>6. NamePart(t) # <<>> /\ Len(NamePart(t)) < MAX_NAME_LENGTH
    BY <1>4, <1>5, ModelsConstants
<1>7. TypePart(t) # <<>> /\ IsType(TypePart(t))
    BY <1>4, <1>5, LoaderConstants DEF IsType
<1>8. Cardinality(Colons(t)) = 1
    BY <1>3, OneColon
<1> QED
    BY <1>6, <1>7, <1>8 DEF ColumnLine

\* The newline at the end of a line makes no difference.
LEMMA ColumnOfChunk ==
    ASSUME NEW t \in Texts, Append(t, NL) \in Texts
    PROVE  /\ ColumnLine(Append(t, NL)) <=> ColumnLine(t)
           /\ ColumnLine(t) => LineColumn(Append(t, NL)) = LineColumn(t)
<1> DEFINE u == Append(t, NL)
<1>1. /\ DOMAIN t = 1..Len(t) /\ DOMAIN u = 1..Len(t) + 1 /\ Len(t) \in Nat
      /\ \A i \in 1..Len(t) : u[i] = t[i]
      /\ u[Len(t) + 1] = NL /\ Len(u) = Len(t) + 1
  <2>1. t \in Seq(Bytes \cup {NL})
    BY DEF Texts
  <2> QED
    BY <2>1
<1>2. Colons(u) = Colons(t)
  <2>1. NL # ":"
    BY DEF NL
  <2> HIDE DEF u
  <2> QED
    BY <1>1, <2>1 DEF Colons
<1>3. ASSUME NEW i \in DOMAIN t, Colons(t) = {i}
      PROVE  NamePart(u) = NamePart(t) /\ TypePart(u) = TypePart(t)
  <2>1. i \in DOMAIN u /\ u \in Texts /\ Colons(u) = {i}
    BY <1>1, <1>2, <1>3
  <2>2. /\ NamePart(u) = Trim(SubSeq(u, 1, i - 1)) /\ TypePart(u) = Trim(SubSeq(u, i + 1, Len(u)))
        /\ SubSeq(u, 1, i - 1) \in Texts /\ SubSeq(u, i + 1, Len(u)) \in Texts
    <3> HIDE DEF u
    <3> QED
      BY <2>1, PartsOfColumn
  <2>3. /\ NamePart(t) = Trim(SubSeq(t, 1, i - 1)) /\ TypePart(t) = Trim(SubSeq(t, i + 1, Len(t)))
        /\ SubSeq(t, 1, i - 1) \in Texts /\ SubSeq(t, i + 1, Len(t)) \in Texts
    BY <1>3, PartsOfColumn
  <2>4. i \in 1..Len(t) /\ u \in Seq(Bytes) /\ t \in Seq(Bytes)
    BY <1>1, <2>1 DEF Texts
  <2> HIDE DEF u
  <2>5. SubSeq(u, 1, i - 1) = SubSeq(t, 1, i - 1)
    <3>1. /\ Len(SubSeq(u, 1, i - 1)) = i - 1 /\ Len(SubSeq(t, 1, i - 1)) = i - 1
          /\ \A k \in 1..(i - 1) : /\ SubSeq(u, 1, i - 1)[k] = u[k]
                                   /\ SubSeq(t, 1, i - 1)[k] = t[k]
                                   /\ k \in 1..Len(t)
      BY <1>1, <2>4
    <3>2. \A k \in 1..(i - 1) : SubSeq(u, 1, i - 1)[k] = SubSeq(t, 1, i - 1)[k]
      BY <1>1, <3>1
    <3> QED
      BY <2>2, <2>3, <3>1, <3>2, SeqEqual DEF Texts
  <2>6. SubSeq(u, i + 1, Len(u)) = Append(SubSeq(t, i + 1, Len(t)), NL)
    <3> DEFINE v == SubSeq(t, i + 1, Len(t))
               w == SubSeq(u, i + 1, Len(u))
    <3>1. /\ Len(v) = Len(t) - i /\ Len(w) = Len(t) - i + 1
          /\ \A k \in 1..(Len(t) - i) : v[k] = t[i + k] /\ i + k \in 1..Len(t)
          /\ \A k \in 1..(Len(t) - i + 1) : w[k] = u[i + k]
      <4>1. /\ i + 1 \in Int /\ Len(t) \in Int /\ Len(u) \in Int
            /\ \A k \in (i + 1)..Len(t) : t[k] \in Bytes
            /\ \A k \in (i + 1)..Len(u) : u[k] \in Bytes
        BY <1>1, <2>4
      <4>2. /\ Len(v) = IF i + 1 <= Len(t) THEN Len(t) - (i + 1) + 1 ELSE 0
            /\ \A k \in 1..(Len(t) - (i + 1) + 1) : v[k] = t[i + 1 + k - 1]
        BY <4>1, SubSeqProperties
      <4>3. /\ Len(w) = IF i + 1 <= Len(u) THEN Len(u) - (i + 1) + 1 ELSE 0
            /\ \A k \in 1..(Len(u) - (i + 1) + 1) : w[k] = u[i + 1 + k - 1]
        BY <4>1, SubSeqProperties
      <4>4. i \in 1..Len(t) /\ Len(u) = Len(t) + 1 /\ Len(t) \in Nat
        BY <1>1, <2>4
      <4> HIDE DEF v, w
      <4>5. Len(v) = Len(t) - i /\ Len(w) = Len(t) - i + 1
        BY <4>2, <4>3, <4>4
      <4>6. \A k \in 1..(Len(t) - i) : v[k] = t[i + k] /\ i + k \in 1..Len(t)
        <5> TAKE k \in 1..(Len(t) - i)
        <5>1. i + 1 + k - 1 = i + k /\ i + k \in 1..Len(t) /\ k \in 1..(Len(t) - (i + 1) + 1)
          BY <4>4
        <5> QED
          BY <4>2, <5>1
      <4>7. \A k \in 1..(Len(t) - i + 1) : w[k] = u[i + k]
        <5> TAKE k \in 1..(Len(t) - i + 1)
        <5>1. i + 1 + k - 1 = i + k /\ k \in 1..(Len(u) - (i + 1) + 1)
          BY <4>4
        <5> QED
          BY <4>3, <5>1
      <4> QED
        BY <4>5, <4>6, <4>7
    <3>2. v \in Seq(Bytes \cup {NL}) /\ w \in Seq(Bytes \cup {NL})
      BY <2>2, <2>3 DEF Texts
    <3> HIDE DEF v, w
    <3>3. /\ Append(v, NL) \in Seq(Bytes \cup {NL}) /\ Len(Append(v, NL)) = Len(t) - i + 1
          /\ \A k \in 1..(Len(t) - i) : Append(v, NL)[k] = v[k]
          /\ Append(v, NL)[Len(t) - i + 1] = NL
      BY <1>1, <2>4, <3>1, <3>2
    <3>4. w[Len(t) - i + 1] = NL
      <4>1. Len(t) - i + 1 \in 1..(Len(t) - i + 1) /\ i + (Len(t) - i + 1) = Len(t) + 1
        BY <1>1, <2>4
      <4> QED
        BY <1>1, <3>1, <4>1
    <3>5. ASSUME NEW k \in 1..(Len(t) - i + 1) PROVE w[k] = Append(v, NL)[k]
      <4>1. CASE k = Len(t) - i + 1
        BY <3>3, <3>4, <4>1
      <4>2. CASE k # Len(t) - i + 1
        <5>1. k \in 1..(Len(t) - i)
          BY <1>1, <2>4, <4>2
        <5> QED
          BY <1>1, <3>1, <3>3, <5>1
      <4> QED
        BY <4>1, <4>2
    <3>6. w = Append(v, NL)
      BY <3>1, <3>2, <3>3, <3>5, SeqEqual
    <3> QED
      BY <3>6 DEF v, w
  <2>7. TypePart(u) = TypePart(t)
    BY <2>2, <2>3, <2>6, TrimOfLine
  <2> QED
    BY <2>2, <2>3, <2>5, <2>7
<1>4. u \in Texts
    OBVIOUS
<1> HIDE DEF u
<1>5. ASSUME NEW i \in DOMAIN t, Colons(t) = {i} 
      PROVE  (ColumnLine(u) <=> ColumnLine(t)) /\ LineColumn(u) = LineColumn(t)
    BY <1>2, <1>3, <1>5 DEF ColumnLine, LineColumn
<1>6. ASSUME Cardinality(Colons(t)) # 1 PROVE ~ColumnLine(t) /\ ~ColumnLine(u)
    BY <1>2, <1>6 DEF ColumnLine
<1>7. (ColumnLine(u) <=> ColumnLine(t)) /\ (ColumnLine(t) => LineColumn(u) = LineColumn(t))
    BY <1>5, <1>6, OneColon
<1> QED
    BY <1>7 DEF u

-----------------------------------------------------------------------------
(* load_schema sees the lines of the file *)

Read == SubSeq(content, 1, offset)
ReadNext == SubSeq(content, 1, ChunkEnd)
Unread == SubSeq(content, ChunkEnd + 1, Len(content))

\* The line is whole: a newline or the end of the file comes after it.
IsLine(l) ==
    /\ l \in Texts /\ NL \notin Range(l) /\ Len(l) < LINE_SIZE - 1
    /\ Chunk = Append(l, NL) \/ (Chunk = l /\ ChunkEnd = Len(content))

LEMMA ChunkEndIs ==
    ASSUME content \in Texts, offset \in Nat, offset < Len(content)
    PROVE  /\ ChunkEnd \in (offset + 1)..Len(content)
           /\ ChunkEnd <= offset + LINE_SIZE - 1
           /\ \A i \in (offset + 1)..(ChunkEnd - 1) : content[i] # NL
           /\ \/ content[ChunkEnd] = NL \/ ChunkEnd = Len(content)
              \/ ChunkEnd = offset + LINE_SIZE - 1
<1> DEFINE E == Newlines \cup {Len(content), offset + LINE_SIZE - 1}
<1>1. Len(content) \in Nat /\ LINE_SIZE \in Nat /\ LINE_SIZE > 2
    BY LoaderConstants DEF Texts
<1>2. Newlines \subseteq (offset + 1)..Len(content)
      /\ \A i \in (offset + 1)..Len(content) : i \in Newlines <=> content[i] = NL
    BY DEF Newlines
<1>3. E \in SUBSET Nat /\ E # {} /\ \A i \in E : i > offset
  <2>1. \A i \in Newlines : i \in Nat /\ i > offset
    BY <1>1, <1>2
  <2>2. Len(content) \in Nat /\ Len(content) > offset
    BY <1>1
  <2>3. offset + LINE_SIZE - 1 \in Nat /\ offset + LINE_SIZE - 1 > offset
    BY <1>1
  <2> QED
    BY <2>1, <2>2, <2>3, Zenon
<1>4. ChunkEnd \in E /\ \A i \in E : ChunkEnd <= i
    BY <1>3, MinIsLeast DEF ChunkEnd
<1>5. ChunkEnd \in (offset + 1)..Len(content) /\ ChunkEnd <= offset + LINE_SIZE - 1
    BY <1>1, <1>3, <1>4
<1>6. \A i \in (offset + 1)..(ChunkEnd - 1) : content[i] # NL
  <2> TAKE i \in (offset + 1)..(ChunkEnd - 1)
  <2>1. i \in (offset + 1)..Len(content) /\ i < ChunkEnd
    BY <1>1, <1>5
  <2> QED
    BY <1>1, <1>2, <1>4, <2>1
<1> QED
    BY <1>2, <1>4, <1>5, <1>6

LEMMA ChunkIs ==
    ASSUME content \in Texts, offset \in Nat, offset < Len(content)
    PROVE  /\ Chunk \in Texts /\ Read \in Texts /\ Unread \in Texts
           /\ Len(Chunk) = ChunkEnd - offset
           /\ \A i \in 1..(ChunkEnd - offset) : Chunk[i] = content[offset + i]
           /\ ReadNext = Read \o Chunk
           /\ content = ReadNext \o Unread
<1>1. content \in Seq(Bytes) /\ Len(content) \in Nat /\ ChunkEnd \in (offset + 1)..Len(content)
    BY ChunkEndIs DEF Texts
<1> HIDE DEF ChunkEnd
<1>2. /\ 1 \in Int /\ offset \in Int /\ offset + 1 \in Int /\ ChunkEnd \in Int /\ ChunkEnd + 1 \in Int
      /\ Len(content) \in Int
      /\ \A i \in (offset + 1)..ChunkEnd : content[i] \in Bytes
      /\ \A i \in 1..offset : content[i] \in Bytes
      /\ \A i \in (ChunkEnd + 1)..Len(content) : content[i] \in Bytes
    BY <1>1
<1>3. /\ Chunk \in Seq(Bytes)
      /\ Len(Chunk) = IF offset + 1 <= ChunkEnd THEN ChunkEnd - (offset + 1) + 1 ELSE 0
      /\ \A i \in 1..(ChunkEnd - (offset + 1) + 1) : Chunk[i] = content[offset + 1 + i - 1]
    BY <1>2, SubSeqProperties DEF Chunk
<1>4. Read \in Seq(Bytes) /\ Unread \in Seq(Bytes)
    BY <1>2, SubSeqProperties DEF Read, Unread
<1>5. Len(Chunk) = ChunkEnd - offset
    BY <1>1, <1>3
<1>6. \A i \in 1..(ChunkEnd - offset) : Chunk[i] = content[offset + i]
  <2> TAKE i \in 1..(ChunkEnd - offset)
  <2>1. i \in 1..(ChunkEnd - (offset + 1) + 1) /\ offset + 1 + i - 1 = offset + i
    BY <1>1
  <2> QED
    BY <1>3, <2>1
<1>7. ReadNext = Read \o Chunk
  <2>1. 1 \in 1..(Len(content) + 1) /\ offset \in (1 - 1)..Len(content)
        /\ ChunkEnd \in offset..Len(content)
    BY <1>1
  <2> QED
    BY <1>1, <2>1, ConcatAdjacentSubSeq DEF Read, Chunk, ReadNext
<1>8. content = ReadNext \o Unread
  <2>1. 1 \in 1..(Len(content) + 1) /\ ChunkEnd \in (1 - 1)..Len(content)
        /\ Len(content) \in ChunkEnd..Len(content)
    BY <1>1
  <2>2. SubSeq(content, 1, Len(content)) = content
    BY <1>1, SubSeqFull
  <2> QED
    BY <1>1, <2>1, <2>2, ConcatAdjacentSubSeq DEF Unread, ReadNext
<1> QED
    BY <1>3, <1>4, <1>5, <1>6, <1>7, <1>8 DEF Texts

LEMMA ChunkIsLine ==
    ASSUME content \in Texts, offset \in Nat, offset < Len(content), ~TooLong
    PROVE  \E l \in Texts : IsLine(l)
<1>1. /\ ChunkEnd \in (offset + 1)..Len(content) /\ ChunkEnd <= offset + LINE_SIZE - 1
      /\ \A i \in (offset + 1)..(ChunkEnd - 1) : content[i] # NL
      /\ \/ content[ChunkEnd] = NL \/ ChunkEnd = Len(content)
         \/ ChunkEnd = offset + LINE_SIZE - 1
    BY ChunkEndIs
<1>2. /\ Chunk \in Seq(Bytes) /\ Len(Chunk) = ChunkEnd - offset
      /\ \A i \in 1..(ChunkEnd - offset) : Chunk[i] = content[offset + i]
    BY ChunkIs DEF Texts
<1>3. /\ Len(content) \in Nat /\ LINE_SIZE \in Nat /\ DOMAIN Chunk = 1..Len(Chunk)
      /\ Len(Chunk) \in Nat /\ Len(Chunk) >= 1 /\ Len(Chunk) <= LINE_SIZE - 1
    BY <1>1, <1>2, LoaderConstants DEF Texts
<1>4. \A i \in 1..(Len(Chunk) - 1) : Chunk[i] # NL
  <2> TAKE i \in 1..(Len(Chunk) - 1)
  <2>1. i \in 1..(ChunkEnd - offset) /\ offset + i \in (offset + 1)..(ChunkEnd - 1)
    BY <1>1, <1>2, <1>3
  <2> QED
    BY <1>1, <1>2, <2>1
<1>5. CASE NL \in Range(Chunk)
  <2>1. Chunk[Len(Chunk)] = NL
    BY <1>3, <1>4, <1>5 DEF Range
  <2>2. Chunk # <<>>
    BY <1>3
  <2>3. PICK l \in Seq(Bytes), e \in Bytes : Chunk = Append(l, e)
    BY <1>2, <2>2, SequenceEmptyOrAppend
  <2>4. /\ Len(l) = Len(Chunk) - 1 /\ Len(l) \in Nat /\ DOMAIN l = 1..Len(l)
        /\ \A i \in 1..Len(l) : l[i] = Chunk[i]
        /\ e = Chunk[Len(Chunk)]
    BY <2>3
  <2>5. NL \notin Range(l)
    BY <1>4, <2>4 DEF Range
  <2>6. Len(l) < LINE_SIZE - 1
    BY <1>3, <2>4
  <2> QED
    BY <2>1, <2>3, <2>4, <2>5, <2>6 DEF IsLine, Texts
<1>6. CASE NL \notin Range(Chunk)
  <2>1. Len(Chunk) # LINE_SIZE - 1
    BY <1>6 DEF TooLong
  <2>2. content[ChunkEnd] # NL
    <3>1. Len(Chunk) \in DOMAIN Chunk /\ Len(Chunk) \in 1..(ChunkEnd - offset)
          /\ offset + Len(Chunk) = ChunkEnd
      BY <1>1, <1>2, <1>3
    <3>2. Chunk[Len(Chunk)] # NL
      BY <1>6, <3>1 DEF Range
    <3> QED
      BY <1>2, <3>1, <3>2
  <2>3. ChunkEnd = Len(content)
    BY <1>1, <1>2, <1>3, <2>1, <2>2
  <2>4. Len(Chunk) < LINE_SIZE - 1
    BY <1>3, <2>1
  <2> QED
    BY <1>2, <1>6, <2>3, <2>4 DEF IsLine, Texts
<1> QED
    BY <1>5, <1>6

LEMMA LineOfChunk ==
    ASSUME content \in Texts, offset \in Nat, offset < Len(content), NEW l, IsLine(l)
    PROVE  /\ Trim(Chunk) = <<>> <=> IsBlank(l)
           /\ ColumnLine(Chunk) <=> ColumnLine(l)
           /\ ColumnLine(l) => LineColumn(Chunk) = LineColumn(l)
<1>1. Chunk \in Texts /\ l \in Texts
    BY ChunkIs DEF IsLine
<1>2. Trim(l) = <<>> <=> IsBlank(l)
    BY <1>1, TrimParts
<1>3. CASE Chunk = l
    BY <1>2, <1>3
<1>4. CASE Chunk = Append(l, NL)
  <2>1. Append(l, NL) \in Texts
    BY <1>1, <1>4
  <2>2. Trim(Append(l, NL)) = Trim(l)
    BY <1>1, <2>1, TrimOfLine
  <2>3. /\ ColumnLine(Append(l, NL)) <=> ColumnLine(l)
        /\ ColumnLine(l) => LineColumn(Append(l, NL)) = LineColumn(l)
    BY <1>1, <2>1, ColumnOfChunk
  <2> QED
    BY <1>2, <1>4, <2>2, <2>3
<1> QED
    BY <1>3, <1>4 DEF IsLine

\* The line becomes a piece of what has been read.
LineReadAfter(f, l) ==
    \/ LastPiece(ReadNext, Append(f, l), <<>>)
    \/ LastPiece(ReadNext, f, l) /\ ChunkEnd = Len(content)
LEMMA LineIsPiece ==
    ASSUME content \in Texts, offset \in Nat, offset < Len(content), NEW l, IsLine(l),
           NEW f, LastPiece(Read, f, <<>>)
    PROVE  LineReadAfter(f, l)
<1>1. /\ Read \in Texts /\ Chunk \in Texts /\ ReadNext = Read \o Chunk
      /\ l \in Texts /\ NL \notin Range(l) /\ f \in Seq(Texts)
    BY ChunkIs DEF IsLine, LastPiece
<1>2. LastPiece(Read \o l, f, <<>> \o l)
    BY <1>1, LineIsAdded
<1>3. <<>> \o l = l
    BY <1>1, ConcatEmptySeq DEF Texts
<1>4. CASE Chunk = l /\ ChunkEnd = Len(content)
    BY <1>1, <1>2, <1>3, <1>4 DEF LineReadAfter
<1>5. CASE Chunk = Append(l, NL)
  <2>1. NL \in Bytes
    <3>1. /\ Len(Append(l, NL)) = Len(l) + 1 /\ Len(l) \in Nat
          /\ Append(l, NL)[Len(l) + 1] = NL
      <4>1. l \in Seq(Bytes \cup {NL})
        BY <1>1 DEF Texts
      <4> QED
        BY <4>1
    <3>2. \A i \in 1..Len(Chunk) : Chunk[i] \in Bytes
      BY <1>1 DEF Texts
    <3> QED
      BY <1>5, <3>1, <3>2
  <2>2. Read \o l \in Texts /\ Read \o Append(l, NL) = Append(Read \o l, NL)
    BY <1>1, <2>1 DEF Texts
  <2>3. Pieces(Read \o l) = Append(f, l)
    BY <1>2, <1>3 DEF LastPiece
  <2>4. Pieces(ReadNext) = WithLetter(Append(f, l), NL)
    BY <1>1, <1>5, <2>1, <2>2, <2>3, PiecesOfMore
  <2>5. Pieces(ReadNext) = Append(Append(f, l), <<>>)
    BY <1>1, <2>1, <2>4, LetterIsAdded
  <2>6. Append(f, l) \in Seq(Texts) /\ <<>> \in Texts
    BY <1>1 DEF Texts
  <2> QED
    BY <2>5, <2>6 DEF LastPiece, LineReadAfter
<1> QED
    BY <1>4, <1>5 DEF IsLine

-----------------------------------------------------------------------------
(* The schema is what the file says *)

Sound(p) == Len(p) < LINE_SIZE - 1 /\ (IsBlank(p) \/ ColumnsOf(p) # {})
AllSound(ps) == \A k \in DOMAIN ps : Sound(ps[k])

\* The last piece is empty at the start of a line.
ReadSoFar ==
    \E f \in Seq(Texts), x \in Texts :
        /\ LastPiece(Read, f, x) /\ (x = <<>> \/ offset = Len(content))
        /\ AllSound(Append(f, x))
        /\ schema = ColumnsRead(Append(f, x)) /\ Len(schema) <= MAX_COLUMNS

LoadInv ==
    /\ content \in Texts /\ offset \in 0..Len(content)
    /\ load = "idle" => offset = 0 /\ schema = <<>>
    /\ load = "reading" => ReadSoFar
    /\ SchemaIsTheText

LEMMA BlankPiece ==
    /\ <<>> \in Texts /\ IsBlank(<<>>) /\ Sound(<<>>)
    /\ \A f \in Seq(Texts) : ColumnsRead(Append(f, <<>>)) = ColumnsRead(f)
<1>1. <<>> \in Texts /\ IsBlank(<<>>) /\ Len(<<>>) = 0
    BY DEF Texts, IsBlank, Range
<1>2. Sound(<<>>)
    BY <1>1, LoaderConstants DEF Sound
<1>3. \A f \in Seq(Texts) : ColumnsRead(Append(f, <<>>)) = ColumnsRead(f)
    BY <1>1, ColumnsOfMore DEF WithColumn
<1> QED
    BY <1>1, <1>2, <1>3

LEMMA SoundWithMore ==
    ASSUME NEW f \in Seq(Texts), NEW p \in Texts
    PROVE  AllSound(Append(f, p)) <=> AllSound(f) /\ Sound(p)
<1>1. /\ Append(f, p) \in Seq(Texts) /\ Len(Append(f, p)) = Len(f) + 1 /\ Len(f) \in Nat
      /\ \A k \in 1..Len(f) : Append(f, p)[k] = f[k]
      /\ Append(f, p)[Len(f) + 1] = p
    OBVIOUS
<1>2. DOMAIN Append(f, p) = 1..(Len(f) + 1) /\ DOMAIN f = 1..Len(f)
    BY <1>1
<1>3. /\ \A k \in 1..Len(f) : k \in 1..(Len(f) + 1)
      /\ \A k \in 1..(Len(f) + 1) : k \in 1..Len(f) \/ k = Len(f) + 1
      /\ Len(f) + 1 \in 1..(Len(f) + 1)
    BY <1>1
<1> QED
    BY <1>1, <1>2, <1>3, Zenon DEF AllSound

LEMMA WellFormedIs ==
    \A t : WellFormed(t) <=> AllSound(Pieces(t)) /\ Len(ColumnsRead(Pieces(t))) \in 1..MAX_COLUMNS
BY LoaderFolds DEF WellFormed, AllSound, Sound

\* A file with a line that is refused is not well formed.
LEMMA NotWellFormed ==
    ASSUME NEW t, NEW f \in Seq(Texts), NEW y \in Texts, NEW g \in Seq(Texts),
           Pieces(t) = Append(f, y) \o g,
           \/ Len(y) >= LINE_SIZE - 1
           \/ ~IsBlank(y) /\ (ColumnsOf(y) = {} \/ Len(ColumnsRead(f)) >= MAX_COLUMNS)
    PROVE  ~WellFormed(t)
<1>1. /\ Append(f, y) \in Seq(Texts) /\ Len(f) \in Nat /\ Len(Append(f, y)) = Len(f) + 1
      /\ Append(f, y)[Len(f) + 1] = y
    OBVIOUS
<1>2. Len(f) + 1 \in DOMAIN Pieces(t) /\ Pieces(t)[Len(f) + 1] = y
  <2> DEFINE a == Append(f, y)
  <2>1. a \in Seq(Texts) /\ Len(f) + 1 \in 1..Len(a) /\ a[Len(f) + 1] = y
    BY <1>1
  <2> HIDE DEF a
  <2>2. /\ Len(a \o g) = Len(a) + Len(g) /\ Len(a) \in Nat /\ Len(g) \in Nat
        /\ DOMAIN (a \o g) = 1..Len(a \o g)
        /\ \A i \in 1..Len(a) : (a \o g)[i] = a[i]
    BY <2>1
  <2>3. Pieces(t) = a \o g
    BY DEF a
  <2> QED
    BY <2>1, <2>2, <2>3
<1>3. CASE Len(y) >= LINE_SIZE - 1 \/ (~IsBlank(y) /\ ColumnsOf(y) = {})
  <2>1. Len(y) \in Nat /\ LINE_SIZE \in Nat
    BY LoaderConstants DEF Texts
  <2>2. ~Sound(y)
    BY <1>3, <2>1 DEF Sound
  <2> QED
    BY <1>2, <2>2, WellFormedIs DEF AllSound
<1>4. CASE ~IsBlank(y) /\ Len(ColumnsRead(f)) >= MAX_COLUMNS
  <2> DEFINE c == ColumnsRead(f)
             n == CHOOSE column \in ColumnsOf(y) : TRUE
  <2>1. ColumnsRead(Append(f, y)) = Append(c, n)
    BY <1>4, ColumnsOfMore DEF WithColumn
  <2>2. IsSequence(c)
    BY ColumnsAreList
  <2> HIDE DEF c, n
  <2>3. IsSequence(Append(c, n)) /\ Len(Append(c, n)) = Len(c) + 1 /\ Len(c) \in Nat
    BY <2>2, AppendFacts, SequenceFacts
  <2>4. /\ IsSequence(ColumnsRead(Append(f, y) \o g))
        /\ Len(ColumnsRead(Append(f, y) \o g)) >= Len(c) + 1
    <3>1. IsSequence(ColumnsRead(Append(f, y))) /\ Append(f, y) \in Seq(Texts)
      BY <1>1, <2>1, <2>3
    <3> QED
      BY <2>1, <2>3, <3>1, ColumnsGoOn
  <2>5. Len(ColumnsRead(Append(f, y) \o g)) \in Nat
    BY <2>4, SequenceFacts
  <2>6. Len(ColumnsRead(Pieces(t))) \notin 1..MAX_COLUMNS
    BY <1>4, <2>3, <2>4, <2>5, CodecConstants DEF c
  <2> QED
    BY <2>6, WellFormedIs
<1> QED
    BY <1>3, <1>4

LEMMA InitLoad == Init => LoadInv
<1> SUFFICES ASSUME Init PROVE LoadInv
    OBVIOUS
<1>1. content \in Texts
    BY StatementConstants DEF Init, Texts
<1>2. offset = 0 /\ schema = <<>> /\ load = "idle"
    BY DEF Init, LoaderInit
<1>3. Len(content) \in Nat
    BY <1>1 DEF Texts
<1>4. offset \in 0..Len(content)
    BY <1>2, <1>3
<1> QED
    BY <1>1, <1>2, <1>4 DEF LoadInv, SchemaIsTheText

LEMMA OpenLoad == ASSUME LoadInv, NEW found, OpenSchema(found) PROVE LoadInv'
<1>1. /\ content' = content /\ offset' = 0 /\ schema' = <<>> /\ offset = 0
      /\ load' \in {"reading", "failed"}
    BY Zenon DEF OpenSchema, LoadInv
<1>2. ReadSoFar'
  <2>1. Read' = <<>>
    BY <1>1 DEF Read
  <2>2. <<>> \in Seq(Texts) /\ <<>> \in Texts
    BY BlankPiece
  <2>3. Pieces(<<>>) = Append(<<>>, <<>>)
    BY PiecesOfMore, AppendToOne
  <2>4. AllSound(Append(<<>>, <<>>))
    <3>1. AllSound(<<>>)
      BY DEF AllSound
    <3> QED
      BY <2>2, <3>1, BlankPiece, SoundWithMore
  <2>5. ColumnsRead(Append(<<>>, <<>>)) = <<>>
    BY <2>2, BlankPiece, ColumnsOfMore
  <2>6. Len(<<>>) <= MAX_COLUMNS
    BY CodecConstants
  <2>7. LastPiece(Read, <<>>, <<>>)'
    BY <2>1, <2>2, <2>3 DEF LastPiece
  <2> QED
    BY <1>1, <2>2, <2>4, <2>5, <2>6, <2>7 DEF ReadSoFar
<1> QED
    BY <1>1, <1>2 DEF LoadInv, SchemaIsTheText

\* The state at the start of a line.
LEMMA AtLine ==
    ASSUME LoadInv, Fgets
    PROVE  /\ content \in Texts /\ offset \in Nat /\ offset < Len(content) /\ load = "reading"
           /\ content' = content /\ offset' = ChunkEnd /\ offset' \in 0..Len(content)
           /\ \E f \in Seq(Texts) :
                /\ LastPiece(Read, f, <<>>) /\ AllSound(f)
                /\ schema = ColumnsRead(f) /\ Len(schema) <= MAX_COLUMNS
<1>1. /\ content \in Texts /\ offset \in Nat /\ offset < Len(content) /\ load = "reading"
      /\ content' = content /\ offset' = ChunkEnd
    BY DEF Fgets, LoadInv
<1>2. offset' \in 0..Len(content)
  <2>1. ChunkEnd \in (offset + 1)..Len(content) /\ Len(content) \in Nat
    BY <1>1, ChunkEndIs DEF Texts
  <2> QED
    BY <1>1, <2>1
<1>3. PICK f \in Seq(Texts), x \in Texts :
        /\ LastPiece(Read, f, x) /\ (x = <<>> \/ offset = Len(content))
        /\ AllSound(Append(f, x))
        /\ schema = ColumnsRead(Append(f, x)) /\ Len(schema) <= MAX_COLUMNS
    BY <1>1 DEF LoadInv, ReadSoFar
<1>4. x = <<>>
  <2>1. Len(content) \in Nat
    BY <1>1 DEF Texts
  <2> QED
    BY <1>1, <1>3, <2>1
<1>5. AllSound(f) /\ schema = ColumnsRead(f)
    BY <1>3, <1>4, SoundWithMore, BlankPiece
<1> QED
    BY <1>1, <1>2, <1>3, <1>4, <1>5

\* A line that is read belongs to what has been read.
LEMMA ReadingGoesOn ==
    ASSUME LoadInv, Fgets, NEW l, IsLine(l), load' = load, Sound(l),
           NEW f \in Seq(Texts), LastPiece(Read, f, <<>>), AllSound(f),
           schema' = WithColumn(ColumnsRead(f), l), Len(schema') <= MAX_COLUMNS
    PROVE  LoadInv'
<1>1. /\ content \in Texts /\ offset \in Nat /\ offset < Len(content) /\ load = "reading"
      /\ content' = content /\ offset' = ChunkEnd /\ offset' \in 0..Len(content)
    BY AtLine
<1>2. LineReadAfter(f, l)
    BY <1>1, LineIsPiece
<1>3. /\ l \in Texts /\ Append(f, l) \in Seq(Texts) /\ <<>> \in Texts
      /\ AllSound(Append(f, l))
    BY SoundWithMore, BlankPiece DEF IsLine
<1>4. schema' = ColumnsRead(Append(f, l))
    BY <1>3, ColumnsOfMore
<1>5. Read' = ReadNext
    BY <1>1 DEF Read, ReadNext
<1>6. ReadSoFar'
  <2>1. CASE LastPiece(ReadNext, Append(f, l), <<>>)
    <3>1. AllSound(Append(Append(f, l), <<>>))
      BY <1>3, BlankPiece, SoundWithMore
    <3>2. schema' = ColumnsRead(Append(Append(f, l), <<>>))
      BY <1>3, <1>4, BlankPiece
    <3>3. LastPiece(Read, Append(f, l), <<>>)'
      BY <1>5, <2>1 DEF LastPiece
    <3> QED
      BY <1>3, <3>1, <3>2, <3>3 DEF ReadSoFar
  <2>2. CASE LastPiece(ReadNext, f, l) /\ ChunkEnd = Len(content)
    <3>1. LastPiece(Read, f, l)' /\ offset' = Len(content')
      BY <1>1, <1>5, <2>2 DEF LastPiece
    <3> QED
      BY <1>3, <1>4, <3>1 DEF ReadSoFar
  <2> QED
    BY <1>2, <2>1, <2>2 DEF LineReadAfter
<1> QED
    BY <1>1, <1>6 DEF LoadInv, SchemaIsTheText

LEMMA SkipBlankLoad == ASSUME LoadInv, SkipBlank PROVE LoadInv'
<1>1. Fgets /\ ~TooLong /\ Trim(Chunk) = <<>> /\ schema' = schema /\ load' = load
    BY DEF SkipBlank
<1>2. content \in Texts /\ offset \in Nat /\ offset < Len(content)
    BY <1>1, AtLine
<1>3. PICK f \in Seq(Texts) : /\ LastPiece(Read, f, <<>>) /\ AllSound(f)
                              /\ schema = ColumnsRead(f) /\ Len(schema) <= MAX_COLUMNS
    BY <1>1, AtLine
<1>4. PICK l \in Texts : IsLine(l)
    BY <1>1, <1>2, ChunkIsLine
<1>5. IsBlank(l)
    BY <1>1, <1>2, <1>4, LineOfChunk
<1>6. Sound(l) /\ schema' = WithColumn(ColumnsRead(f), l) /\ Len(schema') <= MAX_COLUMNS
    BY <1>1, <1>3, <1>4, <1>5 DEF Sound, WithColumn, IsLine
<1> QED
    BY <1>1, <1>3, <1>4, <1>6, ReadingGoesOn

LEMMA ReadColumnLoad == ASSUME LoadInv, ReadColumn PROVE LoadInv'
<1>1. /\ Fgets /\ ~TooLong /\ Trim(Chunk) # <<>> /\ load' = load
      /\ ColumnLine(Chunk) /\ Len(schema) < MAX_COLUMNS
      /\ schema' = Append(schema, LineColumn(Chunk))
    BY DEF ReadColumn, IsColumnLine, ColumnLine, LineColumn
<1>2. content \in Texts /\ offset \in Nat /\ offset < Len(content)
    BY <1>1, AtLine
<1>3. PICK f \in Seq(Texts) : /\ LastPiece(Read, f, <<>>) /\ AllSound(f)
                              /\ schema = ColumnsRead(f) /\ Len(schema) <= MAX_COLUMNS
    BY <1>1, AtLine
<1>4. PICK l \in Texts : IsLine(l)
    BY <1>1, <1>2, ChunkIsLine
<1>5. ~IsBlank(l) /\ ColumnLine(l) /\ LineColumn(Chunk) = LineColumn(l)
    BY <1>1, <1>2, <1>4, LineOfChunk
<1>6. ColumnsOf(l) = {LineColumn(l)}
    BY <1>5, ColumnOfLine
<1>7. Sound(l) /\ schema' = WithColumn(ColumnsRead(f), l)
    BY <1>1, <1>3, <1>4, <1>5, <1>6 DEF Sound, WithColumn, IsLine
<1>8. Len(schema') <= MAX_COLUMNS
  <2>1. IsSequence(schema)
    BY <1>3, ColumnsAreList
  <2>2. Len(schema') = Len(schema) + 1 /\ Len(schema) \in Nat
    BY <1>1, <2>1, AppendFacts, SequenceFacts
  <2> QED
    BY <1>1, <2>2, CodecConstants
<1> QED
    BY <1>1, <1>3, <1>4, <1>7, <1>8, ReadingGoesOn

LEMMA RefuseLineLoad == ASSUME LoadInv, RefuseLine PROVE LoadInv'
<1>1. /\ Fgets /\ schema' = schema /\ load' = "refused"
      /\ TooLong \/ (Trim(Chunk) # <<>> /\ ~(ColumnLine(Chunk) /\ Len(schema) < MAX_COLUMNS))
    BY DEF RefuseLine, IsColumnLine, ColumnLine
<1>2. /\ content \in Texts /\ offset \in Nat /\ offset < Len(content)
      /\ content' = content /\ offset' \in 0..Len(content)
    BY <1>1, AtLine
<1>3. PICK f \in Seq(Texts) : LastPiece(Read, f, <<>>) /\ schema = ColumnsRead(f)
    BY <1>1, AtLine
<1>4. /\ Chunk \in Texts /\ Read \in Texts /\ Unread \in Texts
      /\ ReadNext = Read \o Chunk /\ content = ReadNext \o Unread
    BY <1>2, ChunkIs
<1>5. ReadNext \in Texts
    BY <1>4 DEF Texts
<1>6. ASSUME TooLong PROVE ~WellFormed(content)
  <2>1. NL \notin Range(Chunk) /\ Len(Chunk) = LINE_SIZE - 1
    BY <1>6 DEF TooLong
  <2>2. LastPiece(ReadNext, f, <<>> \o Chunk)
    BY <1>3, <1>4, <2>1, LineIsAdded
  <2>3. <<>> \o Chunk = Chunk
    BY <1>4, ConcatEmptySeq DEF Texts
  <2>4. GoesOn(content, f, Chunk)
    BY <1>4, <1>5, <2>2, <2>3, PiecesGoOn
  <2>5. PICK y \in Texts, g \in Seq(Texts) :
            Pieces(content) = Append(f, y) \o g /\ Len(y) >= Len(Chunk)
    BY <2>4 DEF GoesOn
  <2>6. Len(y) >= LINE_SIZE - 1
    BY <2>1, <2>5
  <2> QED
    BY <2>5, <2>6, NotWellFormed
<1>7. ASSUME ~TooLong PROVE ~WellFormed(content)
  <2>1. PICK l \in Texts : IsLine(l)
    BY <1>2, <1>7, ChunkIsLine
  <2>2. ~IsBlank(l) /\ ~(ColumnLine(l) /\ Len(schema) < MAX_COLUMNS)
    BY <1>1, <1>2, <1>7, <2>1, LineOfChunk
  <2>3. ColumnsOf(l) = {} \/ Len(ColumnsRead(f)) >= MAX_COLUMNS
    <3>1. CASE ~ColumnLine(l)
      BY <3>1, NoColumnOfLine
    <3>2. CASE ~(Len(schema) < MAX_COLUMNS)
      <4>1. Len(schema) \in Nat /\ MAX_COLUMNS \in Nat
        BY <1>3, ColumnsAreList, SequenceFacts, CodecConstants
      <4> QED
        BY <1>3, <3>2, <4>1
    <3> QED
      BY <2>2, <3>1, <3>2
  <2>4. \E g \in Seq(Texts) : Pieces(content) = Append(f, l) \o g
    <3>1. CASE LastPiece(ReadNext, Append(f, l), <<>>)
      <4>1. GoesOn(content, Append(f, l), <<>>)
        BY <1>4, <1>5, <3>1, PiecesGoOn
      <4>2. PICK y \in Texts, g \in Seq(Texts) : Pieces(content) = Append(Append(f, l), y) \o g
        BY <4>1 DEF GoesOn
      <4>3. Append(f, l) \in Seq(Texts) /\ <<y>> \in Seq(Texts)
        BY <2>1
      <4>4. Append(Append(f, l), y) = Append(f, l) \o <<y>>
        BY <4>3, AppendIsConcat
      <4>5. (Append(f, l) \o <<y>>) \o g = Append(f, l) \o (<<y>> \o g) /\ <<y>> \o g \in Seq(Texts)
        BY <4>3, ConcatAssociative, ConcatProperties
      <4> QED
        BY <4>2, <4>4, <4>5
    <3>2. CASE LastPiece(ReadNext, f, l) /\ ChunkEnd = Len(content)
      <4>1. ReadNext = content
        BY <1>2, <3>2, SubSeqFull DEF ReadNext, Texts
      <4>2. Append(f, l) \in Seq(Texts) /\ <<>> \in Seq(Texts)
        BY <2>1
      <4>3. Append(f, l) \o <<>> = Append(f, l)
        BY <4>2, ConcatEmptySeq
      <4> QED
        BY <3>2, <4>1, <4>2, <4>3 DEF LastPiece
    <3> QED
      BY <1>2, <1>3, <2>1, <3>1, <3>2, LineIsPiece DEF LineReadAfter
  <2> QED
    BY <2>1, <2>2, <2>3, <2>4, NotWellFormed
<1>8. ~WellFormed(content)
    BY <1>6, <1>7
<1>9. SchemaIsTheText'
    BY <1>1, <1>2, <1>8 DEF SchemaIsTheText
<1> QED
    BY <1>1, <1>2, <1>9 DEF LoadInv

LEMMA ReadEndsLoad == ASSUME LoadInv, ReadEnds PROVE LoadInv'
<1>1. /\ load = "reading" /\ offset = Len(content)
      /\ load' = (IF schema = <<>> THEN "refused" ELSE "loaded")
      /\ content' = content /\ offset' = offset /\ schema' = schema
      /\ content \in Texts /\ offset \in 0..Len(content)
    BY DEF ReadEnds, LoadInv
<1>2. PICK f \in Seq(Texts), x \in Texts :
        /\ LastPiece(Read, f, x) /\ AllSound(Append(f, x))
        /\ schema = ColumnsRead(Append(f, x)) /\ Len(schema) <= MAX_COLUMNS
    BY <1>1 DEF LoadInv, ReadSoFar
<1>3. Read = content
    BY <1>1, SubSeqFull DEF Read, Texts
<1>4. AllSound(Pieces(content)) /\ schema = ColumnsRead(Pieces(content))
    BY <1>2, <1>3 DEF LastPiece
<1>5. IsSequence(schema) /\ Len(schema) \in Nat /\ MAX_COLUMNS \in Nat
  <2>1. Append(f, x) \in Seq(Texts)
    OBVIOUS
  <2> QED
    BY <1>2, <2>1, ColumnsAreList, SequenceFacts, CodecConstants
<1>6. schema = <<>> <=> Len(schema) = 0
    BY <1>5, EmptyIsSequence DEF IsSequence
<1>7. WellFormed(content) <=> schema # <<>>
    BY <1>2, <1>4, <1>5, <1>6, WellFormedIs
<1>8. SchemaOf(content) = schema
    BY <1>4, LoaderFolds
<1>9. SchemaIsTheText'
    BY <1>1, <1>7, <1>8 DEF SchemaIsTheText
<1> QED
    BY <1>1, <1>9 DEF LoadInv

LEMMA OtherLoad == ASSUME LoadInv, UNCHANGED loaderVars PROVE LoadInv'
BY DEF LoadInv, loaderVars, SchemaIsTheText, ReadSoFar, LastPiece, Read

LEMMA StepLoad == LoadInv /\ [Next]_vars => LoadInv'
<1> SUFFICES ASSUME LoadInv, [Next]_vars PROVE LoadInv'
    OBVIOUS
<1>1. CASE Opens
    BY <1>1, OpenLoad DEF Opens
<1>2. CASE LoadsSchema
  <2>1. CASE ReadFails
    BY <2>1 DEF ReadFails, LoadInv, SchemaIsTheText
  <2> QED
    BY <1>2, <2>1, SkipBlankLoad, ReadColumnLoad, RefuseLineLoad, ReadEndsLoad
    DEF LoadsSchema, Loads
<1>3. CASE ~Opens /\ ~LoadsSchema
  <2>1. UNCHANGED loaderVars
    BY <1>3, Zenon
    DEF Next, Parses, NotParsed, NotLoaded, CountDiffers, CastValue, CastFails, PlanInsert,
        PlanSelect, RejectSelect, Rejects, Plans, Outcome, Over, vars
  <2> QED
    BY <2>1, OtherLoad
<1> QED
    BY <1>1, <1>2, <1>3

\* Whatever the file holds and however small the line buffer is, load_schema returns
\* the columns a reader of the whole file sees, or refuses a file that is no list of
\* columns (schema_manager.c:188-371).
THEOREM SchemaIsAlwaysTheText == Spec => []SchemaIsTheText
<1>1. LoadInv => SchemaIsTheText
    BY DEF LoadInv
<1> QED
    BY InitLoad, StepLoad, <1>1, PTL DEF Spec

-----------------------------------------------------------------------------
(* Raw literals *)

\* A raw literal is quoted at both ends, or begins with another byte.
IsRaw(raw) ==
    /\ raw \in Seq(Bytes) /\ raw # <<>>
    /\ raw[1] = QUOTE => Len(raw) >= 2 /\ {i \in DOMAIN raw : raw[i] = QUOTE} = {1, Len(raw)}

LEMMA QuoteIsAlone ==
    /\ QUOTE \notin Letters \cup {"_"} /\ QUOTE \notin DigitBytes /\ QUOTE \notin Signs
    /\ QUOTE \notin Symbols /\ QUOTE \notin WhiteSpace /\ QUOTE \notin Range(Digits)
<1>1. QUOTE \notin Range(Digits)
  <2>1. DOMAIN Digits = 1..10
    BY DEF Digits
  <2>2. ASSUME NEW i \in 1..10 PROVE Digits[i] # QUOTE
    BY DEF Digits, QUOTE
  <2> QED
    BY <2>1, <2>2 DEF Range
<1>2. QUOTE \notin Letters \cup {"_"} /\ QUOTE \notin DigitBytes
    BY TokenizerConstants DEF QUOTE
<1>3. QUOTE \notin Signs /\ QUOTE \notin Symbols /\ QUOTE \notin WhiteSpace
    BY DEF QUOTE, Signs, Symbols, WhiteSpace, NL, CR
<1> QED
    BY <1>1, <1>2, <1>3

LEMMA QuoteStartsString ==
    ASSUME NEW t, NEW i, t[i] = QUOTE
    PROVE  TokenAt(t, i) = <<"string", IF ClosingQuote(t, i) = 0 THEN 0 ELSE ClosingQuote(t, i) + 1>>
<1>1. t[i] \notin Letters \cup {"_"} /\ ~NumberStart(t, i) /\ t[i] \notin Symbols
    BY QuoteIsAlone DEF NumberStart
<1> QED
    BY <1>1, Zenon DEF TokenAt

LEMMA TokenIsRaw ==
    ASSUME NEW t \in Seq(Bytes), NEW token \in Lexed(t)
    PROVE  IsRaw(token.text)
<1>1. PICK i \in 1..Len(t) : TokenAt(t, i)[2] # 0 /\ token = TokenFrom(t, i)
    BY DEF Lexed
<1> DEFINE next == TokenAt(t, i)[2]
           raw == SubSeq(t, i, next - 1)
<1>2. next \in (i + 1)..(Len(t) + 1)
    BY <1>1, TokenGoesOn
<1>3. token.text = raw
    BY <1>1 DEF TokenFrom, Token
<1> HIDE DEF next
<1>4. /\ raw \in Seq(Bytes) /\ Len(raw) = next - i
      /\ \A k \in 1..(next - i) : raw[k] = t[i + k - 1]
    BY <1>2
<1> HIDE DEF raw
<1>5. /\ DOMAIN raw = 1..(next - i) /\ raw # <<>> /\ 1 \in 1..(next - i) /\ raw[1] = t[i]
    BY <1>2, <1>4
<1>6. CASE t[i] = QUOTE
  <2> DEFINE quote == ClosingQuote(t, i)
             S == {j \in (i + 1)..Len(t) : t[j] = QUOTE}
  <2>1. TokenAt(t, i)[2] = IF quote = 0 THEN 0 ELSE quote + 1
    <3>1. \A a, b : <<a, b>>[2] = b
      OBVIOUS
    <3> QED
      BY <1>6, <3>1, QuoteStartsString
  <2>2. quote = IF S = {} THEN 0 ELSE Min(S)
    BY DEF ClosingQuote
  <2>3. S \in SUBSET Nat
    OBVIOUS
  <2>4. quote # 0 /\ next = quote + 1
    BY <1>1, <2>1 DEF next
  <2>5. quote \in S /\ \A j \in S : quote <= j
    BY <2>2, <2>3, <2>4, MinIsLeast
  <2>6. /\ quote \in (i + 1)..Len(t) /\ t[quote] = QUOTE
        /\ \A j \in (i + 1)..(quote - 1) : t[j] # QUOTE
    BY <2>5
  <2> HIDE DEF quote, S
  <2>7. Len(raw) = quote - i + 1 /\ Len(raw) >= 2 /\ DOMAIN raw = 1..(quote - i + 1)
    BY <1>4, <1>5, <2>4, <2>6
  <2>8. raw[Len(raw)] = QUOTE
    <3>1. Len(raw) \in 1..(next - i) /\ i + Len(raw) - 1 = quote
      BY <1>4, <2>4, <2>6, <2>7
    <3> QED
      BY <1>4, <2>6, <3>1
  <2>9. ASSUME NEW k \in 2..(Len(raw) - 1) PROVE raw[k] # QUOTE
    <3>1. k \in 1..(next - i) /\ i + k - 1 \in (i + 1)..(quote - 1)
      BY <1>4, <2>4, <2>6, <2>7
    <3> QED
      BY <1>4, <2>6, <3>1
  <2>10. \A k \in 1..Len(raw) : k \in {1, Len(raw)} \/ k \in 2..(Len(raw) - 1)
    BY <2>6, <2>7
  <2>11. DOMAIN raw = 1..Len(raw) /\ {1, Len(raw)} \subseteq 1..Len(raw)
    BY <2>6, <2>7
  <2>12. {k \in DOMAIN raw : raw[k] = QUOTE} = {1, Len(raw)}
    BY <1>5, <1>6, <2>8, <2>9, <2>10, <2>11
  <2> QED
    BY <1>3, <1>4, <1>5, <2>7, <2>12 DEF IsRaw
<1>7. CASE t[i] # QUOTE
    BY <1>3, <1>4, <1>5, <1>7 DEF IsRaw
<1> QED
    BY <1>6, <1>7

\* The literals of a sentence.
LEMMA LiteralsAreRaw ==
    ASSUME NEW t \in Seq(Bytes), NEW c \in Sentence(t)
    PROVE  /\ c.kind \in {"insert", "select"}
           /\ IsSequence(c.values)
           /\ \A k \in DOMAIN c.values : IsRaw(c.values[k])
           /\ c.where # <<>> => IsRaw(c.where[2])
<1> DEFINE T == Tokenize(t).tokens
<1>1. T \in Seq(Lexed(t)) /\ c \in Meaning(T)
  <2>1. Tokenize(t).ok /\ c \in Meaning(T)
    BY Zenon DEF Sentence
  <2>2. Tokenize(t) = Scan(t)[1] /\ 1 \in 1..Len(t) + 1
    BY TokenizeIsScan
  <2>3. ~Refused.ok
    BY DEF Refused
  <2> QED
    BY <2>1, <2>2, <2>3, ScanType
<1> HIDE DEF T
<1>2. \A k \in 1..Len(T) : IsRaw(T[k].text)
  <2>1. \A k \in 1..Len(T) : T[k] \in Lexed(t)
    BY <1>1
  <2> QED
    BY <2>1, TokenIsRaw
<1>3. Len(T) \in Nat
    BY <1>1
<1>4. ASSUME NEW n \in Inserts(T), c = InsertCommand(T[3].text, ReadValues(T, n))
      PROVE  /\ c.kind \in {"insert", "select"} /\ IsSequence(c.values)
             /\ \A k \in DOMAIN c.values : IsRaw(c.values[k])
             /\ c.where # <<>> => IsRaw(c.where[2])
  <2>1. n \in 1..MAX_COLUMNS /\ IsInsert(T, n) /\ MAX_COLUMNS \in Nat
    BY CodecConstants DEF Inserts
  <2>2. Len(T) >= 5 + 2 * n
    <3>1. n \in Nat
      BY <2>1
    <3>2. Len(T) = 5 + 2 * n \/ Len(T) = 5 + 2 * n + 1
      BY <2>1 DEF IsInsert, Ends
    <3> QED
      BY <3>1, <3>2
  <2>3. c.values = ReadValues(T, n) /\ c.kind = "insert" /\ c.where = <<>>
    BY <1>4 DEF InsertCommand
  <2>4. DOMAIN ReadValues(T, n) = 1..n
        /\ \A k \in 1..n : ReadValues(T, n)[k] = T[4 + 2 * k].text
    BY DEF ReadValues
  <2>5. \A k \in 1..n : 4 + 2 * k \in 1..Len(T)
    BY <1>3, <2>1, <2>2
  <2>6. IsSequence(ReadValues(T, n))
    <3>1. ReadValues(T, n) \in Seq(Range(ReadValues(T, n)))
      <4>1. n \in Nat /\ ReadValues(T, n) = [k \in 1..n |-> ReadValues(T, n)[k]]
        BY <2>1 DEF ReadValues
      <4>2. \A k \in 1..n : ReadValues(T, n)[k] \in Range(ReadValues(T, n))
        BY <2>4 DEF Range
      <4> QED
        BY <4>1, <4>2
    <3> QED
      BY <3>1 DEF IsSequence
  <2> QED
    BY <1>2, <2>3, <2>4, <2>5, <2>6
<1>5. ASSUME NEW s \in Selects(T), c = ReadSelect(T, s[1], Condition(T, s[1], s[2]))
      PROVE  /\ c.kind \in {"insert", "select"} /\ IsSequence(c.values)
             /\ \A k \in DOMAIN c.values : IsRaw(c.values[k])
             /\ c.where # <<>> => IsRaw(c.where[2])
  <2>1. PICK n \in 1..MAX_COLUMNS, e \in {0, 4} : s = <<n, e>>
    BY DEF Selects
  <2>2. IsSelect(T, n, e) /\ c = ReadSelect(T, n, Condition(T, n, e)) /\ MAX_COLUMNS \in Nat
    BY <1>5, <2>1, CodecConstants DEF Selects
  <2>3. c.values = <<>> /\ c.kind = "select" /\ c.where = Condition(T, n, e)
    BY <2>2 DEF ReadSelect, SelectCommand
  <2>4. ASSUME e = 4 PROVE 2 * n + 6 \in 1..Len(T)
    <3>1. Len(T) = 2 * n + 2 + e \/ Len(T) = 2 * n + 2 + e + 1
      BY <2>2 DEF IsSelect, Ends
    <3> QED
      BY <1>3, <2>2, <2>4, <3>1
  <2>5. e = 4 => Condition(T, n, e) = <<T[2 * n + 4].text, T[2 * n + 6].text>>
    BY DEF Condition
  <2>6. e = 0 => Condition(T, n, e) = <<>>
    BY DEF Condition
  <2>7. c.where # <<>> => IsRaw(c.where[2])
    BY <1>2, <2>3, <2>4, <2>5, <2>6
  <2>8. DOMAIN <<>> = {}
    OBVIOUS
  <2> QED
    BY <2>3, <2>7, <2>8, EmptyIsSequence
<1> QED
    BY <1>1, <1>4, <1>5, MeaningParts

\* A quoted literal is no numeral.
LEMMA QuotedIsNoNumeral ==
    ASSUME NEW raw \in Seq(Bytes), raw # <<>>, raw[1] = QUOTE
    PROVE  ~IsNumeral(raw)
<1> DEFINE kept == {i \in DOMAIN raw : raw[i] \notin WhiteSpace}
<1>1. DOMAIN raw = 1..Len(raw) /\ Len(raw) \in Nat /\ Len(raw) >= 1
    OBVIOUS
<1>2. kept \in SUBSET Nat /\ 1 \in kept /\ \A i \in kept : i >= 1
  <2>1. \A i \in DOMAIN raw : i \in Nat /\ i >= 1
    BY <1>1
  <2>2. 1 \in DOMAIN raw
    BY <1>1
  <2>3. raw[1] \notin WhiteSpace
    BY QuoteIsAlone
  <2> QED
    BY <2>1, <2>2, <2>3, Zenon
<1>3. Min(kept) = 1
    BY <1>2, MinIsLeast
<1>4. Unspaced(raw) = raw
    BY <1>2, <1>3, SubSeqFull DEF Unspaced
<1>5. Head(raw) = QUOTE /\ Head(raw) \notin {"+", "-"}
    BY DEF QUOTE
<1>6. Unsigned(raw) = raw
    BY <1>5 DEF Unsigned
<1>7. QUOTE \in Range(raw)
    BY <1>1 DEF Range
<1> QED
    BY <1>4, <1>6, <1>7, QuoteIsAlone DEF IsNumeral

\* cast_value accepts the literals that mean a value of the type, and yields it.
LEMMA CastIsMeaning ==
    ASSUME NEW raw, IsRaw(raw), NEW type \in {"int", "text"}
    PROVE  /\ Casts(type, raw) <=> Castable(LiteralOf(raw), type)
           /\ Casts(type, raw) => ValueOf(type, raw) = LiteralOf(raw)
<1>1. raw \in Seq(Bytes) /\ raw # <<>> /\ Head(raw) = raw[1] /\ Len(raw) \in Nat
      /\ DOMAIN raw = 1..Len(raw) /\ 1 \in DOMAIN raw
    BY DEF IsRaw
<1>2. /\ \A n : IntV(n).type = "int" /\ IntV(n).int = n
      /\ \A s : TextV(s).type = "text" /\ TextV(s).text = s
    BY DEF IntV, TextV
<1>3. CASE raw[1] = QUOTE
  <2>1. LiteralOf(raw) = TextV(SubSeq(raw, 2, Len(raw) - 1))
    BY <1>1, <1>3 DEF LiteralOf
  <2>2. Len(raw) >= 2 /\ {i \in DOMAIN raw : raw[i] = QUOTE} = {1, Len(raw)}
    BY <1>3 DEF IsRaw
  <2>3. Len(SubSeq(raw, 2, Len(raw) - 1)) = Len(raw) - 2
    BY <1>1, <2>2
  <2>4. ~IsInt(raw)
    BY <1>1, <1>3, QuotedIsNoNumeral DEF IsInt
  <2>5. CASE type = "int"
    BY <1>2, <2>1, <2>4, <2>5 DEF Casts, Castable
  <2>6. CASE type = "text"
    <3>1. Casts(type, raw) <=> Len(raw) - 2 < MAX_VALUE_LENGTH
      BY <2>2, <2>6 DEF Casts, IsQuoted
    <3>2. Castable(LiteralOf(raw), type) <=> Len(raw) - 2 < MAX_VALUE_LENGTH
      <4>1. LiteralOf(raw).type = type /\ LiteralOf(raw).text = SubSeq(raw, 2, Len(raw) - 1)
        BY <1>2, <2>1, <2>6
      <4>2. type # "int"
        BY <2>6
      <4> QED
        BY <2>3, <2>6, <4>1, <4>2, Zenon DEF Castable
    <3>3. ValueOf(type, raw) = LiteralOf(raw)
      BY <2>1, <2>6 DEF ValueOf
    <3> QED
      BY <3>1, <3>2, <3>3
  <2> QED
    BY <2>5, <2>6
<1>4. CASE raw[1] # QUOTE
  <2>1. LiteralOf(raw) = IF IsNumeral(raw) THEN IntV(NumeralValue(raw)) ELSE [type |-> "name"]
    BY <1>1, <1>4 DEF LiteralOf
  <2>2. ~IsQuoted(raw)
    BY <1>1, <1>4 DEF IsQuoted
  <2>3. CASE type = "text"
    BY <1>2, <2>1, <2>2, <2>3 DEF Casts, Castable
  <2>4. CASE type = "int"
    <3>1. CASE IsNumeral(raw)
      <4>1. LiteralOf(raw) = IntV(NumeralValue(raw))
        BY <2>1, <3>1
      <4>2. Casts(type, raw) <=> NumeralValue(raw) \in INT_MIN..INT_MAX
        BY <2>4, <3>1 DEF Casts, IsInt
      <4>3. Castable(LiteralOf(raw), type) <=> NumeralValue(raw) \in INT_MIN..INT_MAX
        BY <1>2, <2>4, <4>1 DEF Castable
      <4>4. ValueOf(type, raw) = LiteralOf(raw)
        BY <2>4, <4>1 DEF ValueOf
      <4> QED
        BY <4>2, <4>3, <4>4
    <3>2. CASE ~IsNumeral(raw)
      BY <2>1, <2>4, <3>2 DEF Casts, IsInt, Castable
    <3> QED
      BY <3>1, <3>2
  <2> QED
    BY <2>3, <2>4
<1> QED
    BY <1>3, <1>4

-----------------------------------------------------------------------------
(* The plan is the meaning of the text *)

CastIs(i) ==
    /\ Casts(schema[i].type, command.values[i])
    /\ cast[i] = ValueOf(schema[i].type, command.values[i])

PlanInv ==
    /\ load # "idle" => pc = "accepted"
    /\ load \in {"reading", "loaded", "refused"} => command.table = TableName
    /\ outcome # "none" => pc \in Returned
    /\ \A i \in DOMAIN schema : schema[i].type \in {"int", "text"}
    /\ cast # <<>> => load = "loaded"
    /\ \A i \in DOMAIN cast : CastIs(i)
    /\ PlanIsTheMeaning

MeaningInv == IInv /\ SentenceInv /\ LoadInv /\ PlanInv

LEMMA InitPlan == Init => PlanInv
<1> SUFFICES ASSUME Init PROVE PlanInv
    OBVIOUS
<1>1. /\ schema = <<>> /\ load = "idle" /\ cast = <<>> /\ outcome = "none"
      /\ DOMAIN <<>> = {}
    BY DEF Init, LoaderInit
<1> QED
    BY <1>1 DEF PlanInv, PlanIsTheMeaning

\* No move starts where the parser has returned.
MovesOn(m) == m[1] \notin Returned
LEMMA MovesGo == \A m \in Moves : MovesOn(m)
<1>1. ASSUME NEW a, NEW b, NEW c, a \notin Returned PROVE MovesOn(<<a, b, c>>)
    BY <1>1, MoveParts, Zenon DEF MovesOn
<1>2. \A place \in {"into", "values", "open", "separator", "columns", "comma", "from", "where",
                    "equal", "statement", "end"} : place \notin Returned
    BY DEF Returned
<1>3. \A m \in InsertMoves : MovesOn(m)
    BY <1>1, <1>2, Zenon DEF InsertMoves
<1>4. \A m \in SelectMoves : MovesOn(m)
    BY <1>1, <1>2, Zenon DEF SelectMoves
<1>5. \A m \in Moves \ (InsertMoves \cup SelectMoves) : MovesOn(m)
    BY <1>1, <1>2, Zenon DEF Moves
<1> QED
    BY <1>3, <1>4, <1>5, Zenon

\* The parser works before there is a schema.
LEMMA ParsesPlan == ASSUME MeaningInv, Parses PROVE PlanInv'
<1>1. /\ UNCHANGED <<content, schema, load, cast, outcome, plan>> /\ ParserNext
    BY DEF Parses, loaderVars
<1>2. pc \notin Returned
  <2>1. \A m \in Moves : m[1] \notin Returned
    BY MovesGo DEF MovesOn
  <2> QED
    BY <1>1, <2>1 DEF ParserNext, ScanToken, ScanFails, ReallocFails, ScanEnds, MatchKeyword,
        MatchTokenType, ParseIdentifier, ParseValueToken, NameFits, ValueFits, Accept, Complete,
        Reject, Fitting, Returned
<1>3. outcome = "none" /\ load = "idle" /\ cast = <<>>
    BY <1>2 DEF MeaningInv, PlanInv, Returned
<1> QED
    BY <1>1, <1>3 DEF MeaningInv, PlanInv, PlanIsTheMeaning, CastIs

\* load_schema reads the schema of the command's table.
LEMMA LoaderPlan ==
    ASSUME MeaningInv, UNCHANGED <<parserVars, cast, outcome, plan>>, content' = content,
           load # "loaded", pc = "accepted",
           load' \in {"reading", "loaded", "refused"} => command.table = TableName,
           \A i \in DOMAIN schema' : schema'[i].type \in {"int", "text"}
    PROVE  PlanInv'
<1>1. cast = <<>> /\ DOMAIN <<>> = {}
    BY DEF MeaningInv, PlanInv
<1>2. text' = text /\ pc' = pc /\ command' = command /\ cast' = cast /\ outcome' = outcome
      /\ plan' = plan /\ content' = content
    BY DEF parserVars
<1>3. PlanIsTheMeaning'
  <2>1. PlanIsTheMeaning
    BY DEF MeaningInv, PlanInv
  <2> QED
    BY <1>2, <2>1 DEF PlanIsTheMeaning
<1> QED
    BY <1>1, <1>2, <1>3 DEF PlanInv, Returned

LEMMA OpensPlan == ASSUME MeaningInv, Opens PROVE PlanInv'
<1>1. PICK found \in {FALSE, command.table = TableName} : OpenSchema(found)
    BY DEF Opens
<1>2. /\ UNCHANGED <<parserVars, cast, outcome, plan>> /\ content' = content
      /\ load = "idle" /\ schema' = schema /\ pc = "accepted"
    BY <1>1 DEF Opens, OpenSchema
<1>3. load' \in {"reading", "loaded", "refused"} => command.table = TableName
    BY <1>1, Zenon DEF OpenSchema
<1>4. \A i \in DOMAIN schema' : schema'[i].type \in {"int", "text"}
    BY <1>2 DEF MeaningInv, PlanInv
<1> QED
    BY <1>2, <1>3, <1>4, LoaderPlan

LEMMA LoadsPlan == ASSUME MeaningInv, LoadsSchema PROVE PlanInv'
<1>1. /\ Loads /\ UNCHANGED <<parserVars, cast, outcome, plan>>
      /\ load = "reading" /\ content' = content
    BY DEF LoadsSchema, Loads, Fgets, SkipBlank, ReadColumn, RefuseLine, ReadFails, ReadEnds
<1>2. pc = "accepted" /\ command.table = TableName
    BY <1>1 DEF MeaningInv, PlanInv
<1>3. \A i \in DOMAIN schema' : schema'[i].type \in {"int", "text"}
  <2>1. CASE ReadColumn
    <3> DEFINE column == [name |-> NamePart(Chunk), type |-> TypeOf(TypePart(Chunk))]
    <3>1. schema' = Append(schema, column) /\ IsSequence(schema)
      BY <2>1 DEF ReadColumn, MeaningInv, IInv, Typed
    <3>2. column.type \in {"int", "text"}
      BY <2>1 DEF ReadColumn, IsColumnLine, IsType, TypeOf
    <3> HIDE DEF column
    <3>3. /\ IsSequence(schema') /\ Len(schema') = Len(schema) + 1 /\ Len(schema) \in Nat
          /\ \A i \in 1..Len(schema) : schema'[i] = schema[i]
          /\ schema'[Len(schema) + 1] = column
      BY <3>1, AppendFacts, SequenceFacts
    <3>4. DOMAIN schema' = 1..(Len(schema) + 1) /\ DOMAIN schema = 1..Len(schema)
      BY <3>1, <3>3, SequenceFacts
    <3>5. \A i \in 1..(Len(schema) + 1) : i \in 1..Len(schema) \/ i = Len(schema) + 1
      BY <3>3
    <3>6. \A i \in DOMAIN schema : schema[i].type \in {"int", "text"}
      BY DEF MeaningInv, PlanInv
    <3> QED
      BY <3>2, <3>3, <3>4, <3>5, <3>6, Zenon
  <2>2. CASE ~ReadColumn
    <3>1. schema' = schema
      BY <1>1, <2>2 DEF Loads, SkipBlank, RefuseLine, ReadFails, ReadEnds
    <3> QED
      BY <3>1 DEF MeaningInv, PlanInv
  <2> QED
    BY <2>1, <2>2
<1> QED
    BY <1>1, <1>2, <1>3, LoaderPlan

\* A command that is valid under the schema file of the table that has one.
Good(c) ==
    /\ c.table = TableName /\ WellFormed(content)
    /\ Valid(SchemaOf(content), SqlOf(c))

\* A step that settles the outcome.
LEMMA OutcomePlan ==
    ASSUME MeaningInv, UNCHANGED <<parserVars, loaderVars, cast>>, pc \in Returned,
           outcome' = "planned" =>
               Sentence(text) = {command} /\ Good(command) /\ plan' = SqlOf(command),
           outcome' = "rejected" => \A c \in Sentence(text) : ~Good(c)
    PROVE  PlanInv'
<1>1. /\ text' = text /\ pc' = pc /\ command' = command /\ cast' = cast
      /\ content' = content /\ schema' = schema /\ load' = load
    BY DEF parserVars, loaderVars
<1>2. PlanIsTheMeaning'
    BY <1>1 DEF PlanIsTheMeaning, Good
<1>3. /\ load # "idle" => pc = "accepted"
      /\ load \in {"reading", "loaded", "refused"} => command.table = TableName
      /\ \A i \in DOMAIN schema : schema[i].type \in {"int", "text"}
      /\ cast # <<>> => load = "loaded"
      /\ \A i \in DOMAIN cast : CastIs(i)
    BY DEF MeaningInv, PlanInv
<1> QED
    BY <1>1, <1>2, <1>3 DEF PlanInv, CastIs

LEMMA NotParsedPlan == ASSUME MeaningInv, NotParsed PROVE PlanInv'
<1>1. /\ UNCHANGED <<parserVars, loaderVars, cast>> /\ outcome' = pc
      /\ pc \in {"rejected", "failed"}
    BY DEF NotParsed, Outcome
<1>2. pc \in Returned /\ pc # "planned"
    BY <1>1 DEF Returned
<1>3. pc = "rejected" => Sentence(text) = {}
    BY DEF MeaningInv, SentenceInv, SentencesAreAccepted
<1> QED
    BY <1>1, <1>2, <1>3, OutcomePlan

LEMMA NotLoadedPlan == ASSUME MeaningInv, NotLoaded PROVE PlanInv'
<1>1. /\ UNCHANGED <<parserVars, loaderVars, cast>> /\ load \in {"refused", "failed"}
      /\ outcome' = (IF load = "refused" THEN "rejected" ELSE "failed")
    BY DEF NotLoaded, Outcome
<1>2. pc \in Returned
    BY <1>1 DEF MeaningInv, PlanInv, Returned
<1>3. load = "refused" => \A c \in Sentence(text) : ~Good(c)
    BY DEF MeaningInv, LoadInv, SchemaIsTheText, Good
<1> QED
    BY <1>1, <1>2, <1>3, OutcomePlan

\* Once the schema is loaded, the one command of the text is executed under the
\* columns of the file.
LEMMA Loaded ==
    ASSUME MeaningInv, load = "loaded"
    PROVE  /\ pc \in Returned
           /\ Sentence(text) = {command}
           /\ Good(command) <=> Valid(schema, SqlOf(command))
           /\ IsSequence(schema) /\ IsSequence(command.values) /\ IsSequence(cast)
           /\ \A k \in DOMAIN command.values : IsRaw(command.values[k])
           /\ command.where # <<>> => IsRaw(command.where[2])
           /\ \A i \in DOMAIN schema : schema[i].type \in {"int", "text"}
           /\ \A i \in DOMAIN cast : CastIs(i)
<1>1. pc = "accepted" /\ command.table = TableName
    BY DEF MeaningInv, PlanInv
<1>2. Sentence(text) = {command}
    BY <1>1 DEF MeaningInv, SentenceInv, SentencesAreAccepted
<1>3. WellFormed(content) /\ schema = SchemaOf(content)
    BY DEF MeaningInv, LoadInv, SchemaIsTheText
<1>4. Good(command) <=> Valid(schema, SqlOf(command))
    BY <1>1, <1>3 DEF Good
<1>5. text \in Seq(Bytes) /\ IsSequence(schema) /\ IsSequence(cast)
    BY DEF MeaningInv, IInv, Typed
<1>6. /\ \A i \in DOMAIN schema : schema[i].type \in {"int", "text"}
      /\ \A i \in DOMAIN cast : CastIs(i)
    BY DEF MeaningInv, PlanInv
<1>7. ASSUME NEW t, t \in Seq(Bytes), NEW c, c \in Sentence(t)
      PROVE  /\ IsSequence(c.values)
             /\ \A k \in DOMAIN c.values : IsRaw(c.values[k])
             /\ c.where # <<>> => IsRaw(c.where[2])
    BY <1>7, LiteralsAreRaw
<1>8. command \in Sentence(text)
    BY <1>2
<1>9. /\ IsSequence(command.values)
      /\ \A k \in DOMAIN command.values : IsRaw(command.values[k])
      /\ command.where # <<>> => IsRaw(command.where[2])
    BY <1>5, <1>7, <1>8
<1> QED
    BY <1>1, <1>2, <1>4, <1>5, <1>6, <1>9 DEF Returned

-----------------------------------------------------------------------------
(* INSERT *)

Literals == [i \in DOMAIN command.values |-> LiteralOf(command.values[i])]

LEMMA MeantInsert ==
    ASSUME MeaningInv, Executing("insert")
    PROVE  /\ SqlOf(command) = InsertSql(command.table, Literals)
           /\ Good(command) <=> ValidInsert(schema, InsertSql(command.table, Literals))
           /\ InsertSql(command.table, Literals).values = Literals
           /\ DOMAIN Literals = DOMAIN command.values
           /\ Len(Literals) = Len(command.values)
           /\ \A i \in DOMAIN command.values : Literals[i] = LiteralOf(command.values[i])
<1>1. load = "loaded" /\ command.kind = "insert"
    BY DEF Executing
<1>2. SqlOf(command) = InsertSql(command.table, Literals)
    BY <1>1 DEF SqlOf, Literals
<1>3. /\ \A t, v : InsertSql(t, v).values = v /\ InsertSql(t, v).kind = "insert"
    BY DEF InsertSql, BadSql
<1>4. Valid(schema, InsertSql(command.table, Literals))
        <=> ValidInsert(schema, InsertSql(command.table, Literals))
    BY <1>3 DEF Valid
<1>5. IsSequence(command.values) /\ Good(command) <=> Valid(schema, SqlOf(command))
    BY <1>1, Loaded
<1>6. DOMAIN Literals = 1..Len(command.values) /\ Len(command.values) \in Nat
      /\ DOMAIN command.values = 1..Len(command.values)
    BY <1>1, Loaded, SequenceFacts DEF Literals
<1>7. Len(Literals) = Len(command.values)
  <2>1. Literals = [i \in 1..Len(command.values) |-> Literals[i]]
    BY <1>6 DEF Literals
  <2>2. \A i \in 1..Len(command.values) : Literals[i] \in Range(Literals)
    BY <1>6 DEF Range
  <2>3. Literals \in Seq(Range(Literals))
    BY <1>6, <2>1, <2>2
  <2> QED
    BY <1>6, <2>3
<1>8. \A i \in DOMAIN command.values : Literals[i] = LiteralOf(command.values[i])
    BY DEF Literals
<1>9. Good(command) <=> ValidInsert(schema, InsertSql(command.table, Literals))
    BY <1>1, <1>2, <1>4, Loaded
<1> QED
    BY <1>2, <1>3, <1>6, <1>7, <1>8, <1>9

\* An INSERT that is refused is not valid.
LEMMA RejectsPlan ==
    ASSUME MeaningInv, load = "loaded", Rejects, ~Good(command)
    PROVE  PlanInv'
<1>1. UNCHANGED <<parserVars, loaderVars, cast>> /\ outcome' = "rejected"
    BY DEF Rejects, Outcome
<1>2. pc \in Returned /\ Sentence(text) = {command}
    BY Loaded
<1>3. \A c \in Sentence(text) : ~Good(c)
    BY <1>2
<1> QED
    BY <1>1, <1>2, <1>3, OutcomePlan

LEMMA CountDiffersPlan == ASSUME MeaningInv, CountDiffers PROVE PlanInv'
<1>1. Executing("insert") /\ Len(command.values) # Len(schema) /\ Rejects /\ load = "loaded"
    BY DEF CountDiffers, Executing
<1>2. ~ValidInsert(schema, InsertSql(command.table, Literals))
    BY <1>1, MeantInsert DEF ValidInsert
<1> QED
    BY <1>1, <1>2, MeantInsert, RejectsPlan

LEMMA CastFailsPlan == ASSUME MeaningInv, CastFails PROVE PlanInv'
<1> DEFINE i == NextValue
<1>1. /\ Executing("insert") /\ Len(command.values) = Len(schema) /\ i <= Len(schema)
      /\ ~Casts(schema[i].type, command.values[i]) /\ Rejects /\ load = "loaded"
    BY DEF CastFails, Executing
<1>2. i \in DOMAIN schema /\ i \in DOMAIN command.values
  <2>1. /\ DOMAIN schema = 1..Len(schema) /\ DOMAIN command.values = 1..Len(command.values)
        /\ Len(schema) \in Nat /\ Len(cast) \in Nat
    BY <1>1, Loaded, SequenceFacts
  <2> QED
    BY <1>1, <2>1 DEF NextValue
<1> HIDE DEF i
<1>3. IsRaw(command.values[i]) /\ schema[i].type \in {"int", "text"}
    BY <1>1, <1>2, Loaded
<1>4. ~Castable(Literals[i], schema[i].type)
  <2>1. ~Castable(LiteralOf(command.values[i]), schema[i].type)
    BY <1>1, <1>3, CastIsMeaning
  <2> QED
    BY <1>1, <1>2, <2>1, MeantInsert
<1>5. ~ValidInsert(schema, InsertSql(command.table, Literals))
    BY <1>1, <1>2, <1>4, MeantInsert DEF ValidInsert
<1> QED
    BY <1>1, <1>5, MeantInsert, RejectsPlan

LEMMA PlanInsertPlan == ASSUME MeaningInv, PlanInsert PROVE PlanInv'
<1>1. /\ Executing("insert") /\ Len(cast) = Len(schema) /\ Len(command.values) = Len(schema)
      /\ load = "loaded"
    BY DEF PlanInsert, Executing
<1>2. /\ DOMAIN schema = 1..Len(schema) /\ DOMAIN command.values = 1..Len(command.values)
      /\ DOMAIN cast = 1..Len(cast)
    BY <1>1, Loaded, SequenceFacts
<1>3. ASSUME NEW i \in DOMAIN cast
      PROVE  cast[i] = Literals[i] /\ Castable(Literals[i], schema[i].type)
  <2>1. i \in DOMAIN schema /\ i \in DOMAIN command.values
    BY <1>1, <1>2
  <2>2. IsRaw(command.values[i]) /\ schema[i].type \in {"int", "text"} /\ CastIs(i)
    BY <1>1, <2>1, Loaded
  <2>3. Literals[i] = LiteralOf(command.values[i])
    BY <1>1, <2>1, MeantInsert
  <2> QED
    BY <2>2, <2>3, CastIsMeaning DEF CastIs
<1>4. cast = Literals
  <2>1. cast = [i \in DOMAIN cast |-> cast[i]]
    BY <1>1, Loaded DEF IsSequence
  <2>2. Literals = [i \in DOMAIN Literals |-> Literals[i]]
    BY DEF Literals
  <2>3. DOMAIN cast = DOMAIN Literals
    BY <1>1, <1>2, MeantInsert
  <2> QED
    BY <1>3, <2>1, <2>2, <2>3
<1>5. ValidInsert(schema, InsertSql(command.table, Literals)) <=> Storable(Types(schema), cast)
  <2>1. Len(Literals) = Len(schema) /\ InsertSql(command.table, Literals).values = Literals
    BY <1>1, MeantInsert
  <2>2. \A i \in DOMAIN schema : Castable(Literals[i], schema[i].type)
    BY <1>1, <1>2, <1>3
  <2> QED
    BY <1>4, <2>1, <2>2 DEF ValidInsert
<1>6. CASE Storable(Types(schema), cast)
  <2>1. UNCHANGED <<parserVars, loaderVars, cast>> /\ outcome' = "planned"
        /\ plan' = InsertSql(command.table, cast)
    BY <1>6 DEF PlanInsert, Plans, Outcome
  <2>2. pc \in Returned /\ Sentence(text) = {command}
    BY <1>1, Loaded
  <2>3. Good(command) /\ plan' = SqlOf(command)
    BY <1>1, <1>4, <1>5, <1>6, <2>1, MeantInsert
  <2> QED
    BY <2>1, <2>2, <2>3, OutcomePlan
<1>7. CASE ~Storable(Types(schema), cast)
  <2>1. Rejects
    BY <1>7 DEF PlanInsert
  <2> QED
    BY <1>1, <1>5, <1>7, <2>1, MeantInsert, RejectsPlan
<1> QED
    BY <1>6, <1>7

LEMMA CastValuePlan == ASSUME MeaningInv, CastValue PROVE PlanInv'
<1> DEFINE i == NextValue
           value == ValueOf(schema[i].type, command.values[i])
<1>1. /\ load = "loaded" /\ outcome = "none" /\ i = Len(cast) + 1
      /\ Casts(schema[i].type, command.values[i]) /\ cast' = Append(cast, value)
      /\ UNCHANGED <<parserVars, loaderVars, outcome, plan>>
    BY DEF CastValue, Executing, NextValue
<1> HIDE DEF i, value
<1>2. /\ text' = text /\ pc' = pc /\ command' = command /\ outcome' = outcome /\ plan' = plan
      /\ content' = content /\ schema' = schema /\ load' = load
    BY <1>1 DEF parserVars, loaderVars
<1>3. /\ IsSequence(cast') /\ Len(cast') = Len(cast) + 1 /\ Len(cast) \in Nat
      /\ \A k \in 1..Len(cast) : cast'[k] = cast[k]
      /\ cast'[i] = value
  <2>1. IsSequence(cast)
    BY <1>1, Loaded
  <2> QED
    BY <1>1, <2>1, AppendFacts, SequenceFacts
<1>4. DOMAIN cast' = 1..(Len(cast) + 1) /\ DOMAIN cast = 1..Len(cast)
    BY <1>1, <1>3, Loaded, SequenceFacts
<1>5. ASSUME NEW k \in DOMAIN cast'
      PROVE  /\ Casts(schema[k].type, command.values[k])
             /\ cast'[k] = ValueOf(schema[k].type, command.values[k])
  <2>1. CASE k \in DOMAIN cast
    BY <1>1, <1>3, <1>4, <2>1, Loaded DEF CastIs
  <2>2. CASE k = i
    BY <1>1, <1>3, <2>2 DEF value
  <2>3. k \in DOMAIN cast \/ k = i
    BY <1>1, <1>3, <1>4
  <2> QED
    BY <2>1, <2>2, <2>3
<1>6. \A k \in DOMAIN cast' : CastIs(k)'
    BY <1>2, <1>5 DEF CastIs
<1>7. PlanIsTheMeaning'
    BY <1>1, <1>2 DEF PlanIsTheMeaning
<1>8. /\ load # "idle" => pc = "accepted"
      /\ load \in {"reading", "loaded", "refused"} => command.table = TableName
      /\ \A k \in DOMAIN schema : schema[k].type \in {"int", "text"}
    BY DEF MeaningInv, PlanInv
<1> QED
    BY <1>1, <1>2, <1>6, <1>7, <1>8 DEF PlanInv

-----------------------------------------------------------------------------
(* SELECT *)

LEMMA ColumnIndexIn ==
    ASSUME NEW name, IsSequence(schema), IsColumn(schema, name)
    PROVE  ColumnIndex(schema, name) \in DOMAIN schema
<1> DEFINE S == {i \in DOMAIN schema : schema[i].name = name}
<1>1. DOMAIN schema = 1..Len(schema)
    BY SequenceFacts
<1>2. S \in SUBSET Nat /\ S # {}
    BY <1>1 DEF IsColumn
<1>3. Min(S) \in S
    BY <1>2, MinIsLeast
<1> QED
    BY <1>3 DEF ColumnIndex

SelectedColumns == IF command.columns = Star THEN <<>> ELSE command.columns
LiteralWhere ==
    IF command.where = <<>> THEN <<>> ELSE <<command.where[1], LiteralOf(command.where[2])>>

LEMMA MeantSelect ==
    ASSUME MeaningInv, Executing("select")
    PROVE  /\ SqlOf(command) = SelectSql(command.table, SelectedColumns, LiteralWhere)
           /\ Good(command) <=>
                /\ ValidWhere(schema, LiteralWhere)
                /\ \A i \in DOMAIN SelectedColumns : IsColumn(schema, SelectedColumns[i])
<1>1. load = "loaded" /\ command.kind = "select"
    BY DEF Executing
<1>2. SqlOf(command) = SelectSql(command.table, SelectedColumns, LiteralWhere)
    BY <1>1 DEF SqlOf, SelectedColumns, LiteralWhere
<1>3. \A t, c, w : /\ SelectSql(t, c, w).columns = c /\ SelectSql(t, c, w).where = w
                   /\ SelectSql(t, c, w).kind = "select"
    BY DEF SelectSql, BadSql
<1>4. \A sql : sql.kind = "select" => (Valid(schema, sql) <=> ValidSelect(schema, sql))
    BY DEF Valid
<1>5. Good(command) <=> Valid(schema, SqlOf(command))
    BY <1>1, Loaded
<1>6. Good(command)
        <=> ValidSelect(schema, SelectSql(command.table, SelectedColumns, LiteralWhere))
    BY <1>2, <1>3, <1>4, <1>5
<1> QED
    BY <1>2, <1>3, <1>6 DEF ValidSelect

\* apply_select_where_filter finds and casts what the meaning of the condition names.
LEMMA WhereIsMeaning ==
    ASSUME MeaningInv, Executing("select")
    PROVE  /\ (command.where # <<>> => KnownWhere) <=> ValidWhere(schema, LiteralWhere)
           /\ (command.where # <<>> => KnownWhere) => Where = LiteralWhere
<1>1. CASE command.where = <<>>
    BY <1>1 DEF LiteralWhere, Where, ValidWhere
<1>2. CASE command.where # <<>>
  <2> DEFINE name == command.where[1]
             raw == command.where[2]
             type == schema[ColumnIndex(schema, name)].type
  <2>1. LiteralWhere = <<name, LiteralOf(raw)>> /\ Where = <<name, ValueOf(type, raw)>>
    BY <1>2 DEF LiteralWhere, Where
  <2>2. KnownWhere <=> IsColumn(schema, name) /\ Casts(type, raw)
    BY DEF KnownWhere
  <2>3. ValidWhere(schema, LiteralWhere) <=> IsColumn(schema, name) /\ Castable(LiteralOf(raw), type)
    <3>1. LiteralWhere # <<>> /\ LiteralWhere[1] = name /\ LiteralWhere[2] = LiteralOf(raw)
      BY <2>1
    <3> QED
      BY <3>1 DEF ValidWhere
  <2>4. IsRaw(raw)
    BY <1>2, Loaded DEF Executing
  <2>5. ASSUME IsColumn(schema, name) PROVE type \in {"int", "text"}
    <3>1. IsSequence(schema) /\ \A i \in DOMAIN schema : schema[i].type \in {"int", "text"}
      BY Loaded DEF Executing
    <3> QED
      BY <2>5, <3>1, ColumnIndexIn
  <2> HIDE DEF name, raw, type
  <2>6. ASSUME IsColumn(schema, name)
        PROVE  /\ Casts(type, raw) <=> Castable(LiteralOf(raw), type)
               /\ Casts(type, raw) => ValueOf(type, raw) = LiteralOf(raw)
    BY <2>4, <2>5, <2>6, CastIsMeaning
  <2> QED
    BY <1>2, <2>1, <2>2, <2>3, <2>6
<1> QED
    BY <1>1, <1>2

LEMMA ColumnsAreKnown ==
    (command.columns = Star \/ KnownColumns)
        <=> \A i \in DOMAIN SelectedColumns : IsColumn(schema, SelectedColumns[i])
<1>1. CASE command.columns = Star
  <2>1. SelectedColumns = <<>> /\ DOMAIN <<>> = {}
    BY <1>1 DEF SelectedColumns
  <2> QED
    BY <1>1, <2>1
<1>2. CASE command.columns # Star
    BY <1>2 DEF SelectedColumns, KnownColumns
<1> QED
    BY <1>1, <1>2

LEMMA PlanSelectPlan == ASSUME MeaningInv, PlanSelect PROVE PlanInv'
<1>1. /\ Executing("select") /\ load = "loaded"
      /\ command.where # <<>> => KnownWhere
      /\ command.columns = Star \/ KnownColumns
    BY DEF PlanSelect, Executing
<1>2. /\ plan' = SelectSql(command.table, SelectedColumns, Where)
      /\ outcome' = "planned" /\ UNCHANGED <<parserVars, loaderVars, cast>>
    BY DEF PlanSelect, Plans, Outcome, SelectedColumns
<1>3. Good(command) /\ plan' = SqlOf(command)
    BY <1>1, <1>2, MeantSelect, WhereIsMeaning, ColumnsAreKnown
<1>4. pc \in Returned /\ Sentence(text) = {command}
    BY <1>1, Loaded
<1> QED
    BY <1>2, <1>3, <1>4, OutcomePlan

LEMMA RejectSelectPlan == ASSUME MeaningInv, RejectSelect PROVE PlanInv'
<1>1. /\ Executing("select") /\ load = "loaded" /\ Rejects
      /\ ~(command.where # <<>> => KnownWhere) \/ ~(command.columns = Star \/ KnownColumns)
    BY DEF RejectSelect, Executing
<1>2. ~Good(command)
    BY <1>1, MeantSelect, WhereIsMeaning, ColumnsAreKnown
<1> QED
    BY <1>1, <1>2, RejectsPlan

LEMMA OtherPlan == ASSUME MeaningInv, UNCHANGED vars PROVE PlanInv'
<1>1. /\ text' = text /\ pc' = pc /\ command' = command /\ cast' = cast /\ content' = content
      /\ schema' = schema /\ load' = load /\ outcome' = outcome /\ plan' = plan
    BY DEF vars, parserVars, loaderVars
<1>2. PlanInv
    BY DEF MeaningInv
<1> QED
    BY <1>1, <1>2 DEF PlanInv, CastIs, PlanIsTheMeaning

LEMMA StepPlan == MeaningInv /\ [Next]_vars => PlanInv'
<1> SUFFICES ASSUME MeaningInv, [Next]_vars PROVE PlanInv'
    OBVIOUS
<1> QED
    BY ParsesPlan, OpensPlan, LoadsPlan, NotParsedPlan, NotLoadedPlan, CountDiffersPlan,
       CastValuePlan, CastFailsPlan, PlanInsertPlan, PlanSelectPlan, RejectSelectPlan, OtherPlan
    DEF Next, Over

\* For every text and every schema file: what is asked of the data file is what the
\* text means under the columns of the file, and a statement is refused only when its
\* text is no sentence, its schema no schema, or it is not valid under it
\* (main.c:853-905, executor.c:137-360).
THEOREM PlanIsAlwaysTheMeaning == Spec => []PlanIsTheMeaning
<1>1. MeaningInv => PlanIsTheMeaning
    BY DEF MeaningInv, PlanInv
<1>2. MeaningInv <=> IInv /\ SentenceInv /\ LoadInv /\ PlanInv
    BY DEF MeaningInv
<1> QED
    BY InitInv, StepInv, InitSentence, StepSentence, InitLoad, StepLoad, InitPlan, StepPlan,
       <1>1, <1>2, PTL DEF Spec

-----------------------------------------------------------------------------
(* The types *)

TokenNames == {"identifier", "string", "number"} \cup Symbols
TokenSet == [type : TokenNames, text : Raws]
TokenTypes == tokens \in Seq(TokenSet)

\* What is scanned is a name of a type and a text.
LEMMA LexedIsTyped ==
    ASSUME NEW t \in Seq(Bytes), NEW token \in Lexed(t)
    PROVE  token = [type |-> token.type, text |-> token.text] /\ token.type \in TokenNames
<1>1. PICK i \in 1..Len(t) : TokenAt(t, i)[2] # 0 /\ token = TokenFrom(t, i)
    BY DEF Lexed
<1> DEFINE name == EndOf(t, i, NameBytes)
           number == EndOf(t, i + 1, DigitBytes)
           quote == ClosingQuote(t, i)
           Named(found) == found[2] # 0 => found[1] \in TokenNames
<1>2. TokenAt(t, i) =
        CASE t[i] \in Letters \cup {"_"} -> <<"identifier", name>>
          [] t[i] = QUOTE -> <<"string", IF quote = 0 THEN 0 ELSE quote + 1>>
          [] NumberStart(t, i) -> <<"number", number>>
          [] t[i] \in Symbols -> <<t[i], i + 1>>
          [] OTHER -> <<"none", 0>>
    BY DEF TokenAt
<1> HIDE DEF name, number, quote
<1>4. /\ Named(<<"identifier", name>>)
      /\ Named(<<"string", IF quote = 0 THEN 0 ELSE quote + 1>>)
      /\ Named(<<"number", number>>)
      /\ t[i] \in Symbols => Named(<<t[i], i + 1>>)
      /\ Named(<<"none", 0>>)
  <2>1. \A a, b : <<a, b>>[1] = a /\ <<a, b>>[2] = b
    OBVIOUS
  <2>2. {"identifier", "string", "number"} \cup Symbols \subseteq TokenNames
    BY DEF TokenNames
  <2> QED
    BY <2>1, <2>2, Zenon
<1> HIDE DEF Named
<1>5. Named(TokenAt(t, i))
    BY <1>2, <1>4, Zenon
<1> QED
    BY <1>1, <1>5 DEF Named, TokenFrom, Token

LEMMA TokensAreTyped == ASSUME Typed, Scanned, ParserHolds PROVE TokenTypes
<1>1. /\ text \in Seq(Bytes) /\ tokens \in Seq(Lexed(text))
      /\ \A i \in DOMAIN tokens : Len(tokens[i].text) < TOKEN_SIZE
    BY DEF Typed, Scanned, ParserHolds
<1>2. ASSUME NEW i \in 1..Len(tokens) PROVE tokens[i] \in TokenSet
  <2>1. tokens[i] \in Lexed(text) /\ i \in DOMAIN tokens
    BY <1>1
  <2>2. tokens[i].text \in Seq(Bytes)
    BY <1>1, <2>1, TokenIsRaw DEF IsRaw
  <2>3. tokens[i].text \in Raws
    BY <1>1, <2>1, <2>2 DEF Raws
  <2>4. tokens[i] = [type |-> tokens[i].type, text |-> tokens[i].text]
        /\ tokens[i].type \in TokenNames
    BY <1>1, <2>1, LexedIsTyped
  <2>5. \A a \in TokenNames, b \in Raws : [type |-> a, text |-> b] \in TokenSet
    BY DEF TokenSet
  <2> QED
    BY <2>3, <2>4, <2>5, Zenon
<1>3. tokens = [i \in 1..Len(tokens) |-> tokens[i]] /\ Len(tokens) \in Nat
    BY <1>1
<1> QED
    BY <1>2, <1>3 DEF TokenTypes

\* Every row of the table of moves leads from a place to a place.
LEMMA MovesAreBetweenPlaces ==
    /\ \A m \in Moves : m[1] \in Places /\ m[3] \in Places
    /\ \A place \in DOMAIN After : After[place] \in Places
<1>1. \A m \in Moves : m[1] \in Places /\ m[3] \in Places
    BY Zenon DEF Places
<1>2. \A a, b, c : <<a, b, c>> \in Moves => a \in Places
    BY <1>1, MoveParts, Zenon
<1>3. /\ <<"values", "VALUES", "open">> \in Moves /\ <<"comma", ",", "column">> \in Moves
      /\ <<"where", ";", "last">> \in Moves /\ <<"equal", "=", "where value">> \in Moves
      /\ <<"separator", ",", "value">> \in Moves /\ <<"end", ";", "last">> \in Moves
    BY Zenon DEF Moves, InsertMoves, SelectMoves
<1>4. {"values", "comma", "where", "equal", "separator", "end"} \subseteq Places
    BY <1>2, <1>3
<1>5. \A place \in DOMAIN After :
        After[place] \in {"values", "comma", "where", "equal", "separator", "end"}
    BY DEF After
<1> QED
    BY <1>1, <1>4, <1>5

-----------------------------------------------------------------------------
(* The parser *)

ParserTypes ==
    /\ index \in 0..Len(tokens)
    /\ pc \in Places
    /\ draft \in Commands /\ command \in Commands

LEMMA EmptyIsCommand ==
    /\ <<>> \in Raws
    /\ {NoCommand, InsertCommand(<<>>, <<>>), SelectCommand(<<>>, <<>>, <<>>)} \subseteq Commands
<1>1. <<>> \in Raws
    BY TokenHasRoom DEF Raws
<1>2. <<>> \in Seq(Raws)
    OBVIOUS
<1> QED
    BY <1>1, <1>2 DEF Commands, NoCommand, InsertCommand, SelectCommand

\* The draft takes the text of a token.
LEMMA DraftedIsCommand ==
    ASSUME draft \in Commands, NEW t \in Raws, NEW part \in DOMAIN After
    PROVE  Drafted(part, t) \in Commands
<1> DEFINE R == Seq(Raws)
           C == [kind : {"none", "insert", "select"}, table : Raws, columns : R, where : R,
                 values : R]
<1>1. draft \in C
    BY DEF Commands
<1>2. \A s \in R : Append(s, t) \in R
    OBVIOUS
<1>3. <<t>> \in R
    OBVIOUS
<1>4. part \in {"insert table", "columns", "column", "select table", "where column", "value",
                "where value"}
    BY DEF After
<1> HIDE DEF R
<1>5. draft.columns \in R /\ draft.where \in R /\ draft.values \in R
    BY <1>1
<1>6. /\ [draft EXCEPT !.table = t] \in C
      /\ [draft EXCEPT !.columns = Append(@, t)] \in C
      /\ [draft EXCEPT !.where = <<t>>] \in C
      /\ [draft EXCEPT !.values = Append(@, t)] \in C
      /\ [draft EXCEPT !.where = Append(@, t)] \in C
  <2>1. \A a \in R : /\ [draft EXCEPT !.columns = a] \in C
                     /\ [draft EXCEPT !.where = a] \in C
                     /\ [draft EXCEPT !.values = a] \in C
    BY <1>1
  <2>2. [draft EXCEPT !.table = t] \in C
    BY <1>1
  <2> QED
    BY <1>2, <1>3, <1>5, <2>1, <2>2
<1> HIDE DEF C
<1>7. Drafted(part, t) \in C
    BY <1>4, <1>6 DEF Drafted
<1> QED
    BY <1>7 DEF C, R, Commands

LEMMA ParserNextTypes ==
    ASSUME IInv, SentenceInv, ParserTypes, ParserNext
    PROVE  ParserTypes'
<1>1. TokenTypes /\ IsSequence(tokens) /\ Len(tokens) \in Nat
    BY TokensAreTyped, SequenceFacts DEF IInv, SentenceInv, Typed
<1>2. {"accepted", "rejected", "failed", "statement"} \subseteq Places
    BY DEF Places
<1>3. ASSUME NEW result \in {"accepted", "rejected", "failed"}, Release(result),
             command' \in Commands
      PROVE  ParserTypes'
  <2>1. index' = 0 /\ tokens' = <<>> /\ Len(<<>>) = 0
    BY <1>3 DEF Release
  <2>2. draft' \in Commands /\ pc' \in Places
    BY <1>2, <1>3, EmptyIsCommand DEF Release
  <2> QED
    BY <1>3, <2>1, <2>2 DEF ParserTypes
<1>4. ASSUME NEW place \in Places, Consume(place), More, draft' \in Commands
      PROVE  ParserTypes'
  <2>1. /\ index' = index + 1 /\ pc' = place /\ tokens' = tokens /\ command' = command
        /\ index < Len(tokens) /\ index \in 0..Len(tokens)
    BY <1>4 DEF Consume, More, ParserTypes
  <2>2. index' \in 0..Len(tokens)
    BY <1>1, <2>1
  <2> QED
    BY <1>4, <2>1, <2>2 DEF ParserTypes
<1>5. ASSUME More PROVE Peek.text \in Raws /\ (Peek.type = "*" => Peek.text = <<"*">>)
  <2>1. index + 1 \in 1..Len(tokens)
    BY <1>1, <1>5 DEF More, ParserTypes
  <2>2. Peek \in TokenSet
    BY <1>1, <2>1 DEF TokenTypes, Peek
  <2>3. text \in Seq(Bytes) /\ Peek \in Lexed(text)
    BY <2>1 DEF SentenceInv, Scanned, Typed, Peek
  <2>4. Peek.text \in Raws
    BY <2>2 DEF TokenSet
  <2> QED
    BY <2>3, <2>4, LexedTypes
<1>6. CASE ScanToken
  <2>1. /\ Len(tokens') = Len(tokens) + 1 /\ index' = index /\ pc' = pc /\ draft' = draft
        /\ command' = command
    BY <1>1, <1>6, AppendFacts DEF ScanToken
  <2> QED
    BY <1>1, <2>1 DEF ParserTypes
<1>7. CASE ScanFails
    BY <1>3, <1>7 DEF ScanFails, ParserTypes
<1>8. CASE ReallocFails
    BY <1>3, <1>8 DEF ReallocFails, ParserTypes
<1>9. CASE ScanEnds
    BY <1>2, <1>9 DEF ScanEnds, ParserTypes
<1>10. CASE MatchKeyword
  <2>1. PICK m \in Fitting :
          /\ Consume(m[3])
          /\ draft' = CASE m[2] = "INSERT" -> InsertCommand(<<>>, <<>>)
                        [] m[2] = "SELECT" -> SelectCommand(<<>>, <<>>, <<>>)
                        [] OTHER -> draft
    BY <1>10 DEF MatchKeyword
  <2>2. draft' \in {InsertCommand(<<>>, <<>>), SelectCommand(<<>>, <<>>, <<>>), draft}
    BY <2>1, Zenon
  <2>3. m \in Moves /\ More
    BY DEF Fitting, IsNext
  <2> QED
    BY <1>4, <2>1, <2>2, <2>3, EmptyIsCommand, MovesAreBetweenPlaces DEF ParserTypes
<1>11. CASE MatchTokenType
  <2>1. PICK m \in Fitting :
          /\ m[2] \in Symbols
          /\ Consume(m[3])
          /\ draft' = IF m[2] = "*" THEN [draft EXCEPT !.columns = Star] ELSE draft
    BY <1>11 DEF MatchTokenType
  <2>2. m \in Moves /\ IsNext(m[2]) /\ More
    BY DEF Fitting, IsNext
  <2>3. m[2] = "*" => Peek.type = "*"
    BY <2>2, GrammarConstants DEF IsNext
  <2>4. m[2] = "*" => Star \in Seq(Raws)
    BY <1>5, <2>2, <2>3 DEF Star
  <2>5. draft' \in Commands
    BY <2>1, <2>4 DEF ParserTypes, Commands
  <2> QED
    BY <1>4, <2>1, <2>2, <2>5, MovesAreBetweenPlaces
<1>12. CASE ParseIdentifier \/ ParseValueToken
  <2>1. More /\ draft' = Drafted(pc, Peek.text) /\ Consume(After[pc]) /\ pc \in DOMAIN After
    BY <1>12 DEF ParseIdentifier, ParseValueToken, NameFits, ValueFits, After
  <2>2. draft' \in Commands
    BY <1>5, <2>1, DraftedIsCommand DEF ParserTypes
  <2> QED
    BY <1>4, <2>1, <2>2, MovesAreBetweenPlaces
<1>13. CASE Accept
    BY <1>3, <1>13 DEF Accept, ParserTypes
<1>14. CASE Reject
    BY <1>3, <1>14 DEF Reject, ParserTypes
<1> QED
    BY <1>6, <1>7, <1>8, <1>9, <1>10, <1>11, <1>12, <1>13, <1>14 DEF ParserNext

-----------------------------------------------------------------------------
(* Schema, values and outcome *)

ColumnSet == [name : Seq(Bytes), type : {"int", "text"}]
SchemaTypes ==
    /\ schema \in Seq(ColumnSet)
    /\ load \in {"idle", "reading", "loaded", "refused", "failed"}
ValueTypes ==
    /\ cast \in Seq(Values)
    /\ outcome \in {"none", "planned", "rejected", "failed"}

LEMMA LineColumnIsTyped ==
    ASSUME NEW t \in Texts, ColumnLine(t)
    PROVE  LineColumn(t) \in ColumnSet
<1>1. PICK i \in DOMAIN t : Colons(t) = {i}
    BY OneColon DEF ColumnLine
<1>2. NamePart(t) \in Seq(Bytes)
    BY <1>1, PartsOfColumn, TrimParts DEF Texts
<1>3. TypeOf(TypePart(t)) \in {"int", "text"}
    BY DEF ColumnLine, IsType, TypeOf
<1> QED
    BY <1>2, <1>3 DEF LineColumn, ColumnSet

LEMMA LoadsTypes == ASSUME LoadInv, SchemaTypes, LoadsSchema PROVE SchemaTypes'
<1>1. CASE ReadColumn
  <2>1. /\ load' = load /\ schema' = Append(schema, LineColumn(Chunk))
        /\ ColumnLine(Chunk) /\ Fgets
    BY <1>1 DEF ReadColumn, IsColumnLine, ColumnLine, LineColumn
  <2>2. content \in Texts /\ offset \in Nat /\ offset < Len(content)
    BY <2>1, AtLine
  <2>3. Chunk \in Texts
    <3>1. ChunkEnd \in (offset + 1)..Len(content)
      BY <2>2, ChunkEndIs
    <3> QED
      BY <2>2, <3>1, SubSeqProperties DEF Chunk, Texts
  <2>4. LineColumn(Chunk) \in ColumnSet
    BY <2>1, <2>3, LineColumnIsTyped
  <2> QED
    BY <2>1, <2>4 DEF SchemaTypes
<1>2. CASE ~ReadColumn
  <2>1. schema' = schema /\ load' \in {load, "refused", "failed", "loaded"}
    BY <1>2 DEF LoadsSchema, Loads, SkipBlank, RefuseLine, ReadFails, ReadEnds
  <2> QED
    BY <2>1 DEF SchemaTypes
<1> QED
    BY <1>1, <1>2

\* A value that is cast is an int of the range of int, or a text.
LEMMA CastIsTyped ==
    ASSUME NEW raw \in Seq(Bytes), NEW type \in {"int", "text"}, Casts(type, raw)
    PROVE  ValueOf(type, raw) \in Values
<1>1. CASE type = "int"
  <2>1. NumeralValue(raw) \in INT_MIN..INT_MAX /\ ValueOf(type, raw) = IntV(NumeralValue(raw))
    BY <1>1 DEF Casts, IsInt, ValueOf
  <2> QED
    BY <2>1 DEF Values, IntV
<1>2. CASE type = "text"
  <2>1. Len(raw) \in Nat /\ Len(raw) >= 2
    BY <1>2 DEF Casts, IsQuoted
  <2>2. SubSeq(raw, 2, Len(raw) - 1) \in Seq(Bytes)
    BY <2>1, SubSeqProperties
  <2>3. ValueOf(type, raw) = TextV(SubSeq(raw, 2, Len(raw) - 1))
    BY <1>2 DEF ValueOf
  <2> QED
    BY <2>2, <2>3 DEF Values, TextV
<1> QED
    BY <1>1, <1>2

LEMMA CastValueTypes ==
    ASSUME IInv, ParserTypes, SchemaTypes, ValueTypes, CastValue
    PROVE  ValueTypes'
<1> DEFINE i == NextValue
           value == ValueOf(schema[i].type, command.values[i])
<1>1. /\ Len(command.values) = Len(schema) /\ i <= Len(schema) /\ i = Len(cast) + 1
      /\ Casts(schema[i].type, command.values[i]) /\ cast' = Append(cast, value)
      /\ outcome' = outcome
    BY DEF CastValue, NextValue
<1> HIDE DEF i
<1>2. command.values \in Seq(Raws) /\ schema \in Seq(ColumnSet) /\ cast \in Seq(Values)
    BY DEF ParserTypes, Commands, SchemaTypes, ValueTypes
<1>3. i \in 1..Len(schema) /\ i \in 1..Len(command.values)
    BY <1>1, <1>2
<1>4. command.values[i] \in Seq(Bytes)
    BY <1>2, <1>3 DEF Raws
<1>5. schema[i] \in ColumnSet
    BY <1>2, <1>3
<1>6. schema[i].type \in {"int", "text"}
    BY <1>5 DEF ColumnSet
<1>7. value \in Values
    BY <1>1, <1>4, <1>6, CastIsTyped
<1> HIDE DEF value
<1> QED
    BY <1>1, <1>2, <1>7 DEF ValueTypes

TypesInv == IInv /\ SentenceInv /\ LoadInv /\ ParserTypes /\ SchemaTypes /\ ValueTypes

LEMMA InitTypes == Init => ParserTypes /\ SchemaTypes /\ ValueTypes
<1> SUFFICES ASSUME Init PROVE ParserTypes /\ SchemaTypes /\ ValueTypes
    OBVIOUS
<1>1. /\ tokens = <<>> /\ index = 0 /\ pc = "scan" /\ draft = NoCommand /\ command = NoCommand
      /\ schema = <<>> /\ load = "idle" /\ cast = <<>> /\ outcome = "none"
    BY DEF Init, ParserInit, LoaderInit
<1>2. "scan" \in Places
    BY DEF Places
<1> QED
    BY <1>1, <1>2, EmptyIsCommand DEF ParserTypes, SchemaTypes, ValueTypes

LEMMA StepTypes == TypesInv /\ [Next]_vars => ParserTypes' /\ SchemaTypes' /\ ValueTypes'
<1> SUFFICES ASSUME TypesInv, [Next]_vars PROVE ParserTypes' /\ SchemaTypes' /\ ValueTypes'
    OBVIOUS
<1>1. ASSUME UNCHANGED parserVars PROVE ParserTypes'
    BY <1>1 DEF TypesInv, ParserTypes, parserVars
<1>2. ASSUME UNCHANGED loaderVars PROVE SchemaTypes'
    BY <1>2 DEF TypesInv, SchemaTypes, loaderVars
<1>3. ASSUME UNCHANGED cast, outcome' \in {outcome, "planned", "rejected", "failed"}
      PROVE  ValueTypes'
    BY <1>3 DEF TypesInv, ValueTypes
<1>4. CASE Parses
  <2>1. ParserNext /\ UNCHANGED <<loaderVars, cast, outcome>>
    BY <1>4 DEF Parses
  <2>2. ParserTypes'
    BY <2>1, ParserNextTypes DEF TypesInv
  <2> QED
    BY <1>2, <1>3, <2>1, <2>2
<1>5. CASE Opens
  <2>1. UNCHANGED <<parserVars, cast, outcome>> /\ schema' = schema
        /\ load' \in {"reading", "failed"}
    BY <1>5 DEF Opens, OpenSchema
  <2>2. SchemaTypes'
    BY <2>1 DEF TypesInv, SchemaTypes
  <2> QED
    BY <1>1, <1>3, <2>1, <2>2
<1>6. CASE LoadsSchema
  <2>1. UNCHANGED <<parserVars, cast, outcome>>
    BY <1>6 DEF LoadsSchema
  <2>2. SchemaTypes'
    BY <1>6, LoadsTypes DEF TypesInv
  <2> QED
    BY <1>1, <1>3, <2>1, <2>2
<1>7. CASE CastValue
  <2>1. UNCHANGED <<parserVars, loaderVars>>
    BY <1>7 DEF CastValue
  <2>2. ValueTypes'
    BY <1>7, CastValueTypes DEF TypesInv
  <2> QED
    BY <1>1, <1>2, <2>1, <2>2
<1>8. CASE NotParsed \/ NotLoaded \/ CountDiffers \/ CastFails \/ PlanInsert \/ PlanSelect
           \/ RejectSelect
  <2>1. UNCHANGED <<parserVars, loaderVars, cast>>
        /\ outcome' \in {"planned", "rejected", "failed"}
    BY <1>8, Zenon
    DEF NotParsed, NotLoaded, CountDiffers, CastFails, PlanInsert, PlanSelect, RejectSelect,
        Rejects, Plans, Outcome
  <2> QED
    BY <1>1, <1>2, <1>3, <2>1
<1>9. CASE Over \/ UNCHANGED vars
  <2>1. UNCHANGED <<parserVars, loaderVars, cast, outcome>>
    BY <1>9 DEF Over, vars
  <2> QED
    BY <1>1, <1>2, <1>3, <2>1
<1> QED
    BY <1>4, <1>5, <1>6, <1>7, <1>8, <1>9 DEF Next

\* Every variable keeps its type, for every text, every schema file and all sizes.
THEOREM StatementTypes == Spec => []TypeOK
<1>1. TypesInv => TypeOK
  <2> SUFFICES ASSUME TypesInv PROVE TypeOK
    OBVIOUS
  <2>1. text \in Seq(Bytes) /\ at \in 1..(Len(text) + 1) /\ TokenTypes
    BY TokensAreTyped DEF TypesInv, IInv, SentenceInv, Typed
  <2>2. offset \in 0..Len(content)
    BY DEF TypesInv, LoadInv
  <2> QED
    BY <2>1, <2>2
    DEF TypesInv, TypeOK, ParserTypes, SchemaTypes, ValueTypes, TokenTypes, TokenSet, TokenNames,
        ColumnSet
<1>2. TypesInv <=> IInv /\ SentenceInv /\ LoadInv /\ (ParserTypes /\ SchemaTypes /\ ValueTypes)
    BY DEF TypesInv
<1> QED
    BY InitInv, StepInv, InitSentence, StepSentence, InitLoad, StepLoad, InitTypes, StepTypes,
       <1>1, <1>2, PTL DEF Spec
=============================================================================
