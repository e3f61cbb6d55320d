------------------------------ MODULE CsvCodec ------------------------------
(***************************************************************************)
(* The text format of one table row, from storage.c.                       *)
(*                                                                         *)
(* A byte is a one-character string, a text is a sequence of bytes.  A     *)
(* schema is the sequence of its column types, a value is a tagged record  *)
(* [type |-> "int", int |-> n] or [type |-> "text", text |-> t], and a row *)
(* is a sequence of values.                                                *)
(***************************************************************************)
EXTENDS Integers, SequencesExt

CONSTANTS
    Bytes,              \* the bytes that occur in a text
    MAX_COLUMNS,        \* models.h: most columns of a schema
    MAX_VALUE_LENGTH,   \* models.h: size of a value's buffer, NUL included
    MAX_LINE_LENGTH,    \* models.h: longest CSV line, newline included
    INT_MIN, INT_MAX    \* range of a C int

ASSUME CodecConstants ==
    /\ MAX_COLUMNS \in Nat \ {0}
    /\ MAX_VALUE_LENGTH \in Nat \ {0}
    /\ MAX_LINE_LENGTH \in Nat \ {0}
    /\ INT_MIN \in Int /\ INT_MAX \in Int /\ INT_MIN < 0 /\ 0 < INT_MAX

NL == "\n"
CR == "\r"
DQ == "\""
Digits == <<"0", "1", "2", "3", "4", "5", "6", "7", "8", "9">>

Text == Seq(Bytes \cup {NL})

IntV(n) == [type |-> "int", int |-> n]
TextV(t) == [type |-> "text", text |-> t]
Cells == [type : {"int"}, int : INT_MIN..INT_MAX] \cup [type : {"text"}, text : Seq(Bytes)]
ColumnTypes == {"int", "text"}

-----------------------------------------------------------------------------
(* int columns: printed with "%d", read back with strtol *)

NatText[n \in Nat] ==
    IF n < 10 THEN <<Digits[n + 1]>>
              ELSE Append(NatText[n \div 10], Digits[(n % 10) + 1])

IntText(n) == IF n < 0 THEN <<"-">> \o NatText[-n] ELSE NatText[n]

\* models.h: 256 bytes hold every int and its NUL.
ASSUME NumbersFit == \A n \in INT_MIN..INT_MAX : Len(IntText(n)) < MAX_VALUE_LENGTH

\* strtol skips leading white space, then takes one sign and the digits.
\* The C locale's isspace; VT is the vertical tab.
WhiteSpace == {" ", "\t", NL, "VT", "\f", CR}
Unspaced(t) ==
    LET kept == {i \in DOMAIN t : t[i] \notin WhiteSpace}
    IN  IF kept = {} THEN <<>> ELSE SubSeq(t, Min(kept), Len(t))
Unsigned(t) == IF t # <<>> /\ Head(t) \in {"+", "-"} THEN Tail(t) ELSE t

DigitOf(byte) == CHOOSE d \in 0..9 : Digits[d + 1] = byte
DigitsValue(t) == FoldLeft(LAMBDA n, byte : 10 * n + DigitOf(byte), 0, t)

IsNumeral(t) ==
    LET digits == Unsigned(Unspaced(t))
    IN  digits # <<>> /\ Range(digits) \subseteq Range(Digits)

NumeralValue(t) ==
    LET magnitude == DigitsValue(Unsigned(Unspaced(t)))
    IN  IF Head(Unspaced(t)) = "-" THEN -magnitude ELSE magnitude

IsInt(t) == IsNumeral(t) /\ NumeralValue(t) \in INT_MIN..INT_MAX

-----------------------------------------------------------------------------
(* Writing a row *)

ValidTextWithCommas(t) ==          \* a slip: the comma forgotten
    /\ Len(t) < MAX_VALUE_LENGTH
    /\ \A i \in DOMAIN t : t[i] \notin {NL, CR, DQ}
ValidText(t) ==
    /\ Len(t) < MAX_VALUE_LENGTH
    /\ \A i \in DOMAIN t : t[i] \notin {",", NL, CR, DQ}

ValidRow(schema, row) ==
    /\ Len(schema) \in 1..MAX_COLUMNS
    /\ Len(row) = Len(schema)
    /\ \A i \in DOMAIN schema :
        /\ row[i].type = schema[i]
        /\ row[i].type = "text" => ValidText(row[i].text)

FieldText(value) == IF value.type = "int" THEN IntText(value.int) ELSE value.text
FieldTexts(row) == [i \in DOMAIN row |-> FieldText(row[i])]

\* A comma goes before every field but the first.
CommaFields(row) == FoldLeft(LAMBDA t, value : t \o <<",">> \o FieldText(value), <<>>, row)
Serialize(row) == Tail(CommaFields(row))

\* A line is kept without its newline; with it, it fits in MAX_LINE_LENGTH.
Line == {l \in Seq(Bytes) : Len(l) + 1 <= MAX_LINE_LENGTH}

Storable(schema, row) == ValidRow(schema, row) /\ Serialize(row) \in Line

-----------------------------------------------------------------------------
(* Reading a line back *)

StripLineEndings(t) ==
    LET kept == {i \in DOMAIN t : t[i] \notin {NL, CR}}
    IN  IF kept = {} THEN <<>> ELSE SubSeq(t, 1, Max(kept))

\* The texts between the commas, however many there are.
WithByte(fields, byte) ==
    IF byte = "," THEN Append(fields, <<>>)
    ELSE [fields EXCEPT ![Len(fields)] = Append(@, byte)]
Fields(line) == FoldLeft(WithByte, <<<<>>>>, line)

Parsable(schema, line) ==
    LET fields == Fields(line)
    IN  /\ Len(schema) \in 1..MAX_COLUMNS
        /\ Len(fields) = Len(schema)
        /\ \A i \in DOMAIN schema :
            /\ Len(fields[i]) < MAX_VALUE_LENGTH
            /\ schema[i] = "int" => IsInt(fields[i])

ParsedRow(schema, line) ==
    LET fields == Fields(line)
    IN  [i \in DOMAIN schema |->
            IF schema[i] = "int" THEN IntV(NumeralValue(fields[i]))
                                 ELSE TextV(fields[i])]

\* read_all_rows drops the line endings, skips a blank line and rejects a line
\* that does not fit its buffer or does not parse.
Blank(line) == StripLineEndings(line) = <<>>
Readable(schema, line) ==
    /\ Len(line) < MAX_LINE_LENGTH
    /\ Blank(line) \/ Parsable(schema, StripLineEndings(line))

WithLine(schema, rows, line) ==
    IF Blank(line) THEN rows
    ELSE Append(rows, ParsedRow(schema, StripLineEndings(line)))
RowsOf(schema, texts) == FoldLeft(LAMBDA rows, line : WithLine(schema, rows, line), <<>>, texts)

=============================================================================
