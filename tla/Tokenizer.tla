------------------------------ MODULE Tokenizer ------------------------------
(***************************************************************************)
(* tokenize_sql of tokenizer.c: the tokens of a text, or the refusal of it.*)
(* A text is a sequence of bytes, a token is [type |-> ..., text |-> ...]. *)
(***************************************************************************)
EXTENDS Integers, SequencesExt

CONSTANTS
    Letters,            \* the bytes isalpha accepts
    DigitBytes,         \* the bytes isdigit accepts
    TOKEN_SIZE          \* size of a token's text, NUL included

QUOTE == "'"
White == {" ", "\t", "\n", "\r", "\f", "VT"}    \* isspace in the C locale
Signs == {"+", "-"}
Symbols == {",", "(", ")", "*", "=", ">", "<", ";"}
NameBytes == Letters \cup DigitBytes \cup {"_"}

ASSUME TokenizerConstants ==
    /\ TOKEN_SIZE \in Nat \ {0, 1}
    /\ Letters \cap DigitBytes = {} /\ QUOTE \notin Letters \cup DigitBytes
    /\ (Letters \cup DigitBytes) \cap ({"_"} \cup White \cup Signs \cup Symbols) = {}

Token(type, text) == [type |-> type, text |-> text]

\* The first place from i on whose byte is not in a set, or one past the end.
EndOf(t, i, bytes) == Min({j \in i..Len(t) : t[j] \notin bytes} \cup {Len(t) + 1})

\* Where the string that starts at i ends: no escape is known.
ClosingQuote(t, i) ==
    LET quotes == {j \in (i + 1)..Len(t) : t[j] = QUOTE}
    IN  IF quotes = {} THEN 0 ELSE Min(quotes)

NumberStart(t, i) ==
    \/ t[i] \in DigitBytes
    \/ t[i] \in Signs /\ i < Len(t) /\ t[i + 1] \in DigitBytes

\* The type of the token at i and the place after it; 0 when there is none.
TokenAt(t, i) ==
    CASE t[i] \in Letters \cup {"_"} -> <<"identifier", EndOf(t, i, NameBytes)>>
      [] t[i] = QUOTE -> <<"string", IF ClosingQuote(t, i) = 0 THEN 0 ELSE ClosingQuote(t, i) + 1>>
      [] NumberStart(t, i) -> <<"number", EndOf(t, i + 1, DigitBytes)>>
      [] t[i] \in Symbols -> <<t[i], i + 1>>
      [] OTHER -> <<"none", 0>>

\* [ok |-> FALSE] stands for the error return, which frees what there is.
Refused == [ok |-> FALSE, tokens |-> <<>>]

Tokenize(t) ==
    LET from[i \in 1..Len(t) + 1] ==
            IF i > Len(t) THEN [ok |-> TRUE, tokens |-> <<>>]
            ELSE IF t[i] \in White THEN from[i + 1]
            ELSE LET found == TokenAt(t, i)
                     next  == found[2]
                 IN  IF next = 0 \/ next - i >= TOKEN_SIZE \/ ~from[next].ok
                     THEN Refused
                     ELSE [ok |-> TRUE,
                           tokens |-> <<Token(found[1], SubSeq(t, i, next - 1))>>
                                      \o from[next].tokens]
    IN  from[1]

=============================================================================
