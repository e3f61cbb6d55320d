----------------------------- MODULE MCStatement -----------------------------
(***************************************************************************)
(* Statements one edit away from a few sentences, and small schema files.  *)
(* A keyword is one letter; the type names are one letter each.            *)
(***************************************************************************)
EXTENDS Statement

MCKeywords == [INSERT |-> {<<"I">>, <<"i">>}, INTO |-> {<<"N">>}, VALUES |-> {<<"V">>},
               SELECT |-> {<<"S">>}, FROM |-> {<<"F">>}, WHERE |-> {<<"W">>}]
MCLetters == {"I", "i", "N", "V", "S", "F", "W", "a", "b"}
MCDigits == {"1"}
MCTypeWords == [int |-> <<"i">>, text |-> <<"t">>]
MCBytes == MCLetters \cup MCDigits \cup Symbols \cup {QUOTE, " ", "-", "?", ":", "t", NL}
MCTable == <<"a">>
MinInt == -9

\* Lexemes, among them names, numbers and strings at and beyond their limits.
Lexemes == {<<c>> : c \in {"F", "W", "N", "V", "a", "b", "1", "(", ")", ",", "*", "=", ";", "?"}}
    \cup { <<"a", "b">>, <<"a", "b", "a">>, <<"a", "b", "a", "b", "a">>, <<"-", "1">>,
           <<"1", "1">>, <<QUOTE, QUOTE>>, <<QUOTE, "a", "b", QUOTE>>, <<QUOTE, ",", QUOTE>>,
           <<QUOTE, "a", "b", "a", QUOTE>>, <<QUOTE>> }

A == <<"a">>
String == <<QUOTE, "a", QUOTE>>
MainSentences == {
    <<<<"I">>, <<"N">>, A, <<"V">>, <<"(">>, <<"1">>, <<",">>, String, <<")">>, <<";">>>>,
    <<<<"S">>, A, <<",">>, <<"b">>, <<"F">>, A, <<"W">>, <<"b">>, <<"=">>, String, <<";">>>>,
    <<<<"S">>, <<"b">>, <<"F">>, A, <<"W">>, A, <<"=">>, <<"1">>>> }
Sentences == MainSentences \cup {
    <<<<"i">>, <<"N">>, A, <<"V">>, <<"(">>, <<"1">>, <<")">>>>,
    <<<<"S">>, <<"*">>, <<"F">>, A, <<";">>>>,
    <<<<"S">>, <<"F">>, <<"F">>, <<"F">>>> }

\* One value or column more than MAX_COLUMNS.
TooLongLists == {
    <<<<"I">>, <<"N">>, A, <<"V">>, <<"(">>, <<"1">>, <<",">>, String, <<",">>, <<"1">>, <<")">>>>,
    <<<<"S">>, A, <<",">>, <<"b">>, <<",">>, A, <<"F">>, A>> }

Edited(s) ==
    {SubSeq(s, 1, n) : n \in 0..Len(s)}
    \cup {RemoveAt(s, i) : i \in DOMAIN s}
    \cup {[s EXCEPT ![i] = x] : i \in DOMAIN s, x \in Lexemes}
    \cup {InsertAt(s, i, x) : i \in 1..(Len(s) + 1), x \in Lexemes}

\* The tokens with a blank after each.
Spaced(s) == FlattenSeq([i \in DOMAIN s |-> Append(s[i], " ")])
Statements == {Spaced(s) : s \in TooLongLists \cup UNION {Edited(s) : s \in Sentences}}

TwoColumns == <<"a", ":", "i", NL, "b", ":", "t", NL>>

\* Lines that are columns, blank, wrong, or at the limit of a buffer of 8 bytes.
ColumnLines == {<<"a", ":", "i">>, <<"b", ":", "t">>, <<" ", "a", " ", ":", " ", "t">>}
OtherLines == { <<>>, <<" ", " ">>, <<"a">>, <<":", "i">>, <<"a", ":">>, <<"a", ":", "i", ":">>,
                <<"a", ":", "b">>, <<"a", "b", ":", "i">>, <<"a", "b", "a", ":", "i">>,
                <<" ", " ", " ", "a", ":", "i">>, <<" ", " ", " ", " ", "b", ":", "t">>,
                <<"b", ":", "t", " ", " ", " ", " ", " ", ":">> }
Lines == ColumnLines \cup OtherLines
Files == {<<l>> : l \in Lines} \cup {<<l, m>> : l \in Lines, m \in Lines}
         \cup {<<k, l, m>> : k \in ColumnLines, l \in ColumnLines \cup {<<>>}, m \in Lines}
Joined(f) == FlattenSeq([i \in DOMAIN f |-> Append(f[i], NL)])
SchemaFiles == {Joined(f) : f \in Files} \cup {Front(Joined(f)) : f \in Files}

MCInputs ==
    {[text |-> t, content |-> TwoColumns] : t \in Statements}
    \cup {[text |-> Spaced(s), content |-> c] : s \in MainSentences, c \in SchemaFiles}
=============================================================================
