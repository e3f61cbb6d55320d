------------------------------- MODULE Grammar -------------------------------
(***************************************************************************)
(* The sentences of the SQL subset, by the positions of their tokens, and  *)
(* the command each of them stands for.  This is the reference the parser  *)
(* is compared with; the limits are those of the fixed arrays in models.h. *)
(***************************************************************************)
EXTENDS Models, Tokenizer, CsvCodec

CONSTANT Keywords       \* the spellings of each keyword, in every mix of cases

ASSUME GrammarConstants ==
    /\ DOMAIN Keywords = {"INSERT", "INTO", "VALUES", "SELECT", "FROM", "WHERE"}
    /\ \A v, w \in DOMAIN Keywords : v # w => Keywords[v] \cap Keywords[w] = {}

\* What a token can be taken for.
IsWord(token, word) == token.type = "identifier" /\ token.text \in Keywords[word]
IsName(token) == token.type = "identifier" /\ Len(token.text) < MAX_NAME_LENGTH
IsValue(token) ==
    /\ token.type \in {"identifier", "number", "string"}
    /\ Len(token.text) < MAX_VALUE_LENGTH

Ends(tokens, n) ==
    \/ Len(tokens) = n
    \/ Len(tokens) = n + 1 /\ tokens[n + 1].type = ";"

\* INSERT INTO name VALUES ( value , ... , value ), n values.
IsInsert(tokens, n) ==
    /\ Ends(tokens, 5 + 2 * n)
    /\ IsWord(tokens[1], "INSERT") /\ IsWord(tokens[2], "INTO") /\ IsName(tokens[3])
    /\ IsWord(tokens[4], "VALUES") /\ tokens[5].type = "("
    /\ \A k \in 1..n :
        /\ IsValue(tokens[4 + 2 * k])
        /\ tokens[5 + 2 * k].type = IF k = n THEN ")" ELSE ","

\* SELECT * or n names, FROM name; then nothing or WHERE name = value (4 tokens).
IsSelect(tokens, n, condition) ==
    /\ Ends(tokens, 2 * n + 2 + condition)
    /\ IsWord(tokens[1], "SELECT")
    /\ \/ n = 1 /\ tokens[2].type = "*"
       \/ \A k \in 1..n : IsName(tokens[2 * k]) /\ (k < n => tokens[2 * k + 1].type = ",")
    /\ IsWord(tokens[2 * n + 1], "FROM") /\ IsName(tokens[2 * n + 2])
    /\ condition = 4 =>
        /\ IsWord(tokens[2 * n + 3], "WHERE") /\ IsName(tokens[2 * n + 4])
        /\ tokens[2 * n + 5].type = "=" /\ IsValue(tokens[2 * n + 6])

\* The commands a list of tokens stands for: at most one, as the checks confirm.
Meaning(tokens) ==
    {InsertCommand(tokens[3].text, [k \in 1..n |-> tokens[4 + 2 * k].text]) :
        n \in {m \in 1..MAX_COLUMNS : IsInsert(tokens, m)}}
    \cup
    {SelectCommand(tokens[2 * s[1] + 2].text,
                   [k \in 1..s[1] |-> tokens[2 * k].text],
                   IF s[2] = 0 THEN <<>>
                   ELSE <<tokens[2 * s[1] + 4].text, tokens[2 * s[1] + 6].text>>) :
        s \in {m \in (1..MAX_COLUMNS) \X {0, 4} : IsSelect(tokens, m[1], m[2])}}

=============================================================================
