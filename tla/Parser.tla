-------------------------------- MODULE Parser --------------------------------
(***************************************************************************)
(* parse_sql of parser.c: tokenize_sql collects the tokens of a statement  *)
(* in a list that realloc extends by one token at a time; parse_insert_    *)
(* tokens and parse_select_tokens then go over the list with a cursor,     *)
(* matching a keyword or a symbol or taking a name or a value at each      *)
(* place.  The list is freed on every way out, and the caller's command is *)
(* assigned only on success.                                               *)
(***************************************************************************)
EXTENDS Grammar

VARIABLES
    text,       \* the statement
    at,         \* the place of the tokenizer in it
    tokens,     \* the tokens in the list
    index,      \* the cursor: number of tokens consumed
    pc,         \* what the parser expects next, or how it returned: "accepted",
                \* "rejected", or "failed" for want of memory
    draft,      \* insert_command or select_command, the local structure
    command     \* *out_command

parserVars == <<text, at, tokens, index, pc, draft, command>>

ParserInit ==
    /\ at = 1
    /\ tokens = <<>> /\ index = 0
    /\ pc = "scan"
    /\ draft = NoCommand /\ command = NoCommand

\* free_token_list, and parse_sql returns.
ReleaseTokensOnly(result) ==        \* a slip: the cursor outlives its list
    /\ tokens' = <<>> /\ UNCHANGED index
    /\ draft' = NoCommand
    /\ pc' = result
Release(result) ==
    /\ tokens' = <<>> /\ index' = 0
    /\ draft' = NoCommand
    /\ pc' = result

-----------------------------------------------------------------------------
(* tokenize_sql *)

Start == EndOf(text, at, White)         \* skip_spaces
Found == TokenAt(text, Start)
Tokenized == Start > Len(text)
Acceptable == Found[2] # 0 /\ Found[2] - Start < TOKEN_SIZE

\* append_token
ScanToken ==
    /\ pc = "scan" /\ ~Tokenized /\ Acceptable
    /\ tokens' = Append(tokens, Token(Found[1], SubSeq(text, Start, Found[2] - 1)))
    /\ at' = Found[2]
    /\ UNCHANGED <<text, index, pc, draft, command>>

\* A byte that starts no token, a string without end, a token beyond its buffer.
ScanFails ==
    /\ pc = "scan" /\ ~Tokenized /\ ~Acceptable
    /\ Release("rejected")
    /\ UNCHANGED <<text, at, command>>

ReallocFails ==
    /\ pc = "scan" /\ ~Tokenized /\ Acceptable
    /\ Release("failed")
    /\ UNCHANGED <<text, at, command>>

ScanEnds ==
    /\ pc = "scan" /\ Tokenized
    /\ pc' = "statement"
    /\ UNCHANGED <<text, at, tokens, index, draft, command>>

-----------------------------------------------------------------------------
(* The cursor *)

More == index < Len(tokens)
Peek == tokens[index + 1]

\* <<place, what may come next, place after it>>: a keyword is named by itself, a
\* symbol by its token type.
InsertMoves == {
    <<"into", "INTO", "insert table">>,
    <<"values", "VALUES", "open">>,
    <<"open", "(", "value">>,
    <<"separator", ",", "value">>, <<"separator", ")", "end">> }
SelectMoves == {
    <<"columns", "*", "from">>,
    <<"comma", ",", "column">>, <<"comma", "FROM", "select table">>,
    <<"from", "FROM", "select table">>,
    <<"where", "WHERE", "where column">>, <<"where", ";", "last">>,
    <<"equal", "=", "where value">> }
Moves == InsertMoves \cup SelectMoves \cup {
    <<"statement", "INSERT", "into">>, <<"statement", "SELECT", "columns">>,
    <<"end", ";", "last">> }

\* The places that take a name or a value, and the place after each.
After ==
    [place \in {"insert table", "columns", "column", "select table", "where column",
                "value", "where value"} |->
        CASE place = "insert table" -> "values"
          [] place \in {"columns", "column"} -> "comma"
          [] place = "select table" -> "where"
          [] place = "where column" -> "equal"
          [] place = "value" -> "separator"
          [] place = "where value" -> "end"]

IsNext(what) ==
    More /\ IF what \in DOMAIN Keywords THEN IsWord(Peek, what) ELSE Peek.type = what
Fitting == {m \in Moves : m[1] = pc /\ IsNext(m[2])}

Consume(place) ==
    /\ index' = index + 1
    /\ pc' = place
    /\ UNCHANGED <<text, at, tokens, command>>

\* match_keyword.  The first word decides which command is drafted.
MatchKeyword ==
    \E m \in Fitting :
        /\ m[2] \in DOMAIN Keywords
        /\ Consume(m[3])
        /\ draft' = CASE m[2] = "INSERT" -> InsertCommand(<<>>, <<>>)
                      [] m[2] = "SELECT" -> SelectCommand(<<>>, <<>>, <<>>)
                      [] OTHER -> draft

\* match_token_type.  A star stands for the column list.
MatchTokenType ==
    \E m \in Fitting :
        /\ m[2] \in Symbols
        /\ Consume(m[3])
        /\ draft' = IF m[2] = "*" THEN [draft EXCEPT !.columns = Star] ELSE draft

Drafted(part, t) ==
    CASE part \in {"insert table", "select table"} -> [draft EXCEPT !.table = t]
      [] part \in {"columns", "column"} -> [draft EXCEPT !.columns = Append(@, t)]
      [] part = "where column" -> [draft EXCEPT !.where = <<t>>]
      [] part = "value" -> [draft EXCEPT !.values = Append(@, t)]
      [] part = "where value" -> [draft EXCEPT !.where = Append(@, t)]

\* parse_identifier and append_select_column
NameFits ==
    /\ pc \in {"insert table", "columns", "column", "select table", "where column"}
    /\ More /\ IsName(Peek)
    /\ pc \in {"columns", "column"} => Len(draft.columns) < MAX_COLUMNS
ParseIdentifier ==
    /\ NameFits
    /\ draft' = Drafted(pc, Peek.text)
    /\ Consume(After[pc])

\* parse_value_token
ValueFitsOneTooMany ==              \* a slip: one more than the array holds
    /\ pc \in {"value", "where value"}
    /\ More /\ IsValue(Peek)
    /\ pc = "value" => Len(draft.values) <= MAX_COLUMNS
ValueFits ==
    /\ pc \in {"value", "where value"}
    /\ More /\ IsValue(Peek)
    /\ pc = "value" => Len(draft.values) < MAX_COLUMNS
ParseValueToken ==
    /\ ValueFits
    /\ draft' = Drafted(pc, Peek.text)
    /\ Consume(After[pc])

\* expect_end_or_semicolon has found the end: the draft becomes the command.
CompleteWithTail == pc \in {"end", "where", "last"}      \* a slip: the rest is not looked at
Complete == pc \in {"end", "where", "last"} /\ ~More
Accept ==
    /\ Complete
    /\ command' = draft
    /\ Release("accepted")
    /\ UNCHANGED <<text, at>>

\* Every other way out of the parsing functions.
Reject ==
    /\ pc \notin {"scan", "accepted", "rejected", "failed"}
    /\ ~NameFits /\ ~ValueFits /\ ~Complete /\ Fitting = {}
    /\ Release("rejected")
    /\ UNCHANGED <<text, at, command>>

ParserNext ==
    \/ ScanToken \/ ScanFails \/ ReallocFails \/ ScanEnds
    \/ MatchKeyword \/ MatchTokenType \/ ParseIdentifier \/ ParseValueToken
    \/ Accept \/ Reject
=============================================================================
