----------------------------- MODULE SqlSession -----------------------------
(***************************************************************************)
(* What running a list of statements against one table means: statement    *)
(* after statement, an INSERT adds its row and is confirmed, a SELECT      *)
(* shows the chosen columns of the matching rows, an invalid statement     *)
(* fails and changes nothing.  A batch stops at the first failure, an      *)
(* interactive session goes on.                                            *)
(***************************************************************************)
EXTENDS Sql

CONSTANTS
    TableName,      \* the table that has a schema
    Schema,         \* its columns
    Statements,     \* the statements a script may hold
    MaxStatements,  \* bound on the length of a script
    InitRows,       \* its rows at the start
    Unreliable      \* may memory or files fail?

VARIABLES
    interactive,\* TRUE in the REPL, FALSE for a file of statements
    script,     \* the statements that have ended
    table,      \* the rows
    output,     \* what has been shown, one record per completed statement
    failures    \* which of them failed

vars == <<interactive, script, table, output, failures>>

-----------------------------------------------------------------------------
Init ==
    /\ interactive \in BOOLEAN
    /\ script = <<>>
    /\ table = InitRows
    /\ output = <<>>
    /\ failures = {}

\* The statements that succeed if nothing breaks.
Good(sql) == sql.table = TableName /\ Valid(Schema, sql)

\* A batch is over at its first failure.
Ends(sql) ==
    /\ Len(script) < MaxStatements
    /\ interactive \/ failures = {}
    /\ script' = Append(script, sql)
    /\ UNCHANGED interactive

Insert(sql) ==
    /\ sql.kind = "insert" /\ Good(sql)
    /\ Ends(sql)
    /\ table' = Append(table, sql.values)
    /\ output' = Append(output, InsertShown)
    /\ UNCHANGED failures

Select(sql) ==
    /\ sql.kind = "select" /\ Good(sql)
    /\ Ends(sql)
    /\ output' = Append(output, SelectShown(Schema, sql, table))
    /\ UNCHANGED <<table, failures>>

\* An INSERT may fail late: the row is in the file, closing it reports an error.
Fail(sql) ==
    /\ Unreliable \/ ~Good(sql)
    /\ Ends(sql)
    /\ failures' = failures \cup {Len(script) + 1}
    /\ \/ table' = table
       \/ Unreliable /\ sql.kind = "insert" /\ Good(sql)
          /\ table' = Append(table, sql.values)
    /\ UNCHANGED output

Next == \E sql \in Statements : Insert(sql) \/ Select(sql) \/ Fail(sql)

Spec == Init /\ [][Next]_vars
=============================================================================
