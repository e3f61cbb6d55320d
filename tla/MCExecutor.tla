----------------------------- MODULE MCExecutor -----------------------------
(***************************************************************************)
(* A table of two columns and the statements a script may hold.            *)
(***************************************************************************)
EXTENDS Executor

CONSTANTS b1, b2, b3   \* addresses

MCBytes == {"0", "1", "2", "3", "4", "5", "6", "7", "8", "9", "-", "a", "b", ","}
MinInt == -9

id == <<"i", "d">>
name == <<"n">>
nil == <<"n", "i", "l">>
MCSchema == <<[name |-> id, type |-> "int"], [name |-> name, type |-> "text"]>>
MCRows == << <<IntV(1), TextV(<<"a">>)>>, <<IntV(2), TextV(<<"b", "b", "a">>)>> >>

Insert(values) == InsertSql("t", values)
Select(columns, where) == SelectSql("t", columns, where)

MCStatements == {
    BadSql,
    InsertSql("u", <<IntV(1)>>),            \* no schema
    Insert(<<IntV(1)>>),                            \* too few values
    Insert(<<IntV(10), TextV(<<"a">>)>>),           \* beyond INT_MAX
    Insert(<<IntV(3), TextV(<<",">>)>>),            \* refused by append_row
    Insert(<<IntV(1), TextV(<<"b">>)>>),
    Select(<<>>, <<>>),
    Select(<<>>, <<name, TextV(<<"a">>)>>),
    Select(<<name, id>>, <<id, IntV(1)>>),
    Select(<<name>>, <<id, IntV(7)>>),          \* no row
    Select(<<id, nil>>, <<>>),                  \* unknown column
    Select(<<>>, <<nil, IntV(1)>>),               \* unknown column
    Select(<<id>>, <<id, TextV(<<"a">>)>>) }    \* a type
=============================================================================
