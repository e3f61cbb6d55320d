------------------------------ MODULE MCMiniSql ------------------------------
(***************************************************************************)
(* Two processes, a table of two columns, and edits that rename a column or*)
(* make an int column a string column, in every order.                     *)
(***************************************************************************)
EXTENDS MiniSql

MCBytes == {"0", "1", "-", "x", ","}
MinInt == -9

a == <<"a">>
b == <<"b">>
c == <<"c">>
Column(name, type) == [name |-> name, type |-> type]
MCFirstSchema == <<Column(a, "int"), Column(b, "int")>>
MCSchemas == {<<Column(a, s), Column(n, t)>> : s, t \in {"int", "text"}, n \in {b, c}}
MCFirstRows == << <<IntV(-1), IntV(0)>> >>

MCStatements == {
    InsertSql("t", <<IntV(1), IntV(1)>>),
    InsertSql("t", <<IntV(1), TextV(<<"0", "1">>)>>),   \* not how an int is printed
    InsertSql("t", <<TextV(<<"x">>), TextV(<<>>)>>),
    SelectSql("t", <<>>, <<>>),
    SelectSql("t", <<b, a>>, <<b, IntV(1)>>),
    SelectSql("t", <<a>>, <<c, TextV(<<"1">>)>>) }
Symmetric == Permutations(Sessions)
=============================================================================
