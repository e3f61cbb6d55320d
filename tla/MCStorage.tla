------------------------------ MODULE MCStorage ------------------------------
(***************************************************************************)
(* Small tables for TLC.                                                   *)
(***************************************************************************)
EXTENDS StorageProperties

CONSTANTS p, q   \* processes

MCBytes == {"0", "1", "2", "3", "4", "5", "6", "7", "8", "9",
            "-", "+", " ", ",", "a", "b", CR, DQ}

\* A table (int, string): no line of it is blank.  One row has a field and a line
\* as long as may be; of the refused rows one has a field that is a byte too long,
\* one a line that is.
PairSchema == <<"int", "text">>
PairRows == {<<IntV(-12), TextV(<<>>)>>,
             <<IntV(-1), TextV(<<"a", "b", "a", "b">>)>>,
             <<IntV(3), TextV(<<"a", "b", "a", "b", "a">>)>>,   \* refused: a field
             <<IntV(-12), TextV(<<"a", "b", "a", "b">>)>>,      \* refused: a line
             <<IntV(3), TextV(<<"a", ",">>)>>,                  \* refused: a comma
             <<IntV(3), IntV(4)>>}                              \* refused: a type
PairLines == <<<<"7", ",", "a">>>>

\* A table (string): the empty string is a blank line.
WordSchema == <<"text">>
WordRows == {<<TextV(<<>>)>>, <<TextV(<<"a">>)>>}

\* A table (int).
NumberSchema == <<"int">>
NumberRows == {<<IntV(1)>>, <<IntV(-22)>>, <<IntV(333)>>}
OneNumber == <<<<"5">>>>
MinInt == -999
NoTail == <<>>
EndsInOne == <<"1">>
NoLines == <<>>
=============================================================================
