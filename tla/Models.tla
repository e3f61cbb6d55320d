-------------------------------- MODULE Models --------------------------------
(***************************************************************************)
(* The command structures of models.h.  Names and raw literals are texts;  *)
(* where is <<>> or <<name, literal>>.                                     *)
(***************************************************************************)
EXTENDS Naturals

CONSTANT MAX_NAME_LENGTH    \* size of a name's buffer, NUL included

\* "*" is stored as a name.
ASSUME ModelsConstants == MAX_NAME_LENGTH \in Nat /\ MAX_NAME_LENGTH > 1

NoCommand == [kind |-> "none", table |-> <<>>, columns |-> <<>>, where |-> <<>>, values |-> <<>>]
InsertCommand(t, values) ==
    [kind |-> "insert", table |-> t, columns |-> <<>>, where |-> <<>>, values |-> values]
SelectCommand(t, columns, where) ==
    [kind |-> "select", table |-> t, columns |-> columns, where |-> where, values |-> <<>>]

\* select_all: the column list is the text "*", which no identifier is.
Star == <<<<"*">>>>
=============================================================================
