-------------------------------- MODULE Table --------------------------------
(***************************************************************************)
(* What the storage layer promises to the processes that share a data      *)
(* directory: a table is a sequence of items that only grows; an INSERT    *)
(* adds its item at one instant between its call and its successful        *)
(* answer; a SELECT answers the whole table as it is at one instant.  An   *)
(* operation may fail.  A failed INSERT may have added its item, once.     *)
(***************************************************************************)
EXTENDS Naturals, Sequences

CONSTANTS
    Sessions,   \* the processes
    Items,      \* what an INSERT may add
    Initial     \* the table at the start

VARIABLES
    table,      \* the items, oldest first
    call,       \* call[s]: what s is doing: "none", "insert" or "select"
    item,       \* item[s]: the item of the INSERT s is doing
    added,      \* added[s]: has that item been added?
    answer      \* answer[s]: what the last operation of s returned

vars == <<table, call, item, added, answer>>

NoAnswer == [status |-> "none", items |-> <<>>]
Ok       == [status |-> "ok",   items |-> <<>>]
Error    == [status |-> "error", items |-> <<>>]
Found(items) == [status |-> "found", items |-> items]

Init ==
    /\ table = Initial
    /\ call = [s \in Sessions |-> "none"]
    /\ item \in [Sessions -> {<<>>}]
    /\ added = [s \in Sessions |-> FALSE]
    /\ answer = [s \in Sessions |-> NoAnswer]

Ends(s, result) ==
    /\ call' = [call EXCEPT ![s] = "none"]
    /\ item' = [item EXCEPT ![s] = <<>>]
    /\ added' = [added EXCEPT ![s] = FALSE]
    /\ answer' = [answer EXCEPT ![s] = result]

Begin(s, kind, x) ==
    /\ call[s] = "none"
    /\ call' = [call EXCEPT ![s] = kind]
    /\ item' = [item EXCEPT ![s] = x]
    /\ answer' = [answer EXCEPT ![s] = NoAnswer]
    /\ UNCHANGED <<table, added>>

Insert(s) == \E x \in Items : Begin(s, "insert", x)

Select(s) == Begin(s, "select", <<>>)

Add(s) ==
    /\ call[s] = "insert" /\ ~added[s]
    /\ table' = Append(table, item[s])
    /\ added' = [added EXCEPT ![s] = TRUE]
    /\ UNCHANGED <<call, item, answer>>

InsertOk(s) ==
    /\ call[s] = "insert" /\ added[s]
    /\ Ends(s, Ok)
    /\ UNCHANGED table

SelectOk(s) ==
    /\ call[s] = "select"
    /\ Ends(s, Found(table))
    /\ UNCHANGED table

\* Failure of an operation, before or after its effect, or of a refused one.
Fail(s) ==
    /\ Ends(s, Error)
    /\ UNCHANGED table

\* The process dies in the middle of an operation and is started again.
Die(s) ==
    /\ Ends(s, NoAnswer)
    /\ UNCHANGED table

Next ==
    \E s \in Sessions :
        Insert(s) \/ Select(s) \/ Add(s) \/ InsertOk(s) \/ SelectOk(s)
        \/ Fail(s) \/ Die(s)

Spec == Init /\ [][Next]_vars
=============================================================================
