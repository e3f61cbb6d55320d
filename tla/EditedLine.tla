----------------------------- MODULE EditedLine -----------------------------
(***************************************************************************)
(* A line being edited, as its user thinks of it: the text left of the     *)
(* cursor and the text right of it, and a limit on the two together.       *)
(***************************************************************************)
EXTENDS Integers, SequencesExt

CONSTANTS
    Letters,    \* what can be inserted
    Limit       \* longest line

VARIABLES
    left,       \* the text before the cursor
    right       \* the text after it

vars == <<left, right>>

\* What one key does to the two texts.
Inserted(l, r, c) == IF Len(l) + Len(r) < Limit THEN <<Append(l, c), r>> ELSE <<l, r>>
Deleted(l, r)     == IF l = <<>> THEN <<l, r>> ELSE <<Front(l), r>>
MovedLeft(l, r)   == IF l = <<>> THEN <<l, r>> ELSE <<Front(l), <<Last(l)>> \o r>>
MovedRight(l, r)  == IF r = <<>> THEN <<l, r>> ELSE <<Append(l, Head(r)), Tail(r)>>

Init == left = <<>> /\ right = <<>>

Insert == \E c \in Letters : <<left', right'>> = Inserted(left, right, c)
Delete == <<left', right'>> = Deleted(left, right)
MoveLeft == <<left', right'>> = MovedLeft(left, right)
MoveRight == <<left', right'>> = MovedRight(left, right)
Restart == left' = <<>> /\ right' = <<>>

Next == Insert \/ Delete \/ MoveLeft \/ MoveRight \/ Restart

Spec == Init /\ [][Next]_vars
=============================================================================
