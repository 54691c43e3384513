------------------------------- MODULE RowFarm -------------------------------
(***************************************************************************)
(* What the three programs of project1-part2 are to do, however their      *)
(* processes communicate: every row of the product is delivered, once and  *)
(* for good, and the result is used when all of them are there, but for    *)
(* those whose process was killed. When a process is killed in the middle  *)
(* of something the others will read, nothing is promised any more.        *)
(***************************************************************************)
CONSTANT Row

VARIABLES
    rows,   \* the rows of the result that are right
    lost,   \* the rows whose process was killed
    torn,   \* whether one was killed in the middle of a message
    used    \* whether the result has been handed to verify

vars == <<rows, lost, torn, used>>

Init == rows = {} /\ lost = {} /\ torn = FALSE /\ used = FALSE

Deliver(r) ==
    /\ r \notin rows /\ ~used
    /\ rows' = rows \cup {r}
    /\ UNCHANGED <<lost, torn, used>>

Lose(r) ==
    /\ r \notin lost
    /\ lost' = lost \cup {r}
    /\ torn' \in BOOLEAN
    /\ UNCHANGED <<rows, used>>

Use ==
    /\ rows \cup lost = Row /\ ~used
    /\ used' = TRUE
    /\ UNCHANGED <<rows, lost, torn>>

\* After a torn message.
Anything == torn /\ torn'

Next == Use \/ Anything \/ \E r \in Row : Deliver(r) \/ Lose(r)

Spec == Init /\ [][Next]_vars
=============================================================================
