------------------------------ MODULE FifoMutex ------------------------------
(***************************************************************************)
(* What a ticket lock promises beyond Mutex: the threads get the lock in   *)
(* the order in which they asked for it.                                   *)
(***************************************************************************)
EXTENDS Sequences

CONSTANT Thread

VARIABLES
    queue,   \* the threads that asked and have not left, in order
    inside   \* whether the first of them has the lock

vars == <<queue, inside>>

Init == queue = <<>> /\ inside = FALSE

Request(t) ==
    /\ \A i \in DOMAIN queue : queue[i] # t
    /\ queue' = Append(queue, t)
    /\ UNCHANGED inside

Enter ==
    /\ queue # <<>> /\ ~inside
    /\ inside' = TRUE
    /\ UNCHANGED queue

Leave ==
    /\ inside
    /\ queue' = Tail(queue)
    /\ inside' = FALSE

Next == Enter \/ Leave \/ \E t \in Thread : Request(t)

Spec == Init /\ [][Next]_vars
=============================================================================
