-------------------------------- MODULE Mutex --------------------------------
(***************************************************************************)
(* What a user of locks.h relies on, whatever lock_type it chose: a thread *)
(* that asks for the lock gets it at a moment nobody else has it.          *)
(***************************************************************************)
CONSTANT Thread

VARIABLE state   \* where each thread is: "out", "waiting" or "in"

Init == state = [t \in Thread |-> "out"]

Request(t) ==
    /\ state[t] = "out"
    /\ state' = [state EXCEPT ![t] = "waiting"]

Enter(t) ==
    /\ state[t] = "waiting"
    /\ \A u \in Thread : state[u] # "in"
    /\ state' = [state EXCEPT ![t] = "in"]

Leave(t) ==
    /\ state[t] = "in"
    /\ state' = [state EXCEPT ![t] = "out"]

Next == \E t \in Thread : Request(t) \/ Enter(t) \/ Leave(t)

Spec == Init /\ [][Next]_state
=============================================================================
