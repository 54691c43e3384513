----------------------------- MODULE TicketLock -----------------------------
(***************************************************************************)
(* locks-bench/ticket_lock.h. next_ticket and now_serving are unsigned     *)
(* shorts and wrap to 0 after MaxTicket.                                   *)
(*                                                                         *)
(* The fetch-and-add is one step. The increment of now_serving is not      *)
(* atomic: the holder loads it, and stores the sum in another step.        *)
(***************************************************************************)
EXTENDS Integers, FiniteSets, Sequences

CONSTANTS
    Thread,
    MaxTicket   \* USHRT_MAX

\* Were there more threads than tickets, two could wait with the same one.
ASSUME TicketAssumption ==
    /\ MaxTicket \in Nat
    /\ IsFiniteSet(Thread)
    /\ Cardinality(Thread) <= MaxTicket + 1

VARIABLES
    next_ticket,
    now_serving,
    my_ticket,   \* the local variable of ticket_acquire, of each thread
    loaded,      \* what ticket_release of each thread has read
    pc           \* "out", "spinning", "in", or "storing" in ticket_release

vars == <<next_ticket, now_serving, my_ticket, loaded, pc>>

Ticket == 0 .. MaxTicket

\* Mutant: the counters are wider than the tickets.
Incremented_NoWrap(x) == x + 1

\* x + 1 in an unsigned short.
Incremented(x) == IF x = MaxTicket THEN 0 ELSE x + 1

\* Mutant: the first ticket is not the first one to be served.
ticket_init_OffByOne ==
    /\ next_ticket = 0
    /\ now_serving = IF MaxTicket > 0 THEN 1 ELSE 0

ticket_init ==
    /\ next_ticket = 0
    /\ now_serving = 0

Init ==
    /\ ticket_init
    /\ my_ticket = [t \in Thread |-> 0]
    /\ loaded = [t \in Thread |-> 0]
    /\ pc = [t \in Thread |-> "out"]

\* Mutant: the counter is read and not advanced.
TakeTicket_NoAdd(t) ==
    /\ pc[t] = "out"
    /\ my_ticket' = [my_ticket EXCEPT ![t] = next_ticket]
    /\ pc' = [pc EXCEPT ![t] = "spinning"]
    /\ UNCHANGED <<next_ticket, now_serving, loaded>>

\* __sync_fetch_and_add
TakeTicket(t) ==
    /\ pc[t] = "out"
    /\ my_ticket' = [my_ticket EXCEPT ![t] = next_ticket]
    /\ next_ticket' = Incremented(next_ticket)
    /\ pc' = [pc EXCEPT ![t] = "spinning"]
    /\ UNCHANGED <<now_serving, loaded>>

\* Mutant: the comparison does not survive the wrap.
StopSpinning_Served(t) ==
    /\ pc[t] = "spinning"
    /\ now_serving >= my_ticket[t]
    /\ pc' = [pc EXCEPT ![t] = "in"]
    /\ UNCHANGED <<next_ticket, now_serving, my_ticket, loaded>>

\* The loop that ends; the one that yields instead changes nothing.
StopSpinning(t) ==
    /\ pc[t] = "spinning"
    /\ now_serving = my_ticket[t]
    /\ pc' = [pc EXCEPT ![t] = "in"]
    /\ UNCHANGED <<next_ticket, now_serving, my_ticket, loaded>>

LoadServing(t) ==
    /\ pc[t] = "in"
    /\ loaded' = [loaded EXCEPT ![t] = now_serving]
    /\ pc' = [pc EXCEPT ![t] = "storing"]
    /\ UNCHANGED <<next_ticket, now_serving, my_ticket>>

\* Mutant: the release does not serve the next ticket.
StoreServing_Same(t) ==
    /\ pc[t] = "storing"
    /\ now_serving' = loaded[t]
    /\ pc' = [pc EXCEPT ![t] = "out"]
    /\ UNCHANGED <<next_ticket, my_ticket, loaded>>

StoreServing(t) ==
    /\ pc[t] = "storing"
    /\ now_serving' = Incremented(loaded[t])
    /\ pc' = [pc EXCEPT ![t] = "out"]
    /\ UNCHANGED <<next_ticket, my_ticket, loaded>>

ticket_acquire(t) == TakeTicket(t) \/ StopSpinning(t)
ticket_release(t) == LoadServing(t) \/ StoreServing(t)

Next == \E t \in Thread : ticket_acquire(t) \/ ticket_release(t)

Spec == Init /\ [][Next]_vars

\* The scheduler lets every thread go on that can; a thread that has the lock
\* releases it. No thread has to ask for the lock.
Fairness ==
    \A t \in Thread : WF_vars(StopSpinning(t)) /\ WF_vars(ticket_release(t))

FairSpec == Spec /\ Fairness

------------------------------------------------------------------------------
TypeOK ==
    /\ next_ticket \in Ticket
    /\ now_serving \in Ticket
    /\ my_ticket \in [Thread -> Ticket]
    /\ loaded \in [Thread -> Ticket]
    /\ pc \in [Thread -> {"out", "spinning", "in", "storing"}]

Inside == {t \in Thread : pc[t] \in {"in", "storing"}}

\* At most one thread is between ticket_acquire and the end of ticket_release,
\* also after the counters have wrapped and with every ticket given out.
MutualExclusion == \A t, u \in Inside : t = u

\* The lock is a Mutex.
AsMutex ==
    INSTANCE Mutex WITH
        state <- [t \in Thread |->
                    CASE pc[t] = "out" -> "out"
                      [] pc[t] = "spinning" -> "waiting"
                      [] OTHER -> "in"]

ImplementsMutex == AsMutex!Spec

\* How many tickets are served before x, when s is being served.
Distance(x, s) == IF x >= s THEN x - s ELSE x - s + MaxTicket + 1

Holding == {t \in Thread : pc[t] # "out"}

\* The threads that are served before t.
Ahead(t) ==
    {u \in Holding : Distance(my_ticket[u], now_serving)
                       < Distance(my_ticket[t], now_serving)}

\* The threads with a ticket, in the order of the tickets.
Queue ==
    [n \in 1 .. Cardinality(Holding) |->
        CHOOSE t \in Holding : Cardinality(Ahead(t)) = n - 1]

AsFifoMutex == INSTANCE FifoMutex WITH queue <- Queue, inside <- Inside # {}

\* The threads are served in the order of their fetch-and-add.
ServesInOrder == AsFifoMutex!Spec

\* A thread that has drawn a ticket gets the lock: nobody can overtake it, so
\* each thread ahead of it needs only to go on.
NoStarvation == \A t \in Thread : pc[t] = "spinning" ~> pc[t] = "in"
=============================================================================
