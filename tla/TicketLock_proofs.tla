-------------------------- MODULE TicketLock_proofs --------------------------
(***************************************************************************)
(* Mutual exclusion of the ticket lock, for every set of threads that is   *)
(* not larger than the number of tickets, wrap-around included; and that   *)
(* it implements Mutex, and the first-come-first-served FifoMutex.           *)
(***************************************************************************)
EXTENDS TicketLock, FiniteSetTheorems, SequenceTheorems, TLAPS

\* The tickets given out are the Cardinality(Holding) ones from now_serving on,
\* one for each thread that holds one. A ticket is told from the others by its
\* distance, because there are not more threads than tickets.
Tickets ==
    /\ \/ Distance(next_ticket, now_serving) = Cardinality(Holding)
       \/ /\ next_ticket = now_serving
          /\ Cardinality(Holding) = MaxTicket + 1
    /\ \A t \in Holding :
          Distance(my_ticket[t], now_serving) < Cardinality(Holding)
    /\ \A t, u \in Holding : my_ticket[t] = my_ticket[u] => t = u

\* Who is inside holds the ticket that is served, and has read as much.
Served ==
    /\ \A t \in Inside : my_ticket[t] = now_serving
    /\ \A t \in Thread : pc[t] = "storing" => loaded[t] = now_serving

Inv == TypeOK /\ Tickets /\ Served

\* The number of tickets in use is a number, and there is one more for each
\* thread without a ticket.
LEMMA HoldingIsFinite ==
    /\ IsFiniteSet(Holding)
    /\ Cardinality(Holding) \in Nat
    /\ Cardinality(Holding) <= MaxTicket + 1
    /\ \A t \in Thread \ Holding : Cardinality(Holding) < MaxTicket + 1
<1>1. Holding \in SUBSET Thread
  BY DEF Holding
<1>2. /\ IsFiniteSet(Holding) /\ Cardinality(Holding) <= Cardinality(Thread)
      /\ Cardinality(Thread) = Cardinality(Holding) => Thread = Holding
  BY <1>1, TicketAssumption, FS_Subset
<1>3. Cardinality(Holding) \in Nat /\ Cardinality(Thread) \in Nat
  BY <1>2, TicketAssumption, FS_CardinalityType
<1>4. ASSUME NEW t \in Thread \ Holding
      PROVE  Cardinality(Holding) < MaxTicket + 1
  <2>1. Holding # Thread
    OBVIOUS
  <2> QED
    BY <1>2, <1>3, <2>1, TicketAssumption
<1> QED
  BY <1>2, <1>3, <1>4, TicketAssumption

LEMMA Initially == Init => Inv
<1> SUFFICES ASSUME Init PROVE Inv
  OBVIOUS
<1>1. Holding = {} /\ Inside = {}
  BY DEF Init, Holding, Inside
<1>2. Cardinality(Holding) = 0
  BY <1>1, FS_EmptySet
<1>3. TypeOK
  BY TicketAssumption DEF Init, ticket_init, TypeOK, Ticket
<1>4. Distance(next_ticket, now_serving) = 0
  BY DEF Init, ticket_init, Distance
<1> QED
  BY <1>1, <1>2, <1>3, <1>4 DEF Inv, Tickets, Served, Init

\* Drawing the next ticket.
LEMMA TakeKeepsInv ==
    ASSUME Inv, NEW t \in Thread, TakeTicket(t)
    PROVE  Inv'
<1> DEFINE n == Cardinality(Holding)
<1>1. /\ pc[t] = "out" /\ now_serving' = now_serving /\ loaded' = loaded
      /\ my_ticket' = [my_ticket EXCEPT ![t] = next_ticket]
      /\ next_ticket' = Incremented(next_ticket)
      /\ pc' = [pc EXCEPT ![t] = "spinning"]
  BY DEF TakeTicket
<1>2. /\ MaxTicket \in Nat
      /\ next_ticket \in Nat /\ next_ticket <= MaxTicket
      /\ now_serving \in Nat /\ now_serving <= MaxTicket
      /\ \A u \in Thread : my_ticket[u] \in Nat /\ my_ticket[u] <= MaxTicket
  BY TicketAssumption DEF Inv, TypeOK, Ticket
<1>3. t \notin Holding /\ n \in Nat /\ n < MaxTicket + 1
  BY <1>1, HoldingIsFinite DEF Holding
<1>4. Holding' = Holding \cup {t} /\ Inside' = Inside
  BY <1>1 DEF Holding, Inside, Inv, TypeOK
<1>5. Cardinality(Holding') = n + 1
  BY <1>3, <1>4, HoldingIsFinite, FS_AddElement
<1>6. TypeOK'
  BY <1>1, <1>2 DEF Inv, TypeOK, Ticket, Incremented
<1>7. Distance(next_ticket, now_serving) = n
  BY <1>3 DEF Inv, Tickets
<1>8. \A u \in Holding : my_ticket[u] # next_ticket /\ my_ticket'[u] = my_ticket[u]
  <2>1. \A u \in Holding : Distance(my_ticket[u], now_serving) < n
    BY DEF Inv, Tickets
  <2>2. \A u \in Holding : u # t /\ u \in Thread
    BY <1>3 DEF Holding
  <2> QED
    BY <1>1, <1>2, <1>3, <1>7, <2>1, <2>2 DEF Inv, TypeOK
<1>9. Tickets'
  <2>1. my_ticket'[t] = next_ticket
    BY <1>1 DEF Inv, TypeOK
  <2>2. Distance(my_ticket'[t], now_serving') = n
    BY <1>1, <1>7, <2>1
  <2>3. \A u \in Holding : Distance(my_ticket'[u], now_serving') < n
    BY <1>1, <1>8 DEF Inv, Tickets
  <2> HIDE DEF n
  <2>4. \A u \in Holding' : Distance(my_ticket'[u], now_serving') < n + 1
    <3>1. \A u \in Holding : Distance(my_ticket'[u], now_serving') \in Int
      <4>1. \A u \in Holding : u \in Thread /\ my_ticket'[u] \in Int
        BY <1>2, <1>8 DEF Holding
      <4> QED
        BY <1>1, <1>2, <4>1 DEF Distance
    <3> QED
      BY <1>3, <1>4, <2>2, <2>3, <3>1
  <2>5. \A u, v \in Holding' : my_ticket'[u] = my_ticket'[v] => u = v
    BY <1>4, <1>8, <2>1 DEF Inv, Tickets
  <2>6. \/ Distance(next_ticket', now_serving') = n + 1
        \/ next_ticket' = now_serving' /\ n + 1 = MaxTicket + 1
    BY <1>1, <1>2, <1>3, <1>7 DEF Distance, Incremented
  <2> QED
    BY <1>5, <2>4, <2>5, <2>6 DEF Tickets
<1>10. Served'
  BY <1>1, <1>4 DEF Served, Inv, Inside, TypeOK
<1> QED
  BY <1>6, <1>9, <1>10 DEF Inv

\* A step that moves a thread with a ticket on, and leaves the counters alone.
LEMMA WaitingKeepsTickets ==
    ASSUME Inv, NEW t \in Thread, StopSpinning(t) \/ LoadServing(t)
    PROVE  TypeOK' /\ Tickets'
<1>1. /\ next_ticket' = next_ticket /\ now_serving' = now_serving
      /\ my_ticket' = my_ticket
      /\ pc[t] # "out"
  BY DEF StopSpinning, LoadServing
<1>2. TypeOK'
  BY DEF Inv, TypeOK, StopSpinning, LoadServing
<1>3. Holding' = Holding
  BY DEF Holding, Inv, TypeOK, StopSpinning, LoadServing
<1> QED
  BY <1>1, <1>2, <1>3 DEF Inv, Tickets

LEMMA StopKeepsInv ==
    ASSUME Inv, NEW t \in Thread, StopSpinning(t)
    PROVE  Inv'
<1>1. TypeOK' /\ Tickets'
  BY WaitingKeepsTickets
<1>2. Served'
  BY DEF Inv, TypeOK, Served, Inside, StopSpinning
<1> QED
  BY <1>1, <1>2 DEF Inv

LEMMA LoadKeepsInv ==
    ASSUME Inv, NEW t \in Thread, LoadServing(t)
    PROVE  Inv'
<1>1. TypeOK' /\ Tickets'
  BY WaitingKeepsTickets
<1>2. Served'
  BY DEF Inv, TypeOK, Served, Inside, LoadServing
<1> QED
  BY <1>1, <1>2 DEF Inv

\* Two threads inside would hold the same ticket.
LEMMA InsideIsOne == Inv => MutualExclusion
BY DEF Inv, Tickets, Served, Inside, Holding, MutualExclusion

\* The next ticket is served: every other ticket is one closer.
LEMMA StoreKeepsInv ==
    ASSUME Inv, NEW t \in Thread, StoreServing(t)
    PROVE  Inv'
<1> DEFINE n == Cardinality(Holding)
<1>1. /\ pc[t] = "storing" /\ next_ticket' = next_ticket
      /\ my_ticket' = my_ticket /\ loaded' = loaded
      /\ now_serving' = Incremented(loaded[t])
      /\ pc' = [pc EXCEPT ![t] = "out"]
  BY DEF StoreServing
<1>2. /\ MaxTicket \in Nat
      /\ next_ticket \in Nat /\ next_ticket <= MaxTicket
      /\ now_serving \in Nat /\ now_serving <= MaxTicket
      /\ \A u \in Thread : my_ticket[u] \in Nat /\ my_ticket[u] <= MaxTicket
  BY TicketAssumption DEF Inv, TypeOK, Ticket
<1>3. t \in Holding /\ t \in Inside /\ n \in Nat /\ n <= MaxTicket + 1
  BY <1>1, HoldingIsFinite DEF Holding, Inside
<1>4. now_serving' = Incremented(now_serving) /\ my_ticket[t] = now_serving
  BY <1>1, <1>3 DEF Inv, Served
<1>5. Inside' = {}
  BY <1>1, <1>3, InsideIsOne DEF Inside, MutualExclusion, Inv, TypeOK
<1>6. Holding' = Holding \ {t}
  BY <1>1 DEF Holding, Inv, TypeOK
<1>7. Cardinality(Holding') = n - 1
  BY <1>3, <1>6, HoldingIsFinite, FS_RemoveElement
<1>8. TypeOK'
  BY <1>1, <1>2, <1>4 DEF Inv, TypeOK, Ticket, Incremented
<1>9. Tickets'
  <2>1. \A u \in Holding : Distance(my_ticket[u], now_serving) < n
    BY DEF Inv, Tickets
  <2>2. \/ Distance(next_ticket, now_serving) = n
        \/ next_ticket = now_serving /\ n = MaxTicket + 1
    BY DEF Inv, Tickets
  <2>3. \A u \in Holding' : my_ticket[u] # now_serving /\ u \in Thread
    BY <1>3, <1>4, <1>6 DEF Inv, Tickets, Holding
  <2>4. n > 0
    <3>1. Distance(my_ticket[t], now_serving) = 0
      BY <1>2, <1>4 DEF Distance
    <3> QED
      BY <1>3, <2>1, <3>1
  <2> HIDE DEF n
  <2>5. \A u \in Holding' : Distance(my_ticket[u], now_serving') < n - 1
    BY <1>2, <1>3, <1>4, <1>6, <2>1, <2>3 DEF Distance, Incremented
  <2>6. \/ Distance(next_ticket, now_serving') = n - 1
        \/ next_ticket = now_serving' /\ n - 1 = MaxTicket + 1
    BY <1>2, <1>3, <1>4, <2>2, <2>4 DEF Distance, Incremented
  <2>7. \A u, v \in Holding' : my_ticket[u] = my_ticket[v] => u = v
    BY <1>6 DEF Inv, Tickets
  <2> QED
    BY <1>1, <1>7, <2>5, <2>6, <2>7 DEF Tickets
<1>10. Served'
  BY <1>5 DEF Served, Inside
<1> QED
  BY <1>8, <1>9, <1>10 DEF Inv

LEMMA StepKeepsInv == Inv /\ [Next]_vars => Inv'
<1> SUFFICES ASSUME Inv, [Next]_vars PROVE Inv'
  OBVIOUS
<1>1. CASE UNCHANGED vars
  BY <1>1 DEF vars, Inv, TypeOK, Tickets, Served, Holding, Inside
<1>2. ASSUME NEW t \in Thread, TakeTicket(t)
      PROVE  Inv'
  BY <1>2, TakeKeepsInv
<1>3. ASSUME NEW t \in Thread, StopSpinning(t)
      PROVE  Inv'
  BY <1>3, StopKeepsInv
<1>4. ASSUME NEW t \in Thread, LoadServing(t)
      PROVE  Inv'
  BY <1>4, LoadKeepsInv
<1>5. ASSUME NEW t \in Thread, StoreServing(t)
      PROVE  Inv'
  BY <1>5, StoreKeepsInv
<1> QED
  BY <1>1, <1>2, <1>3, <1>4, <1>5 DEF Next, ticket_acquire, ticket_release

\* Inv holds in every state.
LEMMA Invariance == Spec => []Inv
<1> QED
  BY Initially, StepKeepsInv, PTL DEF Spec

\* Whatever the number of tickets, and with as many threads as there are
\* tickets, no two threads are between ticket_acquire and the end of
\* ticket_release.
THEOREM TicketMutualExclusion == Spec => [](TypeOK /\ MutualExclusion)
<1>1. Inv => TypeOK /\ MutualExclusion
  BY InsideIsOne DEF Inv
<1> QED
  BY <1>1, Invariance, PTL

\* The state of a Mutex that a state of the ticket lock stands for.
Abstracted ==
    [t \in Thread |->
        CASE pc[t] = "out" -> "out"
          [] pc[t] = "spinning" -> "waiting"
          [] OTHER -> "in"]

LEMMA StepIsMutexStep ==
    ASSUME Inv, Inv', [Next]_vars
    PROVE  [AsMutex!Next]_Abstracted
<1>1. CASE UNCHANGED vars
  BY <1>1 DEF vars, Abstracted
<1>2. ASSUME NEW t \in Thread, TakeTicket(t)
      PROVE  AsMutex!Request(t)
  BY <1>2 DEF TakeTicket, AsMutex!Request, Inv, TypeOK
<1>3. ASSUME NEW t \in Thread, StopSpinning(t)
      PROVE  AsMutex!Enter(t)
  <2>1. pc[t] = "spinning" /\ pc' = [pc EXCEPT ![t] = "in"]
    BY <1>3 DEF StopSpinning
  <2>2. t \in Inside' /\ MutualExclusion'
    BY <2>1, InsideIsOne DEF Inside, MutualExclusion, Inv, TypeOK, Tickets, Served, Holding
  <2>3. \A u \in Thread : pc[u] \in {"out", "spinning"}
    BY <2>1, <2>2 DEF Inside, MutualExclusion, Inv, TypeOK
  <2> QED
    BY <2>1, <2>3 DEF AsMutex!Enter, Inv, TypeOK
<1>4. ASSUME NEW t \in Thread, LoadServing(t)
      PROVE  Abstracted' = Abstracted
  BY <1>4 DEF LoadServing, Abstracted, Inv, TypeOK
<1>5. ASSUME NEW t \in Thread, StoreServing(t)
      PROVE  AsMutex!Leave(t)
  BY <1>5 DEF StoreServing, AsMutex!Leave, Inv, TypeOK
<1> QED
  BY <1>1, <1>2, <1>3, <1>4, <1>5
  DEF Next, ticket_acquire, ticket_release, AsMutex!Next

\* A user of the ticket lock may rely on Mutex and on nothing else.
THEOREM TicketImplementsMutex == Spec => ImplementsMutex
<1>1. Init => AsMutex!Init
  BY DEF Init, AsMutex!Init
<1>2. Inv /\ Inv' /\ [Next]_vars => [AsMutex!Next]_Abstracted
  BY StepIsMutexStep
<1> QED
  BY <1>1, <1>2, Invariance, PTL DEF Spec, ImplementsMutex, AsMutex!Spec, Abstracted

\* Whatever the width of the counters, neither leaves it: the wrap is part of
\* the increment, also of the increment that is a load and a store.
THEOREM TicketTypes == Spec => []TypeOK
BY TicketMutualExclusion, PTL
\* The tickets of the threads that hold one are the first ones from now_serving
\* on: a one-to-one map into as many distances is onto.
LEMMA EveryDistance ==
    ASSUME Inv
    PROVE  /\ \A t \in Holding :
                 /\ Distance(my_ticket[t], now_serving) \in Nat
                 /\ Distance(my_ticket[t], now_serving) < Cardinality(Holding)
           /\ \A t, u \in Holding :
                 Distance(my_ticket[t], now_serving)
                     = Distance(my_ticket[u], now_serving) => t = u
           /\ \A k \in 0 .. Cardinality(Holding) - 1 : \E t \in Holding :
                 Distance(my_ticket[t], now_serving) = k
<1> DEFINE n == Cardinality(Holding)
           D(t) == Distance(my_ticket[t], now_serving)
           f == [t \in Holding |-> D(t)]
<1>1. n \in Nat /\ IsFiniteSet(Holding)
  BY HoldingIsFinite
<1>2. /\ MaxTicket \in Nat
      /\ now_serving \in Nat /\ now_serving <= MaxTicket
      /\ \A u \in Holding : my_ticket[u] \in Nat /\ my_ticket[u] <= MaxTicket
  BY TicketAssumption DEF Inv, TypeOK, Ticket, Holding
<1>3. \A t \in Holding : D(t) \in Nat /\ D(t) < n
  <2>1. \A t \in Holding : D(t) \in Nat
    BY <1>2 DEF Distance
  <2> QED
    BY <2>1 DEF Inv, Tickets
<1>4. \A t, u \in Holding : D(t) = D(u) => t = u
  <2>1. \A t, u \in Holding : D(t) = D(u) => my_ticket[t] = my_ticket[u]
    BY <1>2 DEF Distance
  <2> QED
    BY <2>1 DEF Inv, Tickets
<1> HIDE DEF n, D
<1>5. IsFiniteSet(0 .. n - 1) /\ Cardinality(0 .. n - 1) = n
  <2>1. 0 \in Int /\ n - 1 \in Int
    BY <1>1
  <2>2. /\ IsFiniteSet(0 .. n - 1)
        /\ Cardinality(0 .. n - 1) = IF 0 > n - 1 THEN 0 ELSE n - 1 - 0 + 1
    BY <2>1, FS_Interval
  <2> QED
    BY <1>1, <2>2
<1>6. f \in Injection(Holding, 0 .. n - 1)
  <2>1. \A t \in Holding : D(t) \in 0 .. n - 1
    BY <1>1, <1>3
  <2> QED
    BY <1>4, <2>1 DEF Injection, IsInjective
<1>7. f \in Surjection(Holding, 0 .. n - 1)
  <2> HIDE DEF f
  <2>1. n = Cardinality(0 .. n - 1) <=> f \in Surjection(Holding, 0 .. n - 1)
    BY <1>5, <1>6, FS_Injection DEF n
  <2> QED
    BY <1>5, <2>1
<1>8. \A k \in 0 .. n - 1 : \E t \in Holding : D(t) = k
  BY <1>7 DEF Surjection
<1> QED
  BY <1>3, <1>4, <1>8 DEF n, D

\* How many threads are ahead of t is how far its ticket is from being served.
LEMMA AheadIsDistance ==
    ASSUME Inv, NEW t \in Holding
    PROVE  Cardinality(Ahead(t)) = Distance(my_ticket[t], now_serving)
<1> DEFINE D(u) == Distance(my_ticket[u], now_serving)
           d == D(t)
           f == [u \in Ahead(t) |-> D(u)]
<1>1. d \in Nat /\ d < Cardinality(Holding) /\ Cardinality(Holding) \in Nat
  BY EveryDistance, HoldingIsFinite
<1>2. IsFiniteSet(0 .. d - 1) /\ Cardinality(0 .. d - 1) = d
  <2> HIDE DEF d
  <2>1. 0 \in Int /\ d - 1 \in Int
    BY <1>1
  <2>2. /\ IsFiniteSet(0 .. d - 1)
        /\ Cardinality(0 .. d - 1) = IF 0 > d - 1 THEN 0 ELSE d - 1 - 0 + 1
    BY <2>1, FS_Interval
  <2> QED
    BY <1>1, <2>2
<1>3. Ahead(t) = {u \in Holding : D(u) < d}
  BY DEF Ahead
<1>4. /\ \A u \in Holding : D(u) \in Nat
      /\ \A u, v \in Holding : D(u) = D(v) => u = v
      /\ \A k \in 0 .. Cardinality(Holding) - 1 : \E u \in Holding : D(u) = k
  BY EveryDistance
<1> HIDE DEF D, d
<1>5. \A u \in Ahead(t) : D(u) \in 0 .. d - 1
  BY <1>1, <1>3, <1>4
<1>6. f \in Injection(Ahead(t), 0 .. d - 1)
  BY <1>3, <1>4, <1>5 DEF Injection, IsInjective
<1>7. f \in Surjection(Ahead(t), 0 .. d - 1)
  <2>1. ASSUME NEW k \in 0 .. d - 1
        PROVE  \E u \in Ahead(t) : f[u] = k
    <3>1. k \in 0 .. Cardinality(Holding) - 1 /\ k < d
      BY <1>1
    <3>2. PICK u \in Holding : D(u) = k
      BY <1>4, <3>1
    <3>3. u \in Ahead(t)
      BY <1>3, <3>1, <3>2
    <3> QED
      BY <3>2, <3>3
  <2>2. f \in [Ahead(t) -> 0 .. d - 1]
    BY <1>5
  <2> QED
    BY <2>1, <2>2 DEF Surjection
<1>8. Cardinality(Ahead(t)) = Cardinality(0 .. d - 1)
  <2> HIDE DEF f
  <2> QED
    BY <1>2, <1>6, <1>7, FS_Injection
<1> QED
  BY <1>2, <1>8 DEF d, D

\* The n-th of the queue is the thread whose ticket is n - 1 tickets away.
LEMMA QueueByDistance ==
    ASSUME Inv
    PROVE  /\ Queue \in Seq(Holding)
           /\ Len(Queue) = Cardinality(Holding)
           /\ \A n \in 1 .. Cardinality(Holding) :
                 /\ Queue[n] \in Holding
                 /\ Distance(my_ticket[Queue[n]], now_serving) = n - 1
           /\ \A n \in 1 .. Cardinality(Holding), t \in Holding :
                 Distance(my_ticket[t], now_serving) = n - 1 => Queue[n] = t
<1> DEFINE c == Cardinality(Holding)
           D(t) == Distance(my_ticket[t], now_serving)
<1>1. c \in Nat
  BY HoldingIsFinite
<1>2. ASSUME NEW n \in 1 .. c
      PROVE  Queue[n] \in Holding /\ D(Queue[n]) = n - 1
  <2>1. Queue[n] = CHOOSE t \in Holding : Cardinality(Ahead(t)) = n - 1
    BY DEF Queue
  <2>2. n - 1 \in 0 .. c - 1
    BY <1>1
  <2>3. \E t \in Holding : Cardinality(Ahead(t)) = n - 1
    BY <2>2, EveryDistance, AheadIsDistance
  <2>4. Queue[n] \in Holding /\ Cardinality(Ahead(Queue[n])) = n - 1
    BY <2>1, <2>3
  <2> QED
    BY <2>4, AheadIsDistance
<1>3. \A n \in 1 .. c, t \in Holding : D(t) = n - 1 => Queue[n] = t
  BY <1>2, EveryDistance
<1>4. Queue \in Seq(Holding) /\ Len(Queue) = c
  <2>1. Queue \in [1 .. c -> Holding]
    BY <1>2 DEF Queue
  <2> QED
    BY <1>1, <2>1
<1> QED
  BY <1>2, <1>3, <1>4

\* There is one sequence of the threads with a ticket that is in the order of
\* the tickets.
OneOrder ==
    \A q \in Seq(Holding) :
        /\ Len(q) = Cardinality(Holding)
        /\ \A n \in 1 .. Len(q) : Distance(my_ticket[q[n]], now_serving) = n - 1
        => q = Queue

LEMMA QueueIsOrder == Inv => OneOrder
<1> SUFFICES ASSUME Inv, NEW q \in Seq(Holding), Len(q) = Cardinality(Holding),
                    \A n \in 1 .. Len(q) :
                        Distance(my_ticket[q[n]], now_serving) = n - 1
             PROVE  q = Queue
  BY DEF OneOrder
<1>1. \A n \in 1 .. Len(q) : Queue[n] = q[n]
  BY QueueByDistance
<1>2. Queue \in Seq(Holding) /\ Len(Queue) = Len(q)
  BY QueueByDistance
<1> HIDE DEF Queue
<1> QED
  BY <1>1, <1>2

\* So the queue of the next state is known from its tickets.
LEMMA NextQueueIsOrder == Inv' => OneOrder'
BY QueueIsOrder, PTL

\* Drawing a ticket is joining at the end.
LEMMA TakeRequests ==
    ASSUME Inv, Inv', NEW t \in Thread, TakeTicket(t)
    PROVE  AsFifoMutex!Request(t)
<1> DEFINE c == Cardinality(Holding)
           q == Append(Queue, t)
<1>1. /\ pc[t] = "out" /\ now_serving' = now_serving
      /\ my_ticket' = [my_ticket EXCEPT ![t] = next_ticket]
      /\ pc' = [pc EXCEPT ![t] = "spinning"]
  BY DEF TakeTicket
<1>2. t \notin Holding /\ c \in Nat /\ IsFiniteSet(Holding) /\ c < MaxTicket + 1
  BY <1>1, HoldingIsFinite DEF Holding
<1>3. Holding' = Holding \cup {t} /\ Inside' = Inside
  BY <1>1 DEF Holding, Inside, Inv, TypeOK
<1>4. Cardinality(Holding') = c + 1
  BY <1>2, <1>3, FS_AddElement
<1>5. Queue \in Seq(Holding) /\ Len(Queue) = c
  BY QueueByDistance
<1>6. \A n \in 1 .. c : Queue[n] \in Holding
                        /\ Distance(my_ticket[Queue[n]], now_serving) = n - 1
  BY QueueByDistance
<1>7. Distance(next_ticket, now_serving) = c
  BY <1>2 DEF Inv, Tickets
<1>8. my_ticket'[t] = next_ticket /\ \A u \in Holding : my_ticket'[u] = my_ticket[u]
  BY <1>1, <1>2 DEF Inv, TypeOK, Holding
<1> HIDE DEF c
<1>9. q \in Seq(Holding') /\ Len(q) = c + 1
  <2>1. Queue \in Seq(Holding') /\ t \in Holding'
    BY <1>3, <1>5
  <2> QED
    BY <1>2, <1>5, <2>1
<1>10. ASSUME NEW n \in 1 .. Len(q)
       PROVE  Distance(my_ticket'[q[n]], now_serving') = n - 1
  <2>1. CASE n = c + 1
    <3>1. q[n] = t
      BY <1>5, <2>1
    <3> QED
      BY <1>1, <1>2, <1>7, <1>8, <2>1, <3>1
  <2>2. CASE n \in 1 .. c
    <3>1. q[n] = Queue[n]
      BY <1>5, <2>2
    <3> QED
      BY <1>1, <1>6, <1>8, <2>2, <3>1
  <2> QED
    BY <1>2, <1>9, <2>1, <2>2
<1>11. Queue' = q
  <2>1. PICK r : r = q
    OBVIOUS
  <2>2. r \in Seq(Holding') /\ Len(r) = Cardinality(Holding')
    BY <1>4, <1>9, <2>1
  <2>3. \A n \in 1 .. Len(r) : Distance(my_ticket'[r[n]], now_serving') = n - 1
    BY <1>10, <2>1
  <2>4. r = Queue'
    BY <2>2, <2>3, NextQueueIsOrder DEF OneOrder
  <2> QED
    BY <2>1, <2>4
<1>12. \A i \in DOMAIN Queue : Queue[i] # t
  BY <1>2, <1>5, <1>6
<1> QED
  BY <1>3, <1>11, <1>12 DEF AsFifoMutex!Request
\* What the queue depends on.
LEMMA SameQueue ==
    ASSUME Holding' = Holding, now_serving' = now_serving, my_ticket' = my_ticket
    PROVE  Queue' = Queue
<1>1. \A t \in Holding : Ahead(t)' = Ahead(t)
  BY DEF Ahead
<1> QED
  BY <1>1 DEF Queue, Ahead

\* Releasing is leaving from the front: every other ticket is one closer.
LEMMA StoreLeaves ==
    ASSUME Inv, Inv', NEW t \in Thread, StoreServing(t)
    PROVE  AsFifoMutex!Leave
<1> DEFINE c == Cardinality(Holding)
           q == Tail(Queue)
<1>1. /\ pc[t] = "storing" /\ my_ticket' = my_ticket
      /\ now_serving' = Incremented(loaded[t])
      /\ pc' = [pc EXCEPT ![t] = "out"]
  BY DEF StoreServing
<1>2. t \in Holding /\ t \in Inside /\ c \in Nat /\ IsFiniteSet(Holding)
  BY <1>1, HoldingIsFinite DEF Holding, Inside
<1>3. now_serving' = Incremented(now_serving) /\ my_ticket[t] = now_serving
  BY <1>1, <1>2 DEF Inv, Served
<1>4. Inside' = {}
  BY <1>1, <1>2, InsideIsOne DEF Inside, MutualExclusion, Inv, TypeOK
<1>5. Holding' = Holding \ {t}
  BY <1>1 DEF Holding, Inv, TypeOK
<1>6. Cardinality(Holding') = c - 1
  BY <1>2, <1>5, FS_RemoveElement
<1>7. /\ MaxTicket \in Nat
      /\ now_serving \in Nat /\ now_serving <= MaxTicket
      /\ \A u \in Holding : my_ticket[u] \in Nat /\ my_ticket[u] <= MaxTicket
  BY TicketAssumption DEF Inv, TypeOK, Ticket, Holding
<1>8. Distance(my_ticket[t], now_serving) = 0
  BY <1>3, <1>7 DEF Distance
<1>9. c > 0
  BY <1>2, <1>8, EveryDistance
<1>10. /\ Queue \in Seq(Holding) /\ Len(Queue) = c
       /\ \A n \in 1 .. c :
             /\ Queue[n] \in Holding
             /\ Distance(my_ticket[Queue[n]], now_serving) = n - 1
  BY QueueByDistance
<1>11. \A u \in Holding :
          u # t => Distance(my_ticket[u], now_serving')
                     = Distance(my_ticket[u], now_serving) - 1
  <2>1. \A u \in Holding : u # t => my_ticket[u] # now_serving
    BY <1>2, <1>3 DEF Inv, Tickets
  <2> QED
    BY <1>3, <1>7, <2>1 DEF Distance, Incremented
<1> HIDE DEF c
<1>12. Len(q) = c - 1 /\ \A n \in 1 .. c - 1 : q[n] = Queue[n + 1]
  <2> HIDE DEF Queue
  <2> QED
    BY <1>2, <1>9, <1>10
<1> HIDE DEF q, Queue
<1>13. ASSUME NEW n \in 1 .. c - 1
       PROVE  /\ q[n] \in Holding'
              /\ Distance(my_ticket'[q[n]], now_serving') = n - 1
  <2>1. n + 1 \in 1 .. c /\ n \in Int /\ n # 0 /\ n + 1 - 1 = n
    BY <1>2
  <2>2. /\ q[n] \in Holding
        /\ Distance(my_ticket[q[n]], now_serving) = n
    BY <1>10, <1>12, <2>1
  <2>3. q[n] # t
    BY <1>8, <2>1, <2>2
  <2>4. Distance(my_ticket[q[n]], now_serving') = n - 1
    BY <1>11, <2>2, <2>3
  <2> QED
    BY <1>1, <1>5, <2>2, <2>3, <2>4
<1>14. q \in Seq(Holding')
  <2>1. q \in Seq(Holding)
    BY <1>2, <1>9, <1>10 DEF q
  <2>2. q = [n \in 1 .. c - 1 |-> q[n]]
    BY <1>12, <2>1
  <2>3. q \in [1 .. c - 1 -> Holding']
    BY <1>13, <2>2
  <2>4. c - 1 \in Nat
    BY <1>2, <1>9
  <2> QED
    BY <2>3, <2>4
<1>15. Queue' = q
  <2>1. PICK r : r = q
    OBVIOUS
  <2>2. r \in Seq(Holding') /\ Len(r) = Cardinality(Holding')
    BY <1>6, <1>12, <1>14, <2>1
  <2>3. \A n \in 1 .. Len(r) : Distance(my_ticket'[r[n]], now_serving') = n - 1
    BY <1>12, <1>13, <2>1
  <2>4. r = Queue'
    BY <2>2, <2>3, NextQueueIsOrder DEF OneOrder
  <2> QED
    BY <2>1, <2>4
<1> QED
  BY <1>2, <1>4, <1>15 DEF AsFifoMutex!Leave, q

\* Only the first of the queue stops spinning, when nobody is inside.
LEMMA StopEnters ==
    ASSUME Inv, Inv', NEW t \in Thread, StopSpinning(t)
    PROVE  AsFifoMutex!Enter
<1>1. /\ pc[t] = "spinning" /\ pc' = [pc EXCEPT ![t] = "in"]
      /\ my_ticket' = my_ticket /\ now_serving' = now_serving
      /\ my_ticket[t] = now_serving
  BY DEF StopSpinning
<1>2. t \in Holding /\ t \in Inside' /\ Holding' = Holding
  BY <1>1 DEF Holding, Inside, Inv, TypeOK
<1>3. Inside = {}
  <2>1. \A u \in Inside : u \in Holding /\ my_ticket[u] = my_ticket[t]
    BY <1>1 DEF Inv, Served, Inside, Holding
  <2>2. \A u \in Inside : u = t
    BY <1>2, <2>1 DEF Inv, Tickets
  <2> QED
    BY <1>1, <2>2 DEF Inside
<1>4. Queue # <<>>
  <2>1. Len(Queue) = Cardinality(Holding) /\ Cardinality(Holding) # 0
    BY <1>2, QueueByDistance, HoldingIsFinite, FS_EmptySet
  <2> QED
    BY <2>1, EmptySeq
<1>5. Queue' = Queue
  BY <1>1, <1>2, SameQueue
<1> QED
  BY <1>2, <1>3, <1>4, <1>5 DEF AsFifoMutex!Enter

LEMMA StepIsFifoStep ==
    ASSUME Inv, Inv', [Next]_vars
    PROVE  [AsFifoMutex!Next]_<<Queue, Inside # {}>>
<1>1. CASE UNCHANGED vars
  <2>1. Holding' = Holding /\ Inside' = Inside
    BY <1>1 DEF vars, Holding, Inside
  <2> QED
    BY <1>1, <2>1, SameQueue DEF vars
<1>2. ASSUME NEW t \in Thread, TakeTicket(t)
      PROVE  AsFifoMutex!Request(t)
  BY <1>2, TakeRequests
<1>3. ASSUME NEW t \in Thread, StopSpinning(t)
      PROVE  AsFifoMutex!Enter
  BY <1>3, StopEnters
<1>4. ASSUME NEW t \in Thread, LoadServing(t)
      PROVE  Queue' = Queue /\ Inside' = Inside
  <2>1. Holding' = Holding /\ Inside' = Inside
    BY <1>4 DEF LoadServing, Holding, Inside, Inv, TypeOK
  <2> QED
    BY <1>4, <2>1, SameQueue DEF LoadServing
<1>5. ASSUME NEW t \in Thread, StoreServing(t)
      PROVE  AsFifoMutex!Leave
  BY <1>5, StoreLeaves
<1> QED
  BY <1>1, <1>2, <1>3, <1>4, <1>5
  DEF Next, ticket_acquire, ticket_release, AsFifoMutex!Next

\* The threads get the lock in the order of their fetch-and-adds, whatever the
\* number of tickets and through every wrap of the counters: the ticket lock
\* implements a mutex with a first-come-first-served queue.
THEOREM TicketServesInOrder == Spec => ServesInOrder
<1>1. Init => AsFifoMutex!Init
  <2> SUFFICES ASSUME Init PROVE AsFifoMutex!Init
    OBVIOUS
  <2>1. Holding = {} /\ Inside = {}
    BY DEF Init, Holding, Inside
  <2>2. Cardinality(Holding) = 0
    BY <2>1, FS_EmptySet
  <2>3. Queue \in Seq(Holding) /\ Len(Queue) = 0
    BY <2>2, Initially, QueueByDistance
  <2>4. Queue = <<>>
    BY <2>3, EmptySeq
  <2> QED
    BY <2>1, <2>4 DEF AsFifoMutex!Init
<1>2. Inv /\ Inv' /\ [Next]_vars => [AsFifoMutex!Next]_<<Queue, Inside # {}>>
  BY StepIsFifoStep
<1> QED
  BY <1>1, <1>2, Invariance, PTL
  DEF Spec, ServesInOrder, AsFifoMutex!Spec, AsFifoMutex!vars
=============================================================================
