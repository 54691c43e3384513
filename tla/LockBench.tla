------------------------------ MODULE LockBench ------------------------------
(***************************************************************************)
(* locks-bench/main.c, and main-orig.c, its first version: threads that    *)
(* increment shared counters, each thread one of them, under one lock of   *)
(* any type of locks.h. The versions differ in how many threads there are. *)
(*                                                                         *)
(* counters[c]++ is a load and a store. The counters are never initialized *)
(* by the program: they start with what malloc left there.                 *)
(***************************************************************************)
EXTENDS Integers, FiniteSets

CONSTANTS
    num_counters, iterations, work_length,
    MaxThreads,            \* bounds the argument of main.c
    THREADS_PER_COUNTER,   \* of main-orig.c
    Garbage                \* what a malloc'ed counter may hold

ASSUME BenchAssumption ==
    /\ num_counters \in Nat \ {0}
    /\ iterations \in Nat \ {0} /\ work_length \in Nat \ {0}
    /\ MaxThreads \in Nat \ {0} /\ THREADS_PER_COUNTER \in Nat \ {0}
    /\ Garbage \subseteq Nat

VARIABLES
    program,           \* "main" or "main-orig"
    num_threads,
    lock_type, lock,   \* the lock_t
    counters,
    garbage,           \* what the counters held at first
    created, joined,   \* how many threads main has started, and waited for
    freed,             \* whether main has freed the counters and the lock
    pc,                \* "loop", "acquire", "work", "store" or "done"
    i, j,              \* the loop variables of inc_thread and do_work
    loaded             \* the counter a thread has read and not written

lockVars == <<lock_type, lock>>
args == <<program, num_threads, garbage>>
mainVars == <<args, created, joined, freed>>
threadVars == <<pc, i, j, loaded>>
vars == <<lockVars, counters, mainVars, threadVars>>

Locks == INSTANCE Locks

NUM_THREADS == num_counters * THREADS_PER_COUNTER

\* The threads there can be; main starts the first num_threads of them.
Thread == 0 .. (IF MaxThreads > NUM_THREADS THEN MaxThreads ELSE NUM_THREADS) - 1
Counter == 0 .. num_counters - 1

counter_id(t) == t % num_counters

\* Mutant: the division is rounded up.
expected_value_RoundedUp ==
    ((num_threads + num_counters - 1) \div num_counters) * iterations * work_length

\* What a counter should be at the end, in the output of the program.
expected_value ==
    IF program = "main"
    THEN (num_threads \div num_counters) * iterations * work_length
    ELSE THREADS_PER_COUNTER * iterations * work_length

Init ==
    /\ program \in {"main", "main-orig"}
    /\ num_threads \in IF program = "main" THEN 1 .. MaxThreads ELSE {NUM_THREADS}
    /\ lock_type \in Locks!LockTypes
    /\ Locks!init_lock
    /\ garbage \in [Counter -> Garbage]
    /\ counters = garbage
    /\ created = 0 /\ joined = 0
    /\ freed = FALSE
    /\ pc = [t \in Thread |-> "loop"]
    /\ i = [t \in Thread |-> 0]
    /\ j = [t \in Thread |-> 0]
    /\ loaded = [t \in Thread |-> 0]

------------------------------------------------------------------------------
(* inc_thread and do_work *)

Iterate(t) ==
    /\ t < created
    /\ pc[t] = "loop"
    /\ pc' = [pc EXCEPT ![t] = IF i[t] < iterations THEN "acquire" ELSE "done"]
    /\ UNCHANGED <<lockVars, counters, mainVars, i, j, loaded>>

Acquire(t) ==
    /\ pc[t] = "acquire"
    /\ Locks!acquire_lock
    /\ pc' = [pc EXCEPT ![t] = "work"]
    /\ j' = [j EXCEPT ![t] = 0]
    /\ UNCHANGED <<lock_type, counters, mainVars, i, loaded>>

\* counters[c]++ of do_work, in two steps.
LoadCounter(t) ==
    /\ pc[t] = "work"
    /\ j[t] < work_length
    /\ loaded' = [loaded EXCEPT ![t] = counters[counter_id(t)]]
    /\ pc' = [pc EXCEPT ![t] = "store"]
    /\ UNCHANGED <<lockVars, counters, mainVars, i, j>>

\* Mutant: the store goes to the counter of another thread.
StoreCounter_Elsewhere(t) ==
    /\ pc[t] = "store"
    /\ counters' = [counters EXCEPT ![(t + 1) % num_counters] = loaded[t] + 1]
    /\ j' = [j EXCEPT ![t] = @ + 1]
    /\ pc' = [pc EXCEPT ![t] = "work"]
    /\ UNCHANGED <<lockVars, mainVars, i, loaded>>

StoreCounter(t) ==
    /\ pc[t] = "store"
    /\ counters' = [counters EXCEPT ![counter_id(t)] = loaded[t] + 1]
    /\ j' = [j EXCEPT ![t] = @ + 1]
    /\ pc' = [pc EXCEPT ![t] = "work"]
    /\ UNCHANGED <<lockVars, mainVars, i, loaded>>

\* The end of do_work, and the unlock.
Release(t) ==
    /\ pc[t] = "work"
    /\ j[t] = work_length
    /\ Locks!release_lock
    /\ i' = [i EXCEPT ![t] = @ + 1]
    /\ j' = [j EXCEPT ![t] = 0]
    /\ loaded' = [loaded EXCEPT ![t] = 0]
    /\ pc' = [pc EXCEPT ![t] = "loop"]
    /\ UNCHANGED <<lock_type, counters, mainVars>>

------------------------------------------------------------------------------
(* main *)

Create ==
    /\ created < num_threads
    /\ created' = created + 1
    /\ UNCHANGED <<lockVars, counters, args, joined, freed, threadVars>>

\* Mutant: the last thread is not waited for.
Join_Early ==
    /\ created = num_threads
    /\ joined < num_threads
    /\ joined < num_threads - 1 => pc[joined] = "done"
    /\ joined' = joined + 1
    /\ UNCHANGED <<lockVars, counters, args, created, freed, threadVars>>

Join ==
    /\ created = num_threads
    /\ joined < num_threads
    /\ pc[joined] = "done"
    /\ joined' = joined + 1
    /\ UNCHANGED <<lockVars, counters, args, created, freed, threadVars>>

\* The counters are printed, and freed with the lock.
Finish ==
    /\ joined = num_threads
    /\ ~freed
    /\ freed' = TRUE
    /\ UNCHANGED <<lockVars, counters, args, created, joined, threadVars>>

do_work(t) == LoadCounter(t) \/ StoreCounter(t)

inc_thread(t) == Iterate(t) \/ Acquire(t) \/ do_work(t) \/ Release(t)

main == Create \/ Join \/ Finish

Next == main \/ \E t \in Thread : inc_thread(t)

Spec == Init /\ [][Next]_vars

\* The scheduler runs main and every thread. It owes no thread the lock.
FairSpec ==
    /\ Spec
    /\ WF_vars(main)
    /\ \A t \in Thread : WF_vars(inc_thread(t))

------------------------------------------------------------------------------
TypeOK ==
    /\ program \in {"main", "main-orig"} /\ num_threads - 1 \in Thread
    /\ lock_type \in Locks!LockTypes /\ lock \in {0, 1}
    /\ counters \in [Counter -> Nat] /\ garbage \in [Counter -> Garbage]
    /\ created \in 0 .. num_threads /\ joined \in 0 .. created
    /\ freed \in BOOLEAN
    /\ pc \in [Thread -> {"loop", "acquire", "work", "store", "done"}]
    /\ i \in [Thread -> 0 .. iterations] /\ j \in [Thread -> 0 .. work_length]
    /\ loaded \in [Thread -> Nat]

\* How often thread t has incremented its counter.
Increments(t) == i[t] * work_length + j[t]

\* The increments counter c was given, each told by its thread and number.
Additions(c) ==
    UNION {{t} \X (1 .. Increments(t)) : t \in {u \in Thread : counter_id(u) = c}}

\* With any of the locks no increment is lost, although it is a load and a
\* store: at every moment a counter has what its threads added to it.
NothingLost ==
    \A c \in Counter : counters[c] = garbage[c] + Cardinality(Additions(c))

\* What the program prints as expected is what the counters have gained, if the
\* counters divide the threads, and no more than what they have gained if not:
\* then some counters have an extra thread, and exceed it by what one adds.
ExpectedIsGained ==
    joined = num_threads =>
        \A c \in Counter :
            counters[c] - garbage[c] =
                expected_value + IF c < num_threads % num_counters
                                 THEN iterations * work_length ELSE 0

\* Nobody uses the counters or the lock once main has freed them.
UsedBeforeFreed == freed => \A t \in Thread : t < created => pc[t] = "done"

\* Every type of locks.h is a Mutex for the threads that use it.
AsMutex ==
    INSTANCE Mutex WITH
        state <- [t \in Thread |->
                    CASE pc[t] \in {"work", "store"} -> "in"
                      [] pc[t] = "acquire" -> "waiting"
                      [] OTHER -> "out"]

ImplementsMutex == AsMutex!Spec

\* The program ends, whatever the lock: a thread that is overtaken again and
\* again has its turn at last, because the others finish their iterations.
Terminates == <>freed
=============================================================================
