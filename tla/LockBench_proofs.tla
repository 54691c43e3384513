-------------------------- MODULE LockBench_proofs --------------------------
(***************************************************************************)
(* For any number of threads, counters, iterations and any lock of         *)
(* locks.h: the lock is a Mutex, no increment of a counter is lost, the    *)
(* printed expectation is what was gained, and main frees nothing that is  *)
(* in use.                                                                 *)
(***************************************************************************)
EXTENDS LockBench, FiniteSetTheorems, TLAPS

\* The word of a lock that nobody holds.
FreeWord == IF lock_type = "SEMAPHORE" THEN 1 ELSE 0

Inside == {t \in Thread : pc[t] \in {"work", "store"}}

\* The word says whether somebody is inside, and nobody is with another.
Exclusive ==
    /\ lock = FreeWord <=> Inside = {}
    /\ \A t, u \in Inside : t = u

\* The loops are within their bounds.
Loops ==
    \A t \in Thread :
        /\ pc[t] \in {"acquire", "work", "store"} => i[t] < iterations
        /\ pc[t] = "store" => j[t] < work_length

\* What main has waited for has ended.
Waited ==
    /\ \A t \in Thread : t < joined => pc[t] = "done"
    /\ freed => joined = num_threads

Inv ==
    /\ TypeOK /\ num_threads \in Nat \ {0}
    /\ Exclusive /\ Loops /\ Waited

LEMMA Threads ==
    /\ NUM_THREADS \in Nat \ {0}
    /\ Thread \subseteq Nat
    /\ \A n \in Nat \ {0} : n <= MaxThreads \/ n = NUM_THREADS => n - 1 \in Thread
<1>1. \A a, b \in Nat \ {0} : a * b \in Nat \ {0}
  OBVIOUS
<1>2. NUM_THREADS \in Nat \ {0}
  BY <1>1, BenchAssumption DEF NUM_THREADS
<1> QED
  BY <1>2, BenchAssumption DEF Thread

LEMMA CounterOfThread == \A t \in Thread : counter_id(t) \in Counter
<1>1. \A n \in Nat, d \in Nat \ {0} : n % d \in 0 .. d - 1
  OBVIOUS
<1> QED
  BY <1>1, Threads, BenchAssumption DEF counter_id, Counter

------------------------------------------------------------------------------
(* The initial states, and one lemma for each action *)

LEMMA InitInv == Init => Inv
<1> SUFFICES ASSUME Init PROVE Inv
  OBVIOUS
<1> USE BenchAssumption
<1>1. num_threads \in Nat \ {0} /\ num_threads - 1 \in Thread
  BY Threads DEF Init
<1>2. lock = FreeWord /\ lock \in {0, 1} /\ lock_type \in Locks!LockTypes
  BY DEF Init, FreeWord, Locks!LockTypes, Locks!init_lock, Locks!caslock_init,
         Locks!taslock_init, Locks!ticket_init, Locks!mutex_init,
         Locks!semaphore_init
<1>3. counters \in [Counter -> Nat] /\ garbage \in [Counter -> Garbage]
  BY DEF Init
<1>4. /\ pc = [t \in Thread |-> "loop"]
      /\ i \in [Thread -> 0 .. iterations] /\ j \in [Thread -> 0 .. work_length]
      /\ loaded \in [Thread -> Nat]
  BY DEF Init
<1>5. program \in {"main", "main-orig"} /\ created = 0 /\ joined = 0 /\ freed = FALSE
  BY DEF Init
<1>6. TypeOK
  <2>1. created \in 0 .. num_threads /\ joined \in 0 .. created
    BY <1>1, <1>5
  <2>2. pc \in [Thread -> {"loop", "acquire", "work", "store", "done"}]
    BY <1>4
  <2> QED
    BY <1>1, <1>2, <1>3, <1>4, <1>5, <2>1, <2>2 DEF TypeOK
<1>7. Exclusive
  BY <1>2, <1>4 DEF Exclusive, Inside
<1>8. Loops
  BY <1>4 DEF Loops
<1>9. Waited
  BY <1>4, <1>5, Threads DEF Waited
<1> QED
  BY <1>1, <1>6, <1>7, <1>8, <1>9 DEF Inv

LEMMA IterateStep ==
    ASSUME Inv, NEW t \in Thread, Iterate(t)
    PROVE  Inv'
<1> USE BenchAssumption
<1>1. UNCHANGED <<lockVars, counters, mainVars, i, j, loaded>>
  BY DEF Iterate
<1>2. /\ pc[t] = "loop" /\ pc' \in [Thread -> {"loop", "acquire", "work", "store", "done"}]
      /\ pc'[t] \in {"acquire", "done"}
      /\ pc'[t] = "acquire" => i[t] < iterations
      /\ \A u \in Thread \ {t} : pc'[u] = pc[u]
  BY DEF Iterate, Inv, TypeOK
<1>3. TypeOK' /\ num_threads' \in Nat \ {0}
  BY <1>1, <1>2 DEF Inv, TypeOK, lockVars, mainVars, args
<1>4. Exclusive'
  BY <1>1, <1>2 DEF Inv, Exclusive, Inside, FreeWord, lockVars
<1>5. Loops'
  BY <1>1, <1>2 DEF Inv, Loops
<1>6. Waited'
  BY <1>1, <1>2 DEF Inv, Waited, mainVars, args
<1> QED
  BY <1>3, <1>4, <1>5, <1>6 DEF Inv

\* Whatever the type, who acquires the lock found its word free.
LEMMA AcquireWord ==
    ASSUME lock_type \in Locks!LockTypes, lock \in {0, 1},
           Locks!acquire_lock, UNCHANGED lock_type
    PROVE  lock = FreeWord /\ lock' \in {0, 1} /\ lock' # FreeWord'
BY DEF FreeWord, Locks!LockTypes, Locks!acquire_lock, Locks!caslock_lock,
       Locks!taslock_lock, Locks!ticket_acquire, Locks!mutex_lock,
       Locks!semaphore_lock

\* ... and who holds it leaves the word free.
LEMMA ReleaseWord ==
    ASSUME lock_type \in Locks!LockTypes, lock \in {0, 1}, lock # FreeWord,
           Locks!release_lock, UNCHANGED lock_type
    PROVE  lock' \in {0, 1} /\ lock' = FreeWord'
BY DEF FreeWord, Locks!LockTypes, Locks!release_lock, Locks!caslock_unlock,
       Locks!taslock_unlock, Locks!ticket_release, Locks!mutex_unlock,
       Locks!semaphore_unlock

LEMMA AcquireStep ==
    ASSUME Inv, NEW t \in Thread, Acquire(t)
    PROVE  Inv'
<1> USE BenchAssumption
<1>1. UNCHANGED <<lock_type, counters, mainVars, i, loaded>>
  BY DEF Acquire
<1>2. /\ pc[t] = "acquire" /\ pc'[t] = "work"
      /\ pc' \in [Thread -> {"loop", "acquire", "work", "store", "done"}]
      /\ \A u \in Thread \ {t} : pc'[u] = pc[u]
      /\ j' \in [Thread -> 0 .. work_length]
      /\ \A u \in Thread \ {t} : j'[u] = j[u]
  BY DEF Acquire, Inv, TypeOK
<1>3. lock = FreeWord /\ lock' \in {0, 1} /\ lock' # FreeWord'
  BY <1>1, AcquireWord DEF Acquire, Inv, TypeOK
<1>4. TypeOK' /\ num_threads' \in Nat \ {0}
  BY <1>1, <1>2, <1>3 DEF Inv, TypeOK, mainVars, args
<1>5. Inside' = {t}
  BY <1>2, <1>3 DEF Inv, Exclusive, Inside
<1>6. Exclusive'
  BY <1>3, <1>5 DEF Exclusive
<1>7. Loops'
  BY <1>1, <1>2 DEF Inv, Loops
<1>8. Waited'
  BY <1>1, <1>2 DEF Inv, Waited, mainVars, args
<1> QED
  BY <1>4, <1>6, <1>7, <1>8 DEF Inv

LEMMA WorkStep ==
    ASSUME Inv, NEW t \in Thread, do_work(t)
    PROVE  Inv' /\ pc[t] \in {"work", "store"} /\ pc'[t] \in {"work", "store"}
           /\ \A u \in Thread \ {t} : pc'[u] = pc[u]
<1> USE BenchAssumption
<1>1. UNCHANGED <<lockVars, mainVars, i>>
  BY DEF do_work, LoadCounter, StoreCounter
<1>2. /\ pc[t] \in {"work", "store"} /\ pc'[t] \in {"work", "store"}
      /\ pc' \in [Thread -> {"loop", "acquire", "work", "store", "done"}]
      /\ \A u \in Thread \ {t} : pc'[u] = pc[u]
  BY DEF do_work, LoadCounter, StoreCounter, Inv, TypeOK
<1>3. /\ counters' \in [Counter -> Nat] /\ loaded' \in [Thread -> Nat]
      /\ j' \in [Thread -> 0 .. work_length]
      /\ pc'[t] = "store" => j'[t] < work_length
      /\ \A u \in Thread \ {t} : j'[u] = j[u]
  <2>1. CASE LoadCounter(t)
    <3>1. counters[counter_id(t)] \in Nat
      BY CounterOfThread DEF Inv, TypeOK
    <3> QED
      BY <2>1, <3>1 DEF LoadCounter, Inv, TypeOK
  <2>2. CASE StoreCounter(t)
    <3>1. j[t] \in 0 .. work_length /\ j[t] < work_length /\ loaded[t] + 1 \in Nat
      BY <2>2 DEF StoreCounter, Inv, TypeOK, Loops
    <3>2. j[t] + 1 \in 0 .. work_length
      BY <3>1
    <3> QED
      BY <2>2, <3>1, <3>2 DEF StoreCounter, Inv, TypeOK
  <2> QED
    BY <2>1, <2>2 DEF do_work
<1>4. TypeOK' /\ num_threads' \in Nat \ {0}
  BY <1>1, <1>2, <1>3 DEF Inv, TypeOK, lockVars, mainVars, args
<1>5. Inside' = Inside /\ FreeWord' = FreeWord /\ lock' = lock
  BY <1>1, <1>2 DEF Inside, FreeWord, lockVars
<1>6. Exclusive'
  BY <1>5 DEF Inv, Exclusive
<1>7. Loops'
  BY <1>1, <1>2, <1>3 DEF Inv, Loops
<1>8. Waited'
  BY <1>1, <1>2 DEF Inv, Waited, mainVars, args
<1> QED
  BY <1>2, <1>4, <1>6, <1>7, <1>8 DEF Inv

LEMMA ReleaseStep ==
    ASSUME Inv, NEW t \in Thread, Release(t)
    PROVE  Inv'
<1> USE BenchAssumption
<1>1. UNCHANGED <<lock_type, counters, mainVars>>
  BY DEF Release
<1>2. /\ pc[t] = "work" /\ pc'[t] = "loop"
      /\ pc' \in [Thread -> {"loop", "acquire", "work", "store", "done"}]
      /\ \A u \in Thread \ {t} : pc'[u] = pc[u]
  BY DEF Release, Inv, TypeOK
<1>3. i[t] + 1 \in 0 .. iterations
  <2>1. i[t] \in 0 .. iterations /\ i[t] < iterations
    BY <1>2 DEF Inv, TypeOK, Loops
  <2> QED
    BY <2>1
<1>4. /\ i' \in [Thread -> 0 .. iterations] /\ j' \in [Thread -> 0 .. work_length]
      /\ loaded' \in [Thread -> Nat]
      /\ \A u \in Thread \ {t} : i'[u] = i[u] /\ j'[u] = j[u]
  BY <1>3 DEF Release, Inv, TypeOK
<1>5. t \in Inside /\ Inside \subseteq {t}
  BY <1>2 DEF Inv, Exclusive, Inside
<1>6. lock' \in {0, 1} /\ lock' = FreeWord'
  <2>1. lock # FreeWord
    BY <1>5 DEF Inv, Exclusive
  <2> QED
    BY <1>1, <2>1, ReleaseWord DEF Release, Inv, TypeOK
<1>7. TypeOK' /\ num_threads' \in Nat \ {0}
  BY <1>1, <1>2, <1>4, <1>6 DEF Inv, TypeOK, mainVars, args
<1>8. Inside' = {}
  BY <1>2, <1>5 DEF Inside
<1>9. Exclusive'
  BY <1>6, <1>8 DEF Exclusive
<1>10. Loops'
  BY <1>2, <1>4 DEF Inv, Loops
<1>11. Waited'
  BY <1>1, <1>2 DEF Inv, Waited, mainVars, args
<1> QED
  BY <1>7, <1>9, <1>10, <1>11 DEF Inv

LEMMA MainStep ==
    ASSUME Inv, main
    PROVE  Inv' /\ UNCHANGED pc
<1> USE BenchAssumption
<1>1. UNCHANGED <<lockVars, counters, args, threadVars>>
  BY DEF main, Create, Join, Finish
<1>2. /\ num_threads \in Nat /\ created \in 0 .. num_threads
      /\ joined \in 0 .. created /\ freed \in BOOLEAN
  BY DEF Inv, TypeOK
<1>3. /\ created' \in 0 .. num_threads /\ joined' \in 0 .. created'
      /\ freed' \in BOOLEAN
  <2>1. CASE Create
    BY <1>2, <2>1 DEF Create
  <2>2. CASE Join
    BY <1>2, <2>2 DEF Join
  <2>3. CASE Finish
    BY <1>2, <2>3 DEF Finish
  <2> QED
    BY <2>1, <2>2, <2>3 DEF main
<1>4. TypeOK' /\ num_threads' \in Nat \ {0}
  BY <1>1, <1>3 DEF Inv, TypeOK, lockVars, args, threadVars
<1>5. Exclusive' /\ Loops'
  BY <1>1 DEF Inv, Exclusive, Loops, Inside, FreeWord, lockVars, threadVars
<1>6. \A t \in Thread : t < joined' => pc[t] = "done"
  <2>1. CASE Join
    <3>1. \A t \in Thread : t < joined + 1 => t < joined \/ t = joined
      BY <1>2, Threads
    <3> QED
      BY <2>1, <3>1 DEF Join, Inv, Waited
  <2>2. CASE Create \/ Finish
    BY <2>2 DEF Create, Finish, Inv, Waited
  <2> QED
    BY <2>1, <2>2 DEF main
<1>7. freed' => joined' = num_threads
  <2>1. CASE Create
    BY <1>2, <2>1 DEF Create, Inv, TypeOK, Waited
  <2>2. CASE Join
    BY <1>2, <2>2 DEF Join, Inv, Waited
  <2>3. CASE Finish
    BY <2>3 DEF Finish
  <2> QED
    BY <2>1, <2>2, <2>3 DEF main
<1>8. Waited'
  BY <1>1, <1>6, <1>7 DEF Waited, args, threadVars
<1> QED
  BY <1>1, <1>4, <1>5, <1>8 DEF Inv, threadVars

LEMMA NextInv == Inv /\ [Next]_vars => Inv'
<1> SUFFICES ASSUME Inv, [Next]_vars PROVE Inv'
  OBVIOUS
<1>1. CASE main
  BY <1>1, MainStep
<1>2. ASSUME NEW t \in Thread, inc_thread(t)
      PROVE  Inv'
  BY <1>2, IterateStep, AcquireStep, WorkStep, ReleaseStep DEF inc_thread
<1>3. CASE UNCHANGED vars
  BY <1>3 DEF vars, lockVars, mainVars, args, threadVars, Inv, TypeOK, Exclusive,
              Inside, FreeWord, Loops, Waited
<1> QED
  BY <1>1, <1>2, <1>3 DEF Next

LEMMA SpecInv == Spec => []Inv
BY InitInv, NextInv, PTL DEF Spec

------------------------------------------------------------------------------
(* The theorems *)

\* For any number of threads, counters, iterations and any lock: the variables
\* of main.c and main-orig.c keep their types, the loops their bounds.
THEOREM BenchTypes == Spec => []TypeOK
<1>1. Inv => TypeOK
  BY DEF Inv
<1> QED
  BY <1>1, SpecInv, PTL

\* main waits for every thread it has started before it frees the counters and
\* the lock.
THEOREM FreedWhenDone == Spec => []UsedBeforeFreed
<1>1. Inv => UsedBeforeFreed
  <2> SUFFICES ASSUME Inv, freed, NEW t \in Thread, t < created
               PROVE  pc[t] = "done"
    BY DEF UsedBeforeFreed
  <2>1. created \in 0 .. joined
    BY DEF Inv, TypeOK, Waited
  <2> QED
    BY <2>1, Threads DEF Inv, TypeOK, Waited
<1> QED
  BY <1>1, SpecInv, PTL

\* The state of a Mutex that a state of the program stands for.
Abstracted ==
    [t \in Thread |->
        CASE pc[t] \in {"work", "store"} -> "in"
          [] pc[t] = "acquire" -> "waiting"
          [] OTHER -> "out"]

LEMMA StepIsMutexStep ==
    ASSUME Inv, Inv', [Next]_vars
    PROVE  [AsMutex!Next]_Abstracted
<1>1. CASE UNCHANGED vars
  BY <1>1 DEF vars, threadVars, Abstracted
<1>2. CASE main
  BY <1>2, MainStep DEF Abstracted
<1>3. ASSUME NEW t \in Thread, Iterate(t)
      PROVE  AsMutex!Request(t) \/ Abstracted' = Abstracted
  <2>1. CASE i[t] < iterations
    BY <1>3, <2>1 DEF Iterate, AsMutex!Request, Inv, TypeOK
  <2>2. CASE ~(i[t] < iterations)
    BY <1>3, <2>2 DEF Iterate, Abstracted, Inv, TypeOK
  <2> QED
    BY <2>1, <2>2
<1>4. ASSUME NEW t \in Thread, Acquire(t)
      PROVE  AsMutex!Enter(t)
  <2>1. Inside = {}
    BY <1>4, AcquireWord DEF Acquire, Inv, TypeOK, Exclusive
  <2> QED
    BY <1>4, <2>1 DEF Acquire, AsMutex!Enter, Inside, Inv, TypeOK
<1>5. ASSUME NEW t \in Thread, do_work(t)
      PROVE  Abstracted' = Abstracted
  BY <1>5, WorkStep DEF Abstracted
<1>6. ASSUME NEW t \in Thread, Release(t)
      PROVE  AsMutex!Leave(t)
  BY <1>6 DEF Release, AsMutex!Leave, Inv, TypeOK
<1> QED
  BY <1>1, <1>2, <1>3, <1>4, <1>5, <1>6 DEF Next, inc_thread, AsMutex!Next

\* Whatever lock main is given, its threads use it as a Mutex: nobody is in
\* do_work while another one is.
THEOREM BenchImplementsMutex == Spec => ImplementsMutex
<1>1. Init => AsMutex!Init
  BY DEF Init, AsMutex!Init
<1>2. Inv /\ Inv' /\ [Next]_vars => [AsMutex!Next]_Abstracted
  BY StepIsMutexStep
<1> QED
  BY <1>1, <1>2, SpecInv, PTL DEF Spec, ImplementsMutex, AsMutex!Spec, Abstracted
------------------------------------------------------------------------------
(* No increment is lost *)

\* Where a thread is and what it has added.
Progress ==
    \A t \in Thread :
        /\ pc[t] \notin {"work", "store"} => j[t] = 0
        /\ pc[t] = "done" => i[t] = iterations
        /\ created <= t => pc[t] = "loop" /\ i[t] = 0

\* Nobody has written a counter between the load and the store of its thread.
FreshLoad == \A t \in Thread : pc[t] = "store" => loaded[t] = counters[counter_id(t)]

ThreadsOfVersion ==
    /\ num_threads \in Nat \ {0}
    /\ program = "main-orig" => num_threads = NUM_THREADS

Gain == Progress /\ FreshLoad /\ ThreadsOfVersion /\ NothingLost

LEMMA IncrementsBounded ==
    Inv => \A t \in Thread : Increments(t) \in 0 .. iterations * work_length + work_length
<1>1. \A a, b, w \in Nat : a <= b => a * w \in Nat /\ a * w <= b * w
  OBVIOUS
<1>2. Inv => \A t \in Thread : i[t] \in 0 .. iterations /\ j[t] \in 0 .. work_length
  BY DEF Inv, TypeOK
<1>3. iterations * work_length \in Nat
  BY BenchAssumption
<1> QED
  BY <1>1, <1>2, <1>3, BenchAssumption DEF Increments

LEMMA AdditionsFinite ==
    ASSUME Inv, NEW c \in Counter
    PROVE  IsFiniteSet(Additions(c)) /\ Cardinality(Additions(c)) \in Nat
<1> DEFINE m == iterations * work_length + work_length
<1>1. m \in Nat
  <2>1. iterations * work_length \in Nat
    BY BenchAssumption
  <2> QED
    BY <2>1, BenchAssumption
<1>2. IsFiniteSet(1 .. m)
  <2> HIDE DEF m
  <2>1. 1 \in Int /\ m \in Int
    BY <1>1
  <2> QED
    BY <2>1, FS_Interval
<1>3. IsFiniteSet(Thread)
  <2> DEFINE n == IF MaxThreads > NUM_THREADS THEN MaxThreads ELSE NUM_THREADS
  <2>1. n \in Nat
    BY Threads, BenchAssumption
  <2>2. Thread = 0 .. n - 1
    BY DEF Thread
  <2> HIDE DEF n
  <2>3. 0 \in Int /\ n - 1 \in Int
    BY <2>1
  <2> QED
    BY <2>2, <2>3, FS_Interval
<1>4. IsFiniteSet(Thread \X (1 .. m))
  BY <1>2, <1>3, FS_Product
<1>5. Additions(c) \in SUBSET (Thread \X (1 .. m))
  <2>1. \A t \in Thread : 1 .. Increments(t) \subseteq 1 .. m
    BY IncrementsBounded, <1>1
  <2> QED
    BY <2>1 DEF Additions
<1> QED
  BY <1>4, <1>5, FS_Subset, FS_CardinalityType

\* What the additions depend on.
LEMMA SameAdditions ==
    ASSUME \A t \in Thread : Increments(t)' = Increments(t), counters' = counters,
           garbage' = garbage, NothingLost
    PROVE  NothingLost'
<1>1. \A c \in Counter : Additions(c)' = Additions(c)
  BY DEF Additions
<1> QED
  BY <1>1 DEF NothingLost

LEMMA InitGain == Init => Gain
<1> SUFFICES ASSUME Init PROVE Gain
  OBVIOUS
<1>1. \A t \in Thread : pc[t] = "loop" /\ i[t] = 0 /\ j[t] = 0
  BY DEF Init
<1>2. Progress /\ FreshLoad
  BY <1>1 DEF Progress, FreshLoad
<1>3. ThreadsOfVersion
  BY Threads, BenchAssumption DEF Init, ThreadsOfVersion
<1>4. NothingLost
  <2>1. \A t \in Thread : Increments(t) = 0
    BY <1>1, BenchAssumption DEF Increments
  <2>2. 1 .. 0 = {}
    OBVIOUS
  <2>3. \A c \in Counter : Additions(c) = {}
    BY <2>1, <2>2 DEF Additions
  <2>4. counters = garbage /\ \A c \in Counter : garbage[c] \in Nat
    BY BenchAssumption DEF Init
  <2> QED
    BY <2>3, <2>4, FS_EmptySet DEF NothingLost
<1> QED
  BY <1>2, <1>3, <1>4 DEF Gain

\* A step that adds nothing and writes no counter.
LEMMA QuietGain ==
    ASSUME Inv, Gain, UNCHANGED <<counters, args>>, Progress', FreshLoad',
           \A t \in Thread : Increments(t)' = Increments(t)
    PROVE  Gain'
<1>1. NothingLost'
  BY SameAdditions DEF Gain, args
<1>2. ThreadsOfVersion'
  BY DEF Gain, args, ThreadsOfVersion
<1> QED
  BY <1>1, <1>2 DEF Gain

LEMMA IterateGain ==
    ASSUME Inv, Gain, NEW t \in Thread, Iterate(t)
    PROVE  Gain'
<1>1. /\ UNCHANGED <<counters, args, created, i, j, loaded>>
      /\ t < created /\ pc[t] = "loop"
      /\ pc' = [pc EXCEPT ![t] = IF i[t] < iterations THEN "acquire" ELSE "done"]
  BY DEF Iterate, mainVars
<1>2. pc'[t] \in {"acquire", "done"} /\ (pc'[t] = "done" => ~(i[t] < iterations))
  BY <1>1 DEF Inv, TypeOK
<1>3. \A u \in Thread \ {t} : pc'[u] = pc[u]
  BY <1>1 DEF Inv, TypeOK
<1>4. i[t] \in 0 .. iterations /\ created \in Nat /\ t \in Nat
  BY Threads DEF Inv, TypeOK
<1>5. Progress'
  <2>1. j[t] = 0 /\ ~(created <= t) /\ (pc'[t] = "done" => i[t] = iterations)
    BY <1>1, <1>2, <1>4, BenchAssumption DEF Gain, Progress
  <2> QED
    BY <1>1, <1>2, <1>3, <2>1 DEF Gain, Progress
<1>6. FreshLoad'
  BY <1>1, <1>2, <1>3 DEF Gain, FreshLoad
<1>7. \A u \in Thread : Increments(u)' = Increments(u)
  BY <1>1 DEF Increments
<1> QED
  BY <1>1, <1>5, <1>6, <1>7, QuietGain

LEMMA AcquireGain ==
    ASSUME Inv, Gain, NEW t \in Thread, Acquire(t)
    PROVE  Gain'
<1>1. /\ UNCHANGED <<counters, args, created, i, loaded>>
      /\ pc[t] = "acquire"
      /\ pc' = [pc EXCEPT ![t] = "work"] /\ j' = [j EXCEPT ![t] = 0]
  BY DEF Acquire, mainVars
<1>2. j' = j
  BY <1>1 DEF Gain, Progress, Inv, TypeOK
<1>3. pc'[t] = "work" /\ \A u \in Thread \ {t} : pc'[u] = pc[u]
  BY <1>1 DEF Inv, TypeOK
<1>4. ~(created <= t)
  BY <1>1 DEF Gain, Progress
<1>5. Progress'
  BY <1>1, <1>2, <1>3, <1>4 DEF Gain, Progress
<1>6. FreshLoad'
  BY <1>1, <1>3 DEF Gain, FreshLoad
<1>7. \A u \in Thread : Increments(u)' = Increments(u)
  BY <1>1, <1>2 DEF Increments
<1> QED
  BY <1>1, <1>5, <1>6, <1>7, QuietGain

LEMMA LoadGain ==
    ASSUME Inv, Gain, NEW t \in Thread, LoadCounter(t)
    PROVE  Gain'
<1>1. /\ UNCHANGED <<counters, args, created, i, j>>
      /\ pc[t] = "work"
      /\ pc' = [pc EXCEPT ![t] = "store"]
      /\ loaded' = [loaded EXCEPT ![t] = counters[counter_id(t)]]
  BY DEF LoadCounter, mainVars
<1>2. /\ pc'[t] = "store" /\ loaded'[t] = counters[counter_id(t)]
      /\ \A u \in Thread \ {t} : pc'[u] = pc[u] /\ loaded'[u] = loaded[u]
  BY <1>1 DEF Inv, TypeOK
<1>3. ~(created <= t)
  BY <1>1 DEF Gain, Progress
<1>4. Progress'
  BY <1>1, <1>2, <1>3 DEF Gain, Progress
<1>5. FreshLoad'
  BY <1>1, <1>2 DEF Gain, FreshLoad
<1>6. \A u \in Thread : Increments(u)' = Increments(u)
  BY <1>1 DEF Increments
<1> QED
  BY <1>1, <1>4, <1>5, <1>6, QuietGain

\* The store adds one to the counter and one addition to those of its thread.
LEMMA StoreGain ==
    ASSUME Inv, Gain, NEW t \in Thread, StoreCounter(t)
    PROVE  Gain'
<1> DEFINE n == Increments(t) + 1
           id == counter_id(t)
<1>1. /\ UNCHANGED <<args, created, i, loaded>>
      /\ pc[t] = "store"
      /\ pc' = [pc EXCEPT ![t] = "work"]
      /\ j' = [j EXCEPT ![t] = @ + 1]
      /\ counters' = [counters EXCEPT ![id] = loaded[t] + 1]
  BY DEF StoreCounter, mainVars
<1>2. /\ pc'[t] = "work" /\ j'[t] = j[t] + 1
      /\ \A u \in Thread \ {t} : pc'[u] = pc[u] /\ j'[u] = j[u]
  BY <1>1 DEF Inv, TypeOK
<1>3. ~(created <= t)
  BY <1>1 DEF Gain, Progress
<1>4. Progress'
  BY <1>1, <1>2, <1>3 DEF Gain, Progress
<1>5. \A u \in Thread : pc'[u] # "store"
  BY <1>1, <1>2 DEF Inv, Exclusive, Inside
<1>6. FreshLoad'
  BY <1>5 DEF FreshLoad
<1>7. id \in Counter /\ loaded[t] = counters[id] /\ counters \in [Counter -> Nat]
  BY <1>1, CounterOfThread DEF Gain, FreshLoad, Inv, TypeOK
<1>8. Increments(t) \in Nat /\ Increments(t)' = n
  <2>1. Increments(t) \in Nat
    BY IncrementsBounded
  <2>2. i[t] * work_length \in Int /\ j[t] \in Int
    <3>1. \A a, b \in Int : a * b \in Int
      OBVIOUS
    <3>2. i[t] \in Int /\ j[t] \in Int /\ work_length \in Int
      BY BenchAssumption DEF Inv, TypeOK
    <3> QED
      BY <3>1, <3>2
  <2> QED
    BY <1>1, <1>2, <2>1, <2>2 DEF Increments
<1>9. \A u \in Thread \ {t} : Increments(u)' = Increments(u)
  BY <1>1, <1>2 DEF Increments
<1>10. 1 .. n = (1 .. Increments(t)) \cup {n} /\ n \notin 1 .. Increments(t)
  BY <1>8
<1> HIDE DEF n, id
<1>11. Additions(id)' = Additions(id) \cup {<<t, n>>} /\ <<t, n>> \notin Additions(id)
  <2>1. \A u \in Thread : counter_id(u)' = counter_id(u)
    BY DEF counter_id
  <2>2. counter_id(t) = id
    BY DEF id
  <2>3. Additions(id)' = UNION {{u} \X (1 .. Increments(u)') : u \in {v \in Thread : counter_id(v) = id}}
    BY <2>1 DEF Additions
  <2>4. ASSUME NEW x
        PROVE  x \in Additions(id)' <=> x \in Additions(id) \cup {<<t, n>>}
    <3>1. x \in Additions(id)' <=>
            \E u \in Thread : /\ counter_id(u) = id
                              /\ x \in {u} \X (1 .. Increments(u)')
      BY <2>3
    <3>2. x \in Additions(id) <=>
            \E u \in Thread : /\ counter_id(u) = id
                              /\ x \in {u} \X (1 .. Increments(u))
      BY DEF Additions
    <3>3. x \in {t} \X (1 .. n) <=> x \in {t} \X (1 .. Increments(t)) \/ x = <<t, n>>
      BY <1>10
    <3> QED
      BY <1>8, <1>9, <2>2, <3>1, <3>2, <3>3
  <2>5. <<t, n>> \notin Additions(id)
    BY <1>10 DEF Additions
  <2> QED
    BY <2>4, <2>5
<1>12. \A c \in Counter \ {id} : Additions(c)' = Additions(c)
  <2> SUFFICES ASSUME NEW c \in Counter \ {id} PROVE Additions(c)' = Additions(c)
    OBVIOUS
  <2>1. \A u \in {v \in Thread : counter_id(v) = c} :
           u \in Thread \ {t} /\ Increments(u)' = Increments(u)
    BY <1>9 DEF id
  <2> QED
    BY <2>1 DEF Additions, counter_id
<1>13. NothingLost'
  <2>1. garbage' = garbage /\ garbage \in [Counter -> Nat]
    BY <1>1, BenchAssumption DEF args, Inv, TypeOK
  <2>2. Cardinality(Additions(id)') = Cardinality(Additions(id)) + 1
        /\ Cardinality(Additions(id)) \in Nat
    BY <1>7, <1>11, AdditionsFinite, FS_AddElement
  <2>3. counters'[id] = counters[id] + 1
    BY <1>1, <1>7
  <2>4. counters[id] = garbage[id] + Cardinality(Additions(id))
    BY <1>7 DEF Gain, NothingLost
  <2>5. counters'[id] = garbage[id] + Cardinality(Additions(id)')
    BY <1>7, <2>1, <2>2, <2>3, <2>4
  <2>6. \A c \in Counter \ {id} : counters'[c] = garbage[c] + Cardinality(Additions(c)')
    BY <1>1, <1>7, <1>12 DEF Gain, NothingLost
  <2>7. \A c \in Counter : counters'[c] = garbage[c] + Cardinality(Additions(c)')
    BY <2>5, <2>6
  <2> QED
    BY <2>1, <2>7 DEF NothingLost
<1>14. ThreadsOfVersion'
  BY <1>1 DEF Gain, args, ThreadsOfVersion
<1> QED
  BY <1>4, <1>6, <1>13, <1>14 DEF Gain

LEMMA ReleaseGain ==
    ASSUME Inv, Gain, NEW t \in Thread, Release(t)
    PROVE  Gain'
<1>1. /\ UNCHANGED <<counters, args, created>>
      /\ pc[t] = "work" /\ j[t] = work_length
      /\ pc' = [pc EXCEPT ![t] = "loop"]
      /\ i' = [i EXCEPT ![t] = @ + 1]
      /\ j' = [j EXCEPT ![t] = 0]
      /\ loaded' = [loaded EXCEPT ![t] = 0]
  BY DEF Release, mainVars
<1>2. /\ pc'[t] = "loop" /\ i'[t] = i[t] + 1 /\ j'[t] = 0
      /\ \A u \in Thread \ {t} : /\ pc'[u] = pc[u] /\ i'[u] = i[u]
                                 /\ j'[u] = j[u] /\ loaded'[u] = loaded[u]
  BY <1>1 DEF Inv, TypeOK
<1>3. ~(created <= t)
  BY <1>1 DEF Gain, Progress
<1>4. Progress'
  BY <1>1, <1>2, <1>3 DEF Gain, Progress
<1>5. FreshLoad'
  BY <1>1, <1>2 DEF Gain, FreshLoad
<1>6. Increments(t)' = Increments(t)
  <2>1. \A a, w \in Nat : (a + 1) * w + 0 = a * w + w
    OBVIOUS
  <2>2. i[t] \in Nat /\ work_length \in Nat
    BY BenchAssumption DEF Inv, TypeOK
  <2> QED
    BY <1>1, <1>2, <2>1, <2>2 DEF Increments
<1>7. \A u \in Thread : Increments(u)' = Increments(u)
  BY <1>2, <1>6 DEF Increments
<1> QED
  BY <1>1, <1>4, <1>5, <1>7, QuietGain

LEMMA MainGain ==
    ASSUME Inv, Gain, main
    PROVE  Gain'
<1>1. UNCHANGED <<counters, args, threadVars>>
  BY DEF main, Create, Join, Finish
<1>2. created' \in Nat /\ created \in Nat /\ created <= created'
  BY DEF main, Create, Join, Finish, Inv, TypeOK
<1>3. Progress'
  <2>1. \A t \in Thread : created' <= t => created <= t
    BY <1>2, Threads
  <2> QED
    BY <1>1, <2>1 DEF Gain, Progress, threadVars
<1>4. FreshLoad' /\ \A u \in Thread : Increments(u)' = Increments(u)
  BY <1>1 DEF Gain, FreshLoad, Increments, threadVars, counter_id
<1> QED
  BY <1>1, <1>3, <1>4, QuietGain

LEMMA NextGain == Inv /\ Gain /\ [Next]_vars => Gain'
<1> SUFFICES ASSUME Inv, Gain, [Next]_vars PROVE Gain'
  OBVIOUS
<1>1. CASE main
  BY <1>1, MainGain
<1>2. ASSUME NEW t \in Thread, inc_thread(t)
      PROVE  Gain'
  BY <1>2, IterateGain, AcquireGain, LoadGain, StoreGain, ReleaseGain
  DEF inc_thread, do_work
<1>3. CASE UNCHANGED vars
  <2>1. UNCHANGED <<counters, args, created, threadVars>>
    BY <1>3 DEF vars, mainVars
  <2>2. Progress' /\ FreshLoad' /\ \A u \in Thread : Increments(u)' = Increments(u)
    BY <2>1 DEF Gain, Progress, FreshLoad, Increments, threadVars, counter_id
  <2> QED
    BY <2>1, <2>2, QuietGain
<1> QED
  BY <1>1, <1>2, <1>3 DEF Next

LEMMA SpecGain == Spec => []Gain
BY InitInv, NextInv, InitGain, NextGain, PTL DEF Spec

\* For any number of threads, counters, iterations and increments and any lock:
\* at every moment a counter has what it began with and one for each increment
\* of its threads, although an increment is a load and a store.
THEOREM NoIncrementLost == Spec => []NothingLost
<1>1. Gain => NothingLost
  BY DEF Gain
<1> QED
  BY <1>1, SpecGain, PTL
------------------------------------------------------------------------------
(* What the program prints as expected *)

LEMMA DivMod ==
    \A n \in Nat, d \in Nat \ {0} :
        n \div d \in Nat /\ n % d \in 0 .. d - 1 /\ n = d * (n \div d) + (n % d)
OBVIOUS

LEMMA DivModUnique ==
    \A q, c, d \in Nat : c < d => (d * q + c) % d = c /\ (d * q + c) \div d = q
OBVIOUS

LEMMA TimesMonotone ==
    /\ \A a, b, d \in Nat : d * a \in Nat /\ (a <= b => d * a <= d * b)
    /\ \A a, b, c, d \in Nat : a < b /\ c < d => d * a + c < d * b
    /\ \A a, b, c, d \in Nat : d * a + c < d * b => a < b
    /\ \A a, b, d \in Nat : d # 0 /\ d * a = d * b => a = b
OBVIOUS

\* Dealing n things out to d in turn gives number c one for each round, and one
\* more if c comes before the rest of the last round.
Dealt(n, d, c) == {t \in 0 .. n - 1 : t % d = c}
Rounds(n, d, c) == (n \div d) + IF c < n % d THEN 1 ELSE 0

LEMMA DealtIsRounds ==
    ASSUME NEW n \in Nat, NEW d \in Nat \ {0}, NEW c \in 0 .. d - 1
    PROVE  /\ Rounds(n, d, c) \in Nat
           /\ IsFiniteSet(Dealt(n, d, c))
           /\ Cardinality(Dealt(n, d, c)) = Rounds(n, d, c)
<1> DEFINE m == Rounds(n, d, c)
           q == n \div d
           r == n % d
           f == [k \in 0 .. m - 1 |-> d * k + c]
<1>1. q \in Nat /\ r \in 0 .. d - 1 /\ n = d * q + r
  BY DivMod
<1>2. m = q + IF c < r THEN 1 ELSE 0
  BY DEF Rounds
<1> HIDE DEF q, r
<1>3. m \in Nat
  BY <1>1, <1>2
<1> HIDE DEF m
<1>4. c \in Nat /\ c < d /\ d \in Nat /\ r \in Nat /\ r < d
  BY <1>1
<1>5. ASSUME NEW k \in Nat
      PROVE  d * k + c < n <=> k < m
  <2>1. d * k \in Nat /\ d * q \in Nat
    BY <1>1, <1>4, TimesMonotone
  <2>2. CASE k < q
    <3>1. d * k + c < d * q
      BY <1>1, <1>4, <2>2, TimesMonotone
    <3> QED
      BY <1>1, <1>2, <1>4, <2>1, <2>2, <3>1
  <2>3. CASE k = q
    BY <1>1, <1>2, <1>4, <2>1, <2>3
  <2>4. CASE q < k
    <3>1. d * q + r < d * k
      BY <1>1, <1>4, <2>4, TimesMonotone
    <3> QED
      BY <1>1, <1>2, <1>4, <2>1, <2>4, <3>1
  <2> QED
    BY <1>1, <2>2, <2>3, <2>4
<1>6. ASSUME NEW k \in 0 .. m - 1
      PROVE  d * k + c \in Dealt(n, d, c)
  <2>1. k \in Nat /\ k < m /\ d * k \in Nat
    BY <1>3, <1>4, TimesMonotone
  <2>2. d * k + c \in 0 .. n - 1
    BY <1>4, <1>5, <2>1
  <2> QED
    BY <1>4, <2>1, <2>2, DivModUnique DEF Dealt
<1>7. \A t \in Dealt(n, d, c) : t \div d \in 0 .. m - 1 /\ d * (t \div d) + c = t
  <2> SUFFICES ASSUME NEW t \in Dealt(n, d, c)
               PROVE  t \div d \in 0 .. m - 1 /\ d * (t \div d) + c = t
    OBVIOUS
  <2>1. t \in Nat /\ t < n /\ t % d = c
    BY DEF Dealt
  <2>2. t \div d \in Nat /\ d * (t \div d) + c = t
    BY <2>1, DivMod
  <2>3. t \div d < m
    BY <1>5, <2>1, <2>2
  <2> QED
    BY <1>3, <2>2, <2>3
<1>8. f \in Bijection(0 .. m - 1, Dealt(n, d, c))
  <2>1. f \in [0 .. m - 1 -> Dealt(n, d, c)]
    BY <1>6
  <2>2. \A a, b \in 0 .. m - 1 : f[a] = f[b] => a = b
    <3> SUFFICES ASSUME NEW a \in 0 .. m - 1, NEW b \in 0 .. m - 1, f[a] = f[b]
                 PROVE  a = b
      OBVIOUS
    <3>1. a \in Nat /\ b \in Nat /\ d * a \in Nat /\ d * b \in Nat
      BY <1>3, <1>4, TimesMonotone
    <3>2. d * a = d * b
      BY <1>4, <3>1
    <3> QED
      BY <3>1, <3>2, TimesMonotone
  <2>3. \A t \in Dealt(n, d, c) : \E k \in 0 .. m - 1 : f[k] = t
    BY <1>7
  <2> HIDE DEF f
  <2> QED
    BY <2>1, <2>2, <2>3 DEF Bijection, Injection, IsInjective, Surjection
<1>9. IsFiniteSet(0 .. m - 1) /\ Cardinality(0 .. m - 1) = m
  <2>1. 0 \in Int /\ m - 1 \in Int
    BY <1>3
  <2>2. /\ IsFiniteSet(0 .. m - 1)
        /\ Cardinality(0 .. m - 1) = IF 0 > m - 1 THEN 0 ELSE m - 1 - 0 + 1
    BY <2>1, FS_Interval
  <2> QED
    BY <1>3, <2>2
<1>10. IsFiniteSet(Dealt(n, d, c)) /\ Cardinality(Dealt(n, d, c)) = m
  BY <1>8, <1>9, FS_Bijection DEF ExistsBijection
<1> QED
  BY <1>3, <1>10 DEF m

\* When main has joined all threads, a counter has its additions from those
\* that were dealt to it, all of them.
LEMMA AllAdded ==
    ASSUME Inv, Gain, joined = num_threads, NEW c \in Counter
    PROVE  Additions(c) = Dealt(num_threads, num_counters, c)
                             \X (1 .. iterations * work_length)
<1>1. num_threads \in Nat \ {0} /\ created = num_threads
  BY DEF Inv, TypeOK
<1>2. iterations * work_length \in Nat /\ work_length \in Nat /\ iterations \in Nat
  <2>1. \A a, b \in Nat : a * b \in Nat
    OBVIOUS
  <2> QED
    BY <2>1, BenchAssumption
<1>3. ASSUME NEW t \in Thread, t < num_threads
      PROVE  Increments(t) = iterations * work_length
  <2>1. pc[t] = "done"
    BY <1>3 DEF Inv, Waited
  <2>2. i[t] = iterations /\ j[t] = 0
    BY <2>1 DEF Gain, Progress
  <2> QED
    BY <1>2, <2>2 DEF Increments
<1>4. ASSUME NEW t \in Thread, ~(t < num_threads)
      PROVE  1 .. Increments(t) = {}
  <2>1. created <= t
    BY <1>1, <1>4, Threads
  <2>2. i[t] = 0 /\ j[t] = 0
    BY <2>1 DEF Gain, Progress
  <2>3. Increments(t) = 0
    BY <1>2, <2>2 DEF Increments
  <2> QED
    BY <2>3
<1>5. \A t \in Thread : t \in Nat
  BY Threads
<1>6. 0 .. num_threads - 1 \subseteq Thread
  <2>1. num_threads - 1 \in Thread
    BY DEF Inv, TypeOK
  <2> DEFINE n == IF MaxThreads > NUM_THREADS THEN MaxThreads ELSE NUM_THREADS
  <2>2. Thread = 0 .. n - 1 /\ n \in Nat
    BY Threads, BenchAssumption DEF Thread
  <2> HIDE DEF n
  <2> QED
    BY <1>1, <2>1, <2>2
<1>7. \A x : x \in Dealt(num_threads, num_counters, c)
               <=> x \in Thread /\ x < num_threads /\ counter_id(x) = c
  BY <1>1, <1>5, <1>6 DEF Dealt, counter_id
<1> DEFINE W == 1 .. iterations * work_length
<1>8. \A x : x \in Additions(c) <=> \E t \in Thread : /\ counter_id(t) = c
                                                      /\ x \in {t} \X (1 .. Increments(t))
  BY DEF Additions
<1>9. \A x : x \in Additions(c) <=>
                \E t \in Thread : /\ counter_id(t) = c
                                  /\ t < num_threads /\ x \in {t} \X W
  BY <1>3, <1>4, <1>8
<1> HIDE DEF W
<1>10. \A x : x \in Additions(c) <=> x \in Dealt(num_threads, num_counters, c) \X W
  BY <1>7, <1>9
<1> QED
  BY <1>10 DEF W

LEMMA GainIsExpected == Inv /\ Gain => ExpectedIsGained
<1> SUFFICES ASSUME Inv, Gain, joined = num_threads, NEW c \in Counter
             PROVE  counters[c] - garbage[c] =
                       expected_value + IF c < num_threads % num_counters
                                        THEN iterations * work_length ELSE 0
  BY DEF ExpectedIsGained
<1> DEFINE w == iterations * work_length
           e == IF c < num_threads % num_counters THEN 1 ELSE 0
           q == num_threads \div num_counters
<1>1. num_threads \in Nat \ {0} /\ num_counters \in Nat \ {0} /\ c \in 0 .. num_counters - 1
  BY BenchAssumption DEF Gain, ThreadsOfVersion, Counter
<1>2. w \in Nat /\ iterations \in Nat /\ work_length \in Nat
  <2>1. \A a, b \in Nat : a * b \in Nat
    OBVIOUS
  <2> QED
    BY <2>1, BenchAssumption
<1>3. q \in Nat /\ e \in {0, 1}
  BY <1>1, DivMod
<1>4. IsFiniteSet(1 .. w) /\ Cardinality(1 .. w) = w
  <2> HIDE DEF w
  <2>1. 1 \in Int /\ w \in Int
    BY <1>2
  <2>2. IsFiniteSet(1 .. w) /\ Cardinality(1 .. w) = IF 1 > w THEN 0 ELSE w - 1 + 1
    BY <2>1, FS_Interval
  <2> QED
    BY <1>2, <2>2
<1>5. /\ IsFiniteSet(Dealt(num_threads, num_counters, c))
      /\ Cardinality(Dealt(num_threads, num_counters, c)) = q + e
  BY <1>1, DealtIsRounds DEF Rounds
<1>6. Cardinality(Additions(c)) = (q + e) * w
  <2>1. Additions(c) = Dealt(num_threads, num_counters, c) \X (1 .. w)
    BY AllAdded
  <2> HIDE DEF q, e, w
  <2>2. Cardinality(Additions(c))
          = Cardinality(Dealt(num_threads, num_counters, c)) * Cardinality(1 .. w)
    BY <1>4, <1>5, <2>1, FS_Product
  <2> QED
    BY <1>4, <1>5, <2>2
<1>7. expected_value = q * w
  <2>1. \A a, b, d \in Nat : a * b * d = a * (b * d)
    OBVIOUS
  <2>2. CASE program = "main"
    BY <1>2, <1>3, <2>1, <2>2 DEF expected_value
  <2>3. CASE program = "main-orig"
    <3>1. num_threads = num_counters * THREADS_PER_COUNTER + 0
      BY <2>3, BenchAssumption DEF Gain, ThreadsOfVersion, NUM_THREADS
    <3>2. q = THREADS_PER_COUNTER
      BY <1>1, <3>1, DivModUnique, BenchAssumption
    <3>3. expected_value = THREADS_PER_COUNTER * iterations * work_length
      BY <2>3 DEF expected_value
    <3> HIDE DEF q
    <3> QED
      BY <1>2, <1>3, <2>1, <3>2, <3>3
  <2> QED
    BY <2>2, <2>3 DEF Inv, TypeOK
<1>8. counters[c] - garbage[c] = (q + e) * w
  <2>1. counters[c] \in Nat /\ garbage[c] \in Nat
    BY BenchAssumption DEF Inv, TypeOK
  <2>2. counters[c] = garbage[c] + Cardinality(Additions(c))
    BY DEF Gain, NothingLost
  <2>3. (q + e) * w \in Nat
    <3> HIDE DEF q, e, w
    <3>1. \A a, b \in Nat : a * b \in Nat
      OBVIOUS
    <3> QED
      BY <1>2, <1>3, <3>1
  <2> HIDE DEF q, e, w
  <2> QED
    BY <1>6, <2>1, <2>2, <2>3
<1>9. (q + e) * w = q * w + IF e = 1 THEN w ELSE 0
  <2> HIDE DEF q, e, w
  <2> QED
    BY <1>2, <1>3
<1>10. e = 1 <=> c < num_threads % num_counters
  OBVIOUS
<1> HIDE DEF q, e
<1> QED
  BY <1>7, <1>8, <1>9, <1>10

\* For any numbers of threads and counters and both versions of the program:
\* what is printed as expected is what each counter gained, but for the
\* counters that are dealt one thread more because the division has a rest.
THEOREM ExpectedValueIsGained == Spec => []ExpectedIsGained
BY GainIsExpected, SpecInv, SpecGain, PTL
=============================================================================
