--------------------------- MODULE PageFaultBench ---------------------------
(***************************************************************************)
(* The two programs of project2 that use the extent table, as clients of   *)
(* the kernel of ExtentMM: multithread-pagefault-averagetime.c, whose      *)
(* threads map, touch and unmap a buffer each, in groups that main starts  *)
(* and joins, for any number of iterations; and test.c, which asks for a   *)
(* report.                                                                 *)
(*                                                                         *)
(* Beside the buffers there is the page Heap, for the stacks and the heap: *)
(* anybody may touch it, at any time, and it is never unmapped ("printf    *)
(* creates a physical page -- remember that").                             *)
(***************************************************************************)
EXTENDS ExtentMM

CONSTANTS num_threads, num_pages, Heap

Main == num_threads
Worker == 0 .. num_threads - 1
Buffer(b) == {b} \X (0 .. num_pages - 1)

ASSUME PageFaultAssumption ==
    /\ num_threads \in Nat \ {0} /\ num_pages \in Nat
    /\ Thread = Worker \cup {Main}
    /\ VPage = (UNION {Buffer(b) : b \in Worker}) \cup {Heap}
    /\ Heap \notin UNION {Buffer(b) : b \in Worker}

VARIABLES
    program,         \* "average" or "test"
    using_extents,
    at,              \* where each thread is in its program, or "none"
    next,            \* the page a thread touches or unmaps next
    i                \* main's loop over the threads

benchVars == <<program, using_extents, at, next, i>>
allVars == <<vars, benchVars>>

\* main of test.c fills one array, as a thread of the other program does.
own_buffer(t) == IF t = Main THEN 0 ELSE t % num_threads

Running == at[Main] \notin {"exit", "gone"}

\* A thread starts its next loop when the kernel is done with the last one.
GoOn(t, from, to) ==
    /\ Running
    /\ at[t] = from /\ pc[t] = "idle"
    /\ at' = [at EXCEPT ![t] = to]
    /\ next' = [next EXCEPT ![t] = 0]
    /\ UNCHANGED <<vars, program, using_extents>>

BenchInit ==
    /\ Init /\ page = [t \in Thread |-> Heap]
    /\ program \in {"average", "test"}
    /\ using_extents \in IF program = "test" THEN {TRUE} ELSE BOOLEAN
    /\ at = [t \in Thread |-> IF t = Main THEN "start" ELSE "none"]
    /\ next = [t \in Thread |-> 0]
    /\ i = 0

------------------------------------------------------------------------------
(* inc_thread *)

\* mmap may return MAP_FAILED, and the thread ends.
Map(t) ==
    /\ t # Main
    /\ \E to \in {"memset", "return"} : GoOn(t, "mmap", to)
    /\ UNCHANGED i

\* memset faults the pages in, one after the other.
Memset(t) ==
    /\ Running
    /\ at[t] = "memset" /\ next[t] < num_pages
    /\ WriteFault(t, <<own_buffer(t), next[t]>>)
    /\ next' = [next EXCEPT ![t] = @ + 1]
    /\ UNCHANGED <<program, using_extents, at, i>>

Filled(t) ==
    /\ next[t] = num_pages
    /\ GoOn(t, "memset", IF t = Main THEN "report" ELSE "munmap")
    /\ UNCHANGED i

\* Mutant: the last page is left out.
Munmap_Short(t) ==
    /\ Running
    /\ at[t] = "munmap" /\ next[t] < num_pages
    /\ next' = [next EXCEPT ![t] = @ + 1]
    /\ IF next[t] = num_pages - 1 THEN UNCHANGED vars
       ELSE HookRemove(t, <<own_buffer(t), next[t]>>)
    /\ UNCHANGED <<program, using_extents, at, i>>

\* munmap takes them away again.
Munmap(t) ==
    /\ Running
    /\ at[t] = "munmap" /\ next[t] < num_pages
    /\ HookRemove(t, <<own_buffer(t), next[t]>>)
    /\ next' = [next EXCEPT ![t] = @ + 1]
    /\ UNCHANGED <<program, using_extents, at, i>>

Unmapped(t) ==
    /\ next[t] = num_pages
    /\ GoOn(t, "munmap", IF t = Main THEN "exit" ELSE "return")
    /\ UNCHANGED i

inc_thread(t) == Map(t) \/ Memset(t) \/ Filled(t) \/ Munmap(t) \/ Unmapped(t)

------------------------------------------------------------------------------
(* main of multithread-pagefault-averagetime.c *)

\* The flag is set before the threads start, if it is asked for.
UseExtents ==
    /\ at[Main] = "start"
    /\ IF using_extents THEN SyscallUseExtents(Main) ELSE UNCHANGED vars
    /\ at' = [at EXCEPT ![Main] = IF program = "test" THEN "memset" ELSE "create"]
    /\ UNCHANGED <<program, using_extents, next, i>>

\* pthread_create fails: main reports it, and goes on.
Create ==
    /\ at[Main] = "create" /\ pc[Main] = "idle" /\ i < num_threads
    /\ \E where \in {"mmap", "absent"} : at' = [at EXCEPT ![i] = where]
    /\ i' = i + 1
    /\ UNCHANGED <<vars, program, using_extents, next>>

CreatedAll ==
    /\ i = num_threads
    /\ GoOn(Main, "create", "join")
    /\ i' = 0

Join ==
    /\ at[Main] = "join" /\ pc[Main] = "idle" /\ i < num_threads
    /\ at[i] = "return" /\ pc[i] = "idle"
    /\ i' = i + 1
    /\ UNCHANGED <<vars, program, using_extents, at, next>>

\* The handle is zero, or that of a thread joined before: pthread_join of it
\* is undefined; it returns at once, or crashes.
JoinNothing ==
    /\ at[Main] = "join" /\ pc[Main] = "idle" /\ i < num_threads
    /\ at[i] = "absent"
    /\ \/ i' = i + 1 /\ UNCHANGED at
       \/ at' = [at EXCEPT ![Main] = "exit"] /\ UNCHANGED i
    /\ UNCHANGED <<vars, program, using_extents, next>>

\* The group has ended: the next iteration begins, or there is none.
JoinedAll ==
    /\ at[Main] = "join" /\ pc[Main] = "idle" /\ i = num_threads
    /\ i' = 0
    /\ \E to \in {"create", "exit"} :
          at' = [t \in Thread |-> IF t = Main THEN to ELSE "none"]
    /\ UNCHANGED <<vars, program, using_extents, next>>

(* main of test.c, after its array is filled *)

\* extent_rb_print; then free gives the array back.
Report ==
    /\ GoOn(Main, "report", "munmap")
    /\ UNCHANGED i

\* The process ends when its threads have left the kernel.
Exit ==
    /\ at[Main] = "exit"
    /\ \/ ExitTree /\ UNCHANGED at
       \/ ExitUnmap /\ at' = [at EXCEPT ![Main] = "gone"]
    /\ UNCHANGED <<program, using_extents, next, i>>

main ==
    \/ UseExtents \/ Create \/ CreatedAll \/ Join \/ JoinNothing \/ JoinedAll
    \/ Memset(Main) \/ Filled(Main) \/ Report \/ Munmap(Main) \/ Unmapped(Main)
    \/ Exit

------------------------------------------------------------------------------
\* What the kernel has begun for a thread it finishes.
Kernel(t) ==
    /\ InstallPte(t) \/ LoseRace(t) \/ HookInsert(t) \/ ClearPte(t) \/ FreeFrame(t)
    /\ UNCHANGED benchVars

TouchHeap(t) ==
    /\ Running /\ at[t] \notin {"none", "absent", "return"}
    /\ WriteFault(t, Heap)
    /\ UNCHANGED benchVars

\* Nothing happens any more.
Gone == at[Main] = "gone" /\ UNCHANGED allVars

BenchNext ==
    \/ main \/ Gone
    \/ \E t \in Worker : inc_thread(t)
    \/ \E t \in Thread : Kernel(t) \/ TouchHeap(t)

BenchSpec == BenchInit /\ [][BenchNext]_allVars

------------------------------------------------------------------------------
HeapFrame == {pte[Heap]} \ {NoFrame}

\* "Total time to all-fault/all-free": when a group of threads has been joined,
\* whatever the order in which their faults and unmaps hit the tree and the
\* allocator, all their frames are free again and the tree has forgotten them;
\* it is told of the heap at most. So every group starts from the same state.
GroupLeavesNothing ==
    at[Main] = "create" /\ i = 0 /\ pc[Main] = "idle" =>
        /\ free = Frame \ HeapFrame
        /\ Table!Tracked = IF use_extents /\ Heap \notin early THEN HeapFrame ELSE {}

\* The report test.c asks for counts the array it has filled, and what else the
\* process was given since the flag was set, and nothing else.
TestIsReported ==
    at[Main] = "report" /\ pc[Main] = "idle" =>
        Table!extent_rb_print.pages =
            num_pages + Cardinality(IF Heap \in early THEN {} ELSE HeapFrame)
=============================================================================
