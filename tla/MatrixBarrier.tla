---------------------------- MODULE MatrixBarrier ----------------------------
(***************************************************************************)
(* project3/matrix.c: threads that transpose their rows of B into B_T,     *)
(* meet at a barrier, and multiply their rows of A with B_T tile by tile.  *)
(*                                                                         *)
(* Of a cell of C the model keeps which products were added to it, in      *)
(* order: C[r][c] = <<0, 1>> stands for A[r][0]*B[0][c] + A[r][1]*B[1][c]. *)
(* The order matters: floating-point addition is not associative.          *)
(* That a thread that has finished calls set_inactive is in CoopSched.     *)
(***************************************************************************)
EXTENDS Integers, FiniteSets, Sequences

CONSTANTS
    MaxN, MaxThreads,   \* bounds on the arguments and the number of CPUs
    BLOCK,
    CreateFails,        \* whether pthread_create may fail
    Stale               \* what a cell of B_T holds before it is written

ASSUME MatrixAssumption ==
    /\ MaxN \in Nat /\ MaxThreads \in Nat \ {0} /\ BLOCK \in Nat \ {0}
    /\ CreateFails \in BOOLEAN /\ Stale \notin Nat

VARIABLES
    N, num_threads,
    B_T,               \* the rows of B that have been transposed
    C,
    at_barrier,        \* the threads that have come to the barrier
    created, joined,   \* how many threads main has started, and waited for
    crashed,           \* whether joining a thread that does not exist crashed
    pc,                \* "transpose", "barrier", "multiply" or "done"; or
                       \* "absent" if the thread could not be created
    i, j, k            \* the loop variables of the two segments

args == <<N, num_threads>>
mainVars == <<created, joined, crashed>>
loopVars == <<i, j, k>>
vars == <<args, B_T, C, at_barrier, mainVars, pc, loopVars>>

Index == 0 .. N - 1
Thread == 0 .. num_threads - 1

(* How main divides the rows, and what it tells the barrier. *)

rows_per == N \div num_threads
row_start(t) == t * rows_per

\* Mutant: the remainder is nobody's.
row_end_NoRemainder(t) == row_start(t) + rows_per

\* Mutant: the last thread's rows end one too late.
row_end_OnePast(t) ==
    IF t = num_threads - 1 THEN N + 1 ELSE row_start(t) + rows_per

row_end(t) == IF t = num_threads - 1 THEN N ELSE row_start(t) + rows_per

\* Mutant: one thread is not counted.
barrier_count_Short == IF num_threads > 1 THEN num_threads - 1 ELSE 1

\* Mutant: main is counted, and does not come.
barrier_count_WithMain == num_threads + 1

barrier_count == num_threads

Init ==
    /\ N \in 0 .. MaxN
    /\ num_threads \in 1 .. MaxThreads
    /\ B_T = {}
    /\ C = [r \in Index |-> [c \in Index |-> <<>>]]
    /\ at_barrier = {}
    /\ created = 0 /\ joined = 0 /\ crashed = FALSE
    /\ pc = [t \in Thread |-> "transpose"]
    /\ i = [t \in Thread |-> row_start(t)]
    /\ j = [t \in Thread |-> 0]
    /\ k = [t \in Thread |-> 0]

------------------------------------------------------------------------------
\* One row of transpose_segment.
Transpose(t) ==
    /\ t < created
    /\ pc[t] = "transpose"
    /\ i[t] < row_end(t)
    /\ B_T' = B_T \cup {i[t]}
    /\ i' = [i EXCEPT ![t] = @ + 1]
    /\ UNCHANGED <<args, C, at_barrier, mainVars, pc, j, k>>

\* pthread_barrier_wait is called ...
Arrive(t) ==
    /\ t < created
    /\ pc[t] = "transpose"
    /\ i[t] >= row_end(t)
    /\ at_barrier' = at_barrier \cup {t}
    /\ pc' = [pc EXCEPT ![t] = "barrier"]
    /\ UNCHANGED <<args, B_T, C, mainVars, loopVars>>

\* ... and returns; multiply_segment begins.
Depart(t) ==
    /\ pc[t] = "barrier"
    /\ Cardinality(at_barrier) >= barrier_count
    /\ i' = [i EXCEPT ![t] = row_start(t)]
    /\ j' = [j EXCEPT ![t] = 0]
    /\ k' = [k EXCEPT ![t] = 0]
    /\ pc' = [pc EXCEPT ![t] = "multiply"]
    /\ UNCHANGED <<args, B_T, C, at_barrier, mainVars>>

\* The tile [from, from + BLOCK), cut off at end.
Tile(from, end) == {x \in from .. from + BLOCK - 1 : x < end}

\* The products that a tile adds to a cell.
Products(from, end) ==
    [n \in 1 .. Cardinality(Tile(from, end)) |->
        IF from + n - 1 \in B_T THEN from + n - 1 ELSE Stale]

\* One tile of multiply_segment.
Multiply(t) ==
    /\ pc[t] = "multiply"
    /\ i[t] < row_end(t)
    /\ C' = [r \in Index |-> [c \in Index |->
                IF r \in Tile(i[t], row_end(t)) /\ c \in Tile(j[t], N)
                THEN C[r][c] \o Products(k[t], N)
                ELSE C[r][c]]]
    /\ LET lastK == k[t] + BLOCK >= N
           lastJ == j[t] + BLOCK >= N
       IN  /\ k' = [k EXCEPT ![t] = IF lastK THEN 0 ELSE @ + BLOCK]
           /\ j' = [j EXCEPT ![t] = CASE ~lastK -> @
                                      [] lastK /\ lastJ -> 0
                                      [] lastK /\ ~lastJ -> @ + BLOCK]
           /\ i' = [i EXCEPT ![t] = IF lastK /\ lastJ THEN @ + BLOCK ELSE @]
    /\ UNCHANGED <<args, B_T, at_barrier, mainVars, pc>>

Return(t) ==
    /\ pc[t] = "multiply"
    /\ i[t] >= row_end(t)
    /\ pc' = [pc EXCEPT ![t] = "done"]
    /\ UNCHANGED <<args, B_T, C, at_barrier, mainVars, loopVars>>

thread_func(t) ==
    Transpose(t) \/ Arrive(t) \/ Depart(t) \/ Multiply(t) \/ Return(t)

Create ==
    /\ created < num_threads
    /\ created' = created + 1
    /\ UNCHANGED <<args, B_T, C, at_barrier, joined, crashed, pc, loopVars>>

\* The result of pthread_create is not looked at.
CreateError ==
    /\ CreateFails
    /\ created < num_threads
    /\ created' = created + 1
    /\ pc' = [pc EXCEPT ![created] = "absent"]
    /\ UNCHANGED <<args, B_T, C, at_barrier, joined, crashed, loopVars>>

Join ==
    /\ created = num_threads
    /\ joined < num_threads
    /\ pc[joined] = "done"
    /\ joined' = joined + 1
    /\ UNCHANGED <<args, B_T, C, at_barrier, created, crashed, pc, loopVars>>

\* The handle of the thread was never written: pthread_join of what malloc left
\* there returns an error, which is not looked at either, or crashes.
JoinNothing ==
    /\ created = num_threads
    /\ joined < num_threads
    /\ pc[joined] = "absent"
    /\ \/ joined' = joined + 1 /\ UNCHANGED crashed
       \/ crashed' = TRUE /\ UNCHANGED joined
    /\ UNCHANGED <<args, B_T, C, at_barrier, created, pc, loopVars>>

main == Create \/ CreateError \/ Join \/ JoinNothing

Next == ~crashed /\ (main \/ \E t \in Thread : thread_func(t))

Spec == Init /\ [][Next]_vars

\* The scheduler runs main and every thread.
FairSpec ==
    /\ Spec
    /\ WF_vars(~crashed /\ main)
    /\ \A t \in 0 .. MaxThreads - 1 :
          WF_vars(~crashed /\ t \in Thread /\ thread_func(t))

------------------------------------------------------------------------------
TypeOK ==
    /\ N \in 0 .. MaxN /\ num_threads \in 1 .. MaxThreads
    /\ B_T \subseteq Index
    /\ DOMAIN C = Index
    /\ \A r \in Index : DOMAIN C[r] = Index
    /\ at_barrier \subseteq Thread
    /\ created \in 0 .. num_threads /\ joined \in 0 .. created
    /\ crashed \in BOOLEAN
    /\ pc \in [Thread -> {"transpose", "barrier", "multiply", "done", "absent"}]
    /\ \A v \in {i, j, k} : v \in [Thread -> 0 .. N + BLOCK]

\* The products of a row and a column, in the order of the textbook.
InOrder(n) == [x \in 1 .. n |-> x - 1]

\* Whatever the tiles, the threads and their order, every cell is summed up in
\* the one order in which a single thread without tiles would do it, of cells
\* of B_T that have been written, and no product is added twice: the
\* multithreaded result is the sequential one to the last bit.
SumsInOrder ==
    \A r, c \in Index : C[r][c] = InOrder(Len(C[r][c])) /\ Len(C[r][c]) <= N

\* When main has joined the threads, every cell has all its products; also if
\* the threads do not divide the rows, or outnumber them. A thread that could
\* not be created never leaves its rows out of the result: the others stay at
\* the barrier. Only when there is no thread at all may main report a time.
Complete ==
    joined = num_threads /\ (\E t \in Thread : pc[t] # "absent")
    => \A r, c \in Index : C[r][c] = InOrder(N)

\* Nobody waits at the barrier for ever, if the threads could be created.
Terminates == <>(joined = num_threads \/ \E t \in Thread : pc[t] = "absent")
=============================================================================
