------------------------ MODULE MatrixBarrier_proofs ------------------------
(***************************************************************************)
(* For matrices of any size, tiles of any size and any number of threads,  *)
(* whether or not they divide the rows.                                    *)
(***************************************************************************)
EXTENDS MatrixBarrier, FiniteSetTheorems, SequenceTheorems, TLAPS

(* How main divides the rows *)

LEMMA Monotone ==
    ASSUME NEW a \in Nat, NEW b \in Nat, NEW c \in Nat, a <= b
    PROVE  a * c <= b * c /\ a * c \in Nat
<1>1. PICK d \in Nat : b = a + d
  <2>1. b - a \in Nat /\ b = a + (b - a)
    OBVIOUS
  <2> QED
    BY <2>1
<1>2. b * c = a * c + d * c /\ d * c \in Nat /\ a * c \in Nat
  BY <1>1
<1> QED
  BY <1>2

LEMMA Division ==
    ASSUME NEW a \in Nat, NEW b \in Nat \ {0}
    PROVE  a \div b \in Nat /\ b * (a \div b) <= a /\ a < b * (a \div b) + b
OBVIOUS

Rows(t) == row_start(t) .. row_end(t) - 1

Sizes == N \in 0 .. MaxN /\ num_threads \in 1 .. MaxThreads

LEMMA SizesAreNat == Sizes => N \in Nat /\ num_threads \in Nat \ {0} /\ BLOCK \in Nat \ {0}
BY MatrixAssumption DEF Sizes

\* The segments of the threads follow each other, and the last one takes the rest.
LEMMA Segments ==
    ASSUME Sizes
    PROVE  /\ \A t \in Thread :
                 /\ t \in Nat /\ row_start(t) \in Nat /\ row_end(t) \in 0 .. N
                 /\ row_start(t) <= row_end(t)
           /\ \A t, u \in Thread : t < u => row_end(t) <= row_start(u)
<1> DEFINE p == rows_per
<1>1. N \in Nat /\ num_threads \in Nat \ {0} /\ p \in Nat /\ num_threads * p <= N
  BY SizesAreNat, Division DEF rows_per
<1>2. \A t \in Thread : row_start(t) = t * p /\ t \in Nat /\ t + 1 <= num_threads
  BY <1>1 DEF row_start, Thread
<1>3. \A t \in Thread : row_end(t) = IF t = num_threads - 1 THEN N ELSE row_start(t) + p
  BY DEF row_end
<1> HIDE DEF p
<1>4. ASSUME NEW t \in Thread
      PROVE  /\ row_start(t) \in Nat /\ row_start(t) + p <= N
             /\ row_start(t) + p = (t + 1) * p
  <2>1. (t + 1) * p <= num_threads * p /\ t * p \in Nat
    BY <1>1, <1>2, Monotone
  <2>2. (t + 1) * p = t * p + p
    BY <1>1, <1>2
  <2>3. num_threads * p \in Nat
    BY <1>1
  <2> QED
    BY <1>1, <1>2, <2>1, <2>2, <2>3
<1>5. ASSUME NEW t \in Thread, NEW u \in Thread, t < u
      PROVE  row_end(t) <= row_start(u)
  <2>1. (t + 1) * p <= u * p
    BY <1>1, <1>2, <1>5, Monotone
  <2>2. t # num_threads - 1
    BY <1>1, <1>2, <1>5
  <2> QED
    BY <1>2, <1>3, <1>4, <2>1, <2>2
<1>6. ASSUME NEW t \in Thread
      PROVE  row_end(t) \in 0 .. N /\ row_start(t) <= row_end(t)
  BY <1>1, <1>3, <1>4
<1> QED
  BY <1>2, <1>4, <1>5, <1>6

LEMMA OneOwner ==
    ASSUME Sizes, NEW t \in Thread, NEW u \in Thread, NEW r, r \in Rows(t), r \in Rows(u)
    PROVE  t = u
<1>1. t \in Nat /\ u \in Nat /\ row_end(t) \in Int /\ row_end(u) \in Int
      /\ row_start(t) \in Int /\ row_start(u) \in Int
  BY Segments
<1>2. t < u => row_end(t) <= row_start(u)
  BY Segments
<1>3. u < t => row_end(u) <= row_start(t)
  BY Segments
<1>4. r \in Int /\ row_start(t) <= r /\ r < row_end(t) /\ row_start(u) <= r /\ r < row_end(u)
  BY <1>1 DEF Rows
<1> QED
  BY <1>1, <1>2, <1>3, <1>4

LEMMA Owner ==
    ASSUME Sizes, NEW r \in Index
    PROVE  \E t \in Thread : r \in Rows(t)
<1> DEFINE p == rows_per
           last == num_threads - 1
<1>1. /\ N \in Nat /\ num_threads \in Nat \ {0} /\ p \in Nat
      /\ r \in Nat /\ r < N
  BY SizesAreNat, Division DEF rows_per, Index
<1>2. last \in Thread /\ last \in Nat /\ row_start(last) = last * p /\ row_end(last) = N
  BY <1>1 DEF Thread, row_start, row_end
<1> HIDE DEF p
<1>3. CASE last * p <= r
  <2>1. r \in Rows(last)
    <3>1. last * p \in Nat
      BY <1>1, <1>2, Monotone
    <3> QED
      BY <1>1, <1>2, <1>3, <3>1 DEF Rows
  <2> QED
    BY <1>2, <2>1
<1>4. CASE r < last * p
  <2>1. p \in Nat \ {0}
    <3>1. p # 0
      <4> SUFFICES ASSUME p = 0 PROVE FALSE
        OBVIOUS
      <4>1. last * p = 0
        BY <1>2
      <4> QED
        BY <1>1, <1>4, <4>1
    <3> QED
      BY <1>1, <3>1
  <2> DEFINE q == r \div p
  <2>2. q \in Nat /\ p * q <= r /\ r < p * q + p
    BY <1>1, <2>1, Division
  <2> HIDE DEF q
  <2>3. p * q = q * p
    BY <1>1, <2>2
  <2>4. q < last
    <3> SUFFICES ASSUME last <= q PROVE FALSE
      BY <1>2, <2>2
    <3>1. last * p <= q * p /\ last * p \in Nat
      BY <1>1, <1>2, <2>2, Monotone
    <3>2. q * p \in Nat
      BY <1>1, <2>2
    <3> QED
      BY <1>1, <1>4, <2>2, <2>3, <3>1, <3>2
  <2>5. q \in Thread /\ row_start(q) = q * p /\ row_end(q) = q * p + p
    BY <1>1, <2>2, <2>4 DEF Thread, row_start, row_end, p
  <2>6. r \in Rows(q)
    <3>1. q * p \in Nat
      BY <1>1, <2>2
    <3> QED
      BY <1>1, <2>2, <2>3, <2>5, <3>1 DEF Rows
  <2> QED
    BY <2>5, <2>6
<1>5. last * p \in Nat
  BY <1>1, <1>2, Monotone
<1> QED
  BY <1>1, <1>3, <1>4, <1>5
------------------------------------------------------------------------------
(* The invariant *)

Places == {"transpose", "barrier", "multiply", "done", "absent"}

\* How many products the cell of row r and column c of thread t has: as far as
\* the loops of multiply_segment have come.
Added(t, r, c) ==
    CASE pc[t] = "done" -> N
      [] pc[t] = "multiply" ->
            IF r < i[t] THEN N
            ELSE IF r >= i[t] + BLOCK THEN 0
            ELSE IF c < j[t] THEN N
            ELSE IF c >= j[t] + BLOCK THEN 0
            ELSE k[t]
      [] OTHER -> 0

Types ==
    /\ Sizes
    /\ created \in 0 .. num_threads /\ joined \in 0 .. created
    /\ crashed \in BOOLEAN
    /\ B_T \subseteq Index /\ at_barrier \subseteq Thread
    /\ pc \in [Thread -> Places]
    /\ i \in [Thread -> Nat] /\ j \in [Thread -> Nat] /\ k \in [Thread -> Nat]

\* Who has not been started has done nothing, and who has been joined is through.
Started ==
    \A t \in Thread :
        /\ t >= created => pc[t] = "transpose"
        /\ t < joined => pc[t] \in {"done", "absent"}

\* Who is behind the barrier has seen everybody at it.
Barrier ==
    /\ at_barrier = {t \in Thread : pc[t] \in {"barrier", "multiply", "done"}}
    /\ \A t \in Thread : pc[t] \in {"multiply", "done"} => at_barrier = Thread

\* And who is at the barrier has transposed its rows.
Transposed ==
    \A t \in Thread :
        /\ pc[t] = "transpose" =>
              /\ row_start(t) <= i[t] /\ i[t] <= row_end(t) /\ j[t] = 0 /\ k[t] = 0
              /\ \A r \in Rows(t) : r < i[t] => r \in B_T
        /\ pc[t] \in {"barrier", "multiply", "done"} => Rows(t) \subseteq B_T

Loops ==
    \A t \in Thread :
        /\ i[t] <= N + BLOCK /\ j[t] <= N /\ k[t] <= N
        /\ pc[t] = "multiply" =>
              /\ row_start(t) <= i[t]
              /\ i[t] < row_end(t) => j[t] < N /\ k[t] < N

Sums ==
    /\ DOMAIN C = Index /\ \A r \in Index : DOMAIN C[r] = Index
    /\ \A t \in Thread : \A r \in Rows(t), c \in Index :
          C[r][c] = InOrder(Added(t, r, c))

Inv == Types /\ Started /\ Barrier /\ Transposed /\ Loops /\ Sums

LEMMA InitInv == Init => Inv
<1> SUFFICES ASSUME Init PROVE Inv
  OBVIOUS
<1>1. Sizes /\ N \in Nat /\ num_threads \in Nat \ {0} /\ BLOCK \in Nat \ {0}
  BY SizesAreNat DEF Init, Sizes
<1>2. \A t \in Thread : /\ t \in Nat /\ row_start(t) \in Nat /\ row_end(t) \in 0 .. N
                        /\ row_start(t) <= row_end(t)
  BY <1>1, Segments
<1>3. /\ pc = [t \in Thread |-> "transpose"] /\ B_T = {} /\ at_barrier = {}
      /\ i = [t \in Thread |-> row_start(t)]
      /\ j = [t \in Thread |-> 0] /\ k = [t \in Thread |-> 0]
      /\ created = 0 /\ joined = 0 /\ crashed = FALSE
      /\ C = [r \in Index |-> [c \in Index |-> <<>>]]
  BY DEF Init
<1>4. Types
  <2>1. i \in [Thread -> Nat] /\ j \in [Thread -> Nat] /\ k \in [Thread -> Nat]
    BY <1>2, <1>3
  <2>2. created \in 0 .. num_threads /\ joined \in 0 .. created
    BY <1>1, <1>3
  <2>3. pc \in [Thread -> Places]
    BY <1>3 DEF Places
  <2> QED
    BY <1>1, <1>3, <2>1, <2>2, <2>3 DEF Types
<1>5. Started /\ Barrier
  BY <1>2, <1>3 DEF Started, Barrier
<1>6. Transposed /\ Loops
  BY <1>1, <1>2, <1>3 DEF Transposed, Loops, Rows
<1>7. Sums
  <2>1. InOrder(0) = <<>>
    BY DEF InOrder
  <2>2. \A t \in Thread : \A r \in Rows(t), c \in Index : Added(t, r, c) = 0
    BY <1>3 DEF Added
  <2>3. \A t \in Thread : Rows(t) \subseteq Index
    BY <1>1, <1>2 DEF Rows, Index
  <2> QED
    BY <1>3, <2>1, <2>2, <2>3 DEF Sums
<1> QED
  BY <1>4, <1>5, <1>6, <1>7 DEF Inv

------------------------------------------------------------------------------
(* The steps *)

\* The sizes are given, and with them everybody's rows.
LEMMA RowsStay ==
    ASSUME UNCHANGED args
    PROVE  /\ UNCHANGED <<Sizes, Index, Thread, rows_per, barrier_count>>
           /\ \A t \in Thread : /\ row_start(t)' = row_start(t)
                                /\ row_end(t)' = row_end(t) /\ Rows(t)' = Rows(t)
BY DEF args, Sizes, Index, Thread, rows_per, barrier_count, row_start, row_end, Rows

LEMMA MainInv == Inv /\ main => Inv'
<1> SUFFICES ASSUME Inv, main PROVE Inv'
  OBVIOUS
<1>1. UNCHANGED <<args, B_T, C, at_barrier, loopVars>>
  BY DEF main, Create, CreateError, Join, JoinNothing
<1>2. Types /\ num_threads \in Nat \ {0} /\ Thread = 0 .. num_threads - 1
  BY SizesAreNat DEF Inv, Types, Thread
<1>3. created' \in 0 .. num_threads /\ joined' \in 0 .. created' /\ crashed' \in BOOLEAN
  <2>1. created \in 0 .. num_threads /\ joined \in 0 .. created /\ crashed \in BOOLEAN
    BY <1>2 DEF Types
  <2>2. CASE Create \/ CreateError
    <3>1. created < num_threads /\ created' = created + 1 /\ joined' = joined /\ crashed' = crashed
      BY <2>2 DEF Create, CreateError
    <3> QED
      BY <1>2, <2>1, <3>1
  <2>3. CASE Join \/ JoinNothing
    <3>1. /\ created = num_threads /\ joined < num_threads /\ created' = created
          /\ \/ joined' = joined /\ crashed' = TRUE
             \/ joined' = joined + 1 /\ crashed' = crashed
      BY <2>3 DEF Join, JoinNothing
    <3>2. CASE joined' = joined /\ crashed' = TRUE
      BY <2>1, <3>1, <3>2
    <3>3. CASE joined' = joined + 1 /\ crashed' = crashed
      <4>1. joined + 1 \in 0 .. created
        BY <1>2, <2>1, <3>1
      <4> QED
        BY <2>1, <3>1, <3>3, <4>1
    <3> QED
      BY <3>1, <3>2, <3>3
  <2> QED
    BY <2>2, <2>3 DEF main
<1>4. /\ pc' \in [Thread -> Places]
      /\ \A t \in Thread :
            \/ pc'[t] = pc[t]
            \/ pc[t] = "transpose" /\ pc'[t] = "absent" /\ t = created /\ created' = created + 1
  <2>1. CASE CreateError
    BY <1>2, <2>1 DEF CreateError, Types, Places, Inv, Started
  <2>2. CASE Create \/ Join \/ JoinNothing
    BY <1>2, <2>2 DEF Create, Join, JoinNothing, Types
  <2> QED
    BY <2>1, <2>2 DEF main
<1>5. Types'
  <2>1. UNCHANGED <<Index, Thread, N, num_threads, B_T, at_barrier, i, j, k>> /\ Sizes'
    BY <1>1, <1>2, RowsStay DEF Types, loopVars, args
  <2> QED
    BY <1>2, <1>3, <1>4, <2>1 DEF Types
<1>6. Started'
  <2> SUFFICES ASSUME NEW t \in Thread
               PROVE  /\ t >= created' => pc'[t] = "transpose"
                      /\ t < joined' => pc'[t] \in {"done", "absent"}
    BY <1>1, RowsStay DEF Started
  <2>1. /\ t >= created => pc[t] = "transpose"
        /\ t < joined => pc[t] \in {"done", "absent"}
        /\ t \in Nat /\ created \in Nat /\ joined \in Nat /\ joined <= created
    BY <1>2 DEF Inv, Started, Types
  <2>2. CASE Create \/ CreateError
    <3>1. created' = created + 1 /\ joined' = joined
      BY <2>2 DEF Create, CreateError
    <3> QED
      BY <1>4, <2>1, <3>1
  <2>3. CASE Join \/ JoinNothing
    <3>1. /\ pc' = pc /\ created' = created
          /\ \/ joined' = joined
             \/ joined' = joined + 1 /\ pc[joined] \in {"done", "absent"}
      BY <2>3 DEF Join, JoinNothing
    <3> QED
      BY <2>1, <3>1
  <2> QED
    BY <2>2, <2>3 DEF main
<1>7. Barrier'
  BY <1>1, <1>4, RowsStay DEF Inv, Barrier
<1>8. Transposed' /\ Loops'
  BY <1>1, <1>4, RowsStay DEF Inv, Transposed, Loops, loopVars, args
<1>9. Sums'
  <2>1. \A t \in Thread : \A r, c : Added(t, r, c)' = Added(t, r, c)
    BY <1>1, <1>4 DEF Added, loopVars, args
  <2> QED
    BY <1>1, <2>1, RowsStay DEF Inv, Sums, InOrder
<1> QED
  BY <1>5, <1>6, <1>7, <1>8, <1>9 DEF Inv

\* A step of thread t that stays with its rows and its variables.
LEMMA TransposeInv ==
    ASSUME Inv, NEW t \in Thread, Transpose(t)
    PROVE  Inv'
<1>1. /\ pc[t] = "transpose" /\ i[t] < row_end(t) /\ t < created
      /\ B_T' = B_T \cup {i[t]} /\ i' = [i EXCEPT ![t] = @ + 1]
      /\ UNCHANGED <<args, C, at_barrier, mainVars, pc, j, k>>
  BY DEF Transpose
<1>2. Types /\ Sizes /\ N \in Nat /\ BLOCK \in Nat
  BY SizesAreNat DEF Inv, Types
<1>3. /\ row_start(t) \in Nat /\ row_end(t) \in 0 .. N /\ i[t] \in Nat
      /\ row_start(t) <= i[t] /\ \A r \in Rows(t) : r < i[t] => r \in B_T
  BY <1>1, <1>2, Segments DEF Inv, Transposed, Types
<1>4. i' \in [Thread -> Nat] /\ i'[t] = i[t] + 1 /\ \A u \in Thread \ {t} : i'[u] = i[u]
  BY <1>1, <1>2, <1>3 DEF Types
<1>5. i[t] \in Index
  BY <1>1, <1>2, <1>3 DEF Index
<1>6. Types' /\ Started' /\ Barrier'
  BY <1>1, <1>2, <1>4, <1>5, RowsStay
  DEF Inv, Types, Started, Barrier, mainVars, args
<1>7. Transposed'
  <2>1. \A r \in Rows(t) : r < i[t] + 1 => r \in B_T'
    BY <1>1, <1>2, <1>3 DEF Rows
  <2> QED
    BY <1>1, <1>3, <1>4, <2>1, RowsStay DEF Inv, Transposed
<1>8. Loops'
  <2>1. i[t] + 1 <= N + BLOCK
    BY <1>1, <1>2, <1>3
  <2> QED
    BY <1>1, <1>4, <2>1, RowsStay DEF Inv, Loops, args
<1>9. Sums'
  <2>1. \A u \in Thread : \A r, c : Added(u, r, c)' = Added(u, r, c)
    BY <1>1, <1>4 DEF Added, args
  <2> QED
    BY <1>1, <2>1, RowsStay DEF Inv, Sums, InOrder
<1> QED
  BY <1>6, <1>7, <1>8, <1>9 DEF Inv

LEMMA ArriveInv ==
    ASSUME Inv, NEW t \in Thread, Arrive(t)
    PROVE  Inv'
<1>1. /\ pc[t] = "transpose" /\ i[t] >= row_end(t) /\ t < created
      /\ at_barrier' = at_barrier \cup {t} /\ pc' = [pc EXCEPT ![t] = "barrier"]
      /\ UNCHANGED <<args, B_T, C, mainVars, loopVars>>
  BY DEF Arrive
<1>2. Types /\ Sizes /\ N \in Nat
  BY SizesAreNat DEF Inv, Types
<1>3. /\ pc' \in [Thread -> Places] /\ pc'[t] = "barrier"
      /\ \A u \in Thread \ {t} : pc'[u] = pc[u]
  BY <1>1, <1>2 DEF Types, Places
<1>4. Types'
  BY <1>1, <1>2, <1>3, RowsStay DEF Types, mainVars, args, loopVars
<1>5. Started'
  <2>1. t \in Nat /\ created \in Nat /\ joined \in Nat /\ ~(t >= created) /\ ~(t < joined)
    BY <1>1, <1>2, Segments DEF Types, Inv, Started
  <2> QED
    BY <1>1, <1>3, <2>1, RowsStay DEF Inv, Started, mainVars
<1>6. Barrier'
  <2>1. t \notin at_barrier
    BY <1>1 DEF Inv, Barrier
  <2> QED
    BY <1>1, <1>3, <2>1, RowsStay DEF Inv, Barrier
<1>7. Transposed'
  <2>1. Rows(t) \subseteq B_T
    BY <1>1, <1>2, Segments DEF Inv, Transposed, Rows, Types
  <2> QED
    BY <1>1, <1>3, <2>1, RowsStay DEF Inv, Transposed, loopVars
<1>8. Loops'
  BY <1>1, <1>3, RowsStay DEF Inv, Loops, loopVars, args
<1>9. Sums'
  <2>1. \A u \in Thread : \A r, c : Added(u, r, c)' = Added(u, r, c)
    BY <1>1, <1>3 DEF Added, args, loopVars
  <2> QED
    BY <1>1, <2>1, RowsStay DEF Inv, Sums, InOrder
<1> QED
  BY <1>4, <1>5, <1>6, <1>7, <1>8, <1>9 DEF Inv

\* pthread_barrier_wait returns to one thread when all have called it.
LEMMA DepartInv ==
    ASSUME Inv, NEW t \in Thread, Depart(t)
    PROVE  Inv'
<1>1. /\ pc[t] = "barrier" /\ Cardinality(at_barrier) >= num_threads
      /\ i' = [i EXCEPT ![t] = row_start(t)]
      /\ j' = [j EXCEPT ![t] = 0] /\ k' = [k EXCEPT ![t] = 0]
      /\ pc' = [pc EXCEPT ![t] = "multiply"]
      /\ UNCHANGED <<args, B_T, C, at_barrier, mainVars>>
  BY DEF Depart, barrier_count
<1>2. Types /\ Sizes /\ N \in Nat /\ num_threads \in Nat \ {0} /\ BLOCK \in Nat \ {0}
      /\ row_start(t) \in Nat /\ row_end(t) \in 0 .. N /\ row_start(t) <= row_end(t)
  BY SizesAreNat, Segments DEF Inv, Types
<1>3. /\ pc' \in [Thread -> Places] /\ i' \in [Thread -> Nat]
      /\ j' \in [Thread -> Nat] /\ k' \in [Thread -> Nat]
      /\ pc'[t] = "multiply" /\ i'[t] = row_start(t) /\ j'[t] = 0 /\ k'[t] = 0
      /\ \A u \in Thread \ {t} :
            pc'[u] = pc[u] /\ i'[u] = i[u] /\ j'[u] = j[u] /\ k'[u] = k[u]
  BY <1>1, <1>2 DEF Types, Places
<1>4. at_barrier = Thread
  <2>1. IsFiniteSet(Thread) /\ Cardinality(Thread) = num_threads
    <3>1. 0 \in Int /\ num_threads - 1 \in Int /\ ~(0 > num_threads - 1)
      BY <1>2
    <3>2. IsFiniteSet(0 .. num_threads - 1) /\ Cardinality(0 .. num_threads - 1) = num_threads - 1 - 0 + 1
      BY <3>1, FS_Interval
    <3> QED
      BY <1>2, <3>2 DEF Thread
  <2>2. at_barrier \subseteq Thread
    BY <1>2 DEF Types
  <2>3. Cardinality(at_barrier) \in Nat /\ Cardinality(at_barrier) <= num_threads
    BY <2>1, <2>2, FS_Subset, FS_CardinalityType
  <2>4. Cardinality(at_barrier) = Cardinality(Thread)
    BY <1>1, <1>2, <2>1, <2>3
  <2> QED
    BY <2>1, <2>2, <2>4, FS_Subset
<1>5. Types'
  BY <1>1, <1>2, <1>3, RowsStay DEF Types, mainVars, args
<1>6. Started'
  BY <1>1, <1>3, RowsStay DEF Inv, Started, mainVars
<1>7. Barrier'
  BY <1>1, <1>3, <1>4, RowsStay DEF Inv, Barrier
<1>8. Transposed'
  BY <1>1, <1>3, RowsStay DEF Inv, Transposed
<1>9. Loops'
  <2>1. row_start(t) <= N + BLOCK /\ 0 <= N /\ (row_start(t) < row_end(t) => 0 < N)
    BY <1>2
  <2> QED
    BY <1>1, <1>2, <1>3, <2>1, RowsStay DEF Inv, Loops, args
<1>10. Sums'
  <2>1. ASSUME NEW u \in Thread, NEW r \in Rows(u), NEW c \in Index
        PROVE  Added(u, r, c)' = Added(u, r, c)
    <3>1. CASE u = t
      <4>1. Added(t, r, c) = 0
        BY <1>1 DEF Added
      <4>2. r \in Int /\ row_start(t) <= r /\ c \in Nat
        BY <1>2, <3>1 DEF Rows, Index
      <4>3. Added(t, r, c)' = 0
        BY <1>2, <1>3, <4>2 DEF Added
      <4> QED
        BY <3>1, <4>1, <4>3
    <3>2. CASE u # t
      BY <1>1, <1>3, <3>2 DEF Added, args
    <3> QED
      BY <3>1, <3>2
  <2> QED
    BY <1>1, <2>1, RowsStay DEF Inv, Sums, InOrder
<1> QED
  BY <1>5, <1>6, <1>7, <1>8, <1>9, <1>10 DEF Inv

LEMMA ReturnInv ==
    ASSUME Inv, NEW t \in Thread, Return(t)
    PROVE  Inv'
<1>1. /\ pc[t] = "multiply" /\ i[t] >= row_end(t)
      /\ pc' = [pc EXCEPT ![t] = "done"]
      /\ UNCHANGED <<args, B_T, C, at_barrier, mainVars, loopVars>>
  BY DEF Return
<1>2. Types /\ Sizes /\ row_start(t) \in Nat /\ row_end(t) \in Nat /\ i[t] \in Nat
  BY Segments DEF Inv, Types
<1>3. /\ pc' \in [Thread -> Places] /\ pc'[t] = "done"
      /\ \A u \in Thread \ {t} : pc'[u] = pc[u]
  BY <1>1, <1>2 DEF Types, Places
<1>4. Types'
  BY <1>1, <1>2, <1>3, RowsStay DEF Types, mainVars, args, loopVars
<1>5. Started'
  BY <1>1, <1>3, RowsStay DEF Inv, Started, mainVars
<1>6. Barrier'
  BY <1>1, <1>3, RowsStay DEF Inv, Barrier
<1>7. Transposed' /\ Loops'
  BY <1>1, <1>3, RowsStay DEF Inv, Transposed, Loops, loopVars, args
<1>8. Sums'
  <2>1. ASSUME NEW u \in Thread, NEW r \in Rows(u), NEW c \in Index
        PROVE  Added(u, r, c)' = Added(u, r, c)
    <3>1. CASE u = t
      <4>1. r < i[t]
        BY <1>1, <1>2, <3>1 DEF Rows
      <4> QED
        BY <1>1, <1>3, <3>1, <4>1 DEF Added, args
    <3>2. CASE u # t
      BY <1>1, <1>3, <3>2 DEF Added, args, loopVars
    <3> QED
      BY <3>1, <3>2
  <2> QED
    BY <1>1, <2>1, RowsStay DEF Inv, Sums, InOrder
<1> QED
  BY <1>4, <1>5, <1>6, <1>7, <1>8 DEF Inv

------------------------------------------------------------------------------
(* One tile *)

LEMMA TileSize ==
    ASSUME NEW from \in Nat, NEW end \in Nat, from < end, BLOCK \in Nat \ {0}
    PROVE  /\ \A x : x \in Tile(from, end) <=> x \in Int /\ from <= x /\ x < from + BLOCK /\ x < end
           /\ Cardinality(Tile(from, end)) = IF from + BLOCK >= end THEN end - from ELSE BLOCK
<1>1. \A x : x \in Tile(from, end) <=> x \in Int /\ from <= x /\ x < from + BLOCK /\ x < end
  BY DEF Tile
<1> DEFINE last == IF from + BLOCK >= end THEN end - 1 ELSE from + BLOCK - 1
<1>2. last \in Int /\ from <= last /\ last + 1 - from = IF from + BLOCK >= end THEN end - from ELSE BLOCK
  OBVIOUS
<1>3. Tile(from, end) = from .. last
  <2>1. \A x : x \in from .. last <=> x \in Int /\ from <= x /\ x < from + BLOCK /\ x < end
    OBVIOUS
  <2> HIDE DEF last
  <2> QED
    BY <1>1, <2>1
<1> HIDE DEF last
<1>4. Cardinality(from .. last) = last - from + 1
  BY <1>2, FS_Interval
<1> QED
  BY <1>1, <1>2, <1>3, <1>4

\* The products of a tile go on where those of the tiles before it ended.
LEMMA TileContinues ==
    ASSUME NEW a \in Nat, NEW m \in Nat
    PROVE  InOrder(a) \o [n \in 1 .. m |-> a + n - 1] = InOrder(a + m)
<1> DEFINE p == InOrder(a)
           q == [n \in 1 .. m |-> a + n - 1]
<1>1. p \in Seq(Int) /\ Len(p) = a /\ \A x \in 1 .. a : p[x] = x - 1
  BY DEF InOrder
<1>2. q \in Seq(Int) /\ Len(q) = m /\ \A x \in 1 .. m : q[x] = a + x - 1
  OBVIOUS
<1> HIDE DEF p, q
<1>3. p \o q \in Seq(Int) /\ Len(p \o q) = a + m
  BY <1>1, <1>2, ConcatProperties
<1>4. ASSUME NEW x \in 1 .. a + m PROVE (p \o q)[x] = x - 1
  <2>1. (p \o q)[x] = IF x <= Len(p) THEN p[x] ELSE q[x - Len(p)]
    <3>1. x \in 1 .. Len(p) + Len(q)
      BY <1>1, <1>2
    <3> QED
      BY <1>1, <1>2, <3>1, ConcatProperties
  <2>2. CASE x <= a
    BY <1>1, <2>1, <2>2
  <2>3. CASE ~(x <= a)
    <3>1. x - a \in 1 .. m
      BY <2>3
    <3>2. q[x - a] = a + (x - a) - 1
      BY <1>2, <3>1
    <3> QED
      BY <1>1, <2>1, <2>3, <3>1, <3>2
  <2> QED
    BY <2>2, <2>3
<1>5. p \o q = [x \in 1 .. a + m |-> x - 1]
  <2> DEFINE s == p \o q
  <2>1. s \in Seq(Int) /\ Len(s) = a + m /\ \A x \in 1 .. a + m : s[x] = x - 1
    BY <1>3, <1>4
  <2> HIDE DEF s
  <2>2. DOMAIN s = 1 .. a + m /\ s = [x \in DOMAIN s |-> s[x]]
    BY <2>1
  <2>3. s = [x \in 1 .. a + m |-> x - 1]
    BY <2>1, <2>2
  <2> QED
    BY <2>3 DEF s
<1> QED
  BY <1>5 DEF InOrder, p, q

LEMMA MultiplyInv ==
    ASSUME Inv, NEW t \in Thread, Multiply(t)
    PROVE  Inv'
<1> DEFINE lastK == k[t] + BLOCK >= N
           lastJ == j[t] + BLOCK >= N
           more == IF lastK THEN N - k[t] ELSE BLOCK
<1>1. /\ pc[t] = "multiply" /\ i[t] < row_end(t)
      /\ C' = [r \in Index |-> [c \in Index |->
                  IF r \in Tile(i[t], row_end(t)) /\ c \in Tile(j[t], N)
                  THEN C[r][c] \o Products(k[t], N)
                  ELSE C[r][c]]]
      /\ k' = [k EXCEPT ![t] = IF lastK THEN 0 ELSE @ + BLOCK]
      /\ j' = [j EXCEPT ![t] = CASE ~lastK -> @
                                 [] lastK /\ lastJ -> 0
                                 [] lastK /\ ~lastJ -> @ + BLOCK]
      /\ i' = [i EXCEPT ![t] = IF lastK /\ lastJ THEN @ + BLOCK ELSE @]
      /\ UNCHANGED <<args, B_T, at_barrier, mainVars, pc>>
  BY DEF Multiply
<1>2. /\ Types /\ Sizes /\ N \in Nat /\ BLOCK \in Nat \ {0}
      /\ row_start(t) \in Nat /\ row_end(t) \in Nat /\ row_end(t) <= N
      /\ i[t] \in Nat /\ j[t] \in Nat /\ k[t] \in Nat
  BY SizesAreNat, Segments DEF Inv, Types
<1>3. j[t] < N /\ k[t] < N /\ row_start(t) <= i[t]
  BY <1>1 DEF Inv, Loops
<1>4. /\ i' \in [Thread -> Nat] /\ j' \in [Thread -> Nat] /\ k' \in [Thread -> Nat]
      /\ \A u \in Thread \ {t} : i'[u] = i[u] /\ j'[u] = j[u] /\ k'[u] = k[u]
      /\ k'[t] = IF lastK THEN 0 ELSE k[t] + BLOCK
      /\ j'[t] = IF ~lastK THEN j[t] ELSE IF lastJ THEN 0 ELSE j[t] + BLOCK
      /\ i'[t] = IF lastK /\ lastJ THEN i[t] + BLOCK ELSE i[t]
  BY <1>1, <1>2 DEF Types
<1>5. Types'
  BY <1>1, <1>2, <1>4, RowsStay DEF Types, mainVars, args
<1>6. Started' /\ Barrier'
  BY <1>1, RowsStay DEF Inv, Started, Barrier, mainVars
<1>7. Transposed'
  BY <1>1, <1>4, RowsStay DEF Inv, Transposed
<1>8. Loops'
  <2>1. /\ i'[t] <= N + BLOCK /\ j'[t] < N /\ k'[t] < N /\ row_start(t) <= i'[t]
    BY <1>1, <1>2, <1>3, <1>4
  <2> QED
    BY <1>1, <1>2, <1>4, <2>1, RowsStay DEF Inv, Loops, args
\* Everybody is behind the barrier or at it, and so B_T is complete.
<1>9. B_T = Index
  <2>1. at_barrier = Thread
    BY <1>1 DEF Inv, Barrier
  <2>2. \A u \in Thread : Rows(u) \subseteq B_T
    BY <2>1 DEF Inv, Barrier, Transposed
  <2> QED
    BY <1>2, <2>2, Owner DEF Types
<1>10. /\ \A r : r \in Tile(i[t], row_end(t)) <=>
                     r \in Int /\ i[t] <= r /\ r < i[t] + BLOCK /\ r < row_end(t)
       /\ \A c : c \in Tile(j[t], N) <=>
                     c \in Int /\ j[t] <= c /\ c < j[t] + BLOCK /\ c < N
       /\ Cardinality(Tile(k[t], N)) = more
       /\ \A x : x \in Tile(k[t], N) <=>
                     x \in Int /\ k[t] <= x /\ x < k[t] + BLOCK /\ x < N
  BY <1>1, <1>2, <1>3, TileSize
<1>11. more \in Nat /\ k[t] + more <= N /\ k[t] + more = IF lastK THEN N ELSE k[t] + BLOCK
  BY <1>2, <1>3
<1>12. Products(k[t], N) = [n \in 1 .. more |-> k[t] + n - 1]
  <2>1. \A n \in 1 .. more : k[t] + n - 1 \in B_T
    BY <1>2, <1>9, <1>11 DEF Index
  <2> HIDE DEF more
  <2> QED
    BY <1>10, <2>1 DEF Products
<1> HIDE DEF more
<1>13. InOrder(k[t]) \o Products(k[t], N) = InOrder(k[t] + more)
  BY <1>2, <1>11, <1>12, TileContinues
\* The cells of the tile have k[t] products before it, and those of it after it.
<1>14. ASSUME NEW r \in Rows(t), NEW c \in Index
       PROVE  IF r \in Tile(i[t], row_end(t)) /\ c \in Tile(j[t], N)
              THEN Added(t, r, c) = k[t] /\ Added(t, r, c)' = k[t] + more
              ELSE Added(t, r, c)' = Added(t, r, c)
  <2>1. /\ r \in Nat /\ r < row_end(t) /\ r < N /\ c \in Nat /\ c < N
    BY <1>2 DEF Rows, Index
  <2>2. pc'[t] = "multiply" /\ N' = N
    BY <1>1 DEF args
  <2>3. Added(t, r, c) = IF r < i[t] THEN N
                         ELSE IF r >= i[t] + BLOCK THEN 0
                         ELSE IF c < j[t] THEN N
                         ELSE IF c >= j[t] + BLOCK THEN 0 ELSE k[t]
    BY <1>1 DEF Added
  <2>4. Added(t, r, c)' = IF r < i'[t] THEN N
                          ELSE IF r >= i'[t] + BLOCK THEN 0
                          ELSE IF c < j'[t] THEN N
                          ELSE IF c >= j'[t] + BLOCK THEN 0 ELSE k'[t]
    BY <2>2 DEF Added
  <2>5. CASE ~lastK
    BY <1>2, <1>3, <1>4, <1>10, <1>11, <2>1, <2>3, <2>4, <2>5
  <2>6. CASE lastK /\ ~lastJ
    BY <1>2, <1>3, <1>4, <1>10, <1>11, <2>1, <2>3, <2>4, <2>6
  <2>7. CASE lastK /\ lastJ
    BY <1>2, <1>3, <1>4, <1>10, <1>11, <2>1, <2>3, <2>4, <2>7
  <2> QED
    BY <2>5, <2>6, <2>7
<1>15. Sums'
  <2>1. DOMAIN C' = Index /\ \A r \in Index : DOMAIN C'[r] = Index
    BY <1>1
  <2>2. ASSUME NEW u \in Thread, NEW r \in Rows(u), NEW c \in Index
        PROVE  C'[r][c] = InOrder(Added(u, r, c)')
    <3>1. r \in Index
      BY <1>2, Segments DEF Rows, Index
    <3>2. C[r][c] = InOrder(Added(u, r, c))
      BY DEF Inv, Sums
    <3>3. C'[r][c] = IF r \in Tile(i[t], row_end(t)) /\ c \in Tile(j[t], N)
                     THEN C[r][c] \o Products(k[t], N) ELSE C[r][c]
      BY <1>1, <3>1
    <3>4. CASE u = t
      BY <1>13, <1>14, <3>2, <3>3, <3>4
    <3>5. CASE u # t
      <4>1. r \notin Tile(i[t], row_end(t))
        <5> SUFFICES ASSUME r \in Tile(i[t], row_end(t)) PROVE FALSE
          OBVIOUS
        <5>1. r \in Rows(t)
          BY <1>2, <1>3, <1>10 DEF Rows
        <5> QED
          BY <1>2, <3>5, <5>1, OneOwner
      <4>2. Added(u, r, c)' = Added(u, r, c)
        BY <1>1, <1>4, <3>5 DEF Added, args
      <4> QED
        BY <3>2, <3>3, <4>1, <4>2
    <3> QED
      BY <3>4, <3>5
  <2>3. \A u \in Thread' : \A r \in Rows(u)', c \in Index' :
           C'[r][c] = InOrder(Added(u, r, c)')
    <3>1. Thread' = Thread /\ Index' = Index /\ \A u \in Thread : Rows(u)' = Rows(u)
      BY <1>1, RowsStay
    <3> QED
      BY <2>2, <3>1
  <2> QED
    BY <1>1, <2>1, <2>3, RowsStay DEF Sums, InOrder
<1> QED
  BY <1>5, <1>6, <1>7, <1>8, <1>15 DEF Inv

LEMMA NextInv == Inv /\ [Next]_vars => Inv'
<1> SUFFICES ASSUME Inv, [Next]_vars PROVE Inv'
  OBVIOUS
<1>1. CASE main
  BY <1>1, MainInv
<1>2. CASE \E t \in Thread : thread_func(t)
  <2>1. PICK t \in Thread : thread_func(t)
    BY <1>2
  <2> QED
    BY <2>1, TransposeInv, ArriveInv, DepartInv, MultiplyInv, ReturnInv DEF thread_func
<1>3. CASE UNCHANGED vars
  <2>1. UNCHANGED <<args, B_T, C, at_barrier, created, joined, crashed, pc, i, j, k>>
    BY <1>3 DEF vars, mainVars, loopVars
  <2>2. Types' /\ Started' /\ Barrier' /\ Transposed' /\ Loops'
    BY <2>1, RowsStay DEF Inv, Types, Started, Barrier, Transposed, Loops, args
  <2>3. \A t \in Thread : \A r, c : Added(t, r, c)' = Added(t, r, c)
    BY <2>1 DEF Added, args
  <2>4. Sums'
    BY <2>1, <2>3, RowsStay DEF Inv, Sums, InOrder
  <2> QED
    BY <2>2, <2>4 DEF Inv
<1> QED
  BY <1>1, <1>2, <1>3 DEF Next

LEMMA InvHolds == Spec => []Inv
<1>1. Init => Inv
  BY InitInv
<1>2. Inv /\ [Next]_vars => Inv'
  BY NextInv
<1> QED
  BY <1>1, <1>2, PTL DEF Spec

------------------------------------------------------------------------------
(* What follows *)

\* The type invariant of the matrix benchmark, project3/matrix.c.
THEOREM MatrixTypes == Spec => []TypeOK
<1>1. Inv => TypeOK
  <2> SUFFICES ASSUME Inv PROVE TypeOK
    OBVIOUS
  <2>1. Types /\ N \in Nat /\ BLOCK \in Nat
    BY SizesAreNat DEF Inv, Types
  <2>2. \A t \in Thread : i[t] <= N + BLOCK /\ j[t] <= N + BLOCK /\ k[t] <= N + BLOCK
    BY <2>1 DEF Inv, Loops, Types
  <2>3. i \in [Thread -> 0 .. N + BLOCK] /\ j \in [Thread -> 0 .. N + BLOCK]
        /\ k \in [Thread -> 0 .. N + BLOCK]
    BY <2>1, <2>2 DEF Types
  <2>4. DOMAIN C = Index /\ \A r \in Index : DOMAIN C[r] = Index
    BY DEF Inv, Sums
  <2> QED
    BY <2>1, <2>3, <2>4 DEF TypeOK, Types, Sizes, Places
<1> QED
  BY <1>1, InvHolds, PTL

LEMMA LengthInOrder == ASSUME NEW n \in Nat PROVE Len(InOrder(n)) = n
BY DEF InOrder

\* Each cell is summed up in the order of the textbook, of cells of B_T that
\* have been written: multiply_segment adds the products of one tile after those
\* of the tiles before it, and no other thread writes to the row.
THEOREM SumsAreInOrder == Spec => []SumsInOrder
<1>1. Inv => SumsInOrder
  <2> SUFFICES ASSUME Inv, NEW r \in Index, NEW c \in Index
               PROVE  C[r][c] = InOrder(Len(C[r][c])) /\ Len(C[r][c]) <= N
    BY DEF SumsInOrder
  <2>1. Types /\ Sizes /\ N \in Nat
    BY SizesAreNat DEF Inv, Types
  <2>2. PICK t \in Thread : r \in Rows(t)
    BY <2>1, Owner
  <2>3. C[r][c] = InOrder(Added(t, r, c))
    BY <2>2 DEF Inv, Sums
  <2>4. Added(t, r, c) \in Nat /\ Added(t, r, c) <= N
    BY <2>1 DEF Added, Inv, Loops, Types
  <2> QED
    BY <2>3, <2>4, LengthInOrder
<1> QED
  BY <1>1, InvHolds, PTL

\* When main has joined the threads, each cell has all its products, whether or
\* not the threads divide the rows; and a thread that could not be created
\* leaves all others at the barrier.
THEOREM ResultIsComplete == Spec => []Complete
<1>1. Inv => Complete
  <2> SUFFICES ASSUME Inv, joined = num_threads, NEW u \in Thread, pc[u] # "absent",
                      NEW r \in Index, NEW c \in Index
               PROVE  C[r][c] = InOrder(N)
    BY DEF Complete
  <2>1. Types /\ Sizes
    BY DEF Inv, Types
  <2>2. \A t \in Thread : pc[t] \in {"done", "absent"}
    <3>1. num_threads \in Nat /\ \A t \in Thread : t < num_threads
      BY <2>1, SizesAreNat DEF Thread
    <3> QED
      BY <3>1 DEF Inv, Started
  <2>3. pc[u] = "done"
    BY <2>2
  <2>4. \A t \in Thread : pc[t] = "done"
    BY <2>2, <2>3 DEF Inv, Barrier
  <2>5. PICK t \in Thread : r \in Rows(t)
    BY <2>1, Owner
  <2>6. C[r][c] = InOrder(Added(t, r, c)) /\ Added(t, r, c) = N
    BY <2>4, <2>5 DEF Inv, Sums, Added
  <2> QED
    BY <2>6
<1> QED
  BY <1>1, InvHolds, PTL
=============================================================================
