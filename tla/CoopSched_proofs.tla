-------------------------- MODULE CoopSched_proofs --------------------------
(***************************************************************************)
(* For every set of threads, penalties and granularities: penalties do not *)
(* add up, credit is bounded, and a spinner that had to wait for an active *)
(* thread waits for the whole penalty.                                     *)
(***************************************************************************)
EXTENDS CoopBench, WellFoundedInduction, TLAPS

\* What Bounds says of the running thread while nobody has asked for another:
\* it is not behind, or all others are behind it.
NotBehind(t) == lag[t] <= Slice \/ \A u \in on_rq : lag[t] <= lag[u]

Bounds ==
    /\ \A t \in Task : lag[t] >= -Threshold
    /\ \A t \in on_rq : lag[t] <= Slice + 1 + Penalty(t)
    /\ \A t \in Task \ on_rq : lag[t] <= Slice + 1
    /\ curr # NoTask => lag[curr] <= Slice + 1
    /\ curr # NoTask /\ ~need_resched => NotBehind(curr)
    /\ curr = NoTask => ~need_resched

Inv == TypeOK /\ Bounds

\* A set of integers that has a lower bound and is not empty has a least one.
LEMMA LeastExists ==
    ASSUME NEW S \in SUBSET Int, NEW b \in Nat, S # {}, \A x \in S : x >= -b
    PROVE  /\ Min(S) \in S
           /\ \A x \in S : Min(S) <= x
<1> DEFINE T == {n \in Nat : n - b \in S}
<1>1. T \subseteq Nat /\ T # {}
  <2>1. PICK x \in S : TRUE
    OBVIOUS
  <2>2. x + b \in T
    BY <2>1
  <2> QED
    BY <2>2
<1>2. PICK n \in T : \A k \in T : <<k, n>> \notin OpToRel(<, Nat)
  BY <1>1, WFMin, NatLessThanWellFounded, Zenon
<1>3. \A k \in T : ~(k < n)
  BY <1>2, Zenon DEF OpToRel
<1>4. n - b \in S /\ \A x \in S : n - b <= x
  <2>1. ASSUME NEW x \in S
        PROVE  n - b <= x
    <3>1. x + b \in T
      BY <2>1
    <3> QED
      BY <3>1, <1>3, <2>1
  <2> QED
    BY <2>1
<1> QED
  BY <1>4 DEF Min

\* update_min_vruntime moves all runnable threads by the same amount, none of
\* them forward, and afterwards one that is least is not ahead of everybody.
LEMMA RebasedFacts ==
    ASSUME NEW v \in [Task -> Int], NEW Q \in SUBSET Task, NEW w,
           w = Rebased(v, Q),
           \A t \in Task : v[t] >= -Threshold
    PROVE  /\ w \in [Task -> Int]
           /\ \A t \in Task : -Threshold <= w[t] /\ w[t] <= v[t]
           /\ \A t, u \in Q : w[t] - w[u] = v[t] - v[u]
           /\ Q # {} => \E u \in Q : w[u] <= 0 /\ \A t \in Q : w[u] <= w[t]
<1> DEFINE least == IF Q = {} THEN 0 ELSE Min({v[t] : t \in Q})
           up == IF least > 0 THEN least ELSE 0
<1> USE SchedAssumption
<1>1. w = [t \in Task |-> IF t \in Q \/ v[t] - up > -Threshold THEN v[t] - up
                          ELSE -Threshold]
  BY DEF Rebased
<1>2. CASE Q = {}
  <2>1. up = 0
    BY <1>2
  <2> HIDE DEF up
  <2> QED
    BY <1>1, <1>2, <2>1
<1>3. CASE Q # {}
  <2> DEFINE S == {v[t] : t \in Q}
  <2>1. S \in SUBSET Int /\ S # {} /\ \A x \in S : x >= -Threshold
    BY <1>3
  <2>2. Min(S) \in S /\ \A x \in S : Min(S) <= x
    <3> HIDE DEF S
    <3> QED
      BY <2>1, LeastExists
  <2>3. PICK u \in Q : least = v[u]
    BY <2>2, <1>3
  <2>4. \A t \in Q : v[u] <= v[t]
    BY <2>2, <2>3, <1>3
  <2>5. up \in Nat /\ v[u] <= up /\ (up = 0 \/ up = v[u])
    BY <2>3
  <2> HIDE DEF up, least, S
  <2>6. w \in [Task -> Int] /\ \A t \in Q : w[t] = v[t] - up
    BY <1>1, <2>5
  <2>7. \A t \in Task : -Threshold <= w[t] /\ w[t] <= v[t]
    BY <1>1, <2>4, <2>5
  <2>8. w[u] <= 0 /\ \A t \in Q : w[u] <= w[t]
    BY <2>4, <2>5, <2>6
  <2>9. \A t, r \in Q : w[t] - w[r] = v[t] - v[r]
    BY <2>5, <2>6
  <2> QED
    BY <2>6, <2>7, <2>8, <2>9
<1> QED
  BY <1>2, <1>3

LEMMA MaxOfTwo ==
    ASSUME NEW a \in Int, NEW b \in Int
    PROVE  Max({a, b}) \in {a, b} /\ Max({a, b}) >= a /\ Max({a, b}) >= b
<1>1. \E x \in {a, b} : \A y \in {a, b} : x >= y
  OBVIOUS
<1> QED
  BY <1>1 DEF Max

LEMMA PenaltiesAreNat == Penalties \cup {0} \subseteq Nat
BY SchedAssumption

LEMMA PenaltyType ==
    ASSUME TypeOK, NEW t \in Task
    PROVE  Penalty(t) \in Nat
<1>1. inactive_penalty[t] \in Penalties \cup {0}
  BY DEF TypeOK
<1>2. inactive_penalty[t] \in Nat
  BY <1>1, PenaltiesAreNat
<1> QED
  BY <1>2 DEF Penalty

------------------------------------------------------------------------------
(* The initial states, and one lemma for each action *)

LEMMA InitInv == Init => Inv
<1> SUFFICES ASSUME Init PROVE Inv
  OBVIOUS
<1> USE SchedAssumption
<1>1. TypeOK
  <2>1. inactive \in [Task -> BOOLEAN]
    BY DEF Init
  <2>2. inactive_penalty \in [Task -> Penalties \cup {0}]
    BY DEF Init
  <2>3. lag \in [Task -> Int]
    BY DEF Init
  <2>4. ran \in 0 .. Slice
    BY DEF Init
  <2> QED
    BY <2>1, <2>2, <2>3, <2>4 DEF Init, TypeOK
<1>2. /\ \A t \in Task : lag[t] = 0
      /\ on_rq = {} /\ curr = NoTask /\ ~need_resched
  BY DEF Init
<1>3. Bounds
  BY <1>2 DEF Bounds
<1> QED
  BY <1>1, <1>3 DEF Inv

LEMMA FlagSteps ==
    ASSUME Inv, Deactivate \/ Reactivate
    PROVE  Inv'
<1> USE SchedAssumption
<1>1. CASE Deactivate
  <2>1. TypeOK'
    BY <1>1 DEF Inv, TypeOK, Deactivate
  <2>2. \A t \in Task \ {curr} : Penalty(t)' = Penalty(t)
    BY <1>1 DEF Inv, TypeOK, Deactivate, Penalty
  <2>3. Penalty(curr) = 0 /\ Penalty(curr)' \in Nat /\ curr \in Task
    <3>1. \A t \in Task : Penalty(t)' \in Nat
      <4>1. \A t \in Task : inactive_penalty'[t] \in Penalties \cup {0}
        BY <2>1 DEF TypeOK
      <4>2. \A t \in Task : inactive_penalty'[t] \in Nat
        BY <4>1, PenaltiesAreNat
      <4> QED
        BY <4>2 DEF Penalty
    <3> QED
      BY <1>1, <3>1 DEF Inv, TypeOK, Deactivate, Penalty
  <2>4. Bounds'
    BY <1>1, <2>2, <2>3 DEF Inv, TypeOK, Bounds, NotBehind, Deactivate
  <2> QED
    BY <2>1, <2>4 DEF Inv
<1>2. CASE Reactivate
  <2>1. TypeOK'
    BY <1>2 DEF Inv, TypeOK, Reactivate
  <2>2. \A t \in Task \ {curr} : Penalty(t)' = Penalty(t)
    BY <1>2 DEF Inv, TypeOK, Reactivate, Penalty
  <2>3. Penalty(curr)' = 0 /\ lag'[curr] = 0 /\ curr \in Task
    BY <1>2 DEF Inv, TypeOK, Reactivate, Penalty
  <2>4. Bounds'
    BY <1>2, <2>2, <2>3 DEF Inv, TypeOK, Bounds, NotBehind, Reactivate
  <2> QED
    BY <2>1, <2>4 DEF Inv
<1> QED
  BY <1>1, <1>2

LEMMA TickStep ==
    ASSUME Inv, Tick
    PROVE  Inv'
<1> DEFINE v == [lag EXCEPT ![curr] = @ + 1]
           w == Rebased(v, on_rq)
<1> USE SchedAssumption
<1>1. curr \in on_rq /\ on_rq \in SUBSET Task /\ v \in [Task -> Int]
      /\ v[curr] = lag[curr] + 1 /\ \A t \in Task \ {curr} : v[t] = lag[t]
  BY DEF Inv, TypeOK, Tick
<1>2. \A t \in Task : v[t] >= -Threshold
  BY <1>1 DEF Inv, TypeOK, Bounds
<1>3. lag' = w /\ UNCHANGED <<inactive, inactive_penalty, on_rq, curr>>
  BY DEF Tick, flagVars
<1> HIDE DEF v, w
<1>4. /\ w \in [Task -> Int]
      /\ \A t \in Task : -Threshold <= w[t] /\ w[t] <= v[t]
      /\ \A t, u \in on_rq : w[t] - w[u] = v[t] - v[u]
  BY <1>1, <1>2, RebasedFacts DEF w
<1>5. PICK u \in on_rq : w[u] <= 0 /\ \A t \in on_rq : w[u] <= w[t]
  BY <1>1, <1>2, RebasedFacts DEF w
<1>6. ~need_resched' => v[curr] - v[u] <= Slice
  <2>1. (\E t \in on_rq : v[curr] - v[t] > Slice) => need_resched'
    BY DEF Tick, v
  <2>2. v[curr] \in Int /\ v[u] \in Int
    BY <1>1, <1>5
  <2> QED
    BY <2>1, <2>2, <1>5
<1>7. TypeOK'
  <2>1. need_resched' \in BOOLEAN
    BY DEF Tick
  <2>2. ran' \in 0 .. Slice
    BY DEF Tick, Inv, TypeOK
  <2> QED
    BY <1>3, <1>4, <2>1, <2>2 DEF Inv, TypeOK
<1>8. w[curr] <= Slice + 1
  <2>1. CASE lag[curr] <= Slice
    BY <1>1, <1>4, <2>1 DEF Inv, TypeOK
  <2>2. CASE lag[curr] <= lag[u]
    <3>1. v[curr] - v[u] <= 1
      BY <1>1, <1>5, <2>2 DEF Inv, TypeOK
    <3>2. w[curr] - w[u] <= 1
      BY <1>1, <1>4, <1>5, <3>1
    <3> QED
      BY <1>1, <1>4, <1>5, <3>2
  <2>3. NotBehind(curr)
    BY DEF Inv, Bounds, Tick
  <2> QED
    BY <2>1, <2>2, <2>3, <1>5 DEF NotBehind
<1>9. \A t \in Task : Penalty(t)' = Penalty(t) /\ Penalty(t) \in Nat
  BY <1>3, PenaltyType DEF Penalty, Inv
<1>10. ~need_resched' => w[curr] <= Slice
  <2>1. w[curr] = v[curr] - v[u] + w[u]
    BY <1>1, <1>4, <1>5
  <2> QED
    BY <2>1, <1>1, <1>4, <1>5, <1>6
<1>11. \A t \in on_rq : w[t] <= Slice + 1 + Penalty(t)
  BY <1>1, <1>4, <1>8, <1>9 DEF Inv, TypeOK, Bounds
<1>12. \A t \in Task \ on_rq : w[t] <= Slice + 1
  BY <1>1, <1>4 DEF Inv, TypeOK, Bounds
<1>13. Bounds'
  BY <1>1, <1>3, <1>4, <1>8, <1>9, <1>10, <1>11, <1>12
  DEF Bounds, NotBehind, Tick
<1> QED
  BY <1>7, <1>13 DEF Inv

LEMMA ScheduleStep ==
    ASSUME Inv, Schedule
    PROVE  Inv'
<1> DEFINE w == Rebased(lag, on_rq)
<1> USE SchedAssumption
<1>1. curr \in on_rq /\ on_rq \in SUBSET Task /\ curr # NoTask
  BY DEF Inv, TypeOK, Bounds, Schedule
<1>2. UNCHANGED <<inactive, inactive_penalty, on_rq>> /\ need_resched' = FALSE
  BY DEF Schedule, flagVars
<1>3. /\ w \in [Task -> Int]
      /\ \A t \in Task : -Threshold <= w[t] /\ w[t] <= lag[t]
  BY RebasedFacts DEF Inv, TypeOK, Bounds
<1>4. \A t \in Task : Penalty(t)' = Penalty(t) /\ Penalty(t) \in Nat
  BY <1>2, PenaltyType DEF Penalty, Inv
<1>5. w[curr] <= Slice + 1
  BY <1>1, <1>3 DEF Inv, TypeOK, Bounds
<1>6. CASE /\ \A t \in on_rq \ {curr} : w[curr] < w[t]
           /\ lag' = w
           /\ UNCHANGED <<curr, ran>>
  <2> HIDE DEF w
  <2>1. TypeOK'
    BY <1>2, <1>3, <1>6 DEF Inv, TypeOK
  <2>2. NotBehind(curr)'
    BY <1>1, <1>2, <1>3, <1>6 DEF NotBehind
  <2>3. Bounds'
    BY <1>1, <1>2, <1>3, <1>4, <1>5, <1>6, <2>2 DEF Inv, TypeOK, Bounds
  <2> QED
    BY <2>1, <2>3 DEF Inv
<1>7. ASSUME NEW t \in Leftmost(w, on_rq \ {curr}),
             w[t] <= w[curr], curr' = t, ran' = 0,
             lag' = [w EXCEPT ![curr] = @ + Penalty(curr)]
      PROVE  Inv'
  <2> HIDE DEF w
  <2>1. t \in on_rq /\ t # curr /\ \A u \in on_rq : w[t] <= w[u]
    BY <1>1, <1>7 DEF Leftmost
  <2>2. /\ lag' \in [Task -> Int]
        /\ lag'[curr] = w[curr] + Penalty(curr)
        /\ \A u \in Task \ {curr} : lag'[u] = w[u]
    BY <1>1, <1>3, <1>4, <1>7
  <2>3. TypeOK'
    <3>1. /\ curr' \in Task \cup {NoTask}
          /\ curr' # NoTask /\ on_rq # {} /\ curr' \in on_rq
      BY <1>1, <1>7, <2>1
    <3>2. ran' \in 0 .. Slice
      BY <1>7
    <3> QED
      BY <1>2, <2>2, <3>1, <3>2 DEF Inv, TypeOK
  <2>4. \A u \in Task : lag'[u] >= w[u]
    BY <1>1, <1>3, <1>4, <2>2
  <2>5. NotBehind(t)'
    BY <1>1, <1>2, <1>3, <2>1, <2>2, <2>4, <2>3 DEF NotBehind, TypeOK
  <2>6. lag'[t] <= Slice + 1
    BY <1>1, <1>3, <1>5, <1>7, <2>1, <2>2
  <2>7. \A u \in on_rq : lag'[u] <= Slice + 1 + Penalty(u)
    BY <1>1, <1>3, <1>4, <1>5, <2>2 DEF Inv, TypeOK, Bounds
  <2>8. \A u \in Task \ on_rq : lag'[u] <= Slice + 1
    BY <1>1, <1>3, <2>2 DEF Inv, TypeOK, Bounds
  <2>9. \A u \in Task : lag'[u] >= -Threshold
    BY <1>3, <2>3, <2>4 DEF TypeOK
  <2>10. t # NoTask
    BY <1>1, <2>1
  <2>11. Bounds'
    BY <1>2, <1>4, <1>1, <1>7, <2>5, <2>6, <2>7, <2>8, <2>9, <2>10
    DEF Bounds, NotBehind
  <2> QED
    BY <2>3, <2>11 DEF Inv
<1> QED
  BY <1>6, <1>7 DEF Schedule

LEMMA SleepStep ==
    ASSUME Inv, Sleep
    PROVE  Inv'
<1> DEFINE Q == on_rq \ {curr}
           w == Rebased(lag, Q)
<1> USE SchedAssumption
<1>1. /\ curr \in on_rq /\ Q \in SUBSET Task /\ Q \subseteq on_rq
      /\ \A t \in Task \ Q : t = curr \/ t \in Task \ on_rq
  BY DEF Inv, TypeOK, Sleep
<1>2. /\ lag' = w /\ on_rq' = Q /\ ran' = 0 /\ need_resched' = FALSE
      /\ UNCHANGED <<inactive, inactive_penalty>>
      /\ IF Q = {} THEN curr' = NoTask ELSE curr' \in Leftmost(w, Q)
  BY DEF Sleep, flagVars
<1>3. /\ w \in [Task -> Int]
      /\ \A t \in Task : -Threshold <= w[t] /\ w[t] <= lag[t]
      /\ Q # {} => \E u \in Q : w[u] <= 0 /\ \A t \in Q : w[u] <= w[t]
  <2> HIDE DEF Q
  <2>1. lag \in [Task -> Int] /\ \A t \in Task : lag[t] >= -Threshold
    BY DEF Inv, TypeOK, Bounds
  <2> QED
    BY <1>1, <2>1, RebasedFacts
<1> HIDE DEF w, Q
<1>4. \A t \in Task : Penalty(t)' = Penalty(t) /\ Penalty(t) \in Nat
  BY <1>2, PenaltyType DEF Penalty, Inv
<1>5. \A t \in Q : w[t] <= Slice + 1 + Penalty(t)
  BY <1>3, <1>4, <1>1 DEF Inv, TypeOK, Bounds
<1>6. \A t \in Task \ Q : w[t] <= Slice + 1
  BY <1>1, <1>3 DEF Inv, TypeOK, Bounds
<1>7. CASE Q = {}
  <2>1. TypeOK'
    <3>1. ran' \in 0 .. Slice
      BY <1>2
    <3> QED
      BY <1>2, <1>3, <1>7, <3>1 DEF Inv, TypeOK
  <2>2. Bounds'
    BY <1>2, <1>3, <1>4, <1>5, <1>6, <1>7 DEF Bounds
  <2> QED
    BY <2>1, <2>2 DEF Inv
<1>8. CASE Q # {}
  <2>1. curr' \in Q /\ curr' # NoTask /\ \A t \in Q : w[curr'] <= w[t]
    BY <1>1, <1>2, <1>8 DEF Leftmost
  <2>2. w[curr'] <= 0
    BY <1>1, <1>3, <1>8, <2>1
  <2>3. TypeOK'
    <3>1. ran' \in 0 .. Slice
      BY <1>2
    <3> QED
      BY <1>1, <1>2, <1>3, <2>1, <3>1 DEF Inv, TypeOK
  <2>4. w[curr'] <= Slice + 1
    BY <1>1, <1>3, <2>1, <2>2
  <2>5. NotBehind(curr)'
    BY <1>2, <2>1 DEF NotBehind
  <2>6. \A t \in Q : w[t] <= Slice + 1 + Penalty(t)'
    BY <1>1, <1>4, <1>5
  <2>7. Bounds'
    BY <1>2, <1>3, <1>6, <2>1, <2>4, <2>5, <2>6, Zenon DEF Bounds
  <2> QED
    BY <2>3, <2>7 DEF Inv
<1> QED
  BY <1>7, <1>8

LEMMA ForkStep ==
    ASSUME Inv, NEW t \in Task, Fork(t)
    PROVE  Inv'
<1> DEFINE m == Max({lag[curr], Slice})
<1> USE SchedAssumption
<1>1. /\ curr \in on_rq /\ curr \in Task /\ on_rq \subseteq Task
      /\ t \notin on_rq /\ t # curr /\ curr # NoTask
      /\ lag' = [lag EXCEPT ![t] = m] /\ on_rq' = on_rq \cup {t}
      /\ inactive' = [inactive EXCEPT ![t] = inactive[curr]]
      /\ inactive_penalty' = [inactive_penalty EXCEPT ![t] = inactive_penalty[curr]]
      /\ UNCHANGED <<curr, ran>>
  BY DEF Inv, TypeOK, Fork
<1>2. /\ lag \in [Task -> Int]
      /\ lag[curr] <= Slice + 1 /\ \A u \in Task : lag[u] >= -Threshold
  BY <1>1 DEF Inv, TypeOK, Bounds
<1>3. m \in Int /\ lag[curr] <= m /\ m <= Slice + 1 /\ m >= -Threshold
  <2>1. lag[curr] \in Int /\ Slice \in Int
    BY <1>1, <1>2
  <2>2. m \in {lag[curr], Slice} /\ m >= lag[curr] /\ m >= Slice
    BY <2>1, MaxOfTwo, Zenon
  <2> HIDE DEF m
  <2> QED
    BY <2>1, <2>2, <1>2
<1> HIDE DEF m
<1>4. lag' \in [Task -> Int] /\ lag'[t] = m /\ \A u \in Task \ {t} : lag'[u] = lag[u]
  BY <1>1, <1>2, <1>3
<1>5. TypeOK'
  <2>1. need_resched' \in BOOLEAN
    BY DEF Fork, Inv, TypeOK
  <2>2. inactive' \in [Task -> BOOLEAN]
    BY <1>1 DEF Inv, TypeOK
  <2>3. inactive_penalty' \in [Task -> Penalties \cup {0}]
    BY <1>1 DEF Inv, TypeOK
  <2> QED
    BY <1>1, <1>4, <2>1, <2>2, <2>3 DEF Inv, TypeOK
<1>6. \A u \in Task : Penalty(u) \in Nat /\ Penalty(u)' \in Nat
  <2>1. \A u \in Task : inactive_penalty'[u] \in Penalties \cup {0}
    BY <1>5 DEF TypeOK
  <2>2. \A u \in Task : inactive_penalty'[u] \in Nat
    BY <2>1, PenaltiesAreNat
  <2> QED
    BY <2>2, PenaltyType DEF Inv, Penalty
<1>7. \A u \in Task \ {t} : Penalty(u)' = Penalty(u)
  BY <1>1 DEF Penalty, Inv, TypeOK
<1>8. \A u \in on_rq \cup {t} : lag'[u] <= Slice + 1 + Penalty(u)'
  <2>1. ASSUME NEW u \in on_rq
        PROVE  lag'[u] <= Slice + 1 + Penalty(u)'
    BY <1>1, <1>4, <1>7, <2>1 DEF Inv, Bounds
  <2>2. lag'[t] <= Slice + 1 + Penalty(t)'
    BY <1>3, <1>4, <1>6
  <2> QED
    BY <2>1, <2>2
<1>9. \A u \in Task \ (on_rq \cup {t}) : lag'[u] <= Slice + 1
  BY <1>4 DEF Inv, Bounds
<1>10. \A u \in Task : lag'[u] >= -Threshold
  BY <1>2, <1>3, <1>4
<1>11. ~need_resched' => NotBehind(curr)'
  <2>1. SUFFICES ASSUME ~need_resched PROVE NotBehind(curr)'
    BY DEF Fork
  <2>2. NotBehind(curr)
    BY <1>1, <2>1 DEF Inv, Bounds
  <2> QED
    BY <1>1, <1>2, <1>3, <1>4, <2>2 DEF NotBehind
<1>12. Bounds'
  BY <1>1, <1>2, <1>4, <1>8, <1>9, <1>10, <1>11 DEF Bounds
<1> QED
  BY <1>5, <1>12 DEF Inv

LEMMA WakeStep ==
    ASSUME Inv, NEW t \in Task, Wake(t)
    PROVE  Inv'
<1> DEFINE w == Rebased(lag, on_rq)
<1> USE SchedAssumption
<1>1. /\ on_rq \in SUBSET Task /\ t \notin on_rq /\ t # NoTask
      /\ lag' = w /\ on_rq' = on_rq \cup {t}
      /\ UNCHANGED <<inactive, inactive_penalty, ran>>
  BY DEF Inv, TypeOK, Wake, flagVars
<1>2. /\ w \in [Task -> Int]
      /\ \A u \in Task : -Threshold <= w[u] /\ w[u] <= lag[u]
      /\ \A u, x \in on_rq : w[u] - w[x] = lag[u] - lag[x]
      /\ on_rq # {} => \E u \in on_rq : w[u] <= 0 /\ \A x \in on_rq : w[u] <= w[x]
  BY RebasedFacts DEF Inv, TypeOK, Bounds
<1>3. \A u \in Task : Penalty(u)' = Penalty(u) /\ Penalty(u) \in Nat
  BY <1>1, PenaltyType DEF Penalty, Inv
<1>4. \A u \in on_rq \cup {t} : w[u] <= Slice + 1 + Penalty(u)
  BY <1>1, <1>2, <1>3 DEF Inv, TypeOK, Bounds
<1>5. \A u \in Task \ on_rq : w[u] <= Slice + 1
  BY <1>2 DEF Inv, TypeOK, Bounds
<1> HIDE DEF w
<1>6. CASE curr = NoTask /\ curr' = t /\ UNCHANGED need_resched
  <2>1. on_rq = {}
    BY <1>6 DEF Inv, TypeOK
  <2>2. TypeOK'
    BY <1>1, <1>2, <1>6 DEF Inv, TypeOK
  <2>3. NotBehind(t)'
    BY <1>1, <1>2, <2>1 DEF NotBehind
  <2>4. Bounds'
    BY <1>1, <1>2, <1>3, <1>4, <1>5, <1>6, <2>1, <2>3 DEF Bounds, NotBehind
  <2> QED
    BY <2>2, <2>4 DEF Inv
<1>7. CASE /\ curr # NoTask /\ UNCHANGED curr
           /\ need_resched' = (need_resched \/ lag'[curr] - lag'[t] > Granularity)
  <2>1. curr \in on_rq /\ curr \in Task
    BY <1>7 DEF Inv, TypeOK
  <2>2. TypeOK'
    <3>1. need_resched' \in BOOLEAN
      BY <1>7
    <3> QED
      BY <1>1, <1>2, <1>7, <2>1, <3>1 DEF Inv, TypeOK
  <2>3. w[curr] <= Slice + 1
    BY <1>2, <2>1 DEF Inv, TypeOK, Bounds
  <2>4. ~need_resched' => w[curr] <= Slice
    <3>1. SUFFICES ASSUME ~need_resched PROVE w[curr] <= Slice
      BY <1>7
    <3>2. CASE lag[curr] <= Slice
      BY <1>2, <2>1, <3>2 DEF Inv, TypeOK
    <3>3. CASE \A u \in on_rq : lag[curr] <= lag[u]
      <4>1. PICK u \in on_rq : w[u] <= 0
        BY <1>2, <2>1
      <4>2. w[curr] - w[u] <= 0
        BY <1>1, <1>2, <2>1, <3>3 DEF Inv, TypeOK
      <4> QED
        BY <1>1, <1>2, <2>1, <4>1, <4>2
    <3> QED
      BY <1>7, <3>1, <3>2, <3>3 DEF Inv, Bounds, NotBehind
  <2>5. Bounds'
    BY <1>1, <1>2, <1>3, <1>4, <1>5, <1>7, <2>1, <2>3, <2>4
    DEF Bounds, NotBehind
  <2> QED
    BY <2>2, <2>5 DEF Inv
<1> QED
  BY <1>6, <1>7 DEF Wake, w
------------------------------------------------------------------------------
(* The theorems *)

LEMMA NextInv == Inv /\ [Next]_vars => Inv'
<1> SUFFICES ASSUME Inv, [Next]_vars
             PROVE  Inv'
  OBVIOUS
<1>1. CASE Deactivate \/ Reactivate
  BY <1>1, FlagSteps
<1>2. CASE Tick
  BY <1>2, TickStep
<1>3. CASE Schedule
  BY <1>3, ScheduleStep
<1>4. CASE Sleep
  BY <1>4, SleepStep
<1>5. ASSUME NEW t \in Task, Wake(t)
      PROVE  Inv'
  BY <1>5, WakeStep
<1>6. ASSUME NEW t \in Task, Fork(t)
      PROVE  Inv'
  BY <1>6, ForkStep
<1>7. CASE UNCHANGED vars
  BY <1>7 DEF vars, flagVars, Inv, TypeOK, Bounds, NotBehind, Penalty
<1> QED
  BY <1>1, <1>2, <1>3, <1>4, <1>5, <1>6, <1>7 DEF Next

LEMMA SpecInv == Spec => []Inv
BY InitInv, NextInv, PTL DEF Spec

\* The state of cooperative_sched.patch keeps its type, and the scheduler always
\* has a thread to run when one is runnable.
THEOREM TypeCorrect == Spec => []TypeOK
<1>1. Inv => TypeOK
  BY DEF Inv
<1> QED
  BY <1>1, SpecInv, PTL

\* However many threads there are and whatever penalties they ask for, a thread
\* is never further ahead of the others than a sleeper is put on waking up.
THEOREM CreditBounded == Spec => []CreditIsBounded
<1>1. Inv => CreditIsBounded
  BY DEF Inv, TypeOK, Bounds, CreditIsBounded
<1> QED
  BY <1>1, SpecInv, PTL

\* However many threads there are and whatever penalties they ask for, a thread
\* has never more than one penalty to pay off, and none when it runs.
THEOREM PenaltiesBounded == Spec => []PenaltiesDoNotAddUp
<1>1. Inv => PenaltiesDoNotAddUp
  BY DEF Inv, Bounds, PenaltiesDoNotAddUp, Penalty
<1> QED
  BY <1>1, SpecInv, PTL
------------------------------------------------------------------------------
(* The programs of CoopBench *)

LEMMA GreatestPenalty ==
    Max(Penalties) \in Nat /\ \A p \in Penalties : p <= Max(Penalties)
<1>1. PICK m \in Penalties : \A p \in Penalties : p <= m
  BY CoopBenchAssumption
<1>2. \A p \in Penalties : p \in Int
  BY SchedAssumption
<1>3. \E x \in Penalties : \A y \in Penalties : x >= y
  BY <1>1, <1>2
<1>4. Max(Penalties) \in Penalties /\ \A y \in Penalties : Max(Penalties) >= y
  BY <1>3 DEF Max
<1> QED
  BY <1>4, <1>2, SchedAssumption

\* As long as the spinner has a rival both are runnable, the rival is active, and
\* the spinner is behind it by what it has not yet waited of its penalty.
Rivalry ==
    rival # NoTask =>
        /\ rival \in on_rq /\ ~inactive[rival] /\ rival # Spinner
        /\ Spinner \in on_rq /\ curr # Spinner
        /\ \/ rival_ran >= inactive_penalty[Spinner]
           \/ lag[Spinner] - lag[rival] >= inactive_penalty[Spinner] - rival_ran

BenchInv == Inv /\ BenchTypeOK /\ Rivalry

\* A step of the programs is one of the scheduler's that Watch sees, a tick, or
\* none that the scheduler sees.
WatchedStep ==
    Watch /\ \/ Deactivate \/ Reactivate \/ Schedule \/ Sleep
             \/ \E t \in Task : Wake(t) \/ Fork(t)

LEMMA BenchSteps ==
    ASSUME [BenchNext]_allVars
    PROVE  WatchedStep \/ WatchedTick \/ UNCHANGED <<vars, rival, rival_ran>>
<1>1. CASE spin_thread \/ thread_func \/ CreateSpinner
  BY <1>1, CoopBenchAssumption
  DEF spin_thread, thread_func, CreateSpinner, MarkInactive, SeeStopFlag, ExitSpinner,
      WakeWorker, WaitAtBarrier, FinishWork, ExitWorker, Beside, WatchedStep
<1>2. CASE sigterm_handler \/ StopPolling \/ JoinSpinner \/ UNCHANGED allVars
  BY <1>2 DEF sigterm_handler, StopPolling, JoinSpinner, allVars
<1>3. CASE WatchedTick \/ Beside(Schedule)
  BY <1>3 DEF Beside, WatchedStep
<1>4. CASE \/ curr # NoTask /\ AsItLikes(curr) /\ Beside(Deactivate \/ Reactivate \/ Sleep)
           \/ \E t \in Task : AsItLikes(t) /\ Beside(Wake(t) \/ Fork(t))
  BY <1>4 DEF Beside, WatchedStep
<1> QED
  BY <1>1, <1>2, <1>3, <1>4 DEF BenchNext

\* The programs are threads of CoopSched.
LEMMA BenchIsSched ==
    ASSUME [BenchNext]_allVars
    PROVE  [Next]_vars
BY BenchSteps DEF WatchedStep, WatchedTick, Next

LEMMA BenchTypesStep ==
    ASSUME BenchInv, Inv', [BenchNext]_allVars
    PROVE  BenchTypeOK'
<1>1. TypeOK' /\ TypeOK
  BY DEF Inv, BenchInv
<1>2. /\ program' \in {"bench", "any"}
      /\ spin' \in {"none", "start", "spin", "end", "gone"}
      /\ work' \in {"none", "compute", "end", "gone"}
      /\ main' \in {"create", "poll", "join", "done"}
      /\ stop_flag' \in BOOLEAN
  BY DEF BenchInv, BenchTypeOK, BenchNext, allVars, codeVars, spin_thread, thread_func,
         MarkInactive, SeeStopFlag, ExitSpinner, WakeWorker, WaitAtBarrier, FinishWork,
         ExitWorker, CreateSpinner, sigterm_handler, StopPolling, JoinSpinner,
         WatchedTick, Beside
<1>3. /\ rival \in Task \cup {NoTask} /\ rival_ran \in 0 .. Max(Penalties)
      /\ Max(Penalties) \in Nat
  BY GreatestPenalty DEF BenchInv, BenchTypeOK
<1>4. rival' \in Task \cup {NoTask} /\ rival_ran' \in 0 .. Max(Penalties)
  <2>1. CASE WatchedTick
    BY <1>3, <2>1 DEF WatchedTick
  <2>2. CASE Watch
    BY <1>1, <1>3, <2>2 DEF Watch, TypeOK
  <2> QED
    BY <1>3, <2>1, <2>2, BenchSteps DEF WatchedStep
<1> QED
  BY <1>1, <1>2, <1>4 DEF BenchTypeOK

\* update_min_vruntime keeps the distance of two runnable threads.
LEMMA SameDistance ==
    ASSUME Inv, NEW Q \in SUBSET on_rq, NEW a \in Q, NEW b \in Q,
           NEW v, v = Rebased(lag, Q)
    PROVE  /\ v[a] - v[b] = lag[a] - lag[b]
           /\ v \in [Task -> Int]
<1>1. Q \in SUBSET Task /\ lag \in [Task -> Int] /\ \A t \in Task : lag[t] >= -Threshold
  BY DEF Inv, TypeOK, Bounds
<1> QED
  BY <1>1, RebasedFacts
\* Who is picked by pick_next_task_fair is behind nobody that is runnable, and
\* the thread that is put back has paid.
LEMMA Picked ==
    ASSUME Inv, Schedule, curr' # curr
    PROVE  LET v == Rebased(lag, on_rq)
           IN  /\ curr \in on_rq /\ curr' \in on_rq /\ \A t \in on_rq : v[curr'] <= v[t]
               /\ lag' = [v EXCEPT ![curr] = @ + Penalty(curr)]
               /\ v \in [Task -> Int]
<1> DEFINE v == Rebased(lag, on_rq)
<1>1. /\ curr \in on_rq /\ on_rq \in SUBSET Task /\ lag \in [Task -> Int]
      /\ \A t \in Task : lag[t] >= -Threshold
  BY DEF Inv, TypeOK, Bounds, Schedule
<1>2. v \in [Task -> Int]
  BY <1>1, RebasedFacts
<1>3. PICK t \in Leftmost(v, on_rq \ {curr}) :
         v[t] <= v[curr] /\ curr' = t /\ lag' = [v EXCEPT ![curr] = @ + Penalty(curr)]
  BY DEF Schedule
<1> HIDE DEF v
<1>4. t \in on_rq /\ \A u \in on_rq : v[t] <= v[u]
  BY <1>3 DEF Leftmost
<1> QED
  BY <1>1, <1>2, <1>3, <1>4 DEF v

\* The spinner gets a rival when it is put back behind it.
LEMMA RivalryBegins ==
    ASSUME BenchInv, WatchedStep, curr = Spinner, Spinner \in on_rq', inactive[Spinner],
           curr' # Spinner, ~inactive[curr'], rival' = curr', rival_ran' = 0
    PROVE  Rivalry'
<1>1. Spinner \in Task /\ Spinner # NoTask /\ Inv
  BY CoopBenchAssumption, SchedAssumption DEF BenchInv
<1>2. Schedule
  BY <1>1 DEF WatchedStep, Deactivate, Reactivate, Sleep, Wake, Fork
<1> DEFINE v == Rebased(lag, on_rq)
<1>3. /\ Spinner \in on_rq /\ curr' \in on_rq /\ v[curr'] <= v[Spinner]
      /\ lag' = [v EXCEPT ![Spinner] = @ + Penalty(Spinner)]
      /\ v \in [Task -> Int]
  BY <1>1, <1>2, Picked
<1>4. on_rq' = on_rq /\ inactive' = inactive /\ inactive_penalty' = inactive_penalty
  BY <1>2 DEF Schedule, flagVars
<1>5. Penalty(Spinner) = inactive_penalty[Spinner] /\ Penalty(Spinner) \in Nat
  BY <1>1, PenaltyType DEF Penalty, Inv
<1> HIDE DEF v
<1>6. curr' \in Task
  BY <1>1, <1>3 DEF Inv, TypeOK
<1>7. lag'[Spinner] - lag'[curr'] >= inactive_penalty[Spinner]
  BY <1>1, <1>3, <1>5, <1>6
<1> QED
  BY <1>3, <1>4, <1>5, <1>7 DEF Rivalry

\* While it has one, no step of the scheduler brings it nearer to the rival.
LEMMA RivalryLasts ==
    ASSUME BenchInv, WatchedStep, rival # NoTask, curr' # Spinner,
           rival \in on_rq', ~inactive'[rival]
    PROVE  /\ Spinner \in on_rq' /\ inactive_penalty'[Spinner] = inactive_penalty[Spinner]
           /\ lag'[Spinner] - lag'[rival] = lag[Spinner] - lag[rival]
<1>1. /\ Inv /\ rival \in on_rq /\ ~inactive[rival] /\ rival # Spinner
      /\ Spinner \in on_rq /\ curr # Spinner
      /\ rival \in Task /\ Spinner \in Task
      /\ on_rq \in SUBSET Task /\ lag \in [Task -> Int]
      /\ inactive_penalty \in [Task -> Penalties \cup {0}]
  BY DEF BenchInv, Rivalry, Inv, TypeOK
<1>2. CASE Deactivate \/ Reactivate
  BY <1>1, <1>2 DEF Deactivate, Reactivate
<1> DEFINE v == Rebased(lag, on_rq)
<1>3. /\ v[Spinner] - v[rival] = lag[Spinner] - lag[rival]
      /\ v \in [Task -> Int]
  BY <1>1, SameDistance
<1>4. CASE Schedule
  <2>1. UNCHANGED <<on_rq, inactive_penalty>>
    BY <1>4 DEF Schedule, flagVars
  <2>2. CASE curr' = curr
    <3>1. lag' = v
      BY <1>4, <2>2 DEF Schedule, Leftmost
    <3> QED
      BY <1>1, <1>3, <2>1, <3>1
  <2>3. CASE curr' # curr
    <3>1. curr \in on_rq /\ lag' = [v EXCEPT ![curr] = @ + Penalty(curr)]
      BY <1>1, <1>4, <2>3, Picked
    <3>2. curr = rival => Penalty(curr) = 0
      BY <1>1 DEF Penalty
    <3> HIDE DEF v
    <3>3. lag'[Spinner] = v[Spinner] /\ lag'[rival] = v[rival]
      BY <1>1, <1>3, <3>1, <3>2
    <3> QED
      BY <1>1, <1>3, <2>1, <3>3
  <2> QED
    BY <2>2, <2>3
<1>5. CASE Sleep
  <2> DEFINE Q == on_rq \ {curr}
             x == Rebased(lag, Q)
  <2>1. lag' = x /\ on_rq' = Q /\ inactive_penalty' = inactive_penalty
    BY <1>5 DEF Sleep, flagVars
  <2>2. Spinner \in Q /\ rival \in Q /\ Q \in SUBSET on_rq
    BY <1>1, <2>1
  <2> HIDE DEF Q
  <2>3. x[Spinner] - x[rival] = lag[Spinner] - lag[rival]
    BY <1>1, <2>2, SameDistance
  <2> QED
    BY <2>1, <2>2, <2>3
<1>6. ASSUME NEW t \in Task, Wake(t)
      PROVE  /\ Spinner \in on_rq' /\ inactive_penalty'[Spinner] = inactive_penalty[Spinner]
             /\ lag'[Spinner] - lag'[rival] = lag[Spinner] - lag[rival]
  <2>1. lag' = v /\ on_rq' = on_rq \cup {t} /\ inactive_penalty' = inactive_penalty
    BY <1>6 DEF Wake, flagVars
  <2> QED
    BY <1>1, <1>3, <2>1
<1>7. ASSUME NEW t \in Task, Fork(t)
      PROVE  /\ Spinner \in on_rq' /\ inactive_penalty'[Spinner] = inactive_penalty[Spinner]
             /\ lag'[Spinner] - lag'[rival] = lag[Spinner] - lag[rival]
  <2>1. /\ t \notin on_rq /\ on_rq' = on_rq \cup {t}
        /\ inactive_penalty' = [inactive_penalty EXCEPT ![t] = inactive_penalty[curr]]
        /\ \E m : lag' = [lag EXCEPT ![t] = m]
    BY <1>7 DEF Fork
  <2>2. t # Spinner /\ t # rival
    BY <1>1, <2>1
  <2> QED
    BY <1>1, <2>1, <2>2
<1> QED
  BY <1>2, <1>4, <1>5, <1>6, <1>7 DEF WatchedStep

\* A tick brings the spinner nearer to its rival by one only if the rival runs.
LEMMA RivalryTicks ==
    ASSUME BenchInv, WatchedTick
    PROVE  Rivalry'
<1>1. /\ Inv /\ rival' = rival /\ Tick
      /\ UNCHANGED <<inactive, inactive_penalty, on_rq, curr>>
  BY DEF BenchInv, WatchedTick, Tick, flagVars
<1>2. CASE rival = NoTask
  BY <1>1, <1>2 DEF Rivalry
<1>3. CASE rival # NoTask
  <2>1. /\ rival \in on_rq /\ ~inactive[rival] /\ rival # Spinner
        /\ Spinner \in on_rq /\ curr # Spinner /\ rival \in Task /\ Spinner \in Task
        /\ curr \in Task /\ on_rq \in SUBSET Task /\ lag \in [Task -> Int]
        /\ \/ rival_ran >= inactive_penalty[Spinner]
           \/ lag[Spinner] - lag[rival] >= inactive_penalty[Spinner] - rival_ran
        /\ \A t \in Task : lag[t] >= -Threshold
    BY <1>1, <1>3 DEF BenchInv, Rivalry, Inv, TypeOK, Bounds, Tick
  <2>2. /\ rival_ran \in Nat /\ Max(Penalties) \in Nat
        /\ inactive_penalty[Spinner] \in Nat
        /\ inactive_penalty[Spinner] <= Max(Penalties)
    <3>1. inactive_penalty[Spinner] \in Penalties \cup {0}
      BY <1>1, <2>1 DEF Inv, TypeOK
    <3> QED
      BY <3>1, PenaltiesAreNat, GreatestPenalty DEF BenchInv, BenchTypeOK
  <2> DEFINE v == [lag EXCEPT ![curr] = @ + 1]
             w == Rebased(v, on_rq)
  <2>3. lag' = w
    BY <1>1 DEF Tick
  <2>4. /\ v \in [Task -> Int] /\ v[Spinner] = lag[Spinner]
        /\ v[rival] = IF curr = rival THEN lag[rival] + 1 ELSE lag[rival]
        /\ \A t \in Task : v[t] >= -Threshold
    <3>1. /\ v \in [Task -> Int] /\ v[curr] = lag[curr] + 1
          /\ \A t \in Task \ {curr} : v[t] = lag[t]
      BY <2>1
    <3> HIDE DEF v
    <3> QED
      BY <2>1, <3>1, SchedAssumption
  <2> HIDE DEF v
  <2>5. lag'[Spinner] - lag'[rival] = IF curr = rival THEN lag[Spinner] - lag[rival] - 1
                                      ELSE lag[Spinner] - lag[rival]
    <3>1. w[Spinner] - w[rival] = v[Spinner] - v[rival] /\ w \in [Task -> Int]
      <4> HIDE DEF w
      <4>1. w = Rebased(v, on_rq)
        BY DEF w
      <4> QED
        BY <2>1, <2>4, <4>1, RebasedFacts
    <3> HIDE DEF w
    <3> QED
      BY <2>1, <2>3, <2>4, <3>1
  <2>6. rival_ran' = IF curr = rival /\ rival_ran < Max(Penalties) THEN rival_ran + 1
                     ELSE rival_ran
    BY DEF WatchedTick
  <2>7. \/ rival_ran' >= inactive_penalty[Spinner]
        \/ lag'[Spinner] - lag'[rival] >= inactive_penalty[Spinner] - rival_ran'
    <3>1. lag[Spinner] \in Int /\ lag[rival] \in Int
      BY <2>1
    <3> QED
      BY <2>1, <2>2, <2>5, <2>6, <3>1
  <2> QED
    BY <1>1, <2>1, <2>7 DEF Rivalry
<1> QED
  BY <1>2, <1>3

LEMMA RivalryStep ==
    ASSUME BenchInv, [BenchNext]_allVars
    PROVE  Rivalry'
<1>1. CASE WatchedTick
  BY <1>1, RivalryTicks
<1>2. CASE UNCHANGED <<vars, rival, rival_ran>>
  BY <1>2 DEF vars, flagVars, BenchInv, Rivalry
<1>3. CASE WatchedStep
  <2>1. CASE /\ curr = Spinner /\ Spinner \in on_rq' /\ inactive[Spinner]
             /\ curr' # Spinner /\ ~inactive[curr']
    BY <1>3, <2>1, RivalryBegins DEF WatchedStep, Watch
  <2>2. CASE rival' = NoTask
    BY <2>2 DEF Rivalry
  <2>3. CASE /\ rival # NoTask /\ curr' # Spinner /\ rival \in on_rq' /\ ~inactive'[rival]
             /\ UNCHANGED <<rival, rival_ran>>
    BY <1>3, <2>3, RivalryLasts DEF BenchInv, Rivalry
  <2> QED
    BY <1>3, <2>1, <2>2, <2>3 DEF WatchedStep, Watch
<1> QED
  BY <1>1, <1>2, <1>3, BenchSteps

LEMMA BenchInvStep ==
    ASSUME BenchInv, [BenchNext]_allVars
    PROVE  BenchInv' /\ [Next]_vars
<1>1. [Next]_vars /\ Inv'
  BY BenchIsSched, NextInv DEF BenchInv
<1> QED
  BY <1>1, BenchTypesStep, RivalryStep DEF BenchInv

LEMMA BenchSpecInv == BenchSpec => [][BenchNext]_allVars /\ []BenchInv
<1>1. BenchInit => BenchInv
  <2> SUFFICES ASSUME BenchInit PROVE BenchInv
    OBVIOUS
  <2>1. Inv
    BY InitInv DEF BenchInit
  <2>2. rival_ran \in 0 .. Max(Penalties)
    BY GreatestPenalty DEF BenchInit
  <2> QED
    BY <2>1, <2>2 DEF BenchInv, BenchInit, BenchTypeOK, Inv, Rivalry
<1>2. BenchInv /\ [BenchNext]_allVars => BenchInv'
  BY BenchInvStep
<1>3. BenchSpec => BenchInit /\ [][BenchNext]_allVars
  BY PTL DEF BenchSpec
<1> QED
  BY <1>1, <1>2, <1>3, PTL

\* The threads of benchmark.c and matrix.c are where their code can be, beside
\* any others.
THEOREM BenchTypeCorrect == BenchSpec => []BenchTypeOK
<1>1. BenchInv => BenchTypeOK
  BY DEF BenchInv
<1> QED
  BY <1>1, BenchSpecInv, PTL

\* For any number of threads and whatever penalties they ask for: a spinner that
\* had to wait for an active thread runs again only when that one has run for the
\* whole penalty, unless it sleeps or becomes inactive itself.
THEOREM PenaltiesAreServed == BenchSpec => PenaltyIsServed
<1> DEFINE Served == curr # Spinner /\ curr' = Spinner /\ rival \in on_rq'
                        => rival_ran >= inactive_penalty[Spinner]
<1>1. BenchInv /\ [BenchNext]_allVars => [Served]_allVars
  <2> SUFFICES ASSUME BenchInv, [BenchNext]_allVars, curr # Spinner, curr' = Spinner,
                      rival \in on_rq'
               PROVE  rival_ran >= inactive_penalty[Spinner]
    OBVIOUS
  <2>1. /\ Inv /\ on_rq \in SUBSET Task /\ lag \in [Task -> Int] /\ NoTask \notin Task
        /\ rival_ran \in Nat /\ inactive_penalty[Spinner] \in Nat /\ Spinner \in Task
    <3>1. Spinner \in Task /\ NoTask \notin Task
      BY CoopBenchAssumption, SchedAssumption
    <3>2. Inv /\ on_rq \in SUBSET Task /\ lag \in [Task -> Int]
      BY DEF BenchInv, Inv, TypeOK
    <3>3. inactive_penalty[Spinner] \in Penalties \cup {0}
      BY <3>1, <3>2 DEF Inv, TypeOK
    <3>4. inactive_penalty[Spinner] \in Nat
      BY <3>3, PenaltiesAreNat
    <3>5. rival_ran \in Nat
      BY GreatestPenalty DEF BenchInv, BenchTypeOK
    <3> QED
      BY <3>1, <3>2, <3>4, <3>5
  <2>2. WatchedStep
    BY BenchSteps DEF WatchedTick, Tick, vars
  <2>3. rival # NoTask
    <3>1. on_rq' \subseteq Task
      BY <2>1, BenchInvStep DEF BenchInv, Inv, TypeOK
    <3> QED
      BY <2>1, <3>1
  <2>4. /\ rival \in on_rq /\ Spinner \in on_rq /\ rival \in Task
        /\ \/ rival_ran >= inactive_penalty[Spinner]
           \/ lag[Spinner] - lag[rival] >= inactive_penalty[Spinner] - rival_ran
    BY <2>1, <2>3 DEF BenchInv, Rivalry
  <2>5. lag[Spinner] <= lag[rival]
    <3>1. CASE Schedule
      <4> DEFINE v == Rebased(lag, on_rq)
      <4>1. v[Spinner] <= v[rival] /\ v \in [Task -> Int]
        BY <2>1, <2>4, <3>1, Picked
      <4>2. v[Spinner] - v[rival] = lag[Spinner] - lag[rival]
        BY <2>1, <2>4, SameDistance
      <4> HIDE DEF v
      <4> QED
        BY <2>1, <2>4, <4>1, <4>2
    <3>2. CASE Sleep
      <4> DEFINE Q == on_rq \ {curr}
                 x == Rebased(lag, Q)
      <4>1. on_rq' = Q /\ Spinner \in Leftmost(x, Q)
        BY <2>1, <3>2 DEF Sleep
      <4>2. Spinner \in Q /\ rival \in Q /\ Q \in SUBSET on_rq /\ x[Spinner] <= x[rival]
        BY <4>1 DEF Leftmost
      <4> HIDE DEF Q
      <4>3. x[Spinner] - x[rival] = lag[Spinner] - lag[rival] /\ x \in [Task -> Int]
        BY <2>1, <4>2, SameDistance
      <4> HIDE DEF x
      <4> QED
        BY <2>1, <2>4, <4>2, <4>3
    <3>3. ~Deactivate /\ ~Reactivate /\ \A t \in Task : ~Wake(t) /\ ~Fork(t)
      BY <2>1, <2>4 DEF Deactivate, Reactivate, Wake, Fork, Inv, TypeOK
    <3> QED
      BY <2>2, <3>1, <3>2, <3>3 DEF WatchedStep
  <2> QED
    BY <2>1, <2>4, <2>5
<1> QED
  BY <1>1, BenchSpecInv, PTL DEF PenaltyIsServed
=============================================================================
