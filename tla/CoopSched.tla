------------------------------ MODULE CoopSched ------------------------------
(***************************************************************************)
(* project3/cooperative_sched.patch, and the per-call penalty that         *)
(* old_patch/cooperative_sched_p2.patch adds, in the run queue of one CPU. *)
(*                                                                         *)
(* The Completely Fair Scheduler around the patch is modelled by what the  *)
(* patch relies on: who runs gains vruntime, the thread with the least     *)
(* runs next, min_vruntime follows the least of the runnable threads and   *)
(* never goes back, and a thread that wakes up is placed near it. All      *)
(* threads have the same nice value. Only differences of vruntimes matter, *)
(* so lag is vruntime - min_vruntime, and moves when min_vruntime does.    *)
(***************************************************************************)
EXTENDS Integers, FiniteSets, FiniteSetsExt

CONSTANTS
    Task, NoTask,
    Penalties,   \* what a call may ask for; of the first patch, its constant
    Slice,       \* sched_slice: how many ticks a thread runs among others
    Threshold,   \* how far below min_vruntime place_entity puts a sleeper
    Granularity  \* how much less vruntime a thread needs to preempt on waking

ASSUME SchedAssumption ==
    /\ NoTask \notin Task
    /\ Penalties \subseteq Nat /\ Penalties # {}
    /\ Slice \in Nat \ {0} /\ Threshold \in Nat /\ Granularity \in Nat

VARIABLES
    inactive,           \* task_struct.inactive
    inactive_penalty,   \* task_struct.inactive_penalty
    lag,
    on_rq,              \* the runnable threads
    curr,               \* the one that runs
    ran,                \* its ticks since it was picked, up to Slice
    need_resched

flagVars == <<inactive, inactive_penalty>>
vars == <<flagVars, lag, on_rq, curr, ran, need_resched>>

\* update_min_vruntime, with v the new vruntimes and Q the runnable threads.
\* Of a sleeper no more is kept than place_entity will look at.
Rebased(v, Q) ==
    LET least == IF Q = {} THEN 0 ELSE Min({v[t] : t \in Q})
        up    == IF least > 0 THEN least ELSE 0
    IN  [t \in Task |-> IF t \in Q \/ v[t] - up > -Threshold THEN v[t] - up
                        ELSE -Threshold]

Leftmost(v, Q) == {t \in Q : \A u \in Q : v[t] <= v[u]}

Init ==
    /\ inactive = [t \in Task |-> FALSE]
    /\ inactive_penalty = [t \in Task |-> 0]
    /\ lag = [t \in Task |-> 0]
    /\ on_rq = {}
    /\ curr = NoTask
    /\ ran = 0
    /\ need_resched = FALSE

------------------------------------------------------------------------------
(* The patch *)

\* Mutant: the new penalty is added to that of the last time.
Deactivate_Accumulates ==
    /\ curr # NoTask
    /\ ~inactive[curr]
    /\ \E p \in Penalties : inactive_penalty' = [inactive_penalty EXCEPT ![curr] = @ + p]
    /\ inactive' = [inactive EXCEPT ![curr] = TRUE]
    /\ UNCHANGED <<lag, on_rq, curr, ran, need_resched>>

\* set_inactive, called for the first time ...
Deactivate ==
    /\ curr # NoTask
    /\ ~inactive[curr]
    /\ \E p \in Penalties : inactive_penalty' = [inactive_penalty EXCEPT ![curr] = p]
    /\ inactive' = [inactive EXCEPT ![curr] = TRUE]
    /\ UNCHANGED <<lag, on_rq, curr, ran, need_resched>>

\* Mutant: vruntime is set below min_vruntime, so that the thread runs next.
Reactivate_Ahead ==
    /\ curr # NoTask
    /\ inactive[curr]
    /\ lag' = [lag EXCEPT ![curr] = -Slice - 1]
    /\ inactive' = [inactive EXCEPT ![curr] = FALSE]
    /\ UNCHANGED <<inactive_penalty, on_rq, curr, ran, need_resched>>

\* ... and for the second time.
Reactivate ==
    /\ curr # NoTask
    /\ inactive[curr]
    /\ lag' = [lag EXCEPT ![curr] = 0]
    /\ inactive' = [inactive EXCEPT ![curr] = FALSE]
    /\ UNCHANGED <<inactive_penalty, on_rq, curr, ran, need_resched>>

\* Mutant: the sign is wrong, an inactive thread comes first.
Penalty_Subtracted(t) == IF inactive[t] THEN -inactive_penalty[t] ELSE 0

\* What put_prev_entity adds to the vruntime of a thread that is runnable.
Penalty(t) == IF inactive[t] THEN inactive_penalty[t] ELSE 0

------------------------------------------------------------------------------
(* The scheduler *)

\* task_tick_fair
Tick ==
    /\ curr # NoTask /\ ~need_resched
    /\ LET v == [lag EXCEPT ![curr] = @ + 1]
       IN  /\ lag' = Rebased(v, on_rq)
           /\ need_resched' =
                \/ on_rq # {curr} /\ ran + 1 >= Slice
                \/ \E t \in on_rq : v[curr] - v[t] > Slice
    /\ ran' = IF ran < Slice THEN ran + 1 ELSE ran
    /\ UNCHANGED <<flagVars, on_rq, curr>>

\* Mutant: an inactive thread pays also when it goes on running.
Schedule_PaysWhenStaying ==
    /\ need_resched
    /\ need_resched' = FALSE
    /\ LET v == [Rebased(lag, on_rq) EXCEPT ![curr] = @ + Penalty(curr)]
       IN  curr' \in Leftmost(Rebased(lag, on_rq), on_rq) /\ lag' = v
    /\ ran' = 0
    /\ UNCHANGED <<flagVars, on_rq>>

\* Mutant: the thread that is picked decides whether the other one pays.
Schedule_NextPays ==
    /\ need_resched
    /\ need_resched' = FALSE
    /\ LET v == Rebased(lag, on_rq)
       IN  /\ curr' \in Leftmost(v, on_rq)
           /\ lag' = [v EXCEPT ![curr] = @ + Penalty(curr')]
    /\ ran' = 0
    /\ UNCHANGED <<flagVars, on_rq>>

\* pick_next_task_fair. The running thread is compared with the leftmost one
\* before it is put back; if it stays, it is not put back and pays nothing.
Schedule ==
    /\ need_resched
    /\ need_resched' = FALSE
    /\ LET v      == Rebased(lag, on_rq)
           others == Leftmost(v, on_rq \ {curr})
       IN  \/ /\ \A t \in on_rq \ {curr} : v[curr] < v[t]
              /\ lag' = v
              /\ UNCHANGED <<curr, ran>>
           \/ \E t \in others :
              /\ v[t] <= v[curr]
              /\ curr' = t
              /\ ran' = 0
              /\ lag' = [v EXCEPT ![curr] = @ + Penalty(curr)]
    /\ UNCHANGED <<flagVars, on_rq>>

\* The running thread blocks, and has run for some time then (vruntime is
\* charged on dequeueing). It is not runnable when it is put back.
Sleep ==
    /\ curr # NoTask /\ ran > 0
    /\ LET Q == on_rq \ {curr}
           v == Rebased(lag, Q)
       IN  /\ lag' = v
           /\ on_rq' = Q
           /\ IF Q = {} THEN curr' = NoTask ELSE curr' \in Leftmost(v, Q)
    /\ ran' = 0
    /\ need_resched' = FALSE
    /\ UNCHANGED flagVars

\* try_to_wake_up. The sleeper's lag is at least -Threshold.
Wake(t) ==
    /\ t \notin on_rq
    /\ lag' = Rebased(lag, on_rq)
    /\ on_rq' = on_rq \cup {t}
    /\ \/ /\ curr = NoTask
          /\ curr' = t
          /\ UNCHANGED need_resched
       \/ /\ curr # NoTask
          /\ need_resched' = (need_resched \/ lag'[curr] - lag'[t] > Granularity)
          /\ UNCHANGED curr
    /\ UNCHANGED <<flagVars, ran>>

\* The running thread creates t: dup_task_struct copies the flag and the
\* penalty, task_fork_fair places the child one slice behind min_vruntime, and
\* not before its parent. t takes the place of a thread that is not runnable,
\* and may have ended.
Fork(t) ==
    /\ curr # NoTask
    /\ t \notin on_rq
    /\ LET v == [lag EXCEPT ![t] = Max({lag[curr], Slice})]
       IN  /\ lag' = v
           /\ need_resched' = (need_resched \/ v[curr] - v[t] > Granularity)
    /\ on_rq' = on_rq \cup {t}
    /\ inactive' = [inactive EXCEPT ![t] = inactive[curr]]
    /\ inactive_penalty' = [inactive_penalty EXCEPT ![t] = inactive_penalty[curr]]
    /\ UNCHANGED <<curr, ran>>

Next ==
    \/ Deactivate \/ Reactivate
    \/ Tick \/ Schedule \/ Sleep
    \/ \E t \in Task : Wake(t) \/ Fork(t)

Spec == Init /\ [][Next]_vars

\* Time passes while a thread runs.
FairSpec == Spec /\ WF_vars(Tick \/ Schedule)

------------------------------------------------------------------------------
TypeOK ==
    /\ inactive \in [Task -> BOOLEAN]
    /\ inactive_penalty \in [Task -> Penalties \cup {0}]
    /\ lag \in [Task -> Int]
    /\ on_rq \subseteq Task
    /\ curr \in Task \cup {NoTask} /\ (curr = NoTask <=> on_rq = {})
    /\ curr # NoTask => curr \in on_rq
    /\ ran \in 0 .. Slice
    /\ need_resched \in BOOLEAN

\* No order of sleeping, waking up and set_inactive leaves a thread further
\* ahead of the others than a sleeper is put on waking.
CreditIsBounded == \A t \in on_rq : lag[t] >= -Threshold

\* A penalty has been paid when the thread runs: penalties do not add up over
\* the times it is preempted. A thread that is active is never more than a slice
\* behind: it has nothing left of those it paid, and none of those others pay.
PenaltiesDoNotAddUp ==
    /\ \A t \in on_rq :
          lag[t] <= Slice + 1 + (IF inactive[t] THEN inactive_penalty[t] ELSE 0)
    /\ curr # NoTask => lag[curr] <= Slice + 1

\* "The spinners still make forward progress" (README.md), and so does everyone
\* else, beside threads that sleep, wake up and preempt, and pay penalties, for
\* as long as they like. Only who becomes active again is given time for
\* nothing: two threads that do so in turn can starve a third.
EverybodyRuns ==
    <>[][~Reactivate]_vars => \A t \in Task : t \in on_rq ~> curr = t
=============================================================================
