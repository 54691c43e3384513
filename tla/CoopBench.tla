------------------------------ MODULE CoopBench ------------------------------
(***************************************************************************)
(* project3/benchmark.c and project3/matrix.c with --cooperative on one    *)
(* CPU of CoopSched: one spinning thread of the former, which main pins to *)
(* the CPU, one thread of the latter, and other threads that sleep, fork   *)
(* and call set_inactive as they like. The main of benchmark.c runs        *)
(* elsewhere. If program is "any", all threads do as they like.            *)
(***************************************************************************)
EXTENDS CoopSched

CONSTANTS Spinner, Worker

\* A penalty is an int, so one of them is the greatest.
ASSUME CoopBenchAssumption ==
    /\ {Spinner, Worker} \subseteq Task /\ Spinner # Worker
    /\ \E m \in Penalties : \A p \in Penalties : p <= m

VARIABLES
    program,     \* "bench" or "any"
    spin,        \* the spinner: "none", "start", "spin", "end" or "gone"
    work,        \* the thread of matrix.c: "none", "compute", "end" or "gone"
    main,        \* of benchmark.c: "create", "poll", "join" or "done"
    stop_flag,
    rival,       \* the active thread that ran when the spinner had to wait
    rival_ran    \* for how long it has run since, up to the penalty

codeVars == <<program, spin, work, main, stop_flag>>
allVars == <<vars, codeVars, rival, rival_ran>>

BenchInit ==
    /\ Init
    /\ program \in {"bench", "any"}
    /\ spin = "none" /\ work = "none"
    /\ main = "create"
    /\ stop_flag = FALSE
    /\ rival = NoTask /\ rival_ran = 0

\* Who sleeps is not put back, and pays nothing: only a spinner that could go on
\* has a rival. It has it as long as the rival is active and runnable.
Watch ==
    IF /\ curr = Spinner /\ Spinner \in on_rq' /\ inactive[Spinner]
       /\ curr' # Spinner /\ ~inactive[curr']
    THEN rival' = curr' /\ rival_ran' = 0
    ELSE IF rival = NoTask \/ curr' = Spinner \/ rival \notin on_rq' \/ inactive'[rival]
    THEN rival' = NoTask /\ rival_ran' = 0
    ELSE UNCHANGED <<rival, rival_ran>>

\* An action A of the scheduler that is no step of a program.
Beside(A) == A /\ Watch /\ UNCHANGED codeVars

WatchedTick ==
    /\ Tick
    /\ rival' = rival
    /\ rival_ran' = IF curr = rival /\ rival_ran < Max(Penalties) THEN rival_ran + 1
                    ELSE rival_ran
    /\ UNCHANGED codeVars

AsItLikes(t) == program = "any" \/ t \notin {Spinner, Worker}

------------------------------------------------------------------------------
(* spin_thread *)

MarkInactive ==
    /\ program = "bench" /\ curr = Spinner
    /\ spin = "start" /\ spin' = "spin"
    /\ Deactivate
    /\ Watch
    /\ UNCHANGED <<program, work, main, stop_flag>>

\* Mutant: the flag is read only before the loop.
SeeStopFlag_Hoisted ==
    /\ program = "bench" /\ curr = Spinner
    /\ spin = "start" /\ stop_flag
    /\ spin' = "end"
    /\ UNCHANGED <<vars, program, work, main, stop_flag>>
    /\ Watch

\* The loop ends, and the thread becomes active again.
SeeStopFlag ==
    /\ program = "bench" /\ curr = Spinner
    /\ spin = "spin" /\ stop_flag
    /\ spin' = "end"
    /\ Reactivate
    /\ Watch
    /\ UNCHANGED <<program, work, main, stop_flag>>

ExitSpinner ==
    /\ program = "bench" /\ curr = Spinner
    /\ spin = "end" /\ spin' = "gone"
    /\ Sleep
    /\ Watch
    /\ UNCHANGED <<program, work, main, stop_flag>>

spin_thread == MarkInactive \/ SeeStopFlag \/ ExitSpinner

(* thread_func of matrix.c *)

\* The thread starts, or another one has come to the barrier.
WakeWorker ==
    /\ program = "bench"
    /\ work \in {"none", "compute"} /\ work' = "compute"
    /\ Wake(Worker)
    /\ Watch
    /\ UNCHANGED <<program, spin, main, stop_flag>>

WaitAtBarrier ==
    /\ program = "bench" /\ curr = Worker /\ work = "compute"
    /\ Beside(Sleep)

\* No work is left: the thread says so, and is never active again.
FinishWork ==
    /\ program = "bench" /\ curr = Worker
    /\ work = "compute" /\ work' = "end"
    /\ Deactivate
    /\ Watch
    /\ UNCHANGED <<program, spin, main, stop_flag>>

ExitWorker ==
    /\ program = "bench" /\ curr = Worker
    /\ work = "end" /\ work' = "gone"
    /\ Sleep
    /\ Watch
    /\ UNCHANGED <<program, spin, main, stop_flag>>

thread_func == WakeWorker \/ WaitAtBarrier \/ FinishWork \/ ExitWorker

(* main of benchmark.c *)

CreateSpinner ==
    /\ program = "bench"
    /\ main = "create" /\ main' = "poll"
    /\ spin' = "start"
    /\ Wake(Spinner)
    /\ Watch
    /\ UNCHANGED <<program, work, stop_flag>>

\* SIGTERM or SIGINT, once the handler is installed.
sigterm_handler ==
    /\ program = "bench" /\ ~stop_flag
    /\ stop_flag' = TRUE
    /\ UNCHANGED <<vars, program, spin, work, main, rival, rival_ran>>

StopPolling ==
    /\ main = "poll" /\ stop_flag
    /\ main' = "join"
    /\ UNCHANGED <<vars, program, spin, work, stop_flag, rival, rival_ran>>

JoinSpinner ==
    /\ main = "join" /\ spin = "gone"
    /\ main' = "done"
    /\ UNCHANGED <<vars, program, spin, work, stop_flag, rival, rival_ran>>

------------------------------------------------------------------------------
BenchNext ==
    \/ spin_thread \/ thread_func
    \/ CreateSpinner \/ sigterm_handler \/ StopPolling \/ JoinSpinner
    \/ WatchedTick \/ Beside(Schedule)
    \/ curr # NoTask /\ AsItLikes(curr) /\ Beside(Deactivate \/ Reactivate \/ Sleep)
    \/ \E t \in Task : AsItLikes(t) /\ Beside(Wake(t) \/ Fork(t))

\* A thread that runs again and again comes to its next step.
BenchSpec ==
    /\ BenchInit /\ [][BenchNext]_allVars
    /\ WF_allVars(WatchedTick \/ Beside(Schedule))
    /\ SF_allVars(spin_thread)
    /\ WF_allVars(CreateSpinner) /\ WF_allVars(StopPolling \/ JoinSpinner)

------------------------------------------------------------------------------
BenchTypeOK ==
    /\ TypeOK
    /\ program \in {"bench", "any"}
    /\ spin \in {"none", "start", "spin", "end", "gone"}
    /\ work \in {"none", "compute", "end", "gone"}
    /\ main \in {"create", "poll", "join", "done"}
    /\ stop_flag \in BOOLEAN
    /\ rival \in Task \cup {NoTask} /\ rival_ran \in 0 .. Max(Penalties)

\* "they just stop taking CPU time away from work that matters" (README.md):
\* an inactive thread that had to wait for an active one does not run again
\* before that one has run for the whole penalty, unless it sleeps or becomes
\* inactive itself; whatever others do meanwhile.
PenaltyIsServed ==
    [][curr # Spinner /\ curr' = Spinner /\ rival \in on_rq'
       => rival_ran >= inactive_penalty[Spinner]]_allVars

\* After SIGTERM the spinner hears of it, however often it is put behind others
\* that go on working, and main ends; if nobody is given time for nothing again
\* and again (see EverybodyRuns).
StopIsHeard == <>[][~Reactivate]_vars => (stop_flag ~> main = "done")
=============================================================================
