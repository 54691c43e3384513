# Verification of the CS519 kernel and systems projects

TLA+ models of the programs and kernel patches in this repository, TLC
configurations that check them on small instances, and TLAPS proofs of what
matters most. The code is the reference: each definition that models code is
listed in `PROJECT.json` ("map") with the lines it stands for.

## 1. The system and its parts

| Part | Code | State | Operations | What is hard |
|---|---|---|---|---|
| Extent operations | `project2/project2.patch` 176-481 | the range, count and page list of an extent | init, add a page, merge, trim, split | off-by-ones; a count, a range and a list that must agree |
| Extent tree | same, 503-847 | red-black tree keyed by start frame, behind a spin lock | insert_or_add, remove_page, destroy, print | long sequences of calls; allocations that fail half-way |
| Kernel hooks | same, 57-156 and 851-862 | `use_extents`, the tree, page tables, free frames | faults, zaps, `use_extents`, exit, exec, fork | threads that race on a page; frames that are freed and given out again; copy-on-write |
| Spin, mutex and semaphore locks | `locks-bench/{compare_and_swap,test_and_set,mutex_lock,semaphore_lock}.h`, `locks.h` | one word | init, acquire, release | atomicity |
| Ticket lock | `locks-bench/ticket_lock.h` | two 16-bit counters | init, acquire, release | wrap-around; an increment that is not atomic; order of service |
| Lock benchmark | `locks-bench/main.c`, and its first version `main-orig.c` | counters, threads | create, increment under the lock, join, print, free | lost updates; use after free; an "expected" value that is not what was done |
| Matrix product by processes | `project1-part2/IPC-{pipe,shmem,mesg}.c` | a pipe, shared memory, a System V semaphore | fork a child per row, compute, hand back the row | rows mixed in the pipe; a pipe that is full; reading a row too early; forks that fail, children that are killed |
| Cooperative scheduler | `project3/cooperative_sched.patch`, `old_patch/cooperative_sched_p2.patch` | `inactive`, `inactive_penalty`, `vruntime`, the run queue | `set_inactive`, the penalty in `put_prev_entity`, the copy of both by fork | starvation; penalties that add up or are not paid; the reset to `min_vruntime` |
| Page-fault benchmark and test | `project2/multithread-pagefault-averagetime.c`, `test.c` | buffers, groups of threads | map, touch, unmap, create, join, report, exit | threads that fault and unmap neighbouring frames at once, group after group |
| Spinner benchmark | `project3/benchmark.c`, `old_patch/benchmark.c` | `stop_flag`, pinned threads | spin, SIGTERM, poll, join | a spinner that must still hear of the signal |
| Matrix benchmark | `project3/matrix.c`, `old_patch/matrix.c` | `B_T`, `C`, a barrier | transpose, wait, multiply by tiles, join | reading `B_T` too early; remainders of rows and tiles; threads that cannot be created |

How they interact: the page-fault programs fault and unmap; the kernel hooks
call the tree, which calls the operations on extents; the lock benchmark calls the locks through `locks.h`; the two
scheduler workloads (`benchmark.c`, `matrix.c`) call `set_inactive`, which the
scheduler consults whenever it puts a thread back into its queue. The four
projects share nothing else.

For each part, what makes it correct:

* **tree**: extents are the maximal runs of the frames the process maps, and
  the report of `check_tlb.sh` is the number of frames and of runs;
* **hooks**: the racing hooks look to the tree like one call after another, and
  no frame is in the tree that the allocator may hand out;
* **locks**: mutual exclusion, and for the ticket lock service in the order of
  the tickets; **benchmark**: no increment is lost and the program ends;
* **IPC programs**: every row arrives whole, under its number, before it is used;
* **scheduler**: whoever asked for the penalty pays it, once per preemption,
  and nobody is starved by it;
* **page-fault programs**: each group of threads starts from the same state, and
  the report counts what the test has touched;
* **matrix**: the product, summed in the order of the sequential program.

The hazards, each at its line with the properties that would catch it, are in
`PROJECT.json`.

## 2. Modules

| Module | Models | State and actions |
|---|---|---|
| `Extent` | an extent as a record, each function of the patch as an operator | `extent_init`, `extent_add_adjacent`, `extent_merge`, `extent_trim`, `SplitLeft`/`SplitRight`; the kernel list is a sequence and the list primitives do to it what they do to the list |
| `ExtentTable` | the tree as the set of its extents, `mapped`: what the process maps | `Fault` (insert_or_add), `Unmap` (remove_page), `ExitMmap` (destroy); one action per call, since each runs under the spin lock; whether an allocation fails is a choice |
| `ExtentMM` | threads of a process, their faults and zaps step by step, page-table locks, free frames, fork and copy-on-write; what passes the hooks by | instantiates `ExtentTable`, whose operators are the hooks. `WriteFault`, `InstallPte`, `LoseRace`, `HookInsert`; `HookRemove`, `ClearPte`, `FreeFrame`; `ExitTree`, `ExitUnmap`; with `Unhooked`, `FaultByOther`, `FaultInOther` and `Reclaim` |
| `PageFaultBench` | the two programs, as clients of `ExtentMM` (one process, its kernel and its allocator together) | threads: `Map`, `Memset`, `Munmap`; main: `Create`, `Join`, `JoinNothing` (an absent thread), `Report`, `Exit`; anybody: `TouchHeap` |
| `ExtentClaims` | statements of the documents that the code contradicts | |
| `Mutex`, `FifoMutex` | what a lock promises | abstract specifications |
| `TicketLock` | the ticket lock | `TakeTicket` (fetch-and-add), `StopSpinning`, `LoadServing`, `StoreServing` |
| `Locks` | the other four locks and the dispatch on `lock_type` | init, lock and unlock of each; `init_lock`, `acquire_lock`, `release_lock` |
| `LockBench` | `main.c` and `main-orig.c`, chosen by the variable `program` | `Iterate`, `Acquire`, `LoadCounter`, `StoreCounter`, `Release` of each thread; `Create`, `Join`, `Finish` of main |
| `RowFarm` | what the IPC programs promise | abstract specification |
| `MatMulIPC` | the three IPC programs, chosen by the variable `program` | child: `semaphore_reserve`, `WriteNumber`, `WritePart`, `semaphore_release`, and `Die` at any point, with `SEM_UNDO`; parent: `Fork`, reads, `WaitLoop`, copies |
| `CoopSched` | the patch, in the run queue of one CPU | `Deactivate`, `Reactivate` (`set_inactive`), `Tick`, `Schedule` (with the penalty), `Sleep`, `Wake`, `Fork` |
| `CoopBench` | a spinner of `benchmark.c` and a thread of `matrix.c` on the CPU of `CoopSched`, with the main of `benchmark.c` | `spin_thread`, `thread_func`, `sigterm_handler`, `CreateSpinner`, `StopPolling`, `JoinSpinner`; `rival` and `rival_ran` are history variables, for `PenaltyIsServed` |
| `MatrixBarrier` | `matrix.c` | `Transpose`, `Arrive`, `Depart`, `Multiply` (a tile), `Return`; `Create`, `CreateError`, `Join`, `JoinNothing` |
| `MCExtentTable`, `MCExtentMM`, `MCPageFaultBench` | values for the constants, views, symmetry | |
| `ExtentTable_proofs`, `ExtentMM_proofs`, `TicketLock_proofs`, `LockBench_proofs`, `MatMulIPC_proofs`, `CoopSched_proofs`, `MatrixBarrier_proofs`, `PageFaultBench_proofs` | theorems (section 5) | |

What is built on what: `PageFaultBench` extends `ExtentMM`, which instantiates
`ExtentTable`: for its operators, and as the abstract specification it
implements. `LockBench` extends `Locks` and implements `Mutex`, as
`TicketLock` does. `MatMulIPC` implements `RowFarm`. `CoopBench` extends
`CoopSched`.

Definitions that begin with "Mutant:" in their comment are not part of a model.
Each is a plausible bug of the definition below it, and the property it is
paired with in `PROJECT.json` fails when it takes that definition's place.

### What is abstracted

* The red-black tree is a set: balancing is the kernel's. A lookup walks by key,
  which is unambiguous unless two extents have the same start; then any of them
  may be met.
* Page lists are kept in full, but no guard of the code reads them, so the runs
  about ranges leave them out of the state (`RangeView`, `ListlessView`).
* Frames are numbers because contiguity matters; pages are model values.
  Virtual pages stand for pages under different page-table locks.
* The Completely Fair Scheduler is modelled by what the patch relies on (see the
  head of `CoopSched`); vruntime is kept relative to `min_vruntime`. A thread
  that sleeps has run for at least a tick.
* A row of a matrix is the sequence of its pieces, and a cell of a product the
  sequence of the products added to it.
* A failed attempt of a spin lock changes nothing, so acquiring is the attempt
  that succeeds. A lock of type TICKET is in `Locks` the mutex that
  `TicketLock` is proved to be.
* A child of the IPC programs that is killed may leave a torn row in the pipe;
  the number the parent then reads may be any value, and it may crash on it.
* `pthread_join` of a handle that was never written returns or crashes.
* In `ExtentMM`, a fork goes on with the parent or with the child, the other one
  being a set of frames it still maps.

## 3. Runs

Passing runs:

| Run | Instance | Shows |
|---|---|---|
| `table` | 8 frames, 4 extents, no allocation fails | every sequence of faults, unmaps and exits leaves the maximal runs of the mapped frames (`Separated`, `Exact`), the fields agree (`WellFormed`), the report counts right (`ReportExact`) |
| `mm` | 3 threads, 3 pages, 4 frames | the threads' hooks implement `ExtentTable` (`UsesTable`); a frame that is free, or that a fault took and has not installed, is not in the tree (`FreeUntracked`); the report counts the mapped frames (`PhysicalPagesReported`) |
| `mm_all` | 1 thread, 2 pages, 3 frames and the zero page next to them; forks, read faults, faults and reclaim that pass the hooks by, every allocation may fail | exit finds the tree whatever happened (`TreeIsFound`), extents stay consistent even when the hook is given a frame it holds (`ExtentsConsistent`), and a step of the process changes the tracking of one frame only, or loses the one extent that a refused merge costs, in trees with stale frames, frames tracked twice and extents that overlap (`DamageStaysLocal`) |
| `pagefault` | 2 threads with 2 pages each and the heap, 5 frames, both programs | when a group has been joined, the allocator has its frames back and the tree has forgotten them (`GroupLeavesNothing`); the report of `test.c` counts what it has touched (`TestIsReported`); nobody gets stuck |
| `ticket` | 4 threads, 4 tickets | mutual exclusion, `Mutex` and `FifoMutex` are implemented, nobody starves |
| `bench` | 1 to 3 threads, 2 counters, 2 x 2 increments, all five lock types, both versions | no increment is lost, the "expected" value is the one gained if the counters divide the threads, nothing is used after it was freed, `Mutex` is implemented, the program ends |
| `ipc` | 4 rows of 3 pieces, a pipe of 3 messages, all three programs, forks may fail, up to 2 children are killed | the semaphore is kept, rows are contiguous in the pipe, `RowFarm` is implemented, nobody waits but for what was killed or not forked |
| `coop` | 3 threads, slices of 2 ticks, penalty of 5, sleepers placed 1 behind; the two programs, or threads that do as they like | penalties do not add up and are served in full (`PenaltyIsServed`); credit is bounded; whoever is runnable runs; the spinner hears of SIGTERM (`StopIsHeard`) |
| `matrix` | sizes 0 to 5, 1 to 3 threads, any of which may be absent, tiles of 2 | each cell has its products in sequential order, all of them at the end; nobody stays at the barrier |

Why the bounds are enough: 8 frames allow the patterns in which all cases of
insertion and removal meet (three extents with gaps of one frame, extents of
one, two and more frames), and 4 extents is the most that 8 frames can form.
In `mm`, three threads race for one page, and one frame is left when each has
one; in `mm_all` the number of threads is 1 because its properties are about
histories (fork, copy, reclaim, failure) and not races; extents of up to four
frames, one of them the zero page, are merged and split there. `pagefault` has one
frame for each page there is, so that the last fault takes the last frame.
With 4 threads on 4 tickets every ticket can be out when the counters wrap. Two
threads share a counter in `bench` and one does not. The pipe of `ipc` holds
less than a row with its number, so a child can fill it and wait with the
semaphore; of 4 children two can be killed, one with it and one without. In
`coop` the penalty exceeds everything two other threads can gain before they are
preempted. A size of 5 is no multiple of 2 or 3 threads nor of the tile, and
sizes below the number of threads are included.

`CHECK_DEADLOCK FALSE` is set for `bench`, `ipc` and `matrix`, programs that end
(and in `ipc`, children that wait for ever after a failed fork; in `matrix`,
threads that stay at the barrier when another could not be created).

Runs that end in a counterexample, for statements the code contradicts:

| Run | Statement | What happens |
|---|---|---|
| `claim_leak` | "so the tree does not leak" | an extent is freed with nodes on its list |
| `claim_merge_nomem` | "extends an adjacent extent ... and keeps the page count and address range current" | the node of the page between two extents cannot be allocated, the merge is refused, and the right extent is erased from the tree |
| `mm_fork_copy` | "handled on unmap/exit so the tree does not leak" | copy-on-write has no hook; after a fork a process that unmapped everything still has extents |

Divergences seen while modelling, on which no run is spent because the line says
it all or the same run would show them:

* "src_ex will contain the modified left part of the extent" (330), but
  `list_cut_position` (360) moves the nodes of the left pages to the new right
  half; the ranges are right.
* `extent_trim` (474) breaks out of its loop after the first node, so the node of
  the last page stays; `extent_merge` (403) splices the right list in front.
* When a split fails for want of memory (751) the freed frame stays tracked, and
  a later fault may be given a frame that is "in between" (comment at 593).
* A read fault inserts the zero page's frame (858), which no unmap removes.
* `mm_init` (57) does not reset `use_extents`, so a child inherits it; and pages
  faulted in before the call take the branch that "shouldn't happen" (708).
* `main.c` 106 divides integers: unless the counters divide the threads, the
  "expected" value is not what a correct lock yields (`ExpectedIsGained` is
  stated for when they do). The counters are never initialised.
* `src/README.md` says of the IPC programs "All three synchronize with System V
  semaphores"; `IPC-mesg.c` uses none, and needs none: each child has its own
  row of the buffer. None of them removes its semaphore.
* `multithread-pagefault-averagetime.c` 220 divides by the number of iterations,
  which may be 0 on the command line. It joins threads whose `pthread_create`
  failed, as `matrix.c` does.
* `cooperative_sched.patch` 65 takes `task_of(prev)`; with group scheduling
  `prev` may be the entity of a group. A thread that sleeps is not put back into
  the queue and pays no penalty, however often it sleeps.
* `num_procs` is incremented uninitialised in the IPC programs. The loop of
  `IPC-shmem.c` 187 has the next statement as its body, harmless for the result.
* Two threads that call `set_inactive` in turn lose the vruntime they gain each
  time and may starve a third: `EverybodyRuns` therefore asks that nobody keeps
  becoming active again.

## 4. Fairness

* `TicketLock`: weak fairness of `StopSpinning` and of the release of each
  thread: the scheduler runs each thread, and a holder leaves. Nothing is
  assumed of threads asking for the lock.
* `LockBench`: weak fairness of main and of each thread. Weak fairness does not
  give a thread a lock that others keep taking; it ends up with it because they
  stop after their iterations.
* `MatMulIPC`: weak fairness of each process, and none of being killed. The
  semaphore need not be fair, since each child wants it once.
* `CoopBench`: time passes for the running thread and a requested reschedule
  happens (weak fairness of `WatchedTick` and `Schedule` together). A thread
  that runs again and again comes to its next step (strong fairness of
  `spin_thread`, whose steps are enabled only while it runs). The main of
  `benchmark.c` runs elsewhere and is weakly fair. Sleeping, waking up, forks,
  the signal and other system calls are not fair: they may happen for ever or
  never.
* `MatrixBarrier`: weak fairness of main and each thread.
* `ExtentTable`, `ExtentMM` and `PageFaultBench`: none; their properties are safety.

## 5. Proofs

`ExtentTable_proofs`, for any set of frames and of addresses:

* `TypeAndShape`: `Spec => [](TypeOK /\ WellFormed)`, whatever allocation fails.
  The invariant `Inv` is the conjunction itself. It is inductive because each
  operation on an extent gives a consistent one (`AddGood`, `MergeGood`,
  `TrimGood`, `SplitGood`) and addresses of live extents differ. `TableTypes` is
  its first half.
* `CallsAreLocal`: `Spec => OnlyItsFrame`, whatever allocation fails. From
  `Inv` and what each operation does to the frames covered (`InsertCoversOnly`,
  `RemoveCoversOnly`). Without the node of a frame between two extents the left
  one does not grow, so they are not adjacent, `extent_merge` refuses, and the
  right one, already erased, is what is lost (`MergeRefused`). With no failure
  `OnlyItsFrame` says nothing that `Exact` does not; the run that checks it is
  `mm_all`, of the table of a process.
* `TableIsExact`: `Spec => [](Separated /\ Exact)`, if no allocation fails. The
  invariant is `Inv /\ Separated /\ Exact`; `Separated` is what makes the
  lookups complete (`LookupsAreComplete`): the greatest start below a frame is
  the only extent that may contain it or touch it. `ExtentsAreSeparated` is its
  first half.
* `ReportIsExact`: `Spec => []ReportExact`, if no allocation fails. What
  `extent_rb_print` adds up is stated as the cardinality of a disjoint union, a
  pair for each page an extent claims (`CountedPages`), so that a bijection
  takes the place of an induction over the extents. One maps each mapped frame to
  its extent and its number there (`PagesAreFrames`), another each start of a run
  to its extent (`ExtentsAreRuns`); both need `Separated`. Only finitely many
  frames are mapped at any time (`MappedIsFinite`).

Assumed: frames are positive numbers (`FrameAssumption`), and
the two flags of failure are Booleans.

`TicketLock_proofs`, for any `MaxTicket` and any finite set of at most
`MaxTicket + 1` threads (`TicketAssumption`; with more, two would wait with the
same ticket):

* `TicketMutualExclusion`: `Spec => [](TypeOK /\ MutualExclusion)`; `TicketTypes` is its first half.
* `TicketImplementsMutex`: `Spec => ImplementsMutex`.
* `TicketServesInOrder`: `Spec => ServesInOrder`, the refinement of `FifoMutex`.

Mutual exclusion is not inductive, since it says nothing of the tickets of
those who wait. The strengthening says that the tickets that are out are
distinct and at a distance from `now_serving` below the number of threads that
hold one, that `next_ticket` is just behind them, and that who is inside has
the ticket served and, before it stores, has loaded it. Distances
are taken modulo `MaxTicket + 1`, so the wrap is no special case.

The queue of the refinement is defined by places: a thread that waits stands
where as many holders are ahead of it as its distance says. For that the distances
of the holders must be all those below their number (`EveryDistance`, a bijection
from a finite set into itself); then each step of the lock changes the queue at
one end (`TakeRequests`, `StopEnters`) or not at all (`SameQueue`,
`StoreLeaves`).

`ExtentMM_proofs`, for any number of threads, pages and frames:

* `HooksKeepTypes`, `HooksKeepExtents`, `ExitFindsTree`: with forks, read faults,
  changes that pass the hooks by and failing allocations. The invariant is
  `Places` (threads, frames and pages have the types of their places), `Shape`
  (the tree is a `GoodTree` of `ExtentTable_proofs`) and `TreeIsFound`.
* `StepsAreLocal`: `Spec => DamageStaysLocal`, under the same conditions. Who is
  at a hook has the lock of the page and its frame in the page (`Held`), also
  when pages are copied, reclaimed or faulted in by others, which want the lock
  too (`NextKeepsHeld`). So a hook tells the table of the frame that the page
  has (`OnePageMoves`), and `CallsAreLocal` says what the call does.
* `ProcessUsesTable`: `Spec => UsesTable` for a process that `OnlyWrites`. It
  needs `OnePlace` (a frame is in the allocator, in one page, or with one
  thread), `Held` (who calls a hook holds the lock of its page) and `Untold` (the
  table knows of no page before the flag is set). Each hook is then one call of the table, and what
  is between the hooks does not change what the table was told.
* `FreeFramesUntracked`: from `ProcessUsesTable` and `TableIsExact`, by
  instantiating the theorem about the table for the table of the process: if no
  allocation fails, no frame that the allocator has, or that a fault took and has
  not installed, is tracked.
* `ReportIsPhysical`: `Spec => []PhysicalPagesReported`, from `ReportIsExact` in the
  same way.
* `SpecAccounts`, a lemma for the programs: no frame is lost. A frame of the
  allocator is free, in a page, or with a thread between allocation and
  installation or between unmap and flush (`Accounted`).

Assumed: `MMAssumption` (frames are not 0, and the zero page is none of the
allocator's); `OnlyWrites` where stated. Without it `UsesTable` is false, as
`mm_fork_copy` shows.

`LockBench_proofs`, for any number of threads, counters and iterations, each
type of lock and both versions: `BenchTypes`, `FreedWhenDone`,
`BenchImplementsMutex`. The invariant adds to the types that the word of the
lock says whether somebody is inside, and nobody is with another (`Exclusive`),
that the loops are within their bounds, and that who has been waited for is done.
`NoIncrementLost` and `ExpectedValueIsGained` count: what a counter has
gained is the cardinality of the set of pairs of a thread of that counter and the
number of an increment it has made (`Additions`). The store of an increment adds
one pair, and it stores one more than the counter holds because who has loaded
the counter is alone (`FreshLoad`). In the end each thread has made all its
increments, and a bijection deals the threads to the counters in rounds
(`Dealt`, `Rounds`) if the counters divide the threads.

`MatMulIPC_proofs`, for matrices, rows and pipes of any
size, failed forks and any number of killed children:

* `IPCTypes` and `SemaphoreKept`, from the invariant `Base`: types, the
  semaphore, that who has not been forked has done nothing, and the places of
  the parent that each program has.
* `RowsNeverMix`: `Spec => []RowsAreContiguous`. What is added (`Rows`) is that
  the whole stream, what the parent has read of a row and what is in the pipe,
  is rows after each other (`Whole`), of which only the last may lack something,
  and then its child holds the semaphore and is about to write just that
  (`Ended`). That is kept by every write as well as by every read.
* `ProgramsAreRowFarms`: `Spec => ImplementsRowFarm` for the three programs,
  from `Memory` (a row in shared memory is there as far as its child has come)
  and `Numbers` (each row is announced in the pipe once and before it is
  stored, and the parent has counted the rows it stored).

`CoopSched_proofs`, for any number of threads, penalties, slices and
granularities: `TypeCorrect`, `CreditBounded`, `PenaltiesBounded`. That a thread
has at most one penalty to pay is not inductive. What is needed (`Bounds`) is
that who runs has none, and, as long as nobody has asked for a reschedule, is
not more than a slice behind or is not behind any other (`NotBehind`); so the
penalty is added to a bounded vruntime. It uses that a finite set of vruntimes
has a least one (`WellFoundedInduction`). `SchedAssumption` asks penalties to be
natural numbers, of which there is at least one.

The same module proves of the programs of `CoopBench`, for which every step is a
step of `CoopSched` (`BenchIsSched`): `BenchTypeCorrect` and
`PenaltiesAreServed`, `BenchSpec => PenaltyIsServed`. The invariant `Rivalry`
relates vruntimes to the time a rival has run: the spinner is behind its rival by
the part of the penalty that the rival has not used. It holds when the spinner is
put back (`RivalryBegins`), because the rival was picked as one that is
behind nobody; it lasts (`RivalryLasts`), because `update_min_vruntime` moves
both, and only a tick of the rival itself brings them nearer (`RivalryTicks`).
Whoever is picked is behind nobody (`Picked`), so the penalty has been used up
when that is the spinner. `CoopBenchAssumption` adds that there is a greatest
penalty, which is an int in the code.

`MatrixBarrier_proofs`, for any sizes of matrix and tile and any number of
threads: `MatrixTypes`, `SumsAreInOrder`, `ResultIsComplete`. First arithmetic:
each row has exactly one owner (`Owner`, `OneOwner`), whether or not the threads
divide the rows. The invariant says that who is behind the barrier has seen
everybody at it (`Barrier`), that who is at it has transposed its rows
(`Transposed`), where the loops are (`Loops`), and of each cell exactly which
products it has, as a function of its owner's loop variables (`Sums`). When a
tile is multiplied, `Barrier`, `Transposed` and `Owner` together give that
`B_T` is complete, and `TileContinues` that the products go on where they ended.

`PageFaultBench_proofs`, for any number of threads, pages and frames:

* `ProgramsAreProcess`: `BenchSpec => Spec` of `ExtentMM`. With it, all that is
  proved of the hooks and of the table holds of the two programs.
* `GroupsLeaveNothing`: `BenchSpec => []GroupLeavesNothing`, if no allocation
  fails.
* `TestReportsItsPages`: `BenchSpec => []TestIsReported`, on the same condition.

The invariant `BenchInv` relates the programs to the kernel: how far main is with
its group (`Group`), that whatever the kernel does for a thread is about the heap
or about the page before the next one of its loop (`InKernel`), and of each page
of each buffer whether it has a frame, as a function of where its thread is
(`Pages`, `IsFilled`); `Told` says that the table was told of all buffers. After
the last join no page of a buffer has a frame, nobody is in the kernel, and
by `Accounted` all frames but that of the heap are free; by `Exact` the tree holds
no other. The report counts the array because frames and pages are in bijection
(`ArrayIsCounted`). `PageFaultAssumption` says which threads and pages there are,
and that the heap is in no buffer; `OnlyWrites` is assumed as in `ExtentMM`.

Only model-checked: all liveness (`NoStarvation`, `Terminates`,
`EverybodyFinishes`, `EverybodyRuns`, `StopIsHeard`), which needs fairness and
`ENABLED`, and that nobody gets stuck (deadlock) in the runs that check it.

## 6. Not modelled

* `GFP_KERNEL` under the spin lock (`project2.patch` 201): an allocation that
  sleeps there, or reclaims a page of the same process and so calls the hook
  under the lock, may stop the machine. The line says so; a model of
  it would only restate the kernel's rule.
* `app_helper` (project 1): a copy in and out of a buffer; no state remains.
* The build, benchmark and plot scripts.
* In the scheduler: several CPUs and migration between them, nice values, group
  scheduling, and penalties that are not natural numbers. The patch consults
  nothing of the other CPUs; what CFS does with them is not in the repository.
* A `pthread_create` that fails in `locks-bench` or in `project3/benchmark.c`
  (121): the program pins or joins a handle that was never written. The same case is modelled in `MatrixBarrier` and
  `PageFaultBench`, whose programs it also concerns.
* A `semctl`, `semget` or `semop` that fails in the IPC programs (`IPC-pipe.c` 30,
  40, 49): it prints, and the child goes on into the critical section without the
  semaphore, or leaves it taken. Nothing removes the semaphore while they run,
  and no handler interrupts them.
* The lock that the page-fault program creates and never acquires; an `munmap`
  that fails.
* The values of matrix elements, and the time the programs measure.

## 7. Plan

The order in which the project is built, most important first:

1. `Extent`, `ExtentTable` and its proofs; `ExtentMM`; `TicketLock` and its
   proofs; `Locks`, `LockBench`; `MatMulIPC`; `CoopSched`; `MatrixBarrier`: done.
2. What passes the hooks by in `ExtentMM`; `PageFaultBench`; both versions in
   `LockBench`; `Fork` in `CoopSched` and `CoopBench`; children that are killed in
   `MatMulIPC`; threads that cannot be created in `MatrixBarrier`: done.
3. Proofs: `ExtentMM` implements `ExtentTable`; `LockBench` implements `Mutex`;
   `MatMulIPC` implements `RowFarm`; the bounds of `CoopSched`; `SumsInOrder` and
   `Complete` in `MatrixBarrier`: done.
4. Proofs that build on these: the count of the report, in the table
   and in the process; the count of the benchmark; `TicketLock` implements
   `FifoMutex`; the penalty of `CoopBench`; and the two programs of
   `PageFaultBench`: done. Every safety property and refinement of a passing run
   is now a theorem.
5. `OnlyItsFrame` whatever fails, in the table and in the process: done.
6. What remains: which frames the tree holds too many or too few after failed
   allocations. `DamageStaysLocal` bounds what a step does; a theorem about the
   sum of the steps would need both sets as history variables.
