------------------------ MODULE PageFaultBench_proofs ------------------------
(***************************************************************************)
(* For any number of threads, pages and frames: the two programs are a     *)
(* process of ExtentMM that only writes its pages, a group of threads      *)
(* leaves nothing behind, and test.c is told of its own pages. What is     *)
(* proved of ExtentMM and of ExtentTable is used as it stands.             *)
(***************************************************************************)
EXTENDS PageFaultBench, ExtentMM_proofs, FiniteSetTheorems

MainPlaces ==
    IF program = "test" THEN {"start", "memset", "report", "munmap", "exit", "gone"}
    ELSE {"start", "create", "join", "exit", "gone"}

\* In test.c there is main alone.
WorkerPlaces ==
    IF program = "test" THEN {"none"}
    ELSE {"none", "absent", "mmap", "memset", "munmap", "return"}

Place ==
    {"none", "absent", "mmap", "memset", "munmap", "return",
     "start", "create", "join", "report", "exit", "gone"}

BenchTypes ==
    /\ program \in {"average", "test"} /\ using_extents \in BOOLEAN
    /\ program = "test" => using_extents
    /\ at \in [Thread -> Place]
    /\ at[Main] \in MainPlaces /\ \A t \in Worker : at[t] \in WorkerPlaces
    /\ next \in [Thread -> 0 .. num_pages]
    /\ i \in 0 .. num_threads

\* How far main is with its group.
Group ==
    /\ ~exiting
    /\ at[Main] = "start" =>
          i = 0 /\ next[Main] = 0 /\ \A t \in Worker : at[t] = "none"
    /\ at[Main] = "create" => \A t \in Worker : i <= t => at[t] = "none"
    /\ at[Main] = "join" => \A t \in Worker : t < i => at[t] \in {"absent", "return"}

OwnPage(t, n) == <<own_buffer(t), n>>

\* What the kernel does for a thread is about the heap, or the page before the
\* next one of the loop the thread is in.
InKernel ==
    \A t \in Thread : pc[t] # "idle" =>
        \/ /\ page[t] = Heap /\ pc[t] \in {"allocated", "installed"}
           /\ at[t] \notin {"none", "absent", "return"}
        \/ /\ next[t] > 0 /\ page[t] = OwnPage(t, next[t] - 1)
           /\ \/ at[t] = "memset" /\ pc[t] \in {"allocated", "installed"}
              \/ at[t] = "munmap" /\ pc[t] \in {"removed", "flushing"}

User(b) == IF program = "test" /\ b = 0 THEN Main ELSE b

\* The pages of a thread that have a frame.
IsFilled(t, n) ==
    \/ /\ at[t] = "memset" /\ n < next[t]
       /\ ~(pc[t] = "allocated" /\ page[t] = OwnPage(t, n))
    \/ /\ at[t] = "munmap"
       /\ \/ next[t] <= n
          \/ pc[t] = "removed" /\ page[t] = OwnPage(t, n)
    \/ at[t] = "report"

Pages ==
    \A b \in Worker, n \in 0 .. num_pages - 1 :
        pte[<<b, n>>] # NoFrame <=> IsFilled(User(b), n)

\* The table was not told of the heap at most.
Told ==
    /\ using_extents /\ at[Main] # "start" => use_extents
    /\ using_extents => early \subseteq {Heap}

BenchInv == BenchTypes /\ (Running => Group /\ InKernel /\ Pages /\ Told)
------------------------------------------------------------------------------
(* Threads and pages *)

LEMMA Threads ==
    /\ Main \in Thread /\ Worker \subseteq Thread /\ Worker \subseteq Nat
    /\ Main \notin Worker /\ 0 \in Worker /\ num_threads \in Nat \ {0}
    /\ \A t \in Thread : t = Main \/ t \in Worker
    /\ \A t \in Worker : t < num_threads
    /\ num_pages \in Nat
BY PageFaultAssumption DEF Main, Worker

LEMMA OwnBuffers ==
    /\ \A t \in Worker : own_buffer(t) = t
    /\ own_buffer(Main) = 0
<1>1. \A t \in Worker : t % num_threads = t
  <2>1. \A a, d \in Nat : a < d => a % d = a
    OBVIOUS
  <2> QED
    BY <2>1, Threads
<1> QED
  BY <1>1, Threads DEF own_buffer

LEMMA BufferPages ==
    /\ Heap \in VPage
    /\ \A b \in Worker, n \in 0 .. num_pages - 1 :
          <<b, n>> \in VPage /\ <<b, n>> # Heap
    /\ \A v \in VPage \ {Heap} :
          \E b \in Worker, n \in 0 .. num_pages - 1 : v = <<b, n>>
<1> DEFINE Buffers == UNION {Buffer(b) : b \in Worker}
<1>1. \A v : v \in Buffers <=> \E b \in Worker, n \in 0 .. num_pages - 1 : v = <<b, n>>
  BY DEF Buffer
<1>2. VPage = Buffers \cup {Heap}
  BY PageFaultAssumption
<1>3. Heap \notin Buffers
  BY PageFaultAssumption
<1> HIDE DEF Buffers
<1> QED
  BY <1>1, <1>2, <1>3

\* Each buffer has one user, and who fills or empties a buffer is its user.
LEMMA Users ==
    ASSUME BenchTypes
    PROVE  /\ \A b \in Worker : User(b) \in Thread /\ own_buffer(User(b)) = b
           /\ \A t \in Thread : at[t] \in {"memset", "munmap", "report"} =>
                 own_buffer(t) \in Worker /\ User(own_buffer(t)) = t
<1>1. \A t \in Worker : program = "test" => at[t] = "none"
  BY DEF BenchTypes, WorkerPlaces
<1>2. program # "test" => at[Main] \notin {"memset", "munmap", "report"}
  BY DEF BenchTypes, MainPlaces
<1> QED
  BY <1>1, <1>2, Threads, OwnBuffers DEF User

\* A thread that is in the kernel for a page of a buffer is the user of it.
LEMMA InKernelPage ==
    ASSUME BenchTypes, InKernel, NEW t \in Thread, pc[t] # "idle", page[t] # Heap
    PROVE  /\ next[t] > 0 /\ next[t] - 1 \in 0 .. num_pages - 1
           /\ page[t] = OwnPage(t, next[t] - 1)
           /\ own_buffer(t) \in Worker /\ User(own_buffer(t)) = t
           /\ \/ at[t] = "memset" /\ pc[t] \in {"allocated", "installed"}
              \/ at[t] = "munmap" /\ pc[t] \in {"removed", "flushing"}
<1>1. next[t] \in 0 .. num_pages
  BY DEF BenchTypes
<1>2. /\ next[t] > 0 /\ page[t] = OwnPage(t, next[t] - 1)
      /\ \/ at[t] = "memset" /\ pc[t] \in {"allocated", "installed"}
         \/ at[t] = "munmap" /\ pc[t] \in {"removed", "flushing"}
  BY DEF InKernel
<1>3. own_buffer(t) \in Worker /\ User(own_buffer(t)) = t
  BY <1>2, Users
<1>4. next[t] - 1 \in 0 .. num_pages - 1
  BY <1>1, <1>2, Threads
<1> QED
  BY <1>2, <1>3, <1>4

------------------------------------------------------------------------------
(* The steps of the kernel *)

\* What a step of thread t in the kernel leaves alone.
LEMMA KernelMoves ==
    ASSUME Places, NEW t \in Thread,
           InstallPte(t) \/ LoseRace(t) \/ HookInsert(t) \/ ClearPte(t) \/ FreeFrame(t)
    PROVE  /\ pc[t] # "idle" /\ page' = page /\ UNCHANGED <<use_extents, exiting>>
           /\ \A u \in Thread \ {t} : pc'[u] = pc[u]
           /\ \A v \in VPage \ {page[t]} : pte'[v] = pte[v]
           /\ \/ /\ pc[t] = "allocated" /\ pc'[t] = "installed" /\ early' = early
                 /\ pte'[page[t]] = frame[t]
              \/ /\ pc[t] = "allocated" /\ pc'[t] = "idle" /\ early' = early
                 /\ pte' = pte /\ pte[page[t]] # NoFrame
              \/ /\ pc[t] = "installed" /\ pc'[t] = "idle" /\ pte' = pte
                 /\ early' = IF use_extents THEN early \ {page[t]} ELSE early \cup {page[t]}
              \/ /\ pc[t] = "removed" /\ pc'[t] = "flushing"
                 /\ pte'[page[t]] = NoFrame /\ early' = early \ {page[t]}
              \/ /\ pc[t] = "flushing" /\ pc'[t] = "idle"
                 /\ pte' = pte /\ early' = early
<1>1. /\ page[t] \in VPage /\ page \in [Thread -> VPage]
      /\ pte \in [VPage -> AnyFrame \cup {NoFrame}]
      /\ pc \in [Thread -> {"idle", "allocated", "installed", "removed", "flushing"}]
  BY DEF Places
<1>2. CASE InstallPte(t)
  BY <1>1, <1>2 DEF InstallPte, Go
<1>3. CASE LoseRace(t)
  BY <1>1, <1>3 DEF LoseRace, Go
<1>4. CASE HookInsert(t)
  BY <1>1, <1>4 DEF HookInsert, Go
<1>5. CASE ClearPte(t)
  BY <1>1, <1>5 DEF ClearPte, Go
<1>6. CASE FreeFrame(t)
  BY <1>1, <1>6 DEF FreeFrame, Go
<1> QED
  BY <1>2, <1>3, <1>4, <1>5, <1>6

LEMMA KernelKeepsPages ==
    ASSUME Writing, BenchTypes, InKernel, Pages, NEW t \in Thread, Kernel(t)
    PROVE  InKernel' /\ Pages'
<1>1. /\ pc[t] # "idle" /\ page' = page
      /\ \A u \in Thread \ {t} : pc'[u] = pc[u]
      /\ \A v \in VPage \ {page[t]} : pte'[v] = pte[v]
      /\ \/ /\ pc[t] = "allocated" /\ pc'[t] = "installed" /\ pte'[page[t]] = frame[t]
         \/ /\ pc[t] = "allocated" /\ pc'[t] = "idle"
            /\ pte' = pte /\ pte[page[t]] # NoFrame
         \/ pc[t] = "installed" /\ pc'[t] = "idle" /\ pte' = pte
         \/ pc[t] = "removed" /\ pc'[t] = "flushing" /\ pte'[page[t]] = NoFrame
         \/ pc[t] = "flushing" /\ pc'[t] = "idle" /\ pte' = pte
  BY KernelMoves DEF Writing, Inv, Kernel
<1>2. UNCHANGED <<program, at, next>>
  BY DEF Kernel, benchVars
<1>3. InKernel'
  BY <1>1, <1>2 DEF InKernel, OwnPage, own_buffer
<1>4. ASSUME NEW b \in Worker, NEW n \in 0 .. num_pages - 1
      PROVE  pte'[<<b, n>>] # NoFrame <=> IsFilled(User(b), n)'
  <2> DEFINE u == User(b)
  <2>1. u \in Thread /\ own_buffer(u) = b /\ User(b)' = u
    BY <1>2, Users DEF User
  <2>2. pte[<<b, n>>] # NoFrame <=> IsFilled(u, n)
    BY DEF Pages
  <2>3. <<b, n>> \in VPage /\ <<b, n>> # Heap
    BY BufferPages
  <2>4. OwnPage(u, n) = <<b, n>>
    BY <2>1 DEF OwnPage
  <2> HIDE DEF u
  <2>5. IsFilled(User(b), n)' <=>
            \/ /\ at[u] = "memset" /\ n < next[u]
               /\ ~(pc'[u] = "allocated" /\ page[u] = <<b, n>>)
            \/ /\ at[u] = "munmap"
               /\ next[u] <= n \/ (pc'[u] = "removed" /\ page[u] = <<b, n>>)
            \/ at[u] = "report"
    BY <1>1, <1>2, <2>1, <2>4 DEF IsFilled, OwnPage, own_buffer
  <2>6. IsFilled(u, n) <=>
            \/ /\ at[u] = "memset" /\ n < next[u]
               /\ ~(pc[u] = "allocated" /\ page[u] = <<b, n>>)
            \/ /\ at[u] = "munmap"
               /\ next[u] <= n \/ (pc[u] = "removed" /\ page[u] = <<b, n>>)
            \/ at[u] = "report"
    BY <2>4 DEF IsFilled
  <2>7. CASE page[t] # <<b, n>>
    <3>1. pte'[<<b, n>>] = pte[<<b, n>>]
      BY <1>1, <2>3, <2>7
    <3>2. u # t => pc'[u] = pc[u]
      BY <1>1, <2>1
    <3> QED
      BY <2>2, <2>5, <2>6, <2>7, <3>1, <3>2
  <2>8. CASE page[t] = <<b, n>>
    <3>1. /\ next[t] > 0 /\ page[t] = OwnPage(t, next[t] - 1)
          /\ User(own_buffer(t)) = t
          /\ \/ at[t] = "memset" /\ pc[t] \in {"allocated", "installed"}
             \/ at[t] = "munmap" /\ pc[t] \in {"removed", "flushing"}
      BY <1>1, <2>3, <2>8, InKernelPage
    <3>2. own_buffer(t) = b /\ n = next[t] - 1 /\ u = t
      BY <2>8, <3>1 DEF OwnPage, u
    <3>3. next[t] \in Nat /\ n < next[t] /\ ~(next[t] <= n)
      BY <3>2, <3>1 DEF BenchTypes
    <3>4. pc[t] = "allocated" => frame[t] # NoFrame
      BY FramesAreSomething DEF Writing, OnePlace, Owns
    <3> QED
      BY <1>1, <2>2, <2>5, <2>6, <2>8, <3>1, <3>2, <3>3, <3>4
  <2> QED
    BY <2>7, <2>8
<1>5. Pages'
  BY <1>4 DEF Pages
<1> QED
  BY <1>3, <1>5

LEMMA KernelStep ==
    ASSUME Writing, BenchInv, NEW t \in Thread, Kernel(t)
    PROVE  BenchInv'
<1>1. UNCHANGED benchVars
  BY DEF Kernel
<1>2. BenchTypes' /\ (Running' <=> Running)
  BY <1>1 DEF BenchInv, BenchTypes, benchVars, Running, MainPlaces, WorkerPlaces
<1>3. ASSUME Running
      PROVE  Group' /\ InKernel' /\ Pages' /\ Told'
  <2>1. BenchTypes /\ Group /\ InKernel /\ Pages /\ Told
    BY <1>3 DEF BenchInv
  <2>2. InKernel' /\ Pages'
    BY <2>1, KernelKeepsPages
  <2>3. /\ pc[t] # "idle" /\ page' = page /\ UNCHANGED <<use_extents, exiting>>
        /\ \/ early' \in {early, early \ {page[t]}}
           \/ pc[t] = "installed" /\ ~use_extents /\ early' = early \cup {page[t]}
    BY KernelMoves DEF Writing, Inv, Kernel
  <2>4. Group'
    BY <1>1, <2>1, <2>3 DEF Group, benchVars
  <2>5. Told'
    <3>1. CASE early' \in {early, early \ {page[t]}}
      BY <1>1, <2>1, <2>3, <3>1 DEF Told, benchVars
    <3>2. CASE pc[t] = "installed" /\ ~use_extents /\ early' = early \cup {page[t]}
                 /\ using_extents
      <4>1. at[Main] = "start" /\ \A u \in Worker : at[u] = "none"
        BY <2>1, <3>2 DEF Told, Group
      <4>2. at[t] \in {"start", "none"}
        BY <4>1, Threads
      <4>3. page[t] = Heap
        BY <2>1, <2>3, <4>2, InKernelPage
      <4> QED
        BY <1>1, <2>1, <2>3, <3>2, <4>3 DEF Told, benchVars
    <3>3. CASE ~using_extents
      BY <1>1, <3>3 DEF Told, benchVars
    <3> QED
      BY <2>3, <3>1, <3>2, <3>3 DEF BenchInv, BenchTypes
  <2> QED
    BY <2>2, <2>4, <2>5
<1> QED
  BY <1>2, <1>3 DEF BenchInv
------------------------------------------------------------------------------
(* The steps of the programs *)

\* A thread enters the kernel to write page v.
LEMMA WriteFaultMoves ==
    ASSUME Places, NEW t \in Thread, NEW v \in VPage, WriteFault(t, v)
    PROVE  /\ pc[t] = "idle" /\ pc'[t] = "allocated" /\ page'[t] = v
           /\ \A u \in Thread \ {t} : pc'[u] = pc[u] /\ page'[u] = page[u]
           /\ UNCHANGED <<pte, early, use_extents, exiting>>
BY DEF Places, WriteFault, Go

LEMMA HookRemoveMoves ==
    ASSUME Places, NEW t \in Thread, NEW v \in VPage, HookRemove(t, v)
    PROVE  /\ pc[t] = "idle" /\ pc'[t] = "removed" /\ page'[t] = v
           /\ \A u \in Thread \ {t} : pc'[u] = pc[u] /\ page'[u] = page[u]
           /\ UNCHANGED <<pte, early, use_extents, exiting>>
BY DEF Places, HookRemove, Go

LEMMA TouchHeapStep ==
    ASSUME Writing, BenchInv, NEW t \in Thread, TouchHeap(t)
    PROVE  BenchInv'
<1>1. UNCHANGED benchVars /\ Running /\ at[t] \notin {"none", "absent", "return"}
  BY DEF TouchHeap
<1>2. BenchTypes' /\ Running'
  BY <1>1 DEF BenchInv, BenchTypes, benchVars, Running, MainPlaces, WorkerPlaces
<1>3. BenchTypes /\ Group /\ InKernel /\ Pages /\ Told
  BY <1>1 DEF BenchInv
<1>4. /\ pc[t] = "idle" /\ pc'[t] = "allocated" /\ page'[t] = Heap
      /\ \A u \in Thread \ {t} : pc'[u] = pc[u] /\ page'[u] = page[u]
      /\ UNCHANGED <<pte, early, use_extents, exiting>>
  BY BufferPages, WriteFaultMoves DEF TouchHeap, Writing, Inv
<1>5. InKernel'
  BY <1>1, <1>3, <1>4 DEF InKernel, OwnPage, own_buffer, benchVars
<1>6. Group' /\ Told'
  BY <1>1, <1>3, <1>4 DEF Group, Told, benchVars
<1>7. ASSUME NEW b \in Worker, NEW n \in 0 .. num_pages - 1
      PROVE  pte'[<<b, n>>] # NoFrame <=> IsFilled(User(b), n)'
  <2> DEFINE u == User(b)
  <2>1. u \in Thread /\ own_buffer(u) = b /\ User(b)' = u
    BY <1>1, <1>3, Users DEF User, benchVars
  <2>2. pte[<<b, n>>] # NoFrame <=> IsFilled(u, n)
    BY <1>3 DEF Pages
  <2>3. OwnPage(u, n) = <<b, n>> /\ <<b, n>> # Heap
    BY <2>1, BufferPages DEF OwnPage
  <2> HIDE DEF u
  <2>4. IsFilled(User(b), n)' <=> IsFilled(u, n)
    BY <1>1, <1>4, <2>1, <2>3 DEF IsFilled, OwnPage, own_buffer, benchVars
  <2> QED
    BY <1>4, <2>2, <2>4
<1>8. Pages'
  BY <1>7 DEF Pages
<1> QED
  BY <1>2, <1>5, <1>6, <1>8 DEF BenchInv

\* The loops that fault a buffer in and unmap it.
LEMMA LoopStep ==
    ASSUME Writing, BenchInv, NEW t \in Thread, Memset(t) \/ Munmap(t)
    PROVE  BenchInv' /\ OwnPage(t, next[t]) \in VPage
<1>1. /\ Running /\ at[t] \in {"memset", "munmap"} /\ next[t] < num_pages
      /\ next' = [next EXCEPT ![t] = @ + 1]
      /\ UNCHANGED <<program, using_extents, at, i>>
  BY DEF Memset, Munmap
<1>2. BenchTypes /\ Group /\ InKernel /\ Pages /\ Told
  BY <1>1 DEF BenchInv
<1>3. /\ own_buffer(t) \in Worker /\ User(own_buffer(t)) = t
      /\ next[t] \in 0 .. num_pages - 1 /\ next[t] \in Nat
      /\ next \in [Thread -> 0 .. num_pages]
  BY <1>1, <1>2, Users, Threads DEF BenchTypes
<1>4. next'[t] = next[t] + 1 /\ \A u \in Thread \ {t} : next'[u] = next[u]
  BY <1>1, <1>3
<1>5. BenchTypes' /\ Running'
  <2>1. next[t] + 1 \in 0 .. num_pages
    BY <1>3, Threads
  <2>2. next' \in [Thread -> 0 .. num_pages]
    BY <1>1, <1>3, <2>1
  <2> QED
    BY <1>1, <1>2, <2>2 DEF BenchTypes, Running, MainPlaces, WorkerPlaces
<1>6. OwnPage(t, next[t]) \in VPage
  BY <1>3, BufferPages DEF OwnPage
<1>7. /\ pc[t] = "idle" /\ page'[t] = OwnPage(t, next[t])
      /\ pc'[t] = IF at[t] = "memset" THEN "allocated" ELSE "removed"
      /\ \A u \in Thread \ {t} : pc'[u] = pc[u] /\ page'[u] = page[u]
      /\ UNCHANGED <<pte, early, use_extents, exiting>>
  <2>1. CASE Memset(t)
    BY <1>6, <2>1, WriteFaultMoves DEF Memset, OwnPage, Writing, Inv
  <2>2. CASE Munmap(t)
    BY <1>6, <2>2, HookRemoveMoves DEF Munmap, OwnPage, Writing, Inv
  <2> QED
    BY <2>1, <2>2
<1>8. InKernel'
  <2>1. next'[t] > 0 /\ next'[t] - 1 = next[t]
    BY <1>3, <1>4
  <2>2. \A u \in Thread : \A n : OwnPage(u, n)' = OwnPage(u, n)
    BY DEF OwnPage, own_buffer
  <2> SUFFICES ASSUME NEW u \in Thread, pc'[u] # "idle"
               PROVE  \/ /\ page'[u] = Heap /\ pc'[u] \in {"allocated", "installed"}
                         /\ at'[u] \notin {"none", "absent", "return"}
                      \/ /\ next'[u] > 0 /\ page'[u] = OwnPage(u, next'[u] - 1)
                         /\ \/ at'[u] = "memset" /\ pc'[u] \in {"allocated", "installed"}
                            \/ at'[u] = "munmap" /\ pc'[u] \in {"removed", "flushing"}
    BY DEF InKernel, OwnPage, own_buffer
  <2>3. CASE u = t
    BY <1>1, <1>7, <2>1, <2>3
  <2>4. CASE u # t
    BY <1>1, <1>2, <1>4, <1>7, <2>4 DEF InKernel
  <2> QED
    BY <2>3, <2>4
<1>9. Group' /\ Told'
  <2>1. at[Main] = "start" => t # Main
    BY <1>1
  <2> QED
    BY <1>1, <1>2, <1>4, <1>7, <2>1, Threads DEF Group, Told
<1>10. ASSUME NEW b \in Worker, NEW n \in 0 .. num_pages - 1
       PROVE  pte'[<<b, n>>] # NoFrame <=> IsFilled(User(b), n)'
  <2> DEFINE u == User(b)
  <2>1. u \in Thread /\ own_buffer(u) = b /\ User(b)' = u
    BY <1>1, <1>2, Users DEF User
  <2>2. pte[<<b, n>>] # NoFrame <=> IsFilled(u, n)
    BY <1>2 DEF Pages
  <2>3. OwnPage(u, n) = <<b, n>>
    BY <2>1 DEF OwnPage
  <2> HIDE DEF u
  <2>4. IsFilled(User(b), n)' <=>
            \/ /\ at[u] = "memset" /\ n < next'[u]
               /\ ~(pc'[u] = "allocated" /\ page'[u] = <<b, n>>)
            \/ /\ at[u] = "munmap"
               /\ next'[u] <= n \/ (pc'[u] = "removed" /\ page'[u] = <<b, n>>)
            \/ at[u] = "report"
    BY <1>1, <2>1, <2>3 DEF IsFilled, OwnPage, own_buffer
  <2>5. IsFilled(u, n) <=>
            \/ /\ at[u] = "memset" /\ n < next[u]
               /\ ~(pc[u] = "allocated" /\ page[u] = <<b, n>>)
            \/ /\ at[u] = "munmap"
               /\ next[u] <= n \/ (pc[u] = "removed" /\ page[u] = <<b, n>>)
            \/ at[u] = "report"
    BY <2>3 DEF IsFilled
  <2>6. CASE u # t
    BY <1>4, <1>7, <2>1, <2>2, <2>4, <2>5, <2>6
  <2>7. CASE u = t
    <3>1. page'[u] = <<b, n>> <=> n = next[u]
      BY <1>7, <2>1, <2>7 DEF OwnPage
    <3>2. n \in Nat
      OBVIOUS
    <3> QED
      BY <1>1, <1>3, <1>4, <1>7, <2>2, <2>4, <2>5, <2>7, <3>1, <3>2
  <2> QED
    BY <2>6, <2>7
<1>11. Pages'
  BY <1>10 DEF Pages
<1> QED
  BY <1>5, <1>6, <1>8, <1>9, <1>11 DEF BenchInv
\* Where nothing happens in the kernel: who moves is outside it, and has filled
\* as much of its buffer after the move as before.
LEMMA QuietMove ==
    ASSUME BenchTypes, InKernel, Pages, UNCHANGED <<pc, page, pte, program>>,
           \A u \in Thread :
              \/ at'[u] = at[u] /\ next'[u] = next[u]
              \/ /\ \/ pc[u] = "idle"
                    \/ /\ page[u] = Heap /\ pc[u] \in {"allocated", "installed"}
                       /\ at'[u] \notin {"none", "absent", "return"}
                 /\ \A n \in 0 .. num_pages - 1 : IsFilled(u, n)' <=> IsFilled(u, n)
    PROVE  InKernel' /\ Pages'
<1>1. InKernel'
  <2> SUFFICES ASSUME NEW u \in Thread, pc'[u] # "idle"
               PROVE  \/ /\ page'[u] = Heap /\ pc'[u] \in {"allocated", "installed"}
                         /\ at'[u] \notin {"none", "absent", "return"}
                      \/ /\ next'[u] > 0 /\ page'[u] = OwnPage(u, next'[u] - 1)
                         /\ \/ at'[u] = "memset" /\ pc'[u] \in {"allocated", "installed"}
                            \/ at'[u] = "munmap" /\ pc'[u] \in {"removed", "flushing"}
    BY DEF InKernel, OwnPage, own_buffer
  <2>1. CASE at'[u] = at[u] /\ next'[u] = next[u]
    BY <2>1 DEF InKernel
  <2>2. CASE /\ page[u] = Heap /\ pc[u] \in {"allocated", "installed"}
             /\ at'[u] \notin {"none", "absent", "return"}
    BY <2>2
  <2> QED
    BY <2>1, <2>2
<1>2. ASSUME NEW b \in Worker, NEW n \in 0 .. num_pages - 1
      PROVE  pte'[<<b, n>>] # NoFrame <=> IsFilled(User(b), n)'
  <2>1. PICK u \in Thread : u = User(b) /\ User(b)' = u
    BY Users DEF User
  <2>2. pte[<<b, n>>] # NoFrame <=> IsFilled(u, n)
    BY <2>1 DEF Pages
  <2>3. IsFilled(User(b), n)' <=> IsFilled(u, n)'
    BY <2>1 DEF IsFilled, OwnPage, own_buffer
  <2>4. IsFilled(u, n)' <=> IsFilled(u, n)
    <3>1. CASE at'[u] = at[u] /\ next'[u] = next[u]
      BY <3>1 DEF IsFilled, OwnPage, own_buffer
    <3> QED
      BY <3>1
  <2> QED
    BY <2>2, <2>3, <2>4
<1> QED
  BY <1>1, <1>2 DEF Pages

\* What GoOn changes.
LEMMA GoOnMoves ==
    ASSUME BenchTypes, NEW t \in Thread, NEW from, NEW to, GoOn(t, from, to)
    PROVE  /\ Running /\ at[t] = from /\ pc[t] = "idle" /\ at'[t] = to /\ next'[t] = 0
           /\ \A u \in Thread \ {t} : at'[u] = at[u] /\ next'[u] = next[u]
           /\ UNCHANGED <<vars, program, using_extents>>
           /\ UNCHANGED <<pc, page, pte, early, use_extents, exiting>>
           /\ next' \in [Thread -> 0 .. num_pages]
           /\ to \in Place => at' \in [Thread -> Place]
BY Threads DEF GoOn, BenchTypes, vars

\* A thread goes on to its next loop.
LEMMA WorkerGoesOn ==
    ASSUME BenchInv, NEW t \in Worker, Map(t) \/ Filled(t) \/ Unmapped(t)
    PROVE  BenchInv'
<1>1. PICK from, to : /\ GoOn(t, from, to) /\ i' = i
                      /\ \/ from = "mmap" /\ to \in {"memset", "return"}
                         \/ from = "memset" /\ to = "munmap" /\ next[t] = num_pages
                         \/ from = "munmap" /\ to = "return" /\ next[t] = num_pages
  BY Threads DEF Map, Filled, Unmapped
<1>2. t \in Thread /\ t # Main
  BY Threads
<1>3. /\ BenchTypes /\ Running /\ Group /\ InKernel /\ Pages /\ Told
      /\ to \in Place
  BY <1>1 DEF GoOn, BenchInv, Place
<1>4. /\ at[t] = from /\ pc[t] = "idle" /\ at'[t] = to /\ next'[t] = 0
      /\ \A u \in Thread \ {t} : at'[u] = at[u] /\ next'[u] = next[u]
      /\ UNCHANGED <<pc, page, pte, early, use_extents, exiting, program, using_extents>>
      /\ next' \in [Thread -> 0 .. num_pages] /\ at' \in [Thread -> Place]
  BY <1>1, <1>2, <1>3, GoOnMoves
<1>5. program # "test"
  BY <1>1, <1>3, <1>4 DEF BenchTypes, WorkerPlaces
<1>6. BenchTypes' /\ Running'
  BY <1>1, <1>2, <1>3, <1>4, <1>5, Threads
  DEF BenchTypes, Running, MainPlaces, WorkerPlaces
<1>7. \A n \in 0 .. num_pages - 1 : IsFilled(t, n)' <=> IsFilled(t, n)
  BY <1>1, <1>4, Threads DEF IsFilled, OwnPage, own_buffer
<1>8. InKernel' /\ Pages'
  BY <1>2, <1>3, <1>4, <1>7, QuietMove
<1>9. Group' /\ Told'
  BY <1>1, <1>2, <1>3, <1>4, Threads DEF Group, Told
<1> QED
  BY <1>6, <1>8, <1>9 DEF BenchInv

\* Main goes on in either program.
LEMMA MainGoesOn ==
    ASSUME BenchInv, CreatedAll \/ Filled(Main) \/ Report \/ Unmapped(Main)
    PROVE  BenchInv'
<1>1. PICK from, to : /\ GoOn(Main, from, to)
                      /\ \/ from = "create" /\ to = "join" /\ i' = 0
                         \/ from = "memset" /\ to = "report" /\ i' = i
                            /\ next[Main] = num_pages
                         \/ from = "report" /\ to = "munmap" /\ i' = i
                         \/ from = "munmap" /\ to = "exit" /\ i' = i
  BY DEF CreatedAll, Filled, Report, Unmapped
<1>2. /\ BenchTypes /\ Running /\ Group /\ InKernel /\ Pages /\ Told
      /\ to \in Place
  BY <1>1 DEF GoOn, BenchInv, Place
<1>3. /\ at[Main] = from /\ pc[Main] = "idle" /\ at'[Main] = to /\ next'[Main] = 0
      /\ \A u \in Thread \ {Main} : at'[u] = at[u] /\ next'[u] = next[u]
      /\ UNCHANGED <<pc, page, pte, early, use_extents, exiting, program, using_extents>>
      /\ next' \in [Thread -> 0 .. num_pages] /\ at' \in [Thread -> Place]
  BY <1>1, <1>2, Threads, GoOnMoves
<1>4. BenchTypes'
  BY <1>1, <1>2, <1>3, Threads DEF BenchTypes, MainPlaces, WorkerPlaces
<1>5. CASE from = "munmap"
  BY <1>1, <1>3, <1>4, <1>5 DEF BenchInv, Running
<1>6. CASE from # "munmap"
  <2>1. \A n \in 0 .. num_pages - 1 : IsFilled(Main, n)' <=> IsFilled(Main, n)
    BY <1>1, <1>3, <1>6, Threads DEF IsFilled, OwnPage, own_buffer
  <2>2. InKernel' /\ Pages'
    BY <1>2, <1>3, <2>1, QuietMove
  <2>3. Group' /\ Told'
    BY <1>1, <1>2, <1>3, <1>6, Threads DEF Group, Told
  <2> QED
    BY <1>4, <2>2, <2>3 DEF BenchInv
<1> QED
  BY <1>5, <1>6

\* Main sets the flag, if it is asked to, before it starts a thread.
LEMMA UseExtentsStep ==
    ASSUME BenchInv, UseExtents
    PROVE  BenchInv'
<1>1. /\ at[Main] = "start" /\ Running /\ UNCHANGED <<program, using_extents, next, i>>
      /\ at' = [at EXCEPT ![Main] = IF program = "test" THEN "memset" ELSE "create"]
  BY DEF UseExtents, Running
<1>2. BenchTypes /\ Group /\ InKernel /\ Pages /\ Told
  BY <1>1 DEF BenchInv
<1>3. /\ UNCHANGED <<pc, page, pte, early, exiting>>
      /\ using_extents => pc[Main] = "idle" /\ use_extents'
      /\ ~using_extents => use_extents' = use_extents
  BY <1>2 DEF UseExtents, SyscallUseExtents, vars, threadVars, BenchTypes
<1>4. /\ at'[Main] = IF program = "test" THEN "memset" ELSE "create"
      /\ \A u \in Thread \ {Main} : at'[u] = at[u]
  BY <1>1, <1>2, Threads DEF BenchTypes
<1>5. BenchTypes'
  <2>1. (IF program = "test" THEN "memset" ELSE "create") \in Place
    BY DEF Place
  <2>2. at' \in [Thread -> Place]
    BY <1>1, <1>2, <2>1 DEF BenchTypes
  <2> QED
    BY <1>1, <1>2, <1>4, <2>2, Threads DEF BenchTypes, MainPlaces, WorkerPlaces
<1>6. \A n \in 0 .. num_pages - 1 : IsFilled(Main, n)' <=> IsFilled(Main, n)
  BY <1>1, <1>2, <1>3, <1>4, Threads DEF IsFilled, OwnPage, own_buffer, Group
<1>7. pc[Main] # "idle" => /\ page[Main] = Heap /\ at'[Main] = "create"
                          /\ pc[Main] \in {"allocated", "installed"}
  BY <1>1, <1>2, <1>3, <1>4, Threads DEF InKernel, BenchTypes
<1>8. InKernel' /\ Pages'
  BY <1>1, <1>2, <1>3, <1>4, <1>6, <1>7, QuietMove
<1>9. Group' /\ Told'
  BY <1>1, <1>2, <1>3, <1>4, Threads DEF Group, Told, BenchTypes
<1> QED
  BY <1>5, <1>8, <1>9 DEF BenchInv

\* A thread that main has started, or not, was outside the kernel.
LEMMA CreateStep ==
    ASSUME BenchInv, Create
    PROVE  BenchInv'
<1>1. PICK where \in {"mmap", "absent"} : at' = [at EXCEPT ![i] = where]
  BY DEF Create
<1>2. /\ at[Main] = "create" /\ Running /\ i < num_threads /\ i' = i + 1
      /\ UNCHANGED <<vars, program, using_extents, next>>
      /\ UNCHANGED <<pc, page, pte, early, use_extents, exiting>>
  BY DEF Create, Running, vars
<1>3. BenchTypes /\ Group /\ InKernel /\ Pages /\ Told
  BY <1>2 DEF BenchInv
<1>4. PICK t \in Worker : t = i
  BY <1>2, <1>3, Threads DEF BenchTypes, Worker
<1>5. /\ t \in Thread /\ t # Main /\ at'[t] = where /\ at[t] = "none" /\ pc[t] = "idle"
      /\ \A u \in Thread \ {t} : at'[u] = at[u]
      /\ at' \in [Thread -> Place]
  <2>1. t \in Thread /\ t # Main /\ where \in Place /\ i <= t
    BY <1>3, <1>4, Threads DEF BenchTypes, Place
  <2>2. at[t] = "none"
    BY <1>2, <1>3, <1>4, <2>1 DEF Group
  <2>3. pc[t] = "idle"
    BY <1>3, <2>1, <2>2 DEF InKernel
  <2>4. at' = [at EXCEPT ![t] = where] /\ at \in [Thread -> Place]
    BY <1>1, <1>3, <1>4 DEF BenchTypes
  <2> QED
    BY <2>1, <2>2, <2>3, <2>4
<1>6. program # "test" /\ i + 1 \in 0 .. num_threads
  BY <1>2, <1>3, Threads DEF BenchTypes, MainPlaces
<1>7. BenchTypes' /\ Running'
  BY <1>2, <1>3, <1>5, <1>6, Threads DEF BenchTypes, MainPlaces, WorkerPlaces, Running
<1>8. \A n \in 0 .. num_pages - 1 : IsFilled(t, n)' <=> IsFilled(t, n)
  BY <1>2, <1>5 DEF IsFilled
<1>9. InKernel' /\ Pages'
  BY <1>2, <1>3, <1>5, <1>8, QuietMove
<1>10. Group' /\ Told'
  BY <1>2, <1>3, <1>4, <1>5, Threads DEF Group, Told, BenchTypes
<1> QED
  BY <1>7, <1>9, <1>10 DEF BenchInv
\* A thread of the group that is not there, or has returned, is joined.
LEMMA JoinStep ==
    ASSUME BenchInv, Join \/ JoinNothing
    PROVE  BenchInv'
<1>1. /\ at[Main] = "join" /\ Running /\ i < num_threads
      /\ at[i] \in {"absent", "return"}
      /\ UNCHANGED <<program, using_extents, next>>
      /\ UNCHANGED <<pc, page, pte, early, use_extents, exiting>>
      /\ \/ i' = i + 1 /\ at' = at
         \/ i' = i /\ at' = [at EXCEPT ![Main] = "exit"]
  BY DEF Join, JoinNothing, Running, vars
<1>2. BenchTypes /\ Group /\ InKernel /\ Pages /\ Told
  BY <1>1 DEF BenchInv
<1>3. CASE i' = i + 1 /\ at' = at
  <2>1. BenchTypes'
    BY <1>1, <1>2, <1>3, Threads DEF BenchTypes, MainPlaces, WorkerPlaces
  <2>2. InKernel' /\ Pages'
    BY <1>1, <1>2, <1>3, QuietMove
  <2>3. Group' /\ Told'
    BY <1>1, <1>2, <1>3, Threads DEF Group, Told, BenchTypes
  <2> QED
    BY <2>1, <2>2, <2>3 DEF BenchInv
<1>4. CASE i' = i /\ at' = [at EXCEPT ![Main] = "exit"]
  <2>1. at' \in [Thread -> Place] /\ at'[Main] = "exit"
        /\ \A t \in Worker : at'[t] = at[t]
    BY <1>2, <1>4, Threads DEF BenchTypes, Place
  <2>2. BenchTypes'
    BY <1>1, <1>2, <1>4, <2>1, Threads DEF BenchTypes, MainPlaces, WorkerPlaces
  <2> QED
    BY <2>1, <2>2 DEF BenchInv, Running
<1> QED
  BY <1>1, <1>3, <1>4

\* When all are joined none of them is in the kernel: the group is over.
LEMMA JoinedAllStep ==
    ASSUME BenchInv, JoinedAll
    PROVE  BenchInv'
<1>1. PICK to \in {"create", "exit"} :
         at' = [t \in Thread |-> IF t = Main THEN to ELSE "none"]
  BY DEF JoinedAll
<1>2. /\ at[Main] = "join" /\ Running /\ pc[Main] = "idle" /\ i = num_threads /\ i' = 0
      /\ UNCHANGED <<program, using_extents, next>>
      /\ UNCHANGED <<pc, page, pte, early, use_extents, exiting>>
  BY DEF JoinedAll, Running, vars
<1>3. BenchTypes /\ Group /\ InKernel /\ Pages /\ Told
  BY <1>2 DEF BenchInv
<1>4. /\ at'[Main] = to /\ \A t \in Worker : at'[t] = "none"
      /\ at' \in [Thread -> Place]
  BY <1>1, Threads DEF Place
<1>5. \A t \in Worker : at[t] \in {"absent", "return"} /\ pc[t] = "idle"
  BY <1>2, <1>3, Threads DEF Group, InKernel
<1>6. BenchTypes'
  BY <1>2, <1>3, <1>4, Threads DEF BenchTypes, MainPlaces, WorkerPlaces
<1>7. \A t \in Thread : /\ pc[t] = "idle"
                        /\ at[t] \notin {"memset", "munmap", "report"}
                        /\ at'[t] \notin {"memset", "munmap", "report"}
  BY <1>2, <1>4, <1>5, Threads
<1>8. \A t \in Thread : \A n \in 0 .. num_pages - 1 : IsFilled(t, n)' <=> IsFilled(t, n)
  BY <1>7 DEF IsFilled
<1>9. InKernel' /\ Pages'
  BY <1>2, <1>3, <1>7, <1>8, QuietMove
<1>10. Group' /\ Told'
  BY <1>2, <1>3, <1>4 DEF Group, Told
<1> QED
  BY <1>6, <1>9, <1>10 DEF BenchInv

\* The end of the process.
LEMMA ExitStepOfMain ==
    ASSUME BenchInv, Exit
    PROVE  BenchInv'
<1>1. /\ at[Main] = "exit" /\ at'[Main] \in {"exit", "gone"}
      /\ at' = at \/ at' = [at EXCEPT ![Main] = "gone"]
      /\ UNCHANGED <<program, using_extents, next, i>>
  BY Threads DEF Exit, BenchInv, BenchTypes
<1>2. at' \in [Thread -> Place] /\ \A t \in Worker : at'[t] = at[t]
  BY <1>1, Threads DEF BenchInv, BenchTypes, Place
<1>3. BenchTypes'
  BY <1>1, <1>2 DEF BenchInv, BenchTypes, MainPlaces, WorkerPlaces
<1> QED
  BY <1>1, <1>3 DEF BenchInv, Running
------------------------------------------------------------------------------
(* The programs are a process of ExtentMM *)

LEMMA BenchStep ==
    ASSUME Writing, BenchInv, [BenchNext]_allVars
    PROVE  BenchInv'
<1>1. CASE UNCHANGED allVars
  BY <1>1 DEF allVars, benchVars, vars, BenchInv, BenchTypes, MainPlaces, WorkerPlaces,
              Running, Group, InKernel, OwnPage, own_buffer, Pages, IsFilled, User, Told
<1>2. CASE \E t \in Thread : Memset(t) \/ Munmap(t)
  BY <1>2, LoopStep
<1>3. CASE \E t \in Thread : Kernel(t) \/ TouchHeap(t)
  BY <1>3, KernelStep, TouchHeapStep
<1>4. CASE \E t \in Worker : Map(t) \/ Filled(t) \/ Unmapped(t)
  BY <1>4, WorkerGoesOn
<1>5. CASE main
  BY <1>2, <1>5, Threads, MainGoesOn, UseExtentsStep, CreateStep, JoinStep,
     JoinedAllStep, ExitStepOfMain
  DEF main
<1> QED
  BY <1>1, <1>2, <1>3, <1>4, <1>5, Threads DEF BenchNext, Gone, inc_thread

\* Every step of the programs is a step of the process, or none.
LEMMA BenchStepIsStep ==
    ASSUME Writing, BenchInv, [BenchNext]_allVars
    PROVE  [Next]_vars
<1>1. CASE UNCHANGED allVars
  BY <1>1 DEF allVars
<1>2. ASSUME NEW t \in Thread, Memset(t) \/ Munmap(t)
      PROVE  Next
  <2>1. OwnPage(t, next[t]) \in VPage
    BY <1>2, LoopStep
  <2>2. WriteFault(t, OwnPage(t, next[t])) \/ HookRemove(t, OwnPage(t, next[t]))
    BY <1>2 DEF Memset, Munmap, OwnPage
  <2> QED
    BY <2>1, <2>2 DEF Next
<1>3. ASSUME NEW t \in Thread, Kernel(t) \/ TouchHeap(t)
      PROVE  Next
  BY <1>3, BufferPages DEF Kernel, TouchHeap, Next
<1>4. CASE \E t \in Thread : Map(t) \/ Filled(t) \/ Unmapped(t)
  BY <1>4 DEF Map, Filled, Unmapped, GoOn
<1>5. CASE UseExtents \/ Exit
  BY <1>5, Threads DEF UseExtents, Exit, Next
<1>6. CASE Create \/ CreatedAll \/ Join \/ JoinNothing \/ JoinedAll \/ Report
  BY <1>6 DEF Create, CreatedAll, Join, JoinNothing, JoinedAll, Report, GoOn
<1> QED
  BY <1>1, <1>2, <1>3, <1>4, <1>5, <1>6, Threads DEF BenchNext, Gone, inc_thread, main

LEMMA BenchIsWriting ==
    ASSUME OnlyWrites
    PROVE  BenchSpec => Spec /\ []BenchInv
<1>1. BenchInit => Init /\ Writing
  <2>1. BenchInit => Init
    BY DEF BenchInit
  <2>2. Init => Writing
    BY InitWriting
  <2> QED
    BY <2>1, <2>2
<1>2. BenchInit => BenchInv
  <2> SUFFICES ASSUME BenchInit PROVE BenchInv
    OBVIOUS
  <2>1. /\ at[Main] = "start" /\ \A t \in Worker : at[t] = "none"
        /\ at \in [Thread -> Place]
    BY Threads DEF BenchInit, Place
  <2>2. BenchTypes
    <3>1. /\ program \in {"average", "test"} /\ using_extents \in BOOLEAN
          /\ program = "test" => using_extents
      BY DEF BenchInit
    <3>2. next \in [Thread -> 0 .. num_pages] /\ i \in 0 .. num_threads
      BY Threads DEF BenchInit
    <3> QED
      BY <2>1, <3>1, <3>2 DEF BenchTypes, MainPlaces, WorkerPlaces
  <2>3. Group
    BY <2>1, Threads DEF BenchInit, Init, Group
  <2>4. InKernel
    BY DEF BenchInit, Init, InKernel
  <2>5. \A t \in Thread : at[t] \notin {"memset", "munmap", "report"}
    BY <2>1, Threads
  <2>6. Pages
    BY <2>2, <2>5, BufferPages, Users DEF BenchInit, Init, Pages, IsFilled
  <2>7. Told
    BY <2>1 DEF BenchInit, Init, Told
  <2> QED
    BY <2>2, <2>3, <2>4, <2>6, <2>7 DEF BenchInv
<1>3. Writing /\ BenchInv /\ [BenchNext]_allVars => [Next]_vars /\ Writing' /\ BenchInv'
  BY BenchStep, BenchStepIsStep, WritingStep
<1> QED
  BY <1>1, <1>2, <1>3, PTL DEF BenchSpec, Spec

\* However its threads interleave, a run of either program is a run of a process
\* of ExtentMM, so what is proved of the hooks and of the table holds of it.
THEOREM ProgramsAreProcess ==
    ASSUME OnlyWrites
    PROVE  BenchSpec => Spec
BY BenchIsWriting, PTL
------------------------------------------------------------------------------
(* What the programs are for *)

\* What is known of the table while no call of it fails.
LEMMA BenchTable ==
    ASSUME OnlyWrites, ~PageAllocFails, ~AtomicAllocFails
    PROVE  BenchSpec => [](Writing /\ Accounted /\ BenchInv
                            /\ Facts!Exact /\ Facts!ReportExact)
<1>1. Facts!Spec => []Facts!Exact
  <2>1. Facts!Spec => [](Facts!Separated /\ Facts!Exact)
    BY TableAssumptions, Facts!TableIsExact
  <2> QED
    BY <2>1, PTL
<1>2. Facts!Spec => []Facts!ReportExact
  BY TableAssumptions, Facts!ReportIsExact
<1>3. BenchSpec => Spec /\ []BenchInv
  BY BenchIsWriting
<1>4. Spec => []Writing /\ []Accounted
  BY SpecWriting, SpecAccounts, PTL
<1>5. Spec => Facts!Spec
  BY ProcessUsesTable, TableIsTheTable DEF UsesTable
<1> QED
  BY <1>1, <1>2, <1>3, <1>4, <1>5, PTL

\* A frame of the allocator is not lost, and has one place.
LEMMA FreeFrames ==
    ASSUME Writing, Accounted, \A t \in Thread : ~Owns(t)
    PROVE  free = Frame \ {pte[v] : v \in VPage}
<1>1. free \subseteq Frame
  BY DEF Writing, Inv, Places
<1>2. \A f \in free, v \in VPage : pte[v] # f
  BY <1>1, FramesAreSomething DEF Writing, OnePlace
<1>3. \A f \in Frame : f \in free \/ \E v \in VPage : pte[v] = f
  BY DEF Accounted
<1> QED
  BY <1>1, <1>2, <1>3

\* Between two groups nobody is in the kernel and no buffer has a frame.
LEMMA GroupIsOver ==
    ASSUME BenchInv, at[Main] = "create", i = 0, pc[Main] = "idle"
    PROVE  /\ \A t \in Thread : pc[t] = "idle"
           /\ \A v \in VPage \ {Heap} : pte[v] = NoFrame
<1>1. BenchTypes /\ Group /\ InKernel /\ Pages
  BY DEF BenchInv, Running
<1>2. \A t \in Worker : at[t] = "none"
  BY <1>1, Threads DEF Group
<1>3. \A t \in Thread : pc[t] = "idle"
  BY <1>1, <1>2, Threads DEF InKernel
<1>4. \A t \in Thread : at[t] \notin {"memset", "munmap", "report"}
  BY <1>2, Threads
<1>5. \A b \in Worker, n \in 0 .. num_pages - 1 : pte[<<b, n>>] = NoFrame
  BY <1>1, <1>4, Users DEF Pages, IsFilled
<1> QED
  BY <1>3, <1>5, BufferPages

\* A group of threads that has been joined has given back every frame, and the
\* table has forgotten all of them, however many threads there were and however
\* their faults and unmaps interleaved.
THEOREM GroupsLeaveNothing ==
    ASSUME OnlyWrites, ~PageAllocFails, ~AtomicAllocFails
    PROVE  BenchSpec => []GroupLeavesNothing
<1>1. Writing /\ Accounted /\ BenchInv /\ Facts!Exact => GroupLeavesNothing
  <2> SUFFICES ASSUME Writing, Accounted, BenchInv, Facts!Exact,
                      at[Main] = "create", i = 0, pc[Main] = "idle"
               PROVE  /\ free = Frame \ HeapFrame
                      /\ Table!Tracked = IF use_extents /\ Heap \notin early
                                         THEN HeapFrame ELSE {}
    BY DEF GroupLeavesNothing
  <2>1. /\ \A t \in Thread : pc[t] = "idle"
        /\ \A v \in VPage \ {Heap} : pte[v] = NoFrame
        /\ Heap \in VPage
    BY GroupIsOver, BufferPages
  <2>2. {pte[v] : v \in VPage} \ {NoFrame} = HeapFrame
    BY <2>1 DEF HeapFrame
  <2>3. free = Frame \ HeapFrame
    <3>1. free = Frame \ {pte[v] : v \in VPage}
      BY <2>1, FreeFrames DEF Owns
    <3> QED
      BY <2>2, <3>1, FramesAreSomething
  <2>4. Table!Tracked = Mapped
    BY DEF Facts!Exact, Facts!Tracked, Facts!Span, Table!Tracked, Table!Span
  <2>5. ~exiting
    BY DEF BenchInv, Running, Group
  <2>6. \A v \in VPage : v \in Known <=> v = Heap /\ pte[Heap] # NoFrame /\ Heap \notin early
    BY <2>1 DEF Known
  <2>7. Mapped = {pte[v] : v \in Known} /\ Known \subseteq VPage
    BY <2>5 DEF Mapped, Known
  <2>8. Mapped = IF Heap \notin early THEN HeapFrame ELSE {}
    BY <2>1, <2>6, <2>7 DEF HeapFrame
  <2>9. ~use_extents => Mapped = {}
    BY <2>7 DEF Writing, Untold
  <2> QED
    BY <2>3, <2>4, <2>8, <2>9
<1> QED
  BY <1>1, BenchTable, PTL

\* The frames of the array, and how many there are.
ArrayFrames == {pte[<<0, n>>] : n \in 0 .. num_pages - 1}

LEMMA ArrayIsCounted ==
    ASSUME OnePlace, \A n \in 0 .. num_pages - 1 : pte[<<0, n>>] # NoFrame
    PROVE  IsFiniteSet(ArrayFrames) /\ Cardinality(ArrayFrames) = num_pages
<1> DEFINE N == 0 .. num_pages - 1
           f == [n \in N |-> pte[<<0, n>>]]
<1>1. \A n \in N : <<0, n>> \in VPage
  BY Threads, BufferPages
<1>2. f \in Bijection(N, ArrayFrames)
  <2>1. f \in [N -> ArrayFrames] /\ \A w \in ArrayFrames : \E n \in N : f[n] = w
    BY DEF ArrayFrames
  <2>2. \A n, m \in N : f[n] = f[m] => n = m
    BY <1>1 DEF OnePlace
  <2> HIDE DEF f, N
  <2> QED
    BY <2>1, <2>2 DEF Bijection, Injection, IsInjective, Surjection
<1>3. IsFiniteSet(N) /\ Cardinality(N) = num_pages
  <2>1. num_pages \in Nat
    BY Threads
  <2>2. 0 \in Int
    OBVIOUS
  <2>3. num_pages - 1 \in Int
    BY <2>1
  <2>4. /\ IsFiniteSet(N)
        /\ Cardinality(N) = IF 0 > num_pages - 1 THEN 0 ELSE (num_pages - 1) - 0 + 1
    BY <2>2, <2>3, FS_Interval
  <2> QED
    BY <2>1, <2>4
<1> HIDE DEF N, f
<1> QED
  BY <1>2, <1>3, FS_Bijection DEF ExistsBijection
\* When test.c asks for the report it is alone, and its array is filled with
\* pages the table was told of.
LEMMA ArrayIsFilled ==
    ASSUME BenchInv, at[Main] = "report", pc[Main] = "idle"
    PROVE  /\ use_extents /\ ~exiting /\ early \subseteq {Heap}
           /\ \A t \in Thread : pc[t] = "idle"
           /\ \A n \in 0 .. num_pages - 1 : pte[<<0, n>>] # NoFrame
           /\ \A b \in Worker \ {0}, n \in 0 .. num_pages - 1 : pte[<<b, n>>] = NoFrame
<1>1. BenchTypes /\ Group /\ InKernel /\ Pages /\ Told
  BY DEF BenchInv, Running
<1>2. program = "test" /\ using_extents
  BY <1>1 DEF BenchTypes, MainPlaces
<1>3. \A t \in Worker : at[t] = "none"
  BY <1>1, <1>2 DEF BenchTypes, WorkerPlaces
<1>4. \A t \in Thread : pc[t] = "idle"
  BY <1>1, <1>3, Threads DEF InKernel
<1>5. \A n \in 0 .. num_pages - 1 : pte[<<0, n>>] # NoFrame
  BY <1>1, <1>2, Threads DEF Pages, IsFilled, User
<1>6. \A b \in Worker \ {0}, n \in 0 .. num_pages - 1 : pte[<<b, n>>] = NoFrame
  BY <1>1, <1>3, Threads DEF Pages, IsFilled, User
<1> QED
  BY <1>1, <1>2, <1>4, <1>5, <1>6 DEF Group, Told

\* So the table maps the frames of the array and that of the heap, if it was
\* told of it.
LEMMA ArrayIsMapped ==
    ASSUME Writing, BenchInv, at[Main] = "report", pc[Main] = "idle"
    PROVE  Mapped = ArrayFrames \cup (IF Heap \in early THEN {} ELSE HeapFrame)
<1>1. /\ ~exiting /\ early \subseteq {Heap}
      /\ \A t \in Thread : pc[t] = "idle"
      /\ \A n \in 0 .. num_pages - 1 : pte[<<0, n>>] # NoFrame
      /\ \A b \in Worker \ {0}, n \in 0 .. num_pages - 1 : pte[<<b, n>>] = NoFrame
  BY ArrayIsFilled
<1>2. Mapped = {pte[v] : v \in Known}
  BY <1>1 DEF Mapped
<1>3. \A v \in VPage : v \in Known <=> pte[v] # NoFrame /\ v \notin early
  BY <1>1 DEF Known
<1>4. \A n \in 0 .. num_pages - 1 : <<0, n>> \in Known
  BY <1>1, <1>3, BufferPages, Threads
<1>5. \A v \in Known \ {Heap} : \E n \in 0 .. num_pages - 1 : v = <<0, n>>
  <2> SUFFICES ASSUME NEW v \in Known \ {Heap}
               PROVE  \E n \in 0 .. num_pages - 1 : v = <<0, n>>
    OBVIOUS
  <2>1. v \in VPage /\ pte[v] # NoFrame
    BY DEF Known
  <2>2. PICK b \in Worker, n \in 0 .. num_pages - 1 : v = <<b, n>>
    BY <2>1, BufferPages
  <2> QED
    BY <1>1, <2>1, <2>2
<1>6. Heap \in Known <=> Heap \notin early /\ pte[Heap] # NoFrame
  BY <1>3, BufferPages
<1> DEFINE H == IF Heap \in early THEN {} ELSE HeapFrame
<1>7. \A v \in Known : pte[v] \in ArrayFrames \cup H
  <2> SUFFICES ASSUME NEW v \in Known PROVE pte[v] \in ArrayFrames \cup H
    OBVIOUS
  <2>1. CASE v = Heap
    BY <1>6, <2>1 DEF HeapFrame
  <2>2. CASE v # Heap
    BY <1>5, <2>2 DEF ArrayFrames
  <2> QED
    BY <2>1, <2>2
<1>8. ArrayFrames \subseteq Mapped
  BY <1>2, <1>4 DEF ArrayFrames
<1>9. H \subseteq Mapped
  BY <1>2, <1>6 DEF HeapFrame
<1>10. Mapped \subseteq ArrayFrames \cup H
  BY <1>2, <1>7
<1> HIDE DEF H
<1>11. Mapped = ArrayFrames \cup H
  BY <1>8, <1>9, <1>10
<1> QED
  BY <1>11 DEF H

\* The report of test.c counts its array exactly, however many pages it has,
\* and the heap if the table was told of it.
THEOREM TestReportsItsPages ==
    ASSUME OnlyWrites, ~PageAllocFails, ~AtomicAllocFails
    PROVE  BenchSpec => []TestIsReported
<1>1. Writing /\ BenchInv /\ Facts!ReportExact => TestIsReported
  <2> DEFINE H == IF Heap \in early THEN {} ELSE HeapFrame
  <2> SUFFICES ASSUME Writing, BenchInv, Facts!ReportExact,
                      at[Main] = "report", pc[Main] = "idle"
               PROVE  Table!extent_rb_print.pages = num_pages + Cardinality(H)
    BY DEF TestIsReported
  <2>1. Table!extent_rb_print.pages = Cardinality(Mapped)
    BY SameReport, SameCardinality DEF Facts!ReportExact
  <2>2. Mapped = ArrayFrames \cup H
    BY ArrayIsMapped
  <2>3. IsFiniteSet(ArrayFrames) /\ Cardinality(ArrayFrames) = num_pages
    BY ArrayIsFilled, ArrayIsCounted DEF Writing
  <2>4. IsFiniteSet(H) /\ Cardinality(H) \in Nat
    <3>1. H = {} \/ H = {pte[Heap]}
      BY DEF HeapFrame
    <3>2. IsFiniteSet(H)
      BY <3>1, FS_EmptySet, FS_Singleton
    <3> QED
      BY <3>2, FS_CardinalityType
  <2>5. ArrayFrames \cap H = {}
    <3> SUFFICES ASSUME NEW n \in 0 .. num_pages - 1, pte[<<0, n>>] = pte[Heap],
                        pte[Heap] # NoFrame
                 PROVE  FALSE
      BY DEF ArrayFrames, HeapFrame
    <3>1. <<0, n>> \in VPage /\ <<0, n>> # Heap /\ Heap \in VPage
      BY BufferPages, Threads
    <3> QED
      BY <3>1 DEF Writing, OnePlace
  <2>6. Cardinality(ArrayFrames \cup H) = num_pages + Cardinality(H)
    <3>1. Cardinality(ArrayFrames \cap H) = 0
      BY <2>5, FS_EmptySet
    <3>2. Cardinality(ArrayFrames \cup H) = Cardinality(ArrayFrames) + Cardinality(H)
                                              - Cardinality(ArrayFrames \cap H)
      BY <2>3, <2>4, FS_Union
    <3> HIDE DEF H
    <3> QED
      BY <2>3, <2>4, <3>1, <3>2, Threads
  <2> QED
    BY <2>1, <2>2, <2>6
<1> QED
  BY <1>1, BenchTable, PTL
=============================================================================
