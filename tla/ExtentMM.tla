------------------------------ MODULE ExtentMM ------------------------------
(***************************************************************************)
(* The threads of one process, its page table, and the three places where  *)
(* project2.patch hooks the extent table into the kernel: after an         *)
(* anonymous page is installed, before a pte is cleared, and at exit.      *)
(*                                                                         *)
(* The kernel around the hooks is modelled by what they rely on. A fault   *)
(* takes a free frame first and the page-table lock after; it gives the    *)
(* frame back when another thread was faster. The lock is held over the    *)
(* hook and the change of the pte. A frame is freed only after its pte is  *)
(* cleared and the lock released. Pages stand for pages in different       *)
(* page-table pages, so each has a lock of its own.                        *)
(***************************************************************************)
EXTENDS Integers, FiniteSets

CONSTANTS
    Thread,
    VPage,             \* virtual pages of anonymous memory
    Frame,             \* frames of the page allocator
    Addr,
    ZeroFrame,         \* the frame of the kernel's shared zero page
    ReadFaults,        \* whether pages are also read before they are written
    Forks,             \* whether the process may fork
    Unhooked,          \* whether page tables also change with no hook of theirs
    PageAllocFails, AtomicAllocFails, NoThread

NoFrame == 0

ASSUME MMAssumption ==
    /\ Frame \subseteq Nat \ {NoFrame}
    /\ ZeroFrame \in Nat \ ({NoFrame} \cup Frame)
    /\ PageAllocFails \in BOOLEAN /\ AtomicAllocFails \in BOOLEAN
    /\ ReadFaults \in BOOLEAN /\ Forks \in BOOLEAN /\ Unhooked \in BOOLEAN
    /\ NoThread \notin Thread

VARIABLES
    root,          \* mm->extent_pt.root
    leaked,        \* as in ExtentTable
    use_extents,   \* mm->use_extents
    pte,           \* the frame each page is mapped to
    early,         \* pages whose frame the extent table was not told of
    ptl,           \* who holds the page-table lock of a page
    pc, page, frame,   \* each thread's place in a fault or an unmap
    free,          \* frames of the page allocator nobody uses
    relative,      \* frames a parent or child of the process maps too
    exiting        \* whether exit_mmap has begun

treeVars == <<root, leaked>>
threadVars == <<pc, page, frame>>
vars == <<root, leaked, use_extents, pte, early, ptl, pc, page, frame, free,
          relative, exiting>>

AnyFrame == Frame \cup {ZeroFrame}

\* Pages the table has been told of and not yet been told to forget.
Known ==
    {v \in VPage :
        /\ pte[v] # NoFrame
        /\ v \notin early
        /\ \A t \in Thread : pc[t] \in {"installed", "removed"} => page[t] # v}

Mapped == IF exiting THEN {} ELSE {pte[v] : v \in Known}

Table == INSTANCE ExtentTable WITH Frame <- AnyFrame, mapped <- Mapped

Idle == \A t \in Thread : pc[t] = "idle"

Go(t, where, v, f) ==
    /\ pc' = [pc EXCEPT ![t] = where]
    /\ page' = [page EXCEPT ![t] = v]
    /\ frame' = [frame EXCEPT ![t] = f]

\* The frames in F that nothing maps any more go back to the allocator.
Release(F) == free' = free \cup {f \in F \ relative : f \in Frame}

------------------------------------------------------------------------------
(* do_anonymous_page *)

\* A write takes a frame of its own. The pte was read without the lock.
WriteFault(t, v) ==
    /\ pc[t] = "idle" /\ ~exiting
    /\ pte[v] = NoFrame
    /\ \E f \in free :
          /\ Go(t, "allocated", v, f)
          /\ free' = free \ {f}
    /\ UNCHANGED <<treeVars, use_extents, pte, early, ptl, relative, exiting>>

\* A read is given the zero page.
ReadFault(t, v) ==
    /\ ReadFaults
    /\ pc[t] = "idle" /\ ~exiting
    /\ pte[v] = NoFrame
    /\ Go(t, "allocated", v, ZeroFrame)
    /\ UNCHANGED <<treeVars, use_extents, pte, early, ptl, free,
                   relative, exiting>>

InstallPte(t) ==
    /\ pc[t] = "allocated"
    /\ ptl[page[t]] = NoThread
    /\ pte[page[t]] = NoFrame
    /\ pte' = [pte EXCEPT ![page[t]] = frame[t]]
    /\ ptl' = [ptl EXCEPT ![page[t]] = t]
    /\ Go(t, "installed", page[t], frame[t])
    /\ UNCHANGED <<treeVars, use_extents, early, free, relative, exiting>>

\* Mutant: the thread that lost the race calls the hook as well.
LoseRace_Hooked(t) ==
    /\ pc[t] = "allocated"
    /\ ptl[page[t]] = NoThread
    /\ pte[page[t]] # NoFrame
    /\ IF use_extents THEN Table!extent_rb_insert_or_add(frame[t])
       ELSE UNCHANGED treeVars
    /\ Release({frame[t]})
    /\ Go(t, "idle", page[t], NoFrame)
    /\ UNCHANGED <<use_extents, pte, early, ptl, relative, exiting>>

\* Another thread has installed a page meanwhile.
LoseRace(t) ==
    /\ pc[t] = "allocated"
    /\ ptl[page[t]] = NoThread
    /\ pte[page[t]] # NoFrame
    /\ Release({frame[t]})
    /\ Go(t, "idle", page[t], NoFrame)
    /\ UNCHANGED <<treeVars, use_extents, pte, early, ptl, relative, exiting>>

\* The hook, and the unlock.
HookInsert(t) ==
    /\ pc[t] = "installed"
    /\ IF use_extents
       THEN /\ Table!extent_rb_insert_or_add(frame[t])
            /\ early' = early \ {page[t]}
       ELSE /\ early' = early \cup {page[t]}
            /\ UNCHANGED treeVars
    /\ ptl' = [ptl EXCEPT ![page[t]] = NoThread]
    /\ Go(t, "idle", page[t], NoFrame)
    /\ UNCHANGED <<use_extents, pte, free, relative, exiting>>

------------------------------------------------------------------------------
(* zap_pte_range, from munmap or madvise by a thread of the process *)

\* Mutant: the page is unmapped without a call of the hook.
HookRemove_Unhooked(t, v) ==
    /\ pc[t] = "idle" /\ ~exiting
    /\ ptl[v] = NoThread
    /\ pte[v] # NoFrame
    /\ ptl' = [ptl EXCEPT ![v] = t]
    /\ Go(t, "removed", v, pte[v])
    /\ UNCHANGED <<treeVars, use_extents, pte, early, free, relative, exiting>>

\* Mutant: the hook runs without the page-table lock.
HookRemove_Unlocked(t, v) ==
    /\ pc[t] = "idle" /\ ~exiting
    /\ pte[v] # NoFrame
    /\ IF use_extents /\ pte[v] # ZeroFrame
       THEN Table!extent_rb_remove_page(pte[v])
       ELSE UNCHANGED treeVars
    /\ ptl' = [ptl EXCEPT ![v] = t]
    /\ Go(t, "removed", v, pte[v])
    /\ UNCHANGED <<use_extents, pte, early, free, relative, exiting>>

\* The hook, with the lock held. vm_normal_page is NULL for the zero page.
HookRemove(t, v) ==
    /\ pc[t] = "idle" /\ ~exiting
    /\ ptl[v] = NoThread
    /\ pte[v] # NoFrame
    /\ IF use_extents /\ pte[v] # ZeroFrame
       THEN Table!extent_rb_remove_page(pte[v])
       ELSE UNCHANGED treeVars
    /\ ptl' = [ptl EXCEPT ![v] = t]
    /\ Go(t, "removed", v, pte[v])
    /\ UNCHANGED <<use_extents, pte, early, free, relative, exiting>>

ClearPte(t) ==
    /\ pc[t] = "removed"
    /\ pte' = [pte EXCEPT ![page[t]] = NoFrame]
    /\ early' = early \ {page[t]}
    /\ ptl' = [ptl EXCEPT ![page[t]] = NoThread]
    /\ Go(t, "flushing", page[t], frame[t])
    /\ UNCHANGED <<treeVars, use_extents, free, relative, exiting>>

\* The frame goes with the TLB flush, after the lock.
FreeFrame(t) ==
    /\ pc[t] = "flushing"
    /\ Release({frame[t]})
    /\ Go(t, "idle", page[t], NoFrame)
    /\ UNCHANGED <<treeVars, use_extents, pte, early, ptl, relative, exiting>>

------------------------------------------------------------------------------
(* The system call, exit and fork. *)

SyscallUseExtents(t) ==
    /\ pc[t] = "idle" /\ ~exiting
    /\ use_extents' = TRUE
    /\ UNCHANGED <<treeVars, pte, early, ptl, threadVars, free, relative,
                   exiting>>

\* Mutant: exit_mmap forgets the tree.
ExitTree_Forgotten ==
    /\ Idle /\ ~exiting
    /\ exiting' = TRUE
    /\ UNCHANGED <<treeVars, use_extents, pte, early, ptl, threadVars,
                   free, relative>>

\* exit_mmap runs when no thread uses the memory any more. The tree goes
\* first ...
ExitTree ==
    /\ Idle /\ ~exiting
    /\ exiting' = TRUE
    /\ IF use_extents THEN Table!extent_rb_destroy ELSE UNCHANGED treeVars
    /\ UNCHANGED <<use_extents, pte, early, ptl, threadVars, free, relative>>

\* ... then the pages; current->mm is not this mm any more, and the hook in
\* zap_pte_range does nothing. The next program starts with a cleared mm that
\* mm_init has given an empty tree.
ExitUnmap ==
    /\ exiting
    /\ Release({pte[v] : v \in VPage})
    /\ pte' = [v \in VPage |-> NoFrame]
    /\ root' = {}
    /\ early' = {}
    /\ use_extents' = FALSE /\ exiting' = FALSE
    /\ UNCHANGED <<leaked, ptl, threadVars, relative>>

\* fork shares every page with the child. mm_init gives the child's mm an empty
\* tree; the flag is part of the copy. The model goes on with either process.
Fork ==
    /\ Forks
    /\ Idle /\ ~exiting
    /\ relative' = relative \cup ({pte[v] : v \in VPage} \cap Frame)
    /\ \/ UNCHANGED <<root, early>>
       \/ /\ root' = {}
          /\ early' = {v \in VPage : pte[v] # NoFrame}
    /\ UNCHANGED <<leaked, use_extents, pte, ptl, threadVars, free, exiting>>

\* do_wp_page: a write to a page that is shared or the zero page gets a copy.
\* There is no hook on this path.
CopyOnWrite(t, v) ==
    /\ pc[t] = "idle" /\ ~exiting
    /\ ptl[v] = NoThread
    /\ pte[v] \in relative \cup {ZeroFrame}
    /\ \E f \in free :
          /\ pte' = [pte EXCEPT ![v] = f]
          /\ free' = free \ {f}
    /\ early' = early \cup {v}
    /\ UNCHANGED <<treeVars, use_extents, ptl, threadVars, relative, exiting>>

\* The other process unmaps a page the two shared.
RelativeUnmaps ==
    /\ \E f \in relative :
          /\ relative' = relative \ {f}
          /\ free' = IF (\E v \in VPage : pte[v] = f)
                        \/ \E t \in Thread : frame[t] = f
                     THEN free ELSE free \cup {f}
    /\ UNCHANGED <<treeVars, use_extents, pte, early, ptl, threadVars, exiting>>

------------------------------------------------------------------------------
(* What passes the hooks by, or reaches the wrong ones: they look at the mm  *)
(* of the process that runs, current->mm.                                    *)

\* Another process writes to a page (ptrace, process_vm_writev): its own table
\* is told of the frame.
FaultByOther(v) ==
    /\ Unhooked /\ ~exiting
    /\ ptl[v] = NoThread
    /\ pte[v] = NoFrame
    /\ \E f \in free :
          /\ pte' = [pte EXCEPT ![v] = f]
          /\ free' = free \ {f}
    /\ early' = early \cup {v}
    /\ UNCHANGED <<treeVars, use_extents, ptl, threadVars, relative, exiting>>

\* A thread of this process writes to a page of another one.
FaultInOther ==
    /\ Unhooked /\ ~exiting /\ use_extents
    /\ \E f \in free :
          /\ Table!extent_rb_insert_or_add(f)
          /\ relative' = relative \cup {f}
          /\ free' = free \ {f}
    /\ UNCHANGED <<use_extents, pte, early, ptl, threadVars, exiting>>

\* A page is swapped out, or taken by the OOM reaper. (A migration is that, and
\* a fault that is not told.)
Reclaim(v) ==
    /\ Unhooked /\ ~exiting
    /\ ptl[v] = NoThread
    /\ pte[v] \in Frame
    /\ Release({pte[v]})
    /\ pte' = [pte EXCEPT ![v] = NoFrame]
    /\ early' = early \ {v}
    /\ UNCHANGED <<treeVars, use_extents, ptl, threadVars, relative, exiting>>

Init ==
    /\ root = {} /\ leaked = FALSE
    /\ use_extents = FALSE
    /\ pte = [v \in VPage |-> NoFrame]
    /\ early = {}
    /\ ptl = [v \in VPage |-> NoThread]
    /\ pc = [t \in Thread |-> "idle"]
    /\ page \in [Thread -> VPage]
    /\ frame = [t \in Thread |-> NoFrame]
    /\ free = Frame
    /\ relative = {}
    /\ exiting = FALSE

Next ==
    \/ \E t \in Thread, v \in VPage :
          WriteFault(t, v) \/ ReadFault(t, v) \/ HookRemove(t, v) \/ CopyOnWrite(t, v)
    \/ \E t \in Thread :
          \/ InstallPte(t) \/ LoseRace(t) \/ HookInsert(t)
          \/ ClearPte(t) \/ FreeFrame(t) \/ SyscallUseExtents(t)
    \/ ExitTree \/ ExitUnmap \/ Fork \/ RelativeUnmaps
    \/ FaultInOther \/ \E v \in VPage : FaultByOther(v) \/ Reclaim(v)

Spec == Init /\ [][Next]_vars

------------------------------------------------------------------------------
TypeOK ==
    /\ Table!TypeOK
    /\ use_extents \in BOOLEAN /\ exiting \in BOOLEAN
    /\ pte \in [VPage -> AnyFrame \cup {NoFrame}]
    /\ ptl \in [VPage -> Thread \cup {NoThread}]
    /\ pc \in [Thread -> {"idle", "allocated", "installed", "removed", "flushing"}]
    /\ page \in [Thread -> VPage]
    /\ frame \in [Thread -> AnyFrame \cup {NoFrame}]
    /\ early \subseteq VPage /\ free \subseteq Frame /\ relative \subseteq Frame

\* A process that only writes its pages and does not fork uses the table the
\* way ExtentTable says a process does: the threads' faults and unmaps appear
\* to it as one call after another, each fault with a frame that is not mapped.
\* So what is shown of ExtentTable holds of this process.
UsesTable == Table!Spec

\* A frame the allocator may hand out, or has handed to a fault that has not
\* installed it yet, is not in the tree: the hook in zap_pte_range runs before
\* the frame is freed, and a fault that lost its race never reaches the hook.
FreeUntracked ==
    \A f \in Table!Tracked :
        f \notin free /\ \A t \in Thread : pc[t] = "allocated" => frame[t] # f

\* Whatever the process shares, reads or fails to allocate, exit finds the tree:
\* it is destroyed only behind the flag, so there is none without the flag, and
\* none after exit_mmap has begun.
TreeIsFound == root # {} => use_extents /\ ~exiting

\* The fields of every extent agree, also when faults bring frames the tree
\* holds already: the zero page, and frames that went stale after a fork, were
\* reclaimed behind the table's back, or belong to another process.
ExtentsConsistent == Table!WellFormed

\* When the tree does not agree with the page table any more (splits and merges
\* have failed, frames were copied, reclaimed or faulted in with no hook of
\* theirs), the damage does not spread: each step of the process changes the
\* tracking of one frame, or loses the extent right of it to a refused merge.
DamageStaysLocal == Table!OnlyItsFrame

\* "Process had ${pgcount} physical pages at time of last report"
\* (check_tlb.sh): between faults, the report counts the frames mapped, if all
\* of them were faulted in since the flag was set.
PhysicalPagesReported ==
    Idle /\ ~exiting /\ early = {}
    => Table!extent_rb_print.pages
         = Cardinality({pte[v] : v \in VPage} \ {NoFrame})

\* "page removal are handled on unmap/exit so the tree does not leak"
\* (README.md): when a process has unmapped all of its pages, its tree is empty.
NothingMappedNothingTracked ==
    Idle /\ (\A v \in VPage : pte[v] = NoFrame) => root = {}
=============================================================================
