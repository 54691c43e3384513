----------------------------- MODULE ExtentTable -----------------------------
(***************************************************************************)
(* The software page table of project2/project2.patch: the red-black tree  *)
(* of extents hung off an mm_struct, and the frames the process maps.      *)
(*                                                                         *)
(* Every function below runs from spin_lock_irqsave to                     *)
(* spin_unlock_irqrestore on pt->lock, so one call is one atomic step.     *)
(* The tree is the set of the extents linked in it. A walk finds a node by *)
(* its key, the start of its extent; the shape of the tree only matters    *)
(* when two nodes have the same key, and then any of them may be met.      *)
(***************************************************************************)
EXTENDS Extent, FiniteSets

CONSTANTS
    Frame,             \* page frame numbers a fault may be given
    Addr,              \* addresses kmalloc may return for an extent
    PageAllocFails,    \* whether kmalloc(sizeof(struct extent_page)) may fail
    AtomicAllocFails   \* whether the GFP_ATOMIC allocations may fail

ASSUME FrameAssumption == Frame \subseteq Nat \ {0}
ASSUME FailureAssumption == PageAllocFails \in BOOLEAN /\ AtomicAllocFails \in BOOLEAN

VARIABLES
    root,     \* the extents linked in pt->root
    mapped,   \* frames of the anonymous pages the process has mapped
    leaked    \* whether an allocation of this code is lost for good

vars == <<root, mapped, leaked>>

\* The outcomes of kmalloc(sizeof(struct extent_page), GFP_KERNEL).
PageAlloc == {TRUE} \cup (IF PageAllocFails THEN {FALSE} ELSE {})

\* Addresses at which no extent of the tree lives.
FreeAddr == Addr \ {x.addr : x \in root}

\* The frames the tree says the process holds.
Tracked == UNION {Span(x) : x \in root}

------------------------------------------------------------------------------
(* Lookups. A walk to the right keeps the last node whose key qualifies.    *)

Greatest(S) == {x \in S : \A y \in S : y.start <= x.start}

Below(p)       == Greatest({x \in root : x.start < p})
AtOrBelow(p)   == Greatest({x \in root : x.start <= p})

extent_rb_find_by_start(p)      == {x \in root : x.start = p}
extent_rb_find_left_neighbor(p) == {x \in Below(p) : x.end = p - 1}
extent_rb_find_containing(p)    == {x \in AtOrBelow(p) : p <= x.end}

\* Mutant: the right neighbour is looked for where the page itself is.
NoRightNeighbor_OffByOne(p) == extent_rb_find_by_start(p) = {}

\* The same lookups returning NULL.
NoRightNeighbor(p) == extent_rb_find_by_start(p + 1) = {}
NoLeftNeighbor(p)  == Below(p) = {} \/ \E x \in Below(p) : x.end # p - 1
NoContaining(p)    == AtOrBelow(p) = {} \/ \E x \in AtOrBelow(p) : p > x.end

------------------------------------------------------------------------------
(* extent_rb_insert_or_add, one action per case.                            *)

\* Case 1.5. The results of extent_add_adjacent and extent_merge are ignored:
\* the right node goes in any case, its extent only if the merge freed it.
MergeNeighbors(p, l, r, allocated) ==
    LET grown == extent_add_adjacent(l, p, allocated)
    IN  /\ root' = (root \ {l, r}) \cup {extent_merge(grown, r)}
        /\ leaked' = (leaked \/ ~MergeSucceeds(grown, r))

\* Case 1. A node whose key moves is erased and inserted again.
GrowNeighbor(p, x, allocated) ==
    /\ root' = (root \ {x}) \cup {extent_add_adjacent(x, p, allocated)}
    /\ UNCHANGED leaked

\* Case 2.
CreateExtent(p, allocated) ==
    /\ \E a \in FreeAddr : root' = root \cup {extent_init(a, p, allocated)}
    /\ UNCHANGED leaked

\* -ENOMEM from a GFP_ATOMIC allocation; no caller looks at it.
NoMemory ==
    /\ AtomicAllocFails
    /\ UNCHANGED <<root, leaked>>

extent_rb_insert_or_add(p) ==
    \E allocated \in PageAlloc :
        \/ \E l \in extent_rb_find_left_neighbor(p),
              r \in extent_rb_find_by_start(p + 1) : MergeNeighbors(p, l, r, allocated)
        \/ /\ NoRightNeighbor(p)
           /\ \E l \in extent_rb_find_left_neighbor(p) : GrowNeighbor(p, l, allocated)
        \/ /\ NoLeftNeighbor(p)
           /\ \E r \in extent_rb_find_by_start(p + 1) : GrowNeighbor(p, r, allocated)
        \/ /\ NoLeftNeighbor(p)
           /\ NoRightNeighbor(p)
           /\ CreateExtent(p, allocated) \/ NoMemory

------------------------------------------------------------------------------
(* extent_rb_remove_page, one action per case.                              *)

\* The frame is the extent's last one. kfree(ex) does not free list nodes.
RemoveLast(p, x) ==
    /\ extent_pte_is_start_or_end(x, p)
    /\ x.pgcount = 1
    /\ root' = root \ {x}
    /\ leaked' = (leaked \/ extent_trim(x, p).pagelist # <<>>)

\* Mutant: an extent of one page is trimmed too.
TrimEnd_ToNothing(p, x) ==
    /\ extent_pte_is_start_or_end(x, p)
    /\ root' = (root \ {x}) \cup {extent_trim(x, p)}
    /\ UNCHANGED leaked

\* The frame is an end of the range. When it is the start the key moves.
TrimEnd(p, x) ==
    /\ extent_pte_is_start_or_end(x, p)
    /\ x.pgcount # 1
    /\ root' = (root \ {x}) \cup {extent_trim(x, p)}
    /\ UNCHANGED leaked

\* Mutant: new_right_half is not linked in.
SplitAround_ForgetsRight(p, x) ==
    /\ ~extent_pte_is_start_or_end(x, p)
    /\ root' = (root \ {x}) \cup {SplitLeft(x, p)}
    /\ UNCHANGED leaked

\* The frame is inside the range: two extents replace one.
SplitAround(p, x) ==
    /\ ~extent_pte_is_start_or_end(x, p)
    /\ \E a \in FreeAddr :
          root' = (root \ {x}) \cup {SplitLeft(x, p), SplitRight(x, p, a)}
    /\ UNCHANGED leaked

extent_rb_remove_page(p) ==
    \/ /\ NoContaining(p)                          \* -EINVAL
       /\ UNCHANGED <<root, leaked>>
    \/ \E x \in extent_rb_find_containing(p) :
          \/ RemoveLast(p, x)
          \/ TrimEnd(p, x)
          \/ SplitAround(p, x)
          \/ ~extent_pte_is_start_or_end(x, p) /\ NoMemory

\* Frees the extents and their nodes, not the pages on the extents' lists.
extent_rb_destroy ==
    /\ root' = {}
    /\ leaked' = (leaked \/ \E x \in root : x.pagelist # <<>>)

------------------------------------------------------------------------------
(* The process, with use_extents set. A page the process writes for the     *)
(* first time gets a frame it does not map yet. The zap path calls the      *)
(* table for every normal page, also for one that was never inserted: a     *)
(* page of a file, or one faulted in before the flag was set. At exit the   *)
(* tree goes, and a later mm_init starts from an empty one.                 *)

Init ==
    /\ root = {}
    /\ mapped = {}
    /\ leaked = FALSE

Fault(p) ==
    /\ p \notin mapped
    /\ mapped' = mapped \cup {p}
    /\ extent_rb_insert_or_add(p)

Unmap(p) ==
    /\ mapped' = mapped \ {p}
    /\ extent_rb_remove_page(p)

ExitMmap ==
    /\ mapped' = {}
    /\ extent_rb_destroy

Next ==
    \/ \E p \in Frame : Fault(p) \/ Unmap(p)
    \/ ExitMmap

Spec == Init /\ [][Next]_vars

------------------------------------------------------------------------------
(* extent_rb_print, and the number check_tlb.sh makes of its summary line.  *)

\* As many pairs for each extent as it claims to have pages.
CountedPages(R) == UNION {{x} \X (1 .. x.pgcount) : x \in R}

extent_rb_print ==
    [extents |-> Cardinality(root),
     pages   |-> Cardinality(CountedPages(root))]

tlb_save == extent_rb_print.pages - extent_rb_print.extents

------------------------------------------------------------------------------
ExtentRecord ==
    [addr : Addr, start : Frame, end : Frame, pgcount : Nat \ {0},
     pagelist : Seq(Frame)]

\* Every variable has its type: the tree holds extents of tracked frames.
TypeOK ==
    /\ root \subseteq ExtentRecord
    /\ mapped \subseteq Frame
    /\ leaked \in BOOLEAN

\* The fields of an extent agree with each other: the count is the length of
\* the range, every frame of the range is one a fault was given, and no extent
\* is linked twice. extent_rb_remove_page chooses between freeing, trimming
\* and splitting by these fields alone, whatever allocation failed before.
WellFormed ==
    /\ \A x \in root :
          /\ x.start <= x.end
          /\ x.pgcount = x.end - x.start + 1
          /\ Span(x) \subseteq Frame
    /\ \A x, y \in root : x.addr = y.addr => x = y

\* No two extents overlap or touch: what could be merged has been merged, so
\* a lookup by neighbour or by containment has at most one answer.
Separated ==
    \A x, y \in root : x = y \/ x.end + 1 < y.start \/ y.end + 1 < x.start

\* The software page table agrees with the page tables of the process: it
\* tracks a frame exactly while the process maps it.
Exact == Tracked = mapped

\* The report counts the mapped frames and their maximal runs, so that what
\* check_tlb.sh calls the saving is the number of frames that follow another.
ReportExact ==
    /\ extent_rb_print.pages = Cardinality(mapped)
    /\ tlb_save = Cardinality({p \in mapped : p - 1 \in mapped})

\* The node of a frame between two extents could not be allocated: the right
\* one has been erased, and the left one has not become larger.
MergeRefused(p) ==
    /\ PageAllocFails
    /\ \E l, r \in root : l.end = p - 1 /\ r.start = p + 1 /\ root' = root \ {r}

\* Whatever the tree holds, be it stale after a split that failed, or twice, a
\* call changes what is tracked by the frame it is about and by no other, unless
\* it is refused a merge, which costs the extent on the right and nothing else.
OnlyItsFrame ==
    [][\/ root' = {} /\ mapped' = {}
       \/ \E p \in Frame :
             /\ mapped' \ {p} = mapped \ {p}
             /\ Tracked' \ {p} = Tracked \ {p} \/ MergeRefused(p)]_vars
=============================================================================
