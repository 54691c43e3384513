--------------------------- MODULE ExtentMM_proofs ---------------------------
(***************************************************************************)
(* For any number of threads, pages and frames: the hooks of project2.patch *)
(* keep the extent table well formed, exit finds it, and a process that    *)
(* only writes its pages uses it the way ExtentTable says. What has been   *)
(* proved of ExtentTable then holds of the process.                        *)
(***************************************************************************)
EXTENDS ExtentMM, TLAPS

\* What is proved of the table, for the table of this process.
Facts == INSTANCE ExtentTable_proofs WITH Frame <- AnyFrame, mapped <- Mapped

\* The assumptions of ExtentTable.
LEMMA TableAssumptions ==
    /\ AnyFrame \subseteq Nat \ {0}
    /\ PageAllocFails \in BOOLEAN /\ AtomicAllocFails \in BOOLEAN
BY MMAssumption DEF AnyFrame, NoFrame

\* Table and Facts are the same table.
LEMMA SameInsert ==
    ASSUME NEW p
    PROVE  Table!extent_rb_insert_or_add(p) <=> Facts!extent_rb_insert_or_add(p)
BY DEF Table!extent_rb_insert_or_add, Facts!extent_rb_insert_or_add,
       Table!PageAlloc, Facts!PageAlloc, Table!extent_rb_find_left_neighbor,
       Facts!extent_rb_find_left_neighbor, Table!extent_rb_find_by_start,
       Facts!extent_rb_find_by_start, Table!Below, Facts!Below,
       Table!Greatest, Facts!Greatest, Table!NoRightNeighbor,
       Facts!NoRightNeighbor, Table!NoLeftNeighbor, Facts!NoLeftNeighbor,
       Table!MergeNeighbors, Facts!MergeNeighbors, Table!GrowNeighbor,
       Facts!GrowNeighbor, Table!CreateExtent, Facts!CreateExtent,
       Table!NoMemory, Facts!NoMemory, Table!FreeAddr, Facts!FreeAddr,
       Table!extent_add_adjacent, Facts!extent_add_adjacent,
       Table!extent_merge, Facts!extent_merge, Table!extent_init,
       Facts!extent_init, Table!MergeSucceeds, Facts!MergeSucceeds,
       Table!extents_are_adjacent, Facts!extents_are_adjacent, Table!Rotated,
       Facts!Rotated

LEMMA SameRemove ==
    ASSUME NEW p
    PROVE  Table!extent_rb_remove_page(p) <=> Facts!extent_rb_remove_page(p)
BY DEF Table!extent_rb_remove_page, Facts!extent_rb_remove_page,
       Table!NoContaining, Facts!NoContaining, Table!AtOrBelow,
       Facts!AtOrBelow, Table!Greatest, Facts!Greatest,
       Table!extent_rb_find_containing, Facts!extent_rb_find_containing,
       Table!RemoveLast, Facts!RemoveLast, Table!TrimEnd, Facts!TrimEnd,
       Table!SplitAround, Facts!SplitAround, Table!NoMemory, Facts!NoMemory,
       Table!extent_trim, Facts!extent_trim, Table!SplitLeft, Facts!SplitLeft,
       Table!SplitRight, Facts!SplitRight, Table!FirstAt, Facts!FirstAt,
       Table!FreeAddr, Facts!FreeAddr, Table!extent_pte_is_start_or_end,
       Facts!extent_pte_is_start_or_end

------------------------------------------------------------------------------
(* Whatever the process does and whatever fails *)

\* TypeOK but for the tree; where a thread is in a fault, it has a frame, and
\* none is anywhere when exit_mmap has begun.
Places ==
    /\ use_extents \in BOOLEAN /\ exiting \in BOOLEAN
    /\ pte \in [VPage -> AnyFrame \cup {NoFrame}]
    /\ ptl \in [VPage -> Thread \cup {NoThread}]
    /\ pc \in [Thread -> {"idle", "allocated", "installed", "removed", "flushing"}]
    /\ page \in [Thread -> VPage]
    /\ frame \in [Thread -> AnyFrame \cup {NoFrame}]
    /\ early \subseteq VPage /\ free \subseteq Frame /\ relative \subseteq Frame
    /\ \A t \in Thread : pc[t] \in {"allocated", "installed"} => frame[t] \in AnyFrame
    /\ exiting => Idle

Shape == Facts!GoodTree(root) /\ leaked \in BOOLEAN

LEMMA GoIsTyped ==
    ASSUME Places, NEW t \in Thread, NEW v \in VPage,
           NEW where \in {"idle", "allocated", "installed", "removed", "flushing"},
           NEW f \in AnyFrame \cup {NoFrame},
           where \in {"allocated", "installed"} => f \in AnyFrame,
           Go(t, where, v, f)
    PROVE  /\ pc' \in [Thread -> {"idle", "allocated", "installed", "removed", "flushing"}]
           /\ page' \in [Thread -> VPage]
           /\ frame' \in [Thread -> AnyFrame \cup {NoFrame}]
           /\ pc'[t] = where /\ page'[t] = v /\ frame'[t] = f
           /\ \A u \in Thread \ {t} :
                 pc'[u] = pc[u] /\ page'[u] = page[u] /\ frame'[u] = frame[u]
           /\ \A u \in Thread :
                 pc'[u] \in {"allocated", "installed"} => frame'[u] \in AnyFrame
<1>1. /\ pc' \in [Thread -> {"idle", "allocated", "installed", "removed", "flushing"}]
      /\ page' \in [Thread -> VPage]
      /\ frame' \in [Thread -> AnyFrame \cup {NoFrame}]
  BY DEF Places, Go
<1>2. /\ pc'[t] = where /\ page'[t] = v /\ frame'[t] = f
      /\ \A u \in Thread \ {t} :
            pc'[u] = pc[u] /\ page'[u] = page[u] /\ frame'[u] = frame[u]
  BY DEF Places, Go
<1>3. \A u \in Thread :
        pc'[u] \in {"allocated", "installed"} => frame'[u] \in AnyFrame
  BY <1>2 DEF Places
<1> QED
  BY <1>1, <1>2, <1>3

LEMMA ReleaseIsTyped ==
    ASSUME Places, NEW F, Release(F)
    PROVE  free' \subseteq Frame
BY DEF Places, Release

\* The steps of a thread in a fault or an unmap.
LEMMA ThreadKeepsPlaces ==
    ASSUME Places, NEW t \in Thread, NEW v \in VPage,
           \/ WriteFault(t, v) \/ ReadFault(t, v) \/ HookRemove(t, v)
           \/ InstallPte(t) \/ LoseRace(t) \/ HookInsert(t)
           \/ ClearPte(t) \/ FreeFrame(t)
    PROVE  Places'
<1>1. pte[v] \in AnyFrame \cup {NoFrame} /\ page[t] \in VPage
      /\ frame[t] \in AnyFrame \cup {NoFrame}
  BY DEF Places
<1>2. ~exiting
  BY DEF Places, Idle, WriteFault, ReadFault, HookRemove, InstallPte, LoseRace,
         HookInsert, ClearPte, FreeFrame
<1>3. CASE WriteFault(t, v)
  <2>1. PICK f \in free : Go(t, "allocated", v, f) /\ free' = free \ {f}
    BY <1>3 DEF WriteFault
  <2>2. f \in AnyFrame
    BY DEF Places, AnyFrame
  <2> QED
    BY <1>2, <1>3, <2>1, <2>2, GoIsTyped DEF WriteFault, Places
<1>4. CASE ReadFault(t, v)
  <2>1. ZeroFrame \in AnyFrame
    BY DEF AnyFrame
  <2> QED
    BY <1>2, <1>4, <2>1, GoIsTyped DEF ReadFault, Places
<1>5. CASE HookRemove(t, v)
  BY <1>1, <1>2, <1>5, GoIsTyped DEF HookRemove, Places
<1>6. CASE InstallPte(t)
  BY <1>1, <1>2, <1>6, GoIsTyped DEF InstallPte, Places
<1>7. CASE LoseRace(t)
  BY <1>1, <1>2, <1>7, GoIsTyped, ReleaseIsTyped DEF LoseRace, Places
<1>8. CASE HookInsert(t)
  BY <1>1, <1>2, <1>8, GoIsTyped DEF HookInsert, Places
<1>9. CASE ClearPte(t)
  BY <1>1, <1>2, <1>9, GoIsTyped DEF ClearPte, Places
<1>10. CASE FreeFrame(t)
  BY <1>1, <1>2, <1>10, GoIsTyped, ReleaseIsTyped DEF FreeFrame, Places
<1> QED
  BY <1>3, <1>4, <1>5, <1>6, <1>7, <1>8, <1>9, <1>10

LEMMA NextKeepsPlaces == Places /\ [Next]_vars => Places'
<1> SUFFICES ASSUME Places, [Next]_vars PROVE Places'
  OBVIOUS
<1>1. ASSUME NEW t \in Thread, NEW v \in VPage, CopyOnWrite(t, v)
      PROVE  Places'
  <2>1. PICK f \in free : pte' = [pte EXCEPT ![v] = f] /\ free' = free \ {f}
    BY <1>1 DEF CopyOnWrite
  <2>2. f \in AnyFrame
    BY DEF Places, AnyFrame
  <2> QED
    BY <1>1, <2>1, <2>2 DEF CopyOnWrite, Places, threadVars, Idle
<1>2. ASSUME NEW t \in Thread, SyscallUseExtents(t)
      PROVE  Places'
  BY <1>2 DEF SyscallUseExtents, Places, threadVars, Idle
<1>3. CASE ExitTree
  BY <1>3 DEF ExitTree, Places, threadVars, Idle
<1>4. CASE ExitUnmap
  BY <1>4, ReleaseIsTyped DEF ExitUnmap, Places, threadVars, Idle
<1>5. CASE Fork
  BY <1>5 DEF Fork, Places, threadVars, Idle
<1>6. CASE RelativeUnmaps
  BY <1>6 DEF RelativeUnmaps, Places, threadVars, Idle
<1>7. CASE FaultInOther
  BY <1>7 DEF FaultInOther, Places, threadVars, Idle
<1>8. ASSUME NEW v \in VPage, FaultByOther(v)
      PROVE  Places'
  <2>1. PICK f \in free : pte' = [pte EXCEPT ![v] = f] /\ free' = free \ {f}
    BY <1>8 DEF FaultByOther
  <2>2. f \in AnyFrame
    BY DEF Places, AnyFrame
  <2> QED
    BY <1>8, <2>1, <2>2 DEF FaultByOther, Places, threadVars, Idle
<1>9. ASSUME NEW v \in VPage, Reclaim(v)
      PROVE  Places'
  BY <1>9, ReleaseIsTyped DEF Reclaim, Places, threadVars, Idle
<1>10. CASE UNCHANGED vars
  BY <1>10 DEF vars, Places, Idle
<1>11. ASSUME NEW t \in Thread,
              InstallPte(t) \/ LoseRace(t) \/ HookInsert(t)
                \/ ClearPte(t) \/ FreeFrame(t)
       PROVE  Places'
  <2>1. page[t] \in VPage
    BY DEF Places
  <2> QED
    BY <1>11, <2>1, ThreadKeepsPlaces
<1> QED
  BY <1>1, <1>2, <1>3, <1>4, <1>5, <1>6, <1>7, <1>8, <1>9, <1>10, <1>11,
     ThreadKeepsPlaces
  DEF Next

\* A frame a hook is given is one of AnyFrame, so the call keeps the tree good.
LEMMA InsertKeepsShape ==
    ASSUME Shape, NEW f \in AnyFrame, Table!extent_rb_insert_or_add(f)
    PROVE  Shape'
BY SameInsert, TableAssumptions, Facts!InsertOrAddKeepsGood DEF Shape

LEMMA RemoveKeepsShape ==
    ASSUME Shape, NEW f \in AnyFrame, Table!extent_rb_remove_page(f)
    PROVE  Shape'
BY SameRemove, TableAssumptions, Facts!RemovePageKeepsGood DEF Shape

\* Where the tree is, and which steps change it.
LEMMA NextKeepsTree ==
    Places /\ Shape /\ TreeIsFound /\ [Next]_vars => Shape' /\ TreeIsFound'
<1> SUFFICES ASSUME Places, Shape, TreeIsFound, [Next]_vars
             PROVE  Shape' /\ TreeIsFound'
  OBVIOUS
<1>1. \A R : R = {} => Facts!GoodTree(R)
  BY DEF Facts!GoodTree
<1>2. CASE UNCHANGED <<root, leaked, use_extents, exiting>>
  BY <1>2 DEF Shape, TreeIsFound
<1>3. ASSUME NEW t \in Thread, HookInsert(t)
      PROVE  Shape' /\ TreeIsFound'
  <2>1. frame[t] \in AnyFrame /\ ~exiting
    BY <1>3 DEF HookInsert, Places, Idle
  <2>2. CASE use_extents
    BY <1>3, <2>1, <2>2, InsertKeepsShape DEF HookInsert, TreeIsFound
  <2>3. CASE ~use_extents
    BY <1>2, <1>3, <2>3 DEF HookInsert, treeVars
  <2> QED
    BY <2>2, <2>3
<1>4. ASSUME NEW t \in Thread, NEW v \in VPage, HookRemove(t, v)
      PROVE  Shape' /\ TreeIsFound'
  <2>1. pte[v] \in AnyFrame
    BY <1>4 DEF HookRemove, Places
  <2>2. CASE use_extents /\ pte[v] # ZeroFrame
    BY <1>4, <2>1, <2>2, RemoveKeepsShape DEF HookRemove, TreeIsFound
  <2>3. CASE ~(use_extents /\ pte[v] # ZeroFrame)
    BY <1>2, <1>4, <2>3 DEF HookRemove, treeVars
  <2> QED
    BY <2>2, <2>3
<1>5. CASE ExitTree
  <2>1. CASE use_extents
    BY <1>1, <1>5, <2>1 DEF ExitTree, Table!extent_rb_destroy, Shape, TreeIsFound
  <2>2. CASE ~use_extents
    BY <1>5, <2>2 DEF ExitTree, treeVars, Shape, TreeIsFound
  <2> QED
    BY <2>1, <2>2
<1>6. CASE ExitUnmap
  BY <1>1, <1>6 DEF ExitUnmap, Shape, TreeIsFound
<1>7. CASE Fork
  BY <1>1, <1>7 DEF Fork, Shape, TreeIsFound
<1>8. CASE FaultInOther
  <2>1. PICK f \in free : Table!extent_rb_insert_or_add(f)
    BY <1>8 DEF FaultInOther
  <2>2. f \in AnyFrame
    BY DEF Places, AnyFrame
  <2> QED
    BY <1>8, <2>1, <2>2, InsertKeepsShape DEF FaultInOther, TreeIsFound
<1>9. ASSUME NEW t \in Thread, SyscallUseExtents(t)
      PROVE  Shape' /\ TreeIsFound'
  BY <1>9 DEF SyscallUseExtents, treeVars, Shape, TreeIsFound
<1>10. ASSUME NEW t \in Thread, NEW v \in VPage,
              WriteFault(t, v) \/ ReadFault(t, v) \/ CopyOnWrite(t, v)
       PROVE  Shape' /\ TreeIsFound'
  BY <1>2, <1>10 DEF WriteFault, ReadFault, CopyOnWrite, treeVars
<1>11. ASSUME NEW t \in Thread,
              InstallPte(t) \/ LoseRace(t) \/ ClearPte(t) \/ FreeFrame(t)
       PROVE  Shape' /\ TreeIsFound'
  BY <1>2, <1>11 DEF InstallPte, LoseRace, ClearPte, FreeFrame, treeVars
<1>12. CASE RelativeUnmaps \/ UNCHANGED vars
  BY <1>2, <1>12 DEF RelativeUnmaps, treeVars, vars
<1>13. ASSUME NEW v \in VPage, FaultByOther(v) \/ Reclaim(v)
       PROVE  Shape' /\ TreeIsFound'
  BY <1>2, <1>13 DEF FaultByOther, Reclaim, treeVars
<1> QED
  BY <1>3, <1>4, <1>5, <1>6, <1>7, <1>8, <1>9, <1>10, <1>11, <1>12, <1>13
  DEF Next

Inv == Places /\ Shape /\ TreeIsFound

LEMMA SpecInv == Spec => []Inv
<1>1. Init => Inv
  <2> SUFFICES ASSUME Init PROVE Inv
    OBVIOUS
  <2>1. Places
    BY DEF Init, Places, Idle
  <2>2. Shape /\ TreeIsFound
    BY DEF Init, Shape, TreeIsFound, Facts!GoodTree
  <2> QED
    BY <2>1, <2>2 DEF Inv
<1>2. Inv /\ [Next]_vars => Inv'
  BY NextKeepsPlaces, NextKeepsTree DEF Inv
<1> QED
  BY <1>1, <1>2, PTL DEF Spec

\* Shape is what ExtentTable says of the tree, and the table is told of frames.
LEMMA InvIsTyped ==
    Inv => TypeOK /\ ExtentsConsistent
<1> SUFFICES ASSUME Inv PROVE TypeOK /\ ExtentsConsistent
  OBVIOUS
<1>1. Mapped \subseteq AnyFrame
  BY DEF Inv, Places, Mapped, Known
<1>2. Facts!TypeOK /\ Facts!WellFormed
  BY <1>1, TableAssumptions, Facts!InvIsGoodTree DEF Inv, Shape, Facts!Inv
<1>3. Table!TypeOK /\ Table!WellFormed
  BY <1>2 DEF Facts!TypeOK, Facts!WellFormed, Facts!ExtentRecord, Facts!Span,
              Table!TypeOK, Table!WellFormed, Table!ExtentRecord, Table!Span
<1> QED
  BY <1>3 DEF Inv, Places, TypeOK, ExtentsConsistent

\* Whatever the process does and whatever allocation fails, the variables have
\* their types: what the hooks leave in the tree are extents.
THEOREM HooksKeepTypes == Spec => []TypeOK
BY SpecInv, InvIsTyped, PTL

\* ... the fields of every extent agree, also after fork, reads, and faults and
\* reclaim that pass the hooks by ...
THEOREM HooksKeepExtents == Spec => []ExtentsConsistent
BY SpecInv, InvIsTyped, PTL

\* ... and a tree that has something in it is one that exit_mmap destroys.
THEOREM ExitFindsTree == Spec => []TreeIsFound
<1>1. Inv => TreeIsFound
  BY DEF Inv
<1> QED
  BY <1>1, SpecInv, PTL

------------------------------------------------------------------------------
(* A process that only writes its pages and does not fork *)

OnlyWrites == ~ReadFaults /\ ~Forks /\ ~Unhooked

Owns(t) == pc[t] \in {"allocated", "flushing"}
Locks(t) == pc[t] \in {"installed", "removed"}

\* Every frame is in one place: in the allocator, in a page, or with a thread
\* that has it for a fault or after an unmap.
OnePlace ==
    /\ relative = {}
    /\ \A v \in VPage : pte[v] # NoFrame => pte[v] \in Frame /\ pte[v] \notin free
    /\ \A v, w \in VPage : pte[v] = pte[w] /\ pte[v] # NoFrame => v = w
    /\ \A t \in Thread : Owns(t) =>
          /\ frame[t] \in Frame /\ frame[t] \notin free
          /\ \A v \in VPage : pte[v] # frame[t]
    /\ \A t, u \in Thread : Owns(t) /\ Owns(u) /\ frame[t] = frame[u] => t = u

\* Who calls a hook has the lock of the page, and the frame in the page.
Held ==
    \A t \in Thread : Locks(t) =>
        ptl[page[t]] = t /\ pte[page[t]] = frame[t] /\ frame[t] # NoFrame

\* The table knows of no page before the flag is set.
Untold == ~use_extents => Known = {}

Writing == Inv /\ OnePlace /\ Held /\ Untold

TableStep == [Table!Next]_(Table!vars)

LEMMA FramesAreSomething == NoFrame \notin Frame /\ ZeroFrame \notin Frame
BY MMAssumption

LEMMA KnownIsMapped ==
    ASSUME \A v \in VPage : v \in Known' <=> v \in Known,
           \A v \in VPage : v \in Known => pte'[v] = pte[v],
           UNCHANGED exiting
    PROVE  Known' = Known /\ Mapped' = Mapped
<1>1. Known \subseteq VPage /\ Known' \subseteq VPage
  BY DEF Known
<1>2. Known' = Known
  BY <1>1
<1>3. {pte'[v] : v \in Known'} = {pte[v] : v \in Known}
  BY <1>1, <1>2
<1> QED
  BY <1>2, <1>3 DEF Mapped

\* A step that leaves the tree alone and moves no page that is known.
LEMMA QuietStep ==
    ASSUME Untold, UNCHANGED <<root, leaked, use_extents, exiting>>,
           \A v \in VPage : v \in Known' <=> v \in Known,
           \A v \in VPage : v \in Known => pte'[v] = pte[v]
    PROVE  Untold' /\ TableStep
<1>1. Known' = Known /\ Mapped' = Mapped
  BY KnownIsMapped
<1> QED
  BY <1>1 DEF Untold, TableStep, Table!vars

LEMMA WriteFaultStep ==
    ASSUME Writing, NEW t \in Thread, NEW v \in VPage, WriteFault(t, v)
    PROVE  OnePlace' /\ Held' /\ Untold' /\ TableStep
<1>1. PICK f \in free : Go(t, "allocated", v, f) /\ free' = free \ {f}
  BY DEF WriteFault
<1>2. f \in Frame /\ f \in AnyFrame
  BY DEF Writing, Inv, Places, AnyFrame
<1>3. /\ pc[t] = "idle" /\ pc'[t] = "allocated" /\ frame'[t] = f
      /\ \A u \in Thread \ {t} :
            pc'[u] = pc[u] /\ page'[u] = page[u] /\ frame'[u] = frame[u]
  BY <1>1, <1>2, GoIsTyped DEF WriteFault, Writing, Inv
<1>4. UNCHANGED <<treeVars, use_extents, pte, early, ptl, relative, exiting>>
  BY DEF WriteFault
<1>5. OnePlace'
  BY <1>1, <1>2, <1>3, <1>4, FramesAreSomething DEF Writing, OnePlace, Owns
<1>6. Held'
  BY <1>3, <1>4 DEF Writing, Held, Locks
<1>7. Known' = Known
  BY <1>3, <1>4 DEF Known
<1> QED
  BY <1>4, <1>5, <1>6, <1>7, QuietStep DEF Writing, treeVars

LEMMA InstallPteStep ==
    ASSUME Writing, NEW t \in Thread, InstallPte(t)
    PROVE  OnePlace' /\ Held' /\ Untold' /\ TableStep
<1> DEFINE v == page[t]
<1>1. /\ v \in VPage /\ pc[t] = "allocated" /\ ptl[v] = NoThread /\ pte[v] = NoFrame
      /\ UNCHANGED <<treeVars, use_extents, early, free, relative, exiting>>
  BY DEF InstallPte, Writing, Inv, Places
<1>2. /\ pte'[v] = frame[t] /\ ptl'[v] = t
      /\ \A w \in VPage \ {v} : pte'[w] = pte[w] /\ ptl'[w] = ptl[w]
  BY <1>1 DEF InstallPte, Writing, Inv, Places
<1>3. /\ pc'[t] = "installed" /\ page'[t] = v /\ frame'[t] = frame[t]
      /\ \A u \in Thread \ {t} :
            pc'[u] = pc[u] /\ page'[u] = page[u] /\ frame'[u] = frame[u]
  <2>1. frame[t] \in AnyFrame
    BY <1>1 DEF Writing, Inv, Places
  <2> QED
    BY <1>1, <2>1, GoIsTyped DEF InstallPte, Writing, Inv
<1>4. \A u \in Thread : page[u] \in VPage /\ (Locks(u) => page[u] # v)
  BY <1>1, MMAssumption DEF Writing, Inv, Places, Held
<1>5. /\ frame[t] \in Frame /\ frame[t] # NoFrame /\ frame[t] \notin free
      /\ \A w \in VPage : pte[w] # frame[t]
  BY <1>1, FramesAreSomething DEF Writing, OnePlace, Owns
<1> HIDE DEF v
<1>6. OnePlace'
  BY <1>1, <1>2, <1>3, <1>5 DEF Writing, OnePlace, Owns
<1>7. Held'
  BY <1>1, <1>2, <1>3, <1>4, <1>5 DEF Writing, Held, Locks
<1>8. \A w \in VPage : w \in Known' <=> w \in Known
  BY <1>1, <1>2, <1>3 DEF Known
<1>9. \A w \in VPage : w \in Known => pte'[w] = pte[w]
  BY <1>1, <1>2 DEF Known
<1> QED
  BY <1>1, <1>6, <1>7, <1>8, <1>9, QuietStep DEF Writing, treeVars

\* Who gives its frame back gives it to the allocator alone.
LEMMA GiveBackStep ==
    ASSUME Writing, NEW t \in Thread, LoseRace(t) \/ FreeFrame(t)
    PROVE  OnePlace' /\ Held' /\ Untold' /\ TableStep
<1>1. Owns(t) /\ frame[t] \in Frame
  BY DEF LoseRace, FreeFrame, Owns, Writing, OnePlace
<1>2. free' = free \cup {frame[t]}
  BY <1>1 DEF LoseRace, FreeFrame, Release, Writing, OnePlace
<1>3. UNCHANGED <<treeVars, use_extents, pte, early, ptl, relative, exiting>>
  BY DEF LoseRace, FreeFrame
<1>4. /\ pc'[t] = "idle"
      /\ \A u \in Thread \ {t} :
            pc'[u] = pc[u] /\ page'[u] = page[u] /\ frame'[u] = frame[u]
  <2>1. page[t] \in VPage /\ NoFrame \in AnyFrame \cup {NoFrame}
    BY DEF Writing, Inv, Places
  <2> QED
    BY <2>1, GoIsTyped DEF LoseRace, FreeFrame, Writing, Inv
<1>5. OnePlace'
  BY <1>1, <1>2, <1>3, <1>4 DEF Writing, OnePlace, Owns
<1>6. Held'
  BY <1>3, <1>4 DEF Writing, Held, Locks
<1>7. Known' = Known
  BY <1>1, <1>3, <1>4 DEF Known, Owns
<1> QED
  BY <1>3, <1>5, <1>6, <1>7, QuietStep DEF Writing, treeVars

\* The hook of a fault: with the flag set it is Fault of ExtentTable, with a
\* frame that is not mapped, and without it nothing.
LEMMA HookInsertStep ==
    ASSUME Writing, NEW t \in Thread, HookInsert(t)
    PROVE  OnePlace' /\ Held' /\ Untold' /\ TableStep
<1> DEFINE v == page[t]
           f == frame[t]
<1>1. /\ v \in VPage /\ pc[t] = "installed" /\ ~exiting /\ f \in AnyFrame
      /\ UNCHANGED <<use_extents, pte, free, relative, exiting>>
  BY DEF HookInsert, Writing, Inv, Places, Idle
<1>2. pte[v] = f /\ f # NoFrame /\ ptl[v] = t
  BY <1>1 DEF Writing, Held, Locks
<1>3. \A w \in VPage \ {v} : ptl'[w] = ptl[w] /\ (w \in early' <=> w \in early)
  BY <1>1 DEF HookInsert, Writing, Inv, Places
<1>4. /\ pc'[t] = "idle"
      /\ \A u \in Thread \ {t} :
            pc'[u] = pc[u] /\ page'[u] = page[u] /\ frame'[u] = frame[u]
  <2>1. NoFrame \in AnyFrame \cup {NoFrame}
    OBVIOUS
  <2> QED
    BY <1>1, <2>1, GoIsTyped DEF HookInsert, Writing, Inv
<1>5. \A u \in Thread \ {t} : page[u] \in VPage /\ (Locks(u) => page[u] # v)
  BY <1>1, <1>2 DEF Writing, Inv, Places, Held, Locks
<1> HIDE DEF v, f
<1>6. OnePlace'
  BY <1>1, <1>4 DEF Writing, OnePlace, Owns
<1>7. Held'
  BY <1>1, <1>3, <1>4, <1>5 DEF Writing, Held, Locks
<1>8. v \notin Known /\ \A w \in VPage \ {v} : w \in Known' <=> w \in Known
  BY <1>1, <1>3, <1>4 DEF Known, v
<1>9. CASE use_extents
  <2>1. Table!extent_rb_insert_or_add(f) /\ v \notin early'
    BY <1>9 DEF HookInsert, v, f
  <2>2. v \in Known'
    BY <1>1, <1>2, <1>4, <1>5, <2>1 DEF Known, Locks
  <2>3. Known' = Known \cup {v} /\ Known \subseteq VPage
    <3>1. Known \subseteq VPage /\ Known' \subseteq VPage
      BY DEF Known
    <3> QED
      BY <1>1, <1>8, <2>2, <3>1
  <2>4. Mapped = {pte[w] : w \in Known} /\ Mapped' = {pte[w] : w \in Known'}
    BY <1>1 DEF Mapped
  <2>5. Mapped' = Mapped \cup {f}
    BY <1>2, <2>3, <2>4
  <2>6. f \notin Mapped
    BY <1>1, <1>2, <1>8, <2>3, <2>4 DEF Writing, OnePlace
  <2>7. Table!Fault(f)
    BY <2>1, <2>5, <2>6 DEF Table!Fault
  <2>8. Untold'
    BY <1>1, <1>9 DEF Untold
  <2> QED
    BY <1>1, <1>6, <1>7, <2>7, <2>8 DEF TableStep, Table!Next
<1>10. CASE ~use_extents
  <2>1. UNCHANGED treeVars /\ v \in early'
    BY <1>10 DEF HookInsert, v
  <2>2. v \notin Known'
    BY <2>1 DEF Known
  <2>3. \A w \in VPage : w \in Known' <=> w \in Known
    BY <1>8, <2>2
  <2> QED
    BY <1>1, <1>6, <1>7, <2>1, <2>3, QuietStep DEF Writing, treeVars
<1> QED
  BY <1>9, <1>10

\* The hook of an unmap: with the flag set it is Unmap of ExtentTable.
LEMMA HookRemoveStep ==
    ASSUME Writing, NEW t \in Thread, NEW v \in VPage, HookRemove(t, v)
    PROVE  OnePlace' /\ Held' /\ Untold' /\ TableStep
<1> DEFINE f == pte[v]
<1>1. /\ pc[t] = "idle" /\ ~exiting /\ ptl[v] = NoThread
      /\ f \in Frame /\ f # ZeroFrame /\ f # NoFrame /\ f \in AnyFrame
      /\ UNCHANGED <<use_extents, pte, early, free, relative, exiting>>
  BY FramesAreSomething DEF HookRemove, Writing, OnePlace, AnyFrame
<1>2. ptl'[v] = t /\ \A w \in VPage \ {v} : ptl'[w] = ptl[w]
  BY <1>1 DEF HookRemove, Writing, Inv, Places
<1>3. /\ pc'[t] = "removed" /\ page'[t] = v /\ frame'[t] = f
      /\ \A u \in Thread \ {t} :
            pc'[u] = pc[u] /\ page'[u] = page[u] /\ frame'[u] = frame[u]
  BY <1>1, GoIsTyped DEF HookRemove, Writing, Inv
<1>4. \A u \in Thread : page[u] \in VPage /\ (Locks(u) => page[u] # v)
  BY <1>1, MMAssumption DEF Writing, Inv, Places, Held
<1>5. OnePlace'
  BY <1>1, <1>3 DEF Writing, OnePlace, Owns
<1>6. Held'
  BY <1>1, <1>2, <1>3, <1>4 DEF Writing, Held, Locks
<1>7. v \notin Known' /\ \A w \in VPage \ {v} : w \in Known' <=> w \in Known
  BY <1>1, <1>3 DEF Known
<1>8. Known' = Known \ {v} /\ Known \subseteq VPage
  <2>1. Known \subseteq VPage /\ Known' \subseteq VPage
    BY DEF Known
  <2> QED
    BY <1>7, <2>1
<1>9. CASE use_extents
  <2>1. Table!extent_rb_remove_page(f)
    BY <1>1, <1>9 DEF HookRemove
  <2>2. Mapped = {pte[w] : w \in Known} /\ Mapped' = {pte[w] : w \in Known'}
    BY <1>1 DEF Mapped
  <2>3. \A w \in Known \ {v} : pte[w] # f
    BY <1>1, <1>8 DEF Writing, OnePlace
  <2>4. Mapped' = Mapped \ {f}
    BY <1>8, <2>2, <2>3
  <2>5. Table!Unmap(f)
    BY <2>1, <2>4 DEF Table!Unmap
  <2>6. Untold'
    BY <1>1, <1>9 DEF Untold
  <2> QED
    BY <1>1, <1>5, <1>6, <2>5, <2>6 DEF TableStep, Table!Next
<1>10. CASE ~use_extents
  <2>1. UNCHANGED treeVars
    BY <1>10 DEF HookRemove
  <2>2. \A w \in VPage : w \in Known' <=> w \in Known
    BY <1>8, <1>10 DEF Writing, Untold
  <2> QED
    BY <1>1, <1>5, <1>6, <2>1, <2>2, QuietStep DEF Writing, treeVars
<1> QED
  BY <1>9, <1>10

LEMMA ClearPteStep ==
    ASSUME Writing, NEW t \in Thread, ClearPte(t)
    PROVE  OnePlace' /\ Held' /\ Untold' /\ TableStep
<1> DEFINE v == page[t]
           f == frame[t]
<1>1. /\ v \in VPage /\ pc[t] = "removed"
      /\ UNCHANGED <<treeVars, use_extents, free, relative, exiting>>
  BY DEF ClearPte, Writing, Inv, Places
<1>2. pte[v] = f /\ f # NoFrame /\ ptl[v] = t
  BY <1>1 DEF Writing, Held, Locks
<1>3. /\ pte'[v] = NoFrame
      /\ \A w \in VPage \ {v} :
            ptl'[w] = ptl[w] /\ pte'[w] = pte[w] /\ (w \in early' <=> w \in early)
  BY <1>1 DEF ClearPte, Writing, Inv, Places
<1>4. /\ pc'[t] = "flushing" /\ frame'[t] = f
      /\ \A u \in Thread \ {t} :
            pc'[u] = pc[u] /\ page'[u] = page[u] /\ frame'[u] = frame[u]
  <2>1. f \in AnyFrame \cup {NoFrame}
    BY DEF Writing, Inv, Places
  <2> QED
    BY <1>1, <2>1, GoIsTyped DEF ClearPte, Writing, Inv
<1>5. \A u \in Thread \ {t} : page[u] \in VPage /\ (Locks(u) => page[u] # v)
  BY <1>1, <1>2 DEF Writing, Inv, Places, Held, Locks
<1>6. f \in Frame /\ f \notin free /\ \A w \in VPage \ {v} : pte[w] # f
  BY <1>1, <1>2 DEF Writing, OnePlace
<1>7. \A u \in Thread : Owns(u) => u # t /\ frame[u] # f
  BY <1>1, <1>2 DEF Writing, OnePlace, Owns
<1>8. v \notin Known
  BY <1>1 DEF Known
<1> HIDE DEF v, f
<1>9. OnePlace'
  BY <1>1, <1>3, <1>4, <1>6, <1>7, FramesAreSomething DEF Writing, OnePlace, Owns
<1>10. Held'
  BY <1>1, <1>3, <1>4, <1>5 DEF Writing, Held, Locks
<1>11. v \notin Known' /\ \A w \in VPage \ {v} : w \in Known' <=> w \in Known
  BY <1>1, <1>3, <1>4 DEF Known, v
<1>12. \A w \in VPage : w \in Known => pte'[w] = pte[w]
  BY <1>3, <1>8
<1> QED
  BY <1>1, <1>8, <1>9, <1>10, <1>11, <1>12, QuietStep DEF Writing, treeVars

\* exit_mmap destroys the tree: ExitMmap of ExtentTable. Then nothing is mapped.
LEMMA ExitStep ==
    ASSUME Writing, ExitTree \/ ExitUnmap
    PROVE  OnePlace' /\ Held' /\ Untold' /\ TableStep
<1>1. \A t \in Thread : pc[t] = "idle"
  BY DEF ExitTree, ExitUnmap, Writing, Inv, Places, Idle
<1>2. CASE ExitTree
  <2>1. UNCHANGED <<use_extents, pte, early, ptl, threadVars, free, relative>>
        /\ exiting' = TRUE
    BY <1>2 DEF ExitTree
  <2>2. OnePlace' /\ Held' /\ Untold'
    BY <2>1 DEF threadVars, Writing, OnePlace, Owns, Held, Locks, Untold, Known
  <2>3. Mapped' = {}
    BY <2>1 DEF Mapped
  <2>4. CASE use_extents
    BY <1>2, <2>2, <2>3, <2>4
    DEF ExitTree, TableStep, Table!Next, Table!ExitMmap
  <2>5. CASE ~use_extents
    <3>1. Mapped = {} /\ UNCHANGED <<root, leaked>>
      BY <1>2, <2>5 DEF ExitTree, treeVars, Mapped, Writing, Untold
    <3> QED
      BY <2>2, <2>3, <3>1 DEF TableStep, Table!vars
  <2> QED
    BY <2>4, <2>5
<1>3. CASE ExitUnmap
  <2>1. /\ exiting /\ root' = {} /\ ~use_extents' /\ free' \subseteq Frame
        /\ pte' = [v \in VPage |-> NoFrame]
        /\ UNCHANGED <<leaked, ptl, threadVars, relative>>
    BY <1>3, ReleaseIsTyped DEF ExitUnmap, Writing, Inv
  <2>2. OnePlace' /\ Held'
    BY <1>1, <2>1 DEF threadVars, Writing, OnePlace, Owns, Held, Locks
  <2>3. Known' = {}
    BY <2>1 DEF Known
  <2>4. Mapped = {} /\ Mapped' = {} /\ root = {}
    BY <2>1, <2>3 DEF Mapped, Writing, Inv, TreeIsFound
  <2> QED
    BY <2>1, <2>2, <2>3, <2>4 DEF Untold, TableStep, Table!vars
<1> QED
  BY <1>2, <1>3

\* What else such a process does: nothing, and the system call.
LEMMA OtherStep ==
    ASSUME OnlyWrites, Writing,
           \/ \E t \in Thread, v \in VPage : ReadFault(t, v) \/ CopyOnWrite(t, v)
           \/ \E t \in Thread : SyscallUseExtents(t)
           \/ Fork \/ RelativeUnmaps \/ FaultInOther
           \/ \E v \in VPage : FaultByOther(v) \/ Reclaim(v)
           \/ UNCHANGED vars
    PROVE  OnePlace' /\ Held' /\ Untold' /\ TableStep
<1>1. \A t \in Thread, v \in VPage : ~ReadFault(t, v) /\ ~CopyOnWrite(t, v)
  BY FramesAreSomething, MMAssumption
  DEF OnlyWrites, ReadFault, CopyOnWrite, Writing, OnePlace
<1>2. ~Fork /\ ~RelativeUnmaps /\ ~FaultInOther
  BY DEF OnlyWrites, Fork, RelativeUnmaps, FaultInOther, Writing, OnePlace
<1>3. \A v \in VPage : ~FaultByOther(v) /\ ~Reclaim(v)
  BY DEF OnlyWrites, FaultByOther, Reclaim
<1>4. ASSUME NEW t \in Thread, SyscallUseExtents(t)
      PROVE  OnePlace' /\ Held' /\ Untold' /\ TableStep
  <2>1. UNCHANGED <<treeVars, pte, early, ptl, threadVars, free, relative, exiting>>
        /\ use_extents' = TRUE
    BY <1>4 DEF SyscallUseExtents
  <2>2. OnePlace' /\ Held' /\ Untold' /\ Known' = Known
    BY <2>1 DEF threadVars, Writing, OnePlace, Owns, Held, Locks, Untold, Known
  <2>3. Mapped' = Mapped
    BY <2>1, <2>2 DEF Mapped
  <2> QED
    BY <2>1, <2>2, <2>3 DEF treeVars, TableStep, Table!vars
<1>5. CASE UNCHANGED vars
  BY <1>5 DEF vars, Writing, OnePlace, Owns, Held, Locks, Untold, Known, Mapped,
              TableStep, Table!vars
<1> QED
  BY <1>1, <1>2, <1>3, <1>4, <1>5

LEMMA WritingStep ==
    ASSUME OnlyWrites, Writing, [Next]_vars
    PROVE  Writing' /\ TableStep
<1>1. OnePlace' /\ Held' /\ Untold' /\ TableStep
  BY WriteFaultStep, InstallPteStep, GiveBackStep, HookInsertStep, HookRemoveStep,
     ClearPteStep, ExitStep, OtherStep
  DEF Next
<1>2. Inv'
  BY NextKeepsPlaces, NextKeepsTree DEF Writing, Inv
<1> QED
  BY <1>1, <1>2 DEF Writing

LEMMA InitWriting == Init => Writing
<1> SUFFICES ASSUME Init PROVE Writing
  OBVIOUS
<1>1. Places
  BY DEF Init, Places, Idle
<1>2. Shape /\ TreeIsFound
  BY DEF Init, Shape, TreeIsFound, Facts!GoodTree
<1>3. OnePlace /\ Held /\ Untold
  BY DEF Init, OnePlace, Owns, Held, Locks, Untold, Known
<1> QED
  BY <1>1, <1>2, <1>3 DEF Writing, Inv

LEMMA SpecWriting ==
    ASSUME OnlyWrites
    PROVE  Spec => []Writing
<1>1. Writing /\ [Next]_vars => Writing'
  BY WritingStep
<1> QED
  BY <1>1, InitWriting, PTL DEF Spec

\* A process that only writes its pages and does not fork uses its table the way
\* ExtentTable says, however its threads' faults, unmaps and exits interleave,
\* whenever it sets the flag and whatever allocation fails.
THEOREM ProcessUsesTable ==
    ASSUME OnlyWrites
    PROVE  Spec => UsesTable
<1>1. Init => Table!Init
  BY DEF Init, Table!Init, Mapped, Known
<1>2. Writing /\ [Next]_vars => [Table!Next]_(Table!vars)
  BY WritingStep DEF TableStep
<1> QED
  BY <1>1, <1>2, SpecWriting, PTL DEF Spec, UsesTable, Table!Spec

\* The table of this process does what has been proved of ExtentTable.
LEMMA TableIsTheTable == Table!Spec <=> Facts!Spec
<1>1. Table!Init <=> Facts!Init
  BY DEF Table!Init, Facts!Init
<1>2. Table!vars = Facts!vars
  BY DEF Table!vars, Facts!vars
<1>3. Table!Next <=> Facts!Next
  BY SameInsert, SameRemove
  DEF Table!Next, Facts!Next, Table!Fault, Facts!Fault, Table!Unmap, Facts!Unmap,
      Table!ExitMmap, Facts!ExitMmap, Table!extent_rb_destroy,
      Facts!extent_rb_destroy
<1>4. [Table!Next]_(Table!vars) <=> [Facts!Next]_(Facts!vars)
  BY <1>2, <1>3 DEF Table!vars, Facts!vars
<1> QED
  BY <1>1, <1>4, PTL DEF Table!Spec, Facts!Spec

\* If no allocation fails, the tree of such a process never tracks a frame that
\* the allocator may hand out, or has handed to a fault that has not installed it.
THEOREM FreeFramesUntracked ==
    ASSUME OnlyWrites, ~PageAllocFails, ~AtomicAllocFails
    PROVE  Spec => []FreeUntracked
<1>1. Facts!Spec => []Facts!Exact
  <2>1. Facts!Spec => [](Facts!Separated /\ Facts!Exact)
    BY TableAssumptions, Facts!TableIsExact
  <2> QED
    BY <2>1, PTL
<1>2. Writing /\ Facts!Exact => FreeUntracked
  <2> SUFFICES ASSUME Writing, Facts!Exact, NEW f \in Table!Tracked
               PROVE  /\ f \notin free
                      /\ \A t \in Thread : pc[t] = "allocated" => frame[t] # f
    BY DEF FreeUntracked
  <2>1. f \in Mapped
    BY DEF Facts!Exact, Facts!Tracked, Facts!Span, Table!Tracked, Table!Span
  <2>2. PICK v \in VPage : f = pte[v] /\ pte[v] # NoFrame
    BY <2>1 DEF Mapped, Known
  <2> QED
    BY <2>2 DEF Writing, OnePlace, Owns
<1> QED
  BY <1>1, <1>2, SpecWriting, ProcessUsesTable, TableIsTheTable, PTL DEF UsesTable
\* Both count with the same Cardinality.
LEMMA SameCardinality ==
    ASSUME NEW S
    PROVE  Table!Cardinality(S) = Cardinality(S) /\ Facts!Cardinality(S) = Cardinality(S)
<1>1. Table!Cardinality(S) = Cardinality(S)
  BY DEF Table!Cardinality, Cardinality
<1>2. Facts!Cardinality(S) = Cardinality(S)
  BY DEF Facts!Cardinality, Cardinality
<1> QED
  BY <1>1, <1>2

\* What is reported of the table and of the table of the proofs.
LEMMA SameReport == Table!extent_rb_print = Facts!extent_rb_print
BY SameCardinality
DEF Table!extent_rb_print, Facts!extent_rb_print, Table!CountedPages,
       Facts!CountedPages

\* If no allocation fails and every page was faulted in since the flag was set,
\* the pages of the report are, between faults, the frames the process maps.
THEOREM ReportIsPhysical ==
    ASSUME OnlyWrites, ~PageAllocFails, ~AtomicAllocFails
    PROVE  Spec => []PhysicalPagesReported
<1>1. Facts!Spec => []Facts!ReportExact
  BY TableAssumptions, Facts!ReportIsExact
<1>2. Facts!ReportExact => PhysicalPagesReported
  <2> SUFFICES ASSUME Facts!ReportExact, Idle, ~exiting, early = {}
               PROVE  Table!extent_rb_print.pages
                        = Cardinality({pte[v] : v \in VPage} \ {NoFrame})
    BY DEF PhysicalPagesReported
  <2>1. Mapped = {pte[v] : v \in VPage} \ {NoFrame}
    BY DEF Mapped, Known, Idle
  <2> QED
    BY <2>1, SameReport, SameCardinality DEF Facts!ReportExact
<1> QED
  BY <1>1, <1>2, ProcessUsesTable, TableIsTheTable, PTL DEF UsesTable
------------------------------------------------------------------------------
(* No frame is lost *)

\* A frame of the allocator is free, or a page has it, or a thread has taken it
\* for a fault or not yet given it back after an unmap.
Accounted ==
    \A f \in Frame :
        \/ f \in free
        \/ \E v \in VPage : pte[v] = f
        \/ \E t \in Thread : Owns(t) /\ frame[t] = f

LEMMA ThreadAccounts ==
    ASSUME OnlyWrites, Writing, Accounted, NEW t \in Thread, NEW v \in VPage,
           \/ WriteFault(t, v) \/ HookRemove(t, v) \/ InstallPte(t)
           \/ LoseRace(t) \/ HookInsert(t) \/ ClearPte(t) \/ FreeFrame(t)
    PROVE  Accounted'
<1> USE DEF Accounted, Owns
<1>1. /\ Inv /\ Places /\ page[t] \in VPage /\ relative = {}
      /\ \A u \in Thread : Owns(u) => frame[u] \in Frame
      /\ pc \in [Thread -> {"idle", "allocated", "installed", "removed", "flushing"}]
      /\ frame \in [Thread -> AnyFrame \cup {NoFrame}]
      /\ pte \in [VPage -> AnyFrame \cup {NoFrame}]
  BY DEF Writing, Inv, Places, OnePlace
<1>2. CASE WriteFault(t, v)
  <2>1. PICK f \in free : Go(t, "allocated", v, f) /\ free' = free \ {f}
    BY <1>2 DEF WriteFault
  <2>2. /\ pc[t] = "idle" /\ pc'[t] = "allocated" /\ frame'[t] = f /\ pte' = pte
        /\ \A u \in Thread \ {t} : pc'[u] = pc[u] /\ frame'[u] = frame[u]
    BY <1>1, <1>2, <2>1 DEF WriteFault, Go
  <2> QED
    BY <2>1, <2>2
<1>3. CASE HookRemove(t, v)
  <2>1. /\ pc[t] = "idle" /\ pc'[t] = "removed" /\ pte' = pte /\ free' = free
        /\ \A u \in Thread \ {t} : pc'[u] = pc[u] /\ frame'[u] = frame[u]
    BY <1>1, <1>3 DEF HookRemove, Go
  <2> QED
    BY <2>1
<1>4. CASE InstallPte(t)
  <2>1. /\ pte[page[t]] = NoFrame /\ pte'[page[t]] = frame[t] /\ free' = free
        /\ \A w \in VPage \ {page[t]} : pte'[w] = pte[w]
        /\ \A u \in Thread \ {t} : pc'[u] = pc[u] /\ frame'[u] = frame[u]
    BY <1>1, <1>4 DEF InstallPte, Go
  <2>2. \A w \in VPage : pte[w] \in Frame => pte'[w] = pte[w]
    BY <2>1, FramesAreSomething
  <2> QED
    BY <1>1, <2>1, <2>2
<1>5. CASE LoseRace(t) \/ FreeFrame(t)
  <2>1. /\ pte' = pte /\ Release({frame[t]}) /\ Owns(t)
        /\ \A u \in Thread \ {t} : pc'[u] = pc[u] /\ frame'[u] = frame[u]
    BY <1>1, <1>5 DEF LoseRace, FreeFrame, Go
  <2>2. free' = free \cup {frame[t]}
    BY <1>1, <2>1 DEF Release
  <2> QED
    BY <2>1, <2>2
<1>6. CASE HookInsert(t)
  <2>1. /\ pc[t] = "installed" /\ pte' = pte /\ free' = free
        /\ \A u \in Thread \ {t} : pc'[u] = pc[u] /\ frame'[u] = frame[u]
    BY <1>1, <1>6 DEF HookInsert, Go
  <2> QED
    BY <2>1
<1>7. CASE ClearPte(t)
  <2>1. /\ pc[t] = "removed" /\ pc'[t] = "flushing" /\ frame'[t] = frame[t]
        /\ free' = free /\ \A w \in VPage \ {page[t]} : pte'[w] = pte[w]
        /\ \A u \in Thread \ {t} : pc'[u] = pc[u] /\ frame'[u] = frame[u]
    BY <1>1, <1>7 DEF ClearPte, Go
  <2>2. pte[page[t]] = frame[t]
    BY <2>1 DEF Writing, Held, Locks
  <2> QED
    BY <2>1, <2>2
<1> QED
  BY <1>2, <1>3, <1>4, <1>5, <1>6, <1>7

LEMMA NextAccounts ==
    ASSUME OnlyWrites, Writing, Accounted, [Next]_vars
    PROVE  Accounted'
<1>1. CASE \E t \in Thread, v \in VPage : WriteFault(t, v) \/ HookRemove(t, v)
  BY <1>1, ThreadAccounts
<1>2. CASE \E t \in Thread :
             InstallPte(t) \/ LoseRace(t) \/ HookInsert(t) \/ ClearPte(t) \/ FreeFrame(t)
  <2>1. PICK t \in Thread :
             InstallPte(t) \/ LoseRace(t) \/ HookInsert(t) \/ ClearPte(t) \/ FreeFrame(t)
    BY <1>2
  <2>2. page[t] \in VPage
    BY DEF Writing, Inv, Places
  <2> QED
    BY <2>1, <2>2, ThreadAccounts
<1>3. CASE \/ \E t \in Thread : SyscallUseExtents(t)
           \/ ExitTree
           \/ UNCHANGED vars
  BY <1>3 DEF SyscallUseExtents, ExitTree, vars, threadVars, Accounted, Owns
<1>4. CASE ExitUnmap
  <2>1. \A t \in Thread : pc[t] = "idle"
    BY <1>4 DEF ExitUnmap, Writing, Inv, Places, Idle
  <2>2. relative = {}
    BY DEF Writing, OnePlace
  <2>3. \A f \in Frame : f \in free'
    BY <1>4, <2>1, <2>2 DEF ExitUnmap, Release, Accounted, Owns
  <2> QED
    BY <2>3 DEF Accounted
<1>5. CASE \/ \E t \in Thread, v \in VPage : ReadFault(t, v) \/ CopyOnWrite(t, v)
           \/ Fork \/ RelativeUnmaps \/ FaultInOther
           \/ \E v \in VPage : FaultByOther(v) \/ Reclaim(v)
  <2>1. \A t \in Thread, v \in VPage : ~ReadFault(t, v) /\ ~CopyOnWrite(t, v)
    BY FramesAreSomething, MMAssumption
    DEF OnlyWrites, ReadFault, CopyOnWrite, Writing, OnePlace
  <2>2. ~Fork /\ ~RelativeUnmaps /\ ~FaultInOther
    BY DEF OnlyWrites, Fork, RelativeUnmaps, FaultInOther, Writing, OnePlace
  <2>3. \A v \in VPage : ~FaultByOther(v) /\ ~Reclaim(v)
    BY DEF OnlyWrites, FaultByOther, Reclaim
  <2> QED
    BY <1>5, <2>1, <2>2, <2>3
<1> QED
  BY <1>1, <1>2, <1>3, <1>4, <1>5 DEF Next

LEMMA SpecAccounts ==
    ASSUME OnlyWrites
    PROVE  Spec => []Accounted
<1>1. Init => Accounted
  BY DEF Init, Accounted
<1>2. Writing /\ Accounted /\ [Next]_vars => Accounted'
  BY NextAccounts
<1> QED
  BY <1>1, <1>2, SpecWriting, PTL DEF Spec
------------------------------------------------------------------------------
(* Whatever the process does and whatever fails: the damage stays local *)

\* What Held says is kept by every step, also by those that pass the hooks by:
\* each of them wants the lock of its page, and exit and fork want all threads
\* idle.
LEMMA NextKeepsHeld == Places /\ Held /\ [Next]_vars => Held'
<1> SUFFICES ASSUME Places, Held, [Next]_vars PROVE Held'
  OBVIOUS
<1> DEFINE Others(t) ==
             \A u \in Thread \ {t} :
                pc'[u] = pc[u] /\ page'[u] = page[u] /\ frame'[u] = frame[u]
<1>1. NoThread \notin Thread /\ NoFrame \notin AnyFrame
  BY MMAssumption DEF AnyFrame
<1>2. \A t \in Thread : page[t] \in VPage
  BY DEF Places
<1>3. ASSUME NEW t \in Thread, ~Locks(t)', Others(t), UNCHANGED <<pte, ptl>>
      PROVE  Held'
  BY <1>3 DEF Held, Locks
<1>4. ASSUME NEW t \in Thread, NEW v \in VPage, WriteFault(t, v) \/ ReadFault(t, v)
      PROVE  Held'
  <2>1. PICK f \in AnyFrame : Go(t, "allocated", v, f)
    BY <1>4 DEF WriteFault, ReadFault, Places, AnyFrame
  <2>2. pc'[t] = "allocated" /\ Others(t)
    BY <2>1, GoIsTyped
  <2> QED
    BY <1>3, <1>4, <2>2 DEF WriteFault, ReadFault, Locks
<1>5. ASSUME NEW t \in Thread, LoseRace(t) \/ FreeFrame(t)
      PROVE  Held'
  <2>1. Go(t, "idle", page[t], NoFrame) /\ UNCHANGED <<pte, ptl>>
    BY <1>5 DEF LoseRace, FreeFrame
  <2>2. pc'[t] = "idle" /\ Others(t)
    BY <1>2, <2>1, GoIsTyped
  <2> QED
    BY <1>3, <2>1, <2>2 DEF Locks
<1>6. ASSUME NEW t \in Thread, InstallPte(t)
      PROVE  Held'
  <2>1. frame[t] \in AnyFrame /\ ptl[page[t]] = NoThread
    BY <1>6 DEF InstallPte, Places
  <2>2. /\ pc'[t] = "installed" /\ page'[t] = page[t] /\ frame'[t] = frame[t]
        /\ Others(t)
    BY <1>2, <1>6, <2>1, GoIsTyped DEF InstallPte
  <2>3. /\ pte'[page[t]] = frame[t] /\ ptl'[page[t]] = t
        /\ \A w \in VPage \ {page[t]} : pte'[w] = pte[w] /\ ptl'[w] = ptl[w]
    BY <1>2, <1>6 DEF InstallPte, Places
  <2>4. \A u \in Thread : Locks(u) => page[u] # page[t]
    BY <1>1, <2>1 DEF Held
  <2> QED
    BY <1>1, <1>2, <2>1, <2>2, <2>3, <2>4 DEF Held, Locks
<1>7. ASSUME NEW t \in Thread, NEW v \in VPage, HookRemove(t, v)
      PROVE  Held'
  <2>1. pte[v] \in AnyFrame /\ ptl[v] = NoThread /\ pte' = pte
    BY <1>7 DEF HookRemove, Places
  <2>2. /\ pc'[t] = "removed" /\ page'[t] = v /\ frame'[t] = pte[v]
        /\ Others(t)
    BY <1>7, <2>1, GoIsTyped DEF HookRemove
  <2>3. ptl'[v] = t /\ \A w \in VPage \ {v} : ptl'[w] = ptl[w]
    BY <1>7 DEF HookRemove, Places
  <2>4. \A u \in Thread : Locks(u) => page[u] # v
    BY <1>1, <2>1 DEF Held
  <2> QED
    BY <1>1, <1>2, <2>1, <2>2, <2>3, <2>4 DEF Held, Locks
<1>8. ASSUME NEW t \in Thread, HookInsert(t) \/ ClearPte(t)
      PROVE  Held'
  <2>1. Locks(t) /\ ptl[page[t]] = t
    BY <1>8 DEF HookInsert, ClearPte, Held, Locks
  <2>2. PICK where \in {"idle", "flushing"}, f \in AnyFrame \cup {NoFrame} :
          Go(t, where, page[t], f)
    BY <1>8 DEF HookInsert, ClearPte, Places
  <2>3. pc'[t] = where /\ Others(t)
    BY <1>2, <2>2, GoIsTyped
  <2>4. \A w \in VPage \ {page[t]} : pte'[w] = pte[w] /\ ptl'[w] = ptl[w]
    BY <1>8 DEF HookInsert, ClearPte, Places
  <2>5. \A u \in Thread \ {t} : Locks(u) => page[u] # page[t]
    BY <2>1 DEF Held
  <2> QED
    BY <1>2, <2>3, <2>4, <2>5 DEF Held, Locks
<1>9. ASSUME NEW v \in VPage, ptl[v] = NoThread, UNCHANGED <<ptl, threadVars>>,
             \A w \in VPage \ {v} : pte'[w] = pte[w]
      PROVE  Held'
  <2>1. \A u \in Thread : Locks(u) => page[u] # v
    BY <1>1, <1>9 DEF Held
  <2> QED
    BY <1>2, <1>9, <2>1 DEF Held, Locks, threadVars
<1>10. ASSUME NEW t \in Thread, NEW v \in VPage, CopyOnWrite(t, v)
       PROVE  Held'
  BY <1>9, <1>10 DEF CopyOnWrite, Places
<1>11. ASSUME NEW v \in VPage, FaultByOther(v) \/ Reclaim(v)
       PROVE  Held'
  BY <1>9, <1>11 DEF FaultByOther, Reclaim, Places
<1>12. CASE ExitUnmap
  BY <1>12 DEF ExitUnmap, Places, Idle, Held, Locks, threadVars
<1>13. CASE UNCHANGED <<pte, ptl, threadVars>>
  BY <1>13 DEF Held, Locks, threadVars
<1>14. ASSUME NEW t \in Thread, SyscallUseExtents(t)
       PROVE  Held'
  BY <1>13, <1>14 DEF SyscallUseExtents
<1>15. CASE ExitTree \/ Fork \/ RelativeUnmaps \/ FaultInOther \/ UNCHANGED vars
  BY <1>13, <1>15 DEF ExitTree, Fork, RelativeUnmaps, FaultInOther, vars, threadVars
<1> QED
  BY <1>4, <1>5, <1>6, <1>7, <1>8, <1>10, <1>11, <1>12, <1>14, <1>15 DEF Next

LEMMA SpecHeld == Spec => [](Inv /\ Held)
<1>1. Init => Held
  BY DEF Init, Held, Locks
<1>2. Inv /\ Held /\ [Next]_vars => Held'
  BY NextKeepsHeld DEF Inv
<1> QED
  BY <1>1, <1>2, SpecInv, PTL DEF Spec
\* What one call does to the frames tracked, in the words of Table.
OneFrame(p) == Table!Tracked' \ {p} = Table!Tracked \ {p} \/ Table!MergeRefused(p)

LEMMA HooksAreLocal ==
    ASSUME Shape, NEW p \in AnyFrame,
           Table!extent_rb_insert_or_add(p) \/ Table!extent_rb_remove_page(p)
    PROVE  OneFrame(p)
<1>1. \/ Facts!Covered(root') \ {p} = Facts!Covered(root) \ {p}
      \/ Facts!MergeRefused(p)
  BY SameInsert, SameRemove, TableAssumptions, Facts!InsertCoversOnly,
     Facts!RemoveCoversOnly DEF Shape
<1>2. /\ Table!Tracked = Facts!Covered(root)
      /\ Table!Tracked' = Facts!Covered(root')
  BY DEF Table!Tracked, Facts!Covered, Table!Span, Facts!Span
<1> QED
  BY <1>1, <1>2 DEF OneFrame, Table!MergeRefused, Facts!MergeRefused

\* When only one page is told or forgotten, and only about one frame, the frames
\* the table was told of are the same but for that one.
LEMMA OnePageMoves ==
    ASSUME UNCHANGED exiting, NEW v \in VPage, NEW f,
           \A w \in VPage \ {v} : pte'[w] = pte[w] /\ (w \in Known' <=> w \in Known),
           v \in Known => pte[v] = f,
           v \in Known' => pte'[v] = f
    PROVE  Mapped' \ {f} = Mapped \ {f}
<1>1. Known \subseteq VPage /\ Known' \subseteq VPage
  BY DEF Known
<1>2. {pte'[w] : w \in Known'} \ {f} = {pte[w] : w \in Known} \ {f}
  BY <1>1
<1> QED
  BY <1>2 DEF Mapped

\* What OnlyItsFrame says of a step.
LocalStep ==
    \/ root' = {} /\ Mapped' = {}
    \/ \E p \in AnyFrame : Mapped' \ {p} = Mapped \ {p} /\ OneFrame(p)

\* A step that leaves the tree alone changes what is mapped by one frame.
LEMMA TreeStays ==
    ASSUME UNCHANGED root, NEW p \in AnyFrame, Mapped' \ {p} = Mapped \ {p}
    PROVE  LocalStep
BY DEF LocalStep, OneFrame, Table!Tracked

LEMMA NothingMoves ==
    ASSUME UNCHANGED <<root, exiting>>,
           \A v \in VPage : v \in Known' <=> v \in Known,
           \A v \in VPage : v \in Known => pte'[v] = pte[v]
    PROVE  LocalStep
<1>1. Mapped' = Mapped
  BY KnownIsMapped
<1> QED
  BY <1>1, TreeStays DEF AnyFrame

\* The steps of a fault and of an unmap. Only the hooks tell the table anything.
LEMMA ThreadIsLocal ==
    ASSUME Inv, Held, NEW t \in Thread, NEW v \in VPage,
           \/ WriteFault(t, v) \/ ReadFault(t, v) \/ HookRemove(t, v)
           \/ InstallPte(t) \/ LoseRace(t) \/ HookInsert(t)
           \/ ClearPte(t) \/ FreeFrame(t)
    PROVE  LocalStep
<1> DEFINE Others == \A u \in Thread \ {t} : pc'[u] = pc[u] /\ page'[u] = page[u]
<1>1. Places /\ Shape /\ page[t] \in VPage /\ NoFrame \notin AnyFrame
  BY MMAssumption DEF Inv, Places, AnyFrame
<1>2. CASE WriteFault(t, v) \/ ReadFault(t, v)
  <2>1. PICK f \in AnyFrame : Go(t, "allocated", v, f)
    BY <1>1, <1>2 DEF WriteFault, ReadFault, Places, AnyFrame
  <2>2. pc[t] = "idle" /\ pc'[t] = "allocated" /\ Others
    BY <1>1, <1>2, <2>1, GoIsTyped DEF WriteFault, ReadFault
  <2>3. UNCHANGED <<root, pte, early, exiting>>
    BY <1>2 DEF WriteFault, ReadFault, treeVars
  <2>4. Known' = Known
    BY <2>2, <2>3 DEF Known
  <2> QED
    BY <2>3, <2>4, NothingMoves
<1>3. CASE LoseRace(t) \/ FreeFrame(t)
  <2>1. /\ Go(t, "idle", page[t], NoFrame)
        /\ pc[t] \in {"allocated", "flushing"}
        /\ UNCHANGED <<root, pte, early, exiting>>
    BY <1>3 DEF LoseRace, FreeFrame, treeVars
  <2>2. pc'[t] = "idle" /\ Others
    BY <1>1, <2>1, GoIsTyped
  <2>3. Known' = Known
    BY <2>1, <2>2 DEF Known
  <2> QED
    BY <2>1, <2>3, NothingMoves
<1>4. CASE InstallPte(t)
  <2>1. /\ frame[t] \in AnyFrame /\ pte[page[t]] = NoFrame
        /\ pc[t] = "allocated"
        /\ UNCHANGED <<root, early, exiting>>
    BY <1>1, <1>4 DEF InstallPte, Places, treeVars
  <2>2. pc'[t] = "installed" /\ page'[t] = page[t] /\ Others
    BY <1>1, <1>4, <2>1, GoIsTyped DEF InstallPte
  <2>3. \A w \in VPage \ {page[t]} : pte'[w] = pte[w]
    BY <1>4 DEF InstallPte, Inv, Places
  <2>4. \A w \in VPage : w \in Known' <=> w \in Known
    BY <2>1, <2>2, <2>3 DEF Known
  <2>5. \A w \in VPage : w \in Known => pte'[w] = pte[w]
    BY <2>1, <2>3 DEF Known
  <2> QED
    BY <2>1, <2>4, <2>5, NothingMoves
<1>5. CASE ClearPte(t)
  <2>1. pc[t] = "removed" /\ UNCHANGED <<root, exiting>>
    BY <1>5 DEF ClearPte, treeVars
  <2>2. pc'[t] = "flushing" /\ Others
    BY <1>1, <1>5, GoIsTyped DEF ClearPte, Places
  <2>3. /\ pte'[page[t]] = NoFrame
        /\ \A w \in VPage \ {page[t]} :
              pte'[w] = pte[w] /\ (w \in early' <=> w \in early)
    BY <1>1, <1>5 DEF ClearPte, Places
  <2>4. \A w \in VPage : w \in Known' <=> w \in Known
    BY <2>1, <2>2, <2>3 DEF Known
  <2>5. \A w \in VPage : w \in Known => pte'[w] = pte[w]
    BY <2>1, <2>3 DEF Known
  <2> QED
    BY <2>1, <2>4, <2>5, NothingMoves
<1>6. CASE HookInsert(t)
  <2> DEFINE f == frame[t]
             u == page[t]
  <2>1. /\ pc[t] = "installed" /\ f \in AnyFrame /\ pte[u] = f
        /\ UNCHANGED <<pte, exiting>>
    BY <1>1, <1>6 DEF HookInsert, Places, Held, Locks
  <2>2. pc'[t] = "idle" /\ page'[t] = u /\ Others
    BY <1>1, <1>6, GoIsTyped DEF HookInsert
  <2>3. \A w \in VPage \ {u} : w \in early' <=> w \in early
    BY <1>6 DEF HookInsert
  <2> HIDE DEF f, u
  <2>4. \A w \in VPage \ {u} : w \in Known' <=> w \in Known
    BY <2>1, <2>2, <2>3 DEF Known, u
  <2>5. u \in VPage
    BY <1>1 DEF u
  <2>6. PICK g, x : g = f /\ x = u
    OBVIOUS
  <2>7. Mapped' \ {g} = Mapped \ {g}
    BY <2>1, <2>4, <2>5, <2>6, OnePageMoves
  <2>8. CASE use_extents
    <3>1. Table!extent_rb_insert_or_add(g)
      BY <1>6, <2>6, <2>8 DEF HookInsert, f
    <3>2. g \in AnyFrame
      BY <2>1, <2>6
    <3> QED
      BY <1>1, <2>7, <3>1, <3>2, HooksAreLocal DEF LocalStep
  <2>9. CASE ~use_extents
    BY <1>6, <2>1, <2>6, <2>7, <2>9, TreeStays DEF HookInsert, treeVars
  <2> QED
    BY <2>8, <2>9
<1>7. CASE HookRemove(t, v)
  <2>1. PICK g : g = pte[v]
    OBVIOUS
  <2>2. /\ pc[t] = "idle" /\ g \in AnyFrame
        /\ UNCHANGED <<pte, early, exiting>>
    BY <1>1, <1>7, <2>1 DEF HookRemove, Places
  <2>3. pc'[t] = "removed" /\ page'[t] = v /\ Others
    BY <1>1, <1>7, <2>1, <2>2, GoIsTyped DEF HookRemove
  <2>4. \A w \in VPage \ {v} : w \in Known' <=> w \in Known
    BY <2>2, <2>3 DEF Known
  <2>5. Mapped' \ {g} = Mapped \ {g}
    BY <2>1, <2>2, <2>4, OnePageMoves
  <2>6. CASE use_extents /\ pte[v] # ZeroFrame
    <3>1. Table!extent_rb_remove_page(g)
      BY <1>7, <2>1, <2>6 DEF HookRemove
    <3> QED
      BY <1>1, <2>2, <2>5, <3>1, HooksAreLocal DEF LocalStep
  <2>7. CASE ~(use_extents /\ pte[v] # ZeroFrame)
    BY <1>7, <2>2, <2>5, <2>7, TreeStays DEF HookRemove, treeVars
  <2> QED
    BY <2>6, <2>7
<1> QED
  BY <1>2, <1>3, <1>4, <1>5, <1>6, <1>7

\* The other steps: exit and fork leave no tree behind or all of it, and what
\* passes the hooks by changes one page.
LEMMA NextIsLocal == Inv /\ Held /\ Next => LocalStep
<1> SUFFICES ASSUME Inv, Held, Next PROVE LocalStep
  OBVIOUS
<1>1. Places /\ Shape /\ TreeIsFound /\ NoFrame \notin AnyFrame
  BY MMAssumption DEF Inv, AnyFrame
<1>2. ASSUME NEW v \in VPage, NEW f \in AnyFrame,
             v \in Known => pte[v] = f, v \notin Known',
             UNCHANGED <<root, pc, page, exiting>>,
             \A w \in VPage \ {v} :
                pte'[w] = pte[w] /\ (w \in early' <=> w \in early)
      PROVE  LocalStep
  <2>1. \A w \in VPage \ {v} : w \in Known' <=> w \in Known
    BY <1>2 DEF Known
  <2>2. Mapped' \ {f} = Mapped \ {f}
    BY <1>2, <2>1, OnePageMoves
  <2> QED
    BY <1>2, <2>2, TreeStays
<1>3. ASSUME NEW t \in Thread, NEW v \in VPage, CopyOnWrite(t, v)
      PROVE  LocalStep
  <2>1. PICK f : f = pte[v]
    OBVIOUS
  <2>2. f \in AnyFrame
    BY <1>1, <1>3, <2>1 DEF CopyOnWrite, Places, AnyFrame
  <2>3. /\ \A w \in VPage \ {v} :
              pte'[w] = pte[w] /\ (w \in early' <=> w \in early)
        /\ v \in early' /\ UNCHANGED <<root, pc, page, exiting>>
    BY <1>1, <1>3 DEF CopyOnWrite, Places, treeVars, threadVars
  <2> QED
    BY <1>2, <2>1, <2>2, <2>3 DEF Known
<1>4. ASSUME NEW v \in VPage, FaultByOther(v)
      PROVE  LocalStep
  <2>1. pte[v] = NoFrame /\ ZeroFrame \in AnyFrame
    BY <1>4 DEF FaultByOther, AnyFrame
  <2>2. /\ \A w \in VPage \ {v} :
              pte'[w] = pte[w] /\ (w \in early' <=> w \in early)
        /\ v \in early' /\ UNCHANGED <<root, pc, page, exiting>>
    BY <1>1, <1>4 DEF FaultByOther, Places, treeVars, threadVars
  <2> QED
    BY <1>2, <2>1, <2>2 DEF Known
<1>5. ASSUME NEW v \in VPage, Reclaim(v)
      PROVE  LocalStep
  <2>1. PICK f : f = pte[v]
    OBVIOUS
  <2>2. f \in AnyFrame
    BY <1>5, <2>1 DEF Reclaim, AnyFrame
  <2>3. /\ \A w \in VPage \ {v} :
              pte'[w] = pte[w] /\ (w \in early' <=> w \in early)
        /\ pte'[v] = NoFrame /\ UNCHANGED <<root, pc, page, exiting>>
    BY <1>1, <1>5 DEF Reclaim, Places, treeVars, threadVars
  <2> QED
    BY <1>2, <2>1, <2>2, <2>3 DEF Known
<1>6. CASE FaultInOther
  <2>1. PICK f \in free : Table!extent_rb_insert_or_add(f)
    BY <1>6 DEF FaultInOther
  <2>2. f \in AnyFrame
    BY <1>1 DEF Places, AnyFrame
  <2>3. UNCHANGED <<pte, early, pc, page, exiting>>
    BY <1>6 DEF FaultInOther, threadVars
  <2>4. Mapped' = Mapped
    BY <2>3 DEF Mapped, Known
  <2> QED
    BY <1>1, <2>1, <2>2, <2>4, HooksAreLocal DEF LocalStep
<1>7. CASE ExitTree
  <2>1. Mapped' = {}
    BY <1>7 DEF ExitTree, Mapped
  <2>2. root' = {}
    BY <1>1, <1>7 DEF ExitTree, Table!extent_rb_destroy, TreeIsFound, treeVars
  <2> QED
    BY <2>1, <2>2 DEF LocalStep
<1>8. CASE ExitUnmap
  <2>1. \A w \in VPage : pte'[w] = NoFrame
    BY <1>8 DEF ExitUnmap
  <2>2. Mapped' = {}
    BY <2>1 DEF Mapped, Known
  <2> QED
    BY <1>8, <2>2 DEF ExitUnmap, LocalStep
<1>9. CASE Fork
  <2>1. CASE UNCHANGED <<root, early>>
    <3>1. Known' = Known
      BY <1>9, <2>1 DEF Fork, threadVars, Known
    <3> QED
      BY <1>9, <2>1, <3>1, NothingMoves DEF Fork
  <2>2. CASE root' = {} /\ early' = {v \in VPage : pte[v] # NoFrame}
    <3>1. Known' = {}
      BY <1>9, <2>2 DEF Fork, Known
    <3> QED
      BY <2>2, <3>1 DEF LocalStep, Mapped
  <2> QED
    BY <1>9, <2>1, <2>2 DEF Fork
<1>10. CASE RelativeUnmaps
  <2>1. Known' = Known
    BY <1>10 DEF RelativeUnmaps, threadVars, Known
  <2> QED
    BY <1>10, <2>1, NothingMoves DEF RelativeUnmaps, treeVars
<1>11. ASSUME NEW t \in Thread, SyscallUseExtents(t)
       PROVE  LocalStep
  <2>1. Known' = Known
    BY <1>11 DEF SyscallUseExtents, threadVars, Known
  <2> QED
    BY <1>11, <2>1, NothingMoves DEF SyscallUseExtents, treeVars
<1>12. \A t \in Thread : page[t] \in VPage
  BY <1>1 DEF Places
<1> QED
  BY <1>3, <1>4, <1>5, <1>6, <1>7, <1>8, <1>9, <1>10, <1>11, <1>12, ThreadIsLocal
  DEF Next

\* Whatever the process does, whatever passes the hooks by and whatever fails, a
\* step changes the tracking of one frame, or loses the extent right of it to a
\* merge that was refused.
THEOREM StepsAreLocal == Spec => DamageStaysLocal
<1>1. Inv /\ Held /\ [Next]_vars => [LocalStep]_(Table!vars)
  <2>1. CASE Next
    BY <2>1, NextIsLocal
  <2>2. CASE UNCHANGED vars
    BY <2>2 DEF vars, Table!vars, Mapped, Known
  <2> QED
    BY <2>1, <2>2
<1>2. [LocalStep]_(Table!vars) =>
        [\/ root' = {} /\ Mapped' = {}
         \/ \E p \in AnyFrame :
               /\ Mapped' \ {p} = Mapped \ {p}
               /\ Table!Tracked' \ {p} = Table!Tracked \ {p}
                    \/ Table!MergeRefused(p)]_(Table!vars)
  BY DEF LocalStep, OneFrame
<1> QED
  BY <1>1, <1>2, SpecHeld, PTL DEF Spec, DamageStaysLocal, Table!OnlyItsFrame
=============================================================================
