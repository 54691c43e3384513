------------------------- MODULE ExtentTable_proofs -------------------------
(***************************************************************************)
(* What holds of the extent table for every set of frames and addresses.   *)
(*                                                                         *)
(* First lemmas about the functions of Extent: each keeps the fields of an *)
(* extent consistent and changes its span by the frame it was given. Then  *)
(* lemmas about replacing extents of the tree, and the theorems.           *)
(***************************************************************************)
EXTENDS ExtentTable, SequenceTheorems, FiniteSetTheorems,
        WellFoundedInduction, TLAPS

\* One extent is typed and its fields agree.
Good(x) ==
    /\ x \in ExtentRecord
    /\ x.start <= x.end
    /\ x.pgcount = x.end - x.start + 1
    /\ Span(x) \subseteq Frame

\* TypeOK and WellFormed, as far as they are about a tree R.
GoodTree(R) ==
    /\ \A x \in R : Good(x)
    /\ \A x, y \in R : x.addr = y.addr => x = y

Covered(R) == UNION {Span(x) : x \in R}

------------------------------------------------------------------------------
(* The functions of Extent. *)

\* The list search returns a position of the list, or 0.
LEMMA FirstAtIsPosition ==
    ASSUME NEW S, NEW s \in Seq(S), NEW p
    PROVE  FirstAt(s, p) \in 0 .. Len(s)
<1> DEFINE at == {i \in DOMAIN s : s[i] = p}
<1>1. at \subseteq Nat /\ at \subseteq 1 .. Len(s)
  BY LenProperties
<1>2. CASE at = {}
  BY <1>2, LenProperties DEF FirstAt
<1>3. CASE at # {}
  <2>1. \E i \in at : \A j \in at : ~(<<j, i>> \in OpToRel(<, Nat))
    BY <1>1, <1>3, NatLessThanWellFounded, WFMin
  <2>2. PICK i \in at : \A j \in at : ~(<<j, i>> \in OpToRel(<, Nat))
    BY <2>1
  <2>3. \A j \in at : i <= j
    <3>1. OpToRel(<, Nat) = {ss \in Nat \X Nat : ss[1] < ss[2]}
      BY DEF OpToRel
    <3>2. SUFFICES ASSUME NEW j \in at PROVE i <= j
      OBVIOUS
    <3>3. <<j, i>> \in Nat \X Nat /\ ~(j < i)
      BY <1>1, <2>2, <3>1
    <3> QED
      BY <3>3
  <2>4. FirstAt(s, p) \in at
    BY <1>3, <2>3 DEF FirstAt
  <2> QED
    BY <1>1, <2>4
<1> QED
  BY <1>2, <1>3

\* A new extent spans its one frame.
LEMMA InitGood ==
    ASSUME NEW a \in Addr, NEW p \in Frame, NEW allocated \in BOOLEAN
    PROVE  LET y == extent_init(a, p, allocated)
           IN  Good(y) /\ y.addr = a /\ Span(y) = {p}
<1>1. p \in Nat
  BY FrameAssumption
<1>2. <<p>> \in Seq(Frame) /\ <<>> \in Seq(Frame)
  OBVIOUS
<1> QED
  BY <1>1, <1>2 DEF extent_init, Good, ExtentRecord, Span

\* The integers behind a Good extent.
GoodFacts(x) ==
    /\ x \in ExtentRecord
    /\ x.addr \in Addr
    /\ x.start \in Frame /\ x.end \in Frame
    /\ x.start \in Nat \ {0} /\ x.end \in Nat \ {0}
    /\ x.start <= x.end
    /\ x.pgcount = x.end - x.start + 1
    /\ x.pagelist \in Seq(Frame)
    /\ x.start .. x.end \subseteq Frame

LEMMA GoodHasFacts ==
    ASSUME NEW x, Good(x)
    PROVE  GoodFacts(x)
BY FrameAssumption DEF Good, GoodFacts, ExtentRecord, Span

\* A frame next to the extent extends it by that frame, if there is memory.
LEMMA AddGood ==
    ASSUME NEW x, Good(x), NEW p \in Frame, NEW allocated \in BOOLEAN,
           p = x.start - 1 \/ p = x.end + 1,
           NEW y, y = extent_add_adjacent(x, p, allocated)
    PROVE  /\ Good(y)
           /\ y.addr = x.addr
           /\ ~allocated => y = x
           /\ allocated => Span(y) = Span(x) \cup {p}
           /\ allocated /\ p # x.start - 1 => y.start = x.start /\ y.end = p
           /\ allocated /\ p = x.start - 1 => y.start = p /\ y.end = x.end
<1> USE DEF GoodFacts
<1>1. p \in Nat /\ GoodFacts(x)
  BY FrameAssumption, GoodHasFacts
<1>2. <<p>> \o x.pagelist \in Seq(Frame) /\ x.pagelist \o <<p>> \in Seq(Frame)
  BY <1>1, ConcatProperties
<1>3. CASE allocated /\ p = x.start - 1
  <2> DEFINE l == <<p>> \o x.pagelist
  <2>1. y = [x EXCEPT !.start = p, !.pgcount = @ + 1, !.pagelist = l]
    BY <1>3 DEF extent_add_adjacent
  <2> HIDE DEF l
  <2>2. y \in ExtentRecord /\ y.addr = x.addr /\ y.start = p /\ y.end = x.end
        /\ y.pgcount = x.pgcount + 1
    <3>1. x.pgcount + 1 \in Nat \ {0} /\ l \in Seq(Frame)
      BY <1>1, <1>2 DEF l
    <3> QED
      BY <1>1, <2>1, <3>1 DEF ExtentRecord
  <2>3. p .. x.end = (x.start .. x.end) \cup {p}
    BY <1>1, <1>3
  <2>4. Good(y)
    <3>1. p <= x.end /\ x.pgcount + 1 = x.end - p + 1
      BY <1>1, <1>3
    <3>2. p .. x.end \subseteq Frame
      BY <1>1, <2>3
    <3> QED
      BY <2>2, <3>1, <3>2 DEF Good, Span
  <2> QED
    BY <1>1, <1>3, <2>2, <2>3, <2>4 DEF Span
<1>4. CASE allocated /\ p # x.start - 1
  <2> DEFINE l == x.pagelist \o <<p>>
  <2>1. y = [x EXCEPT !.end = p, !.pgcount = @ + 1, !.pagelist = l]
    BY <1>4 DEF extent_add_adjacent
  <2> HIDE DEF l
  <2>2. y \in ExtentRecord /\ y.addr = x.addr /\ y.start = x.start /\ y.end = p
        /\ y.pgcount = x.pgcount + 1
    <3>1. x.pgcount + 1 \in Nat \ {0} /\ l \in Seq(Frame)
      BY <1>1, <1>2 DEF l
    <3> QED
      BY <1>1, <2>1, <3>1 DEF ExtentRecord
  <2>3. x.start .. p = (x.start .. x.end) \cup {p}
    BY <1>1, <1>4
  <2>4. Good(y)
    <3>1. x.start <= p /\ x.pgcount + 1 = p - x.start + 1
      BY <1>1, <1>4
    <3>2. x.start .. p \subseteq Frame
      BY <1>1, <2>3
    <3> QED
      BY <2>2, <3>1, <3>2 DEF Good, Span
  <2> QED
    BY <1>1, <1>4, <2>2, <2>3, <2>4 DEF Span
<1>5. CASE ~allocated
  BY <1>5 DEF extent_add_adjacent
<1> QED
  BY <1>3, <1>4, <1>5

\* Merging an extent with the one that begins right after it unites them.
LEMMA MergeGood ==
    ASSUME NEW x, Good(x), NEW r, Good(r), x.end = r.start - 1,
           NEW y, y = extent_merge(x, r)
    PROVE  /\ MergeSucceeds(x, r)
           /\ Good(y)
           /\ y.addr = x.addr /\ y.start = x.start /\ y.end = r.end
           /\ Span(y) = Span(x) \cup Span(r)
<1> USE DEF GoodFacts
<1>1. GoodFacts(x) /\ GoodFacts(r)
  BY GoodHasFacts
<1>2. MergeSucceeds(x, r)
  BY <1>1 DEF MergeSucceeds, extents_are_adjacent
<1> DEFINE l == r.pagelist \o x.pagelist
<1>3. y = [x EXCEPT !.end = r.end, !.pgcount = x.pgcount + r.pgcount,
                    !.pagelist = l]
  BY <1>2 DEF extent_merge
<1>4. l \in Seq(Frame)
  BY <1>1, ConcatProperties
<1> HIDE DEF l
<1>5. x.pgcount + r.pgcount = r.end - x.start + 1 /\ x.start <= r.end
      /\ x.pgcount + r.pgcount \in Nat \ {0}
  <2>1. x.pgcount = x.end - x.start + 1 /\ r.pgcount = r.end - r.start + 1
        /\ x.start \in Nat /\ x.end \in Nat /\ r.start \in Nat /\ r.end \in Nat
        /\ x.start <= x.end /\ r.start <= r.end /\ x.end = r.start - 1
    BY <1>1
  <2> QED
    BY <2>1
<1>6. y \in ExtentRecord /\ y.addr = x.addr /\ y.start = x.start
      /\ y.end = r.end /\ y.pgcount = x.pgcount + r.pgcount
  BY <1>1, <1>3, <1>4, <1>5 DEF ExtentRecord
<1>7. x.start .. r.end = (x.start .. x.end) \cup (r.start .. r.end)
  BY <1>1
<1>8. x.start .. r.end \subseteq Frame
  BY <1>1, <1>7
<1> QED
  BY <1>2, <1>5, <1>6, <1>7, <1>8 DEF Good, Span

\* Trimming an end off an extent of several frames takes off that frame.
LEMMA TrimGood ==
    ASSUME NEW x, Good(x), NEW p \in Frame, extent_pte_is_start_or_end(x, p),
           x.pgcount # 1, NEW y, y = extent_trim(x, p)
    PROVE  /\ Good(y)
           /\ y.addr = x.addr
           /\ x.start <= y.start /\ y.end <= x.end
           /\ Span(y) = Span(x) \ {p}
<1> USE DEF GoodFacts
<1>1. p \in Nat /\ GoodFacts(x) /\ (p = x.start \/ p = x.end)
  BY FrameAssumption, GoodHasFacts DEF extent_pte_is_start_or_end
<1>2. x.pgcount > 1 /\ x.start < x.end /\ x.pgcount - 1 \in Nat \ {0}
  BY <1>1
<1>3. x.start + 1 \in Frame /\ x.end - 1 \in Frame
  BY <1>1, <1>2
<1> DEFINE l == IF x.pagelist # <<>> /\ Head(x.pagelist) = p
                THEN Tail(x.pagelist) ELSE x.pagelist
           less == [x EXCEPT !.pgcount = @ - 1, !.pagelist = l]
<1>4. l \in Seq(Frame)
  BY <1>1, HeadTailProperties
<1>5. y = IF p = x.end THEN [less EXCEPT !.end = @ - 1]
                       ELSE [less EXCEPT !.start = @ + 1]
  BY <1>1, <1>2 DEF extent_trim
<1> HIDE DEF l
<1>6. CASE p = x.end
  <2>1. y \in ExtentRecord /\ y.addr = x.addr /\ y.start = x.start
        /\ y.end = x.end - 1 /\ y.pgcount = x.pgcount - 1
    BY <1>1, <1>2, <1>3, <1>4, <1>5, <1>6 DEF ExtentRecord
  <2>2. x.start .. (x.end - 1) = (x.start .. x.end) \ {p}
    BY <1>1, <1>6
  <2>3. x.start .. (x.end - 1) \subseteq Frame
    BY <1>1, <2>2
  <2>4. x.start <= x.end - 1 /\ x.pgcount - 1 = x.end - 1 - x.start + 1
    BY <1>1, <1>2
  <2> QED
    BY <1>1, <2>1, <2>2, <2>3, <2>4 DEF Good, Span
<1>7. CASE p # x.end
  <2>1. y \in ExtentRecord /\ y.addr = x.addr /\ y.start = x.start + 1
        /\ y.end = x.end /\ y.pgcount = x.pgcount - 1
    BY <1>1, <1>2, <1>3, <1>4, <1>5, <1>7 DEF ExtentRecord
  <2>2. (x.start + 1) .. x.end = (x.start .. x.end) \ {p}
    BY <1>1, <1>7
  <2>3. (x.start + 1) .. x.end \subseteq Frame
    BY <1>1, <2>2
  <2>4. x.start + 1 <= x.end /\ x.pgcount - 1 = x.end - (x.start + 1) + 1
    BY <1>1, <1>2
  <2> QED
    BY <1>1, <2>1, <2>2, <2>3, <2>4 DEF Good, Span
<1> QED
  BY <1>6, <1>7

\* Splitting an extent around a frame inside it leaves what is on either side.
LEMMA SplitGood ==
    ASSUME NEW x, Good(x), NEW p \in Frame, NEW a \in Addr, p \in Span(x),
           ~extent_pte_is_start_or_end(x, p),
           NEW l, l = SplitLeft(x, p), NEW r, r = SplitRight(x, p, a)
    PROVE  /\ Good(l) /\ l.addr = x.addr /\ l.start = x.start /\ l.end = p - 1
           /\ Good(r) /\ r.addr = a /\ r.start = p + 1 /\ r.end = x.end
           /\ Span(l) \cup Span(r) = Span(x) \ {p}
<1> USE DEF GoodFacts
<1>1. /\ p \in Nat /\ GoodFacts(x) /\ p # x.start /\ p # x.end
      /\ x.start <= p /\ p <= x.end
  BY FrameAssumption, GoodHasFacts DEF extent_pte_is_start_or_end, Span
<1>2. p - 1 \in Frame /\ p + 1 \in Frame
  BY <1>1
<1> DEFINE k == FirstAt(x.pagelist, p)
           llist == SubSeq(x.pagelist, k + 1, Len(x.pagelist))
           rlist == SubSeq(x.pagelist, 1, k - 1)
<1>3. llist \in Seq(Frame) /\ rlist \in Seq(Frame)
  <2>1. k \in 0 .. Len(x.pagelist) /\ Len(x.pagelist) \in Nat
    BY <1>1, FirstAtIsPosition, LenProperties
  <2> HIDE DEF k
  <2>2. \A i \in (k + 1) .. Len(x.pagelist) : x.pagelist[i] \in Frame
    BY <1>1, <2>1, ElementOfSeq
  <2>3. \A i \in 1 .. (k - 1) : x.pagelist[i] \in Frame
    BY <1>1, <2>1, ElementOfSeq
  <2> QED
    BY <2>1, <2>2, <2>3, SubSeqProperties
<1>4. /\ l = [x EXCEPT !.end = p - 1, !.pgcount = p - x.start, !.pagelist = llist]
      /\ r = [addr |-> a, start |-> p + 1, end |-> x.end,
              pgcount |-> x.end - p, pagelist |-> rlist]
  BY DEF SplitLeft, SplitRight
<1> HIDE DEF llist, rlist
<1>5. /\ p - x.start \in Nat \ {0} /\ x.end - p \in Nat \ {0}
      /\ x.start <= p - 1 /\ p + 1 <= x.end
      /\ p - x.start = (p - 1) - x.start + 1
      /\ x.end - p = x.end - (p + 1) + 1
  BY <1>1
<1>6. l \in ExtentRecord /\ l.addr = x.addr /\ l.start = x.start
      /\ l.end = p - 1 /\ l.pgcount = p - x.start
  BY <1>1, <1>2, <1>3, <1>4, <1>5 DEF ExtentRecord
<1>7. r \in ExtentRecord /\ r.addr = a /\ r.start = p + 1
      /\ r.end = x.end /\ r.pgcount = x.end - p
  BY <1>1, <1>2, <1>3, <1>4, <1>5 DEF ExtentRecord
<1>8. (x.start .. (p - 1)) \cup ((p + 1) .. x.end) = (x.start .. x.end) \ {p}
  BY <1>1
<1>9. x.start .. (p - 1) \subseteq Frame /\ (p + 1) .. x.end \subseteq Frame
  BY <1>1, <1>8
<1> QED
  BY <1>5, <1>6, <1>7, <1>8, <1>9 DEF Good, Span

------------------------------------------------------------------------------
(* Changing the tree. *)

\* One extent takes the place of several, at the address of one of them.
LEMMA ReplaceGood ==
    ASSUME NEW R, GoodTree(R), NEW D, NEW x, x \in D, D \subseteq R,
           NEW y, Good(y), y.addr = x.addr
    PROVE  GoodTree((R \ D) \cup {y})
BY DEF GoodTree

\* An extent comes in at an address that was free.
LEMMA InsertGood ==
    ASSUME NEW R, GoodTree(R), NEW y, Good(y), \A x \in R : x.addr # y.addr
    PROVE  GoodTree(R \cup {y})
BY DEF GoodTree

\* What one and two extents cover.
LEMMA CoveredOne ==
    ASSUME NEW x
    PROVE  Covered({x}) = Span(x)
BY DEF Covered

LEMMA CoveredTwo ==
    ASSUME NEW x, NEW y
    PROVE  Covered({x, y}) = Span(x) \cup Span(y)
BY DEF Covered

------------------------------------------------------------------------------
(* The lookups. *)

\* What the lookups return is next to p, or holds p.
LEMMA Neighbors ==
    ASSUME GoodTree(root), NEW p \in Frame
    PROVE  /\ \A x \in extent_rb_find_left_neighbor(p) :
                 x \in root /\ Good(x) /\ p = x.end + 1 /\ p # x.start - 1
           /\ \A x \in extent_rb_find_by_start(p + 1) :
                 x \in root /\ Good(x) /\ p = x.start - 1
           /\ \A x \in extent_rb_find_containing(p) :
                 x \in root /\ Good(x) /\ p \in Span(x)
<1>1. p \in Nat
  BY FrameAssumption
<1>2. \A x \in root : Good(x) /\ GoodFacts(x)
  BY GoodHasFacts DEF GoodTree
<1>3. ASSUME NEW x \in extent_rb_find_left_neighbor(p)
      PROVE  x \in root /\ Good(x) /\ p = x.end + 1 /\ p # x.start - 1
  <2>1. x \in root /\ x.start < p /\ x.end = p - 1
    BY <1>3 DEF extent_rb_find_left_neighbor, Below, Greatest
  <2> QED
    BY <1>1, <1>2, <2>1 DEF GoodFacts
<1>4. ASSUME NEW x \in extent_rb_find_by_start(p + 1)
      PROVE  x \in root /\ Good(x) /\ p = x.start - 1
  <2>1. x \in root /\ x.start = p + 1
    BY <1>4 DEF extent_rb_find_by_start
  <2> QED
    BY <1>1, <1>2, <2>1 DEF GoodFacts
<1>5. ASSUME NEW x \in extent_rb_find_containing(p)
      PROVE  x \in root /\ Good(x) /\ p \in Span(x)
  <2>1. x \in root /\ x.start <= p /\ p <= x.end
    BY <1>5 DEF extent_rb_find_containing, AtOrBelow, Greatest
  <2> QED
    BY <1>1, <1>2, <2>1 DEF GoodFacts, Span
<1> QED
  BY <1>3, <1>4, <1>5

------------------------------------------------------------------------------
(* Any allocation may fail. *)

Inv == TypeOK /\ WellFormed

LEMMA InvIsGoodTree ==
    /\ Inv <=> GoodTree(root) /\ mapped \subseteq Frame /\ leaked \in BOOLEAN
    /\ Inv' <=> GoodTree(root') /\ mapped' \subseteq Frame /\ leaked' \in BOOLEAN
BY DEF Inv, TypeOK, WellFormed, GoodTree, Good

\* Each call leaves a good tree behind, whatever fails.
LEMMA InsertOrAddKeepsGood ==
    ASSUME GoodTree(root), leaked \in BOOLEAN, NEW p \in Frame,
           extent_rb_insert_or_add(p)
    PROVE  GoodTree(root') /\ leaked' \in BOOLEAN
<1>1. PICK allocated \in PageAlloc :
        \/ \E l \in extent_rb_find_left_neighbor(p),
              r \in extent_rb_find_by_start(p + 1) : MergeNeighbors(p, l, r, allocated)
        \/ /\ NoRightNeighbor(p)
           /\ \E l \in extent_rb_find_left_neighbor(p) : GrowNeighbor(p, l, allocated)
        \/ /\ NoLeftNeighbor(p)
           /\ \E r \in extent_rb_find_by_start(p + 1) : GrowNeighbor(p, r, allocated)
        \/ /\ NoLeftNeighbor(p)
           /\ NoRightNeighbor(p)
           /\ CreateExtent(p, allocated) \/ NoMemory
  BY DEF extent_rb_insert_or_add
<1>2. allocated \in BOOLEAN
  BY DEF PageAlloc
<1>3. ASSUME NEW l \in extent_rb_find_left_neighbor(p),
             NEW r \in extent_rb_find_by_start(p + 1),
             MergeNeighbors(p, l, r, allocated)
      PROVE  GoodTree(root') /\ leaked' \in BOOLEAN
  <2> DEFINE grown == extent_add_adjacent(l, p, allocated)
             y == extent_merge(grown, r)
  <2>1. root' = (root \ {l, r}) \cup {y} /\ leaked' \in BOOLEAN
    BY <1>3 DEF MergeNeighbors
  <2>2. /\ l \in root /\ r \in root /\ Good(l) /\ Good(r)
        /\ p = l.end + 1 /\ p # l.start - 1 /\ p = r.start - 1
    BY Neighbors
  <2> HIDE DEF grown, y
  <2>3. Good(grown) /\ grown.addr = l.addr
        /\ (allocated => grown.end = p) /\ (~allocated => grown = l)
    BY <1>2, <2>2, AddGood DEF grown
  <2>4. Good(y) /\ y.addr = l.addr
    <3>1. CASE allocated
      BY <2>2, <2>3, <3>1, MergeGood DEF y
    <3>2. CASE ~allocated
      <4>1. GoodFacts(l) /\ GoodFacts(r)
        BY <2>2, GoodHasFacts
      <4>2. ~extents_are_adjacent(l, r)
        BY <2>2, <4>1 DEF GoodFacts, extents_are_adjacent
      <4>3. y = l
        BY <2>3, <3>2, <4>2 DEF y, extent_merge, MergeSucceeds
      <4> QED
        BY <2>2, <4>3
    <3> QED
      BY <3>1, <3>2
  <2> QED
    BY <2>1, <2>2, <2>4, ReplaceGood
<1>4. ASSUME NEW x \in extent_rb_find_left_neighbor(p)
                         \cup extent_rb_find_by_start(p + 1),
             GrowNeighbor(p, x, allocated)
      PROVE  GoodTree(root') /\ leaked' \in BOOLEAN
  <2>1. x \in root /\ Good(x) /\ (p = x.start - 1 \/ p = x.end + 1)
    BY Neighbors
  <2>2. Good(extent_add_adjacent(x, p, allocated))
        /\ extent_add_adjacent(x, p, allocated).addr = x.addr
    BY <1>2, <2>1, AddGood
  <2> QED
    BY <1>4, <2>1, <2>2, ReplaceGood DEF GrowNeighbor
<1>5. ASSUME CreateExtent(p, allocated)
      PROVE  GoodTree(root') /\ leaked' \in BOOLEAN
  <2>1. PICK a \in FreeAddr : root' = root \cup {extent_init(a, p, allocated)}
    BY <1>5 DEF CreateExtent
  <2>2. a \in Addr /\ \A x \in root : x.addr # a
    BY DEF FreeAddr
  <2>3. Good(extent_init(a, p, allocated)) /\ extent_init(a, p, allocated).addr = a
    BY <1>2, <2>2, InitGood
  <2> QED
    BY <1>5, <2>1, <2>2, <2>3, InsertGood DEF CreateExtent
<1>6. ASSUME NoMemory
      PROVE  GoodTree(root') /\ leaked' \in BOOLEAN
  BY <1>6 DEF NoMemory
<1> QED
  BY <1>1, <1>3, <1>4, <1>5, <1>6

LEMMA RemovePageKeepsGood ==
    ASSUME GoodTree(root), leaked \in BOOLEAN, NEW p \in Frame,
           extent_rb_remove_page(p)
    PROVE  GoodTree(root') /\ leaked' \in BOOLEAN
<1>1. CASE UNCHANGED <<root, leaked>>
  BY <1>1
<1>2. ASSUME NEW x \in extent_rb_find_containing(p), RemoveLast(p, x)
      PROVE  GoodTree(root') /\ leaked' \in BOOLEAN
  BY <1>2 DEF RemoveLast, GoodTree
<1>3. ASSUME NEW x \in extent_rb_find_containing(p), TrimEnd(p, x)
      PROVE  GoodTree(root') /\ leaked' \in BOOLEAN
  <2>1. x \in root /\ Good(x)
    BY Neighbors
  <2>2. Good(extent_trim(x, p)) /\ extent_trim(x, p).addr = x.addr
    BY <1>3, <2>1, TrimGood DEF TrimEnd
  <2> QED
    BY <1>3, <2>1, <2>2, ReplaceGood DEF TrimEnd
<1>4. ASSUME NEW x \in extent_rb_find_containing(p), SplitAround(p, x)
      PROVE  GoodTree(root') /\ leaked' \in BOOLEAN
  <2>1. x \in root /\ Good(x) /\ p \in Span(x)
    BY Neighbors
  <2>2. PICK a \in FreeAddr :
          root' = (root \ {x}) \cup {SplitLeft(x, p), SplitRight(x, p, a)}
    BY <1>4 DEF SplitAround
  <2>3. a \in Addr /\ \A y \in root : y.addr # a
    BY DEF FreeAddr
  <2>4. /\ Good(SplitLeft(x, p)) /\ SplitLeft(x, p).addr = x.addr
        /\ Good(SplitRight(x, p, a)) /\ SplitRight(x, p, a).addr = a
    BY <1>4, <2>1, <2>3, SplitGood DEF SplitAround
  <2>5. GoodTree((root \ {x}) \cup {SplitLeft(x, p)})
    BY <2>1, <2>4, ReplaceGood
  <2>6. \A y \in (root \ {x}) \cup {SplitLeft(x, p)} : y.addr # SplitRight(x, p, a).addr
    BY <2>1, <2>3, <2>4
  <2>7. GoodTree(((root \ {x}) \cup {SplitLeft(x, p)}) \cup {SplitRight(x, p, a)})
    BY <2>4, <2>5, <2>6, InsertGood
  <2>8. root' = ((root \ {x}) \cup {SplitLeft(x, p)}) \cup {SplitRight(x, p, a)}
    BY <2>2
  <2> QED
    BY <1>4, <2>7, <2>8 DEF SplitAround
<1> QED
  BY <1>1, <1>2, <1>3, <1>4 DEF extent_rb_remove_page, NoMemory

\* The type invariant and WellFormed hold whatever allocation fails: every
\* call takes a consistent tree to a consistent tree.
THEOREM TypeAndShape == Spec => [](TypeOK /\ WellFormed)
<1>1. Init => Inv
  BY DEF Init, Inv, TypeOK, WellFormed
<1>2. Inv /\ [Next]_vars => Inv'
  <2> SUFFICES ASSUME Inv, [Next]_vars PROVE Inv'
    OBVIOUS
  <2>1. GoodTree(root) /\ mapped \subseteq Frame /\ leaked \in BOOLEAN
    BY InvIsGoodTree
  <2>2. ASSUME NEW p \in Frame, Fault(p)
        PROVE  Inv'
    BY <2>1, <2>2, InsertOrAddKeepsGood, InvIsGoodTree DEF Fault
  <2>3. ASSUME NEW p \in Frame, Unmap(p)
        PROVE  Inv'
    BY <2>1, <2>3, RemovePageKeepsGood, InvIsGoodTree DEF Unmap
  <2>4. CASE ExitMmap
    BY <2>1, <2>4, InvIsGoodTree DEF ExitMmap, extent_rb_destroy, GoodTree
  <2>5. CASE UNCHANGED vars
    BY <2>1, <2>5, InvIsGoodTree DEF vars
  <2> QED
    BY <2>2, <2>3, <2>4, <2>5 DEF Next
<1>3. Inv => TypeOK /\ WellFormed
  BY DEF Inv
<1> QED
  BY <1>1, <1>2, <1>3, PTL DEF Spec

------------------------------------------------------------------------------
(* Any allocation may fail: what a call does to the other frames. *)

TrackedIsCovered == Tracked = Covered(root) /\ Tracked' = Covered(root')

\* An insertion changes what the tree covers by the frame it is given, or it is
\* refused a merge: without the node of the frame the left extent stays as it
\* was, and what is then handed to extent_merge is not adjacent.
LEMMA InsertCoversOnly ==
    ASSUME GoodTree(root), NEW p \in Frame, extent_rb_insert_or_add(p)
    PROVE  Covered(root') \ {p} = Covered(root) \ {p} \/ MergeRefused(p)
<1>1. \A allocated \in PageAlloc :
        allocated \in BOOLEAN /\ (allocated \/ PageAllocFails)
  BY DEF PageAlloc
<1>2. ASSUME NEW allocated \in PageAlloc,
             NEW l \in extent_rb_find_left_neighbor(p),
             NEW r \in extent_rb_find_by_start(p + 1),
             MergeNeighbors(p, l, r, allocated)
      PROVE  Covered(root') \ {p} = Covered(root) \ {p} \/ MergeRefused(p)
  <2> DEFINE grown == extent_add_adjacent(l, p, allocated)
             y == extent_merge(grown, r)
  <2>1. /\ l \in root /\ r \in root /\ Good(l) /\ Good(r)
        /\ p = l.end + 1 /\ p # l.start - 1 /\ p = r.start - 1
    BY Neighbors
  <2>2. root' = (root \ {l, r}) \cup {y}
    BY <1>2 DEF MergeNeighbors
  <2> HIDE DEF grown, y
  <2>3. CASE allocated
    <3>1. Good(grown) /\ grown.end = p /\ Span(grown) = Span(l) \cup {p}
      <4>1. /\ Good(grown)
            /\ allocated => Span(grown) = Span(l) \cup {p}
            /\ allocated /\ p # l.start - 1 => grown.end = p
        BY <1>1, <2>1, AddGood DEF grown
      <4> QED
        BY <2>1, <2>3, <4>1
    <3>2. Span(y) = Span(grown) \cup Span(r)
      BY <2>1, <3>1, MergeGood DEF y
    <3>3. Covered({y}) \ {p} = Covered({l, r}) \ {p}
      BY <3>1, <3>2, CoveredOne, CoveredTwo
    <3>4. {l, r} \subseteq root
      BY <2>1
    <3> QED
      BY <2>2, <3>3, <3>4 DEF Covered
  <2>4. CASE ~allocated
    <3>1. grown = l
      BY <1>1, <2>1, <2>4, AddGood DEF grown
    <3>2. /\ l.start \in Nat /\ l.end \in Nat /\ r.start \in Nat /\ r.end \in Nat
          /\ p \in Nat /\ l.start <= l.end /\ r.start <= r.end
      BY <2>1, GoodHasFacts, FrameAssumption DEF GoodFacts
    <3>3. l.end = p - 1 /\ r.start = p + 1 /\ l # r
      BY <2>1, <3>2
    <3>4. y = l
      BY <2>1, <3>1, <3>2
      DEF y, extent_merge, MergeSucceeds, extents_are_adjacent
    <3>5. root' = root \ {r}
      BY <2>1, <2>2, <3>3, <3>4
    <3> QED
      BY <1>1, <2>1, <2>4, <3>3, <3>5 DEF MergeRefused
  <2> QED
    BY <1>1, <2>3, <2>4
<1>3. ASSUME NEW allocated \in PageAlloc,
             NEW x \in extent_rb_find_left_neighbor(p)
                         \cup extent_rb_find_by_start(p + 1),
             GrowNeighbor(p, x, allocated)
      PROVE  Covered(root') \ {p} = Covered(root) \ {p}
  <2> DEFINE y == extent_add_adjacent(x, p, allocated)
  <2>1. x \in root /\ Good(x) /\ (p = x.start - 1 \/ p = x.end + 1)
    BY Neighbors
  <2>2. root' = (root \ {x}) \cup {y}
    BY <1>3 DEF GrowNeighbor
  <2> HIDE DEF y
  <2>3. y = x \/ Span(y) = Span(x) \cup {p}
    BY <1>1, <2>1, AddGood DEF y
  <2>4. Covered({y}) \ {p} = Covered({x}) \ {p}
    BY <2>3, CoveredOne
  <2>5. {x} \subseteq root
    BY <2>1
  <2> QED
    BY <2>2, <2>4, <2>5 DEF Covered
<1>4. ASSUME NEW allocated \in PageAlloc, CreateExtent(p, allocated)
      PROVE  Covered(root') \ {p} = Covered(root) \ {p}
  <2>1. PICK a \in FreeAddr : root' = root \cup {extent_init(a, p, allocated)}
    BY <1>4 DEF CreateExtent
  <2>2. Span(extent_init(a, p, allocated)) = {p}
    BY <1>1, InitGood DEF FreeAddr
  <2> QED
    BY <2>1, <2>2 DEF Covered
<1>5. ASSUME NoMemory
      PROVE  Covered(root') \ {p} = Covered(root) \ {p}
  BY <1>5 DEF NoMemory
<1> QED
  BY <1>1, <1>2, <1>3, <1>4, <1>5 DEF extent_rb_insert_or_add

\* A removal changes what the tree covers by the frame it is given.
LEMMA RemoveCoversOnly ==
    ASSUME GoodTree(root), NEW p \in Frame, extent_rb_remove_page(p)
    PROVE  Covered(root') \ {p} = Covered(root) \ {p}
<1>1. CASE UNCHANGED <<root, leaked>>
  BY <1>1
<1>2. ASSUME NEW x \in extent_rb_find_containing(p), RemoveLast(p, x)
      PROVE  Covered(root') \ {p} = Covered(root) \ {p}
  <2>1. x \in root /\ Good(x) /\ p \in Span(x) /\ x.pgcount = 1
    BY <1>2, Neighbors DEF RemoveLast
  <2>2. Span(x) = {p}
    BY <2>1, GoodHasFacts DEF GoodFacts, Span
  <2> QED
    BY <1>2, <2>1, <2>2 DEF RemoveLast, Covered
<1>3. ASSUME NEW x \in extent_rb_find_containing(p), TrimEnd(p, x)
      PROVE  Covered(root') \ {p} = Covered(root) \ {p}
  <2>1. x \in root /\ Good(x)
    BY Neighbors
  <2>2. Span(extent_trim(x, p)) = Span(x) \ {p}
    BY <1>3, <2>1, TrimGood DEF TrimEnd
  <2>3. Covered({extent_trim(x, p)}) \ {p} = Covered({x}) \ {p}
    BY <2>2, CoveredOne
  <2>4. {x} \subseteq root
    BY <2>1
  <2> QED
    BY <1>3, <2>3, <2>4 DEF TrimEnd, Covered
<1>4. ASSUME NEW x \in extent_rb_find_containing(p), SplitAround(p, x)
      PROVE  Covered(root') \ {p} = Covered(root) \ {p}
  <2>1. x \in root /\ Good(x) /\ p \in Span(x)
    BY Neighbors
  <2>2. PICK a \in FreeAddr :
          root' = (root \ {x}) \cup {SplitLeft(x, p), SplitRight(x, p, a)}
    BY <1>4 DEF SplitAround
  <2>3. Span(SplitLeft(x, p)) \cup Span(SplitRight(x, p, a)) = Span(x) \ {p}
    BY <1>4, <2>1, SplitGood DEF SplitAround, FreeAddr
  <2>4. Covered({SplitLeft(x, p), SplitRight(x, p, a)}) \ {p} = Covered({x}) \ {p}
    BY <2>3, CoveredOne, CoveredTwo
  <2>5. {x} \subseteq root
    BY <2>1
  <2> QED
    BY <2>2, <2>4, <2>5 DEF Covered
<1> QED
  BY <1>1, <1>2, <1>3, <1>4 DEF extent_rb_remove_page, NoMemory

\* A call changes what is tracked by its own frame, or loses the extent on the
\* right to a merge that was refused, whatever the tree holds and whatever fails.
THEOREM CallsAreLocal == Spec => OnlyItsFrame
<1> DEFINE Local == \/ root' = {} /\ mapped' = {}
                    \/ \E p \in Frame :
                          /\ mapped' \ {p} = mapped \ {p}
                          /\ Tracked' \ {p} = Tracked \ {p} \/ MergeRefused(p)
<1>1. TypeOK /\ WellFormed /\ [Next]_vars => [Local]_vars
  <2> SUFFICES ASSUME TypeOK /\ WellFormed, Next PROVE Local
    BY DEF vars
  <2>1. GoodTree(root)
    BY InvIsGoodTree DEF Inv
  <2>2. TrackedIsCovered
    BY DEF TrackedIsCovered, Tracked, Covered
  <2>3. ASSUME NEW p \in Frame, Fault(p)
        PROVE  Local
    <3>1. Covered(root') \ {p} = Covered(root) \ {p} \/ MergeRefused(p)
      BY <2>1, <2>3, InsertCoversOnly DEF Fault
    <3>2. mapped' \ {p} = mapped \ {p}
      BY <2>3 DEF Fault
    <3> QED
      BY <2>2, <3>1, <3>2 DEF TrackedIsCovered
  <2>4. ASSUME NEW p \in Frame, Unmap(p)
        PROVE  Local
    <3>1. Covered(root') \ {p} = Covered(root) \ {p}
      BY <2>1, <2>4, RemoveCoversOnly DEF Unmap
    <3>2. mapped' \ {p} = mapped \ {p}
      BY <2>4 DEF Unmap
    <3> QED
      BY <2>2, <3>1, <3>2 DEF TrackedIsCovered
  <2>5. CASE ExitMmap
    BY <2>5 DEF ExitMmap, extent_rb_destroy
  <2> QED
    BY <2>3, <2>4, <2>5 DEF Next
<1> QED
  BY <1>1, TypeAndShape, PTL DEF Spec, OnlyItsFrame

------------------------------------------------------------------------------
(* No allocation fails. *)

\* Separated, of a tree R.
Apart(R) ==
    \A x, y \in R : x = y \/ x.end + 1 < y.start \/ y.end + 1 < x.start

\* In a tree of separated extents a lookup misses nothing: when it returns
\* NULL there is no such extent.
LEMMA LookupsAreComplete ==
    ASSUME GoodTree(root), Apart(root), NEW p \in Frame
    PROVE  /\ NoLeftNeighbor(p) => \A x \in root : x.end # p - 1
           /\ NoContaining(p) => \A x \in root : p \notin Span(x)
<1>1. p \in Nat
  BY FrameAssumption
<1>2. \A x \in root : /\ x.start \in Nat \ {0} /\ x.end \in Nat \ {0}
                      /\ x.start <= x.end
  BY GoodHasFacts DEF GoodTree, GoodFacts
<1>3. ASSUME NoLeftNeighbor(p), NEW x \in root, x.end = p - 1
      PROVE  FALSE
  <2>1. x.start < p
    BY <1>1, <1>2, <1>3
  <2>2. \A y \in root : y.start < p => y = x \/ y.start < x.start
    BY <1>1, <1>2, <1>3 DEF Apart
  <2>3. x \in Below(p) /\ \A y \in Below(p) : y = x
    BY <1>2, <2>1, <2>2 DEF Below, Greatest
  <2> QED
    BY <1>3, <2>3 DEF NoLeftNeighbor
<1>4. ASSUME NoContaining(p), NEW x \in root, p \in Span(x)
      PROVE  FALSE
  <2>1. x.start <= p /\ p <= x.end
    BY <1>1, <1>2, <1>4 DEF Span
  <2>2. \A y \in root : y.start <= p => y = x \/ y.start < x.start
    BY <1>1, <1>2, <2>1 DEF Apart
  <2>3. x \in AtOrBelow(p) /\ \A y \in AtOrBelow(p) : y = x
    BY <1>2, <2>1, <2>2 DEF AtOrBelow, Greatest
  <2> QED
    BY <1>1, <1>2, <1>4, <2>1, <2>3 DEF NoContaining
<1> QED
  BY <1>3, <1>4

\* Putting an untracked frame into the tree adds it, and nothing else; what
\* can be merged is merged.
LEMMA InsertIsExact ==
    ASSUME ~PageAllocFails, ~AtomicAllocFails, GoodTree(root), Apart(root),
           NEW p \in Frame, p \notin Covered(root), extent_rb_insert_or_add(p)
    PROVE  Apart(root') /\ Covered(root') = Covered(root) \cup {p}
<1>1. \A allocated \in PageAlloc : allocated \in BOOLEAN /\ allocated
  BY DEF PageAlloc
<1>2. /\ p \in Nat
      /\ \A x \in root : /\ x.start \in Nat \ {0} /\ x.end \in Nat \ {0}
                         /\ x.start <= x.end
                         /\ p < x.start \/ x.end < p
  <2>1. \A x \in root : p \notin Span(x)
    BY DEF Covered
  <2> QED
    BY <2>1, FrameAssumption, GoodHasFacts DEF GoodTree, GoodFacts, Span
<1>3. ASSUME NEW allocated \in PageAlloc,
             NEW l \in extent_rb_find_left_neighbor(p),
             NEW r \in extent_rb_find_by_start(p + 1),
             MergeNeighbors(p, l, r, allocated)
      PROVE  Apart(root') /\ Covered(root') = Covered(root) \cup {p}
  <2> DEFINE grown == extent_add_adjacent(l, p, allocated)
             y == extent_merge(grown, r)
  <2>1. /\ l \in root /\ r \in root /\ Good(l) /\ Good(r)
        /\ p = l.end + 1 /\ p # l.start - 1 /\ p = r.start - 1
    BY Neighbors
  <2>2. root' = (root \ {l, r}) \cup {y}
    BY <1>3 DEF MergeNeighbors
  <2> HIDE DEF grown, y
  <2>3. Good(grown) /\ grown.start = l.start /\ grown.end = p
        /\ Span(grown) = Span(l) \cup {p}
    BY <1>1, <2>1, AddGood DEF grown
  <2>4. /\ Span(y) = Span(l) \cup {p} \cup Span(r)
        /\ y.start = l.start /\ y.end = r.end
    BY <2>1, <2>3, MergeGood DEF y
  <2>5. Covered(root') = Covered(root) \cup {p}
    BY <2>1, <2>2, <2>4 DEF Covered
  <2>6. \A x \in root \ {l, r} : x.end + 1 < y.start \/ y.end + 1 < x.start
    BY <1>2, <2>1, <2>4 DEF Apart
  <2> QED
    BY <2>2, <2>5, <2>6 DEF Apart
<1>4. ASSUME NEW allocated \in PageAlloc, NoRightNeighbor(p),
             NEW l \in extent_rb_find_left_neighbor(p),
             GrowNeighbor(p, l, allocated)
      PROVE  Apart(root') /\ Covered(root') = Covered(root) \cup {p}
  <2> DEFINE y == extent_add_adjacent(l, p, allocated)
  <2>1. l \in root /\ Good(l) /\ p = l.end + 1 /\ p # l.start - 1
    BY Neighbors
  <2>2. root' = (root \ {l}) \cup {y}
    BY <1>4 DEF GrowNeighbor
  <2> HIDE DEF y
  <2>3. y.start = l.start /\ y.end = p /\ Span(y) = Span(l) \cup {p}
    BY <1>1, <2>1, AddGood DEF y
  <2>4. Covered(root') = Covered(root) \cup {p}
    BY <2>1, <2>2, <2>3 DEF Covered
  <2>5. \A x \in root : x.start # p + 1
    BY <1>4 DEF NoRightNeighbor, extent_rb_find_by_start
  <2>6. \A x \in root \ {l} : x.end + 1 < y.start \/ y.end + 1 < x.start
    BY <1>2, <2>1, <2>3, <2>5 DEF Apart
  <2> QED
    BY <2>2, <2>4, <2>6 DEF Apart
<1>5. ASSUME NEW allocated \in PageAlloc, NoLeftNeighbor(p),
             NEW r \in extent_rb_find_by_start(p + 1),
             GrowNeighbor(p, r, allocated)
      PROVE  Apart(root') /\ Covered(root') = Covered(root) \cup {p}
  <2> DEFINE y == extent_add_adjacent(r, p, allocated)
  <2>1. r \in root /\ Good(r) /\ p = r.start - 1
    BY Neighbors
  <2>2. root' = (root \ {r}) \cup {y}
    BY <1>5 DEF GrowNeighbor
  <2> HIDE DEF y
  <2>3. y.start = p /\ y.end = r.end /\ Span(y) = Span(r) \cup {p}
    BY <1>1, <2>1, AddGood DEF y
  <2>4. Covered(root') = Covered(root) \cup {p}
    BY <2>1, <2>2, <2>3 DEF Covered
  <2>5. \A x \in root : x.end # p - 1
    BY <1>5, LookupsAreComplete
  <2>6. \A x \in root \ {r} : x.end + 1 < y.start \/ y.end + 1 < x.start
    BY <1>2, <2>1, <2>3, <2>5 DEF Apart
  <2> QED
    BY <2>2, <2>4, <2>6 DEF Apart
<1>6. ASSUME NEW allocated \in PageAlloc, NoLeftNeighbor(p),
             NoRightNeighbor(p), CreateExtent(p, allocated)
      PROVE  Apart(root') /\ Covered(root') = Covered(root) \cup {p}
  <2>1. PICK a \in FreeAddr : root' = root \cup {extent_init(a, p, allocated)}
    BY <1>6 DEF CreateExtent
  <2> DEFINE y == extent_init(a, p, allocated)
  <2>2. y.start = p /\ y.end = p
    BY DEF extent_init
  <2>3. Span(y) = {p}
    BY <1>1, InitGood DEF FreeAddr
  <2> HIDE DEF y
  <2>4. Covered(root') = Covered(root) \cup {p}
    BY <2>1, <2>3 DEF Covered, y
  <2>5. \A x \in root : x.end # p - 1 /\ x.start # p + 1
    BY <1>6, LookupsAreComplete DEF NoRightNeighbor, extent_rb_find_by_start
  <2>6. \A x \in root : x.end + 1 < y.start \/ y.end + 1 < x.start
    BY <1>2, <2>2, <2>5
  <2> QED
    BY <2>1, <2>4, <2>6 DEF Apart, y
<1> QED
  BY <1>3, <1>4, <1>5, <1>6 DEF extent_rb_insert_or_add, NoMemory

\* Taking a frame out of the tree leaves the others, in separated extents.
LEMMA RemoveIsExact ==
    ASSUME ~AtomicAllocFails, GoodTree(root), Apart(root), NEW p \in Frame,
           extent_rb_remove_page(p)
    PROVE  Apart(root') /\ Covered(root') = Covered(root) \ {p}
<1>1. /\ p \in Nat
      /\ \A x \in root : /\ x.start \in Nat \ {0} /\ x.end \in Nat \ {0}
                         /\ x.start <= x.end
  BY FrameAssumption, GoodHasFacts DEF GoodTree, GoodFacts
<1>2. ASSUME NEW x \in root, NEW y \in root, p \in Span(x), p \in Span(y)
      PROVE  x = y
  BY <1>1, <1>2 DEF Apart, Span
<1>3. CASE NoContaining(p) /\ UNCHANGED root
  BY <1>3, LookupsAreComplete DEF Covered
<1>4. ASSUME NEW x \in extent_rb_find_containing(p), RemoveLast(p, x)
      PROVE  Apart(root') /\ Covered(root') = Covered(root) \ {p}
  <2>1. x \in root /\ Good(x) /\ p \in Span(x) /\ x.pgcount = 1
    BY <1>4, Neighbors DEF RemoveLast
  <2>2. Span(x) = {p}
    BY <2>1, GoodHasFacts DEF GoodFacts, Span
  <2>3. root' = root \ {x}
    BY <1>4 DEF RemoveLast
  <2> QED
    BY <1>2, <2>1, <2>2, <2>3 DEF Apart, Covered
<1>5. ASSUME NEW x \in extent_rb_find_containing(p), TrimEnd(p, x)
      PROVE  Apart(root') /\ Covered(root') = Covered(root) \ {p}
  <2> DEFINE y == extent_trim(x, p)
  <2>1. x \in root /\ Good(x) /\ p \in Span(x)
    BY Neighbors
  <2>2. root' = (root \ {x}) \cup {y}
    BY <1>5 DEF TrimEnd
  <2>3. /\ Good(y) /\ Span(y) = Span(x) \ {p}
        /\ x.start <= y.start /\ y.end <= x.end
    BY <1>5, <2>1, TrimGood DEF TrimEnd
  <2> HIDE DEF y
  <2>4. Covered(root') = Covered(root) \ {p}
    BY <1>2, <2>1, <2>2, <2>3 DEF Covered
  <2>5. y.start \in Nat /\ y.end \in Nat
    BY <2>3, GoodHasFacts DEF GoodFacts
  <2>6. \A z \in root \ {x} : z.end + 1 < y.start \/ y.end + 1 < z.start
    BY <1>1, <2>1, <2>3, <2>5 DEF Apart
  <2> QED
    BY <2>2, <2>4, <2>6 DEF Apart
<1>6. ASSUME NEW x \in extent_rb_find_containing(p), SplitAround(p, x)
      PROVE  Apart(root') /\ Covered(root') = Covered(root) \ {p}
  <2>1. x \in root /\ Good(x) /\ p \in Span(x)
    BY Neighbors
  <2>2. PICK a \in FreeAddr :
          root' = (root \ {x}) \cup {SplitLeft(x, p), SplitRight(x, p, a)}
    BY <1>6 DEF SplitAround
  <2> DEFINE l == SplitLeft(x, p)
             r == SplitRight(x, p, a)
  <2>3. /\ l.start = x.start /\ l.end = p - 1
        /\ r.start = p + 1 /\ r.end = x.end
        /\ Span(l) \cup Span(r) = Span(x) \ {p}
    BY <1>6, <2>1, SplitGood DEF SplitAround, FreeAddr
  <2>4. root' = (root \ {x}) \cup {l, r}
    BY <2>2
  <2> HIDE DEF l, r
  <2>5. Covered(root') = Covered(root) \ {p}
    BY <1>2, <2>1, <2>3, <2>4 DEF Covered
  <2>6. x.start <= p /\ p <= x.end
    BY <1>1, <2>1 DEF Span
  <2>7. l.end + 1 < r.start
    BY <1>1, <2>3
  <2>8. \A z \in root \ {x} :
          /\ z.end + 1 < l.start \/ l.end + 1 < z.start
          /\ z.end + 1 < r.start \/ r.end + 1 < z.start
    BY <1>1, <2>1, <2>3, <2>6 DEF Apart
  <2> QED
    BY <2>4, <2>5, <2>7, <2>8 DEF Apart
<1> QED
  BY <1>3, <1>4, <1>5, <1>6 DEF extent_rb_remove_page, NoMemory

\* As long as no allocation fails, the tree tracks exactly the frames the
\* process maps, in extents that neither overlap nor touch. Exact alone is not
\* inductive: a lookup may miss an extent of a tree that is not separated.
THEOREM TableIsExact ==
    ASSUME ~PageAllocFails, ~AtomicAllocFails
    PROVE  Spec => [](Separated /\ Exact)
<1> DEFINE IInv == Inv /\ Separated /\ Exact
<1>1. Init => IInv
  BY DEF Init, Inv, TypeOK, WellFormed, Separated, Exact, Tracked
<1>2. IInv /\ [Next]_vars => IInv'
  <2> SUFFICES ASSUME IInv, [Next]_vars PROVE IInv'
    OBVIOUS
  <2>1. /\ GoodTree(root) /\ Apart(root) /\ Covered(root) = mapped
        /\ mapped \subseteq Frame /\ leaked \in BOOLEAN
    BY InvIsGoodTree DEF Separated, Exact, Apart, Tracked, Covered
  <2>2. SUFFICES /\ GoodTree(root') /\ Apart(root') /\ Covered(root') = mapped'
                 /\ mapped' \subseteq Frame /\ leaked' \in BOOLEAN
    BY InvIsGoodTree DEF Separated, Exact, Apart, Tracked, Covered
  <2>3. ASSUME NEW p \in Frame, Fault(p)
        PROVE  /\ GoodTree(root') /\ Apart(root') /\ Covered(root') = mapped'
               /\ mapped' \subseteq Frame /\ leaked' \in BOOLEAN
    <3>1. extent_rb_insert_or_add(p) /\ p \notin mapped
          /\ mapped' = mapped \cup {p}
      BY <2>3 DEF Fault
    <3>2. GoodTree(root') /\ leaked' \in BOOLEAN
      BY <2>1, <3>1, InsertOrAddKeepsGood
    <3>3. Apart(root') /\ Covered(root') = Covered(root) \cup {p}
      BY <2>1, <3>1, InsertIsExact
    <3> QED
      BY <2>1, <3>1, <3>2, <3>3
  <2>4. ASSUME NEW p \in Frame, Unmap(p)
        PROVE  /\ GoodTree(root') /\ Apart(root') /\ Covered(root') = mapped'
               /\ mapped' \subseteq Frame /\ leaked' \in BOOLEAN
    <3>1. extent_rb_remove_page(p) /\ mapped' = mapped \ {p}
      BY <2>4 DEF Unmap
    <3>2. GoodTree(root') /\ leaked' \in BOOLEAN
      BY <2>1, <3>1, RemovePageKeepsGood
    <3>3. Apart(root') /\ Covered(root') = Covered(root) \ {p}
      BY <2>1, <3>1, RemoveIsExact
    <3> QED
      BY <2>1, <3>1, <3>2, <3>3
  <2>5. CASE ExitMmap
    BY <2>1, <2>5 DEF ExitMmap, extent_rb_destroy, GoodTree, Apart, Covered
  <2>6. CASE UNCHANGED vars
    BY <2>1, <2>6 DEF vars
  <2> QED
    BY <2>3, <2>4, <2>5, <2>6 DEF Next
<1>3. IInv => Separated /\ Exact
  OBVIOUS
<1> QED
  BY <1>1, <1>2, <1>3, PTL DEF Spec

\* For every set of frames and addresses, and whatever allocation fails, the
\* variables have their types: no hook leaves in the tree what is no extent.
THEOREM TableTypes == Spec => []TypeOK
BY TypeAndShape, PTL

\* As long as no allocation fails, extent_rb_insert_or_add merges whatever can
\* be merged: no two extents overlap or touch.
THEOREM ExtentsAreSeparated ==
    ASSUME ~PageAllocFails, ~AtomicAllocFails
    PROVE  Spec => []Separated
BY TableIsExact, PTL
------------------------------------------------------------------------------
(* What extent_rb_print counts. *)

\* Extents that are good and apart count each frame they cover once.
LEMMA PagesAreFrames ==
    ASSUME NEW R, GoodTree(R), Apart(R), IsFiniteSet(Covered(R))
    PROVE  Cardinality(CountedPages(R)) = Cardinality(Covered(R))
<1> DEFINE E(p) == CHOOSE x \in R : p \in Span(x)
           f == [p \in Covered(R) |-> <<E(p), p - E(p).start + 1>>]
<1>1. \A x \in R : /\ x.start \in Nat /\ x.end \in Nat /\ x.start <= x.end
                   /\ x.pgcount = x.end - x.start + 1
  BY GoodHasFacts DEF GoodTree, GoodFacts
<1>2. \A x \in R : \A p : p \in Span(x) => E(p) = x
  <2> SUFFICES ASSUME NEW x \in R, NEW p, p \in Span(x) PROVE E(p) = x
    OBVIOUS
  <2>1. E(p) \in R /\ p \in Span(E(p))
    OBVIOUS
  <2> HIDE DEF E
  <2> QED
    BY <1>1, <2>1 DEF Apart, Span
<1>3. \A p \in Covered(R) : E(p) \in R /\ p \in Span(E(p))
  BY <1>2 DEF Covered
<1> HIDE DEF E
<1>4. \A p \in Covered(R) : p - E(p).start + 1 \in 1 .. E(p).pgcount
  BY <1>1, <1>3 DEF Span
<1>5. f \in [Covered(R) -> CountedPages(R)]
  BY <1>3, <1>4 DEF CountedPages
<1>6. \A p, q \in Covered(R) : f[p] = f[q] => p = q
  <2> SUFFICES ASSUME NEW p \in Covered(R), NEW q \in Covered(R), f[p] = f[q]
               PROVE  p = q
    OBVIOUS
  <2>1. E(p) = E(q) /\ p - E(p).start + 1 = q - E(q).start + 1
    OBVIOUS
  <2>2. p \in Int /\ q \in Int /\ E(p).start \in Int
    BY <1>1, <1>3 DEF Span
  <2> QED
    BY <2>1, <2>2
<1>7. \A y \in CountedPages(R) : \E p \in Covered(R) : f[p] = y
  <2> SUFFICES ASSUME NEW y \in CountedPages(R)
               PROVE  \E p \in Covered(R) : f[p] = y
    OBVIOUS
  <2>1. PICK x \in R : y \in {x} \X (1 .. x.pgcount)
    BY DEF CountedPages
  <2> DEFINE n == y[2]
  <2>2. y = <<x, n>> /\ n \in 1 .. x.pgcount
    BY <2>1
  <2> DEFINE p == x.start + n - 1
  <2> HIDE DEF n
  <2>3. p \in Span(x) /\ p - x.start + 1 = n
    BY <1>1, <2>2 DEF Span
  <2> HIDE DEF p
  <2>4. p \in Covered(R) /\ E(p) = x
    BY <1>2, <2>3 DEF Covered
  <2>5. f[p] = <<x, n>>
    BY <2>3, <2>4
  <2> QED
    BY <2>2, <2>4, <2>5
<1>8. f \in Bijection(Covered(R), CountedPages(R))
  <2> HIDE DEF f
  <2> QED
    BY <1>5, <1>6, <1>7 DEF Bijection, Injection, IsInjective, Surjection
<1> QED
  BY <1>8, FS_Bijection DEF ExistsBijection

\* There are as many extents as there are frames that follow no other.
LEMMA ExtentsAreRuns ==
    ASSUME NEW R, GoodTree(R), Apart(R), IsFiniteSet(Covered(R))
    PROVE  Cardinality(R) = Cardinality({p \in Covered(R) : p - 1 \notin Covered(R)})
<1> DEFINE S == {p \in Covered(R) : p - 1 \notin Covered(R)}
           E(p) == CHOOSE x \in R : x.start = p
           f == [p \in S |-> E(p)]
<1>1. \A x \in R : x.start \in Nat /\ x.end \in Nat /\ x.start <= x.end
  BY GoodHasFacts DEF GoodTree, GoodFacts
<1>2. \A x \in R : E(x.start) = x
  <2> SUFFICES ASSUME NEW x \in R PROVE E(x.start) = x
    OBVIOUS
  <2>1. E(x.start) \in R /\ E(x.start).start = x.start
    OBVIOUS
  <2> HIDE DEF E
  <2> QED
    BY <1>1, <2>1 DEF Apart
<1>3. \A x \in R : x.start \in S
  <2> SUFFICES ASSUME NEW x \in R PROVE x.start \in S
    OBVIOUS
  <2>1. x.start \in Covered(R)
    BY <1>1 DEF Covered, Span
  <2>2. \A y \in R : x.start - 1 \notin Span(y)
    BY <1>1 DEF Apart, Span
  <2> QED
    BY <2>1, <2>2 DEF Covered
<1>4. \A p \in S : \E x \in R : x.start = p
  <2> SUFFICES ASSUME NEW p \in S PROVE \E x \in R : x.start = p
    OBVIOUS
  <2>1. PICK x \in R : p \in Span(x)
    BY DEF Covered
  <2>2. p - 1 \notin Span(x)
    BY DEF Covered
  <2> QED
    BY <1>1, <2>1, <2>2 DEF Span
<1>5. \A p \in S : E(p) \in R /\ E(p).start = p
  BY <1>4
<1> HIDE DEF E, S
<1>6. f \in Bijection(S, R)
  <2>1. f \in [S -> R]
    BY <1>5
  <2>2. \A p, q \in S : f[p] = f[q] => p = q
    BY <1>5
  <2>3. \A x \in R : \E p \in S : f[p] = x
    BY <1>2, <1>3
  <2> HIDE DEF f
  <2> QED
    BY <2>1, <2>2, <2>3 DEF Bijection, Injection, IsInjective, Surjection
<1>7. IsFiniteSet(S)
  <2>1. S \in SUBSET Covered(R)
    BY DEF S
  <2> QED
    BY <2>1, FS_Subset
<1>8. Cardinality(R) = Cardinality(S)
  <2> HIDE DEF f
  <2> QED
    BY <1>6, <1>7, FS_Bijection DEF ExistsBijection
<1> QED
  BY <1>8 DEF S

\* Both counts, when the tree is exact and finitely many frames are mapped.
LEMMA ExactIsReported ==
    ASSUME Inv, Separated, Exact, IsFiniteSet(mapped)
    PROVE  ReportExact
<1> DEFINE F == {p \in mapped : p - 1 \in mapped}
<1>1. GoodTree(root) /\ Apart(root) /\ Covered(root) = mapped
  BY InvIsGoodTree DEF Separated, Exact, Apart, Tracked, Covered
<1>2. extent_rb_print.pages = Cardinality(mapped)
  BY <1>1, PagesAreFrames DEF extent_rb_print
<1>3. extent_rb_print.extents = Cardinality(mapped \ F)
  <2>1. mapped \ F = {p \in mapped : p - 1 \notin mapped}
    OBVIOUS
  <2>2. Cardinality(root) = Cardinality({p \in mapped : p - 1 \notin mapped})
    BY <1>1, ExtentsAreRuns
  <2> QED
    BY <2>1, <2>2 DEF extent_rb_print
<1>4. mapped \cap F = F /\ F \in SUBSET mapped
  OBVIOUS
<1> HIDE DEF F
<1>5. Cardinality(mapped \ F) = Cardinality(mapped) - Cardinality(F)
  BY <1>4, FS_Difference
<1>6. Cardinality(mapped) \in Nat /\ Cardinality(F) \in Nat
  BY <1>4, FS_Subset, FS_CardinalityType
<1>7. tlb_save = Cardinality(F)
  BY <1>2, <1>3, <1>5, <1>6 DEF tlb_save
<1> QED
  BY <1>2, <1>7 DEF ReportExact, F

\* A process maps finitely many frames, whatever there are.
FinitelyMapped == IsFiniteSet(mapped)

LEMMA MappedIsFinite == Spec => []FinitelyMapped
<1>1. Init => FinitelyMapped
  BY FS_EmptySet DEF Init, FinitelyMapped
<1>2. FinitelyMapped /\ [Next]_vars => FinitelyMapped'
  BY FS_EmptySet, FS_AddElement, FS_RemoveElement
  DEF Next, Fault, Unmap, ExitMmap, vars, FinitelyMapped
<1> QED
  BY <1>1, <1>2, PTL DEF Spec

\* As long as no allocation fails, the summary line counts the mapped frames
\* and their maximal runs, so what check_tlb.sh makes of it, the number of
\* frames that follow another one, is right.
THEOREM ReportIsExact ==
    ASSUME ~PageAllocFails, ~AtomicAllocFails
    PROVE  Spec => []ReportExact
<1>1. Spec => [](TypeOK /\ WellFormed)
  BY TypeAndShape
<1>2. Spec => [](Separated /\ Exact)
  BY TableIsExact
<1>3. TypeOK /\ WellFormed /\ Separated /\ Exact /\ FinitelyMapped => ReportExact
  BY ExactIsReported DEF Inv, FinitelyMapped
<1> QED
  BY <1>1, <1>2, <1>3, MappedIsFinite, PTL
=============================================================================
