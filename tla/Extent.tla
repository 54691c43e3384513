------------------------------- MODULE Extent -------------------------------
(***************************************************************************)
(* `typedef struct {...} extent' of project2/project2.patch and the        *)
(* functions that work on one or two extents, as operators on records.     *)
(*                                                                         *)
(*   addr      the address kmalloc returned for the structure (identity)   *)
(*   start     starting_phys_addr, a page frame number                     *)
(*   end       ending_phys_addr                                            *)
(*   pgcount   the number of pages the structure claims to hold            *)
(*   pagelist  the frames on the kernel list, from head to tail            *)
(*                                                                         *)
(* The kernel list primitives are modelled by what they do: list_add puts  *)
(* at the head, list_add_tail at the tail, list_splice(l, h) puts l right  *)
(* after h, list_cut_position(l, h, e) moves everything of h up to and     *)
(* including e to l.                                                       *)
(***************************************************************************)
EXTENDS Integers, Sequences

\* The frames between start and end: what the tree says the extent holds.
Span(x) == x.start .. x.end

\* The frames on the extent's list, whatever their order.
Listed(x) == {x.pagelist[i] : i \in DOMAIN x.pagelist}

\* Fields are set before the first list node is allocated, and the caller
\* ignores -ENOMEM: without memory the extent is used with an empty list.
extent_init(a, p, allocated) ==
    [addr     |-> a,
     start    |-> p,
     end      |-> p,
     pgcount  |-> 1,
     pagelist |-> IF allocated THEN <<p>> ELSE <<>>]

\* Mutant: the page count is not kept.
extent_add_adjacent_Uncounted(x, p, allocated) ==
    CASE allocated /\ p = x.start - 1 -> [x EXCEPT !.start = p]
      [] allocated /\ p # x.start - 1 /\ p = x.end + 1 -> [x EXCEPT !.end = p]
      [] OTHER -> x

\* Without memory for the list node, or when p is not next to the extent, an
\* error is returned and nothing changes.
extent_add_adjacent(x, p, allocated) ==
    CASE allocated /\ p = x.start - 1 ->
            [x EXCEPT !.start = p, !.pgcount = @ + 1, !.pagelist = <<p>> \o @]
      [] allocated /\ p # x.start - 1 /\ p = x.end + 1 ->
            [x EXCEPT !.end = p, !.pgcount = @ + 1, !.pagelist = @ \o <<p>>]
      [] OTHER -> x

extent_pte_is_start_or_end(x, p) == p = x.start \/ p = x.end

extents_are_adjacent(x, y) == x.end = y.start - 1 \/ y.end = x.start - 1

\* extent_merge returns 0, and frees its second argument.
MergeSucceeds(to, from) ==
    /\ extents_are_adjacent(to, from)
    /\ to.pgcount # 0
    /\ from.pgcount # 0

\* list_rotate_left, n times.
Rotated(s, n) ==
    IF s = <<>> THEN s
    ELSE LET k == n % Len(s)
         IN  SubSeq(s, k + 1, Len(s)) \o SubSeq(s, 1, k)

\* Mutant: from's pages are not counted.
extent_merge_Uncounted(to, from) ==
    IF MergeSucceeds(to, from)
    THEN [to EXCEPT !.start = IF from.start < @ THEN from.start ELSE @,
                    !.end = IF from.end > @ THEN from.end ELSE @]
    ELSE to

\* The loop over to's list runs off its end, so the "last element" it leaves
\* behind is the list head and the splice puts from's pages in front of to's.
extent_merge(to, from) ==
    LET spliced == from.pagelist \o to.pagelist
        total   == to.pgcount + from.pgcount
    IN  CASE MergeSucceeds(to, from) /\ to.end = from.start - 1 ->
                [to EXCEPT !.end = from.end, !.pgcount = total,
                           !.pagelist = spliced]
          [] MergeSucceeds(to, from) /\ to.end # from.start - 1 ->
                [to EXCEPT !.start = from.start, !.pgcount = total,
                           !.pagelist = Rotated(spliced, from.pgcount)]
          [] OTHER -> to

\* Mutant: only the range shrinks.
extent_trim_Uncounted(x, p) ==
    CASE p = x.end -> [x EXCEPT !.end = @ - 1]
      [] p # x.end /\ p = x.start -> [x EXCEPT !.start = @ + 1]
      [] OTHER -> x

\* The list loop ends with an unconditional break: only the first node is
\* ever compared with p. The range of a one-page extent is left alone.
extent_trim(x, p) ==
    LET rest == IF x.pagelist # <<>> /\ Head(x.pagelist) = p
                THEN Tail(x.pagelist) ELSE x.pagelist
        less == [x EXCEPT !.pgcount = @ - 1, !.pagelist = rest]
    IN  CASE p = x.end /\ x.pgcount > 1 -> [less EXCEPT !.end = @ - 1]
          [] p # x.end /\ p = x.start /\ x.pgcount > 1 ->
                [less EXCEPT !.start = @ + 1]
          [] extent_pte_is_start_or_end(x, p) /\ x.pgcount <= 1 -> less
          [] OTHER -> x

\* The position of the first list node holding p, 0 when there is none.
FirstAt(s, p) ==
    LET at == {i \in DOMAIN s : s[i] = p}
    IN  IF at = {} THEN 0 ELSE CHOOSE i \in at : \A j \in at : i <= j

\* extent_split, for p strictly inside x: what src_ex becomes ...
SplitLeft(x, p) ==
    [x EXCEPT !.end = p - 1,
              !.pgcount = p - x.start,
              !.pagelist = SubSeq(@, FirstAt(@, p) + 1, Len(@))]

\* Mutant: the right half still has the page.
SplitRight_KeepsPage(x, p, a) ==
    [x EXCEPT !.addr = a, !.start = p, !.pgcount = x.end - p + 1]

\* ... and what new_right_half, allocated at a, becomes. list_cut_position
\* hands over the nodes up to p's, and p's own is then freed.
SplitRight(x, p, a) ==
    [addr     |-> a,
     start    |-> p + 1,
     end      |-> x.end,
     pgcount  |-> x.end - p,
     pagelist |-> SubSeq(x.pagelist, 1, FirstAt(x.pagelist, p) - 1)]
=============================================================================
