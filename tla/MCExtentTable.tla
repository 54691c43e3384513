---------------------------- MODULE MCExtentTable ----------------------------
(***************************************************************************)
(* ExtentTable on small instances.                                         *)
(*                                                                         *)
(* extent_trim leaves list nodes behind, so the lists grow without end.    *)
(* No guard reads a list: where the properties are about ranges, RangeView *)
(* tells states apart without the lists and needs no bound. Where they are *)
(* about lists, MCSpec bounds their length by MaxList.                     *)
(***************************************************************************)
EXTENDS ExtentClaims, TLC

CONSTANTS
    MaxFrame,   \* the frames are 1 .. MaxFrame
    MaxList     \* how long a list may get, for MCSpec

MCFrame == 1 .. MaxFrame

AddrSymmetry == Permutations(Addr)

RangeView == <<{[x EXCEPT !.pagelist = <<>>] : x \in root}, mapped>>

BoundedNext == Next /\ \A x \in root' : Len(x.pagelist) <= MaxList

MCSpec == Init /\ [][BoundedNext]_vars
=============================================================================
