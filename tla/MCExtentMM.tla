----------------------------- MODULE MCExtentMM -----------------------------
(* ExtentMM on small instances. As in MCExtentTable, no guard reads a list:  *)
(* ListlessView leaves the lists out of what makes states different.         *)
EXTENDS ExtentMM, TLC

CONSTANT MaxFrame   \* the frames are 1 .. MaxFrame

MCFrame == 1 .. MaxFrame

\* Next to the last frame of the allocator, so that extents grow by it and merge
\* around it.
MCZeroFrame == MaxFrame + 1

Symmetry == Permutations(Addr) \cup Permutations(Thread) \cup Permutations(VPage)

\* Where an idle thread last was does not matter.
ListlessView ==
    <<{<<x.addr, x.start, x.end, x.pgcount>> : x \in root}, use_extents, pte,
      early, ptl, pc, [t \in Thread |-> IF pc[t] = "idle" THEN 0 ELSE page[t]],
      frame, free, relative, exiting>>
=============================================================================
