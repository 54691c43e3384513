-------------------------- MODULE MCPageFaultBench --------------------------
(* PageFaultBench on a small instance. *)
EXTENDS PageFaultBench

CONSTANT MaxFrame   \* the frames are 1 .. MaxFrame

MCFrame == 1 .. MaxFrame
MCZeroFrame == MaxFrame + 2
MCThread == 0 .. num_threads
MCHeap == <<num_threads, 0>>
MCVPage == ((0 .. num_threads - 1) \X (0 .. num_pages - 1)) \cup {MCHeap}

\* As in MCExtentMM, lists do not matter. The page an idle thread was at does
\* not either; nothing here depends on an unmapped address.
ListlessView ==
    <<{[x EXCEPT !.pagelist = <<>>, !.addr = 0] : x \in root}, use_extents, pte,
      early, ptl, pc, [t \in Thread |-> IF pc[t] = "idle" THEN Heap ELSE page[t]],
      frame, free, exiting, benchVars>>
=============================================================================
