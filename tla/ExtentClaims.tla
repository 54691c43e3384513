---------------------------- MODULE ExtentClaims ----------------------------
(***************************************************************************)
(* What comments in project2.patch and the repository's documents say of   *)
(* the extent table, where the code does otherwise. Each is checked in a   *)
(* run that ends in a counterexample; ExtentTable has what does hold.      *)
(***************************************************************************)
EXTENDS ExtentTable

\* "Teardown and page removal are handled on unmap/exit so the tree does not
\* leak": whatever is allocated for the tree is freed at the latest at exit.
NoLeak == ~leaked

\* "extends an adjacent extent or creates a new one, and keeps the page count
\* and address range current": a fault does not make the tree lose a frame.
FaultsKeepTracked ==
    [][mapped \subseteq mapped' => Tracked \subseteq Tracked']_vars
=============================================================================
