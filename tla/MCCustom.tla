-------------------------------- MODULE MCCustom --------------------------------
(***************************************************************************)
(* Algorithms a user may write against circuit.h, and an input the README  *)
(* allows, that the code does not evaluate as documented: one instance per *)
(* finding.                                                                *)
(***************************************************************************)
EXTENDS MCGraphAlgorithm

\* prepare returns clip(state), apply adds the update to the old state.
ClipFirst == P([Base EXCEPT !.depth = 1, !.prepare = "clip"])

\* prepare squares the state of column 0 and leaves the others alone.
Column0Apart == P([PiR EXCEPT !.prepare = "square0"])

\* A self-loop in a graph whose duplicate edges are to be removed.
Deduplicated == P([Base EXCEPT !.depth = 1, !.dedup = TRUE])
OnlyLoops(o) == {Loops}
OnlyTwin(o) == {Twin}
==============================================================================
