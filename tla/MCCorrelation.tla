---------------------------- MODULE MCCorrelation ----------------------------
(***************************************************************************)
(* Instances for TLC: every well-formed circuit of up to three gates over  *)
(* a small menu, and longer ones shaped like what Circuit::build emits.    *)
(***************************************************************************)
EXTENDS Correlation

MCIdx == 0..2

G(type, i, l) ==
  [type |-> type, idx |-> i, pi |-> 0, omega |-> 1, size |-> 1, level |-> l]

Menu == {G("Shuffle", 0, l) : l \in 1..2} \cup {G("Shuffle", 1, l) : l \in 1..2}
   \cup {G("Unshuffle", 0, l) : l \in 2..3} \cup {G("MulSIMD", 0, l) : l \in 1..2}
   \cup {G("MergedShuffle", 2, 2), G("SetConstVecSIMD", 0, 0)}

Short == {c \in UNION {[1..n -> Menu] : n \in 1..3} : WellFormed(c)}

\* One sort iteration (two shuffles with one id, a compaction, the unshuffle),
\* two order shuffles and two merges of them.
SortThenMerge ==
  <<G("SetConstVecSIMD", 0, 0), G("Shuffle", 0, 1), G("Shuffle", 0, 1),
    G("MulSIMD", 0, 2), G("Unshuffle", 0, 3), G("Shuffle", 1, 4),
    G("MergedShuffle", 2, 5), G("MergedShuffle", 2, 5), G("MulSIMD", 0, 5)>>

\* Both parties' turns at fresh ids, and an id met again in the other turn.
Turns ==
  <<G("SetConstVecSIMD", 0, 0), G("SetConstVecSIMD", 0, 0), G("MulSIMD", 0, 1),
    G("Shuffle", 0, 1), G("Shuffle", 1, 1), G("Shuffle", 0, 2), G("Unshuffle", 0, 2),
    G("MergedShuffle", 2, 2), G("Unshuffle", 1, 3), G("Shuffle", 1, 3)>>

MCCircuits == Short \cup {SortThenMerge, Turns}
==============================================================================
