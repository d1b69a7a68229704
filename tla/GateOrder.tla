------------------------------- MODULE GateOrder -------------------------------
(***************************************************************************)
(* What the preprocessing needs of a circuit whose gates stand in level    *)
(* order.  Module Correlation assumes it; the runs of GraphAlgorithm check *)
(* that the circuits Circuit::build makes have it.                         *)
(***************************************************************************)
EXTENDS Naturals, Sequences

\* A shuffle id is either always merged or never, a merge comes after the
\* two shuffles it composes, and an Unshuffle lies at least one level behind
\* a Shuffle with its id.
Dealable(c) ==
  /\ \A g, h \in DOMAIN c :
       /\ g < h => c[g].level <= c[h].level
       /\ c[g].type = "Shuffle" /\ c[h].type = "MergedShuffle"
            => c[g].idx # c[h].idx
  /\ \A h \in DOMAIN c :
       /\ c[h].type = "MergedShuffle" =>
            \A i \in {c[h].pi, c[h].omega} :
              \E g \in DOMAIN c : g < h /\ c[g].type = "Shuffle" /\ c[g].idx = i
       /\ c[h].type = "Unshuffle" =>
            \E g \in DOMAIN c : /\ c[g].level < c[h].level
                                /\ c[g].type = "Shuffle"
                                /\ c[g].idx = c[h].idx

==============================================================================
