------------------------------ MODULE MCExchange ------------------------------
(* Circuits of up to three levels, of none to five values each, in blocks  *)
(* of two: empty levels, levels that are no full block, one, one and a     *)
(* rest, two, two and a rest.                                              *)
EXTENDS Exchange, SequencesExt

L(m, a, s, r) == [k \in Kind |-> CASE k = "mul" -> m [] k = "and" -> a
                                   [] k = "shuffle" -> s [] k = "reveal" -> r]

Silence == L(0, 0, 0, 0)

MCCircuits ==
  {<<>>, <<L(0, 1, 0, 0), Silence, L(2, 0, 0, 0)>>, <<L(1, 1, 2, 1)>>, <<L(1, 2, 0, 1), L(0, 0, 3, 0)>>,
   <<Silence, L(0, 0, 0, 3), L(0, 0, 1, 0)>>, <<Silence>>, <<L(1, 0, 1, 0), L(0, 1, 0, 1), Silence>>}

MCBefore ==
  [c \in MCCircuits |->
    [l \in 1 .. Len(c) + 1 |-> FoldLeft(LAMBDA n, level : n + NComm(level), 0, SubSeq(c, 1, l - 1))]]

MCBroken == {0}
AnyBroken == {0, -1}
==============================================================================
