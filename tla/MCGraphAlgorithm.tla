--------------------------- MODULE MCGraphAlgorithm ---------------------------
(***************************************************************************)
(* Instances for TLC: the algorithms of the repository on graphs of three  *)
(* nodes and two edges, with the entries in several orders.                *)
(***************************************************************************)
EXTENDS GraphAlgorithm

Base == [depth |-> 2, columns |-> 1, reverse |-> FALSE, dedup |-> FALSE,
         inputOrder |-> FALSE, init |-> "input", prepare |-> "state",
         apply |-> "add", post |-> "state", weights |-> <<>>, sums |-> FALSE]

BFS  == [Base EXCEPT !.post = "clip"]
BFSInOrder == [BFS EXCEPT !.depth = 1, !.inputOrder = TRUE, !.dedup = TRUE]
BFS3 == [BFS EXCEPT !.depth = 1, !.columns = 3, !.init = "onehot"]
PiM  == [Base EXCEPT !.reverse = TRUE, !.init = "zeros", !.prepare = "weighted",
                     !.apply = "update", !.weights = <<1, 3>>]
PiK  == [PiM EXCEPT !.dedup = TRUE]
PiR  == [BFS3 EXCEPT !.depth = 2, !.sums = TRUE]
Idle == [Base EXCEPT !.depth = 0, !.inputOrder = TRUE]
Twice == [Base EXCEPT !.depth = 1, !.apply = "twice"]
Fresh == [Base EXCEPT !.apply = "fresh"]
Change == [Base EXCEPT !.depth = 1, !.apply = "change"]

P(o) == o :> Build(o)
MCPrograms == P(BFS) @@ P(BFSInOrder) @@ P(BFS3) @@ P(PiM) @@ P(PiK) @@ P(PiR)
              @@ P(Idle) @@ P(Twice) @@ P(Fresh) @@ P(Change)

\* In every circuit of the repository's algorithms a clipped column and a
\* difference of neighbours are read by the comparison alone.
ASSUME ComparedAlone == \A o \in DOMAIN MCPrograms : EqzAlone(MCPrograms[o])

N(v, x) == [src |-> v, dst |-> v, isV |-> 1, data |-> x]
E(u, v) == [src |-> u, dst |-> v, isV |-> 0, data |-> 0]

\* Any two edges between different nodes, equal ones included ...
Pairs == LET Edge == {E(u, v) : u \in 0..2, v \in 0..2} \ {E(v, v) : v \in 0..2}
         IN  {<<N(2, 1), e, N(0, 0), f, N(1, 2)>> : e \in Edge, f \in Edge}
\* ... and lists in other orders, with ids that leave a gap.
Twin   == <<E(2, 0), N(0, 0), N(3, 1), E(2, 0), N(2, 1)>>
Cycle  == <<N(3, 1), N(1, 0), E(3, 1), E(1, 3), N(2, 0)>>
Fan    == <<N(0, 2), E(1, 3), E(1, 0), N(3, 0), N(1, 5)>>
Loops  == <<E(1, 1), E(1, 0), N(0, 0), N(1, 1), N(2, 2)>>

MCGraphs(o) == Pairs \cup {Twin, Cycle, Fan} \cup (IF o.dedup THEN {} ELSE {Loops})

\* Neighbouring ids have different permutations.
Rotation(i) == [k \in Cell |-> (k + i + 1) % Size]
Mixed(i) == [Rotation(i) EXCEPT ![0] = Rotation(i)[2], ![2] = Rotation(i)[0]]
MCSecrets == {[i \in 0 .. 20 |-> Mixed(i)]}
==============================================================================
