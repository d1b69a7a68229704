---------------------------- MODULE GraphAlgorithm ----------------------------
(***************************************************************************)
(* What the evaluation of a circuit must yield: the message passing that   *)
(* the README and circuit.h describe, computed directly on the graph, and  *)
(* the properties of the evaluation that refer to it.                      *)
(***************************************************************************)
EXTENDS Evaluation, GateOrder

------------------------------------------------------------------------------
(* The reference: message passing on the graph *)

Entries == DOMAIN graph
NodeIds == {graph[i].src : i \in {j \in Entries : graph[j].isV = 1}}
Rank(v) == Cardinality({u \in NodeIds : u < v})

\* Deduplication keeps the first of equal edges.
SameEdge(i, j) == graph[i].src = graph[j].src /\ graph[i].dst = graph[j].dst
Edges == {i \in Entries :
            /\ graph[i].isV = 0
            /\ conf.dedup => ~\E j \in 1 .. i - 1 : graph[j].isV = 0 /\ SameEdge(i, j)}
From(e) == IF conf.reverse THEN graph[e].dst ELSE graph[e].src
To(e)   == IF conf.reverse THEN graph[e].src ELSE graph[e].dst

Total(f(_), S) == Ring(MapThenSumSet(f, S))
Clipped(x) == IF x = 0 THEN 0 ELSE 1

InitState(v, c) ==
  CASE conf.init = "input"  -> graph[CHOOSE i \in Entries : graph[i].isV = 1 /\ graph[i].src = v].data
    [] conf.init = "zeros"  -> 0
    [] conf.init = "onehot" -> IF Rank(v) = c THEN 1 ELSE 0

MessageOf(x, r, c) ==
  CASE conf.prepare = "weighted" -> Ring(x + conf.weights[conf.depth + 1 - r])
    [] conf.prepare = "clip"     -> Clipped(x)
    [] conf.prepare = "square0"  -> IF c = 0 THEN Ring(x * x) ELSE x
    [] OTHER                     -> x

Applied(x, update) ==
  CASE conf.apply = "add"    -> Ring(x + update)
    [] conf.apply = "twice"  -> Ring(x + 2 * update)
    [] conf.apply = "update" -> update
    [] conf.apply = "fresh"  -> Ring(x + (1 - x) * update)
    [] conf.apply = "change" -> Ring(3 * (update - x))

\* The states of column c after all rounds and the post-processing.
FinalStates(c) ==
  LET st[r \in 0 .. conf.depth] ==
        IF r = 0 THEN [v \in NodeIds |-> InitState(v, c)]
        ELSE LET old == st[r - 1] IN
               [v \in NodeIds |->
                  Applied(old[v], Total(LAMBDA e : MessageOf(old[From(e)], r, c),
                                        {e \in Edges : To(e) = v}))]
      end == st[conf.depth]
  IN  [v \in NodeIds |-> IF conf.post = "clip" THEN Clipped(end[v]) ELSE end[v]]

\* One list per output: the nodes in the order of their ids, or where the
\* input has them, and 0 for everything else.
Listed(states) ==
  [i \in 1 .. Size |->
     IF conf.inputOrder
     THEN IF graph[i].isV = 1 THEN states[graph[i].src] ELSE 0
     ELSE IF i <= Nodes THEN states[CHOOSE v \in NodeIds : Rank(v) = i - 1] ELSE 0]

\* column_sums_to_nodes: the i-th node gets the sum of column i.
ColumnSums ==
  [v \in NodeIds |-> LET states == FinalStates(Rank(v))
                     IN  Total(LAMBDA u : states[u], NodeIds)]

Reference ==
  IF conf.sums THEN Listed(ColumnSums)
  ELSE FlattenSeq([c \in 1 .. conf.columns |-> Listed(FinalStates(c - 1))])

------------------------------------------------------------------------------
(* Properties *)

IsVector(v) == \A i \in DOMAIN v : i \in 0 .. Size /\ v[i] \in 0 .. Mod - 1

\* The variables hold what they are declared to hold.  A counter of readers
\* never passes below zero.
TypeOK ==
  /\ level \in Seq(Nat) /\ Len(level) <= Len(gates)
  /\ depth \in Nat
  /\ phase \in {"layering", "built", "send", "receive", "done", "undefined"}
  /\ lay \in Nat
  /\ at \in 0 .. End
  /\ \A w \in Wire : waiting[w] \in Nat
  /\ \A w \in Wire : IsVector(wires[w])
  /\ \A k \in Kinds : vals[k] \in Seq(0 .. Mod - 1) /\ idx[k] \in 0 .. Len(vals[k])
  /\ output \in Seq(0 .. Mod - 1)

\* What the evaluation computes on shared wires is the algorithm on the
\* graph: the sorts, the shuffled switches between the three orders, the
\* prefix sums and the reuse of wires together add up to message passing.
Correct == phase = "done" => output = Reference

\* No gate reads a wire that is not written yet or already freed, and what
\* it takes from the opened values is there.
NoUndefined == phase # "undefined"

\* How far the evaluation is: the wires written, and the gates that will
\* read their operands in this phase of their level or later.  Gates that
\* take nothing but opened values in evaluate_recv have read them by then.
HasWritten(w) == WireLevel(w) < lay \/ (WireLevel(w) = lay /\ phase # "send" /\ w < at)
ReadsOnce(f) == f.type \in Interactive \ {"Compaction", "Bit2A", "Reveal"}
HasSent(w) == WireLevel(w) < lay \/ (WireLevel(w) = lay /\ (phase # "send" \/ w < at))
ToRead == {w \in Wire : IF ReadsOnce(GateOf(w)) THEN ~HasSent(w) ELSE ~HasWritten(w)}

\* update_wire frees no wire that is still to be read: however the readers
\* are spread over levels and over the two phases of a level, the count that
\* init_waiting made of them does not run out early.
HeldUntilRead ==
  phase \in {"send", "receive"} =>
    \A v \in {u \in ToRead : Computed(GateOf(u))} :
      \A x \in {u \in Range(Operands(GateOf(v))) : HasWritten(u)} : Holds(x, Cells(GateOf(x)))

\* The operand of the first layer of a comparison has no other reader.
EqzAlone(p) ==
  \A v \in {i \in DOMAIN p : p[i].type = "EQZ" /\ p[i].layer = 0} :
    \A u \in DOMAIN p : p[u].in2 # p[v].in1 /\ (u # v => p[u].in1 # p[v].in1)

\* An EQZ gate overwrites its operand only when it is its last reader.
InPlaceExclusive ==
  phase = "send" /\ at < End /\ GateOf(at).type = "EQZ" /\ GateOf(at).layer = 0
    => waiting[GateOf(at).in1] = 1

\* level_order: an operand of an interactive gate is ready a level earlier,
\* one of a local gate in its level at the latest.
LevelsSound ==
  phase # "layering" =>
    \A w \in Wire : Computed(GateOf(w)) =>
      \A x \in Range(Operands(GateOf(w))) :
        IF GateOf(w).type \in Interactive THEN WireLevel(x) < WireLevel(w)
                                          ELSE WireLevel(x) <= WireLevel(w)

\* The gates that need randomness, as the dealer meets them.
DealtType(t) == IF t \in {"MulSIMD", "Compaction", "EQZ", "Bit2A"} THEN "MulSIMD" ELSE t
DealtGates ==
  FlattenSeq([l \in 1 .. depth + 1 |->
    SelectSeq([i \in 1 .. Len(gates) |->
                 [type |-> DealtType(gates[i].type), idx |-> gates[i].idx,
                  pi |-> gates[i].pi, omega |-> gates[i].omega, level |-> level[i]]],
              LAMBDA g : g.level = l - 1 /\ g.type \in {"Shuffle", "MergedShuffle",
                                                         "Unshuffle", "MulSIMD"})])

\* The built circuit is one the preprocessing can serve, and its shuffle ids
\* fit into the tables that Storage allocates (shuffle_idx + 1 entries).
DealerCanServe ==
  phase = "built" =>
    /\ Dealable(DealtGates)
    /\ \A i \in DOMAIN gates :
         {gates[i].idx, gates[i].pi, gates[i].omega} \subseteq 0 .. ShuffleIdx(conf)

\* Under one shuffle id at most one permutation is made public: revealing a
\* second one would show how the two are related.
RevealedOnce ==
  phase = "built" =>
    \A v, w \in Wire :
      LET hides(u) == GateOf(GateOf(u).in1) IN
        GateOf(v).type = "Reveal" /\ GateOf(w).type = "Reveal" /\ v # w =>
          hides(v).type = "Shuffle" /\ hides(w).type = "Shuffle" /\ hides(v).idx # hides(w).idx

==============================================================================
