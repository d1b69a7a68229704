-------------------------------- MODULE Circuit --------------------------------
(***************************************************************************)
(* Circuit::build: the gates that compute one graph algorithm.             *)
(*                                                                         *)
(* Wire w belongs to gate w + 1 of the list.  The stages of build are      *)
(* given the circuit so far and return the next.                           *)
(*                                                                         *)
(* Besides Size, Nodes and Bits of ProtocolConfig a circuit depends on a   *)
(* configuration o with the fields                                         *)
(*   depth, columns               the rounds and the columns of data,      *)
(*   reverse, dedup, inputOrder   the three use_/provide_ switches,        *)
(*   init, prepare, apply, post,                                           *)
(*   weights, sums                the methods the algorithm overrides.     *)
(*                                                                         *)
(* Sources: src/core/circuit.cpp, circuit.h, gate.cpp, algorithms/*.h.     *)
(***************************************************************************)
EXTENDS Gates

------------------------------------------------------------------------------
(* Inputs *)

\* set_inputs: which wire holds what.  Bits come first, least significant
\* first; with reverse passing the roles of source and destination swap.
FirstBits  == [b \in 1..Bits |-> b - 1]
SecondBits == [b \in 1..Bits |-> Bits + b - 1]
SrcBits(o)    == IF o.reverse THEN SecondBits ELSE FirstBits
DstBits(o)    == IF o.reverse THEN FirstBits ELSE SecondBits
SrcWire(o)    == 2 * Bits + (IF o.reverse THEN 1 ELSE 0)
DstWire(o)    == 2 * Bits + (IF o.reverse THEN 0 ELSE 1)
IsVWire    == 2 * Bits + 2
DataWire(o, c) == 2 * Bits + 3 + (IF o.columns > 1 THEN c + 1 ELSE 0)
InputCount(o) == 2 * Bits + 4 + (IF o.columns > 1 THEN o.columns ELSE 0)

SetInputs(o) == [i \in 1..InputCount(o) |-> InputGate] \o <<Flip(IsVWire)>>

\* The sort keys: vertices come first among equal sources and last among
\* equal destinations.
SrcKeys(o) == <<InputCount(o)>> \o SrcBits(o)
DstKeys(o) == <<IsVWire>> \o DstBits(o)

------------------------------------------------------------------------------
(* Sorting *)

\* A slip: the sorted positions are not moved back to the input order.
Slip_SortIteration(w, perm, keys, i) ==
  <<Shuffle(perm, i), Shuffle(keys, i), Reveal(w),
    Permute(w + 1, w + 2), Compaction(w + 3),
    Permute(w + 4, w + 2), Unshuffle(w + 5, i)>>

SortIteration(w, perm, keys, i) ==
  <<Shuffle(perm, i), Shuffle(keys, i), Reveal(w),
    Permute(w + 1, w + 2), Compaction(w + 3),
    ReversePermute(w + 4, w + 2), Unshuffle(w + 5, i)>>

\* A slip: all iterations share one id.
Slip_SortOnTop(w, keys, i) ==
  FlattenSeq([b \in DOMAIN keys |->
    SortIteration(w + 7 * (b - 1), w + 7 * (b - 1) - 1, keys[b], i)])

\* One iteration for each of `keys', on top of the order on wire w - 1, with
\* the shuffle ids from i on.
SortOnTop(w, keys, i) ==
  FlattenSeq([b \in DOMAIN keys |->
    SortIteration(w + 7 * (b - 1), w + 7 * (b - 1) - 1, keys[b], i + b - 1)])

Sort(w, keys, i) ==
  <<Compaction(Head(keys))>> \o SortOnTop(w + 1, Tail(keys), i)

------------------------------------------------------------------------------
(* pre_mp with deduplication: entries equal to their predecessor in the    *)
(* (src, dst) order are found, and the mark becomes the most significant   *)
(* bit of both keys.                                                       *)

\* Gates that find the duplicates, given the order on wire w - 1.
MarkDuplicates(w, o, i) ==
  LET eqSrc == EqualsZero(w + 8, w + 6, Size - 1)
      eqDst == EqualsZero(w + 13, w + 7, Size - 1)
  IN  <<Shuffle(w - 1, i), Reveal(w),
        Shuffle(SrcWire(o), i), Shuffle(DstWire(o), i),
        Permute(w + 2, w + 1), Permute(w + 3, w + 1),
        DeduplicationSub(w + 4), DeduplicationSub(w + 5)>>
      \o eqSrc \o eqDst
      \o <<MulSIMD(w + 12, w + 17, Size - 1, TRUE),
           Bit2A(w + 18, Size - 1), DeduplicationInsert(w + 19),
           ReversePermute(w + 20, w + 1), Unshuffle(w + 21, i)>>

\* `more' is appended to the circuit; its result becomes the wire `name'.
Extend(c, name, more) ==
  [c EXCEPT !.gates = @ \o more, ![name] = Out(Len(c.gates), more)]

PreMp(c, o) ==
  IF ~o.dedup THEN c
  ELSE LET byDst == Extend(c, "dst", Sort(Len(c.gates), DstKeys(o), 0))
           both(d) == Extend(d, "mark", SortOnTop(Len(d.gates), SrcBits(o), Bits))
           marked(d) == Extend(d, "mark", MarkDuplicates(Len(d.gates), o, 2 * Bits))
       IN  marked(both(byDst))

------------------------------------------------------------------------------
(* compute_sorts and prepare_shuffles *)

\* The ids of the shuffles: a mark is one more key to sort by.
SrcId(o) == IF o.dedup THEN 2 * Bits + 1 ELSE 0
DstId(o) == SrcId(o) + Bits + (IF o.dedup THEN 1 ELSE 0)
VtxId(o) == DstId(o) + (IF o.dedup THEN 1 ELSE Bits)
\* Of the orders; vtx has this one, src and dst have the next two.
OrderId(o) == VtxId(o) + 1
\* Circuit::shuffle_idx after build.
ShuffleIdx(o) == OrderId(o) + 5

SortSrc(c, o) ==
  LET mark == IF o.dedup THEN <<c.mark>> ELSE <<>>
  IN  Extend(c, "src", Sort(Len(c.gates), SrcKeys(o) \o mark, SrcId(o)))

\* With deduplication pre_mp has sorted by the other keys.
SortDst(c, o) ==
  Extend(c, "dst", IF o.dedup THEN SortIteration(Len(c.gates), c.dst, c.mark, DstId(o))
                              ELSE Sort(Len(c.gates), DstKeys(o), DstId(o)))

SortVtx(c, o) ==
  Extend(c, "vtx", <<Flip(IsVWire)>>
                   \o SortIteration(Len(c.gates) + 1, c.src, Len(c.gates), VtxId(o)))

PrepareShuffles(c, o) ==
  LET w == Len(c.gates)
      i == OrderId(o)
  IN  Extend(c, "clear",
        <<Shuffle(c.vtx, i), Shuffle(c.src, i + 1),
          Shuffle(c.dst, i + 2),
          Reveal(w), Reveal(w + 1), Reveal(w + 2)>>)

------------------------------------------------------------------------------
(* The methods an algorithm overrides *)

OneHot(c) == [v \in 1..Nodes |-> IF v = c + 1 THEN 1 ELSE 0]
InitNodes(o, c) ==
  CASE o.init = "input"  -> <<>>
    [] o.init = "zeros"  -> <<SetConstVector([v \in 1..Nodes |-> 0])>>
    [] o.init = "onehot" -> <<SetConstVector(OneHot(c))>>

\* pi_k and pi_m add the weights last to first.
Prepare(w, x, o, r, c) ==
  CASE o.prepare = "state"    -> <<>>
    [] o.prepare = "weighted" ->
         <<AddConstant(x, o.weights[o.depth + 1 - r])>>
    [] o.prepare = "clip"     -> Clip(w, x)
    [] o.prepare = "square0"  ->   \* an algorithm that treats column 0 apart
         IF c = 0 THEN <<Multiply(x, x)>> ELSE <<>>

\* Applied to the old state x; the update is on wire w - 1.  (The last three
\* are no algorithms of the repository; they use the rest of the library.)
Apply(w, x, o) ==
  CASE o.apply = "add"    -> <<Add(x, w - 1)>>
    [] o.apply = "update" -> <<>>
    [] o.apply = "twice"  -> <<MultiplyByConstant(w - 1, 2), Add(x, w)>>
    [] o.apply = "fresh"  -> <<Flip(x), Multiply(w, w - 1), Add(x, w + 1)>>
    [] o.apply = "change" -> <<Subtract(w - 1, x), MultiplyByConstant(w, 3)>>

PostMp(w, x, o) == IF o.post = "clip" THEN Clip(w, x) ELSE <<>>

------------------------------------------------------------------------------
(* message_passing *)

\* The switches between the orders and the sums along edges: from the
\* message m to the update on the last wire.  k is the wire of the revealed
\* vtx order; those of src and dst follow.
Switch(w, x, k, kNext, i, p, q) ==
  <<ReversePermute(x, k), MergedShuffle(w, i, p, q), Permute(w + 1, kNext)>>

\* A slip: the first merge takes the id of the dst order.
Slip_PropagateGather(w, m, k, i) ==
  <<Propagate1(m)>>
  \o Switch(w + 1, w, k, k + 1, i + 2, i, i + 1)
  \o Switch(w + 4, m, k, k + 1, i + 2, i, i + 1)
  \o <<Propagate2(w + 3, w + 6)>>
  \o Switch(w + 8, w + 7, k + 1, k + 2, i + 3, i + 1, i + 2)
  \o <<Gather1(w + 10)>>
  \o Switch(w + 12, w + 11, k + 2, k, i + 4, i + 2, i)
  \o <<Gather2(w + 14)>>

PropagateGather(w, m, k, i) ==
  <<Propagate1(m)>>
  \o Switch(w + 1, w, k, k + 1, i + 3, i, i + 1)
  \o Switch(w + 4, m, k, k + 1, i + 3, i, i + 1)
  \o <<Propagate2(w + 3, w + 6)>>
  \o Switch(w + 8, w + 7, k + 1, k + 2, i + 4, i + 1, i + 2)
  \o <<Gather1(w + 10)>>
  \o Switch(w + 12, w + 11, k + 2, k, i + 5, i + 2, i)
  \o <<Gather2(w + 14)>>

\* Iteration r on the state of wire w - 1.
Round(w, k, o, r, col) ==
  LET prep   == Prepare(w, w - 1, o, r, col)
      passed == PropagateGather(w + Len(prep), Out(w, prep), k, OrderId(o))
  IN  prep \o passed \o Apply(w + Len(prep) + Len(passed), w - 1, o)

\* The vtx order is the first of the three that prepare_shuffles reveals.
MessagePassing(c, o, col) ==
  LET k     == c.clear - 2
      w     == Len(c.gates)
      start == <<Shuffle(DataWire(o, col), OrderId(o)),
                 Permute(w, k)>> \o InitNodes(o, col)
      round(gates, r) == gates \o Round(w + Len(gates), k, o, r, col)
      more  == FoldLeft(round, start, [r \in 1..o.depth |-> r])
  IN  [c EXCEPT !.gates = @ \o more, !.data = Append(@, Out(w, more))]

------------------------------------------------------------------------------
(* Output *)

PostProcess(c, o, col) ==
  LET post == PostMp(Len(c.gates), c.data[col + 1], o)
  IN  [c EXCEPT !.gates = @ \o post,
                !.data[col + 1] = IF post = <<>> THEN @ ELSE Out(Len(c.gates), post)]

\* post_mp_aggregate
Aggregate(c, o) ==
  IF o.sums THEN [c EXCEPT !.gates = Append(@, ColumnSumsToNodes(c.data)),
                           !.data = <<Len(c.gates)>>]
            ELSE c

OutputData(c, x, o) ==
  LET w == Len(c.gates)
      back == IF o.inputOrder
              THEN <<ReversePermute(w, c.clear - 2),
                     Unshuffle(w + 1, OrderId(o))>>
              ELSE <<>>
  IN  [c EXCEPT !.gates = @ \o <<RemoveEdgeData(x)>> \o back
                            \o <<OutputGate(w + Len(back))>>]

------------------------------------------------------------------------------
(* build *)

\* The circuit under construction: its gates and the wires of the last
\* duplicate marks, of the three orders, of the last revealed order and of
\* the columns.
Inputs(o) == [gates |-> SetInputs(o), mark |-> 0, src |-> 0, dst |-> 0, vtx |-> 0,
              clear |-> 0, data |-> <<>>]

Columns(o) == [i \in 1..o.columns |-> i - 1]

Ordered(o) == PrepareShuffles(SortVtx(SortDst(SortSrc(PreMp(Inputs(o), o), o), o), o), o)
Passed(o)  == FoldLeft(LAMBDA c, col : MessagePassing(c, o, col), Ordered(o), Columns(o))
Combined(o) ==
  Aggregate(FoldLeft(LAMBDA c, col : PostProcess(c, o, col), Passed(o), Columns(o)), o)
Written(c, o) == FoldLeft(LAMBDA d, x : OutputData(d, x, o), c, c.data)

Build(o) == Written(Combined(o), o).gates

==============================================================================
