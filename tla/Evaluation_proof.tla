--------------------------- MODULE Evaluation_proof ---------------------------
(***************************************************************************)
(* Circuit::level_order is right for every well-wired list of gates: no    *)
(* gate shares a level with an interactive gate it waits for.              *)
(*                                                                         *)
(* While the levels are assigned, the operands of the gates done so far    *)
(* are done too and are ready in time; what is no output keeps its level   *)
(* when the outputs are moved to the last one.                             *)
(*                                                                         *)
(* From "Readers of wires" on: the life of a wire in Evaluator::run, for   *)
(* every such list whose gates fit their operands.  The count of a wire    *)
(* is never below the reads to come, so a wire that is written and still   *)
(* to be read holds its entries; the opened values lie in the order of     *)
(* the gates, so each gate takes its own and the cursors come round.       *)
(*                                                                         *)
(* From "What a wire holds" on: the values.  Every cell is a ring element  *)
(* and every vector has the cells its gate writes, so whatever a later     *)
(* gate reads of it is a ring element too.                                 *)
(***************************************************************************)
EXTENDS GraphAlgorithm, FiniteSetTheorems, SequenceTheorems, WellFoundedInduction, TLAPS

\* The operand on wire x is ready for the gate of wire w.
Ready(x, w) == IF GateOf(w).type \in Interactive THEN WireLevel(x) < WireLevel(w)
                                                 ELSE WireLevel(x) <= WireLevel(w)

Placed(w) == \A x \in {GateOf(w).in1, GateOf(w).in2} : Ready(x, w)

Shape == /\ gates \in Seq(Gate) /\ WellWired(gates)
         /\ level \in Seq(Nat) /\ depth \in Nat
         /\ Len(level) <= Len(gates)

\* The levels of the gates done so far.
Growing == /\ \A w \in Nat : w < Len(level) => WireLevel(w) <= depth
           /\ \A w \in Nat :
                w < Len(level) /\ Computed(GateOf(w)) /\ GateOf(w).type # "Output"
                  => Placed(w)

\* The levels of all gates.
Final == /\ Len(level) = Len(gates)
         /\ \A w \in Nat : w < Len(gates) /\ Computed(GateOf(w)) => Placed(w)

LevelInv == Shape /\ IF phase = "layering" THEN Growing ELSE Final

\* The maximum of two levels is one of them and bounds both (level_order).
LEMMA MaxOfTwo ==
  ASSUME NEW a \in Nat, NEW b \in Nat
  PROVE  Max({a, b}) \in {a, b} /\ Max({a, b}) >= a /\ Max({a, b}) >= b
<1>1. \E m \in {a, b} : \A y \in {a, b} : m >= y
  <2>1. CASE a >= b  BY <2>1
  <2>2. CASE b >= a  BY <2>2
  <2> QED  BY <2>1, <2>2
<1> QED  BY <1>1 DEF Max

\* Operands are created before the gate that reads them (WellWired).
LEMMA Wired ==
  ASSUME Shape, NEW w \in Nat, w < Len(gates)
  PROVE  /\ GateOf(w) = gates[w + 1]
         /\ GateOf(w) \in Gate
         /\ GateOf(w).in1 \in Nat /\ GateOf(w).in2 \in Nat
         /\ Computed(GateOf(w)) =>
              \A x \in {GateOf(w).in1, GateOf(w).in2} : x < w /\ GateOf(x).type # "Output"
<1>1. w + 1 \in 1 .. Len(gates) /\ (w + 1) - 1 = w
  BY DEF Shape
<1>2. gates[w + 1] \in Gate
  BY <1>1 DEF Shape
<1>3. GateOf(w).in1 \in Nat /\ GateOf(w).in2 \in Nat
  BY <1>2 DEF Gate, GateOf
<1>4. Computed(gates[w + 1]) =>
        \A x \in {gates[w + 1].in1, gates[w + 1].in2} : x < w /\ gates[x + 1].type # "Output"
  BY <1>1 DEF Shape, WellWired
<1> QED  BY <1>2, <1>3, <1>4 DEF GateOf

\* A wire has a level whether or not its gate is done (level_order).
LEMMA WireLevelType ==
  ASSUME Shape, NEW w \in Nat
  PROVE  WireLevel(w) \in Nat
BY DEF Shape, WireLevel

\* A gate is never placed below its operands, an interactive one strictly
\* above them (level_order).
LEMMA GateLevelBound ==
  ASSUME Shape, NEW w \in Nat, w < Len(gates)
  PROVE  /\ GateLevel(GateOf(w)) \in Nat
         /\ \A x \in {GateOf(w).in1, GateOf(w).in2} :
              IF GateOf(w).type \in Interactive THEN WireLevel(x) < GateLevel(GateOf(w))
                                                ELSE WireLevel(x) <= GateLevel(GateOf(w))
<1> DEFINE f == GateOf(w)
           a == WireLevel(f.in1)
           b == WireLevel(f.in2)
<1>1. f.in1 \in Nat /\ f.in2 \in Nat
  BY Wired
<1>2. a \in Nat /\ b \in Nat
  BY <1>1, WireLevelType
<1>3. InputLevel(f) \in {a, b} /\ InputLevel(f) >= a /\ InputLevel(f) >= b
  BY <1>2, MaxOfTwo DEF InputLevel
<1>4. /\ InputLevel(f) \in Nat
      /\ \A x \in {f.in1, f.in2} : WireLevel(x) \in Nat /\ WireLevel(x) <= InputLevel(f)
  BY <1>2, <1>3
<1> HIDE DEF f
<1>5. GateLevel(f) = IF f.type \in Interactive THEN InputLevel(f) + 1 ELSE InputLevel(f)
  BY <1>4 DEF GateLevel
<1> QED  BY <1>4, <1>5 DEF f

LEMMA LevelInit == ASSUME Init PROVE LevelInv
<1>1. gates \in Seq(Gate) /\ WellWired(gates)
  BY ProgramsAssumption DEF Init
<1>2. level \in Seq(Nat) /\ Len(level) = 0 /\ depth \in Nat /\ phase = "layering"
  BY DEF Init
<1>3. Len(gates) \in Nat
  BY <1>1
<1>4. Shape /\ Growing
  BY <1>1, <1>2, <1>3 DEF Shape, Growing
<1> QED  BY <1>2, <1>4 DEF LevelInv

\* The gate that AssignLevel handles is placed; the others keep their level.
LEMMA AssignStep == ASSUME LevelInv, AssignLevel PROVE LevelInv'
<1>0. PICK n \in Nat : n = Len(level)
  BY DEF LevelInv, Shape
<1> DEFINE f == GateOf(n)
           v == IF f.type = "Output" THEN 0 ELSE GateLevel(f)
<1>1. Shape /\ Growing /\ phase = "layering" /\ n = Len(level) /\ n < Len(gates)
  BY <1>0 DEF AssignLevel, LevelInv
<1>2. gates' = gates /\ phase' = phase /\ level' = Append(level, v)
  BY <1>1 DEF AssignLevel, GateOf
<1>3. v \in Nat
  BY <1>1, GateLevelBound
<1>4. depth' \in Nat /\ depth <= depth' /\ v <= depth'
  <2>1. CASE f.type = "Output"
    BY <2>1, <1>1 DEF AssignLevel, GateOf, Shape
  <2>2. CASE f.type # "Output"
    <3>1. depth' = Max({depth, v})
      BY <2>2, <1>1 DEF AssignLevel, GateOf
    <3> QED  BY <3>1, <1>1, <1>3, MaxOfTwo DEF Shape
  <2> QED  BY <2>1, <2>2
<1> HIDE DEF v
<1>5. level' \in Seq(Nat) /\ Len(level') = n + 1
  BY <1>1, <1>2, <1>3 DEF Shape
<1>6. \A w \in Nat : w < n => WireLevel(w)' = WireLevel(w)
  BY <1>1, <1>2, <1>3, <1>5 DEF WireLevel, Shape
<1>7. WireLevel(n)' = v
  BY <1>1, <1>2, <1>3, <1>5 DEF WireLevel, Shape
<1>8. \A w : GateOf(w)' = GateOf(w)
  BY <1>2 DEF GateOf
<1>9. Shape'
  BY <1>1, <1>2, <1>4, <1>5 DEF Shape, WellWired
<1>10. \A w \in Nat : w < Len(level)' => WireLevel(w)' <= depth'
  <2> SUFFICES ASSUME NEW w \in Nat, w < n + 1 PROVE WireLevel(w)' <= depth'
    BY <1>5
  <2>1. CASE w = n
    BY <2>1, <1>4, <1>7
  <2>2. CASE w < n
    <3>1. WireLevel(w) <= depth /\ WireLevel(w) \in Nat
      BY <2>2, <1>1, WireLevelType DEF Growing
    <3> QED  BY <3>1, <2>2, <1>4, <1>6, <1>1 DEF Shape
  <2> QED  BY <2>1, <2>2, <1>1
<1>11. ASSUME NEW w \in Nat, w < n + 1, Computed(GateOf(w)), GateOf(w).type # "Output"
       PROVE  Placed(w)'
  <2>1. w < Len(gates)
    BY <1>1, <1>11
  <2>2. \A x \in {GateOf(w).in1, GateOf(w).in2} : x \in Nat /\ x < w
    BY <1>1, <1>11, <2>1, Wired
  <2>3. \A x \in {GateOf(w).in1, GateOf(w).in2} : WireLevel(x)' = WireLevel(x)
    BY <2>2, <1>1, <1>6, <1>11
  <2>4. CASE w = n
    <3>1. WireLevel(w)' = GateLevel(GateOf(w))
      BY <2>4, <1>7, <1>11 DEF v
    <3>2. \A x \in {GateOf(w).in1, GateOf(w).in2} :
            IF GateOf(w).type \in Interactive THEN WireLevel(x) < GateLevel(GateOf(w))
                                              ELSE WireLevel(x) <= GateLevel(GateOf(w))
      BY <1>1, <2>1, GateLevelBound
    <3> QED  BY <3>1, <3>2, <2>3, <1>8 DEF Placed, Ready
  <2>5. CASE w < n
    <3>1. Placed(w)
      BY <2>5, <1>1, <1>11 DEF Growing
    <3>2. WireLevel(w)' = WireLevel(w)
      BY <2>5, <1>6
    <3> QED  BY <3>1, <3>2, <2>3, <1>8 DEF Placed, Ready
  <2> QED  BY <2>4, <2>5, <1>1, <1>11
<1>12. \A w : Computed(GateOf(w))' <=> Computed(GateOf(w))
  BY <1>8 DEF Computed
<1>13. \A w \in Nat :
          w < Len(level)' /\ Computed(GateOf(w))' /\ GateOf(w)'.type # "Output"
            => Placed(w)'
  BY <1>5, <1>8, <1>11, <1>12
<1>14. Growing'
  BY <1>10, <1>13 DEF Growing
<1> QED  BY <1>1, <1>2, <1>9, <1>14 DEF LevelInv

\* PlaceOutputs moves what nothing reads to a level that is high enough.
LEMMA OutputStep == ASSUME LevelInv, PlaceOutputs PROVE LevelInv'
<1>1. Shape /\ Growing /\ Len(level) = Len(gates)
  BY DEF PlaceOutputs, LevelInv
<1>2. /\ gates' = gates /\ depth' = depth /\ phase' = "built"
      /\ level' = [i \in DOMAIN level |-> IF gates[i].type = "Output" THEN depth ELSE level[i]]
  BY DEF PlaceOutputs
<1>3. level' \in Seq(Nat) /\ Len(level') = Len(level)
  BY <1>1, <1>2 DEF Shape
<1>4. Shape'
  BY <1>1, <1>2, <1>3 DEF Shape, WellWired
<1>5. \A w : GateOf(w)' = GateOf(w)
  BY <1>2 DEF GateOf
<1>6. ASSUME NEW w \in Nat, w < Len(gates)
      PROVE  WireLevel(w)' = IF GateOf(w).type = "Output" THEN depth ELSE WireLevel(w)
  <2>1. w + 1 \in DOMAIN level
    BY <1>1, <1>6 DEF Shape
  <2> QED  BY <2>1, <1>1, <1>2, <1>3, <1>6 DEF WireLevel, GateOf
<1>7. ASSUME NEW w \in Nat, w < Len(gates), Computed(GateOf(w)) PROVE Placed(w)'
  <2>1. \A x \in {GateOf(w).in1, GateOf(w).in2} :
          x \in Nat /\ x < w /\ x < Len(gates) /\ GateOf(x).type # "Output"
    BY <1>1, <1>7, Wired DEF Shape
  <2>2. \A x \in {GateOf(w).in1, GateOf(w).in2} : WireLevel(x)' = WireLevel(x)
    BY <2>1, <1>6
  <2>3. CASE GateOf(w).type = "Output"
    <3>1. WireLevel(w)' = depth
      BY <2>3, <1>6, <1>7
    <3>2. \A x \in {GateOf(w).in1, GateOf(w).in2} : WireLevel(x) <= depth
      BY <2>1, <1>1 DEF Growing
    <3>3. GateOf(w).type \notin Interactive
      BY <2>3 DEF Interactive
    <3> QED  BY <3>1, <3>2, <3>3, <2>2, <1>5 DEF Placed, Ready
  <2>4. CASE GateOf(w).type # "Output"
    <3>1. WireLevel(w)' = WireLevel(w)
      BY <2>4, <1>6, <1>7
    <3>2. Placed(w)
      BY <2>4, <1>1, <1>7 DEF Growing
    <3> QED  BY <3>1, <3>2, <2>2, <1>5 DEF Placed, Ready
  <2> QED  BY <2>3, <2>4
<1>8. Final'
  BY <1>1, <1>2, <1>3, <1>5, <1>7 DEF Final, Computed
<1> QED  BY <1>2, <1>4, <1>8 DEF LevelInv

\* No later step touches the circuit.
LEMMA OtherStep ==
  ASSUME LevelInv, UNCHANGED <<gates, level, depth>>,
         phase' = phase \/ (phase # "layering" /\ phase' # "layering")
  PROVE  LevelInv'
BY DEF LevelInv, Shape, Growing, Final, Placed, Ready, WireLevel, GateOf, Computed, WellWired

LEMMA LevelNext == ASSUME LevelInv, [Next]_vars PROVE LevelInv'
<1>1. CASE AssignLevel   BY <1>1, AssignStep
<1>2. CASE PlaceOutputs  BY <1>2, OutputStep
<1>3. CASE StartRun      BY <1>3, OtherStep DEF StartRun
<1>4. CASE SendGate      BY <1>4, OtherStep DEF SendGate, Undefined
<1>5. CASE Exchange      BY <1>5, OtherStep DEF Exchange
<1>6. CASE RecvInput     BY <1>6, OtherStep DEF RecvInput, Write
<1>7. CASE RecvSetConst  BY <1>7, OtherStep DEF RecvSetConst, Write
<1>8. CASE RecvInteractive
  BY <1>8, OtherStep DEF RecvInteractive, Receiving, Write, Undefined
<1>9. CASE RecvUnary     BY <1>9, OtherStep DEF RecvUnary, Receiving, Write, Undefined
<1>10. CASE RecvBinary   BY <1>10, OtherStep DEF RecvBinary, Receiving, Write, Undefined
<1>11. CASE RecvColumnSums
  BY <1>11, OtherStep DEF RecvColumnSums, Receiving, Write, Undefined
<1>12. CASE RecvOutput   BY <1>12, OtherStep DEF RecvOutput, Receiving, Undefined
<1>13. CASE NextLevel    BY <1>13, OtherStep DEF NextLevel
<1>14. CASE UNCHANGED vars \/ Terminated
  BY <1>14, OtherStep DEF vars, Terminated
<1> QED  BY <1>1, <1>2, <1>3, <1>4, <1>5, <1>6, <1>7, <1>8, <1>9, <1>10, <1>11, <1>12,
            <1>13, <1>14 DEF Next

LEMMA LevelImplies == ASSUME LevelInv PROVE LevelsSound
<1> SUFFICES ASSUME phase # "layering", NEW w \in Wire, Computed(GateOf(w)),
                    NEW x \in Range(Operands(GateOf(w)))
             PROVE  Ready(x, w)
  BY DEF LevelsSound, Ready
<1>1. w \in Nat /\ w < Len(gates) /\ Final
  BY DEF LevelInv, Shape, Wire
<1>2. x \in {GateOf(w).in1, GateOf(w).in2}
  BY DEF Range, Operands
<1> QED  BY <1>1, <1>2 DEF Final, Placed

\* Circuit::level_order (circuit.cpp) never puts a gate into the level of an
\* interactive gate whose result it reads, nor below any operand.
THEOREM LevelOrder == Spec => []LevelsSound
<1>1. Init => LevelInv               BY LevelInit
<1>2. LevelInv /\ [Next]_vars => LevelInv'  BY LevelNext
<1>3. LevelInv => LevelsSound        BY LevelImplies
<1> QED  BY <1>1, <1>2, <1>3, PTL DEF Spec

------------------------------------------------------------------------------
(* Readers of wires *)

\* A circuit as Circuit::build leaves it.
Sound(p) == p \in Seq(Gate) /\ WellWired(p) /\ Fitting(p)

Slots(p) == 0 .. Len(p) - 1

\* The gates of L that will read wire w, as their first and as their second
\* operand, and how many reads that makes.
First(p, L, w)  == {v \in L : p[v + 1].in1 = w}
Second(p, L, w) == {v \in L : w # 0 /\ p[v + 1].in2 = w}
Still(p, L, w) == Cardinality(First(p, L, w)) + Cardinality(Second(p, L, w))

Times(read, w) == Cardinality({j \in DOMAIN read : read[j] = w})

LEMMA SoundGate ==
  ASSUME NEW p, Sound(p), NEW v \in Slots(p)
  PROVE  /\ Len(p) \in Nat /\ v \in Nat /\ v + 1 \in DOMAIN p
         /\ p[v + 1] \in Gate /\ p[v + 1].in1 \in Nat /\ p[v + 1].in2 \in Nat
         /\ p[v + 1].size \in Nat
         /\ p[v + 1].type \in Interactive \cup LocalGate
         /\ p[v + 1].type \in TwoInputs => p[v + 1].in2 # 0
<1>1. Len(p) \in Nat /\ DOMAIN p = 1 .. Len(p) /\ p \in [1 .. Len(p) -> Gate]
  BY DEF Sound
<1>2. v \in Nat /\ v + 1 \in 1 .. Len(p)
  BY <1>1 DEF Slots
<1>3. p[v + 1] \in Gate
  BY <1>1, <1>2
<1>4. /\ p[v + 1].in1 \in Nat /\ p[v + 1].in2 \in Nat /\ p[v + 1].size \in Nat
      /\ p[v + 1].type \in Interactive \cup LocalGate
  BY <1>3 DEF Gate
<1>5. p[v + 1].type \in TwoInputs => p[v + 1].in2 # 0
  BY <1>1, <1>2 DEF Sound, Fitting
<1> QED
  BY <1>1, <1>2, <1>3, <1>4, <1>5

LEMMA TimesNone ==
  ASSUME NEW w PROVE Times(<<>>, w) = 0
<1>1. {j \in DOMAIN <<>> : <<>>[j] = w} = {}
  OBVIOUS
<1> QED
  BY <1>1, FS_EmptySet DEF Times

LEMMA TimesOne ==
  ASSUME NEW x, NEW w PROVE Times(<<x>>, w) = IF x = w THEN 1 ELSE 0
<1> DEFINE T == {j \in DOMAIN <<x>> : <<x>>[j] = w}
<1>1. CASE x = w
  <2>1. T = {1}
    BY <1>1
  <2> QED
    BY <1>1, <2>1, FS_Singleton DEF Times
<1>2. CASE x # w
  <2>1. T = {}
    BY <1>2
  <2> QED
    BY <1>2, <2>1, FS_EmptySet DEF Times
<1> QED
  BY <1>1, <1>2

LEMMA TimesTwo ==
  ASSUME NEW x, NEW y, NEW w
  PROVE  Times(<<x, y>>, w) = (IF x = w THEN 1 ELSE 0) + (IF y = w THEN 1 ELSE 0)
<1> DEFINE T == {j \in DOMAIN <<x, y>> : <<x, y>>[j] = w}
<1>0. DOMAIN <<x, y>> = {1, 2} /\ <<x, y>>[1] = x /\ <<x, y>>[2] = y
  OBVIOUS
<1>1. CASE x = w /\ y = w
  <2>1. T = 1 .. 2
    BY <1>0, <1>1
  <2>2. Cardinality(1 .. 2) = 2
    <3>1. PICK m \in Int, n \in Int : m = 1 /\ n = 2
      OBVIOUS
    <3>2. Cardinality(m .. n) = IF m > n THEN 0 ELSE n - m + 1
      BY FS_Interval
    <3> QED
      BY <3>1, <3>2
  <2> QED
    BY <1>1, <2>1, <2>2 DEF Times
<1>2. CASE x = w /\ y # w
  <2>1. T = {1}
    BY <1>0, <1>2
  <2> QED
    BY <1>2, <2>1, FS_Singleton DEF Times
<1>3. CASE x # w /\ y = w
  <2>1. T = {2}
    BY <1>0, <1>3
  <2> QED
    BY <1>3, <2>1, FS_Singleton DEF Times
<1>4. CASE x # w /\ y # w
  <2>1. T = {}
    BY <1>0, <1>4
  <2> QED
    BY <1>4, <2>1, FS_EmptySet DEF Times
<1> QED
  BY <1>1, <1>2, <1>3, <1>4

LEMMA StillLess ==
  ASSUME NEW p, Sound(p), NEW L \in SUBSET Slots(p), NEW K \in SUBSET L, NEW w
  PROVE  Still(p, L, w) \in Nat /\ Still(p, K, w) \in Nat /\ Still(p, K, w) <= Still(p, L, w)
<1>1. Len(p) \in Nat
  BY DEF Sound
<1>2. IsFiniteSet(Slots(p))
  BY <1>1, FS_Interval DEF Slots
<1>3. /\ First(p, L, w) \in SUBSET Slots(p) /\ Second(p, L, w) \in SUBSET Slots(p)
      /\ First(p, K, w) \in SUBSET First(p, L, w) /\ Second(p, K, w) \in SUBSET Second(p, L, w)
  BY DEF First, Second
<1>4. IsFiniteSet(First(p, L, w)) /\ IsFiniteSet(Second(p, L, w))
  BY <1>2, <1>3, FS_Subset
<1>5. /\ IsFiniteSet(First(p, K, w)) /\ IsFiniteSet(Second(p, K, w))
      /\ Cardinality(First(p, K, w)) <= Cardinality(First(p, L, w))
      /\ Cardinality(Second(p, K, w)) <= Cardinality(Second(p, L, w))
  BY <1>3, <1>4, FS_Subset
<1>6. /\ Cardinality(First(p, L, w)) \in Nat /\ Cardinality(Second(p, L, w)) \in Nat
      /\ Cardinality(First(p, K, w)) \in Nat /\ Cardinality(Second(p, K, w)) \in Nat
  BY <1>4, <1>5, FS_CardinalityType
<1> QED
  BY <1>5, <1>6 DEF Still

\* A gate that has read its operands leaves as many reads fewer to come.
LEMMA StillRemoved ==
  ASSUME NEW p, Sound(p), NEW L \in SUBSET Slots(p), NEW a \in L, NEW w
  PROVE  /\ Times(Operands(p[a + 1]), w) \in Nat
         /\ Still(p, L \ {a}, w) + Times(Operands(p[a + 1]), w) <= Still(p, L, w)
<1> DEFINE f == p[a + 1]
<1>1. Len(p) \in Nat
  BY DEF Sound
<1>2. IsFiniteSet(First(p, L, w)) /\ IsFiniteSet(Second(p, L, w))
  <2>1. IsFiniteSet(Slots(p))
    BY <1>1, FS_Interval DEF Slots
  <2> QED
    BY <2>1, FS_Subset DEF First, Second
<1>3. Cardinality(First(p, L, w)) \in Nat /\ Cardinality(Second(p, L, w)) \in Nat
  BY <1>2, FS_CardinalityType
<1>4. First(p, L \ {a}, w) = First(p, L, w) \ {a} /\ Second(p, L \ {a}, w) = Second(p, L, w) \ {a}
  BY DEF First, Second
<1>5. /\ Cardinality(First(p, L \ {a}, w)) =
           IF a \in First(p, L, w) THEN Cardinality(First(p, L, w)) - 1 ELSE Cardinality(First(p, L, w))
      /\ Cardinality(Second(p, L \ {a}, w)) =
           IF a \in Second(p, L, w) THEN Cardinality(Second(p, L, w)) - 1 ELSE Cardinality(Second(p, L, w))
  BY <1>2, <1>4, FS_RemoveElement
<1>6. a \in First(p, L, w) <=> f.in1 = w
  BY DEF First
<1>7. a \in Second(p, L, w) <=> w # 0 /\ f.in2 = w
  BY DEF Second
<1>8. f.type \in TwoInputs => f.in2 # 0
  BY SoundGate
<1>9. Times(Operands(f), w) = (IF f.in1 = w THEN 1 ELSE 0)
                               + (IF f.type \in TwoInputs /\ f.in2 = w THEN 1 ELSE 0)
  BY TimesOne, TimesTwo DEF Operands
<1> HIDE DEF f
<1> QED
  BY <1>3, <1>5, <1>6, <1>7, <1>8, <1>9 DEF Still, f

\* A wire that a gate of L reads has a read to come.
LEMMA StillRead ==
  ASSUME NEW p, Sound(p), NEW L \in SUBSET Slots(p), NEW v \in L,
         NEW x \in Range(Operands(p[v + 1]))
  PROVE  Still(p, L, x) >= 1
<1>1. v \in Slots(p)
  OBVIOUS
<1>2. x = p[v + 1].in1 \/ (x = p[v + 1].in2 /\ p[v + 1].type \in TwoInputs)
  BY DEF Operands, Range
<1>3. Times(Operands(p[v + 1]), x) >= 1
  <2>1. Times(Operands(p[v + 1]), x) =
          (IF p[v + 1].in1 = x THEN 1 ELSE 0)
          + (IF p[v + 1].type \in TwoInputs /\ p[v + 1].in2 = x THEN 1 ELSE 0)
    BY TimesOne, TimesTwo DEF Operands
  <2> QED
    BY <1>2, <2>1
<1>4. Still(p, L \ {v}, x) \in Nat /\ Still(p, L, x) \in Nat
  <2>1. L \ {v} \in SUBSET L
    OBVIOUS
  <2> QED
    BY <2>1, StillLess
<1> QED
  BY <1>3, <1>4, StillRemoved

------------------------------------------------------------------------------
(* Freeing wires *)

\* No counter is below the reads to come of its wire ...
Counts(p, L, left) == \A w \in Slots(p) : left[w] \in Int /\ left[w] >= Still(p, L, w)

\* ... what is in D is there for those of L that read it ...
Held(p, x, ws) == 0 .. Cells(p[x + 1]) - 1 \subseteq DOMAIN ws[x]
Keeps(p, L, D, ws) ==
  \A v \in L : Computed(p[v + 1]) =>
    \A x \in Range(Operands(p[v + 1])) : x \in D => Held(p, x, ws)

\* ... and who overwrites its operand is the last to read it.
Overwrites(f) == f.type = "EQZ" /\ f.layer = 0
Alone(p, L, left) ==
  EqzAlone(p) => \A v \in L : Overwrites(p[v + 1]) => left[p[v + 1].in1] = 1

Finite(ws) == \A w \in DOMAIN ws : IsFiniteSet(DOMAIN ws[w])

\* update_wire, update_wires: the reads of gate a are taken off, or none.
Freed(p, read, left, left2, ws, ws2) ==
  /\ left2 = [w \in Slots(p) |-> left[w] - Times(read, w)]
  /\ ws2 = [w \in Slots(p) |-> IF Times(read, w) > 0 /\ left2[w] = 0 THEN NoVector ELSE ws[w]]

LEMMA ReleaseIsFreed ==
  ASSUME NEW read, NEW ws, Release(read, ws)
  PROVE  Freed(gates, read, waiting, waiting', ws, wires')
BY DEF Release, Freed, Times, Slots, Wire

\* The reads that a release takes off: those of a gate that has them to come.
TakenOff(p, L, K, read) ==
  \/ read = <<>>
  \/ \E a \in L : read = Operands(p[a + 1]) /\ a \notin K

LEMMA FreedCounts ==
  ASSUME NEW p, Sound(p), NEW L \in SUBSET Slots(p), NEW K \in SUBSET L,
         NEW read, TakenOff(p, L, K, read), NEW left, Counts(p, L, left),
         NEW w \in Slots(p)
  PROVE  /\ Times(read, w) \in Nat
         /\ left[w] - Times(read, w) \in Int
         /\ left[w] - Times(read, w) >= Still(p, K, w)
         /\ Still(p, K, w) \in Nat
<1>1. left[w] \in Int /\ left[w] >= Still(p, L, w)
  BY DEF Counts
<1>2. Still(p, L, w) \in Nat /\ Still(p, K, w) \in Nat /\ Still(p, K, w) <= Still(p, L, w)
  BY StillLess
<1>3. CASE read = <<>>
  BY <1>1, <1>2, <1>3, TimesNone
<1>4. CASE read # <<>>
  <2>1. PICK a \in L : read = Operands(p[a + 1]) /\ a \notin K
    BY <1>4 DEF TakenOff
  <2>2. Times(read, w) \in Nat /\ Still(p, L \ {a}, w) + Times(read, w) <= Still(p, L, w)
    BY <2>1, StillRemoved
  <2>3. K \in SUBSET (L \ {a}) /\ L \ {a} \in SUBSET Slots(p)
    BY <2>1
  <2>4. Still(p, L \ {a}, w) \in Nat /\ Still(p, K, w) <= Still(p, L \ {a}, w)
    BY <2>3, StillLess
  <2> QED
    BY <1>1, <1>2, <2>2, <2>4
<1> QED
  BY <1>3, <1>4

\* What is still to be read stays.
LEMMA FreedKeeps ==
  ASSUME NEW p, Sound(p), NEW L \in SUBSET Slots(p), NEW K \in SUBSET L, NEW D \in SUBSET Slots(p),
         NEW read, TakenOff(p, L, K, read), NEW left, Counts(p, L, left),
         NEW left2, NEW ws, NEW ws2, Freed(p, read, left, left2, ws, ws2),
         Keeps(p, K, D, ws)
  PROVE  Counts(p, K, left2) /\ Keeps(p, K, D, ws2)
<1>1. \A w \in Slots(p) : left2[w] = left[w] - Times(read, w)
  BY DEF Freed
<1>2. Counts(p, K, left2)
  <2> SUFFICES ASSUME NEW w \in Slots(p) PROVE left2[w] \in Int /\ left2[w] >= Still(p, K, w)
    BY DEF Counts
  <2>1. left[w] - Times(read, w) \in Int /\ left[w] - Times(read, w) >= Still(p, K, w)
    BY FreedCounts
  <2> QED
    BY <1>1, <2>1
<1>3. ASSUME NEW v \in K, Computed(p[v + 1]), NEW x \in Range(Operands(p[v + 1])), x \in D
      PROVE  Held(p, x, ws2)
  <2>1. Held(p, x, ws) /\ x \in Slots(p)
    BY <1>3 DEF Keeps
  <2>2. Still(p, K, x) >= 1 /\ Still(p, K, x) \in Nat
    <3>1. K \in SUBSET Slots(p)
      OBVIOUS
    <3> QED
      BY <2>1, <3>1, StillRead, FreedCounts
  <2>3. left2[x] \in Int /\ left2[x] >= Still(p, K, x)
    BY <1>2, <2>1 DEF Counts
  <2>4. left2[x] # 0
    BY <2>2, <2>3
  <2>5. ws2[x] = ws[x]
    BY <2>1, <2>4 DEF Freed
  <2> QED
    BY <2>1, <2>5 DEF Held
<1> QED
  BY <1>2, <1>3 DEF Keeps

LEMMA FreedAlone ==
  ASSUME NEW p, Sound(p), NEW L \in SUBSET Slots(p), NEW K \in SUBSET L,
         NEW read, TakenOff(p, L, K, read), NEW left, Counts(p, L, left), Alone(p, L, left),
         NEW left2, NEW ws, NEW ws2, Freed(p, read, left, left2, ws, ws2)
  PROVE  Alone(p, K, left2)
<1> SUFFICES ASSUME EqzAlone(p), NEW v \in K, Overwrites(p[v + 1])
             PROVE  left2[p[v + 1].in1] = 1
  BY DEF Alone
<1> DEFINE x == p[v + 1].in1
<1>1. v \in L /\ v \in Slots(p) /\ left[x] = 1
  BY DEF Alone
<1>2. v + 1 \in DOMAIN p /\ p[v + 1].type = "EQZ" /\ p[v + 1].layer = 0
      /\ Len(p) \in Nat /\ v \in Nat
  BY <1>1, SoundGate DEF Overwrites
<1>3. x \in Nat /\ x < v /\ x \in Slots(p)
  <2>1. x < (v + 1) - 1
    BY <1>2 DEF Sound, WellWired, Computed
  <2>2. x \in Nat
    BY <1>1, SoundGate
  <2> QED
    BY <1>1, <1>2, <2>1, <2>2 DEF Slots
<1>4. Times(read, x) = 0
  <2>1. CASE read = <<>>
    BY <2>1, TimesNone
  <2>2. CASE read # <<>>
    <3>1. PICK a \in L : read = Operands(p[a + 1]) /\ a \notin K
      BY <2>2 DEF TakenOff
    <3>2. a + 1 \in DOMAIN p /\ a \in Nat /\ a # v
      BY <3>1, SoundGate
    <3>3. p[a + 1].in2 # x /\ (a + 1 # v + 1 => p[a + 1].in1 # x)
      BY <1>2, <3>2 DEF EqzAlone
    <3>4. p[a + 1].in1 # x
      BY <1>2, <3>2, <3>3
    <3> HIDE DEF x
    <3> QED
      BY <3>1, <3>3, <3>4, TimesOne, TimesTwo DEF Operands
  <2> QED
    BY <2>1, <2>2
<1>5. left2[x] = left[x] - Times(read, x)
  BY <1>3 DEF Freed
<1> QED
  BY <1>1, <1>4, <1>5

LEMMA FreedFinite ==
  ASSUME NEW p, NEW read, NEW left, NEW left2, NEW ws, NEW ws2,
         Freed(p, read, left, left2, ws, ws2), Finite(ws), DOMAIN ws = Slots(p)
  PROVE  Finite(ws2) /\ DOMAIN ws2 = Slots(p)
<1>1. DOMAIN NoVector = {}
  BY DEF NoVector
<1>2. IsFiniteSet(DOMAIN NoVector)
  BY <1>1, FS_EmptySet
<1>3. ws2 = [w \in Slots(p) |-> IF Times(read, w) > 0 /\ left2[w] = 0 THEN NoVector ELSE ws[w]]
  BY DEF Freed
<1>4. DOMAIN ws2 = Slots(p) /\ \A w \in Slots(p) : ws2[w] = NoVector \/ ws2[w] = ws[w]
  BY <1>3
<1>5. \A w \in Slots(p) : IsFiniteSet(DOMAIN ws2[w])
  BY <1>2, <1>4 DEF Finite
<1> QED
  BY <1>4, <1>5 DEF Finite

------------------------------------------------------------------------------
(* The walk *)

LEMMA Smallest ==
  ASSUME NEW T \in SUBSET Nat, T # {}
  PROVE  \E m \in T : \A k \in T : m =< k
<1> DEFINE R == OpToRel(<, Nat)
<1>1. IsWellFoundedOn(R, Nat)
  BY NatLessThanWellFounded
<1>2. \E m \in T : \A k \in T : ~ (<<k, m>> \in R)
  BY <1>1, WFMin
<1>3. \A k, m \in Nat : k < m => <<k, m>> \in R
  BY DEF OpToRel
<1> HIDE DEF R
<1>4. PICK m \in T : \A k \in T : ~ (<<k, m>> \in R)
  BY <1>2
<1>5. ASSUME NEW k \in T PROVE m =< k
  <2>1. k \in Nat /\ m \in Nat /\ ~ (k < m)
    BY <1>3, <1>4
  <2> QED
    BY <2>1
<1> QED
  BY <1>4, <1>5

\* The next gate is one of the list from w on, and none of the list is between.
IsNext(S, w, n) == /\ n \in S \cup {End} /\ n \in Nat /\ w <= n /\ n <= End
                   /\ \A v \in S : ~ (w <= v /\ v < n)

LEMMA NextOne ==
  ASSUME Shape, NEW S \in SUBSET Wire, NEW w \in 0 .. End
  PROVE  IsNext(S, w, NextIn(S, w))
<1> DEFINE T == {v \in S : v >= w} \cup {End}
<1>0. Len(gates) \in Nat
  BY DEF Shape
<1>1. End \in Nat /\ T \in SUBSET Nat /\ T # {}
  <2>1. End \in Nat
    BY <1>0 DEF End
  <2>2. \A v \in S : v \in Nat
    BY <1>0 DEF Wire
  <2> HIDE DEF End
  <2> QED
    BY <2>1, <2>2
<1>2. \E m \in T : \A k \in T : m =< k
  BY <1>1, Smallest
<1>3. NextIn(S, w) \in T /\ \A k \in T : NextIn(S, w) =< k
  BY <1>2 DEF NextIn, Min
<1>4. w <= End /\ w \in Nat /\ \A v \in S : v \in Nat
  BY <1>1 DEF Wire
<1> QED
  BY <1>1, <1>3, <1>4 DEF IsNext

\* How far a gate is, in terms of its level.
Levelled == \A w \in Wire : w \in Nat /\ w < End /\ WireLevel(w) \in Nat /\ level[w + 1] = WireLevel(w)

LEMMA LevelledAlways ==
  ASSUME LevelInv, phase # "layering"
  PROVE  Levelled /\ End \in Nat /\ Wire = Slots(gates)
<1>1. Shape /\ Len(level) = Len(gates) /\ Len(gates) \in Nat
  BY DEF LevelInv, Final, Shape
<1>2. \A w \in Wire : w \in Nat /\ w < End
  BY <1>1 DEF Wire, End
<1>3. \A w \in Wire : WireLevel(w) \in Nat
  BY <1>1, <1>2, WireLevelType
<1>4. \A w \in Wire : level[w + 1] = WireLevel(w)
  BY <1>1, <1>2 DEF WireLevel, End
<1> QED
  BY <1>1, <1>2, <1>3, <1>4 DEF Levelled, End, Wire, Slots

LEMMA OnLevelIs ==
  ASSUME Levelled, NEW l
  PROVE  /\ OnLevel(l) \in SUBSET Wire /\ Senders(l) \in SUBSET Wire
         /\ \A w \in Wire : w \in OnLevel(l) <=> WireLevel(w) = l
         /\ \A w \in Wire : w \in Senders(l) <=> WireLevel(w) = l /\ GateOf(w).type \in Interactive
BY DEF Levelled, OnLevel, Senders

Done == {w \in Wire : HasWritten(w)}

Position ==
  /\ lay \in Nat
  /\ phase = "send" => at \in Senders(lay) \cup {End}
  /\ phase = "receive" => at \in OnLevel(lay) \cup {End}
  /\ phase = "done" => at = End

\* Nothing that the walk depends on changes but the place.
SameCircuit == gates' = gates /\ level' = level

LEMMA SameCircuitFacts ==
  ASSUME SameCircuit
  PROVE  /\ Wire' = Wire /\ End' = End
         /\ \A w : GateOf(w)' = GateOf(w) /\ WireLevel(w)' = WireLevel(w)
         /\ \A l : OnLevel(l)' = OnLevel(l) /\ Senders(l)' = Senders(l)
BY DEF SameCircuit, Wire, End, GateOf, WireLevel, OnLevel, Senders

LEMMA SendWalk ==
  ASSUME NEW a, a = at, Levelled, Shape, SameCircuit, Position, End \in Nat,
         phase = "send", at < End, phase' = "send", lay' = lay,
         at' = NextIn(Senders(lay), at + 1)
  PROVE  /\ a \in Senders(lay) /\ a \in Wire /\ a \in ToRead /\ a \notin Done
         /\ IsNext(Senders(lay), a + 1, at')
         /\ Position' /\ Done' \in SUBSET Done /\ ToRead' \in SUBSET ToRead
         /\ ReadsOnce(GateOf(a)) => a \notin ToRead'
<1>1. a \in Senders(lay) /\ a \in Wire /\ a \in Nat /\ WireLevel(a) = lay /\ lay \in Nat
  BY OnLevelIs DEF Position, Levelled
<1>2. IsNext(Senders(lay), a + 1, at')
  <2>1. a + 1 \in 0 .. End
    BY <1>1
  <2> QED
    BY <2>1, NextOne, OnLevelIs
<1>3. at' \in Senders(lay) \cup {End} /\ at' \in Nat /\ a + 1 <= at'
  BY <1>2 DEF IsNext
<1>4. Position'
  BY <1>1, <1>3, SameCircuitFacts DEF Position
<1>5. \A w \in Wire : w \in Nat /\ WireLevel(w) \in Nat
  BY DEF Levelled
<1>6. \A w : HasWritten(w)' <=> HasWritten(w)
  BY SameCircuitFacts DEF HasWritten
<1>7. \A w \in Wire : HasSent(w) => HasSent(w)'
  BY <1>1, <1>3, <1>5, SameCircuitFacts DEF HasSent
<1>8. HasSent(a)' /\ ~HasSent(a) /\ ~HasWritten(a)
  BY <1>1, <1>3, SameCircuitFacts DEF HasSent, HasWritten
<1>9. \A w : ReadsOnce(GateOf(w))' <=> ReadsOnce(GateOf(w))
  BY SameCircuitFacts DEF ReadsOnce
<1> QED
  BY <1>1, <1>2, <1>4, <1>6, <1>7, <1>8, <1>9, SameCircuitFacts DEF ToRead, Done

LEMMA ExchangeWalk ==
  ASSUME Levelled, Shape, SameCircuit, Position, End \in Nat,
         phase = "send", at = End, phase' = "receive", lay' = lay,
         at' = NextIn(OnLevel(lay), 0)
  PROVE  /\ IsNext(OnLevel(lay), 0, at')
         /\ Position' /\ Done' \in SUBSET Done /\ ToRead' \in SUBSET ToRead
<1>1. lay \in Nat
  BY DEF Position
<1>2. IsNext(OnLevel(lay), 0, at')
  <2>1. 0 \in 0 .. End
    OBVIOUS
  <2> QED
    BY <2>1, NextOne, OnLevelIs
<1>3. at' \in OnLevel(lay) \cup {End} /\ at' \in Nat /\ \A v \in OnLevel(lay) : ~ (0 <= v /\ v < at')
  BY <1>2 DEF IsNext
<1>4. Position'
  BY <1>1, <1>3, SameCircuitFacts DEF Position
<1>5. \A w \in Wire : w \in Nat /\ WireLevel(w) \in Nat
  BY DEF Levelled
<1>6. \A w \in Wire : HasWritten(w)' => HasWritten(w)
  BY <1>1, <1>3, <1>5, SameCircuitFacts, OnLevelIs DEF HasWritten
<1>7. \A w \in Wire : HasSent(w) => HasSent(w)'
  BY <1>1, <1>3, <1>5, SameCircuitFacts DEF HasSent
<1>8. \A w \in Wire : HasWritten(w) => HasWritten(w)'
  BY <1>1, <1>3, <1>5, SameCircuitFacts DEF HasWritten
<1>9. \A w : ReadsOnce(GateOf(w))' <=> ReadsOnce(GateOf(w))
  BY SameCircuitFacts DEF ReadsOnce
<1> QED
  BY <1>2, <1>4, <1>6, <1>7, <1>8, <1>9, SameCircuitFacts DEF ToRead, Done

LEMMA ReceiveWalk ==
  ASSUME NEW a, a = at, Levelled, Shape, SameCircuit, Position, End \in Nat,
         phase = "receive", at < End, phase' = "receive", lay' = lay,
         at' = NextIn(OnLevel(lay), at + 1)
  PROVE  /\ a \in OnLevel(lay) /\ a \in Wire /\ a \notin Done
         /\ IsNext(OnLevel(lay), a + 1, at')
         /\ Position' /\ Done' \in SUBSET (Done \cup {a}) /\ ToRead' \in SUBSET ToRead
         /\ ~ReadsOnce(GateOf(a)) => a \in ToRead /\ a \notin ToRead'
<1>1. a \in OnLevel(lay) /\ a \in Wire /\ a \in Nat /\ WireLevel(a) = lay /\ lay \in Nat
  BY OnLevelIs DEF Position, Levelled
<1>2. IsNext(OnLevel(lay), a + 1, at')
  <2>1. a + 1 \in 0 .. End
    BY <1>1
  <2> QED
    BY <2>1, NextOne, OnLevelIs
<1>3. at' \in OnLevel(lay) \cup {End} /\ at' \in Nat /\ a + 1 <= at'
      /\ \A v \in OnLevel(lay) : ~ (a + 1 <= v /\ v < at')
  BY <1>2 DEF IsNext
<1>4. Position'
  BY <1>1, <1>3, SameCircuitFacts DEF Position
<1>5. \A w \in Wire : w \in Nat /\ WireLevel(w) \in Nat
  BY DEF Levelled
<1>6. \A w \in Wire : HasWritten(w)' => HasWritten(w) \/ w = a
  <2> SUFFICES ASSUME NEW w \in Wire, HasWritten(w)', ~HasWritten(w) PROVE w = a
    OBVIOUS
  <2>1. WireLevel(w) = lay /\ w < at' /\ ~ (w < a) /\ w \in Nat
    BY <1>5, SameCircuitFacts DEF HasWritten
  <2>2. w \in OnLevel(lay)
    BY <2>1, OnLevelIs
  <2> QED
    BY <1>1, <1>3, <2>1, <2>2
<1>7. \A w \in Wire : HasSent(w) => HasSent(w)'
  BY <1>1, <1>3, <1>5, SameCircuitFacts DEF HasSent
<1>8. \A w \in Wire : HasWritten(w) => HasWritten(w)'
  BY <1>1, <1>3, <1>5, SameCircuitFacts DEF HasWritten
<1>9. HasWritten(a)' /\ ~HasWritten(a)
  BY <1>1, <1>3, SameCircuitFacts DEF HasWritten
<1>10. \A w : ReadsOnce(GateOf(w))' <=> ReadsOnce(GateOf(w))
  BY SameCircuitFacts DEF ReadsOnce
<1> QED
  BY <1>1, <1>2, <1>4, <1>6, <1>7, <1>8, <1>9, <1>10, SameCircuitFacts DEF ToRead, Done

LEMMA LevelWalk ==
  ASSUME Levelled, Shape, SameCircuit, Position, End \in Nat,
         phase = "receive", at = End,
         \/ phase' = "done" /\ lay' = lay /\ at' = at
         \/ phase' = "send" /\ lay' = lay + 1 /\ at' = NextIn(Senders(lay + 1), 0)
  PROVE  /\ phase' = "send" => IsNext(Senders(lay'), 0, at')
         /\ Position' /\ Done' \in SUBSET Done /\ ToRead' \in SUBSET ToRead
<1>1. lay \in Nat
  BY DEF Position
<1>2. \A w \in Wire : w \in Nat /\ WireLevel(w) \in Nat /\ w < End
  BY DEF Levelled
<1>3. phase' = "send" => IsNext(Senders(lay'), 0, at')
  <2>1. 0 \in 0 .. End
    OBVIOUS
  <2> QED
    BY <2>1, NextOne, OnLevelIs
<1>4. Position'
  BY <1>1, <1>3, SameCircuitFacts DEF Position, IsNext
<1>5. \A w \in Wire : HasWritten(w)' <=> HasWritten(w)
  BY <1>1, <1>2, SameCircuitFacts DEF HasWritten
<1>6. \A w \in Wire : HasSent(w) => HasSent(w)'
  BY <1>1, <1>2, SameCircuitFacts DEF HasSent
<1>7. \A w : ReadsOnce(GateOf(w))' <=> ReadsOnce(GateOf(w))
  BY SameCircuitFacts DEF ReadsOnce
<1> QED
  BY <1>3, <1>4, <1>5, <1>6, <1>7, SameCircuitFacts DEF ToRead, Done

------------------------------------------------------------------------------
(* What is opened *)

IsList(s) == \E S : s \in Seq(S)

LEMMA ListOf ==
  ASSUME NEW n \in Nat, NEW s, s = [j \in 1 .. n |-> s[j]]
  PROVE  IsList(s) /\ Len(s) = n
<1> DEFINE S == {s[j] : j \in 1 .. n}
<1>1. \A j \in 1 .. n : s[j] \in S
  OBVIOUS
<1> HIDE DEF S
<1>2. s \in [1 .. n -> S]
  BY <1>1
<1>3. s \in Seq(S)
  BY <1>2, SeqDef
<1>4. Len(s) = n
  BY <1>2, <1>3, LenProperties
<1> QED
  BY <1>3, <1>4 DEF IsList

LEMMA EmptyList == IsList(<<>>) /\ Len(<<>>) = 0
<1>1. <<>> \in Seq({})
  BY EmptySeq
<1> QED
  BY <1>1, EmptySeq DEF IsList

LEMMA ListLen == ASSUME NEW s, IsList(s) PROVE Len(s) \in Nat
<1>1. PICK S : s \in Seq(S)
  BY DEF IsList
<1> QED
  BY <1>1, LenProperties

LEMMA JoinLists ==
  ASSUME NEW s, NEW t, IsList(s), IsList(t)
  PROVE  IsList(s \o t) /\ Len(s \o t) = Len(s) + Len(t)
<1>1. PICK S : s \in Seq(S)
  BY DEF IsList
<1>2. PICK T : t \in Seq(T)
  BY DEF IsList
<1>3. PICK U : U = S \cup T
  OBVIOUS
<1>4. s \in Seq(U) /\ t \in Seq(U)
  BY <1>1, <1>2, <1>3, SeqMonotonic
<1>5. s \o t \in Seq(U) /\ Len(s \o t) = Len(s) + Len(t)
  BY <1>4, ConcatProperties
<1> QED
  BY <1>5 DEF IsList

LEMMA PlainList ==
  ASSUME NEW v, NEW k \in Nat
  PROVE  IsList(Plain(v, k)) /\ Len(Plain(v, k)) = k
<1> DEFINE s == Plain(v, k)
<1>1. s = [j \in 1 .. k |-> s[j]]
  BY DEF Plain
<1> HIDE DEF s
<1>2. IsList(s) /\ Len(s) = k
  BY <1>1, ListOf
<1> QED
  BY <1>2 DEF s

LEMMA InTurnList ==
  ASSUME NEW u, NEW v, NEW k \in Nat
  PROVE  IsList(InTurn(u, v, k)) /\ Len(InTurn(u, v, k)) = 2 * k
<1> DEFINE s == InTurn(u, v, k)
<1>1. PICK n \in Nat : n = 2 * k
  OBVIOUS
<1>2. s = [j \in 1 .. n |-> s[j]]
  BY <1>1 DEF InTurn
<1> HIDE DEF s
<1>3. IsList(s) /\ Len(s) = n
  BY <1>2, ListOf
<1> QED
  BY <1>1, <1>3 DEF s

\* A gate puts into its vector as many elements as it takes from it.
LEMMA MessageLength ==
  ASSUME NEW f, f.type \in Interactive, f.size \in Nat
  PROVE  /\ IsList(Message(f)) /\ Len(Message(f)) = OpenedCells(f)
         /\ OpenedCells(f) \in Nat /\ KindOf(f) \in Kinds
<1> DEFINE x == ReadBy(f)
<1>1. Size \in Nat /\ SentCells(f) \in Nat
  BY ConfAssumption DEF SentCells
<1>2. KindOf(f) \in Kinds
  BY DEF KindOf, Kinds
<1>3. CASE f.type \in {"Shuffle", "MergedShuffle", "Unshuffle", "Reveal"}
  <2>1. OpenedCells(f) = Size
    BY <1>3 DEF OpenedCells, KindOf
  <2>2. \E v : Message(f) = Plain(v, Size)
    <3>1. CASE f.type \in {"Shuffle", "MergedShuffle"}
      <4>1. Message(f) = Plain(Perms!Scatter(PermOf(f), x), Size)
        BY <3>1 DEF Message
      <4> QED  BY <4>1
    <3>2. CASE f.type = "Unshuffle"
      <4>1. Message(f) = Plain(Perms!Collect(PermOf(f), x), Size)
        BY <3>2 DEF Message
      <4> QED  BY <4>1
    <3>3. CASE f.type = "Reveal"
      <4>1. Message(f) = Plain(x, Size)
        BY <3>3 DEF Message
      <4> QED  BY <4>1
    <3> QED
      BY <1>3, <3>1, <3>2, <3>3
  <2> QED
    BY <1>1, <1>2, <2>1, <2>2, PlainList
<1>4. CASE f.type \in {"Compaction", "MulSIMD", "EQZ", "Bit2A"}
  <2>1. OpenedCells(f) = 2 * SentCells(f)
    BY <1>4 DEF OpenedCells, KindOf
  <2>2. \E u, v : Message(f) = InTurn(u, v, SentCells(f))
    <3>1. CASE f.type = "Compaction"
      <4>1. Message(f) = InTurn(x, Ones(x), Size) /\ SentCells(f) = Size
        BY <3>1 DEF Message, SentCells
      <4> QED  BY <4>1
    <3>2. CASE f.type = "MulSIMD"
      <4>1. Message(f) = InTurn(x, wires[f.in2], f.size) /\ SentCells(f) = f.size
        BY <3>2 DEF Message, SentCells
      <4> QED  BY <4>1
    <3>3. CASE f.type \in {"EQZ", "Bit2A"}
      <4>1. Message(f) = InTurn(x, x, f.size) /\ SentCells(f) = f.size
        BY <3>3 DEF Message, SentCells
      <4> QED  BY <4>1
    <3> QED
      BY <1>4, <3>1, <3>2, <3>3
  <2> QED
    BY <1>1, <1>2, <2>1, <2>2, InTurnList
<1> QED
  BY <1>3, <1>4 DEF Interactive

\* In off the shares h of the gates before n are added up: the gate of wire v
\* finds its elements behind off[v] others.
Spread(off, h, n) ==
  /\ off \in [Nat -> Nat] /\ off[0] = 0
  /\ \A v \in Nat : v < n => off[v + 1] = off[v] + h[v]
  /\ \A u, v \in Nat : u <= v => off[u] <= off[v]
  /\ \A u, v \in Nat :
       u <= v /\ v <= n /\ (\A w \in Nat : u <= w /\ w < v => h[w] = 0) => off[u] = off[v]

LEMMA SpreadStart ==
  ASSUME NEW h \in [Nat -> Nat], NEW n \in Nat, \A w \in Nat : w < n => h[w] = 0
  PROVE  \E off : Spread(off, h, n) /\ off[n] = 0
<1> DEFINE off == [v \in Nat |-> 0]
<1>1. off \in [Nat -> Nat] /\ \A v \in Nat : off[v] = 0
  OBVIOUS
<1> HIDE DEF off
<1>2. Spread(off, h, n) /\ off[n] = 0
  BY <1>1 DEF Spread
<1> QED
  BY <1>2

LEMMA SpreadNext ==
  ASSUME NEW h \in [Nat -> Nat], NEW off, NEW a \in Nat, NEW b \in Nat, Spread(off, h, a),
         a + 1 <= b, \A w \in Nat : a + 1 <= w /\ w < b => h[w] = 0
  PROVE  \E new : Spread(new, h, b) /\ new[b] = off[a] + h[a]
<1> DEFINE new == [v \in Nat |-> IF v <= a THEN off[v] ELSE off[a] + h[a]]
<1>1. /\ off \in [Nat -> Nat] /\ off[0] = 0
      /\ \A v \in Nat : v < a => off[v + 1] = off[v] + h[v]
      /\ \A u, v \in Nat : u <= v => off[u] <= off[v]
  BY DEF Spread
<1>2. off[a] \in Nat /\ h[a] \in Nat /\ \A v \in Nat : off[v] \in Nat /\ h[v] \in Nat
  BY <1>1
<1>3. \A v \in Nat : new[v] = IF v <= a THEN off[v] ELSE off[a] + h[a]
  OBVIOUS
<1>4. new \in [Nat -> Nat]
  BY <1>2
<1> HIDE DEF new
<1>5. new[0] = 0
  BY <1>1, <1>3
<1>6. ASSUME NEW v \in Nat, v < b PROVE new[v + 1] = new[v] + h[v]
  <2>1. CASE v < a
    <3>1. new[v] = off[v] /\ new[v + 1] = off[v + 1]
      BY <1>3, <2>1
    <3> QED
      BY <1>1, <2>1, <3>1
  <2>2. CASE v = a
    BY <1>3, <2>2
  <2>3. CASE a + 1 <= v
    <3>1. h[v] = 0 /\ new[v] = off[a] + h[a] /\ new[v + 1] = off[a] + h[a]
      BY <1>3, <1>6, <2>3
    <3> QED
      BY <1>2, <3>1
  <2> QED
    BY <2>1, <2>2, <2>3
<1>7. ASSUME NEW u \in Nat, NEW v \in Nat, u <= v PROVE new[u] <= new[v]
  <2>1. CASE v <= a
    <3>1. new[u] = off[u] /\ new[v] = off[v]
      BY <1>3, <1>7, <2>1
    <3> QED
      BY <1>1, <1>7, <3>1
  <2>2. CASE u <= a /\ ~ (v <= a)
    <3>1. off[u] <= off[a] /\ new[u] = off[u] /\ new[v] = off[a] + h[a]
      BY <1>1, <1>3, <2>2
    <3> QED
      BY <1>2, <3>1
  <2>3. CASE ~ (u <= a)
    <3>1. new[u] = off[a] + h[a] /\ new[v] = off[a] + h[a]
      BY <1>3, <1>7, <2>3
    <3> QED
      BY <1>2, <3>1
  <2> QED
    BY <1>7, <2>1, <2>2, <2>3
<1>8. ASSUME NEW u \in Nat, NEW v \in Nat, u <= v, v <= b,
             \A w \in Nat : u <= w /\ w < v => h[w] = 0
      PROVE  new[u] = new[v]
  <2>1. \A s, t \in Nat : s <= t /\ t <= a /\ (\A w \in Nat : s <= w /\ w < t => h[w] = 0)
                            => off[s] = off[t]
    BY DEF Spread
  <2>2. CASE v <= a
    <3>1. off[u] = off[v]
      BY <1>8, <2>1, <2>2
    <3> QED
      BY <1>3, <1>8, <2>2, <3>1
  <2>3. CASE u <= a /\ ~ (v <= a)
    <3>1. h[a] = 0 /\ \A w \in Nat : u <= w /\ w < a => h[w] = 0
      BY <1>8, <2>3
    <3>2. off[u] = off[a]
      BY <2>1, <2>3, <3>1
    <3>3. new[u] = off[u] /\ new[v] = off[a] + h[a]
      BY <1>3, <2>3
    <3> QED
      BY <1>2, <3>1, <3>2, <3>3
  <2>4. CASE ~ (u <= a)
    BY <1>3, <1>8, <2>4
  <2> QED
    BY <1>8, <2>2, <2>3, <2>4
<1>9. new[b] = off[a] + h[a]
  BY <1>3
<1>10. Spread(new, h, b)
  BY <1>4, <1>5, <1>6, <1>7, <1>8 DEF Spread
<1> QED
  BY <1>9, <1>10

\* The elements that the gate of wire v opens of a kind in level l.
Shares(k, l) ==
  [v \in Nat |-> IF v \in Senders(l) /\ KindOf(GateOf(v)) = k THEN OpenedCells(GateOf(v)) ELSE 0]

LEMMA SharesType ==
  ASSUME Sound(gates), Levelled, Wire = Slots(gates), NEW k, NEW l
  PROVE  /\ Shares(k, l) \in [Nat -> Nat]
         /\ \A v \in Nat : v \notin Senders(l) => Shares(k, l)[v] = 0
<1>1. ASSUME NEW v \in Senders(l) PROVE OpenedCells(GateOf(v)) \in Nat
  <2>1. v \in Slots(gates) /\ GateOf(v) = gates[v + 1] /\ GateOf(v).type \in Interactive
    BY DEF Senders, OnLevel, GateOf
  <2>2. GateOf(v).size \in Nat
    BY <2>1, SoundGate
  <2> QED
    BY <2>1, <2>2, MessageLength
<1> QED
  BY <1>1 DEF Shares

\* The cursor behind n elements of a vector that has m.
Wrap(n, m) == IF n = m THEN 0 ELSE n

\* In the send phase the vectors hold the elements of the gates so far.
SendOpened ==
  /\ vals = [k \in Kinds |-> vals[k]] /\ idx = [k \in Kinds |-> 0]
  /\ \A k \in Kinds :
       /\ IsList(vals[k])
       /\ \E off : Spread(off, Shares(k, lay), at) /\ Len(vals[k]) = off[at]

\* Then they are taken in the same order, with cursors that wrap to 0.
RecvOpened ==
  /\ vals = [k \in Kinds |-> vals[k]] /\ idx = [k \in Kinds |-> idx[k]]
  /\ \A k \in Kinds :
       /\ IsList(vals[k])
       /\ \E off : /\ Spread(off, Shares(k, lay), End) /\ Len(vals[k]) = off[End]
                   /\ idx[k] = Wrap(off[at], off[End])

Opening == (phase = "send" => SendOpened) /\ (phase = "receive" => RecvOpened)

LEMMA SameShares ==
  ASSUME SameCircuit
  PROVE  \A k, l : Shares(k, l)' = Shares(k, l)
<1>1. /\ \A l : Senders(l)' = Senders(l)
      /\ \A w : GateOf(w)' = GateOf(w)
  BY SameCircuitFacts
<1>2. \A w : KindOf(GateOf(w))' = KindOf(GateOf(w)) /\ OpenedCells(GateOf(w))' = OpenedCells(GateOf(w))
  BY <1>1 DEF KindOf, OpenedCells, SentCells
<1> QED
  BY <1>1, <1>2 DEF Shares

\* What one place of the walk gives all others.
Walking == /\ Sound(gates) /\ Levelled /\ Wire = Slots(gates) /\ End \in Nat /\ lay \in Nat

LEMMA OpenedAt ==
  ASSUME Walking, NEW a \in Senders(lay)
  PROVE  /\ a \in Wire /\ a \in Nat /\ a < End
         /\ LET f == GateOf(a) IN
              /\ IsList(Message(f)) /\ Len(Message(f)) = OpenedCells(f)
              /\ OpenedCells(f) \in Nat /\ KindOf(f) \in Kinds
              /\ \A k : Shares(k, lay)[a] = IF k = KindOf(f) THEN OpenedCells(f) ELSE 0
<1>1. a \in Wire /\ a \in Nat /\ a < End /\ GateOf(a).type \in Interactive
  BY DEF Walking, Senders, OnLevel, Levelled
<1>2. GateOf(a).size \in Nat
  BY <1>1, SoundGate DEF Walking, GateOf
<1>3. \A k : Shares(k, lay)[a] = IF k = KindOf(GateOf(a)) THEN OpenedCells(GateOf(a)) ELSE 0
  BY <1>1 DEF Shares
<1> QED
  BY <1>1, <1>2, <1>3, MessageLength

LEMMA SendOpenedStep ==
  ASSUME Walking, SameCircuit, lay' = lay, SendOpened, NEW a \in Senders(lay), a = at,
         IsNext(Senders(lay), a + 1, at'), idx' = idx,
         vals' = [vals EXCEPT ![KindOf(GateOf(a))] = @ \o Message(GateOf(a))]
  PROVE  SendOpened'
<1> DEFINE f == GateOf(a)
           m == Message(f)
<1>1. /\ a \in Nat /\ IsList(m) /\ Len(m) = OpenedCells(f) /\ KindOf(f) \in Kinds
      /\ \A k : Shares(k, lay)[a] = IF k = KindOf(f) THEN OpenedCells(f) ELSE 0
  BY OpenedAt
<1> HIDE DEF f, m
<1>2. vals' = [k \in Kinds |-> IF k = KindOf(f) THEN vals[k] \o m ELSE vals[k]]
  BY DEF SendOpened, f, m
<1>3. at' \in Nat /\ a + 1 <= at' /\ \A v \in Senders(lay) : ~ (a + 1 <= v /\ v < at')
  BY DEF IsNext
<1>4. ASSUME NEW k \in Kinds
      PROVE  /\ IsList(vals'[k])
             /\ \E off : Spread(off, Shares(k, lay), at') /\ Len(vals'[k]) = off[at']
  <2>1. IsList(vals[k]) /\ Len(vals[k]) \in Nat
    BY ListLen DEF SendOpened
  <2>2. PICK off : Spread(off, Shares(k, lay), a) /\ Len(vals[k]) = off[a]
    BY DEF SendOpened
  <2>3. Shares(k, lay) \in [Nat -> Nat] /\ \A v \in Nat : v \notin Senders(lay) => Shares(k, lay)[v] = 0
    BY SharesType DEF Walking
  <2>4. \A w \in Nat : a + 1 <= w /\ w < at' => Shares(k, lay)[w] = 0
    BY <1>3, <2>3
  <2>5. PICK b \in Nat : b = at'
    BY <1>3
  <2>6. \E new : Spread(new, Shares(k, lay), b) /\ new[b] = off[a] + Shares(k, lay)[a]
    BY <1>1, <1>3, <2>2, <2>3, <2>4, <2>5, SpreadNext
  <2>7. IsList(vals'[k]) /\ Len(vals'[k]) = Len(vals[k]) + Shares(k, lay)[a]
    <3>1. CASE k = KindOf(f)
      <4>1. vals'[k] = vals[k] \o m
        BY <1>2, <3>1
      <4>2. IsList(vals[k] \o m) /\ Len(vals[k] \o m) = Len(vals[k]) + Len(m)
        BY <1>1, <2>1, JoinLists
      <4>3. Len(m) = Shares(k, lay)[a]
        BY <1>1, <3>1
      <4> QED
        BY <4>1, <4>2, <4>3
    <3>2. CASE k # KindOf(f)
      <4>1. vals'[k] = vals[k] /\ Shares(k, lay)[a] = 0
        BY <1>1, <1>2, <3>2
      <4>2. IsList(vals'[k])
        BY <2>1, <4>1, Zenon
      <4>3. Len(vals'[k]) = Len(vals[k]) + Shares(k, lay)[a]
        <5>1. PICK n \in Nat : n = Len(vals[k])
          BY <2>1
        <5>2. Len(vals'[k]) = n
          BY <4>1, <5>1, Zenon
        <5>3. n = n + 0
          OBVIOUS
        <5> QED
          BY ONLY <4>1, <5>1, <5>2, <5>3, Zenon
      <4> QED
        BY <4>2, <4>3
    <3> QED
      BY <3>1, <3>2
  <2> QED
    BY <2>2, <2>5, <2>6, <2>7
<1>5. vals' = [k \in Kinds |-> vals'[k]] /\ idx' = [k \in Kinds |-> 0]
  BY <1>2 DEF SendOpened
<1>6. \A k : Shares(k, lay)' = Shares(k, lay)
  <2>1. PICK l : l = lay
    OBVIOUS
  <2>2. \A k : Shares(k, l)' = Shares(k, l)
    BY SameShares
  <2>3. \A k : Shares(k, lay)' = Shares(k, l)'
    BY <2>1
  <2> QED
    BY <2>1, <2>2, <2>3
<1>7. \A k \in Kinds :
        /\ IsList(vals'[k])
        /\ \E off : Spread(off, Shares(k, lay)', at') /\ Len(vals'[k]) = off[at']
  BY <1>4, <1>6
<1>8. \A k : IsList(vals[k])' <=> IsList(vals'[k])
  BY DEF IsList
<1>9. \A off, k : Spread(off, Shares(k, lay), at)' <=> Spread(off, Shares(k, lay)', at')
  BY DEF Spread
<1> QED
  BY <1>5, <1>7, <1>8, <1>9 DEF SendOpened

LEMMA WrapNext ==
  ASSUME NEW n \in Nat, NEW m \in Nat, NEW k \in Nat, n + k <= m
  PROVE  /\ Wrap(n, m) + k <= m
         /\ Wrap(n + k, m) = IF Wrap(n, m) + k >= m THEN 0 ELSE Wrap(n, m) + k
         /\ Wrap(n, m) \in Nat /\ Wrap(m, m) = 0
         /\ n <= m => Wrap(0, m) = 0
BY DEF Wrap

LEMMA ExchangeOpened ==
  ASSUME Walking, SameCircuit, lay' = lay, SendOpened, at = End,
         IsNext(OnLevel(lay), 0, at'), idx' = idx, vals' = vals
  PROVE  RecvOpened'
<1>1. at' \in Nat /\ at' <= End /\ \A v \in OnLevel(lay) : ~ (0 <= v /\ v < at')
  BY DEF IsNext
<1>2. ASSUME NEW k \in Kinds
      PROVE  /\ IsList(vals'[k])
             /\ \E off : /\ Spread(off, Shares(k, lay), End) /\ Len(vals'[k]) = off[End]
                         /\ idx'[k] = Wrap(off[at'], off[End])
  <2>1. PICK off : Spread(off, Shares(k, lay), End) /\ Len(vals[k]) = off[End]
    BY DEF SendOpened
  <2>2. Shares(k, lay) \in [Nat -> Nat] /\ \A v \in Nat : v \notin Senders(lay) => Shares(k, lay)[v] = 0
    BY SharesType DEF Walking
  <2>3. \A w \in Nat : 0 <= w /\ w < at' => Shares(k, lay)[w] = 0
    BY <1>1, <2>2 DEF Senders
  <2>4. off[0] = 0 /\ off[0] = off[at'] /\ off[End] \in Nat
    BY <1>1, <2>1, <2>3 DEF Spread, Walking
  <2>5. Wrap(off[at'], off[End]) = 0
    BY <2>4 DEF Wrap
  <2> QED
    BY <2>1, <2>5 DEF SendOpened
<1>3. vals' = [k \in Kinds |-> vals'[k]] /\ idx' = [k \in Kinds |-> idx'[k]]
  BY DEF SendOpened
<1>4. \A k : Shares(k, lay)' = Shares(k, lay)
  <2>1. PICK l : l = lay
    OBVIOUS
  <2>2. \A k : Shares(k, l)' = Shares(k, l)
    BY SameShares
  <2>3. \A k : Shares(k, lay)' = Shares(k, l)'
    BY <2>1
  <2> QED
    BY <2>1, <2>2, <2>3
<1>5. End' = End
  BY SameCircuitFacts
<1>6. \A k : IsList(vals[k])' <=> IsList(vals'[k])
  BY DEF IsList
<1>7. \A off, k : Spread(off, Shares(k, lay), End)' <=> Spread(off, Shares(k, lay)', End')
  BY DEF Spread
<1>8. \A off : Wrap(off[at], off[End])' = Wrap(off[at'], off[End'])
  BY DEF Wrap
<1> QED
  BY <1>2, <1>3, <1>4, <1>5, <1>6, <1>7, <1>8 DEF RecvOpened

\* What a gate takes is there.
LEMMA OpenedThere ==
  ASSUME Walking, RecvOpened, NEW a \in Senders(lay), a = at
  PROVE  LET f == GateOf(a) IN
           /\ KindOf(f) \in Kinds /\ OpenedCells(f) \in Nat
           /\ idx[KindOf(f)] \in Nat /\ Len(vals[KindOf(f)]) \in Nat
           /\ idx[KindOf(f)] + OpenedCells(f) <= Len(vals[KindOf(f)])
<1> DEFINE f == GateOf(a)
           k == KindOf(f)
<1>1. /\ a \in Nat /\ a < End /\ OpenedCells(f) \in Nat /\ k \in Kinds
      /\ Shares(k, lay)[a] = OpenedCells(f)
  BY OpenedAt
<1> HIDE DEF f, k
<1>2. PICK off : /\ Spread(off, Shares(k, lay), End) /\ Len(vals[k]) = off[End]
                 /\ idx[k] = Wrap(off[a], off[End])
  BY <1>1 DEF RecvOpened
<1>3. /\ off[a + 1] = off[a] + OpenedCells(f) /\ off[a + 1] <= off[End]
      /\ off[a] \in Nat /\ off[End] \in Nat
  <2>1. a + 1 \in Nat /\ a + 1 <= End /\ End \in Nat
    BY <1>1 DEF Walking
  <2> QED
    BY <1>1, <1>2, <2>1 DEF Spread
<1>4. off[a] + OpenedCells(f) <= off[End]
  BY <1>3
<1>5. idx[k] + OpenedCells(f) <= Len(vals[k]) /\ idx[k] \in Nat /\ Len(vals[k]) \in Nat
  <2>1. PICK n \in Nat, m \in Nat, d \in Nat : n = off[a] /\ m = off[End] /\ d = OpenedCells(f)
    BY <1>1, <1>3
  <2>2. Wrap(n, m) + d <= m /\ Wrap(n, m) \in Nat
    BY <1>4, <2>1, WrapNext
  <2> QED
    BY <1>2, <2>1, <2>2
<1> QED
  BY <1>1, <1>5 DEF f, k

\* Every cursor moves by the share of the gate that is handled.
CursorsMove(h, i, i2, m) ==
  IF h = 0 THEN i2 = i \/ (i2 = IF i >= m THEN 0 ELSE i) ELSE i2 = IF i + h >= m THEN 0 ELSE i + h

LEMMA RecvOpenedStep ==
  ASSUME Walking, SameCircuit, lay' = lay, RecvOpened, NEW a \in OnLevel(lay), a = at,
         IsNext(OnLevel(lay), a + 1, at'), vals' = vals,
         idx' = [k \in Kinds |-> idx'[k]],
         \A k \in Kinds : CursorsMove(Shares(k, lay)[a], idx[k], idx'[k], Len(vals[k]))
  PROVE  RecvOpened'
<1>0. a \in Nat /\ a < End /\ a + 1 \in Nat
  BY DEF Walking, OnLevel, Levelled
<1>1. at' \in Nat /\ a + 1 <= at' /\ at' <= End /\ \A v \in OnLevel(lay) : ~ (a + 1 <= v /\ v < at')
  BY DEF IsNext
<1>2. ASSUME NEW k \in Kinds
      PROVE  /\ IsList(vals'[k])
             /\ \E off : /\ Spread(off, Shares(k, lay), End) /\ Len(vals'[k]) = off[End]
                         /\ idx'[k] = Wrap(off[at'], off[End])
  <2>1. PICK off : /\ Spread(off, Shares(k, lay), End) /\ Len(vals[k]) = off[End]
                   /\ idx[k] = Wrap(off[a], off[End])
    BY DEF RecvOpened
  <2>2. PICK h : h = Shares(k, lay)
    OBVIOUS
  <2>3. h \in [Nat -> Nat] /\ \A v \in Nat : v \notin Senders(lay) => h[v] = 0
    BY <2>2, SharesType DEF Walking
  <2>4. \A w \in Nat : a + 1 <= w /\ w < at' => h[w] = 0
    BY <1>1, <2>3 DEF Senders
  <2>5. off[a + 1] = off[at'] /\ off[a + 1] = off[a] + h[a]
    BY <1>0, <1>1, <2>1, <2>2, <2>4 DEF Spread
  <2>6. off[a + 1] <= off[End] /\ off[a] \in Nat /\ off[End] \in Nat /\ h[a] \in Nat
    BY <1>0, <2>1, <2>3 DEF Spread, Walking
  <2>7. PICK n \in Nat, m \in Nat, d \in Nat : n = off[a] /\ m = off[End] /\ d = h[a]
    BY <2>6
  <2>8. n + d <= m
    BY <2>5, <2>6, <2>7
  <2>9. CursorsMove(d, Wrap(n, m), idx'[k], m)
    BY <2>1, <2>2, <2>7
  <2>10. idx'[k] = Wrap(n + d, m)
    BY <2>8, <2>9 DEF CursorsMove, Wrap
  <2>11. off[at'] = n + d
    BY <2>5, <2>7
  <2> QED
    BY <2>1, <2>7, <2>10, <2>11 DEF RecvOpened
<1>3. vals' = [k \in Kinds |-> vals'[k]] /\ idx' = [k \in Kinds |-> idx'[k]]
  BY DEF RecvOpened
<1>4. \A k : Shares(k, lay)' = Shares(k, lay)
  <2>1. PICK l : l = lay
    OBVIOUS
  <2>2. \A k : Shares(k, l)' = Shares(k, l)
    BY SameShares
  <2>3. \A k : Shares(k, lay)' = Shares(k, l)'
    BY <2>1
  <2> QED
    BY <2>1, <2>2, <2>3
<1>5. End' = End
  BY SameCircuitFacts
<1>6. \A k : IsList(vals[k])' <=> IsList(vals'[k])
  BY DEF IsList
<1>7. \A off, k : Spread(off, Shares(k, lay), End)' <=> Spread(off, Shares(k, lay)', End')
  BY DEF Spread
<1>8. \A off : Wrap(off[at], off[End])' = Wrap(off[at'], off[End'])
  BY DEF Wrap
<1> QED
  BY <1>2, <1>3, <1>4, <1>5, <1>6, <1>7, <1>8 DEF RecvOpened

LEMMA OpenedAnew ==
  ASSUME Sound(gates), Levelled, Wire = Slots(gates), SameCircuit,
         IsNext(Senders(lay'), 0, at'),
         vals' = [k \in Kinds |-> <<>>], idx' = [k \in Kinds |-> 0]
  PROVE  SendOpened'
<1>1. PICK l : l = lay'
  OBVIOUS
<1>2. at' \in Nat /\ \A v \in Senders(l) : ~ (0 <= v /\ v < at')
  BY <1>1 DEF IsNext
<1>3. ASSUME NEW k \in Kinds
      PROVE  /\ IsList(vals'[k])
             /\ \E off : Spread(off, Shares(k, l), at') /\ Len(vals'[k]) = off[at']
  <2>1. Shares(k, l) \in [Nat -> Nat] /\ \A v \in Nat : v \notin Senders(l) => Shares(k, l)[v] = 0
    BY SharesType
  <2>2. \A w \in Nat : w < at' => Shares(k, l)[w] = 0
    BY <1>2, <2>1
  <2>3. PICK n \in Nat : n = at'
    BY <1>2
  <2>4. \E off : Spread(off, Shares(k, l), n) /\ off[n] = 0
    BY <2>1, <2>2, <2>3, SpreadStart
  <2>5. vals'[k] = <<>>
    OBVIOUS
  <2>6. IsList(vals'[k]) /\ Len(vals'[k]) = 0
    BY <2>5, EmptyList
  <2> QED
    BY <2>3, <2>4, <2>6
<1>4. \A k : Shares(k, l)' = Shares(k, l)
  BY SameShares
<1>5. \A k : Shares(k, lay)' = Shares(k, l)'
  BY <1>1
<1>6. \A k : IsList(vals[k])' <=> IsList(vals'[k])
  BY DEF IsList
<1>7. \A off, k : Spread(off, Shares(k, lay), at)' <=> Spread(off, Shares(k, lay)', at')
  BY DEF Spread
<1>8. vals' = [k \in Kinds |-> vals'[k]]
  OBVIOUS
<1> QED
  BY <1>3, <1>4, <1>5, <1>6, <1>7, <1>8 DEF SendOpened

------------------------------------------------------------------------------
(* The invariant *)

Vectors ==
  /\ DOMAIN wires = Wire /\ Finite(wires)
  /\ Counts(gates, ToRead, waiting)
  /\ Keeps(gates, ToRead, Done, wires)
  /\ Alone(gates, ToRead, waiting)

\* What a step that frees nothing keeps.
LEMMA QuietVectors ==
  ASSUME Sound(gates), Wire = Slots(gates), SameCircuit, Vectors,
         ToRead' \in SUBSET ToRead, Done' \in SUBSET Done,
         wires' = wires, waiting' = waiting
  PROVE  Vectors'
<1>1. PICK p : p = gates
  OBVIOUS
<1>2. p = gates' /\ Wire' = Wire /\ Sound(p) /\ Wire = Slots(p)
  BY <1>1, SameCircuitFacts DEF SameCircuit
<1>3. PICK K : K = ToRead'
  OBVIOUS
<1>4. ToRead \in SUBSET Slots(p) /\ K \in SUBSET ToRead
  BY <1>2, <1>3 DEF ToRead
<1>5. Counts(p, K, waiting)
  <2> SUFFICES ASSUME NEW w \in Slots(p) PROVE waiting[w] \in Int /\ waiting[w] >= Still(p, K, w)
    BY DEF Counts
  <2>1. waiting[w] \in Int /\ waiting[w] >= Still(p, ToRead, w)
    BY <1>1 DEF Vectors, Counts
  <2>2. Still(p, ToRead, w) \in Nat /\ Still(p, K, w) \in Nat /\ Still(p, K, w) <= Still(p, ToRead, w)
    BY <1>2, <1>4, StillLess
  <2> QED
    BY <2>1, <2>2
<1>6. Keeps(p, K, Done', wires)
  BY <1>1, <1>4 DEF Vectors, Keeps
<1>7. Alone(p, K, waiting)
  BY <1>1, <1>4 DEF Vectors, Alone
<1>8. /\ Counts(gates, ToRead, waiting)' <=> Counts(gates', ToRead', waiting')
      /\ Keeps(gates, ToRead, Done, wires)' <=> Keeps(gates', ToRead', Done', wires')
      /\ Alone(gates, ToRead, waiting)' <=> Alone(gates', ToRead', waiting')
      /\ Finite(wires)' <=> Finite(wires')
  BY DEF Counts, Keeps, Alone, Finite
<1> QED
  BY <1>1, <1>2, <1>3, <1>5, <1>6, <1>7, <1>8 DEF Vectors

\* What one does that handles gate a, frees what it has read and leaves ws
\* on the other wires.
LEMMA HandledVectors ==
  ASSUME Sound(gates), Wire = Slots(gates), SameCircuit, Vectors, NEW a \in Wire, a \notin Done,
         ToRead' \in SUBSET ToRead,
         NEW read, NEW ws, Release(read, ws),
         \/ read = <<>>
         \/ read = Operands(GateOf(a)) /\ a \in ToRead /\ a \notin ToRead',
         DOMAIN ws = Wire, Finite(ws), \A x \in Done : DOMAIN ws[x] = DOMAIN wires[x],
         \/ Done' \in SUBSET Done
         \/ /\ Done' \in SUBSET (Done \cup {a})
            /\ GateOf(a).type = "Output" \/ Held(gates, a, ws)
  PROVE  Vectors'
<1>1. PICK p : p = gates
  OBVIOUS
<1>2. p = gates' /\ Wire' = Wire /\ Sound(p) /\ Wire = Slots(p)
  BY <1>1, SameCircuitFacts DEF SameCircuit
<1>3. PICK K, D : K = ToRead' /\ D = Done'
  OBVIOUS
<1>4. /\ ToRead \in SUBSET Slots(p) /\ K \in SUBSET ToRead
      /\ D \in SUBSET Slots(p)
  BY <1>2, <1>3 DEF ToRead, Done
<1>5. Freed(p, read, waiting, waiting', ws, wires')
  BY <1>1, ReleaseIsFreed
<1>6. TakenOff(p, ToRead, K, read)
  BY <1>1, <1>3 DEF TakenOff, GateOf
<1>7. Counts(p, ToRead, waiting) /\ Alone(p, ToRead, waiting)
  BY <1>1 DEF Vectors
<1>8. Keeps(p, K, D, ws)
  <2> SUFFICES ASSUME NEW v \in K, Computed(p[v + 1]), NEW x \in Range(Operands(p[v + 1])), x \in D
               PROVE  Held(p, x, ws)
    BY DEF Keeps
  <2>1. CASE x \in Done
    <3>1. Held(p, x, wires)
      BY <1>1, <1>4, <2>1 DEF Vectors, Keeps
    <3> QED
      BY <2>1, <3>1 DEF Held
  <2>2. CASE x \notin Done
    <3>1. x = a /\ (GateOf(a).type = "Output" \/ Held(p, a, ws))
      BY <1>1, <1>3, <2>2
    <3>2. p[x + 1].type # "Output"
      <4>1. v \in Slots(p)
        BY <1>4
      <4>2. v + 1 \in DOMAIN p
        BY <1>2, <4>1, SoundGate
      <4>3. x \in {p[v + 1].in1, p[v + 1].in2}
        BY DEF Operands, Range
      <4> QED
        BY <1>2, <4>2, <4>3 DEF Sound, WellWired
    <3> QED
      BY <1>1, <3>1, <3>2 DEF GateOf
  <2> QED
    BY <2>1, <2>2
<1>9. Counts(p, K, waiting') /\ Keeps(p, K, D, wires')
  BY <1>2, <1>4, <1>5, <1>6, <1>7, <1>8, FreedKeeps
<1>10. Alone(p, K, waiting')
  BY <1>2, <1>4, <1>5, <1>6, <1>7, FreedAlone
<1>11. Finite(wires') /\ DOMAIN wires' = Slots(p)
  BY <1>2, <1>5, FreedFinite
<1>12. /\ Counts(gates, ToRead, waiting)' <=> Counts(gates', ToRead', waiting')
       /\ Keeps(gates, ToRead, Done, wires)' <=> Keeps(gates', ToRead', Done', wires')
       /\ Alone(gates, ToRead, waiting)' <=> Alone(gates', ToRead', waiting')
       /\ Finite(wires)' <=> Finite(wires')
  BY DEF Counts, Keeps, Alone, Finite
<1> QED
  BY <1>2, <1>3, <1>9, <1>10, <1>11, <1>12 DEF Vectors

Before ==
  /\ lay = 0 /\ wires = [w \in Wire |-> NoVector]
  /\ vals = [k \in Kinds |-> <<>>] /\ idx = [k \in Kinds |-> 0]

\* The reads that neither level_order nor init_waiting provides for: the
\* columns of a ColumnSumsToNodes, and a place named by a position.
UncountedRead ==
  /\ at < End
  /\ LET f == GateOf(at) IN
       \/ f.type = "ColumnSumsToNodes"
       \/ /\ f.type \in {"Permute", "ReversePermute"}
          /\ Holds(f.in1, Size) /\ Holds(f.in2, Size)
          /\ \E i \in Cell : wires[f.in2][i] \notin Cell

EvalInv ==
  /\ LevelInv /\ Sound(gates) /\ conf \in DOMAIN Programs /\ gates = Programs[conf]
  /\ phase \in {"layering", "built", "send", "receive", "done", "undefined"}
  /\ phase \in {"layering", "built"} => Before
  /\ phase \in {"send", "receive", "done"} => Position /\ Opening /\ Vectors
  /\ phase = "undefined" => UncountedRead

LEMMA InvFacts ==
  ASSUME EvalInv, phase \in {"built", "send", "receive", "done"}
  PROVE  /\ Shape /\ Levelled /\ Wire = Slots(gates) /\ End \in Nat /\ Sound(gates)
         /\ phase # "built" => Walking /\ Position /\ Opening /\ Vectors
<1>1. LevelInv /\ Sound(gates) /\ phase # "layering"
  BY DEF EvalInv
<1>2. Levelled /\ Wire = Slots(gates) /\ End \in Nat
  BY <1>1, LevelledAlways
<1>3. phase # "built" => Position /\ Opening /\ Vectors /\ lay \in Nat
  BY DEF EvalInv, Position
<1> QED
  BY <1>1, <1>2, <1>3 DEF Walking, LevelInv

LEMMA InvKept ==
  ASSUME EvalInv, LevelInv', SameCircuit, conf' = conf,
         phase' \in {"send", "receive", "done"}, Position', Opening', Vectors'
  PROVE  EvalInv'
<1>1. Sound(gates)' /\ (conf \in DOMAIN Programs)' /\ (gates = Programs[conf])'
  BY DEF EvalInv, SameCircuit, Sound, WellWired, Fitting, Computed, Operands, SentCells, Cells
<1> QED
  BY <1>1 DEF EvalInv

LEMMA InvLost ==
  ASSUME EvalInv, LevelInv', Undefined, UncountedRead
  PROVE  EvalInv'
<1>1. /\ SameCircuit /\ conf' = conf /\ at' = at /\ wires' = wires /\ phase' = "undefined"
  BY DEF Undefined, SameCircuit
<1>2. Sound(gates)' /\ (conf \in DOMAIN Programs)' /\ (gates = Programs[conf])'
  BY <1>1 DEF EvalInv, SameCircuit, Sound, WellWired, Fitting, Computed, Operands, SentCells, Cells
<1>3. UncountedRead'
  BY <1>1 DEF UncountedRead, SameCircuit, End, GateOf, Holds
<1> QED
  BY <1>1, <1>2, <1>3 DEF EvalInv

\* The gate that is handled finds its operands.
LEMMA OperandsHeld ==
  ASSUME EvalInv, phase \in {"send", "receive"}, NEW a \in Wire, a = at, a \in ToRead,
         WireLevel(a) = lay, Computed(GateOf(a)),
         phase = "send" => GateOf(a).type \in Interactive,
         NEW x \in Range(Operands(GateOf(a)))
  PROVE  /\ x \in Wire /\ x \in Done /\ x # a
         /\ Holds(x, SentCells(GateOf(a))) /\ Held(gates, x, wires)
<1>1. /\ Shape /\ Levelled /\ Wire = Slots(gates) /\ End \in Nat /\ Sound(gates)
      /\ Vectors /\ lay \in Nat /\ Final
  BY InvFacts DEF Walking, EvalInv, LevelInv
<1>2. a \in Nat /\ a < Len(gates)
  BY <1>1 DEF Levelled, End
<1>3. x \in {GateOf(a).in1, GateOf(a).in2}
  BY DEF Operands, Range
<1>4. x \in Nat /\ x < a
  BY <1>1, <1>2, <1>3, Wired
<1>5. x \in Wire /\ x + 1 \in DOMAIN gates
  BY <1>1, <1>2, <1>4 DEF Wire, Shape
<1>6. Ready(x, a)
  BY <1>1, <1>2, <1>3 DEF Final, Placed
<1>7. x \in Done
  <2>1. WireLevel(x) \in Nat
    BY <1>1, <1>5 DEF Levelled
  <2>2. IF GateOf(a).type \in Interactive THEN WireLevel(x) < lay ELSE WireLevel(x) <= lay
    BY <1>6 DEF Ready
  <2>3. HasWritten(x)
    BY <1>1, <1>4, <2>1, <2>2 DEF HasWritten
  <2> QED
    BY <1>5, <2>3 DEF Done
<1>8. Held(gates, x, wires)
  BY <1>1, <1>7 DEF Vectors, Keeps, GateOf
<1>9. SentCells(GateOf(a)) <= Cells(gates[x + 1])
  <2>1. a + 1 \in DOMAIN gates /\ GateOf(a) = gates[a + 1]
    BY <1>1, <1>2 DEF Shape, GateOf
  <2> QED
    BY <1>1, <2>1 DEF Sound, Fitting
<1>10. SentCells(GateOf(a)) \in Int /\ Cells(gates[x + 1]) \in Int
  <2>1. GateOf(a).size \in Nat
    BY <1>1, SoundGate DEF GateOf
  <2> QED
    BY <2>1, ConfAssumption DEF SentCells, Cells
<1>11. 0 .. SentCells(GateOf(a)) - 1 \subseteq 0 .. Cells(gates[x + 1]) - 1
  BY <1>9, <1>10
<1> QED
  BY <1>4, <1>2, <1>5, <1>7, <1>8, <1>11 DEF Held, Holds

LEMMA CellVector ==
  ASSUME NEW v, DOMAIN v = Cell, NEW f
  PROVE  0 .. Cells(f) - 1 \subseteq DOMAIN v /\ IsFiniteSet(DOMAIN v)
<1>1. Size \in Nat /\ Size - 1 \in Int
  BY ConfAssumption
<1>2. IsFiniteSet(0 .. Size - 1)
  BY <1>1, FS_Interval
<1> QED
  BY <1>1, <1>2 DEF Cells, Cell

------------------------------------------------------------------------------
(* The steps *)

LEMMA InitInv == ASSUME Init PROVE EvalInv
<1>1. LevelInv
  BY LevelInit
<1>2. conf \in DOMAIN Programs /\ gates = Programs[conf] /\ phase = "layering"
  BY DEF Init
<1>3. Sound(gates)
  BY <1>2, ProgramsAssumption, FittingAssumption DEF Sound
<1>4. Before
  BY DEF Init, Before
<1> QED
  BY <1>1, <1>2, <1>3, <1>4 DEF EvalInv

LEMMA BuildStep == ASSUME EvalInv, LevelInv', AssignLevel \/ PlaceOutputs PROVE EvalInv'
<1>1. /\ gates' = gates /\ conf' = conf /\ lay' = lay /\ wires' = wires /\ vals' = vals /\ idx' = idx
      /\ phase \in {"layering", "built"} /\ phase' \in {"layering", "built"}
  BY DEF AssignLevel, PlaceOutputs
<1>2. Sound(gates)' /\ (conf \in DOMAIN Programs)' /\ (gates = Programs[conf])'
  BY <1>1 DEF EvalInv, Sound, WellWired, Fitting, Computed, Operands, SentCells, Cells
<1>3. Wire' = Wire
  BY <1>1 DEF Wire
<1>4. Before'
  BY <1>1, <1>3 DEF EvalInv, Before
<1> QED
  BY <1>1, <1>2, <1>4 DEF EvalInv

\* The count of init_waiting is the number of reads of all gates.
LEMMA StartCounts ==
  ASSUME NEW p, Sound(p), p = gates, Wire = Slots(p), NEW K \in SUBSET Slots(p), NEW left,
         left = [w \in Wire |-> Readers(w)]
  PROVE  Counts(p, K, left)
<1> SUFFICES ASSUME NEW w \in Slots(p) PROVE left[w] \in Int /\ left[w] >= Still(p, K, w)
  BY DEF Counts
<1>1. left[w] = Still(p, Slots(p), w)
  BY DEF Readers, Still, First, Second, GateOf
<1>2. Slots(p) \in SUBSET Slots(p)
  OBVIOUS
<1>3. Still(p, Slots(p), w) \in Nat /\ Still(p, K, w) \in Nat /\ Still(p, K, w) <= Still(p, Slots(p), w)
  BY <1>2, StillLess
<1> QED
  BY <1>1, <1>3

\* An operand that nothing else reads has one reader.
LEMMA StartAlone ==
  ASSUME NEW p, Sound(p), p = gates, Wire = Slots(p), NEW K \in SUBSET Slots(p), NEW left,
         left = [w \in Wire |-> Readers(w)]
  PROVE  Alone(p, K, left)
<1> SUFFICES ASSUME EqzAlone(p), NEW v \in K, Overwrites(p[v + 1])
             PROVE  left[p[v + 1].in1] = 1
  BY DEF Alone
<1>1. PICK x : x = p[v + 1].in1
  OBVIOUS
<1>2. /\ v \in Slots(p) /\ v \in Nat /\ v + 1 \in DOMAIN p /\ x \in Nat /\ Len(p) \in Nat
      /\ p[v + 1].type = "EQZ" /\ p[v + 1].layer = 0
  BY <1>1, SoundGate DEF Overwrites
<1>3. x < v
  BY <1>1, <1>2 DEF Sound, WellWired, Computed
<1>4. x \in Slots(p)
  BY <1>2, <1>3 DEF Slots
<1>5. \A u \in Slots(p) : u \in Nat /\ p[u + 1].in2 # x /\ (u # v => p[u + 1].in1 # x)
  <2> SUFFICES ASSUME NEW u \in Slots(p)
               PROVE  u \in Nat /\ p[u + 1].in2 # x /\ (u # v => p[u + 1].in1 # x)
    OBVIOUS
  <2>1. u \in Nat /\ u + 1 \in DOMAIN p
    BY SoundGate
  <2>2. p[u + 1].in2 # x /\ (u + 1 # v + 1 => p[u + 1].in1 # x)
    BY <1>1, <1>2, <2>1 DEF EqzAlone
  <2> QED
    BY <1>2, <2>1, <2>2
<1>6. {u \in Slots(p) : p[u + 1].in1 = x} = {v} /\ {u \in Slots(p) : x # 0 /\ p[u + 1].in2 = x} = {}
  BY <1>1, <1>2, <1>5
<1>7. Readers(x) = Cardinality({v}) + Cardinality({})
  BY <1>6 DEF Readers, GateOf
<1>8. Cardinality({v}) = 1 /\ Cardinality({}) = 0
  BY FS_Singleton, FS_EmptySet
<1> QED
  BY <1>1, <1>4, <1>7, <1>8

LEMMA StartStep == ASSUME EvalInv, LevelInv', StartRun PROVE EvalInv'
<1>1. /\ phase = "built" /\ phase' = "send" /\ SameCircuit /\ conf' = conf /\ lay' = lay
      /\ wires' = wires /\ vals' = vals /\ idx' = idx /\ at' = NextIn(Senders(0), 0)
      /\ waiting' = [w \in Wire |-> Readers(w)]
  BY DEF StartRun, SameCircuit
<1>2. Shape /\ Levelled /\ Wire = Slots(gates) /\ End \in Nat /\ Sound(gates) /\ Before
  BY <1>1, InvFacts DEF EvalInv
<1>3. /\ lay' = 0 /\ wires' = [w \in Wire |-> NoVector]
      /\ vals' = [k \in Kinds |-> <<>>] /\ idx' = [k \in Kinds |-> 0]
  BY <1>1, <1>2 DEF Before
<1>4. IsNext(Senders(0), 0, at')
  <2>1. 0 \in 0 .. End
    BY <1>2
  <2> QED
    BY <1>1, <1>2, <2>1, NextOne, OnLevelIs
<1>5. Position'
  BY <1>1, <1>3, <1>4, SameCircuitFacts DEF Position, IsNext
<1>6. SendOpened'
  <2>1. IsNext(Senders(lay'), 0, at')
    BY <1>3, <1>4
  <2> QED
    BY <1>1, <1>2, <1>3, <2>1, OpenedAnew
<1>7. Opening'
  BY <1>1, <1>6 DEF Opening
<1>8. Done' = {}
  <2>1. \A w \in Wire : WireLevel(w)' \in Nat
    BY <1>1, <1>2, SameCircuitFacts DEF Levelled
  <2>2. \A w \in Wire : ~ HasWritten(w)'
    BY <1>1, <1>3, <2>1 DEF HasWritten
  <2> QED
    BY <1>1, <2>2, SameCircuitFacts DEF Done
<1>9. Vectors'
  <2>1. PICK p : p = gates
    OBVIOUS
  <2>2. PICK K : K = ToRead'
    OBVIOUS
  <2>3. p = gates' /\ Wire' = Wire /\ Sound(p) /\ Wire = Slots(p) /\ K \in SUBSET Slots(p)
    BY <1>1, <1>2, <2>1, <2>2, SameCircuitFacts DEF SameCircuit, ToRead
  <2>4. Counts(p, K, waiting') /\ Alone(p, K, waiting')
    BY <1>1, <2>1, <2>3, StartCounts, StartAlone
  <2>5. Keeps(p, K, Done', wires')
    BY <1>8 DEF Keeps
  <2>6. DOMAIN wires' = Wire /\ Finite(wires')
    <3>1. IsFiniteSet(DOMAIN NoVector)
      BY FS_EmptySet DEF NoVector
    <3> QED
      BY <1>3, <3>1 DEF Finite
  <2>7. /\ Counts(gates, ToRead, waiting)' <=> Counts(gates', ToRead', waiting')
        /\ Keeps(gates, ToRead, Done, wires)' <=> Keeps(gates', ToRead', Done', wires')
        /\ Alone(gates, ToRead, waiting)' <=> Alone(gates', ToRead', waiting')
        /\ Finite(wires)' <=> Finite(wires')
    BY DEF Counts, Keeps, Alone, Finite
  <2> QED
    BY <2>2, <2>3, <2>4, <2>5, <2>6, <2>7 DEF Vectors
<1> QED
  BY <1>1, <1>5, <1>7, <1>9, InvKept

LEMMA ExchangeStep == ASSUME EvalInv, LevelInv', Exchange PROVE EvalInv'
<1>1. /\ phase = "send" /\ phase' = "receive" /\ SameCircuit /\ conf' = conf /\ lay' = lay
      /\ wires' = wires /\ waiting' = waiting /\ vals' = vals /\ idx' = idx
      /\ at = End /\ at' = NextIn(OnLevel(lay), 0)
  BY DEF Exchange, SameCircuit
<1>2. /\ Shape /\ Levelled /\ Wire = Slots(gates) /\ End \in Nat /\ Sound(gates)
      /\ Walking /\ Position /\ SendOpened /\ Vectors
  BY <1>1, InvFacts DEF Opening
<1>3. /\ IsNext(OnLevel(lay), 0, at')
      /\ Position' /\ Done' \in SUBSET Done /\ ToRead' \in SUBSET ToRead
  BY <1>1, <1>2, ExchangeWalk
<1>4. RecvOpened'
  BY <1>1, <1>2, <1>3, ExchangeOpened
<1>5. Opening'
  BY <1>1, <1>4 DEF Opening
<1>6. Vectors'
  BY <1>1, <1>2, <1>3, QuietVectors
<1> QED
  BY <1>1, <1>3, <1>5, <1>6, InvKept

LEMMA LevelStep == ASSUME EvalInv, LevelInv', NextLevel PROVE EvalInv'
<1>1. /\ phase = "receive" /\ phase' \in {"send", "done"} /\ SameCircuit /\ conf' = conf
      /\ wires' = wires /\ waiting' = waiting /\ vals' = [k \in Kinds |-> <<>>] /\ idx' = idx
      /\ at = End
      /\ \/ phase' = "done" /\ lay' = lay /\ at' = at
         \/ phase' = "send" /\ lay' = lay + 1 /\ at' = NextIn(Senders(lay + 1), 0)
  BY DEF NextLevel, SameCircuit
<1>2. /\ Shape /\ Levelled /\ Wire = Slots(gates) /\ End \in Nat /\ Sound(gates)
      /\ Walking /\ Position /\ RecvOpened /\ Vectors
  BY <1>1, InvFacts DEF Opening
<1>3. /\ phase' = "send" => IsNext(Senders(lay'), 0, at')
      /\ Position' /\ Done' \in SUBSET Done /\ ToRead' \in SUBSET ToRead
  BY <1>1, <1>2, LevelWalk
<1>4. idx' = [k \in Kinds |-> 0]
  <2>1. \A k \in Kinds : idx[k] = 0
    BY <1>1, <1>2 DEF RecvOpened, Wrap
  <2> QED
    BY <1>1, <1>2, <2>1 DEF RecvOpened
<1>5. phase' = "send" => SendOpened'
  BY <1>1, <1>2, <1>3, <1>4, OpenedAnew
<1>6. Opening'
  BY <1>1, <1>5 DEF Opening
<1>7. Vectors'
  BY <1>1, <1>2, <1>3, QuietVectors
<1> QED
  BY <1>1, <1>3, <1>6, <1>7, InvKept

\* A gate of evaluate_send overwrites cells but leaves the lengths.
LEMMA SameLengths ==
  ASSUME NEW f, NEW ws, ws = [wires EXCEPT ![f.in1] = ReadBy(f)], DOMAIN wires = Wire
  PROVE  DOMAIN ws = Wire /\ \A x \in Wire : DOMAIN ws[x] = DOMAIN wires[x]
<1>1. \A v, k : DOMAIN Complement(v, k) = DOMAIN v
  BY DEF Complement
<1>2. DOMAIN ReadBy(f) = DOMAIN wires[f.in1]
  BY <1>1 DEF ReadBy
<1> QED
  BY <1>2

LEMMA SendStep == ASSUME EvalInv, LevelInv', SendGate PROVE EvalInv'
<1>1. PICK a : a = at
  OBVIOUS
<1>2. PICK f : f = GateOf(a)
  OBVIOUS
<1>3. phase = "send" /\ at < End
  BY DEF SendGate
<1>4. /\ Shape /\ Levelled /\ Wire = Slots(gates) /\ End \in Nat /\ Sound(gates)
      /\ Walking /\ Position /\ SendOpened /\ Vectors
  BY <1>3, InvFacts DEF Opening
<1>5. /\ a \in Senders(lay) /\ a \in Wire /\ a \in Nat /\ WireLevel(a) = lay /\ lay \in Nat
      /\ f.type \in Interactive
  BY <1>1, <1>2, <1>3, <1>4, OnLevelIs DEF Position, Levelled
<1>6. a \in ToRead
  BY <1>1, <1>3, <1>5 DEF ToRead, HasSent, HasWritten
<1>7. Computed(f)
  BY <1>5 DEF Computed, Interactive
<1>8. \A x \in Range(Operands(f)) : Holds(x, SentCells(f))
  BY <1>1, <1>2, <1>3, <1>5, <1>6, <1>7, OperandsHeld
<1>9. \A j \in DOMAIN Operands(f) : Holds(Operands(f)[j], SentCells(f))
  BY <1>8 DEF Range
<1>10. PICK ws : ws = [wires EXCEPT ![f.in1] = ReadBy(f)]
  OBVIOUS
<1>11. /\ vals' = [vals EXCEPT ![KindOf(f)] = @ \o Message(f)]
       /\ Release(ReleasedBySend(f), ws)
       /\ at' = NextIn(Senders(lay), a + 1)
       /\ phase' = "send" /\ SameCircuit /\ conf' = conf /\ lay' = lay /\ idx' = idx
  BY <1>1, <1>2, <1>3, <1>9, <1>10 DEF SendGate, SameCircuit
<1>12. /\ a \notin Done
       /\ IsNext(Senders(lay), a + 1, at')
       /\ Position' /\ Done' \in SUBSET Done /\ ToRead' \in SUBSET ToRead
       /\ ReadsOnce(f) => a \notin ToRead'
  BY <1>1, <1>2, <1>3, <1>4, <1>11, SendWalk
<1>13. SendOpened'
  BY <1>1, <1>2, <1>4, <1>5, <1>11, <1>12, SendOpenedStep
<1>14. Opening'
  BY <1>11, <1>13 DEF Opening
<1>15. Vectors'
  <2>1. PICK read : read = ReleasedBySend(f)
    OBVIOUS
  <2>2. \/ read = <<>>
        \/ read = Operands(f) /\ a \in ToRead /\ a \notin ToRead'
    BY <1>5, <1>6, <1>12, <2>1 DEF ReleasedBySend, ReadsOnce
  <2>3. DOMAIN wires = Wire /\ Finite(wires)
    BY <1>4 DEF Vectors
  <2>4. DOMAIN ws = Wire /\ \A x \in Wire : DOMAIN ws[x] = DOMAIN wires[x]
    BY <1>10, <2>3, SameLengths
  <2>5. Finite(ws)
    BY <2>3, <2>4 DEF Finite
  <2>6. \A x \in Done : DOMAIN ws[x] = DOMAIN wires[x]
    BY <2>4 DEF Done
  <2>7. Release(read, ws)
    BY <1>11, <2>1
  <2> QED
    BY <1>2, <1>4, <1>5, <1>11, <1>12, <2>2, <2>4, <2>5, <2>6, <2>7, HandledVectors
<1> QED
  BY <1>11, <1>12, <1>14, <1>15, InvKept

\* What is done when a gate of evaluate_recv writes v and is done with the
\* operands in read; v has the cells that the gate's readers rely on.
LEMMA WriteStep ==
  ASSUME EvalInv, LevelInv', phase = "receive", at < End, NEW a, a = at, NEW f, f = GateOf(a),
         NEW v, NEW read, Write(v, read),
         \/ read = <<>>
         \/ read = Operands(f) /\ ~ReadsOnce(f),
         IsFiniteSet(DOMAIN v), 0 .. Cells(f) - 1 \subseteq DOMAIN v,
         idx' = [k \in Kinds |-> idx'[k]],
         \A k \in Kinds : CursorsMove(Shares(k, lay)[a], idx[k], idx'[k], Len(vals[k]))
  PROVE  EvalInv'
<1>1. /\ Shape /\ Levelled /\ Wire = Slots(gates) /\ End \in Nat /\ Sound(gates)
      /\ Walking /\ Position /\ RecvOpened /\ Vectors
  BY InvFacts DEF Opening
<1>2. PICK ws : ws = [wires EXCEPT ![a] = v]
  OBVIOUS
<1>3. /\ Release(read, ws) /\ at' = NextIn(OnLevel(lay), a + 1)
      /\ phase' = "receive" /\ SameCircuit /\ conf' = conf /\ lay' = lay /\ vals' = vals
  BY <1>2 DEF Write, SameCircuit
<1>4. /\ a \in OnLevel(lay) /\ a \in Wire /\ a \notin Done
      /\ IsNext(OnLevel(lay), a + 1, at')
      /\ Position' /\ Done' \in SUBSET (Done \cup {a}) /\ ToRead' \in SUBSET ToRead
      /\ ~ReadsOnce(f) => a \in ToRead /\ a \notin ToRead'
  BY <1>1, <1>3, ReceiveWalk
<1>5. RecvOpened'
  BY <1>1, <1>3, <1>4, RecvOpenedStep
<1>6. Opening'
  BY <1>3, <1>5 DEF Opening
<1>7. Vectors'
  <2>1. DOMAIN wires = Wire /\ Finite(wires)
    BY <1>1 DEF Vectors
  <2>2. DOMAIN ws = Wire /\ ws[a] = v /\ \A x \in Wire : x # a => ws[x] = wires[x]
    BY <1>2, <1>4, <2>1
  <2>3. Finite(ws)
    BY <2>1, <2>2 DEF Finite
  <2>4. \A x \in Done : DOMAIN ws[x] = DOMAIN wires[x]
    BY <1>4, <2>2 DEF Done
  <2>5. Held(gates, a, ws)
    BY <2>2 DEF Held, GateOf
  <2>6. \/ read = <<>>
        \/ read = Operands(GateOf(a)) /\ a \in ToRead /\ a \notin ToRead'
    BY <1>4
  <2> QED
    BY <1>1, <1>3, <1>4, <2>2, <2>3, <2>4, <2>5, <2>6, HandledVectors
<1> QED
  BY <1>3, <1>4, <1>6, <1>7, InvKept

\* A gate that takes nothing from the vectors.
LEMMA LocalStep ==
  ASSUME EvalInv, LevelInv', phase = "receive", at < End, NEW a, a = at, NEW f, f = GateOf(a),
         f.type \notin Interactive, UNCHANGED idx,
         NEW v, NEW read, Write(v, read),
         read = <<>> \/ read = Operands(f),
         IsFiniteSet(DOMAIN v), 0 .. Cells(f) - 1 \subseteq DOMAIN v
  PROVE  EvalInv'
<1>1. Levelled /\ Walking /\ Position /\ RecvOpened /\ End \in Nat
  BY InvFacts DEF Opening
<1>2. a \in Wire /\ a \in Nat
  BY <1>1, OnLevelIs DEF Position, Levelled
<1>3. a \notin Senders(lay)
  BY <1>1, <1>2, OnLevelIs
<1>4. \A k : Shares(k, lay)[a] = 0
  BY <1>1, <1>2, <1>3, SharesType DEF Walking
<1>5. \A k \in Kinds : CursorsMove(Shares(k, lay)[a], idx[k], idx'[k], Len(vals[k]))
  BY <1>4 DEF CursorsMove
<1>6. idx' = [k \in Kinds |-> idx'[k]]
  BY <1>1 DEF RecvOpened
<1>7. ~ReadsOnce(f)
  BY DEF ReadsOnce
<1> QED
  BY <1>5, <1>6, <1>7, WriteStep

\* Where evaluate_recv is.
LEMMA ReceiveFacts ==
  ASSUME EvalInv, phase = "receive", at < End, NEW a, a = at, NEW f, f = GateOf(a)
  PROVE  /\ a \in Wire /\ a \in Nat /\ WireLevel(a) = lay /\ a \in OnLevel(lay)
         /\ f.type \in Interactive => a \in Senders(lay)
         /\ f.type \in Interactive \cup LocalGate /\ f.size \in Nat
         /\ ~ReadsOnce(f) => a \in ToRead
         /\ ~ReadsOnce(f) /\ Computed(f) =>
              \A x \in Range(Operands(f)) : x \in Wire /\ Holds(x, SentCells(f))
<1>1. Levelled /\ Wire = Slots(gates) /\ Sound(gates) /\ Position /\ End \in Nat
  BY InvFacts
<1>2. a \in Wire /\ a \in Nat /\ WireLevel(a) = lay /\ a \in OnLevel(lay) /\ lay \in Nat
  BY <1>1, OnLevelIs DEF Position, Levelled
<1>3. f.type \in Interactive => a \in Senders(lay)
  BY <1>1, <1>2, OnLevelIs
<1>4. f.type \in Interactive \cup LocalGate /\ f.size \in Nat
  BY <1>1, <1>2, SoundGate DEF GateOf
<1>5. ~ReadsOnce(f) => a \in ToRead
  BY <1>2 DEF ToRead, HasWritten
<1>6. ASSUME ~ReadsOnce(f), Computed(f), NEW x \in Range(Operands(f))
      PROVE  x \in Wire /\ Holds(x, SentCells(f))
  BY <1>2, <1>5, <1>6, OperandsHeld
<1> QED
  BY <1>2, <1>3, <1>4, <1>5, <1>6

LEMMA RecvInputStep == ASSUME EvalInv, LevelInv', RecvInput PROVE EvalInv'
<1>1. PICK v : v = InputVector(at)
  OBVIOUS
<1>2. PICK f : f = GateOf(at)
  OBVIOUS
<1>3. /\ phase = "receive" /\ at < End /\ f.type = "Input" /\ UNCHANGED idx /\ Write(v, <<>>)
  BY <1>1, <1>2 DEF RecvInput, Receiving
<1>4. DOMAIN v = Cell
  BY <1>1 DEF InputVector
<1>5. 0 .. Cells(f) - 1 \subseteq DOMAIN v /\ IsFiniteSet(DOMAIN v)
  BY <1>4, CellVector
<1>6. f.type \notin Interactive
  BY <1>3 DEF Interactive
<1> QED
  BY <1>2, <1>3, <1>5, <1>6, LocalStep

LEMMA RecvSetConstStep == ASSUME EvalInv, LevelInv', RecvSetConst PROVE EvalInv'
<1>1. PICK f : f = GateOf(at)
  OBVIOUS
<1>2. PICK v : v = [i \in Cell |-> IF i < Len(f.vals) THEN f.vals[i + 1] ELSE 0]
  OBVIOUS
<1>3. /\ phase = "receive" /\ at < End /\ f.type = "SetConstVecSIMD" /\ UNCHANGED idx
      /\ Write(v, <<>>)
  BY <1>1, <1>2 DEF RecvSetConst, Receiving
<1>4. DOMAIN v = Cell
  BY <1>2
<1>5. 0 .. Cells(f) - 1 \subseteq DOMAIN v /\ IsFiniteSet(DOMAIN v)
  BY <1>4, CellVector
<1>6. f.type \notin Interactive
  BY <1>3 DEF Interactive
<1> QED
  BY <1>1, <1>3, <1>5, <1>6, LocalStep

LEMMA ResultCells ==
  ASSUME NEW f, f.type \in Interactive, NEW x, NEW n, n = OpenedCells(f), NEW c, DOMAIN c = 0 .. n - 1
  PROVE  DOMAIN Result(f, c, x) = Cell
<1>1. CASE KindOf(f) \in {"shuffle", "reveal"}
  <2>1. n = Size
    BY <1>1 DEF OpenedCells
  <2>2. f.type # "Compaction"
    BY <1>1 DEF KindOf
  <2>3. Result(f, c, x) = c
    BY <1>1, <2>2 DEF Result
  <2> QED
    BY <2>1, <2>3 DEF Cell
<1>2. CASE ~ (KindOf(f) \in {"shuffle", "reveal"}) /\ f.type = "Compaction"
  BY <1>2 DEF Result
<1>3. CASE ~ (KindOf(f) \in {"shuffle", "reveal"}) /\ f.type # "Compaction"
  BY <1>3 DEF Result
<1> QED
  BY <1>1, <1>2, <1>3

LEMMA RecvInteractiveStep == ASSUME EvalInv, LevelInv', RecvInteractive PROVE EvalInv'
<1>1. PICK a, f : a = at /\ f = GateOf(a)
  OBVIOUS
<1>2. phase = "receive" /\ at < End /\ f.type \in Interactive
  BY <1>1 DEF RecvInteractive, Receiving
<1>3. Walking /\ Position /\ RecvOpened
  BY <1>2, InvFacts DEF Opening
<1>4. /\ a \in Nat /\ a \in Senders(lay)
      /\ ~ReadsOnce(f) => \A x \in Range(Operands(f)) : Holds(x, SentCells(f))
  BY <1>1, <1>2, ReceiveFacts DEF Computed, Interactive
<1>5. PICK kind, n : kind = KindOf(f) /\ n = OpenedCells(f)
  OBVIOUS
<1>6. /\ kind \in Kinds /\ n \in Nat /\ idx[kind] \in Nat /\ Len(vals[kind]) \in Nat
      /\ idx[kind] + n <= Len(vals[kind])
  BY <1>1, <1>3, <1>4, <1>5, OpenedThere
<1>7. ReadsAgain(f) => Operands(f) = <<f.in1>> /\ ~ReadsOnce(f)
  BY DEF ReadsAgain, Operands, TwoInputs, ReadsOnce
<1>8. ReadsAgain(f) => Holds(f.in1, SentCells(f))
  <2>1. f.in1 \in Range(<<f.in1>>)
    BY DEF Range
  <2> QED
    BY <1>4, <1>7, <2>1
<1>9. PICK v : v = Result(f, Opened(kind, n), wires[f.in1])
  OBVIOUS
<1>10. PICK read : read = IF ReadsAgain(f) THEN <<f.in1>> ELSE <<>>
  OBVIOUS
<1>11. Write(v, read) /\ ReadOnline(kind, n)
  BY <1>1, <1>2, <1>5, <1>6, <1>8, <1>9, <1>10 DEF RecvInteractive
<1>12. DOMAIN v = Cell
  <2>1. DOMAIN Opened(kind, n) = 0 .. n - 1
    BY DEF Opened
  <2> QED
    BY <1>2, <1>5, <1>9, <2>1, ResultCells
<1>13. 0 .. Cells(f) - 1 \subseteq DOMAIN v /\ IsFiniteSet(DOMAIN v)
  BY <1>12, CellVector
<1>14. idx' = [idx EXCEPT ![kind] = IF @ + n >= Len(vals[kind]) THEN 0 ELSE @ + n]
  BY <1>11 DEF ReadOnline
<1>15. idx' = [k \in Kinds |-> idx'[k]]
  BY <1>3, <1>14 DEF RecvOpened
<1>16. ASSUME NEW k \in Kinds
       PROVE  CursorsMove(Shares(k, lay)[a], idx[k], idx'[k], Len(vals[k]))
  <2>1. Shares(k, lay)[a] = IF k = kind THEN n ELSE 0
    BY <1>1, <1>3, <1>4, <1>5, OpenedAt
  <2>2. CASE k = kind
    <3>1. idx'[k] = IF idx[k] + n >= Len(vals[k]) THEN 0 ELSE idx[k] + n
      BY <1>3, <1>14, <2>2 DEF RecvOpened
    <3>2. idx[k] \in Nat
      BY <1>6, <2>2
    <3> QED
      BY <1>6, <2>1, <2>2, <3>1, <3>2 DEF CursorsMove
  <2>3. CASE k # kind
    <3>1. idx'[k] = idx[k]
      BY <1>3, <1>14, <2>3 DEF RecvOpened
    <3> QED
      BY <2>1, <2>3, <3>1 DEF CursorsMove
  <2> QED
    BY <2>2, <2>3
<1>17. read = <<>> \/ (read = Operands(f) /\ ~ReadsOnce(f))
  BY <1>7, <1>10
<1> QED
  BY <1>1, <1>2, <1>11, <1>13, <1>15, <1>16, <1>17, WriteStep

LEMMA UnaryCells ==
  ASSUME NEW f, f.type \in Unary, NEW x, IsFiniteSet(DOMAIN x), 0 .. Size - 1 \subseteq DOMAIN x
  PROVE  LET v == UnaryResult(f, x)
         IN  0 .. Cells(f) - 1 \subseteq DOMAIN v /\ IsFiniteSet(DOMAIN v)
<1> DEFINE v == UnaryResult(f, x)
<1>0. Size \in Nat /\ Size - 1 \in Int /\ Size - 2 \in Int /\ 0 \in Int
  BY ConfAssumption
<1>1. CASE f.type = "DeduplicationSub"
  <2>1. v = [i \in 0 .. Size - 2 |-> Ring(x[i + 1] - x[i])]
    BY <1>1 DEF UnaryResult
  <2>2. DOMAIN v = 0 .. Size - 2
    BY <2>1
  <2> HIDE DEF v
  <2>3. IsFiniteSet(0 .. Size - 2)
    BY <1>0, FS_Interval
  <2>4. Cells(f) - 1 = Size - 2
    BY <1>0, <1>1 DEF Cells
  <2>5. 0 .. Cells(f) - 1 \subseteq DOMAIN v /\ IsFiniteSet(DOMAIN v)
    BY <2>2, <2>3, <2>4
  <2> QED
    BY <2>5 DEF v
<1>2. CASE f.type = "Insert"
  <2>1. PICK n : n = Cardinality(DOMAIN x)
    OBVIOUS
  <2>2. n \in Nat
    BY <2>1, FS_CardinalityType
  <2>3. Size <= n
    <3>1. Cardinality(0 .. Size - 1) = Size
      <4>1. Cardinality(0 .. Size - 1) = IF 0 > Size - 1 THEN 0 ELSE (Size - 1) - 0 + 1
        BY <1>0, FS_Interval
      <4> QED
        BY <1>0, <4>1
    <3>2. Cardinality(0 .. Size - 1) <= Cardinality(DOMAIN x)
      BY FS_Subset
    <3> QED
      BY <2>1, <3>1, <3>2
  <2>4. v = [i \in 0 .. n |-> Previous(x, i)]
    BY <1>2, <2>1 DEF UnaryResult
  <2>5. DOMAIN v = 0 .. n
    BY <2>4
  <2> HIDE DEF v
  <2>6. IsFiniteSet(0 .. n)
    BY <1>0, <2>2, FS_Interval
  <2>7. 0 .. Cells(f) - 1 \subseteq 0 .. n
    BY <1>0, <1>2, <2>2, <2>3 DEF Cells
  <2>8. 0 .. Cells(f) - 1 \subseteq DOMAIN v /\ IsFiniteSet(DOMAIN v)
    BY <2>5, <2>6, <2>7
  <2> QED
    BY <2>8 DEF v
<1>3. CASE f.type \notin {"DeduplicationSub", "Insert"}
  <2>1. DOMAIN v = Cell
    <3>1. CASE f.type = "AddConstSIMD"    BY <3>1 DEF UnaryResult
    <3>2. CASE f.type = "MulConstSIMD"    BY <3>2 DEF UnaryResult
    <3>3. CASE f.type = "Flip"            BY <3>3 DEF UnaryResult
    <3>4. CASE f.type = "RemoveEdgeData"  BY <3>4 DEF UnaryResult
    <3>5. CASE f.type = "Propagate1"      BY <3>5 DEF UnaryResult
    <3>6. CASE f.type = "Gather1"         BY <3>6 DEF UnaryResult, PrefixSum
    <3>7. CASE f.type = "Gather2"         BY <3>7 DEF UnaryResult
    <3> QED
      BY <1>3, <3>1, <3>2, <3>3, <3>4, <3>5, <3>6, <3>7 DEF Unary
  <2> QED
    BY <2>1, CellVector
<1> QED
  BY <1>1, <1>2, <1>3

LEMMA RecvUnaryStep == ASSUME EvalInv, LevelInv', RecvUnary PROVE EvalInv'
<1>1. PICK a, f : a = at /\ f = GateOf(a)
  OBVIOUS
<1>2. phase = "receive" /\ at < End /\ f.type \in Unary
  BY <1>1 DEF RecvUnary, Receiving
<1>3. f.type \notin Interactive /\ ~ReadsOnce(f) /\ Computed(f) /\ Operands(f) = <<f.in1>>
  BY <1>2 DEF Unary, Interactive, ReadsOnce, Computed, Operands, TwoInputs
<1>4. f.in1 \in Wire /\ Holds(f.in1, SentCells(f))
  <2>1. f.in1 \in Range(Operands(f))
    BY <1>3 DEF Range
  <2> QED
    BY <1>1, <1>2, <1>3, <2>1, ReceiveFacts
<1>5. SentCells(f) = Size
  BY <1>2 DEF SentCells, Unary
<1>6. Holds(f.in1, ReadCells(f))
  BY <1>4, <1>5, ConfAssumption DEF Holds, ReadCells
<1>7. PICK v : v = UnaryResult(f, wires[f.in1])
  OBVIOUS
<1>8. Write(v, <<f.in1>>) /\ UNCHANGED idx
  BY <1>1, <1>6, <1>7 DEF RecvUnary
<1>9. IsFiniteSet(DOMAIN wires[f.in1])
  <2>1. Finite(wires) /\ DOMAIN wires = Wire
    BY <1>2, InvFacts DEF Vectors
  <2> QED
    BY <1>4, <2>1 DEF Finite
<1>10. 0 .. Cells(f) - 1 \subseteq DOMAIN v /\ IsFiniteSet(DOMAIN v)
  BY <1>2, <1>4, <1>5, <1>7, <1>9, UnaryCells DEF Holds
<1> QED
  BY <1>1, <1>2, <1>3, <1>8, <1>10, LocalStep

LEMMA RecvBinaryStep == ASSUME EvalInv, LevelInv', RecvBinary PROVE EvalInv'
<1>1. PICK a, f : a = at /\ f = GateOf(a)
  OBVIOUS
<1>2. phase = "receive" /\ at < End /\ f.type \in BinaryLocal
  BY <1>1 DEF RecvBinary, Receiving
<1>3. /\ f.type \notin Interactive /\ ~ReadsOnce(f) /\ Computed(f)
      /\ Operands(f) = <<f.in1, f.in2>>
  BY <1>2 DEF BinaryLocal, Interactive, ReadsOnce, Computed, Operands, TwoInputs
<1>4. SentCells(f) = Size
  BY <1>2 DEF SentCells, BinaryLocal, TwoInputs, Interactive
<1>5. Holds(f.in1, Size) /\ Holds(f.in2, Size)
  <2>1. f.in1 \in Range(Operands(f)) /\ f.in2 \in Range(Operands(f))
    BY <1>3 DEF Range
  <2> QED
    BY <1>1, <1>2, <1>3, <1>4, <2>1, ReceiveFacts
<1>6. CASE f.type \in {"Permute", "ReversePermute"} /\ \E i \in Cell : wires[f.in2][i] \notin Cell
  <2>1. Undefined
    BY <1>1, <1>6 DEF RecvBinary
  <2>2. UncountedRead
    BY <1>1, <1>2, <1>5, <1>6 DEF UncountedRead
  <2> QED
    BY <2>1, <2>2, InvLost
<1>7. CASE f.type \in {"Permute", "ReversePermute"} => \A i \in Cell : wires[f.in2][i] \in Cell
  <2>1. PICK v : v = BinaryResult(f, wires[f.in1], wires[f.in2])
    OBVIOUS
  <2>2. Write(v, <<f.in1, f.in2>>) /\ UNCHANGED idx
    BY <1>1, <1>5, <1>7, <2>1 DEF RecvBinary
  <2>3. DOMAIN v = Cell
    <3>1. CASE f.type = "Permute"         BY <3>1, <2>1 DEF BinaryResult
    <3>2. CASE f.type = "ReversePermute"  BY <3>2, <2>1 DEF BinaryResult
    <3>3. CASE f.type = "AddSIMD"         BY <3>3, <2>1 DEF BinaryResult
    <3>4. CASE f.type = "SubSIMD"         BY <3>4, <2>1 DEF BinaryResult
    <3>5. CASE f.type = "Propagate2"      BY <3>5, <2>1 DEF BinaryResult
    <3> QED
      BY <1>2, <3>1, <3>2, <3>3, <3>4, <3>5 DEF BinaryLocal, TwoInputs, Interactive
  <2>4. 0 .. Cells(f) - 1 \subseteq DOMAIN v /\ IsFiniteSet(DOMAIN v)
    BY <2>3, CellVector
  <2> QED
    BY <1>1, <1>2, <1>3, <2>2, <2>4, LocalStep
<1> QED
  BY <1>6, <1>7

LEMMA RecvColumnSumsStep == ASSUME EvalInv, LevelInv', RecvColumnSums PROVE EvalInv'
<1>1. PICK a, f : a = at /\ f = GateOf(a)
  OBVIOUS
<1>2. phase = "receive" /\ at < End /\ f.type = "ColumnSumsToNodes"
  BY <1>1 DEF RecvColumnSums, Receiving
<1>3. f.type \notin Interactive
  BY <1>2 DEF Interactive
<1>4. CASE Undefined
  <2>1. UncountedRead
    BY <1>1, <1>2 DEF UncountedRead
  <2> QED
    BY <1>4, <2>1, InvLost
<1>5. CASE ~Undefined
  <2>1. \E v : Write(v, <<>>) /\ UNCHANGED idx /\ DOMAIN v = Cell
    BY <1>1, <1>5 DEF RecvColumnSums
  <2>2. PICK v : Write(v, <<>>) /\ UNCHANGED idx /\ DOMAIN v = Cell
    BY <2>1
  <2>3. 0 .. Cells(f) - 1 \subseteq DOMAIN v /\ IsFiniteSet(DOMAIN v)
    BY <2>2, CellVector
  <2> QED
    BY <1>1, <1>2, <1>3, <2>2, <2>3, LocalStep
<1> QED
  BY <1>4, <1>5

LEMMA RecvOutputStep == ASSUME EvalInv, LevelInv', RecvOutput PROVE EvalInv'
<1>1. PICK a, f : a = at /\ f = GateOf(a)
  OBVIOUS
<1>2. phase = "receive" /\ at < End /\ f.type = "Output"
  BY <1>1 DEF RecvOutput, Receiving
<1>3. f.type \notin Interactive /\ ~ReadsOnce(f) /\ Computed(f) /\ Operands(f) = <<f.in1>>
  BY <1>2 DEF Interactive, ReadsOnce, Computed, Operands, TwoInputs
<1>4. Holds(f.in1, Size)
  <2>1. f.in1 \in Range(Operands(f))
    BY <1>3 DEF Range
  <2>2. SentCells(f) = Size
    BY <1>2 DEF SentCells
  <2> QED
    BY <1>1, <1>2, <1>3, <2>1, <2>2, ReceiveFacts
<1>5. /\ Release(<<f.in1>>, wires) /\ at' = NextIn(OnLevel(lay), a + 1)
      /\ phase' = "receive" /\ SameCircuit /\ conf' = conf /\ lay' = lay
      /\ vals' = vals /\ idx' = idx
  BY <1>1, <1>2, <1>4 DEF RecvOutput, SameCircuit
<1>6. /\ Shape /\ Levelled /\ Wire = Slots(gates) /\ End \in Nat /\ Sound(gates)
      /\ Walking /\ Position /\ RecvOpened /\ Vectors
  BY <1>2, InvFacts DEF Opening
<1>7. /\ a \in OnLevel(lay) /\ a \in Wire /\ a \notin Done /\ a \in Nat
      /\ IsNext(OnLevel(lay), a + 1, at')
      /\ Position' /\ Done' \in SUBSET (Done \cup {a}) /\ ToRead' \in SUBSET ToRead
      /\ a \in ToRead /\ a \notin ToRead'
  BY <1>1, <1>2, <1>3, <1>5, <1>6, ReceiveWalk DEF Levelled
<1>8. RecvOpened'
  <2>1. a \notin Senders(lay)
    BY <1>1, <1>3, <1>6, <1>7, OnLevelIs
  <2>2. \A k : Shares(k, lay)[a] = 0
    BY <1>6, <1>7, <2>1, SharesType DEF Walking
  <2>3. \A k \in Kinds : CursorsMove(Shares(k, lay)[a], idx[k], idx'[k], Len(vals[k]))
    BY <1>5, <2>2 DEF CursorsMove
  <2>4. idx' = [k \in Kinds |-> idx'[k]]
    BY <1>5, <1>6 DEF RecvOpened
  <2> QED
    BY <1>1, <1>5, <1>6, <1>7, <2>3, <2>4, RecvOpenedStep
<1>9. Opening'
  BY <1>5, <1>8 DEF Opening
<1>10. Vectors'
  <2>1. DOMAIN wires = Wire /\ Finite(wires) /\ \A x \in Done : DOMAIN wires[x] = DOMAIN wires[x]
    BY <1>6 DEF Vectors
  <2>2. PICK read, ws : read = <<f.in1>> /\ ws = wires
    OBVIOUS
  <2>3. read = Operands(GateOf(a)) /\ Release(read, ws) /\ GateOf(a).type = "Output"
    BY <1>1, <1>2, <1>3, <1>5, <2>2
  <2> QED
    BY <1>5, <1>6, <1>7, <2>1, <2>2, <2>3, HandledVectors
<1> QED
  BY <1>5, <1>7, <1>9, <1>10, InvKept

LEMMA StutterStep ==
  ASSUME EvalInv, LevelInv', UNCHANGED vars
  PROVE  EvalInv'
<1>1. /\ conf' = conf /\ SameCircuit /\ phase' = phase /\ lay' = lay /\ at' = at
      /\ waiting' = waiting /\ wires' = wires /\ vals' = vals /\ idx' = idx
  BY DEF vars, SameCircuit
<1>2. Sound(gates)' /\ (conf \in DOMAIN Programs)' /\ (gates = Programs[conf])'
  BY <1>1 DEF EvalInv, SameCircuit, Sound, WellWired, Fitting, Computed, Operands, SentCells, Cells
<1>3. Before' <=> Before
  BY <1>1 DEF Before, SameCircuit, Wire
<1>4. UncountedRead' <=> UncountedRead
  BY <1>1 DEF UncountedRead, SameCircuit, End, GateOf, Holds
<1>5. CASE phase \in {"layering", "built", "undefined"}
  BY <1>1, <1>2, <1>3, <1>4, <1>5 DEF EvalInv
<1>6. CASE phase \in {"send", "receive", "done"}
  <2>1. Sound(gates) /\ Wire = Slots(gates) /\ Position /\ Opening /\ Vectors
    BY <1>6, InvFacts
  <2>2. \A w : HasWritten(w)' = HasWritten(w) /\ HasSent(w)' = HasSent(w)
    BY <1>1, SameCircuitFacts DEF HasWritten, HasSent
  <2>3. Done' = Done /\ ToRead' = ToRead
    BY <1>1, <2>2, SameCircuitFacts DEF Done, ToRead, ReadsOnce
  <2>4. Vectors'
    BY <1>1, <2>1, <2>3, QuietVectors
  <2>5. Position'
    BY <1>1, <2>1, SameCircuitFacts DEF Position
  <2>6. Opening'
    <3>1. \A k : Shares(k, lay)' = Shares(k, lay)
      <4>1. PICK l : l = lay
        OBVIOUS
      <4>2. \A k : Shares(k, l)' = Shares(k, l)
        BY <1>1, SameShares
      <4> QED
        BY <1>1, <4>1, <4>2
    <3>2. End' = End
      BY <1>1, SameCircuitFacts
    <3>3. \A k : IsList(vals[k])' <=> IsList(vals'[k])
      BY DEF IsList
    <3>4. /\ \A off, k : Spread(off, Shares(k, lay), at)' <=> Spread(off, Shares(k, lay)', at')
          /\ \A off, k : Spread(off, Shares(k, lay), End)' <=> Spread(off, Shares(k, lay)', End')
          /\ \A off : Wrap(off[at], off[End])' = Wrap(off[at'], off[End'])
      BY DEF Spread, Wrap
    <3>5. SendOpened => SendOpened'
      BY <1>1, <3>1, <3>3, <3>4 DEF SendOpened
    <3>6. RecvOpened => RecvOpened'
      BY <1>1, <3>1, <3>2, <3>3, <3>4 DEF RecvOpened
    <3> QED
      BY <1>1, <2>1, <3>5, <3>6 DEF Opening
  <2> QED
    BY <1>1, <1>6, <2>4, <2>5, <2>6, InvKept
<1> QED
  BY <1>5, <1>6 DEF EvalInv

LEMMA EvalNext == ASSUME EvalInv, [Next]_vars PROVE EvalInv'
<1>0. LevelInv'
  BY LevelNext DEF EvalInv
<1>1. CASE AssignLevel \/ PlaceOutputs  BY <1>0, <1>1, BuildStep
<1>2. CASE StartRun        BY <1>0, <1>2, StartStep
<1>3. CASE SendGate        BY <1>0, <1>3, SendStep
<1>4. CASE Exchange        BY <1>0, <1>4, ExchangeStep
<1>5. CASE RecvInput       BY <1>0, <1>5, RecvInputStep
<1>6. CASE RecvSetConst    BY <1>0, <1>6, RecvSetConstStep
<1>7. CASE RecvInteractive BY <1>0, <1>7, RecvInteractiveStep
<1>8. CASE RecvUnary       BY <1>0, <1>8, RecvUnaryStep
<1>9. CASE RecvBinary      BY <1>0, <1>9, RecvBinaryStep
<1>10. CASE RecvColumnSums BY <1>0, <1>10, RecvColumnSumsStep
<1>11. CASE RecvOutput     BY <1>0, <1>11, RecvOutputStep
<1>12. CASE NextLevel      BY <1>0, <1>12, LevelStep
<1>13. CASE UNCHANGED vars \/ Terminated
  BY <1>0, <1>13, StutterStep DEF Terminated
<1> QED
  BY <1>1, <1>2, <1>3, <1>4, <1>5, <1>6, <1>7, <1>8, <1>9, <1>10, <1>11, <1>12, <1>13 DEF Next

LEMMA EvalAlways == Spec => []EvalInv
<1>1. Init => EvalInv                      BY InitInv
<1>2. EvalInv /\ [Next]_vars => EvalInv'   BY EvalNext
<1> QED  BY <1>1, <1>2, PTL DEF Spec

------------------------------------------------------------------------------
(* What the invariant gives *)

LEMMA HeldImplied == ASSUME EvalInv PROVE HeldUntilRead
<1> SUFFICES ASSUME phase \in {"send", "receive"}, NEW v \in ToRead, Computed(GateOf(v)),
                    NEW x \in Range(Operands(GateOf(v))), HasWritten(x)
             PROVE  Holds(x, Cells(GateOf(x)))
  BY DEF HeldUntilRead
<1>1. Shape /\ Levelled /\ Wire = Slots(gates) /\ End \in Nat /\ Vectors
  BY InvFacts
<1>2. v \in Wire /\ v \in Nat /\ v < Len(gates) /\ Len(gates) \in Nat
  BY <1>1 DEF ToRead, Levelled, End
<1>3. x \in Nat /\ x < v
  <2>1. x \in {GateOf(v).in1, GateOf(v).in2}
    BY DEF Operands, Range
  <2> QED
    BY <1>1, <1>2, <2>1, Wired
<1>4. x \in Done
  BY <1>2, <1>3 DEF Done, Wire
<1>5. Held(gates, x, wires)
  BY <1>1, <1>4 DEF Vectors, Keeps, GateOf
<1> QED
  BY <1>5 DEF Held, Holds, GateOf

\* No wire is freed, by the counts that init_waiting makes and update_wire
\* takes down (evaluator.h), while a gate that has it as an operand is still
\* to read it: for every circuit, every order of its gates in the levels and
\* every split of the reads over the two phases of a level.
THEOREM HeldAlways == Spec => []HeldUntilRead
<1>1. EvalInv => HeldUntilRead
  BY HeldImplied
<1> QED  BY <1>1, EvalAlways, PTL

LEMMA InPlaceImplied ==
  ASSUME EvalInv, \A o \in DOMAIN Programs : EqzAlone(Programs[o])
  PROVE  InPlaceExclusive
<1> SUFFICES ASSUME phase = "send", at < End, GateOf(at).type = "EQZ", GateOf(at).layer = 0
             PROVE  waiting[GateOf(at).in1] = 1
  BY DEF InPlaceExclusive
<1>1. Levelled /\ End \in Nat /\ Position /\ Vectors /\ EqzAlone(gates)
  BY InvFacts DEF EvalInv
<1>2. at \in Wire /\ at \in Nat /\ WireLevel(at) = lay /\ lay \in Nat
  BY <1>1, OnLevelIs DEF Position, Levelled
<1>3. at \in ToRead
  BY <1>2 DEF ToRead, HasSent, HasWritten
<1> QED
  BY <1>1, <1>3 DEF Vectors, Alone, Overwrites, GateOf

\* If nothing else in the circuit reads what the first layer of a comparison
\* reads, evaluate_send complements the operand of that EQZ gate (evaluator.cpp)
\* only when it is the last to read it.
THEOREM InPlaceAlways ==
  ASSUME \A o \in DOMAIN Programs : EqzAlone(Programs[o])
  PROVE  Spec => []InPlaceExclusive
<1>1. EvalInv => InPlaceExclusive
  BY InPlaceImplied
<1> QED  BY <1>1, EvalAlways, PTL

\* The evaluation reads no vector beyond its end (evaluator.cpp) unless it is
\* at a ColumnSumsToNodes, whose columns init_waiting does not count, or at a
\* Permute or ReversePermute with a position that is no index.
THEOREM UndefinedReads == Spec => [](NoUndefined \/ UncountedRead)
<1>1. EvalInv => NoUndefined \/ UncountedRead
  BY DEF EvalInv, NoUndefined
<1> QED  BY <1>1, EvalAlways, PTL

\* The counters are never taken below zero, and the cursors stay in their
\* vectors and are back at the start when the next level begins.
Bookkeeping ==
  phase \in {"send", "receive"} =>
    /\ \A w \in Wire : waiting[w] \in Nat
    /\ \A k \in Kinds : idx[k] \in 0 .. Len(vals[k]) /\ (phase = "send" \/ at = End => idx[k] = 0)

LEMMA BookkeepingImplied == ASSUME EvalInv PROVE Bookkeeping
<1> SUFFICES ASSUME phase \in {"send", "receive"} PROVE Bookkeeping
  BY DEF Bookkeeping
<1>1. /\ Levelled /\ Wire = Slots(gates) /\ End \in Nat /\ Sound(gates)
      /\ Position /\ Opening /\ Vectors
  BY InvFacts
<1>2. ASSUME NEW w \in Wire PROVE waiting[w] \in Nat
  <2>1. waiting[w] \in Int /\ waiting[w] >= Still(gates, ToRead, w)
    BY <1>1 DEF Vectors, Counts
  <2>2. ToRead \in SUBSET Slots(gates)
    BY <1>1 DEF ToRead
  <2>3. Still(gates, ToRead, w) \in Nat
    BY <1>1, <2>2, StillLess
  <2> QED
    BY <2>1, <2>3
<1>3. ASSUME NEW k \in Kinds
      PROVE  idx[k] \in 0 .. Len(vals[k]) /\ (phase = "send" \/ at = End => idx[k] = 0)
  <2>1. CASE phase = "send"
    <3>1. idx[k] = 0 /\ Len(vals[k]) \in Nat
      BY <1>1, <2>1, ListLen DEF Opening, SendOpened
    <3> QED
      BY <3>1
  <2>2. CASE phase = "receive"
    <3>1. PICK off : /\ Spread(off, Shares(k, lay), End) /\ Len(vals[k]) = off[End]
                     /\ idx[k] = Wrap(off[at], off[End])
      BY <1>1, <2>2 DEF Opening, RecvOpened
    <3>2. at \in Nat /\ at <= End
      BY <1>1, <2>2, OnLevelIs DEF Position, Levelled
    <3>3. off[at] \in Nat /\ off[End] \in Nat /\ off[at] <= off[End]
      BY <1>1, <3>1, <3>2 DEF Spread
    <3> QED
      BY <2>2, <3>1, <3>3 DEF Wrap
  <2> QED
    BY <2>1, <2>2
<1> QED
  BY <1>2, <1>3 DEF Bookkeeping

\* The reader counts of evaluator.h never pass below zero, and read_online
\* (evaluator.cpp) never leaves its vectors: what the gates of a level take is
\* what they have put in, so that the cursors, which nobody resets, are back
\* at zero when the vectors of the next level are filled.
THEOREM BookkeepingAlways == Spec => []Bookkeeping
<1>1. EvalInv => Bookkeeping
  BY BookkeepingImplied
<1> QED  BY <1>1, EvalAlways, PTL

------------------------------------------------------------------------------
(* What a wire holds *)

Element == 0 .. Mod - 1
Ringed(v) == \A i \in DOMAIN v : v[i] \in Element

LEMMA RingType ==
  /\ Size \in Nat /\ Nodes \in Nat \ {0} /\ Nodes <= Size /\ Mod \in Nat /\ Mod > 0 /\ Cell \in SUBSET Element
  /\ \A a \in Int : Ring(a) \in Element
  /\ 0 \in Element /\ Element \in SUBSET Int
<1>1. Size \in Nat /\ Nodes \in Nat \ {0} /\ Nodes <= Size /\ Mod \in Nat /\ Mod > Size
  BY ConfAssumption, RingAssumption
<1>2. \A a \in Int : a % Mod \in 0 .. Mod - 1
  BY <1>1
<1> QED
  BY <1>1, <1>2 DEF Ring, Element, Cell

\* s adds up the first k cells of v.
Adds(s, v, k) == s = [i \in 0 .. k - 1 |-> v[i] + (IF i = 0 THEN 0 ELSE s[i - 1])]

LEMMA AddsExist ==
  ASSUME NEW k \in Nat, NEW v
  PROVE  \E s : Adds(s, v, k)
<1> DEFINE T == {m \in Nat : ~ \E s : Adds(s, v, m)}
<1> SUFFICES ASSUME T # {} PROVE FALSE
  OBVIOUS
<1>1. PICK m \in T : \A j \in T : m =< j
  BY Smallest
<1>2. m \in Nat /\ ~ \E s : Adds(s, v, m)
  OBVIOUS
<1>3. CASE m = 0
  <2>1. Adds(<<>>, v, 0)
    <3>1. <<>> = [i \in 0 .. 0 - 1 |-> v[i] + (IF i = 0 THEN 0 ELSE <<>>[i - 1])]
      OBVIOUS
    <3> QED
      BY <3>1 DEF Adds
  <2> QED
    BY <1>2, <1>3, <2>1
<1>4. CASE m # 0
  <2>1. m - 1 \in Nat /\ ~ (m =< m - 1)
    BY <1>2, <1>4
  <2>2. m - 1 \notin T
    BY <1>1, <2>1
  <2>3. PICK s : Adds(s, v, m - 1)
    BY <2>1, <2>2
  <2> DEFINE t == [i \in 0 .. m - 1 |-> IF i = m - 1 THEN v[i] + (IF i = 0 THEN 0 ELSE s[i - 1]) ELSE s[i]]
  <2>4. \A i \in 0 .. (m - 1) - 1 : s[i] = v[i] + (IF i = 0 THEN 0 ELSE s[i - 1])
    BY <2>3 DEF Adds
  <2>5. \A i \in 0 .. m - 1 : t[i] = v[i] + (IF i = 0 THEN 0 ELSE t[i - 1])
    <3> TAKE i \in 0 .. m - 1
    <3>1. i # 0 => i - 1 \in 0 .. m - 1 /\ i - 1 # m - 1 /\ t[i - 1] = s[i - 1]
      BY <1>2
    <3>2. CASE i = m - 1
      <4>1. t[i] = v[i] + (IF i = 0 THEN 0 ELSE s[i - 1])
        BY <3>2
      <4> HIDE DEF t
      <4> QED
        BY <3>1, <4>1
    <3>3. CASE i # m - 1
      <4>1. i \in 0 .. (m - 1) - 1 /\ t[i] = s[i]
        BY <1>2, <3>3
      <4> HIDE DEF t
      <4> QED
        BY <2>4, <3>1, <4>1
    <3> QED
      BY <3>2, <3>3
  <2>6. t = [i \in 0 .. m - 1 |-> v[i] + (IF i = 0 THEN 0 ELSE t[i - 1])]
    BY <2>5
  <2>7. Adds(t, v, m)
    BY <2>6 DEF Adds
  <2> QED
    BY <1>2, <2>7
<1> QED
  BY <1>3, <1>4

LEMMA AddsType ==
  ASSUME NEW k \in Nat, NEW v, \A i \in 0 .. k - 1 : v[i] \in Int, NEW s, Adds(s, v, k)
  PROVE  \A i \in 0 .. k - 1 : s[i] \in Int
<1> DEFINE T == {i \in 0 .. k - 1 : s[i] \notin Int}
<1> SUFFICES ASSUME T # {} PROVE FALSE
  OBVIOUS
<1>1. PICK i \in T : \A j \in T : i =< j
  <2>1. T \in SUBSET Nat
    OBVIOUS
  <2> HIDE DEF T
  <2> QED
    BY <2>1, Smallest
<1>2. s[i] = v[i] + (IF i = 0 THEN 0 ELSE s[i - 1])
  <2>1. i \in 0 .. k - 1
    OBVIOUS
  <2> HIDE DEF T
  <2> QED
    BY <2>1 DEF Adds
<1>3. i # 0 => s[i - 1] \in Int
  <2> SUFFICES ASSUME i # 0 PROVE s[i - 1] \in Int
    OBVIOUS
  <2>1. i - 1 \in 0 .. k - 1 /\ ~ (i =< i - 1)
    OBVIOUS
  <2>2. i - 1 \notin T
    BY <1>1, <2>1
  <2> QED
    BY <2>1, <2>2
<1>4. i \in 0 .. k - 1 /\ s[i] \notin Int
  OBVIOUS
<1> HIDE DEF T
<1>5. v[i] \in Int
  BY <1>4
<1> QED
  BY <1>2, <1>3, <1>4, <1>5

LEMMA PrefixSumType ==
  ASSUME NEW k \in Nat, NEW v, DOMAIN v = 0 .. k - 1, \A i \in 0 .. k - 1 : v[i] \in Int
  PROVE  DOMAIN PrefixSum(v) = 0 .. k - 1 /\ \A i \in 0 .. k - 1 : PrefixSum(v)[i] \in Element
<1>1. \E s : s = [i \in DOMAIN v |-> v[i] + (IF i = 0 THEN 0 ELSE s[i - 1])]
  BY AddsExist DEF Adds
<1>2. \E s : /\ s = [i \in DOMAIN v |-> v[i] + (IF i = 0 THEN 0 ELSE s[i - 1])]
             /\ PrefixSum(v) = [i \in DOMAIN v |-> Ring(s[i])]
  BY <1>1 DEF PrefixSum
<1>3. PICK s : Adds(s, v, k) /\ PrefixSum(v) = [i \in 0 .. k - 1 |-> Ring(s[i])]
  BY <1>2 DEF Adds
<1>4. \A i \in 0 .. k - 1 : s[i] \in Int
  BY <1>3, AddsType
<1> QED
  BY <1>3, <1>4, RingType

LEMMA MaxOfCells ==
  ASSUME NEW T \in SUBSET Cell, T # {}
  PROVE  Max(T) \in T
<1> DEFINE U == {Size - i : i \in T}
<1>1. Size \in Nat /\ \A i \in T : i \in Int /\ i <= Size
  BY RingType DEF Cell
<1>2. U \in SUBSET Nat /\ U # {}
  <2>1. \A i \in T : Size - i \in Nat
    BY <1>1
  <2> QED
    BY <2>1
<1>3. PICK m \in U : \A j \in U : m =< j
  <2> HIDE DEF U
  <2> QED
    BY <1>2, Smallest
<1>4. PICK i \in T : m = Size - i
  OBVIOUS
<1>5. \A j \in T : Size - i =< Size - j
  BY <1>3, <1>4
<1>6. \A j \in T : i >= j
  BY <1>1, <1>5
<1> QED
  BY <1>6 DEF Max

------------------------------------------------------------------------------
(* Permutations *)

LEMMA Injective ==
  ASSUME NEW p \in Perms!Perm
  PROVE  \A i, j \in Perms!Pos : p[i] = p[j] => i = j
<1>1. p \in Surjection(Perms!Pos, Perms!Pos)
  BY DEF Perms!Perm, Surjection
<1>2. IsFiniteSet(Perms!Pos)
  BY RingType, FS_Interval DEF Perms!Pos
<1>3. p \in Injection(Perms!Pos, Perms!Pos)
  BY <1>1, <1>2, FS_Surjection
<1> QED
  BY <1>3 DEF Injection, IsInjective

LEMMA Inverted ==
  ASSUME NEW p \in Perms!Perm
  PROVE  /\ \A k \in Cell : p[k] \in Cell /\ Perms!PermInverse(p)[k] \in Cell
         /\ \A i \in Cell : Perms!PermInverse(p)[p[i]] = i
<1>1. Cell = Perms!Pos
  BY DEF Cell, Perms!Pos
<1>2. \A k \in Perms!Pos : p[k] \in Perms!Pos /\ \E i \in Perms!Pos : p[i] = k
  BY DEF Perms!Perm
<1>3. \A k \in Perms!Pos : Perms!PermInverse(p)[k] \in Perms!Pos /\ p[Perms!PermInverse(p)[k]] = k
  BY <1>2 DEF Perms!PermInverse
<1>4. \A i \in Perms!Pos : Perms!PermInverse(p)[p[i]] = i
  BY <1>2, <1>3, Injective
<1> QED
  BY <1>1, <1>2, <1>3, <1>4

\* A merged id stands for a permutation, too.
LEMMA Merged ==
  ASSUME NEW p \in Perms!Perm, NEW q \in Perms!Perm
  PROVE  Perms!Compose(q, Perms!PermInverse(p)) \in Perms!Perm
<1> DEFINE r == Perms!Compose(q, Perms!PermInverse(p))
<1>1. Cell = Perms!Pos
  BY DEF Cell, Perms!Pos
<1>2. r = [i \in Perms!Pos |-> q[Perms!PermInverse(p)[i]]]
  BY DEF Perms!Compose
<1>3. \A i \in Perms!Pos : q[i] \in Perms!Pos /\ p[i] \in Perms!Pos /\ Perms!PermInverse(p)[i] \in Perms!Pos
                       /\ Perms!PermInverse(p)[p[i]] = i
  BY <1>1, Inverted
<1> HIDE DEF r
<1>4. r \in [Perms!Pos -> Perms!Pos]
  BY <1>2, <1>3
<1>5. ASSUME NEW k \in Perms!Pos PROVE \E i \in Perms!Pos : r[i] = k
  <2>1. PICK j \in Perms!Pos : q[j] = k
    BY DEF Perms!Perm
  <2>2. r[p[j]] = k /\ p[j] \in Perms!Pos
    BY <1>2, <1>3, <2>1
  <2> QED
    BY <2>2
<1>6. r \in Perms!Perm
  BY <1>4, <1>5 DEF Perms!Perm
<1> QED
  BY <1>6 DEF r

------------------------------------------------------------------------------
(* What a gate computes *)

Covers(x, k) == 0 .. k - 1 \subseteq DOMAIN x
Vector(v, cells) == DOMAIN v \in SUBSET cells /\ Ringed(v)

LEMMA Small == 1 \in Element /\ \A a \in Int : a % 2 \in Element
<1>1. Mod \in Nat /\ Mod >= 2
  BY ConfAssumption, RingAssumption
<1>2. \A a \in Int : a % 2 \in 0 .. 1
  OBVIOUS
<1> QED
  BY <1>1, <1>2 DEF Element

LEMMA ReadType ==
  ASSUME NEW x, Ringed(x), NEW k \in Int, Covers(x, k), NEW i \in Nat, i < k
  PROVE  x[i] \in Element /\ x[i] \in Int
<1>1. i \in DOMAIN x
  BY DEF Covers
<1>2. x[i] \in Element
  BY <1>1 DEF Ringed
<1> QED
  BY <1>2, RingType

LEMMA InputVectorType ==
  ASSUME conf \in DOMAIN Programs, graph \in Graphs(conf), NEW w \in Nat
  PROVE  Vector(InputVector(w), Cell)
<1> DEFINE v == InputVector(w)
           entry(i) == graph[i + 1]
           bit(x, b) == (x \div 2^b) % 2
<1>1. v = [i \in Cell |->
        CASE w < Bits         -> bit(entry(i).src, w)
          [] w \in Bits .. 2 * Bits - 1 -> bit(entry(i).dst, w - Bits)
          [] w = 2 * Bits     -> entry(i).src
          [] w = 2 * Bits + 1 -> entry(i).dst
          [] w = 2 * Bits + 2 -> entry(i).isV
          [] OTHER            -> entry(i).data]
  BY DEF InputVector
<1>2. graph \in [1 .. Size -> [src : Element, dst : Element, isV : Element, data : Element]]
  BY GraphsAssumption DEF Element
<1>3. ASSUME NEW i \in Cell
      PROVE  /\ entry(i).src \in Element /\ entry(i).dst \in Element
             /\ entry(i).isV \in Element /\ entry(i).data \in Element
  <2>1. i + 1 \in 1 .. Size
    BY RingType DEF Cell
  <2> QED
    BY <1>2, <2>1
<1>4. \A x \in Int, b \in Nat : bit(x, b) \in 0 .. 1
  OBVIOUS
<1>5. 0 .. 1 \subseteq Element
  BY Small, RingType
<1> HIDE DEF v, bit, entry
<1>6. ASSUME NEW i \in Cell PROVE v[i] \in Element
  <2>1. Bits \in Nat
    BY ConfAssumption
  <2>2. CASE w < Bits
    <3>1. v[i] = bit(entry(i).src, w)
      BY <1>1, <2>1, <2>2
    <3> QED
      BY <1>3, <1>4, <1>5, <3>1, RingType
  <2>3. CASE ~(w < Bits) /\ w < 2 * Bits
    <3>1. w - Bits \in Nat /\ w \in Bits .. 2 * Bits - 1
      BY <2>1, <2>3
    <3>2. v[i] = bit(entry(i).dst, w - Bits)
      BY <1>1, <2>1, <2>3, <3>1
    <3> QED
      BY <1>3, <1>4, <1>5, <3>1, <3>2, RingType
  <2>4. CASE ~(w < 2 * Bits)
    <3>1. ~(w < Bits) /\ w \notin Bits .. 2 * Bits - 1
      BY <2>1, <2>4
    <3>2. v[i] \in {entry(i).src, entry(i).dst, entry(i).isV, entry(i).data}
      BY <1>1, <3>1
    <3> QED
      BY <1>3, <3>2
  <2> QED
    BY <2>1, <2>2, <2>3, <2>4
<1>7. DOMAIN v = Cell
  BY <1>1
<1>8. Vector(v, Cell)
  BY <1>6, <1>7 DEF Vector, Ringed
<1> QED
  BY <1>8 DEF v

LEMMA SetConstType ==
  ASSUME NEW c \in Seq(Element)
  PROVE  Vector([i \in Cell |-> IF i < Len(c) THEN c[i + 1] ELSE 0], Cell)
<1>1. ASSUME NEW i \in Cell PROVE (IF i < Len(c) THEN c[i + 1] ELSE 0) \in Element
  <2>1. Len(c) \in Nat /\ \A j \in 1 .. Len(c) : c[j] \in Element
    BY LenProperties, ElementOfSeq
  <2>2. i \in Nat
    BY RingType DEF Cell
  <2> QED
    BY <2>1, <2>2, RingType
<1> QED
  BY <1>1 DEF Vector, Ringed

LEMMA ZerosType ==
  ASSUME NEW x, Ringed(x), Covers(x, Size)
  PROVE  /\ DOMAIN Zeros(x) = Cell /\ \A i \in Cell : Zeros(x)[i] \in Element
<1>1. \A i \in Cell : x[i] \in Int
  BY ReadType, RingType DEF Cell
<1>2. PICK v : v = [i \in Cell |-> Ring(1 - x[i])]
  OBVIOUS
<1>3. Size \in Nat /\ DOMAIN v = 0 .. Size - 1 /\ \A i \in 0 .. Size - 1 : v[i] \in Int
  <2>1. \A i \in Cell : Ring(1 - x[i]) \in Element
    BY <1>1, RingType
  <2>2. DOMAIN v = Cell /\ \A i \in Cell : v[i] \in Int
    BY <1>2, <2>1, RingType
  <2> QED
    BY <2>2, RingType DEF Cell
<1>4. Zeros(x) = PrefixSum(v)
  BY <1>2 DEF Zeros
<1> QED
  BY <1>3, <1>4, PrefixSumType, RingType DEF Cell

\* The vector of an Insert is one cell longer.
LEMMA Lengths ==
  ASSUME NEW x, Vector(x, 0 .. Size), Covers(x, Size)
  PROVE  \E k \in Nat : DOMAIN x = 0 .. k - 1 /\ Size <= k
<1>1. Size \in Nat /\ Size + 1 \in Nat
  BY RingType
<1>2. CASE Size \in DOMAIN x
  <2>1. 0 .. Size \in SUBSET DOMAIN x
    BY <1>1, <1>2 DEF Covers
  <2>2. DOMAIN x = 0 .. Size
    BY <2>1 DEF Vector
  <2>3. DOMAIN x = 0 .. (Size + 1) - 1
    BY <1>1, <2>2
  <2> QED
    BY <1>1, <2>3
<1>3. CASE Size \notin DOMAIN x
  <2>1. DOMAIN x \in SUBSET (0 .. Size - 1)
    BY <1>1, <1>3 DEF Vector
  <2>2. DOMAIN x = 0 .. Size - 1
    BY <2>1 DEF Covers
  <2> QED
    BY <1>1, <2>2
<1> QED
  BY <1>2, <1>3

LEMMA OnesType ==
  ASSUME NEW x, Ringed(x), NEW k \in Nat, DOMAIN x = 0 .. k - 1, Size <= k
  PROVE  Vector(Ones(x), Cell) /\ DOMAIN Ones(x) = Cell
<1>0. Covers(x, Size) /\ Cell \in SUBSET (0 .. k - 1)
  BY RingType DEF Covers, Cell
<1>1. \A i \in 0 .. k - 1 : x[i] \in Int
  BY RingType DEF Ringed
<1>2. \A i \in Cell : PrefixSum(x)[i] \in Element
  BY <1>0, <1>1, PrefixSumType
<1>3. PICK z : z = Zeros(x)
  OBVIOUS
<1>4. \A i \in Cell : z[i] \in Element
  BY <1>0, <1>3, ZerosType
<1>5. Ones(x) = [i \in Cell |-> Ring(z[Size - 1] + PrefixSum(x)[i] - z[i])]
  BY <1>3 DEF Ones
<1>6. ASSUME NEW i \in Cell PROVE Ring(z[Size - 1] + PrefixSum(x)[i] - z[i]) \in Element
  <2>1. Size - 1 \in Cell
    BY RingType DEF Cell
  <2>2. PICK a, b, c : a = z[Size - 1] /\ b = PrefixSum(x)[i] /\ c = z[i]
    OBVIOUS
  <2>3. a \in Int /\ b \in Int /\ c \in Int
    BY <1>2, <1>4, <2>1, <2>2, RingType
  <2>4. a + b - c \in Int
    BY <2>3
  <2> QED
    BY <2>2, <2>4, RingType
<1> QED
  BY <1>5, <1>6 DEF Vector, Ringed

LEMMA PlainType ==
  ASSUME NEW k \in Nat, NEW v, \A i \in 0 .. k - 1 : v[i] \in Element
  PROVE  Plain(v, k) \in Seq(Element)
<1> DEFINE s == Plain(v, k)
<1>1. \A j \in 1 .. k : j - 1 \in 0 .. k - 1
  OBVIOUS
<1>2. s = [j \in 1 .. k |-> v[j - 1]]
  BY DEF Plain
<1> HIDE DEF s
<1>3. s \in [1 .. k -> Element]
  BY <1>1, <1>2
<1>4. s \in Seq(Element)
  BY <1>3, SeqDef
<1> QED
  BY <1>4 DEF s

LEMMA InTurnType ==
  ASSUME NEW k \in Nat, NEW u, NEW v, \A i \in 0 .. k - 1 : u[i] \in Element /\ v[i] \in Element
  PROVE  InTurn(u, v, k) \in Seq(Element)
<1> DEFINE s == InTurn(u, v, k)
<1>1. PICK n \in Nat : n = 2 * k
  OBVIOUS
<1>2. s = [j \in 1 .. n |-> IF j % 2 = 1 THEN u[j \div 2] ELSE v[(j - 1) \div 2]]
  BY <1>1 DEF InTurn
<1>3. ASSUME NEW j \in 1 .. n
      PROVE  (j % 2 = 1 => j \div 2 \in 0 .. k - 1) /\ (j % 2 # 1 => (j - 1) \div 2 \in 0 .. k - 1)
  BY <1>1
<1> HIDE DEF s
<1>4. ASSUME NEW j \in 1 .. n PROVE s[j] \in Element
  <2>1. CASE j % 2 = 1
    BY <1>2, <1>3, <2>1
  <2>2. CASE j % 2 # 1
    BY <1>2, <1>3, <2>2
  <2> QED
    BY <2>1, <2>2
<1>5. s \in [1 .. n -> Element]
  BY <1>2, <1>4
<1>6. s \in Seq(Element)
  BY <1>5, SeqDef
<1> QED
  BY <1>6 DEF s

LEMMA ComplementType ==
  ASSUME NEW v, NEW k, NEW cells, Vector(v, cells)
  PROVE  Vector(Complement(v, k), cells) /\ DOMAIN Complement(v, k) = DOMAIN v
<1>1. \A i \in DOMAIN v : (IF i < k THEN Mod - 1 - v[i] ELSE v[i]) \in Element
  <2>1. \A i \in DOMAIN v : v[i] \in 0 .. Mod - 1
    BY DEF Vector, Ringed, Element
  <2>2. Mod \in Nat
    BY RingType
  <2>3. \A i \in DOMAIN v : Mod - 1 - v[i] \in 0 .. Mod - 1
    BY <2>1, <2>2
  <2> QED
    BY <2>1, <2>3 DEF Element
<1> QED
  BY <1>1 DEF Complement, Vector, Ringed

\* The permutation of a gate that shuffles.
LEMMA PermOfType ==
  ASSUME conf \in DOMAIN Programs, secret \in Secrets, NEW i \in DOMAIN Programs[conf],
         NEW f, f = Programs[conf][i]
  PROVE  PermOf(f) \in Perms!Perm
<1>1. /\ \A j \in DOMAIN secret : secret[j] \in Perms!Perm
      /\ {f.idx, f.pi, f.omega} \subseteq DOMAIN secret
  BY SecretsAssumption
<1>2. secret[f.idx] \in Perms!Perm /\ secret[f.pi] \in Perms!Perm /\ secret[f.omega] \in Perms!Perm
  BY <1>1
<1> QED
  BY <1>2, Merged DEF PermOf

\* What a gate has when it reads its operands.
Reads(f) ==
  /\ f.type \in Interactive \cup LocalGate /\ f.size \in Nat
  /\ \A x \in Range(Operands(f)) : Vector(wires[x], 0 .. Size) /\ Covers(wires[x], SentCells(f))

LEMMA ReadByType ==
  ASSUME NEW f, Reads(f)
  PROVE  /\ Vector(ReadBy(f), 0 .. Size) /\ Covers(ReadBy(f), SentCells(f))
         /\ \A i \in 0 .. SentCells(f) - 1 : ReadBy(f)[i] \in Element
<1>1. f.in1 \in Range(Operands(f))
  BY DEF Range, Operands
<1>2. Vector(wires[f.in1], 0 .. Size) /\ Covers(wires[f.in1], SentCells(f))
  BY <1>1 DEF Reads
<1>3. Vector(ReadBy(f), 0 .. Size) /\ DOMAIN ReadBy(f) = DOMAIN wires[f.in1]
  BY <1>2, ComplementType DEF ReadBy
<1>4. Covers(ReadBy(f), SentCells(f))
  BY <1>2, <1>3 DEF Covers
<1> QED
  BY <1>3, <1>4 DEF Vector, Ringed, Covers

LEMMA MessageType ==
  ASSUME NEW f, Reads(f), f.type \in Interactive, PermOf(f) \in Perms!Perm
  PROVE  Message(f) \in Seq(Element)
<1>1. PICK x, p : x = ReadBy(f) /\ p = PermOf(f)
  OBVIOUS
<1>2. /\ Vector(x, 0 .. Size) /\ Covers(x, SentCells(f))
      /\ \A i \in 0 .. SentCells(f) - 1 : x[i] \in Element
  BY <1>1, ReadByType
<1>3. Size \in Nat /\ f.size \in Nat /\ Perms!Pos = Cell
  BY RingType DEF Reads, Perms!Pos, Cell
<1>4. ASSUME f.type \in {"Shuffle", "MergedShuffle", "Unshuffle", "Compaction", "Reveal"}
      PROVE  \A i \in Cell : x[i] \in Element
  BY <1>2, <1>4 DEF SentCells, Cell
<1>5. CASE f.type \in {"Shuffle", "MergedShuffle"}
  <2>1. PICK v : v = Perms!Scatter(p, x)
    OBVIOUS
  <2>2. v = [k \in Cell |-> x[Perms!PermInverse(p)[k]]]
    BY <1>3, <2>1 DEF Perms!Scatter
  <2>3. \A k \in Cell : v[k] \in Element
    BY <1>1, <1>4, <1>5, <2>2, Inverted
  <2>4. Plain(v, Size) \in Seq(Element)
    BY <1>3, <2>3, PlainType DEF Cell
  <2> QED
    BY <1>1, <1>5, <2>1, <2>4 DEF Message
<1>6. CASE f.type = "Unshuffle"
  <2>1. PICK v : v = Perms!Collect(p, x)
    OBVIOUS
  <2>2. v = [k \in Cell |-> x[p[k]]]
    BY <1>3, <2>1 DEF Perms!Collect
  <2>3. \A k \in Cell : v[k] \in Element
    BY <1>1, <1>4, <1>6, <2>2, Inverted
  <2>4. Plain(v, Size) \in Seq(Element)
    BY <1>3, <2>3, PlainType DEF Cell
  <2> QED
    BY <1>1, <1>6, <2>1, <2>4 DEF Message
<1>7. CASE f.type = "Reveal"
  <2>1. Plain(x, Size) \in Seq(Element)
    BY <1>3, <1>4, <1>7, PlainType DEF Cell
  <2> QED
    BY <1>1, <1>7, <2>1 DEF Message
<1>8. CASE f.type = "Compaction"
  <2>1. PICK y : y = Ones(x)
    OBVIOUS
  <2>2. Covers(x, Size) /\ Ringed(x)
    BY <1>2, <1>8 DEF SentCells, Vector
  <2>3. PICK k \in Nat : DOMAIN x = 0 .. k - 1 /\ Size <= k
    BY <1>2, <2>2, Lengths
  <2>4. \A i \in Cell : y[i] \in Element
    BY <2>1, <2>2, <2>3, OnesType DEF Vector, Ringed
  <2>5. InTurn(x, y, Size) \in Seq(Element)
    BY <1>3, <1>4, <1>8, <2>4, InTurnType DEF Cell
  <2> QED
    BY <1>1, <1>8, <2>1, <2>5 DEF Message
<1>9. CASE f.type = "MulSIMD"
  <2>1. PICK y : y = wires[f.in2]
    OBVIOUS
  <2>2. f.in2 \in Range(Operands(f)) /\ SentCells(f) = f.size
    BY <1>9 DEF Range, Operands, TwoInputs, SentCells
  <2>3. Vector(y, 0 .. Size) /\ Covers(y, f.size)
    BY <2>1, <2>2 DEF Reads
  <2>4. \A i \in 0 .. f.size - 1 : x[i] \in Element /\ y[i] \in Element
    BY <1>2, <2>2, <2>3 DEF Vector, Ringed, Covers
  <2>5. InTurn(x, y, f.size) \in Seq(Element)
    BY <1>3, <2>4, InTurnType
  <2> QED
    BY <1>1, <1>9, <2>1, <2>5 DEF Message
<1>10. CASE f.type \in {"EQZ", "Bit2A"}
  <2>1. \A i \in 0 .. f.size - 1 : x[i] \in Element
    BY <1>2, <1>10 DEF SentCells
  <2>2. InTurn(x, x, f.size) \in Seq(Element)
    BY <1>3, <2>1, InTurnType
  <2> QED
    BY <1>1, <1>10, <2>2 DEF Message
<1> QED
  BY <1>5, <1>6, <1>7, <1>8, <1>9, <1>10 DEF Interactive

LEMMA OpenedType ==
  ASSUME NEW kind, NEW k \in Nat, vals[kind] \in Seq(Element), idx[kind] \in Nat,
         idx[kind] + k <= Len(vals[kind])
  PROVE  \A j \in 0 .. k - 1 : Opened(kind, k)[j] \in Element
<1> SUFFICES ASSUME NEW j \in 0 .. k - 1 PROVE Opened(kind, k)[j] \in Element
  OBVIOUS
<1>1. PICK s, m : s = vals[kind] /\ m = idx[kind]
  OBVIOUS
<1>2. Len(s) \in Nat /\ \A i \in 1 .. Len(s) : s[i] \in Element
  BY <1>1, LenProperties, ElementOfSeq
<1>3. m + j + 1 \in 1 .. Len(s)
  BY <1>1, <1>2
<1>4. Opened(kind, k)[j] = s[m + j + 1]
  BY <1>1 DEF Opened
<1> QED
  BY <1>2, <1>3, <1>4

LEMMA Product ==
  ASSUME NEW a \in Element, NEW b \in Element
  PROVE  a * b \in Int /\ Ring(a * b) \in Element
<1>1. a \in Int /\ b \in Int
  BY RingType
<1>2. a * b \in Int
  BY <1>1
<1> QED
  BY <1>2, RingType

LEMMA ResultType ==
  ASSUME NEW f, f.type \in Interactive, f.size \in Nat, NEW x, Ringed(x),
         ReadsAgain(f) => Covers(x, SentCells(f)),
         NEW c, DOMAIN c = 0 .. OpenedCells(f) - 1, \A j \in 0 .. OpenedCells(f) - 1 : c[j] \in Element
  PROVE  Vector(Result(f, c, x), Cell)
<1>0. Size \in Nat /\ 0 \in Element /\ Element \in SUBSET Int
  BY RingType
<1>1. CASE KindOf(f) \in {"shuffle", "reveal"}
  <2>1. OpenedCells(f) = Size
    BY <1>1 DEF OpenedCells
  <2>2. Result(f, c, x) = c
    BY <1>1 DEF Result, KindOf
  <2> QED
    BY <2>1, <2>2 DEF Cell, Vector, Ringed
<1>2. CASE KindOf(f) \notin {"shuffle", "reveal"} /\ f.type = "Compaction"
  <2>1. SentCells(f) = Size /\ OpenedCells(f) = 2 * Size
    BY <1>2 DEF SentCells, OpenedCells, KindOf
  <2>2. PICK z : z = Zeros(x)
    OBVIOUS
  <2>3. \A i \in Cell : z[i] \in Element
    BY <1>2, <2>1, <2>2, ZerosType DEF ReadsAgain
  <2>4. Result(f, c, x) = [i \in Cell |-> Ring(c[2 * i] * c[2 * i + 1] + z[i] - 1)]
    BY <1>2, <2>2 DEF Result
  <2>5. ASSUME NEW i \in Cell PROVE Ring(c[2 * i] * c[2 * i + 1] + z[i] - 1) \in Element
    <3>1. 2 * i \in 0 .. 2 * Size - 1 /\ 2 * i + 1 \in 0 .. 2 * Size - 1
      BY <1>0 DEF Cell
    <3>2. PICK a \in Element, b \in Element : a = c[2 * i] /\ b = c[2 * i + 1]
      BY <2>1, <3>1
    <3>3. PICK m \in Int : m = a * b
      BY Product
    <3>4. PICK e \in Int : e = z[i]
      BY <1>0, <2>3
    <3>5. m + e - 1 \in Int
      OBVIOUS
    <3> QED
      BY <3>2, <3>3, <3>4, <3>5, RingType
  <2> QED
    BY <2>4, <2>5 DEF Vector, Ringed
<1>3. CASE KindOf(f) \notin {"shuffle", "reveal"} /\ f.type # "Compaction"
  <2>1. f.type \in {"MulSIMD", "EQZ", "Bit2A"} /\ SentCells(f) = f.size /\ OpenedCells(f) = 2 * f.size
    BY <1>3 DEF SentCells, OpenedCells, KindOf, Interactive
  <2>2. PICK v : v = [i \in Cell |->
         IF i >= f.size THEN 0
         ELSE CASE f.type = "MulSIMD" -> Ring(c[2 * i] * c[2 * i + 1])
                [] f.type = "Bit2A"   -> x[i] % 2
                [] f.type = "EQZ"     -> IF f.layer < 4 THEN c[2 * i]
                                         ELSE IF c[2 * i] = Mod - 1 THEN 1 ELSE 0]
    OBVIOUS
  <2>3. Result(f, c, x) = v
    BY <1>3, <2>2 DEF Result
  <2>4. ASSUME NEW i \in Cell PROVE v[i] \in Element
    <3>1. i \in Nat
      BY <1>0 DEF Cell
    <3>2. CASE i >= f.size
      BY <1>0, <2>2, <3>2
    <3>3. CASE i < f.size
      <4>1. 2 * i \in 0 .. 2 * f.size - 1 /\ 2 * i + 1 \in 0 .. 2 * f.size - 1
        BY <3>1, <3>3
      <4>2. c[2 * i] \in Element /\ c[2 * i + 1] \in Element /\ ~(i >= f.size)
        BY <2>1, <3>1, <3>3, <4>1
      <4>3. CASE f.type = "MulSIMD"
        <5>1. v[i] = Ring(c[2 * i] * c[2 * i + 1])
          BY <2>2, <4>2, <4>3
        <5> QED
          BY <4>2, <5>1, Product
      <4>4. CASE f.type = "Bit2A"
        <5>1. v[i] = x[i] % 2
          BY <2>2, <4>2, <4>4
        <5>2. x[i] \in Int
          BY <2>1, <3>1, <3>3, <4>4, ReadType DEF ReadsAgain
        <5> QED
          BY <5>1, <5>2, Small
      <4>5. CASE f.type = "EQZ"
        <5>1. v[i] \in {c[2 * i], 0, 1}
          BY <2>2, <4>2, <4>5
        <5> QED
          BY <1>0, <4>2, <5>1, Small
      <4> QED
        BY <2>1, <4>3, <4>4, <4>5
    <3> QED
      BY <3>1, <3>2, <3>3
  <2> QED
    BY <2>2, <2>3, <2>4 DEF Vector, Ringed
<1> QED
  BY <1>1, <1>2, <1>3

LEMMA UnaryType ==
  ASSUME NEW f, f.type \in Unary, f.size \in Nat, f.val \in Nat, NEW x, Ringed(x), Covers(x, Size),
         f.type = "Insert" => DOMAIN x = Cell
  PROVE  Vector(UnaryResult(f, x), IF f.type = "Insert" THEN 0 .. Size ELSE Cell)
<1>0. Size \in Nat /\ 0 \in Element /\ Element \in SUBSET Int
  BY RingType
<1>1. \A i \in Cell : i \in Nat /\ x[i] \in Element /\ x[i] \in Int /\ Previous(x, i) \in Element
  <2> TAKE i \in Cell
  <2>1. i \in Nat /\ i < Size /\ (i # 0 => i - 1 \in Nat /\ i - 1 < Size)
    BY <1>0 DEF Cell
  <2> QED
    BY <1>0, <2>1, ReadType DEF Previous
<1>2. \A i \in Cell : Ring(x[i] - Previous(x, i)) \in Element
  <2> TAKE i \in Cell
  <2>1. PICK a, b : a = x[i] /\ b = Previous(x, i)
    OBVIOUS
  <2>2. a \in Int /\ b \in Int
    BY <1>0, <1>1, <2>1
  <2>3. a - b \in Int
    BY <2>2
  <2> QED
    BY <2>1, <2>3, RingType
<1>3. CASE f.type = "AddConstSIMD"
  <2>1. \A i \in Cell : Ring(x[i] + f.val) \in Element
    BY <1>1, RingType
  <2>2. UnaryResult(f, x) = [i \in Cell |-> IF i < Nodes THEN Ring(x[i] + f.val) ELSE x[i]]
    BY <1>3 DEF UnaryResult
  <2> QED
    BY <1>1, <1>3, <2>1, <2>2 DEF Vector, Ringed
<1>4. CASE f.type = "MulConstSIMD"
  <2>1. ASSUME NEW i \in Cell PROVE Ring(x[i] * f.val) \in Element
    <3>1. x[i] * f.val \in Int
      BY <1>1
    <3> QED
      BY <3>1, RingType
  <2>2. UnaryResult(f, x) = [i \in Cell |-> Ring(x[i] * f.val)]
    BY <1>4 DEF UnaryResult
  <2> QED
    BY <1>4, <2>1, <2>2 DEF Vector, Ringed
<1>5. CASE f.type = "Flip"
  <2>1. \A i \in Cell : Ring(1 - x[i]) \in Element
    BY <1>1, RingType
  <2>2. UnaryResult(f, x) = [i \in Cell |-> Ring(1 - x[i])]
    BY <1>5 DEF UnaryResult
  <2> QED
    BY <1>5, <2>1, <2>2 DEF Vector, Ringed
<1>6. CASE f.type = "RemoveEdgeData"
  <2>1. UnaryResult(f, x) = [i \in Cell |-> IF i < f.size THEN x[i] ELSE 0]
    BY <1>6 DEF UnaryResult
  <2> QED
    BY <1>0, <1>1, <1>6, <2>1 DEF Vector, Ringed
<1>7. CASE f.type = "Propagate1"
  <2>1. UnaryResult(f, x) = [i \in Cell |-> IF i < Nodes THEN Ring(x[i] - Previous(x, i)) ELSE x[i]]
    BY <1>7 DEF UnaryResult
  <2> QED
    BY <1>1, <1>2, <1>7, <2>1 DEF Vector, Ringed
<1>8. CASE f.type = "Gather1"
  <2>1. PICK v : v = [i \in Cell |-> x[i]]
    OBVIOUS
  <2>2. DOMAIN v = 0 .. Size - 1 /\ \A i \in 0 .. Size - 1 : v[i] \in Int
    BY <1>1, <2>1 DEF Cell
  <2>3. UnaryResult(f, x) = PrefixSum(v)
    BY <1>8, <2>1 DEF UnaryResult
  <2> QED
    BY <1>0, <1>8, <2>2, <2>3, PrefixSumType DEF Vector, Ringed, Cell
<1>9. CASE f.type = "Gather2"
  <2>1. UnaryResult(f, x) = [i \in Cell |-> IF i < Nodes THEN Ring(x[i] - Previous(x, i)) ELSE 0]
    BY <1>9 DEF UnaryResult
  <2> QED
    BY <1>0, <1>2, <1>9, <2>1 DEF Vector, Ringed
<1>10. CASE f.type = "DeduplicationSub"
  <2>1. UnaryResult(f, x) = [i \in 0 .. Size - 2 |-> Ring(x[i + 1] - x[i])]
    BY <1>10 DEF UnaryResult
  <2>2. ASSUME NEW i \in 0 .. Size - 2 PROVE i \in Cell /\ Ring(x[i + 1] - x[i]) \in Element
    <3>1. i \in Cell /\ i + 1 \in Cell
      BY <1>0 DEF Cell
    <3>2. x[i + 1] - x[i] \in Int
      BY <1>1, <3>1
    <3> QED
      BY <3>1, <3>2, RingType
  <2> QED
    BY <1>10, <2>1, <2>2 DEF Vector, Ringed
<1>11. CASE f.type = "Insert"
  <2>1. Cardinality(DOMAIN x) = Size
    <3>1. Cardinality(0 .. Size - 1) = IF 0 > Size - 1 THEN 0 ELSE (Size - 1) - 0 + 1
      BY <1>0, FS_Interval
    <3> QED
      BY <1>0, <1>11, <3>1 DEF Cell
  <2>2. UnaryResult(f, x) = [i \in 0 .. Size |-> Previous(x, i)]
    BY <1>11, <2>1 DEF UnaryResult
  <2>3. ASSUME NEW i \in 0 .. Size PROVE Previous(x, i) \in Element
    <3>1. i # 0 => i - 1 \in Cell
      BY <1>0 DEF Cell
    <3> QED
      BY <1>0, <1>1, <3>1 DEF Previous
  <2> QED
    BY <1>11, <2>2, <2>3 DEF Vector, Ringed
<1> QED
  BY <1>3, <1>4, <1>5, <1>6, <1>7, <1>8, <1>9, <1>10, <1>11 DEF Unary

LEMMA Sums ==
  ASSUME NEW a \in Int, NEW b \in Int
  PROVE  Ring(a + b) \in Element /\ Ring(a - b) \in Element
<1>1. a + b \in Int /\ a - b \in Int
  OBVIOUS
<1> QED
  BY <1>1, RingType

LEMMA BinaryType ==
  ASSUME NEW f, f.type \in BinaryLocal, NEW x, NEW y,
         Ringed(x), Ringed(y), Covers(x, Size), Covers(y, Size),
         f.type \in {"Permute", "ReversePermute"} => \A i \in Cell : y[i] \in Cell
  PROVE  Vector(BinaryResult(f, x, y), Cell)
<1>0. Size \in Nat /\ 0 \in Element /\ Element \in SUBSET Int
  BY RingType
<1>1. \A i \in Cell : x[i] \in Element /\ y[i] \in Element /\ x[i] \in Int /\ y[i] \in Int
  <2> TAKE i \in Cell
  <2>1. i \in Nat /\ i < Size
    BY <1>0 DEF Cell
  <2> QED
    BY <1>0, <2>1, ReadType
<1>2. CASE f.type = "Permute"
  <2>1. BinaryResult(f, x, y) = [j \in Cell |-> LET from == {i \in Cell : y[i] = j}
                                             IN  IF from = {} THEN 0 ELSE x[Max(from)]]
    BY <1>2 DEF BinaryResult
  <2>2. ASSUME NEW from \in SUBSET Cell, from # {} PROVE x[Max(from)] \in Element
    <3>1. Max(from) \in Cell
      BY <2>2, MaxOfCells
    <3> QED
      BY <1>1, <3>1
  <2>3. ASSUME NEW j \in Cell
        PROVE  (LET from == {i \in Cell : y[i] = j} IN IF from = {} THEN 0 ELSE x[Max(from)]) \in Element
    <3>1. PICK from \in SUBSET Cell : from = {i \in Cell : y[i] = j}
      OBVIOUS
    <3>2. (IF from = {} THEN 0 ELSE x[Max(from)]) \in Element
      BY <1>0, <2>2
    <3> QED
      BY <3>1, <3>2
  <2> QED
    BY <2>1, <2>3 DEF Vector, Ringed
<1>3. CASE f.type = "ReversePermute"
  <2>1. BinaryResult(f, x, y) = [i \in Cell |-> x[y[i]]]
    BY <1>3 DEF BinaryResult
  <2> QED
    BY <1>1, <1>3, <2>1 DEF Vector, Ringed
<1>4. CASE f.type = "AddSIMD"
  <2>1. BinaryResult(f, x, y) = [i \in Cell |-> Ring(x[i] + y[i])]
    BY <1>4 DEF BinaryResult
  <2>2. \A i \in Cell : Ring(x[i] + y[i]) \in Element
    BY <1>1, Sums
  <2> QED
    BY <2>1, <2>2 DEF Vector, Ringed
<1>5. CASE f.type = "SubSIMD"
  <2>1. BinaryResult(f, x, y) = [i \in Cell |-> Ring(x[i] - y[i])]
    BY <1>5 DEF BinaryResult
  <2>2. \A i \in Cell : Ring(x[i] - y[i]) \in Element
    BY <1>1, Sums
  <2> QED
    BY <2>1, <2>2 DEF Vector, Ringed
<1>6. CASE f.type = "Propagate2"
  <2>1. PICK v : v = [j \in Cell |-> x[j]]
    OBVIOUS
  <2>2. DOMAIN v = 0 .. Size - 1 /\ \A i \in 0 .. Size - 1 : v[i] \in Int
    BY <1>1, <2>1 DEF Cell
  <2>3. PICK u : u = PrefixSum(v)
    OBVIOUS
  <2>4. \A i \in Cell : u[i] \in Int
    BY <1>0, <2>2, <2>3, PrefixSumType DEF Cell
  <2>5. BinaryResult(f, x, y) = [i \in Cell |-> Ring(u[i] - y[i])]
    BY <1>6, <2>1, <2>3 DEF BinaryResult
  <2>6. \A i \in Cell : Ring(u[i] - y[i]) \in Element
    BY <1>1, <2>4, Sums
  <2> QED
    BY <2>5, <2>6 DEF Vector, Ringed
<1> QED
  BY <1>2, <1>3, <1>4, <1>5, <1>6 DEF BinaryLocal, TwoInputs, Interactive

\* The sum of the first cells of a column.
LEMMA ColumnType ==
  ASSUME NEW y, Ringed(y), Covers(y, Nodes)
  PROVE  PrefixSum([j \in 0 .. Nodes - 1 |-> y[j]])[Nodes - 1] \in Element
<1>0. Nodes \in Nat /\ Nodes - 1 \in 0 .. Nodes - 1 /\ Element \in SUBSET Int
  BY RingType
<1>1. PICK v : v = [j \in 0 .. Nodes - 1 |-> y[j]]
  OBVIOUS
<1>2. ASSUME NEW j \in 0 .. Nodes - 1 PROVE v[j] \in Int
  <2>1. y[j] \in Element
    BY DEF Covers, Ringed
  <2> QED
    BY <1>0, <1>1, <2>1
<1>3. DOMAIN v = 0 .. Nodes - 1
  BY <1>1
<1>4. PrefixSum(v)[Nodes - 1] \in Element
  BY <1>0, <1>2, <1>3, PrefixSumType
<1> QED
  BY <1>1, <1>4

------------------------------------------------------------------------------
(* The values in every step *)

Room(f) == IF f.type = "Insert" THEN 0 .. Size ELSE Cell

DataInv ==
  /\ \A w \in Wire : Vector(wires[w], Room(GateOf(w)))
  /\ \A k \in Kinds : vals[k] \in Seq(Element)
  /\ output \in Seq(Element)
  /\ phase \notin {"layering", "built"} => graph \in Graphs(conf) /\ secret \in Secrets

LEMMA RoomSize == \A f : Room(f) \in SUBSET (0 .. Size) /\ Vector(NoVector, Room(f))
<1>1. Cell \in SUBSET (0 .. Size)
  BY RingType DEF Cell
<1>2. DOMAIN NoVector = {}
  BY DEF NoVector
<1> QED
  BY <1>1, <1>2 DEF Room, Vector, Ringed

LEMMA ReleasedData ==
  ASSUME SameCircuit, NEW read, NEW ws, Release(read, ws),
         \A w \in Wire : Vector(ws[w], Room(GateOf(w)))
  PROVE  \A w \in Wire' : Vector(wires'[w], Room(GateOf(w)'))
<1>1. Wire' = Wire /\ \A w : GateOf(w)' = GateOf(w)
  BY SameCircuitFacts
<1>2. \A w \in Wire : wires'[w] \in {NoVector, ws[w]}
  BY DEF Release
<1> QED
  BY <1>1, <1>2, RoomSize

LEMMA DataInit == ASSUME Init PROVE DataInv
<1>1. /\ \A w \in Wire : wires[w] = NoVector
      /\ \A k \in Kinds : vals[k] = <<>>
      /\ output = <<>> /\ phase = "layering"
  BY DEF Init
<1>2. <<>> \in Seq(Element)
  BY EmptySeq
<1> QED
  BY <1>1, <1>2, RoomSize DEF DataInv

\* What the gate handled by a sender or a receiver has to read.
LEMMA GateReads ==
  ASSUME EvalInv, DataInv, phase \in {"send", "receive"}, NEW a \in Wire, a = at, a \in ToRead,
         WireLevel(a) = lay, NEW f, f = GateOf(a), Computed(f),
         phase = "send" => f.type \in Interactive
  PROVE  /\ Reads(f)
         /\ \A x \in Range(Operands(f)) : x \in Wire /\ x # a
<1>1. Sound(gates) /\ Wire = Slots(gates)
  BY InvFacts
<1>2. f.type \in Interactive \cup LocalGate /\ f.size \in Nat
  BY <1>1, SoundGate DEF GateOf
<1>3. \A x \in Range(Operands(f)) : x \in Wire /\ x # a /\ Holds(x, SentCells(f))
  BY OperandsHeld
<1>4. \A x \in Wire : Vector(wires[x], 0 .. Size)
  BY RoomSize DEF DataInv, Vector
<1> QED
  BY <1>2, <1>3, <1>4 DEF Reads, Covers, Holds

\* A step that writes no wire.
LEMMA QuietData ==
  ASSUME DataInv, SameCircuit, wires' = wires, output' = output,
         \A k \in Kinds : vals'[k] \in Seq(Element),
         phase' \notin {"layering", "built"} => graph' \in Graphs(conf') /\ secret' \in Secrets
  PROVE  DataInv'
<1>1. Wire' = Wire /\ \A w : GateOf(w)' = GateOf(w)
  BY SameCircuitFacts
<1>2. \A w \in Wire' : Vector(wires[w], Room(GateOf(w)))'
  BY <1>1 DEF DataInv, Vector, Ringed, Room
<1>3. output' \in Seq(Element)
  BY DEF DataInv
<1> QED
  BY <1>2, <1>3 DEF DataInv

LEMMA SameData ==
  ASSUME DataInv, SameCircuit, wires' = wires, output' = output, vals' = vals,
         conf' = conf, graph' = graph, secret' = secret,
         phase' \in {"layering", "built"} \/ phase \notin {"layering", "built"}
  PROVE  DataInv'
<1>1. \A k \in Kinds : vals'[k] \in Seq(Element)
  BY DEF DataInv
<1>2. phase' \notin {"layering", "built"} => graph' \in Graphs(conf') /\ secret' \in Secrets
  BY DEF DataInv
<1> QED
  BY <1>1, <1>2, QuietData

LEMMA BuildData == ASSUME EvalInv, DataInv, AssignLevel \/ PlaceOutputs PROVE DataInv'
<1>1. /\ gates' = gates /\ conf' = conf /\ wires' = wires /\ vals' = vals /\ output' = output
      /\ phase' \in {"layering", "built"}
  BY DEF AssignLevel, PlaceOutputs
<1>2. Wire' = Wire /\ \A w : GateOf(w)' = GateOf(w)
  BY <1>1 DEF Wire, GateOf
<1>3. \A w \in Wire' : Vector(wires[w], Room(GateOf(w)))'
  BY <1>1, <1>2 DEF DataInv, Vector, Ringed, Room
<1>4. output' \in Seq(Element) /\ \A k \in Kinds : vals'[k] \in Seq(Element)
  BY <1>1 DEF DataInv
<1> QED
  BY <1>1, <1>3, <1>4 DEF DataInv

LEMMA StartData == ASSUME EvalInv, DataInv, StartRun PROVE DataInv'
<1>1. /\ SameCircuit /\ wires' = wires /\ vals' = vals /\ output' = output /\ conf' = conf
      /\ graph' \in Graphs(conf') /\ secret' \in Secrets
  BY DEF StartRun, SameCircuit
<1>2. \A k \in Kinds : vals'[k] \in Seq(Element)
  BY <1>1 DEF DataInv
<1> QED
  BY <1>1, <1>2, QuietData

LEMMA LevelData == ASSUME DataInv, NextLevel PROVE DataInv'
<1>1. /\ SameCircuit /\ wires' = wires /\ vals' = [k \in Kinds |-> <<>>] /\ output' = output /\ conf' = conf
      /\ graph' = graph /\ secret' = secret /\ phase = "receive"
  BY DEF NextLevel, SameCircuit
<1>2. \A k \in Kinds : vals'[k] \in Seq(Element)
  BY <1>1, EmptySeq
<1>3. graph' \in Graphs(conf') /\ secret' \in Secrets
  BY <1>1 DEF DataInv
<1> QED
  BY <1>1, <1>2, <1>3, QuietData

LEMMA LostData == ASSUME DataInv, phase \in {"send", "receive"}, Undefined PROVE DataInv'
<1>1. /\ SameCircuit /\ wires' = wires /\ vals' = vals /\ output' = output /\ conf' = conf
      /\ graph' = graph /\ secret' = secret
  BY DEF Undefined, SameCircuit
<1> QED
  BY <1>1, SameData

LEMMA SendData == ASSUME EvalInv, DataInv, SendGate PROVE DataInv'
<1>1. PICK a, f : a = at /\ f = GateOf(a)
  OBVIOUS
<1>2. phase = "send" /\ at < End
  BY DEF SendGate
<1>3. /\ Levelled /\ Wire = Slots(gates) /\ End \in Nat /\ Sound(gates)
      /\ Walking /\ Position /\ SendOpened /\ Vectors
  BY <1>2, InvFacts DEF Opening
<1>4. /\ a \in Senders(lay) /\ a \in Wire /\ a \in Nat /\ WireLevel(a) = lay /\ lay \in Nat
      /\ f.type \in Interactive
  BY <1>1, <1>2, <1>3, OnLevelIs DEF Position, Levelled
<1>5. a \in ToRead
  BY <1>1, <1>2, <1>4 DEF ToRead, HasSent, HasWritten
<1>6. Computed(f)
  BY <1>4 DEF Computed, Interactive
<1>7. Reads(f) /\ \A x \in Range(Operands(f)) : x \in Wire
  BY <1>1, <1>2, <1>4, <1>5, <1>6, GateReads
<1>8. \A j \in DOMAIN Operands(f) : Holds(Operands(f)[j], SentCells(f))
  BY <1>7 DEF Range, Reads, Covers, Holds
<1>9. PICK ws : ws = [wires EXCEPT ![f.in1] = ReadBy(f)]
  OBVIOUS
<1>10. /\ vals' = [vals EXCEPT ![KindOf(f)] = @ \o Message(f)]
       /\ Release(ReleasedBySend(f), ws)
       /\ phase' = "send" /\ SameCircuit /\ conf' = conf /\ output' = output
       /\ graph' = graph /\ secret' = secret
  BY <1>1, <1>2, <1>8, <1>9 DEF SendGate, SameCircuit
<1>11. Message(f) \in Seq(Element)
  <2>1. conf \in DOMAIN Programs /\ secret \in Secrets /\ a + 1 \in DOMAIN Programs[conf] /\ f = Programs[conf][a + 1]
    BY <1>1, <1>2, <1>3, <1>4, SoundGate DEF DataInv, EvalInv, GateOf
  <2>2. PermOf(f) \in Perms!Perm
    BY <2>1, PermOfType
  <2> QED
    BY <1>4, <1>7, <2>2, MessageType
<1>12. \A k \in Kinds : vals'[k] \in Seq(Element)
  <2> TAKE k \in Kinds
  <2>1. vals[k] \in Seq(Element)
    BY DEF DataInv
  <2>2. vals'[k] = IF k = KindOf(f) THEN vals[k] \o Message(f) ELSE vals[k]
    BY <1>3, <1>10 DEF SendOpened
  <2>3. vals[k] \o Message(f) \in Seq(Element)
    BY <1>11, <2>1, ConcatProperties
  <2> QED
    BY <2>1, <2>2, <2>3
<1>13. \A w \in Wire : Vector(ws[w], Room(GateOf(w)))
  <2>1. DOMAIN wires = Wire /\ f.in1 \in Wire
    <3>1. f.in1 \in Range(Operands(f))
      BY DEF Range, Operands
    <3> QED
      BY <1>3, <1>7, <3>1 DEF Vectors
  <2>2. \A w \in Wire : Vector(wires[w], Room(GateOf(w)))
    BY DEF DataInv
  <2>3. Vector(ReadBy(f), Room(GateOf(f.in1)))
    BY <2>1, <2>2, ComplementType DEF ReadBy
  <2>4. \A w \in Wire : ws[w] = IF w = f.in1 THEN ReadBy(f) ELSE wires[w]
    BY <1>9, <2>1
  <2> QED
    BY <2>2, <2>3, <2>4
<1>14. \A w \in Wire' : Vector(wires'[w], Room(GateOf(w)'))
  BY <1>10, <1>13, ReleasedData
<1>15. \A w \in Wire' : Vector(wires[w], Room(GateOf(w)))'
  BY <1>14 DEF Vector, Ringed, Room
<1>16. output' \in Seq(Element) /\ graph' \in Graphs(conf') /\ secret' \in Secrets
  BY <1>2, <1>10 DEF DataInv
<1> QED
  BY <1>12, <1>15, <1>16 DEF DataInv

\* A step of evaluate_recv that writes the wire of its gate.
LEMMA WriteData ==
  ASSUME EvalInv, DataInv, phase = "receive", at < End, NEW f, f = GateOf(at),
         NEW v, NEW read, Write(v, read), Vector(v, Room(f))
  PROVE  DataInv'
<1>1. PICK ws : ws = [wires EXCEPT ![at] = v]
  OBVIOUS
<1>2. /\ Release(read, ws) /\ SameCircuit /\ conf' = conf /\ phase' = phase /\ output' = output
      /\ graph' = graph /\ secret' = secret /\ vals' = vals
  BY <1>1 DEF Write, SameCircuit
<1>3. DOMAIN wires = Wire
  BY InvFacts DEF Vectors
<1>4. \A w \in Wire : Vector(ws[w], Room(GateOf(w)))
  <2> TAKE w \in Wire
  <2>1. ws[w] = IF w = at THEN v ELSE wires[w]
    BY <1>1, <1>3
  <2> QED
    BY <2>1 DEF DataInv
<1>5. \A w \in Wire' : Vector(wires'[w], Room(GateOf(w)'))
  BY <1>2, <1>4, ReleasedData
<1>6. \A w \in Wire' : Vector(wires[w], Room(GateOf(w)))'
  BY <1>5 DEF Vector, Ringed, Room
<1>7. /\ output' \in Seq(Element) /\ graph' \in Graphs(conf') /\ secret' \in Secrets
      /\ \A k \in Kinds : vals'[k] \in Seq(Element)
  BY <1>2 DEF DataInv
<1> QED
  BY <1>6, <1>7 DEF DataInv

\* The gate in evaluate_recv, its fields and what it reads.
LEMMA ReceiveReads ==
  ASSUME EvalInv, DataInv, phase = "receive", at < End, NEW a, a = at, NEW f, f = GateOf(a)
  PROVE  /\ a \in Wire /\ a \in Nat /\ a + 1 \in DOMAIN gates /\ f = gates[a + 1] /\ f \in Gate
         /\ f.size \in Nat /\ f.val \in Nat /\ f.vals \in Seq(Element) /\ f.columns \in Seq(Nat)
         /\ ~ReadsOnce(f) /\ Computed(f) =>
              \A x \in Range(Operands(f)) :
                /\ x \in Wire /\ Ringed(wires[x]) /\ Vector(wires[x], Room(GateOf(x)))
                /\ Covers(wires[x], SentCells(f)) /\ Holds(x, SentCells(f))
<1>1. Sound(gates) /\ Wire = Slots(gates)
  BY InvFacts
<1>2. a \in Wire /\ a \in Nat /\ WireLevel(a) = lay /\ (~ReadsOnce(f) => a \in ToRead)
  BY ReceiveFacts
<1>3. a + 1 \in DOMAIN gates /\ f = gates[a + 1] /\ f \in Gate
  BY <1>1, <1>2, SoundGate DEF GateOf
<1>4. f.size \in Nat /\ f.val \in Nat /\ f.vals \in Seq(Element) /\ f.columns \in Seq(Nat)
  BY <1>3 DEF Gate, Element
<1>5. ASSUME ~ReadsOnce(f), Computed(f), NEW x \in Range(Operands(f))
      PROVE  /\ x \in Wire /\ Ringed(wires[x]) /\ Vector(wires[x], Room(GateOf(x)))
             /\ Covers(wires[x], SentCells(f)) /\ Holds(x, SentCells(f))
  <2>1. x \in Wire /\ Covers(wires[x], SentCells(f))
    BY <1>2, <1>5, GateReads DEF Reads
  <2>2. Vector(wires[x], Room(GateOf(x)))
    BY <2>1 DEF DataInv
  <2> QED
    BY <2>1, <2>2 DEF Vector, Covers, Holds
<1> QED
  BY <1>2, <1>3, <1>4, <1>5

LEMMA RecvInputData == ASSUME EvalInv, DataInv, RecvInput PROVE DataInv'
<1>1. PICK a, f : a = at /\ f = GateOf(a)
  OBVIOUS
<1>2. phase = "receive" /\ at < End /\ f.type = "Input" /\ Write(InputVector(a), <<>>)
  BY <1>1 DEF RecvInput, Receiving
<1>3. conf \in DOMAIN Programs /\ graph \in Graphs(conf)
  BY <1>2 DEF EvalInv, DataInv
<1>4. Vector(InputVector(a), Cell)
  BY <1>1, <1>2, <1>3, ReceiveReads, InputVectorType
<1>5. Room(f) = Cell
  BY <1>2 DEF Room
<1>6. PICK v : v = InputVector(a)
  OBVIOUS
<1> QED
  BY <1>1, <1>2, <1>4, <1>5, <1>6, WriteData

LEMMA RecvSetConstData == ASSUME EvalInv, DataInv, RecvSetConst PROVE DataInv'
<1>1. PICK a, f : a = at /\ f = GateOf(a)
  OBVIOUS
<1>2. PICK v : v = [i \in Cell |-> IF i < Len(f.vals) THEN f.vals[i + 1] ELSE 0]
  OBVIOUS
<1>3. phase = "receive" /\ at < End /\ f.type = "SetConstVecSIMD" /\ Write(v, <<>>)
  BY <1>1, <1>2 DEF RecvSetConst, Receiving
<1>4. f.vals \in Seq(Element)
  BY <1>1, <1>3, ReceiveReads
<1>5. Vector(v, Cell)
  BY <1>2, <1>4, SetConstType
<1>6. Room(f) = Cell
  BY <1>3 DEF Room
<1> QED
  BY <1>1, <1>3, <1>5, <1>6, WriteData

LEMMA RecvInteractiveData == ASSUME EvalInv, DataInv, RecvInteractive PROVE DataInv'
<1>1. PICK a, f : a = at /\ f = GateOf(a)
  OBVIOUS
<1>2. phase = "receive" /\ at < End /\ f.type \in Interactive
  BY <1>1 DEF RecvInteractive, Receiving
<1>3. Walking /\ Position /\ RecvOpened
  BY <1>2, InvFacts DEF Opening
<1>4. a \in Nat /\ a \in Senders(lay)
  BY <1>1, <1>2, ReceiveFacts
<1>5. PICK kind, n : kind = KindOf(f) /\ n = OpenedCells(f)
  OBVIOUS
<1>6. kind \in Kinds /\ n \in Nat /\ idx[kind] \in Nat /\ idx[kind] + n <= Len(vals[kind])
  BY <1>1, <1>3, <1>4, <1>5, OpenedThere
<1>7. ReadsAgain(f) => ~ReadsOnce(f) /\ Computed(f) /\ f.in1 \in Range(Operands(f))
  BY <1>2 DEF ReadsAgain, ReadsOnce, Computed, Range, Operands
<1>8. ReadsAgain(f) => Covers(wires[f.in1], SentCells(f)) /\ Ringed(wires[f.in1])
                       /\ Holds(f.in1, SentCells(f))
  BY <1>1, <1>2, <1>7, ReceiveReads
<1>9. PICK c, x : c = Opened(kind, n) /\ x = wires[f.in1]
  OBVIOUS
<1>10. PICK v, read : v = Result(f, c, x) /\ read = IF ReadsAgain(f) THEN <<f.in1>> ELSE <<>>
  OBVIOUS
<1>11. Write(v, read)
  BY <1>1, <1>2, <1>5, <1>6, <1>8, <1>9, <1>10 DEF RecvInteractive
<1>12. DOMAIN c = 0 .. n - 1 /\ \A j \in 0 .. n - 1 : c[j] \in Element
  <2>1. vals[kind] \in Seq(Element)
    BY <1>6 DEF DataInv
  <2>2. DOMAIN c = 0 .. n - 1
    BY <1>9 DEF Opened
  <2> QED
    BY <1>6, <1>9, <2>1, <2>2, OpenedType
<1>13. Ringed(x)
  <2>1. f.in1 \in Wire
    <3>1. Shape /\ a < Len(gates) /\ Len(gates) \in Nat
      BY <1>1, <1>2, InvFacts DEF End, Shape
    <3>2. Computed(f) /\ f.in1 \in {f.in1, f.in2}
      BY <1>2 DEF Computed, Interactive
    <3>3. f.in1 \in Nat /\ f.in1 < a
      BY <1>1, <1>4, <3>1, <3>2, Wired
    <3> QED
      BY <1>4, <3>1, <3>3 DEF Wire
  <2> QED
    BY <1>9, <2>1 DEF DataInv, Vector
<1>14. Vector(v, Cell)
  BY <1>1, <1>2, <1>5, <1>8, <1>9, <1>10, <1>12, <1>13, ResultType, ReceiveReads
<1>15. Room(f) = Cell
  BY <1>2 DEF Room, Interactive
<1> QED
  BY <1>1, <1>2, <1>11, <1>14, <1>15, WriteData

LEMMA RecvUnaryData == ASSUME EvalInv, DataInv, RecvUnary PROVE DataInv'
<1>1. PICK a, f : a = at /\ f = GateOf(a)
  OBVIOUS
<1>2. phase = "receive" /\ at < End /\ f.type \in Unary
  BY <1>1 DEF RecvUnary, Receiving
<1>3. /\ f.type \notin Interactive /\ ~ReadsOnce(f) /\ Computed(f)
      /\ f.in1 \in Range(Operands(f)) /\ SentCells(f) = Size
  BY <1>2 DEF Unary, Interactive, ReadsOnce, Computed, Operands, TwoInputs, Range, SentCells
<1>4. PICK x : x = wires[f.in1]
  OBVIOUS
<1>5. /\ f.in1 \in Wire /\ Ringed(x) /\ Vector(x, Room(GateOf(f.in1))) /\ Covers(x, Size)
      /\ Holds(f.in1, Size) /\ f.size \in Nat /\ f.val \in Nat
  BY <1>1, <1>2, <1>3, <1>4, ReceiveReads
<1>6. Holds(f.in1, ReadCells(f))
  BY <1>5, ConfAssumption DEF Holds, ReadCells
<1>7. PICK v : v = UnaryResult(f, x)
  OBVIOUS
<1>8. Write(v, <<f.in1>>)
  BY <1>1, <1>2, <1>4, <1>6, <1>7 DEF RecvUnary
<1>9. f.type = "Insert" => DOMAIN x = Cell
  <2> SUFFICES ASSUME f.type = "Insert" PROVE DOMAIN x = Cell
    OBVIOUS
  <2>1. Fitting(gates) /\ a + 1 \in DOMAIN gates /\ f = gates[a + 1]
    BY <1>1, <1>2, InvFacts, ReceiveReads DEF Sound
  <2>2. GateOf(f.in1).type # "Insert"
    BY <2>1 DEF Fitting, GateOf
  <2> QED
    BY <1>5, <2>2 DEF Room, Vector, Covers, Cell
<1>10. Vector(v, Room(f))
  BY <1>2, <1>5, <1>7, <1>9, UnaryType DEF Room
<1> QED
  BY <1>1, <1>2, <1>8, <1>10, WriteData

LEMMA RecvBinaryData == ASSUME EvalInv, DataInv, RecvBinary PROVE DataInv'
<1>1. PICK a, f : a = at /\ f = GateOf(a)
  OBVIOUS
<1>2. phase = "receive" /\ at < End /\ f.type \in BinaryLocal
  BY <1>1 DEF RecvBinary, Receiving
<1>3. /\ f.type \notin Interactive /\ ~ReadsOnce(f) /\ Computed(f)
      /\ f.in1 \in Range(Operands(f)) /\ f.in2 \in Range(Operands(f)) /\ SentCells(f) = Size
  BY <1>2 DEF BinaryLocal, Interactive, ReadsOnce, Computed, Operands, TwoInputs, Range, SentCells
<1>4. PICK x, y : x = wires[f.in1] /\ y = wires[f.in2]
  OBVIOUS
<1>5. Ringed(x) /\ Ringed(y) /\ Covers(x, Size) /\ Covers(y, Size)
  BY <1>1, <1>2, <1>3, <1>4, ReceiveReads
<1>6. CASE Undefined
  BY <1>2, <1>6, LostData
<1>7. CASE ~Undefined
  <2>1. PICK v : v = BinaryResult(f, x, y)
    OBVIOUS
  <2>2. /\ Write(v, <<f.in1, f.in2>>)
        /\ f.type \in {"Permute", "ReversePermute"} => \A i \in Cell : y[i] \in Cell
    BY <1>1, <1>4, <1>7, <2>1 DEF RecvBinary
  <2>3. Vector(v, Cell)
    BY <1>2, <1>5, <2>1, <2>2, BinaryType
  <2>4. Room(f) = Cell
    BY <1>2 DEF Room, BinaryLocal, TwoInputs
  <2> QED
    BY <1>1, <1>2, <2>2, <2>3, <2>4, WriteData
<1> QED
  BY <1>6, <1>7

LEMMA RecvColumnSumsData == ASSUME EvalInv, DataInv, RecvColumnSums PROVE DataInv'
<1>1. PICK a, f : a = at /\ f = GateOf(a)
  OBVIOUS
<1>2. phase = "receive" /\ at < End /\ f.type = "ColumnSumsToNodes"
  BY <1>1 DEF RecvColumnSums, Receiving
<1>3. CASE Undefined
  BY <1>2, <1>3, LostData
<1>4. CASE ~Undefined
  <2>1. PICK s : s = f.columns
    OBVIOUS
  <2>2. PICK v : v = [i \in Cell |->
                       IF i >= Nodes THEN 0
                       ELSE PrefixSum([j \in 0 .. Nodes - 1 |-> wires[s[i + 1]][j]])[Nodes - 1]]
    OBVIOUS
  <2>3. /\ Len(s) >= Nodes /\ \A i \in 0 .. Nodes - 1 : Holds(s[i + 1], Nodes)
        /\ Write(v, <<>>)
    BY <1>1, <1>4, <2>1, <2>2 DEF RecvColumnSums
  <2>4. ASSUME NEW i \in Cell, i < Nodes
        PROVE  PrefixSum([j \in 0 .. Nodes - 1 |-> wires[s[i + 1]][j]])[Nodes - 1] \in Element
    <3>1. /\ a \in Wire /\ a \in Nat /\ a + 1 \in DOMAIN gates /\ f = gates[a + 1]
          /\ s \in Seq(Nat) /\ Fitting(gates) /\ Wire = Slots(gates)
      BY <1>1, <1>2, <2>1, InvFacts, ReceiveReads DEF Sound
    <3>2. i \in 0 .. Nodes - 1 /\ i + 1 \in 1 .. Len(s)
      <4>1. Nodes \in Nat /\ Len(s) \in Nat /\ i \in Nat
        BY <3>1, RingType, LenProperties DEF Cell
      <4> QED
        BY <2>3, <2>4, <4>1
    <3>3. s[i + 1] \in Nat /\ i + 1 \in DOMAIN s
      BY <3>1, <3>2, LenProperties, ElementOfSeq
    <3>4. s[i + 1] < a
      <4>1. s[i + 1] < (a + 1) - 1
        BY <2>1, <3>1, <3>3 DEF Fitting
      <4> QED
        BY <3>1, <4>1
    <3>5. s[i + 1] \in Wire
      <4>1. Len(gates) \in Nat
        BY <1>2, InvFacts DEF Sound
      <4> QED
        BY <3>1, <3>3, <3>4, <4>1 DEF Wire
    <3>6. PICK y : y = wires[s[i + 1]]
      OBVIOUS
    <3>7. Ringed(y) /\ Covers(y, Nodes)
      BY <2>3, <3>2, <3>5, <3>6 DEF DataInv, Vector, Holds, Covers
    <3> QED
      BY <3>6, <3>7, ColumnType
  <2>5. Vector(v, Cell)
    <3>1. ASSUME NEW i \in Cell PROVE v[i] \in Element
      <4>1. i \in Int /\ Nodes \in Int /\ 0 \in Element
        BY RingType DEF Cell
      <4>2. CASE i >= Nodes
        BY <2>2, <4>1, <4>2
      <4>3. CASE i < Nodes
        BY <2>2, <2>4, <4>1, <4>3
      <4> QED
        BY <4>1, <4>2, <4>3
    <3>2. DOMAIN v = Cell
      BY <2>2
    <3> QED
      BY <3>1, <3>2 DEF Vector, Ringed
  <2>6. Room(f) = Cell
    BY <1>2 DEF Room
  <2> QED
    BY <1>1, <1>2, <2>3, <2>5, <2>6, WriteData
<1> QED
  BY <1>3, <1>4

LEMMA RecvOutputData == ASSUME EvalInv, DataInv, RecvOutput PROVE DataInv'
<1>1. PICK a, f : a = at /\ f = GateOf(a)
  OBVIOUS
<1>2. phase = "receive" /\ at < End /\ f.type = "Output"
  BY <1>1 DEF RecvOutput, Receiving
<1>3. /\ f.type \notin Interactive /\ ~ReadsOnce(f) /\ Computed(f)
      /\ f.in1 \in Range(Operands(f)) /\ SentCells(f) = Size
  BY <1>2 DEF Interactive, ReadsOnce, Computed, Operands, Range, TwoInputs, SentCells
<1>4. PICK x : x = wires[f.in1]
  OBVIOUS
<1>5. Ringed(x) /\ Covers(x, Size) /\ Holds(f.in1, Size)
  BY <1>1, <1>2, <1>3, <1>4, ReceiveReads
<1>6. /\ output' = output \o Plain(x, Size) /\ Release(<<f.in1>>, wires)
      /\ SameCircuit /\ conf' = conf /\ phase' = phase /\ graph' = graph /\ secret' = secret
      /\ vals' = vals
  BY <1>1, <1>4, <1>5 DEF RecvOutput, SameCircuit
<1>7. output' \in Seq(Element)
  <2>1. Plain(x, Size) \in Seq(Element)
    BY <1>5, PlainType, RingType DEF Ringed, Covers
  <2>2. output \in Seq(Element)
    BY DEF DataInv
  <2> QED
    BY <1>6, <2>1, <2>2, ConcatProperties
<1>8. \A w \in Wire : Vector(wires[w], Room(GateOf(w)))
  BY DEF DataInv
<1>9. PICK read, ws : read = <<f.in1>> /\ ws = wires
  OBVIOUS
<1>10. \A w \in Wire' : Vector(wires'[w], Room(GateOf(w)'))
  BY <1>6, <1>8, <1>9, ReleasedData
<1>11. \A w \in Wire' : Vector(wires[w], Room(GateOf(w)))'
  BY <1>10 DEF Vector, Ringed, Room
<1>12. /\ graph' \in Graphs(conf') /\ secret' \in Secrets
       /\ \A k \in Kinds : vals'[k] \in Seq(Element)
  BY <1>2, <1>6 DEF DataInv
<1> QED
  BY <1>7, <1>11, <1>12 DEF DataInv

LEMMA DataNext == ASSUME EvalInv, DataInv, [Next]_vars PROVE DataInv'
<1>1. CASE AssignLevel \/ PlaceOutputs  BY <1>1, BuildData
<1>2. CASE StartRun        BY <1>2, StartData
<1>3. CASE SendGate        BY <1>3, SendData
<1>4. CASE Exchange
  <2>1. /\ SameCircuit /\ wires' = wires /\ vals' = vals /\ output' = output /\ conf' = conf
        /\ graph' = graph /\ secret' = secret /\ phase = "send"
    BY <1>4 DEF Exchange, SameCircuit
  <2> QED
    BY <2>1, SameData
<1>5. CASE RecvInput       BY <1>5, RecvInputData
<1>6. CASE RecvSetConst    BY <1>6, RecvSetConstData
<1>7. CASE RecvInteractive BY <1>7, RecvInteractiveData
<1>8. CASE RecvUnary       BY <1>8, RecvUnaryData
<1>9. CASE RecvBinary      BY <1>9, RecvBinaryData
<1>10. CASE RecvColumnSums BY <1>10, RecvColumnSumsData
<1>11. CASE RecvOutput     BY <1>11, RecvOutputData
<1>12. CASE NextLevel      BY <1>12, LevelData
<1>13. CASE UNCHANGED vars \/ Terminated
  <2>1. /\ SameCircuit /\ wires' = wires /\ vals' = vals /\ output' = output /\ conf' = conf
        /\ graph' = graph /\ secret' = secret /\ phase' = phase
    BY <1>13 DEF Terminated, SameCircuit, vars
  <2> QED
    BY <2>1, SameData
<1> QED
  BY <1>1, <1>2, <1>3, <1>4, <1>5, <1>6, <1>7, <1>8, <1>9, <1>10, <1>11, <1>12, <1>13 DEF Next

------------------------------------------------------------------------------
(* The counters *)

Counters ==
  /\ lay \in Nat /\ at \in 0 .. End
  /\ \A w \in Wire : waiting[w] \in Nat
  /\ \A k \in Kinds : idx[k] \in 0 .. Len(vals[k])

CountersRunning == phase \in {"send", "receive"} => Counters

LEMMA CountersImplied == ASSUME EvalInv PROVE CountersRunning
<1> SUFFICES ASSUME phase \in {"send", "receive"} PROVE Counters
  BY DEF CountersRunning
<1>1. Levelled /\ Position /\ End \in Nat
  BY InvFacts
<1>2. Bookkeeping
  BY BookkeepingImplied
<1>3. at \in Wire \cup {End}
  BY <1>1, OnLevelIs DEF Position
<1>4. at \in 0 .. End /\ lay \in Nat
  BY <1>1, <1>3 DEF Levelled, Position
<1> QED
  BY <1>2, <1>4 DEF Bookkeeping, Counters

LEMMA CountersInit == ASSUME Init PROVE Counters
<1>1. EvalInv
  BY InitInv
<1>2. Len(gates) \in Nat
  BY <1>1 DEF EvalInv, Sound
<1> QED
  BY <1>2, EmptyList DEF Init, Counters, End

\* No step that leaves the walk takes a counter out of its range.
LEMMA CountersKept ==
  ASSUME EvalInv, Counters, [Next]_vars, phase' \notin {"send", "receive"}
  PROVE  Counters'
<1> DEFINE Frozen == /\ gates' = gates /\ lay' = lay /\ at' = at /\ waiting' = waiting
                     /\ vals' = vals /\ idx' = idx
<1>1. ASSUME Frozen PROVE Counters'
  <2>1. End' = End /\ Wire' = Wire
    BY <1>1 DEF End, Wire
  <2> QED
    BY <1>1, <2>1 DEF Counters
<1>2. Undefined \/ AssignLevel \/ PlaceOutputs \/ Terminated \/ UNCHANGED vars => Frozen
  BY DEF Undefined, AssignLevel, PlaceOutputs, Terminated, vars
<1>3. ~StartRun /\ ~Exchange
  BY DEF StartRun, Exchange
<1>4. SendGate => Undefined
  BY DEF SendGate
<1>5. \A v, read : ~ (phase = "receive" /\ Write(v, read))
  BY DEF Write
<1>6. RecvInput \/ RecvSetConst \/ RecvInteractive \/ RecvUnary \/ RecvBinary \/ RecvColumnSums => Undefined
  BY <1>5 DEF RecvInput, RecvSetConst, RecvInteractive, RecvUnary, RecvBinary, RecvColumnSums, Receiving
<1>7. RecvOutput => Undefined
  BY DEF RecvOutput, Receiving
<1>8. CASE NextLevel
  <2>1. /\ phase = "receive" /\ at = End /\ gates' = gates /\ lay' = lay /\ at' = at
        /\ waiting' = waiting /\ vals' = [k \in Kinds |-> <<>>] /\ idx' = idx
    BY <1>8 DEF NextLevel
  <2>2. \A k \in Kinds : idx[k] = 0
    BY <2>1, BookkeepingImplied DEF Bookkeeping
  <2>3. End' = End /\ Wire' = Wire
    BY <2>1 DEF End, Wire
  <2>4. \A k \in Kinds : idx'[k] \in 0 .. Len(vals'[k])
    BY <2>1, <2>2, EmptyList
  <2> QED
    BY <2>1, <2>3, <2>4 DEF Counters
<1> QED
  BY <1>1, <1>2, <1>3, <1>4, <1>6, <1>7, <1>8 DEF Next

LEMMA CountersNext ==
  ASSUME EvalInv, Counters, [Next]_vars, CountersRunning'
  PROVE  Counters'
BY CountersKept DEF CountersRunning

LEMMA TypesImplied ==
  ASSUME EvalInv, DataInv, Counters
  PROVE  TypeOK
<1>1. /\ level \in Seq(Nat) /\ Len(level) <= Len(gates) /\ depth \in Nat
      /\ phase \in {"layering", "built", "send", "receive", "done", "undefined"}
  BY DEF EvalInv, LevelInv, Shape
<1>2. \A w \in Wire : IsVector(wires[w])
  BY RoomSize DEF DataInv, Vector, Ringed, Element, IsVector
<1>3. \A k \in Kinds : vals[k] \in Seq(0 .. Mod - 1)
  BY DEF DataInv, Element
<1>4. output \in Seq(0 .. Mod - 1)
  BY DEF DataInv, Element
<1> QED
  BY <1>1, <1>2, <1>3, <1>4 DEF Counters, TypeOK

\* Every value the evaluation of a circuit computes is a ring element in a
\* cell of a vector no longer than the list and one, every permutation that
\* evaluate_send applies is one, prefix sums and the running differences of
\* evaluator.cpp stay in the ring, and the counters stay in their ranges,
\* whatever the graph and the permutations, for every circuit that fits.
THEOREM TypesAlways == Spec => []TypeOK
<1>1. Init => DataInv /\ Counters
  BY DataInit, CountersInit
<1>2. EvalInv => CountersRunning
  BY CountersImplied
<1>3. EvalInv /\ DataInv /\ [Next]_vars => DataInv'
  BY DataNext
<1>4. EvalInv /\ Counters /\ [Next]_vars /\ CountersRunning' => Counters'
  BY CountersNext
<1>5. EvalInv /\ DataInv /\ Counters => TypeOK
  BY TypesImplied
<1> QED
  BY <1>1, <1>2, <1>3, <1>4, <1>5, EvalAlways, PTL DEF Spec
==============================================================================
