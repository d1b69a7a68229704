------------------------------ MODULE Evaluation ------------------------------
(***************************************************************************)
(* Circuit::level_order and Evaluator::run: a list of gates is cut into    *)
(* levels, one per round of communication, and evaluated level by level.   *)
(* In a level the interactive gates first put their messages into four     *)
(* vectors (evaluate_send); when the partner's messages are in, every gate *)
(* of the level writes its wire (evaluate_recv), taking what was opened    *)
(* from the vectors by position.  A wire is a vector that is freed when    *)
(* its last reader is done; an EQZ gate of layer 0 overwrites the wire it  *)
(* reads.                                                                  *)
(*                                                                         *)
(* Both parties make the same steps.  A wire holds the value the two       *)
(* parties share: that the two shares of every gate's result add up to     *)
(* what is computed here from the shared operands is module GateProtocol,  *)
(* that the parties use the same randomness is module Correlation.  The    *)
(* result of a binary gate is the value that its shares xor to.            *)
(*                                                                         *)
(* Sources: src/core/circuit.cpp (level_order), evaluator.cpp, evaluator.h *)
(***************************************************************************)
EXTENDS Integers, FiniteSets, Circuit

CONSTANTS Programs,  \* configuration -> the gates of Circuit::build
          Graphs(_), \* the inputs of a configuration: lists of Size
                     \* entries [src, dst, isV, data]
          Secrets,   \* functions from shuffle ids to permutations
          Mod        \* the ring is 0 .. Mod-1 (2^32 in the code)

Gate == [type : Interactive \cup LocalGate, in1 : Nat, in2 : Nat, size : Nat, layer : Nat,
         idx : Nat, pi : Nat, omega : Nat, binary : BOOLEAN, val : Nat,
         vals : Seq(0 .. Mod - 1), columns : Seq(Nat)]

\* Input and SetConst gates compute from nothing; the others read the wires
\* of gates created before, and the wire of an Output is read by none.
Computed(f) == f.type \notin {"Input", "SetConstVecSIMD"}
WellWired(p) ==
  \A i \in DOMAIN p : Computed(p[i]) =>
    \A x \in {p[i].in1, p[i].in2} : x < i - 1 /\ p[x + 1].type # "Output"

ASSUME ProgramsAssumption ==
  \A o \in DOMAIN Programs : Programs[o] \in Seq(Gate) /\ WellWired(Programs[o])

ASSUME RingAssumption == Mod \in Nat /\ Mod > Size  \* positions are ring elements

\* So are the values of the entries.
ASSUME GraphsAssumption ==
  LET Element == 0 .. Mod - 1
  IN  \A o \in DOMAIN Programs :
        Graphs(o) \subseteq [1 .. Size -> [src : Element, dst : Element, isV : Element, data : Element]]

VARIABLES
  conf,     \* the configuration all servers agreed on
  gates,    \* Circuit::gates
  level,    \* function_level of the gates done so far
  depth,    \* the highest of them
  graph,    \* the input, once it is shared
  secret,   \* the composite permutation of each shuffle id
  phase,
  lay,      \* the level in progress
  at,       \* the wire of the gate to be handled next in this level
  waiting,  \* readers left, per wire
  wires,
  vals,     \* mul_vals, and_vals, shuffle_vals, reveal_vals
  idx,      \* mul_idx, and_idx, shuffle_idx, reveal_idx
  output

vars == <<conf, gates, level, depth, graph, secret, phase, lay, at, waiting, wires, vals, idx, output>>

Perms == INSTANCE Permutations WITH n <- Size

\* Each shuffle id of a circuit has a permutation.
ASSUME SecretsAssumption ==
  \A s \in Secrets :
    /\ \A i \in DOMAIN s : s[i] \in Perms!Perm
    /\ \A o \in DOMAIN Programs : \A i \in DOMAIN Programs[o] :
         LET f == Programs[o][i] IN {f.idx, f.pi, f.omega} \subseteq DOMAIN s

Wire == 0 .. Len(gates) - 1
End == Len(gates)           \* the position behind the last gate
GateOf(w) == gates[w + 1]

Cell == 0 .. Size - 1
Ring(x) == x % Mod
NoVector == <<>>            \* a vector of length 0: not written yet, or freed
Kinds == {"mul", "and", "shuffle", "reveal"}

------------------------------------------------------------------------------
(* level_order *)

WireLevel(w) == IF w < Len(level) THEN level[w + 1] ELSE 0
\* A slip: the second operand does not count.
Slip_InputLevel(f) == WireLevel(f.in1)
InputLevel(f) == Max({WireLevel(f.in1), WireLevel(f.in2)})

\* A slip: Reveal is taken for a local gate.
Slip_GateLevel(f) == InputLevel(f) + (IF f.type \in Interactive \ {"Reveal"} THEN 1 ELSE 0)
GateLevel(f) == InputLevel(f) + (IF f.type \in Interactive THEN 1 ELSE 0)

AssignLevel ==
  /\ phase = "layering"
  /\ Len(level) < Len(gates)
  /\ LET f == gates[Len(level) + 1] IN
       IF f.type = "Output"
       THEN level' = Append(level, 0) /\ UNCHANGED depth
       ELSE level' = Append(level, GateLevel(f)) /\ depth' = Max({depth, GateLevel(f)})
  /\ UNCHANGED <<conf, gates, graph, secret, phase, lay, at, waiting, wires, vals, idx, output>>

\* Outputs wait for the last level.
PlaceOutputs ==
  /\ phase = "layering"
  /\ Len(level) = Len(gates)
  /\ level' = [i \in DOMAIN level |-> IF gates[i].type = "Output" THEN depth ELSE level[i]]
  /\ phase' = "built"
  /\ UNCHANGED <<conf, gates, depth, graph, secret, lay, at, waiting, wires, vals, idx, output>>

------------------------------------------------------------------------------
(* The walk over the levels *)

OnLevel(l) == {w \in Wire : level[w + 1] = l}
Senders(l) == {w \in OnLevel(l) : GateOf(w).type \in Interactive}
\* The first gate of S from w on, in the order of creation.
NextIn(S, w) == Min({v \in S : v >= w} \cup {End})

\* A slip: only first operands count.
Slip_Readers(w) == Cardinality({v \in Wire : GateOf(v).in1 = w})
\* A slip: a gate with one operand has it as both.
Slip_CountedTwice(w) ==
  LET in2(f) == IF f.type \in TwoInputs THEN f.in2 ELSE f.in1
  IN  Cardinality({v \in Wire : GateOf(v).in1 = w})
      + Cardinality({v \in Wire : w # 0 /\ in2(GateOf(v)) = w})
\* init_waiting: the second operand counts unless it is wire 0.
Readers(w) ==
  Cardinality({v \in Wire : GateOf(v).in1 = w})
  + Cardinality({v \in Wire : w # 0 /\ GateOf(v).in2 = w})

StartRun ==
  /\ phase = "built"
  /\ graph' \in Graphs(conf)
  /\ secret' \in Secrets
  /\ waiting' = [w \in Wire |-> Readers(w)]
  /\ phase' = "send"
  /\ at' = NextIn(Senders(0), 0)
  /\ UNCHANGED <<conf, gates, level, depth, lay, wires, vals, idx, output>>

\* The cells 0..k-1 of wire w can be read.
Holds(w, k) == 0 .. k - 1 \subseteq DOMAIN wires[w]

\* update_wire and update_wires for the operands in the sequence `read',
\* after the wires became ws.
Release(read, ws) ==
  LET times(w) == Cardinality({j \in DOMAIN read : read[j] = w})
      left == [w \in Wire |-> waiting[w] - times(w)]
  IN  /\ waiting' = left
      /\ wires' = [w \in Wire |-> IF times(w) > 0 /\ left[w] = 0 THEN NoVector ELSE ws[w]]

Operands(f) == IF f.type \in TwoInputs THEN <<f.in1, f.in2>> ELSE <<f.in1>>

\* Reading a vector beyond its end is undefined.
Undefined ==
  /\ phase' = "undefined"
  /\ UNCHANGED <<conf, gates, level, depth, graph, secret, lay, at, waiting, wires, vals, idx, output>>

------------------------------------------------------------------------------
(* evaluate_send *)

PrefixSum(v) ==
  LET s[i \in DOMAIN v] == v[i] + (IF i = 0 THEN 0 ELSE s[i - 1])
  IN  [i \in DOMAIN v |-> Ring(s[i])]

\* The cells 0..k-1 of v as a sequence, and those of two vectors in turn.
Plain(v, k) == [j \in 1..k |-> v[j - 1]]
InTurn(u, v, k) == [j \in 1..2 * k |-> IF j % 2 = 1 THEN u[j \div 2] ELSE v[(j - 1) \div 2]]

\* What the shares of a Shuffle or MergedShuffle id move: a merged id
\* undoes pi and applies omega.
PermOf(f) ==
  IF f.type = "MergedShuffle"
  THEN Perms!Compose(secret[f.omega], Perms!PermInverse(secret[f.pi]))
  ELSE secret[f.idx]

\* Compaction: where an entry with key 0, and one with key 1, goes.
Zeros(keys) == PrefixSum([i \in Cell |-> Ring(1 - keys[i])])
Ones(keys) ==
  LET z == Zeros(keys)
  IN  [i \in Cell |-> Ring(z[Size - 1] + PrefixSum(keys)[i] - z[i])]

\* Complementing P0's share and negating P1's gives xor-shares of a value
\* that is all ones exactly if the cell was 0; as additive shares they are
\* now shares of the complement.
Complement(v, k) == [i \in DOMAIN v |-> IF i < k THEN Mod - 1 - v[i] ELSE v[i]]
ReadBy(f) == IF f.type = "EQZ" /\ f.layer = 0
             THEN Complement(wires[f.in1], f.size) ELSE wires[f.in1]

SentCells(f) == IF f.type \in {"MulSIMD", "EQZ", "Bit2A"} THEN f.size ELSE Size

\* How many cells a gate's wire has at least, once it is written.
Cells(f) == IF f.type = "DeduplicationSub" THEN Size - 1 ELSE Size

\* The second operand of a gate that has one is not wire 0 (init_waiting
\* would not count it), no gate reads more than its operands hold, no vector
\* is extended twice, and the columns to be summed are wires created before.
Fitting(p) ==
  \A i \in DOMAIN p :
    /\ p[i].type \in TwoInputs => p[i].in2 # 0
    /\ Computed(p[i]) => \A x \in Range(Operands(p[i])) : SentCells(p[i]) <= Cells(p[x + 1])
    /\ p[i].type = "Insert" => p[p[i].in1 + 1].type # "Insert"
    /\ \A j \in DOMAIN p[i].columns : p[i].columns[j] < i - 1

ASSUME FittingAssumption == \A o \in DOMAIN Programs : Fitting(Programs[o])

KindOf(f) ==
  CASE f.type \in {"Shuffle", "MergedShuffle", "Unshuffle"} -> "shuffle"
    [] f.type = "Reveal" -> "reveal"
    [] f.type = "EQZ" \/ (f.type = "MulSIMD" /\ f.binary) -> "and"
    [] OTHER -> "mul"

Message(f) ==
  LET x == ReadBy(f) IN
  CASE f.type \in {"Shuffle", "MergedShuffle"} -> Plain(Perms!Scatter(PermOf(f), x), Size)
    [] f.type = "Unshuffle"  -> Plain(Perms!Collect(PermOf(f), x), Size)
    [] f.type = "Compaction" -> InTurn(x, Ones(x), Size)
    [] f.type = "MulSIMD"    -> InTurn(x, wires[f.in2], f.size)
    [] f.type \in {"EQZ", "Bit2A"} -> InTurn(x, x, f.size)
    [] f.type = "Reveal"     -> Plain(x, Size)

\* A slip: Compaction, too, is done with its operand when it has sent.
Slip_ReleasedBySend(f) == IF f.type \in {"Bit2A", "Reveal"} THEN <<>> ELSE Operands(f)
ReleasedBySend(f) ==
  IF f.type \in {"Compaction", "Bit2A", "Reveal"} THEN <<>> ELSE Operands(f)

SendGate ==
  /\ phase = "send"
  /\ at < End
  /\ LET f == GateOf(at)
         read == Operands(f)
     IN  IF \A j \in DOMAIN read : Holds(read[j], SentCells(f))
         THEN /\ vals' = [vals EXCEPT ![KindOf(f)] = @ \o Message(f)]
              /\ Release(ReleasedBySend(f), [wires EXCEPT ![f.in1] = ReadBy(f)])
              /\ at' = NextIn(Senders(lay), at + 1)
              /\ UNCHANGED <<conf, gates, level, depth, graph, secret, phase, lay, idx, output>>
         ELSE Undefined

\* online_communication.
Exchange ==
  /\ phase = "send"
  /\ at = End
  /\ phase' = "receive"
  /\ at' = NextIn(OnLevel(lay), 0)
  /\ UNCHANGED <<conf, gates, level, depth, graph, secret, lay, waiting, wires, vals, idx, output>>

------------------------------------------------------------------------------
(* evaluate_recv *)

Receiving(types) ==
  /\ phase = "receive"
  /\ at < End
  /\ GateOf(at).type \in types

\* The gate writes v to its wire and is done with the operands in `read'.
Write(v, read) ==
  /\ Release(read, [wires EXCEPT ![at] = v])
  /\ at' = NextIn(OnLevel(lay), at + 1)
  /\ UNCHANGED <<conf, gates, level, depth, graph, secret, phase, lay, vals, output>>

\* The constructor of Evaluator: bits, src, dst, isV, data and its copies.
InputVector(w) ==
  LET entry(i) == graph[i + 1]
      bit(x, b) == (x \div 2^b) % 2
  IN  [i \in Cell |->
        CASE w < Bits         -> bit(entry(i).src, w)
          [] w \in Bits .. 2 * Bits - 1 -> bit(entry(i).dst, w - Bits)
          [] w = 2 * Bits     -> entry(i).src
          [] w = 2 * Bits + 1 -> entry(i).dst
          [] w = 2 * Bits + 2 -> entry(i).isV
          [] OTHER            -> entry(i).data]

RecvInput ==
  /\ Receiving({"Input"})
  /\ Write(InputVector(at), <<>>)
  /\ UNCHANGED idx

RecvSetConst ==
  /\ Receiving({"SetConstVecSIMD"})
  /\ LET c == GateOf(at).vals IN
       Write([i \in Cell |-> IF i < Len(c) THEN c[i + 1] ELSE 0], <<>>)
  /\ UNCHANGED idx

\* read_online: n elements from the cursor on, which wraps at the end.
Opened(kind, k) == [j \in 0 .. k - 1 |-> vals[kind][idx[kind] + j + 1]]
ReadOnline(kind, k) ==
  idx' = [idx EXCEPT ![kind] = IF @ + k >= Len(vals[kind]) THEN 0 ELSE @ + k]

\* A cell is opened twice (both operands of a triple) or once.
OpenedCells(f) == IF KindOf(f) \in {"mul", "and"} THEN 2 * SentCells(f) ELSE Size

\* What the gate computes from the opened cells c, and from its operand x
\* if it reads that again.
Result(f, c, x) ==
  CASE KindOf(f) \in {"shuffle", "reveal"} -> c
    [] f.type = "Compaction" ->
         [i \in Cell |-> Ring(c[2 * i] * c[2 * i + 1] + Zeros(x)[i] - 1)]
    [] OTHER -> [i \in Cell |->
         IF i >= f.size THEN 0
         ELSE CASE f.type = "MulSIMD" -> Ring(c[2 * i] * c[2 * i + 1])
                [] f.type = "Bit2A"   -> x[i] % 2
                [] f.type = "EQZ"     -> IF f.layer < 4 THEN c[2 * i]
                                         ELSE IF c[2 * i] = Mod - 1 THEN 1 ELSE 0]

ReadsAgain(f) == f.type \in {"Compaction", "Bit2A"}

RecvInteractive ==
  /\ Receiving(Interactive)
  /\ LET f == GateOf(at)
         kind == KindOf(f)
         k == OpenedCells(f)
     IN  IF /\ idx[kind] + k <= Len(vals[kind])
            /\ ReadsAgain(f) => Holds(f.in1, SentCells(f))
         THEN /\ Write(Result(f, Opened(kind, k), wires[f.in1]),
                       IF ReadsAgain(f) THEN <<f.in1>> ELSE <<>>)
              /\ ReadOnline(kind, k)
         ELSE Undefined

------------------------------------------------------------------------------
(* The local gates *)

Unary == {"AddConstSIMD", "MulConstSIMD", "Flip", "RemoveEdgeData", "Propagate1",
          "Gather1", "Gather2", "DeduplicationSub", "Insert"}

Previous(x, i) == IF i = 0 THEN 0 ELSE x[i - 1]

UnaryResult(f, x) ==
  CASE f.type = "AddConstSIMD"   -> [i \in Cell |-> IF i < Nodes THEN Ring(x[i] + f.val) ELSE x[i]]
    [] f.type = "MulConstSIMD"   -> [i \in Cell |-> Ring(x[i] * f.val)]
    [] f.type = "Flip"           -> [i \in Cell |-> Ring(1 - x[i])]
    [] f.type = "RemoveEdgeData" -> [i \in Cell |-> IF i < f.size THEN x[i] ELSE 0]
    [] f.type = "Propagate1"     -> [i \in Cell |-> IF i < Nodes THEN Ring(x[i] - Previous(x, i))
                                                    ELSE x[i]]
    [] f.type = "Gather1"        -> PrefixSum([i \in Cell |-> x[i]])
    \* the running sum of the outputs is the previous input
    [] f.type = "Gather2"        -> [i \in Cell |-> IF i < Nodes THEN Ring(x[i] - Previous(x, i))
                                                    ELSE 0]
    [] f.type = "DeduplicationSub" -> [i \in 0 .. Size - 2 |-> Ring(x[i + 1] - x[i])]
    [] f.type = "Insert"         -> [i \in 0 .. Cardinality(DOMAIN x) |-> Previous(x, i)]

BinaryLocal == TwoInputs \ Interactive

\* Permute writes cell y[i]: if y is no permutation the last write stays.
BinaryResult(f, x, y) ==
  CASE f.type = "Permute" -> [j \in Cell |-> LET from == {i \in Cell : y[i] = j}
                                             IN  IF from = {} THEN 0 ELSE x[Max(from)]]
    [] f.type = "ReversePermute" -> [i \in Cell |-> x[y[i]]]
    [] f.type = "AddSIMD"        -> [i \in Cell |-> Ring(x[i] + y[i])]
    [] f.type = "SubSIMD"        -> [i \in Cell |-> Ring(x[i] - y[i])]
    [] f.type = "Propagate2"     -> [i \in Cell |-> Ring(PrefixSum([j \in Cell |-> x[j]])[i] - y[i])]

\* Insert copies whatever length its operand has.
ReadCells(f) == IF f.type = "Insert" THEN 1 ELSE Size

RecvUnary ==
  /\ Receiving(Unary)
  /\ LET f == GateOf(at) IN
       IF Holds(f.in1, ReadCells(f))
       THEN Write(UnaryResult(f, wires[f.in1]), <<f.in1>>) /\ UNCHANGED idx
       ELSE Undefined

RecvBinary ==
  /\ Receiving(BinaryLocal)
  /\ LET f == GateOf(at)
         positions == f.type \in {"Permute", "ReversePermute"}
     IN  IF /\ Holds(f.in1, Size) /\ Holds(f.in2, Size)
            /\ positions => \A i \in Cell : wires[f.in2][i] \in Cell
         THEN Write(BinaryResult(f, wires[f.in1], wires[f.in2]), <<f.in1, f.in2>>)
              /\ UNCHANGED idx
         ELSE Undefined

\* Reads every column but counts, and releases, none of them.
RecvColumnSums ==
  /\ Receiving({"ColumnSumsToNodes"})
  /\ LET f == GateOf(at)
         column(i) == wires[f.columns[i + 1]]
     IN  IF Len(f.columns) >= Nodes /\ \A i \in 0 .. Nodes - 1 : Holds(f.columns[i + 1], Nodes)
         THEN Write([i \in Cell |->
                       IF i >= Nodes THEN 0
                       ELSE PrefixSum([j \in 0 .. Nodes - 1 |-> column(i)[j]])[Nodes - 1]],
                    <<>>)
              /\ UNCHANGED idx
         ELSE Undefined

RecvOutput ==
  /\ Receiving({"Output"})
  /\ LET f == GateOf(at) IN
       IF Holds(f.in1, Size)
       THEN /\ output' = output \o Plain(wires[f.in1], Size)
            /\ Release(<<f.in1>>, wires)
            /\ at' = NextIn(OnLevel(lay), at + 1)
            /\ UNCHANGED <<conf, gates, level, depth, graph, secret, phase, lay, vals, idx>>
       ELSE Undefined

\* The four vectors are cleared; their cursors are not.
NextLevel ==
  /\ phase = "receive"
  /\ at = End
  /\ vals' = [k \in Kinds |-> <<>>]
  /\ IF lay = depth
     THEN phase' = "done" /\ UNCHANGED <<lay, at>>
     ELSE phase' = "send" /\ lay' = lay + 1 /\ at' = NextIn(Senders(lay + 1), 0)
  /\ UNCHANGED <<conf, gates, level, depth, graph, secret, waiting, wires, idx, output>>

Terminated == phase \in {"done", "undefined"} /\ UNCHANGED vars

Init ==
  /\ conf \in DOMAIN Programs
  /\ gates = Programs[conf]
  /\ level = <<>>
  /\ depth = 0
  /\ graph = <<>>
  /\ secret = <<>>
  /\ phase = "layering"
  /\ lay = 0
  /\ at = 0
  /\ waiting = [w \in Wire |-> 0]
  /\ wires = [w \in Wire |-> NoVector]
  /\ vals = [k \in Kinds |-> <<>>]
  /\ idx = [k \in Kinds |-> 0]
  /\ output = <<>>

Next ==
  \/ AssignLevel \/ PlaceOutputs \/ StartRun
  \/ SendGate \/ Exchange
  \/ RecvInput \/ RecvSetConst \/ RecvInteractive \/ RecvUnary \/ RecvBinary
  \/ RecvColumnSums \/ RecvOutput \/ NextLevel
  \/ Terminated

Spec == Init /\ [][Next]_vars

==============================================================================
