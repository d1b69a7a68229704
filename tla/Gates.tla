--------------------------------- MODULE Gates ---------------------------------
(***************************************************************************)
(* The gates of a circuit, the primitives of Circuit that append them, and *)
(* the library of operations that algorithms are written with.             *)
(*                                                                         *)
(* Every gate drives one wire: a primitive is the gate it appends, given   *)
(* the wires it reads.  Where one appends several gates it is given the    *)
(* first free wire w and returns the sequence of its gates; the result is  *)
(* on the last wire.                                                       *)
(*                                                                         *)
(* Sources: src/core/gate.h, gate.cpp, circuit.h, circuit.cpp.             *)
(***************************************************************************)
EXTENDS Naturals, Sequences, SequencesExt

CONSTANTS Size,   \* entries of the list: nodes and edges
          Nodes,  \* how many of them are nodes
          Bits    \* bits of a node id

ASSUME ConfAssumption == /\ Nodes \in Nat \ {0}
                         /\ Size \in Nat /\ Size >= Nodes
                         /\ Bits \in Nat \ {0}

Interactive == {"Shuffle", "MergedShuffle", "Unshuffle", "Compaction", "EQZ",
                "Bit2A", "MulSIMD", "Reveal"}
LocalGate == {"Input", "Output", "Permute", "ReversePermute", "AddConstSIMD",
              "MulConstSIMD", "AddSIMD", "SubSIMD", "SetConstVecSIMD", "Flip", "RemoveEdgeData",
              "Propagate1", "Propagate2", "Gather1", "Gather2", "DeduplicationSub",
              "Insert", "ColumnSumsToNodes"}
TwoInputs == {"MulSIMD", "Permute", "ReversePermute", "AddSIMD", "SubSIMD", "Propagate2"}

------------------------------------------------------------------------------
(* Gates, as the constructors of gate.cpp leave them *)

InputGate == [type |-> "Input", in1 |-> 0, in2 |-> 0, size |-> 0, layer |-> 0,
              idx |-> 0, pi |-> 0, omega |-> 0, binary |-> FALSE, val |-> 0,
              vals |-> <<>>, columns |-> <<>>]

Op(t, x)         == [InputGate EXCEPT !.type = t, !.in1 = x]
OpVal(t, x, v)   == [Op(t, x) EXCEPT !.val = v]
Op2(t, x, y)     == [Op(t, x) EXCEPT !.in2 = y]
Sized(t, x, k)   == [Op(t, x) EXCEPT !.size = k]
ByIdx(t, x, i)   == [Op(t, x) EXCEPT !.idx = i]

Out(w, gates) == w + Len(gates) - 1

------------------------------------------------------------------------------
(* Primitives *)

OutputGate(x) == Op("Output", x)
RemoveEdgeData(x) == Sized("RemoveEdgeData", x, Nodes)

Propagate1(x) == Op("Propagate1", x)
Propagate2(x, corr) == Op2("Propagate2", x, corr)
Gather1(x) == Op("Gather1", x)
Gather2(x) == Op("Gather2", x)

Shuffle(x, i) == ByIdx("Shuffle", x, i)
Unshuffle(x, i) == ByIdx("Unshuffle", x, i)
MergedShuffle(x, i, pi, omega) ==
  [ByIdx("MergedShuffle", x, i) EXCEPT !.pi = pi, !.omega = omega]
Compaction(x) == Op("Compaction", x)
Reveal(x) == Op("Reveal", x)
Permute(x, perm) == Op2("Permute", x, perm)
ReversePermute(x, perm) == Op2("ReversePermute", x, perm)

DeduplicationSub(x) == Op("DeduplicationSub", x)
DeduplicationInsert(x) == Op("Insert", x)

EqzLayer(x, k, l) == [Sized("EQZ", x, k) EXCEPT !.layer = l]
\* equals_zero: five layers, each halving the width.
EqualsZero(w, x, k) == [l \in 1..5 |-> EqzLayer(IF l = 1 THEN x ELSE w + l - 2, k, l - 1)]
Bit2A(x, k) == Sized("Bit2A", x, k)
MulSIMD(x, y, k, binary) == [Op2("MulSIMD", x, y) EXCEPT !.size = k, !.binary = binary]

------------------------------------------------------------------------------
(* The library *)

Multiply(x, y) == MulSIMD(x, y, Nodes, FALSE)
MultiplyByConstant(x, v) == OpVal("MulConstSIMD", x, v)
Add(x, y) == Op2("AddSIMD", x, y)
Subtract(x, y) == Op2("SubSIMD", x, y)
AddConstant(x, v) == OpVal("AddConstSIMD", x, v)
Flip(x) == Op("Flip", x)
Clip(w, x) == EqualsZero(w, x, Nodes) \o <<Bit2A(w + 4, Nodes), Flip(w + 5)>>
SetConstVector(vals) == [InputGate EXCEPT !.type = "SetConstVecSIMD", !.vals = vals]
\* The last column is the operand that counts.
ColumnSumsToNodes(columns) == [Op("ColumnSumsToNodes", Last(columns)) EXCEPT !.columns = columns]

==============================================================================
