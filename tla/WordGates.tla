----------------------------- MODULE WordGates -----------------------------
(***************************************************************************)
(* The gates that look into the bits of a word, chained as deduplication   *)
(* chains them (circuit.cpp 105-118, 126-131): from shares of the          *)
(* differences of neighbouring sources and destinations to shares of the   *)
(* positions the sort by "is a duplicate" gives the entries.               *)
(*                                                                         *)
(*   EQZ x Layers   x_0 + x_1 = 0 as the conjunction of the bits of        *)
(*                  ~x_0 ^ -x_1, half of them folded onto the other half   *)
(*                  per layer                                              *)
(*   MulSIMD (and)  both differences are zero                              *)
(*   Bit2A, Insert  from an xor-shared bit to an additively shared one     *)
(*   Compaction     from additively shared bits to positions               *)
(*                                                                         *)
(* The permutations between the last two, GateProtocol's subject, are left *)
(* out.  Words have 2^Layers bits, 32 in the code.  One set of triples     *)
(* serves all levels here; that no triple is used twice is Correlation's.  *)
(***************************************************************************)
EXTENDS Integers, Sequences, FiniteSets, Bitwise

CONSTANTS
  Layers,        \* EQZ layers, 5 in the code
  Differences,   \* the shares [src |-> .., dst |-> ..] a party may start from
  TripleDraws    \* the shares of a and b, and one party's c, the dealer may draw

Width == 2^Layers
Modulus == 2^Width
Word == 0 .. Modulus - 1

ASSUME WordAssumption ==
  /\ Layers \in Nat \ {0}
  /\ TripleDraws \subseteq [a : [{0, 1} -> Word], b : [{0, 1} -> Word], c0 : Word]

Id01 == {0, 1}       \* `id' of P0 and P1, also a factor of the formulas
Peer(i) == 1 - i

Reduce(k) == k % Modulus
Low(v) == v & 1

VARIABLES
  difference,   \* the parties' shares at the start
  deal,         \* the triple's shares, for xor and for addition
  level,        \* the level each party is in, counted from 1
  waits,        \* whether it has sent and not yet received in that level
  held,         \* its wires: src, dst, or the only one left
  opened        \* what each party has sent, level by level

wordVars == <<difference, deal, level, waits, held, opened>>

EqzLevels == 1 .. Layers
AndLevel == Layers + 1
BitLevel == Layers + 2
SortLevel == Layers + 3
Over == Layers + 4

------------------------------------------------------------------------------
(* The dealer: c = a * b and the second share of it *)

Dealt(binary, a, b, c0) ==
  LET c == IF binary THEN (a[0] ^^ a[1]) & (b[0] ^^ b[1])
                     ELSE Reduce((a[0] + a[1]) * (b[0] + b[1]))
  IN  [i \in Id01 |-> [a |-> a[i], b |-> b[i],
                       c |-> IF i = 0 THEN c0
                             ELSE IF binary THEN c ^^ c0 ELSE Reduce(c - c0)]]

------------------------------------------------------------------------------
(* One multiplication, word by word *)

Masked(binary, f, t) ==
  IF binary THEN <<f[1] ^^ t.a, f[2] ^^ t.b>>
            ELSE <<Reduce(f[1] + t.a), Reduce(f[2] + t.b)>>

OpenPair(binary, m0, m1) ==
  [k \in 1..2 |-> IF binary THEN m0[k] ^^ m1[k] ELSE Reduce(m0[k] + m1[k])]

ProductShare(binary, i, o, t) ==
  IF binary
  THEN (((o[1] & o[2]) * i) ^^ (o[1] & t.b)) ^^ ((o[2] & t.a) ^^ t.c)
  ELSE Reduce(o[1] * o[2] * i - o[1] * t.b - o[2] * t.a + t.c)

------------------------------------------------------------------------------
(* The operands of each gate *)

\* x_0 = -x_1 iff ~x_0 ^ -x_1 has all bits set; both parties change their
\* wire in place.
Prepared(i, l, v) ==
  IF l > 0 THEN v
  ELSE IF i = 0 THEN Modulus - 1 - v ELSE Reduce(-v)

\* The upper half of what is left, and all of it.
Slip_Halves(l, v) == <<shiftR(v, 2^(l + 1)), v>>   \* a slip: the widths in rising order
Halves(l, v) == <<shiftR(v, 2^(Layers - 1 - l)), v>>

\* Prefix sums of 1 - bit, and of the bits after them; only P0 adds the 1.
ZerosUpTo(i, bits) == [k \in DOMAIN bits |->
  LET upTo[j \in 0 .. k] == IF j = 0 THEN 0 ELSE upTo[j - 1] - bits[j] + (1 - i)
  IN  Reduce(upTo[k])]
OnesUpTo(i, bits) == [k \in DOMAIN bits |->
  LET s0 == ZerosUpTo(i, bits)
      upTo[j \in 0 .. k] == IF j = 0 THEN s0[Len(bits)] ELSE upTo[j - 1] + bits[j]
  IN  Reduce(upTo[k] - s0[k])]

Binary(l) == l <= AndLevel

\* The pairs of factors party i multiplies in its level, in gate order.
Factors(i) ==
  LET l == level[i]
      w == held[i]
      count == Len(w.src)
  IN CASE l \in EqzLevels ->
            LET v == w.src \o w.dst
            IN  [k \in 1 .. 2 * count |-> Halves(l - 1, Prepared(i, l - 1, v[k]))]
       [] l = AndLevel -> [k \in 1 .. count |-> <<w.src[k], w.dst[k]>>]
       [] l = BitLevel -> [k \in 1 .. count |-> <<(1 - i) * Low(w.src[k]), i * Low(w.src[k])>>]
       [] l = SortLevel -> [k \in 1 .. count |-> <<w.src[k], OnesUpTo(i, w.src)[k]>>]

------------------------------------------------------------------------------
(* evaluate_send and evaluate_recv, for all gates of one level *)

SendWords(i) ==
  /\ level[i] < Over
  /\ ~waits[i]
  /\ waits' = [waits EXCEPT ![i] = TRUE]
  /\ opened' = [opened EXCEPT ![i] = Append(@,
       [k \in DOMAIN Factors(i) |->
          Masked(Binary(level[i]), Factors(i)[k], deal[Binary(level[i])][i])])]
  /\ UNCHANGED <<difference, deal, level, held>>

\* The last layer leaves one bit: << 31, >> 31.
Folded(l, v) == IF l = Layers THEN Low(v) ELSE v

\* Insert puts a zero in front: the first entry has no predecessor.
Inserted(bits) == <<0>> \o bits

NextWires(i, p) ==
  LET l == level[i]
      w == held[i]
      count == Len(w.src)
  IN CASE l \in EqzLevels -> [src |-> [k \in 1 .. count |-> Folded(l, p[k])],
                              dst |-> [k \in 1 .. count |-> Folded(l, p[count + k])]]
       [] l = AndLevel -> [src |-> p, dst |-> <<>>]
       [] l = BitLevel ->
            [src |-> Inserted([k \in 1 .. count |-> Reduce(Low(w.src[k]) - 2 * p[k])]), dst |-> <<>>]
       [] l = SortLevel ->
            [src |-> [k \in 1 .. count |-> Reduce(p[k] + ZerosUpTo(i, w.src)[k] - (1 - i))],
             dst |-> <<>>]

ReceiveWords(i) ==
  /\ waits[i]
  /\ Len(opened[Peer(i)]) >= level[i]
  /\ LET l == level[i]
         pairs == [k \in DOMAIN opened[i][l] |->
                     OpenPair(Binary(l), opened[0][l][k], opened[1][l][k])]
     IN  held' = [held EXCEPT ![i] = NextWires(i,
           [k \in DOMAIN pairs |-> ProductShare(Binary(l), i, pairs[k], deal[Binary(l)][i])])]
  /\ waits' = [waits EXCEPT ![i] = FALSE]
  /\ level' = [level EXCEPT ![i] = @ + 1]
  /\ UNCHANGED <<difference, deal, opened>>

------------------------------------------------------------------------------

WordInit ==
  /\ difference \in [Id01 -> Differences]
  /\ \E d \in TripleDraws : deal = [binary \in BOOLEAN |-> Dealt(binary, d.a, d.b, d.c0)]
  /\ level = [i \in Id01 |-> 1]
  /\ waits = [i \in Id01 |-> FALSE]
  /\ held = difference
  /\ opened = [i \in Id01 |-> <<>>]

WordNext == \E i \in Id01 : SendWords(i) \/ ReceiveWords(i)

WordSpec == WordInit /\ [][WordNext]_wordVars

------------------------------------------------------------------------------
(* Properties *)

WordsOver == \A i \in Id01 : level[i] = Over

\* Whether entry k is equal to the one before it, on the opened inputs.
Repeats(k) ==
  k > 1 /\ \A w \in {"src", "dst"} : Reduce(difference[0][w][k - 1] + difference[1][w][k - 1]) = 0

\* The positions both parties' shares open to are those of a stable sort of
\* the entries by "equals its predecessor", whatever the shares, the masks
\* and the order of the parties' steps were (evaluator.cpp 158-200, 230-327,
\* 407-451, 507-554).
Ranked ==
  WordsOver =>
    LET all == 1 .. Len(difference[0].src) + 1
        before(k) == {j \in all : IF Repeats(k) THEN ~Repeats(j) \/ j < k
                                                ELSE ~Repeats(j) /\ j < k}
    IN  \A k \in all : Reduce(held[0].src[k] + held[1].src[k]) = Cardinality(before(k))

==============================================================================
