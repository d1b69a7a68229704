---------------------------- MODULE GateProtocol ----------------------------
(***************************************************************************)
(* One interactive gate of the circuit, evaluated by P0 and P1 on additive *)
(* shares with correlated randomness from the dealer.                      *)
(*                                                                         *)
(* The dealer's part is Preprocessor::preprocess, the parties' parts are   *)
(* Evaluator::evaluate_send, online_communication and evaluate_recv.  The  *)
(* ring is left abstract: Z/2^32 for arithmetic gates, words with xor and  *)
(* and for binary ones, where Neg is the identity.                         *)
(*                                                                         *)
(* That both parties and the dealer pick the same mask, permutations and   *)
(* triple for a gate is the subject of module Correlation and assumed here.*)
(***************************************************************************)
EXTENDS Permutations

CONSTANTS Ring, Zero, One, Plus(_, _), Neg(_), Times(_, _),
          GateTypes,  \* the gate types to be exercised
          Vectors     \* the input shares and random vectors to be exercised

AllGateTypes == {"Shuffle", "MergedShuffle", "Unshuffle", "MulSIMD", "Bit2A", "Reveal"}

ASSUME RingAssumption ==
  /\ Zero \in Ring /\ One \in Ring
  /\ \A x \in Ring : /\ Neg(x) \in Ring
                     /\ Plus(x, Zero) = x
                     /\ Plus(x, Neg(x)) = Zero
                     /\ Times(x, Zero) = Zero
                     /\ Times(x, One) = x
  /\ \A x, y \in Ring : /\ Plus(x, y) \in Ring
                        /\ Plus(x, y) = Plus(y, x)
                        /\ Times(x, y) \in Ring
                        /\ Times(x, y) = Times(y, x)
  /\ \A x, y, z \in Ring : /\ Plus(Plus(x, y), z) = Plus(x, Plus(y, z))
                           /\ Times(x, Plus(y, z)) = Plus(Times(x, y), Times(x, z))
                           /\ Times(Times(x, y), z) = Times(x, Times(y, z))

Vec == [Pos -> Ring]

ASSUME GateAssumption == GateTypes \subseteq AllGateTypes /\ Vectors \subseteq Vec

P0 == 0
P1 == 1
Party == {P0, P1}
Other(p) == 1 - p

Minus(x, y) == Plus(x, Neg(y))
Id(p) == IF p = P1 THEN One ELSE Zero     \* the factor `id' of the code

VARIABLES
  gate,   \* the gate's type
  x, y,   \* the shares of its inputs, per party
  corr,   \* what the dealer prepared for the gate, per party
  order,  \* history: the permutation the gate undoes and the one it does
  step,   \* how far each party is: "start", "sent", "done"
  sent,   \* the values each party sent
  res     \* each party's share of the output

vars == <<gate, x, y, corr, order, step, sent, res>>

------------------------------------------------------------------------------
(* The dealer *)

\* Four permutations with pi_0 * pi_1 = pi_1_p * pi_0_p: three are drawn,
\* the receiver `to' of the larger message gets the fourth one.
Slip_Quad(to, a, b, c) ==   \* a slip: the factors of pi_1_p in the other order
  IF to = P1
  THEN [pi_0_p |-> a, pi_0 |-> b, pi_1 |-> c,
        pi_1_p |-> Compose(Compose(c, b), PermInverse(a))]
  ELSE [pi_1 |-> a, pi_1_p |-> b, pi_0 |-> c,
        pi_0_p |-> Compose(Compose(PermInverse(b), c), a)]

Quad(to, a, b, c) ==
  IF to = P1
  THEN [pi_0_p |-> a, pi_0 |-> b, pi_1 |-> c,
        pi_1_p |-> Compose(Compose(b, c), PermInverse(a))]
  ELSE [pi_1 |-> a, pi_1_p |-> b, pi_0 |-> c,
        pi_0_p |-> Compose(Compose(PermInverse(b), c), a)]

\* The merge of pi and omega: undo pi, then omega (pi applied to perm_vec).
MergedQuad(pi, omega, sigma_0, sigma_1_p) ==
  LET merged == Scatter(pi, omega) IN
    [pi_0 |-> sigma_0, pi_1_p |-> sigma_1_p,
     pi_0_p |-> Compose(PermInverse(sigma_1_p), merged),
     pi_1 |-> Compose(PermInverse(sigma_0), merged)]

\* B_0 = pi(R_1) - R and B_1 = pi(R_0) + R, for pi or its inverse.
Corrections(pi, R0, R1, R) ==
  [p \in Party |-> IF p = P0 THEN [k \in Pos |-> Minus(Scatter(pi, R1)[k], R)]
                             ELSE [k \in Pos |-> Plus(Scatter(pi, R0)[k], R)]]

\* What party p needs: its mask, the permutation it sends through, the one
\* it receives through, and its correction vector.
PermCorr(q, backwards, R0, R1, R) ==
  LET pi == Compose(q.pi_0, q.pi_1)
      B == Corrections(IF backwards THEN PermInverse(pi) ELSE pi, R0, R1, R)
      first == [p \in Party |-> IF p = P0 THEN q.pi_0_p ELSE q.pi_1]
      last == [p \in Party |-> IF p = P0 THEN q.pi_0 ELSE q.pi_1_p]
  IN  [p \in Party |-> [R |-> IF p = P0 THEN R0 ELSE R1,
                        send |-> IF backwards THEN last[p] ELSE first[p],
                        recv |-> IF backwards THEN first[p] ELSE last[p],
                        B |-> B[p]]]

\* A triple c = a * b: a and b are sums of drawn shares, c is split by the
\* drawn share c0 of one party.
TripleCorr(a, b, c0) ==
  LET c == [i \in Pos |-> Times(Plus(a[P0][i], a[P1][i]), Plus(b[P0][i], b[P1][i]))] IN
    [p \in Party |-> [a |-> a[p], b |-> b[p],
                      c |-> IF p = P0 THEN c0 ELSE [i \in Pos |-> Minus(c[i], c0[i])]]]

Permuting == {"Shuffle", "MergedShuffle", "Unshuffle"}
Multiplying == {"MulSIMD", "Bit2A"}

------------------------------------------------------------------------------
(* The parties *)

\* Shuffle: t[perm[j]] = x[j] + R[j].  Unshuffle: t[i] = x[perm[i]] + R[perm[i]].
MaskedShuffle(p) ==
  LET t == [j \in Pos |-> Plus(x[p][j], corr[p].R[j])] IN
    IF gate = "Unshuffle" THEN Collect(corr[p].send, t) ELSE Scatter(corr[p].send, t)

\* Bit2A multiplies P0's bit with P1's bit: each is the other's zero share.
FactorX(p) == IF gate = "Bit2A" THEN [i \in Pos |-> Times(Id(Other(p)), x[p][i])] ELSE x[p]
FactorY(p) == IF gate = "Bit2A" THEN [i \in Pos |-> Times(Id(p), x[p][i])] ELSE y[p]

MaskedFactors(p) ==
  [xa |-> [i \in Pos |-> Plus(FactorX(p)[i], corr[p].a[i])],
   yb |-> [i \in Pos |-> Plus(FactorY(p)[i], corr[p].b[i])]]

Message(p) == CASE gate \in Permuting -> MaskedShuffle(p)
                [] gate \in Multiplying -> MaskedFactors(p)
                [] gate = "Reveal" -> x[p]

Send(p) ==
  /\ step[p] = "start"
  /\ step' = [step EXCEPT ![p] = "sent"]
  /\ sent' = [sent EXCEPT ![p] = Message(p)]
  /\ UNCHANGED <<gate, x, y, corr, order, res>>

\* Shuffle: out[perm[i]] = t[i] - B[perm[i]].  Unshuffle: out[i] = t[perm[i]] - B[i].
Unmasked(p) ==
  LET t == sent[Other(p)]
      moved == IF gate = "Unshuffle" THEN Collect(corr[p].recv, t) ELSE Scatter(corr[p].recv, t)
  IN  [k \in Pos |-> Minus(moved[k], corr[p].B[k])]

\* (xa * yb * id) - (xa * b) - (yb * a) + c, on the opened xa and yb.
Product(p) ==
  [i \in Pos |->
     LET xa == Plus(sent[P0].xa[i], sent[P1].xa[i])
         yb == Plus(sent[P0].yb[i], sent[P1].yb[i])
         c == corr[p]
     IN  Plus(Minus(Minus(Times(Times(xa, yb), Id(p)), Times(xa, c.b[i])),
                    Times(yb, c.a[i])), c.c[i])]

\* bit - 2 * product
FromBit(p) == [i \in Pos |-> Minus(x[p][i], Plus(Product(p)[i], Product(p)[i]))]

Result(p) == CASE gate \in Permuting -> Unmasked(p)
               [] gate = "MulSIMD" -> Product(p)
               [] gate = "Bit2A" -> FromBit(p)
               [] gate = "Reveal" -> [i \in Pos |-> Plus(x[p][i], sent[Other(p)][i])]

Receive(p) ==
  /\ step[p] = "sent" /\ step[Other(p)] # "start"
  /\ step' = [step EXCEPT ![p] = "done"]
  /\ res' = [res EXCEPT ![p] = Result(p)]
  /\ UNCHANGED <<gate, x, y, corr, order, sent>>

------------------------------------------------------------------------------

Bits(v) == \A i \in Pos : v[i] \in {Zero, One}

\* The gates work over one quadruple of permutations, or over a merged one.
InitPermuting ==
  /\ gate \in {"Shuffle", "Unshuffle"}
  /\ y = x
  /\ \E R0, R1 \in Vectors, R \in Ring, a, b, c \in Perm, to \in Party :
       LET q == Quad(to, a, b, c)
           pi == Compose(q.pi_0, q.pi_1)
       IN  /\ corr = PermCorr(q, gate = "Unshuffle", R0, R1, R)
           /\ order = IF gate = "Unshuffle" THEN [undo |-> pi, do |-> Identity]
                                            ELSE [undo |-> Identity, do |-> pi]

InitMerged ==
  /\ gate = "MergedShuffle"
  /\ y = x
  /\ \E R0, R1 \in Vectors, R \in Ring, pi, omega, a, b \in Perm :
       /\ corr = PermCorr(MergedQuad(pi, omega, a, b), FALSE, R0, R1, R)
       /\ order = [undo |-> pi, do |-> omega]

InitMultiplying ==
  /\ gate \in Multiplying
  /\ y \in [Party -> Vectors]
  /\ gate = "Bit2A" => \A p \in Party : Bits(x[p])
  /\ \E a, b \in [Party -> Vectors], c0 \in Vectors : corr = TripleCorr(a, b, c0)
  /\ order = [undo |-> Identity, do |-> Identity]

InitReveal ==
  /\ gate = "Reveal"
  /\ y = x
  /\ corr = [p \in Party |-> <<>>]
  /\ order = [undo |-> Identity, do |-> Identity]

Init ==
  /\ gate \in GateTypes
  /\ x \in [Party -> Vectors]
  /\ InitPermuting \/ InitMerged \/ InitMultiplying \/ InitReveal
  /\ step = [p \in Party |-> "start"]
  /\ sent = [p \in Party |-> <<>>]
  /\ res = [p \in Party |-> <<>>]

Done == \A p \in Party : step[p] = "done"

Terminated == Done /\ UNCHANGED vars

Next == (\E p \in Party : Send(p) \/ Receive(p)) \/ Terminated

Spec == Init /\ [][Next]_vars

------------------------------------------------------------------------------
(* Properties *)

Open(v) == [i \in Pos |-> Plus(v[P0][i], v[P1][i])]

\* The bit shared by xor as b and c.
BitXor(b, c) == IF b = c THEN Zero ELSE One

\* What the gate is to compute, on the opened inputs: permuting gates undo
\* one permutation and do another, Bit2A turns a bit shared by xor into the
\* same bit shared by addition.
Ideal ==
  CASE gate \in Permuting -> Scatter(order.do, Collect(order.undo, Open(x)))
    [] gate = "MulSIMD" -> [i \in Pos |-> Times(Open(x)[i], Open(y)[i])]
    [] gate = "Bit2A" -> [i \in Pos |-> BitXor(x[P0][i], x[P1][i])]
    [] gate = "Reveal" -> Open(x)

\* When both parties are done, their shares open to what the gate computes:
\* all masks cancel, and the two ways through the four permutations agree.
\* (Reveal leaves both with the opened value itself.)
Reconstructed ==
  Done => IF gate = "Reveal" THEN \A p \in Party : res[p] = Ideal ELSE Open(res) = Ideal

==============================================================================
