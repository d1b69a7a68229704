------------------------- MODULE GateProtocol_proof -------------------------
(***************************************************************************)
(* Reconstructed for every commutative ring, every length of vector and    *)
(* all shares, masks, permutations and triples.                            *)
(***************************************************************************)
EXTENDS GateProtocol, FiniteSetTheorems, TLAPS

------------------------------------------------------------------------------
(* The laws of class Permutation, for vectors of every length *)

\* A permutation reaches every position; Pos being finite, it does not reach
\* one twice, so that scattering to perm_vec[i] never overwrites an entry.
LEMMA PermInjective ==
  ASSUME NEW p \in Perm, NEW i \in Pos, NEW j \in Pos, p[i] = p[j]
  PROVE  i = j
<1>1. IsFiniteSet(Pos)
  BY FS_Interval, VectorAssumption DEF Pos
<1>2. p \in Surjection(Pos, Pos)
  BY DEF Perm, Surjection
<1>3. p \in Injection(Pos, Pos)
  BY <1>1, <1>2, FS_SurjSameCardinalityImpliesInj
<1> QED
  BY <1>3 DEF Injection, IsInjective

\* inverse() is a permutation and undoes p on both sides.
THEOREM InverseLaw ==
  ASSUME NEW p \in Perm
  PROVE  /\ PermInverse(p) \in Perm
         /\ \A k \in Pos : p[PermInverse(p)[k]] = k
         /\ \A i \in Pos : PermInverse(p)[p[i]] = i
<1>1. \A k \in Pos : PermInverse(p)[k] \in Pos /\ p[PermInverse(p)[k]] = k
  BY DEF PermInverse, Perm
<1>2. p \in [Pos -> Pos]
  BY DEF Perm
<1>3. \A i \in Pos : PermInverse(p)[p[i]] = i
  BY <1>1, <1>2, PermInjective
<1>4. PermInverse(p) \in [Pos -> Pos]
  BY <1>1 DEF PermInverse
<1>5. PermInverse(p) \in Perm
  BY <1>2, <1>3, <1>4 DEF Perm
<1> QED
  BY <1>1, <1>3, <1>5

LEMMA PermType ==
  ASSUME NEW p \in Perm, NEW k \in Pos
  PROVE  p[k] \in Pos /\ PermInverse(p)[k] \in Pos
BY InverseLaw DEF Perm

\* The inverse of the inverse is the permutation itself.
LEMMA InverseInvolution ==
  ASSUME NEW p \in Perm
  PROVE  PermInverse(PermInverse(p)) = p
<1> DEFINE q == PermInverse(p)
<1>1. q \in Perm /\ p \in [Pos -> Pos]
  BY InverseLaw DEF Perm
<1>2. PermInverse(q) \in [Pos -> Pos]
  BY <1>1, InverseLaw DEF Perm
<1>3. ASSUME NEW i \in Pos
      PROVE  PermInverse(q)[i] = p[i]
  <2>1. q[PermInverse(q)[i]] = i
    BY <1>1, InverseLaw
  <2> QED
    BY <1>1, <1>2, <2>1, InverseLaw
<1> HIDE DEF q
<1>4. PermInverse(q) = p
  BY <1>1, <1>2, <1>3
<1> QED
  BY <1>4 DEF q

\* operator*: permutations are closed under composition, and the inverse of
\* a composition undoes the factors in reverse order.
THEOREM ComposeLaw ==
  ASSUME NEW p \in Perm, NEW q \in Perm
  PROVE  /\ Compose(p, q) \in Perm
         /\ \A k \in Pos : PermInverse(Compose(p, q))[k] = PermInverse(q)[PermInverse(p)[k]]
<1> DEFINE r == Compose(p, q)
<1>1. p \in [Pos -> Pos] /\ q \in [Pos -> Pos]
  BY DEF Perm
<1>2. PermInverse(p) \in [Pos -> Pos] /\ PermInverse(q) \in [Pos -> Pos]
  BY InverseLaw DEF Perm
<1>3. r \in [Pos -> Pos] /\ \A i \in Pos : r[i] = p[q[i]]
  BY <1>1 DEF Compose
<1>4. \A k \in Pos : r[PermInverse(q)[PermInverse(p)[k]]] = k
  BY <1>2, <1>3, InverseLaw
<1> HIDE DEF r
<1>5. r \in Perm
  BY <1>2, <1>3, <1>4 DEF Perm
<1>6. \A k \in Pos : PermInverse(r)[k] = PermInverse(q)[PermInverse(p)[k]]
  <2>1. TAKE k \in Pos
  <2>2. PermInverse(r)[k] \in Pos /\ r[PermInverse(r)[k]] = k
    BY <1>5, InverseLaw DEF Perm
  <2> QED
    BY <1>2, <1>4, <1>5, <2>2, PermInjective
<1> QED
  BY <1>5, <1>6 DEF r

\* operator() of a permutation and a permutation is that composition of the
\* second with the inverse of the first which `undoes pi, then does omega'.
THEOREM MergeLaw ==
  ASSUME NEW pi \in Perm, NEW omega \in Perm
  PROVE  /\ Scatter(pi, omega) \in Perm
         /\ \A k \in Pos : PermInverse(Scatter(pi, omega))[k] = pi[PermInverse(omega)[k]]
<1>1. PermInverse(pi) \in Perm
  BY InverseLaw
<1>2. Scatter(pi, omega) = Compose(omega, PermInverse(pi))
  BY DEF Scatter, Compose
<1> QED
  BY <1>1, <1>2, ComposeLaw, InverseInvolution

\* The ReversePermute gate undoes the Permute gate and the other way round.
THEOREM ScatterCollect ==
  ASSUME NEW S, NEW v \in [Pos -> S], NEW p \in Perm
  PROVE  Collect(p, Scatter(p, v)) = v /\ Scatter(p, Collect(p, v)) = v
<1>1. p \in [Pos -> Pos] /\ PermInverse(p) \in [Pos -> Pos]
  BY InverseLaw DEF Perm
<1>2. \A i \in Pos : Collect(p, Scatter(p, v))[i] = v[i]
  BY <1>1, InverseLaw DEF Collect, Scatter
<1>3. \A i \in Pos : Scatter(p, Collect(p, v))[i] = v[i]
  BY <1>1, InverseLaw DEF Collect, Scatter
<1>4. Collect(p, Scatter(p, v)) = v
  BY <1>2 DEF Collect
<1>5. Scatter(p, Collect(p, v)) = v
  BY <1>3 DEF Scatter
<1> QED
  BY <1>4, <1>5

------------------------------------------------------------------------------
(* Ring algebra *)

LEMMA PlusCancel ==
  ASSUME NEW a \in Ring, NEW b \in Ring, NEW c \in Ring, Plus(a, c) = Plus(b, c)
  PROVE  a = b
<1>1. Neg(c) \in Ring
  BY RingAssumption
<1>2. ASSUME NEW u \in Ring
      PROVE  Plus(Plus(u, c), Neg(c)) = u
  BY <1>1, RingAssumption
<1> QED
  BY <1>2

LEMMA MinusPlus ==
  ASSUME NEW a \in Ring, NEW b \in Ring
  PROVE  /\ Minus(a, b) \in Ring
         /\ Plus(Minus(a, b), b) = a
         /\ Minus(Plus(a, b), b) = a
<1>1. Neg(b) \in Ring
  BY RingAssumption
<1>2. Plus(Plus(a, Neg(b)), b) = Plus(a, Plus(Neg(b), b))
  BY <1>1, RingAssumption
<1>3. Plus(Neg(b), b) = Zero
  BY <1>1, RingAssumption
<1>4. Plus(Plus(a, b), Neg(b)) = Plus(a, Plus(b, Neg(b)))
  BY <1>1, RingAssumption
<1> QED
  BY <1>1, <1>2, <1>3, <1>4, RingAssumption DEF Minus

\* (a + b) + (c + d) = (a + c) + (b + d)
LEMMA PlusSwap ==
  ASSUME NEW a \in Ring, NEW b \in Ring, NEW c \in Ring, NEW d \in Ring
  PROVE  Plus(Plus(a, b), Plus(c, d)) = Plus(Plus(a, c), Plus(b, d))
<1>1. Plus(Plus(a, b), Plus(c, d)) = Plus(a, Plus(b, Plus(c, d)))
  BY RingAssumption
<1>2. Plus(b, Plus(c, d)) = Plus(c, Plus(b, d))
  <2>1. Plus(b, Plus(c, d)) = Plus(Plus(b, c), d)
    BY RingAssumption
  <2>2. Plus(Plus(b, c), d) = Plus(Plus(c, b), d)
    BY RingAssumption
  <2>3. Plus(Plus(c, b), d) = Plus(c, Plus(b, d))
    BY RingAssumption
  <2> QED
    BY <2>1, <2>2, <2>3
<1>3. Plus(a, Plus(c, Plus(b, d))) = Plus(Plus(a, c), Plus(b, d))
  BY RingAssumption
<1> QED
  BY <1>1, <1>2, <1>3

\* The masks of a permuting gate: (a + r0) - (r0 + s) = a - s, and
\* (b + r1) - (r1 - s) = b + s, so both together give b + a.
LEMMA MasksCancel ==
  ASSUME NEW a \in Ring, NEW b \in Ring, NEW r0 \in Ring, NEW r1 \in Ring, NEW s \in Ring
  PROVE  Plus(Minus(Plus(b, r1), Minus(r1, s)), Minus(Plus(a, r0), Plus(r0, s))) = Plus(a, b)
<1> DEFINE m == Minus(r1, s)
           u == Minus(Plus(b, r1), m)
           v == Minus(Plus(a, r0), Plus(r0, s))
<1>1. /\ m \in Ring /\ Plus(r0, s) \in Ring
      /\ Plus(b, r1) \in Ring /\ Plus(a, r0) \in Ring /\ Plus(b, s) \in Ring
  BY MinusPlus, RingAssumption
<1>2. u \in Ring /\ v \in Ring
  BY <1>1, MinusPlus
<1>3. u = Plus(b, s)
  <2>1. Plus(u, m) = Plus(b, r1)
    BY <1>1, MinusPlus
  <2>2. Plus(s, m) = r1
    BY <1>1, MinusPlus, RingAssumption
  <2>3. Plus(Plus(b, s), m) = Plus(b, Plus(s, m))
    BY <1>1, RingAssumption
  <2> HIDE DEF u, m
  <2> QED
    BY <1>1, <1>2, <2>1, <2>2, <2>3, PlusCancel
<1>4. Plus(v, s) = a
  <2>1. Plus(v, Plus(r0, s)) = Plus(a, r0)
    BY <1>1, MinusPlus
  <2> HIDE DEF v
  <2>2. Plus(v, Plus(r0, s)) = Plus(Plus(v, s), r0)
    <3>1. Plus(r0, s) = Plus(s, r0)
      BY RingAssumption
    <3> QED
      BY <1>2, <3>1, RingAssumption
  <2>3. Plus(v, s) \in Ring
    BY <1>2, RingAssumption
  <2> QED
    BY <2>1, <2>2, <2>3, PlusCancel
<1> HIDE DEF u, v, m
<1>5. Plus(Plus(b, s), v) = Plus(b, Plus(v, s))
  <2>1. Plus(s, v) = Plus(v, s)
    BY <1>2, RingAssumption
  <2> QED
    BY <1>2, <2>1, RingAssumption
<1>6. Plus(u, v) = Plus(a, b)
  BY <1>3, <1>4, <1>5, RingAssumption
<1> QED
  BY <1>6 DEF u, v, m

\* What a party computes from its triple, z - u - v + c, with the terms moved
\* to the side where they are not negated.
LEMMA ShareTerms ==
  ASSUME NEW z \in Ring, NEW u \in Ring, NEW v \in Ring, NEW c \in Ring
  PROVE  /\ Plus(Minus(Minus(z, u), v), c) \in Ring
         /\ Plus(Plus(Minus(Minus(z, u), v), c), Plus(u, v)) = Plus(z, c)
<1> DEFINE w == Minus(z, u)
           m == Minus(w, v)
<1>1. w \in Ring /\ Plus(w, u) = z
  BY MinusPlus
<1> HIDE DEF w
<1>2. m \in Ring /\ Plus(m, v) = w
  BY <1>1, MinusPlus
<1> HIDE DEF m
<1>3. Plus(u, v) = Plus(v, u) /\ Plus(c, u) = Plus(u, c)
  BY RingAssumption
<1>4. Plus(Plus(m, c), Plus(v, u)) = Plus(Plus(m, v), Plus(c, u))
  BY <1>2, PlusSwap
<1>5. Plus(w, Plus(u, c)) = Plus(Plus(w, u), c)
  BY <1>1, RingAssumption
<1>6. Plus(m, c) \in Ring
  BY <1>2, RingAssumption
<1>7. Plus(Plus(m, c), Plus(u, v)) = Plus(z, c)
  BY <1>1, <1>2, <1>3, <1>4, <1>5
<1> QED
  BY <1>6, <1>7 DEF m, w

LEMMA Distribute ==
  ASSUME NEW a \in Ring, NEW b \in Ring, NEW c \in Ring
  PROVE  Times(a, Plus(b, c)) = Plus(Times(a, b), Times(a, c))
BY RingAssumption

\* The two shares of a product: x * y, if a * b is opened by c.
LEMMA TripleCancels ==
  ASSUME NEW X \in Ring, NEW Y \in Ring,
         NEW a0 \in Ring, NEW a1 \in Ring, NEW b0 \in Ring, NEW b1 \in Ring,
         NEW c0 \in Ring, NEW c1 \in Ring,
         Plus(c0, c1) = Times(Plus(a0, a1), Plus(b0, b1)),
         NEW xa \in Ring, xa = Plus(X, Plus(a0, a1)),
         NEW yb \in Ring, yb = Plus(Y, Plus(b0, b1))
  PROVE  Plus(Plus(Minus(Minus(Zero, Times(xa, b0)), Times(yb, a0)), c0),
              Plus(Minus(Minus(Times(xa, yb), Times(xa, b1)), Times(yb, a1)), c1))
           = Times(X, Y)
<1> DEFINE A == Plus(a0, a1)
           B == Plus(b0, b1)
           u0 == Times(xa, b0)
           u1 == Times(xa, b1)
           v0 == Times(yb, a0)
           v1 == Times(yb, a1)
           z1 == Times(xa, yb)
           s0 == Plus(Minus(Minus(Zero, u0), v0), c0)
           s1 == Plus(Minus(Minus(z1, u1), v1), c1)
           xaB == Times(xa, B)
           ybA == Times(yb, A)
           XY == Times(X, Y)
           YA == Times(Y, A)
           AB == Times(A, B)
<1>1. /\ A \in Ring /\ B \in Ring /\ u0 \in Ring /\ u1 \in Ring
      /\ v0 \in Ring /\ v1 \in Ring /\ z1 \in Ring /\ Zero \in Ring
  BY RingAssumption
<1>2. /\ xaB = Plus(u0, u1) /\ xaB \in Ring
      /\ ybA = Plus(v0, v1) /\ ybA \in Ring
  <2>1. xaB = Plus(u0, u1)
    BY Distribute
  <2>2. ybA = Plus(v0, v1)
    BY Distribute
  <2>3. xaB \in Ring /\ ybA \in Ring
    <3> HIDE DEF A, B
    <3> QED
      BY <1>1, RingAssumption
  <2> QED
    BY <2>1, <2>2, <2>3
<1>3. XY \in Ring /\ YA \in Ring /\ AB \in Ring
  BY <1>1, RingAssumption
<1>4. z1 = Plus(Plus(XY, YA), xaB)
  <2>1. z1 = Plus(Times(xa, Y), xaB)
    <3> z1 = Times(xa, Plus(Y, B))
      OBVIOUS
    <3> HIDE DEF z1, A, B
    <3> QED
      BY <1>1, Distribute
  <2>2. Times(xa, Y) = Times(Y, Plus(X, A))
    BY RingAssumption
  <2>3. Times(Y, Plus(X, A)) = Plus(Times(Y, X), Times(Y, A))
    BY <1>1, RingAssumption
  <2>4. Times(Y, X) = Times(X, Y)
    BY RingAssumption
  <2> QED
    BY <2>1, <2>2, <2>3, <2>4
<1>5. ybA = Plus(YA, AB)
  <2>1. ybA = Times(A, Plus(Y, B))
    BY <1>1, RingAssumption
  <2>2. Times(A, Plus(Y, B)) = Plus(Times(A, Y), AB)
    BY <1>1, RingAssumption
  <2>3. Times(A, Y) = YA
    BY <1>1, RingAssumption
  <2> QED
    BY <2>1, <2>2, <2>3
<1>6. /\ s0 \in Ring /\ Plus(s0, Plus(u0, v0)) = Plus(Zero, c0)
      /\ s1 \in Ring /\ Plus(s1, Plus(u1, v1)) = Plus(z1, c1)
  <2> HIDE DEF A, B, u0, u1, v0, v1, z1, s0, s1, xaB, ybA, XY, YA, AB
  <2>1. /\ Plus(Minus(Minus(Zero, u0), v0), c0) \in Ring
        /\ Plus(Plus(Minus(Minus(Zero, u0), v0), c0), Plus(u0, v0)) = Plus(Zero, c0)
    <3>1. Zero \in Ring /\ u0 \in Ring /\ v0 \in Ring
      BY <1>1
    <3> QED
      BY SMTT(20), <3>1, ShareTerms
  <2>2. /\ Plus(Minus(Minus(z1, u1), v1), c1) \in Ring
        /\ Plus(Plus(Minus(Minus(z1, u1), v1), c1), Plus(u1, v1)) = Plus(z1, c1)
    <3>1. z1 \in Ring /\ u1 \in Ring /\ v1 \in Ring
      BY <1>1
    <3> QED
      BY SMTT(20), <3>1, ShareTerms
  <2> QED
    BY <2>1, <2>2 DEF s0, s1
<1>7. Plus(c0, c1) = AB
  OBVIOUS
<1> HIDE DEF A, B, u0, u1, v0, v1, z1, s0, s1, xaB, ybA, XY, YA, AB
<1>8. Plus(Plus(s0, s1), Plus(xaB, ybA)) = Plus(z1, AB)
  <2>1. Plus(xaB, ybA) = Plus(Plus(u0, v0), Plus(u1, v1))
    BY <1>1, <1>2, PlusSwap
  <2>2. Plus(u0, v0) \in Ring /\ Plus(u1, v1) \in Ring
    BY <1>1, RingAssumption
  <2>3. Plus(Plus(s0, s1), Plus(Plus(u0, v0), Plus(u1, v1)))
          = Plus(Plus(s0, Plus(u0, v0)), Plus(s1, Plus(u1, v1)))
    BY <1>6, <2>2, PlusSwap
  <2>4. Plus(Plus(Zero, c0), Plus(z1, c1)) = Plus(Plus(Zero, z1), Plus(c0, c1))
    BY <1>1, PlusSwap
  <2>5. Plus(Zero, z1) = z1
    BY <1>1, RingAssumption
  <2> QED
    BY <1>6, <1>7, <2>1, <2>3, <2>4, <2>5
<1>9. Plus(XY, Plus(xaB, ybA)) = Plus(z1, AB)
  <2>1. Plus(XY, Plus(xaB, ybA)) = Plus(Plus(XY, xaB), Plus(YA, AB))
    BY <1>2, <1>3, <1>5, RingAssumption
  <2>2. Plus(Plus(XY, xaB), Plus(YA, AB)) = Plus(Plus(XY, YA), Plus(xaB, AB))
    BY <1>2, <1>3, PlusSwap
  <2>3. Plus(XY, YA) \in Ring
    BY <1>3, RingAssumption
  <2>4. Plus(Plus(XY, YA), Plus(xaB, AB)) = Plus(z1, AB)
    BY <1>2, <1>3, <1>4, <2>3, RingAssumption
  <2> QED
    BY <2>1, <2>2, <2>4
<1>10. Plus(s0, s1) \in Ring /\ Plus(xaB, ybA) \in Ring
  BY <1>2, <1>6, RingAssumption
<1>11. Plus(s0, s1) = XY
  BY <1>3, <1>8, <1>9, <1>10, PlusCancel
<1> QED
  BY <1>11 DEF s0, s1, XY, u0, u1, v0, v1, z1

------------------------------------------------------------------------------
(* The dealer's permutations *)

Quads == [pi_0 : Perm, pi_1 : Perm, pi_0_p : Perm, pi_1_p : Perm]

\* Through P0 first or through P1 first, the entries end up at the same place.
Agree(q) == Compose(q.pi_0, q.pi_1) = Compose(q.pi_1_p, q.pi_0_p)

LEMMA ComposeAssoc ==
  ASSUME NEW p \in Perm, NEW q \in Perm, NEW r \in Perm
  PROVE  Compose(Compose(p, q), r) = Compose(p, Compose(q, r))
BY DEF Compose, Perm

LEMMA ComposeInverse ==
  ASSUME NEW p \in Perm, NEW q \in Perm
  PROVE  /\ Compose(Compose(q, PermInverse(p)), p) = q
         /\ Compose(p, Compose(PermInverse(p), q)) = q
<1>1. q \in [Pos -> Pos] /\ p \in [Pos -> Pos] /\ PermInverse(p) \in [Pos -> Pos]
  BY InverseLaw DEF Perm
<1>2. \A i \in Pos : PermInverse(p)[p[i]] = i /\ p[PermInverse(p)[i]] = i
  BY InverseLaw
<1> QED
  BY <1>1, <1>2 DEF Compose

\* The fourth permutation of a Shuffle closes the square, whoever gets it.
THEOREM QuadAgrees ==
  ASSUME NEW to \in Party, NEW a \in Perm, NEW b \in Perm, NEW c \in Perm
  PROVE  Quad(to, a, b, c) \in Quads /\ Agree(Quad(to, a, b, c))
<1>1. PermInverse(a) \in Perm /\ PermInverse(b) \in Perm
  BY InverseLaw
<1>2. CASE to = P1
  <2>1. Compose(b, c) \in Perm
    BY ComposeLaw
  <2>2. Compose(Compose(b, c), PermInverse(a)) \in Perm
    BY <1>1, <2>1, ComposeLaw
  <2>3. Compose(Compose(Compose(b, c), PermInverse(a)), a) = Compose(b, c)
    BY <2>1, ComposeInverse
  <2> QED
    BY <1>2, <2>2, <2>3 DEF Quad, Quads, Agree
<1>3. CASE to # P1
  <2>1. Compose(PermInverse(b), c) \in Perm /\ Compose(c, a) \in Perm
    BY <1>1, ComposeLaw
  <2>2. Compose(Compose(PermInverse(b), c), a) \in Perm
    BY <2>1, ComposeLaw
  <2>3. Compose(Compose(PermInverse(b), c), a) = Compose(PermInverse(b), Compose(c, a))
    BY <1>1, ComposeAssoc
  <2>4. Compose(b, Compose(PermInverse(b), Compose(c, a))) = Compose(c, a)
    BY <2>1, ComposeInverse
  <2> QED
    BY <1>3, <2>2, <2>3, <2>4 DEF Quad, Quads, Agree
<1> QED
  BY <1>2, <1>3

\* The permutations of a MergedShuffle close the square of the merge.
THEOREM MergedAgrees ==
  ASSUME NEW pi \in Perm, NEW omega \in Perm, NEW a \in Perm, NEW b \in Perm
  PROVE  LET q == MergedQuad(pi, omega, a, b) IN
           q \in Quads /\ Agree(q) /\ Compose(q.pi_0, q.pi_1) = Scatter(pi, omega)
<1> DEFINE m == Scatter(pi, omega)
<1>1. m \in Perm
  BY MergeLaw
<1> HIDE DEF m
<1>2. PermInverse(a) \in Perm /\ PermInverse(b) \in Perm
  BY InverseLaw
<1>3. Compose(PermInverse(a), m) \in Perm /\ Compose(PermInverse(b), m) \in Perm
  BY <1>1, <1>2, ComposeLaw
<1>4. Compose(a, Compose(PermInverse(a), m)) = m /\ Compose(b, Compose(PermInverse(b), m)) = m
  BY <1>1, ComposeInverse
<1>5. MergedQuad(pi, omega, a, b) = [pi_0 |-> a, pi_1_p |-> b,
        pi_0_p |-> Compose(PermInverse(b), m), pi_1 |-> Compose(PermInverse(a), m)]
  BY DEF MergedQuad, m
<1>6. /\ MergedQuad(pi, omega, a, b) \in Quads
      /\ Agree(MergedQuad(pi, omega, a, b))
      /\ Compose(MergedQuad(pi, omega, a, b).pi_0, MergedQuad(pi, omega, a, b).pi_1) = m
  BY <1>3, <1>4, <1>5 DEF Quads, Agree
<1> QED
  BY <1>6 DEF m

------------------------------------------------------------------------------
(* The inductive invariant *)

\* Entry k of the output of a permuting gate is entry Source(k) of its input.
Source(k) == order.undo[PermInverse(order.do)[k]]

\* The randomness of a permuting gate comes from one quadruple that agrees and
\* moves the entries as the gate is to move them.
PermutingOK(q, R0, R1, R) ==
  /\ Agree(q)
  /\ corr = PermCorr(q, gate = "Unshuffle", R0, R1, R)
  /\ order \in [undo : Perm, do : Perm]
  /\ \A k \in Pos : Source(k) = IF gate = "Unshuffle"
                                THEN Compose(q.pi_0, q.pi_1)[k]
                                ELSE PermInverse(Compose(q.pi_0, q.pi_1))[k]

CorrOK ==
  /\ gate \in Permuting =>
       \E q \in Quads, R0, R1 \in Vec, R \in Ring : PermutingOK(q, R0, R1, R)
  /\ gate \in Multiplying =>
       \E a, b \in [Party -> Vec], c0 \in Vec : corr = TripleCorr(a, b, c0)
  /\ gate = "Bit2A" => \A p \in Party : Bits(x[p])

\* A party that sent, sent its message; a party that is done had the other's
\* message and computed its result from it.
ProgressOK ==
  /\ step \in [Party -> {"start", "sent", "done"}]
  /\ DOMAIN sent = Party /\ DOMAIN res = Party
  /\ sent = [p \in Party |-> sent[p]] /\ res = [p \in Party |-> res[p]]
  /\ \A p \in Party : step[p] # "start" => sent[p] = Message(p)
  /\ \A p \in Party : step[p] = "done" => step[Other(p)] # "start" /\ res[p] = Result(p)

IInv ==
  /\ gate \in AllGateTypes
  /\ x \in [Party -> Vec] /\ y \in [Party -> Vec]
  /\ CorrOK
  /\ ProgressOK

LEMMA IdentityLaw ==
  /\ Identity \in Perm
  /\ \A k \in Pos : Identity[k] = k /\ PermInverse(Identity)[k] = k
<1>1. Identity \in [Pos -> Pos] /\ \A k \in Pos : Identity[k] = k
  BY DEF Identity
<1>2. Identity \in Perm
  BY <1>1 DEF Perm
<1>3. \A k \in Pos : PermInverse(Identity)[k] \in Pos
  BY <1>2, InverseLaw DEF Perm
<1>4. \A k \in Pos : PermInverse(Identity)[k] = k
  BY <1>1, <1>2, <1>3, InverseLaw
<1> QED
  BY <1>1, <1>2, <1>4

LEMMA InitInv == Init => IInv
<1> SUFFICES ASSUME Init PROVE IInv
  OBVIOUS
<1>1. gate \in AllGateTypes /\ x \in [Party -> Vec] /\ [Party -> Vectors] \subseteq [Party -> Vec]
  BY GateAssumption DEF Init
<1>2. ProgressOK
  BY DEF Init, ProgressOK
<1>3. CASE InitPermuting
  <2>1. y \in [Party -> Vec] /\ gate \in {"Shuffle", "Unshuffle"}
    BY <1>1, <1>3 DEF InitPermuting
  <2>2. PICK R0 \in Vectors, R1 \in Vectors, R \in Ring, a \in Perm, b \in Perm, c \in Perm,
             to \in Party :
          LET q == Quad(to, a, b, c)
              pi == Compose(q.pi_0, q.pi_1)
          IN  /\ corr = PermCorr(q, gate = "Unshuffle", R0, R1, R)
              /\ order = IF gate = "Unshuffle" THEN [undo |-> pi, do |-> Identity]
                                               ELSE [undo |-> Identity, do |-> pi]
    BY <1>3 DEF InitPermuting
  <2> DEFINE q == Quad(to, a, b, c)
             pi == Compose(q.pi_0, q.pi_1)
  <2>3. q \in Quads /\ Agree(q)
    BY QuadAgrees
  <2>4. /\ corr = PermCorr(q, gate = "Unshuffle", R0, R1, R)
        /\ order = IF gate = "Unshuffle" THEN [undo |-> pi, do |-> Identity]
                                         ELSE [undo |-> Identity, do |-> pi]
    BY <2>2
  <2> HIDE DEF q
  <2>5. pi \in Perm
    BY <2>3, ComposeLaw DEF Quads
  <2>6. \A k \in Pos : PermInverse(pi)[k] \in Pos
    BY <2>5, InverseLaw DEF Perm
  <2>7. order \in [undo : Perm, do : Perm]
    BY <2>4, <2>5, IdentityLaw
  <2>8. \A k \in Pos : Source(k) = IF gate = "Unshuffle" THEN pi[k] ELSE PermInverse(pi)[k]
    BY <2>4, <2>6, IdentityLaw DEF Source
  <2>9. PermutingOK(q, R0, R1, R)
    BY <2>3, <2>4, <2>7, <2>8 DEF PermutingOK
  <2>10. R0 \in Vec /\ R1 \in Vec
    BY GateAssumption
  <2>11. CorrOK
    BY <2>1, <2>3, <2>9, <2>10 DEF CorrOK, Multiplying
  <2> QED
    BY <1>1, <1>2, <2>1, <2>11 DEF IInv
<1>4. CASE InitMerged
  <2>1. y \in [Party -> Vec] /\ gate = "MergedShuffle"
    BY <1>1, <1>4 DEF InitMerged
  <2>2. PICK R0 \in Vectors, R1 \in Vectors, R \in Ring, pi \in Perm, omega \in Perm,
             a \in Perm, b \in Perm :
          /\ corr = PermCorr(MergedQuad(pi, omega, a, b), FALSE, R0, R1, R)
          /\ order = [undo |-> pi, do |-> omega]
    BY <1>4 DEF InitMerged
  <2> DEFINE q == MergedQuad(pi, omega, a, b)
  <2>3. q \in Quads /\ Agree(q) /\ Compose(q.pi_0, q.pi_1) = Scatter(pi, omega)
    BY MergedAgrees
  <2>4. corr = PermCorr(q, gate = "Unshuffle", R0, R1, R)
    BY <2>1, <2>2
  <2> HIDE DEF q
  <2>5. \A k \in Pos : Source(k) = PermInverse(Compose(q.pi_0, q.pi_1))[k]
    BY <2>2, <2>3, MergeLaw DEF Source
  <2>6. PermutingOK(q, R0, R1, R)
    BY <2>1, <2>2, <2>3, <2>4, <2>5 DEF PermutingOK
  <2>7. R0 \in Vec /\ R1 \in Vec
    BY GateAssumption
  <2>8. CorrOK
    BY <2>1, <2>3, <2>6, <2>7 DEF CorrOK, Multiplying
  <2> QED
    BY <1>1, <1>2, <2>1, <2>8 DEF IInv
<1>5. CASE InitMultiplying
  <2>1. y \in [Party -> Vec] /\ gate \in Multiplying
    BY <1>1, <1>5 DEF InitMultiplying
  <2>2. PICK a \in [Party -> Vectors], b \in [Party -> Vectors], c0 \in Vectors :
          corr = TripleCorr(a, b, c0)
    BY <1>5 DEF InitMultiplying
  <2>3. a \in [Party -> Vec] /\ b \in [Party -> Vec] /\ c0 \in Vec
    BY <1>1, GateAssumption
  <2>4. gate = "Bit2A" => \A p \in Party : Bits(x[p])
    BY <1>5 DEF InitMultiplying
  <2>5. CorrOK
    BY <2>1, <2>2, <2>3, <2>4 DEF CorrOK, Multiplying, Permuting
  <2> QED
    BY <1>1, <1>2, <2>1, <2>5 DEF IInv
<1>6. CASE InitReveal
  <2>1. CorrOK
    BY <1>6 DEF InitReveal, CorrOK, Multiplying, Permuting
  <2> QED
    BY <1>1, <1>2, <1>6, <2>1 DEF IInv, InitReveal
<1> QED
  BY <1>3, <1>4, <1>5, <1>6 DEF Init

LEMMA StepInv == IInv /\ [Next]_vars => IInv'
<1> SUFFICES ASSUME IInv, [Next]_vars PROVE IInv'
  OBVIOUS
<1> USE DEF Party, P0, P1, Other
<1>1. ASSUME NEW p \in Party, Send(p) PROVE IInv'
  <2>1. UNCHANGED <<gate, x, y, corr, order>>
    BY <1>1 DEF Send
  <2>2. CorrOK'
    BY <2>1 DEF IInv, CorrOK, PermutingOK, Source, Bits
  <2>3. ProgressOK'
    <3>1. \A q \in Party : Message(q)' = Message(q)
      BY <2>1 DEF Message, MaskedShuffle, MaskedFactors, FactorX, FactorY
    <3>2. sent'[p] = Message(p) /\ \A q \in Party : q # p => sent'[q] = sent[q]
      BY <1>1 DEF Send, IInv, ProgressOK
    <3>3. \A q \in Party : step[q] # "done"
      BY <1>1 DEF Send, IInv, ProgressOK
    <3> QED
      BY <1>1, <3>1, <3>2, <3>3 DEF Send, IInv, ProgressOK
  <2> QED
    BY <2>1, <2>2, <2>3 DEF IInv
<1>2. ASSUME NEW p \in Party, Receive(p) PROVE IInv'
  <2>1. UNCHANGED <<gate, x, y, corr, order, sent>>
    BY <1>2 DEF Receive
  <2>2. CorrOK'
    BY <2>1 DEF IInv, CorrOK, PermutingOK, Source, Bits
  <2>3. ProgressOK'
    <3>1. \A q \in Party : Message(q)' = Message(q) /\ Result(q)' = Result(q)
      BY <2>1 DEF Message, MaskedShuffle, MaskedFactors, FactorX, FactorY,
                  Result, Unmasked, FromBit, Product
    <3>2. res'[p] = Result(p) /\ \A q \in Party : q # p => res'[q] = res[q]
      BY <1>2 DEF Receive, IInv, ProgressOK
    <3>3. /\ step \in [Party -> {"start", "sent", "done"}]
          /\ step' = [step EXCEPT ![p] = "done"]
          /\ step[p] = "sent" /\ step[Other(p)] # "start"
          /\ res' = [res EXCEPT ![p] = Result(p)]
      BY <1>2 DEF Receive, IInv, ProgressOK
    <3>4. /\ step' \in [Party -> {"start", "sent", "done"}]
          /\ \A q \in Party : step'[q] = IF q = p THEN "done" ELSE step[q]
      BY <3>3
    <3>5. DOMAIN sent' = Party /\ sent' = [q \in Party |-> sent'[q]]
      BY <2>1 DEF IInv, ProgressOK
    <3>6. DOMAIN res' = Party /\ res' = [q \in Party |-> res'[q]]
      BY <3>3 DEF IInv, ProgressOK
    <3>7. \A q \in Party : step'[q] # "start" => sent'[q] = Message(q)'
      BY <2>1, <3>1, <3>3, <3>4 DEF IInv, ProgressOK
    <3>8. \A q \in Party : step'[q] = "done" => step'[Other(q)] # "start" /\ res'[q] = Result(q)'
      BY <3>1, <3>2, <3>3, <3>4 DEF IInv, ProgressOK
    <3> QED
      BY <3>4, <3>5, <3>6, <3>7, <3>8 DEF ProgressOK
  <2> QED
    BY <2>1, <2>2, <2>3 DEF IInv
<1>3. CASE UNCHANGED vars
  <2>1. UNCHANGED <<gate, x, y, corr, order, step, sent, res>>
    BY <1>3 DEF vars
  <2>2. CorrOK'
    BY <2>1 DEF IInv, CorrOK, PermutingOK, Source, Bits
  <2>3. \A q \in Party : Message(q)' = Message(q) /\ Result(q)' = Result(q)
    BY <2>1 DEF Message, MaskedShuffle, MaskedFactors, FactorX, FactorY,
                Result, Unmasked, FromBit, Product
  <2>4. ProgressOK'
    BY <2>1, <2>3 DEF IInv, ProgressOK
  <2> QED
    BY <2>1, <2>2, <2>4 DEF IInv
<1> QED
  BY <1>1, <1>2, <1>3 DEF Next, Terminated

------------------------------------------------------------------------------
(* The invariant implies that the gate opens to what it computes           *)

\* An entry of a party's result: the partner's masked entry Source(k) minus
\* the correction, which holds the partner's mask at Source(k) as well.
LEMMA PermutedEntry ==
  ASSUME IInv, Done, gate \in Permuting,
         NEW q \in Quads, NEW R0 \in Vec, NEW R1 \in Vec, NEW R \in Ring,
         PermutingOK(q, R0, R1, R), NEW k \in Pos
  PROVE  LET s == Source(k) IN
           /\ s \in Pos
           /\ res[P0][k] = Minus(Plus(x[P1][s], R1[s]), Minus(R1[s], R))
           /\ res[P1][k] = Minus(Plus(x[P0][s], R0[s]), Plus(R0[s], R))
<1> DEFINE s == Source(k)
           pi == Compose(q.pi_0, q.pi_1)
<1> USE DEF Party, P0, P1, Other
<1>1. /\ q.pi_0 \in Perm /\ q.pi_1 \in Perm /\ q.pi_0_p \in Perm /\ q.pi_1_p \in Perm
      /\ pi = Compose(q.pi_1_p, q.pi_0_p)
  BY DEF Quads, PermutingOK, Agree
<1>2. pi \in Perm /\ PermInverse(pi) \in Perm
  BY <1>1, ComposeLaw, InverseLaw
<1>3. /\ sent[P0] = MaskedShuffle(P0) /\ sent[P1] = MaskedShuffle(P1)
      /\ res[P0] = Unmasked(P0) /\ res[P1] = Unmasked(P1)
  BY DEF IInv, Done, ProgressOK, Message, Result, Permuting, Multiplying
<1>4. corr[P0].R = R0 /\ corr[P1].R = R1
  BY DEF PermutingOK, PermCorr
<1>5. CASE gate = "Unshuffle"
  <2>1. /\ corr[P0].send = q.pi_0 /\ corr[P0].recv = q.pi_0_p
        /\ corr[P1].send = q.pi_1_p /\ corr[P1].recv = q.pi_1
    BY <1>5 DEF PermutingOK, PermCorr
  <2>2. /\ corr[P0].B = [j \in Pos |-> Minus(Scatter(PermInverse(pi), R1)[j], R)]
        /\ corr[P1].B = [j \in Pos |-> Plus(Scatter(PermInverse(pi), R0)[j], R)]
    BY <1>5 DEF PermutingOK, PermCorr, Corrections
  <2>3. s = pi[k]
    BY <1>5 DEF PermutingOK
  <2>4. s = q.pi_0[q.pi_1[k]] /\ s = q.pi_1_p[q.pi_0_p[k]]
    BY <1>1, <2>3 DEF Compose
  <2> HIDE DEF s, pi
  <2>5. q.pi_1[k] \in Pos /\ q.pi_0_p[k] \in Pos /\ s \in Pos
    BY <1>1, <1>2, <2>3, PermType
  <2>6. PermInverse(PermInverse(pi))[k] = s
    BY <1>2, <2>3, InverseInvolution
  <2>7. corr[P0].B[k] = Minus(R1[s], R) /\ corr[P1].B[k] = Plus(R0[s], R)
    BY <2>2, <2>6 DEF Scatter
  <2>8. /\ sent[P1][q.pi_0_p[k]] = Plus(x[P1][s], R1[s])
        /\ sent[P0][q.pi_1[k]] = Plus(x[P0][s], R0[s])
    <3>1. /\ sent[P1] = Collect(q.pi_1_p, [j \in Pos |-> Plus(x[P1][j], R1[j])])
          /\ sent[P0] = Collect(q.pi_0, [j \in Pos |-> Plus(x[P0][j], R0[j])])
      BY <1>3, <1>4, <1>5, <2>1 DEF MaskedShuffle
    <3>2. /\ sent[P1][q.pi_0_p[k]] = [j \in Pos |-> Plus(x[P1][j], R1[j])][q.pi_1_p[q.pi_0_p[k]]]
          /\ sent[P0][q.pi_1[k]] = [j \in Pos |-> Plus(x[P0][j], R0[j])][q.pi_0[q.pi_1[k]]]
      BY <2>5, <3>1 DEF Collect
    <3> QED
      BY <2>4, <2>5, <3>2
  <2>9. /\ res[P0][k] = Minus(sent[P1][q.pi_0_p[k]], corr[P0].B[k])
        /\ res[P1][k] = Minus(sent[P0][q.pi_1[k]], corr[P1].B[k])
    BY <1>3, <1>5, <2>1 DEF Unmasked, Collect
  <2> QED
    BY <2>5, <2>7, <2>8, <2>9 DEF s
<1>6. CASE gate # "Unshuffle"
  <2>1. /\ corr[P0].send = q.pi_0_p /\ corr[P0].recv = q.pi_0
        /\ corr[P1].send = q.pi_1 /\ corr[P1].recv = q.pi_1_p
    BY <1>6 DEF PermutingOK, PermCorr
  <2>2. /\ corr[P0].B = [j \in Pos |-> Minus(Scatter(pi, R1)[j], R)]
        /\ corr[P1].B = [j \in Pos |-> Plus(Scatter(pi, R0)[j], R)]
    BY <1>6 DEF PermutingOK, PermCorr, Corrections
  <2>3. s = PermInverse(pi)[k]
    BY <1>6 DEF PermutingOK
  <2>4. /\ s = PermInverse(q.pi_1)[PermInverse(q.pi_0)[k]]
        /\ s = PermInverse(q.pi_0_p)[PermInverse(q.pi_1_p)[k]]
    BY <1>1, <2>3, ComposeLaw
  <2> HIDE DEF s, pi
  <2>5. PermInverse(q.pi_0)[k] \in Pos /\ PermInverse(q.pi_1_p)[k] \in Pos /\ s \in Pos
    BY <1>1, <1>2, <2>3, PermType
  <2>6. corr[P0].B[k] = Minus(R1[s], R) /\ corr[P1].B[k] = Plus(R0[s], R)
    BY <2>2, <2>3 DEF Scatter
  <2>7. /\ sent[P1][PermInverse(q.pi_0)[k]] = Plus(x[P1][s], R1[s])
        /\ sent[P0][PermInverse(q.pi_1_p)[k]] = Plus(x[P0][s], R0[s])
    <3>1. /\ sent[P1] = Scatter(q.pi_1, [j \in Pos |-> Plus(x[P1][j], R1[j])])
          /\ sent[P0] = Scatter(q.pi_0_p, [j \in Pos |-> Plus(x[P0][j], R0[j])])
      BY <1>3, <1>4, <1>6, <2>1 DEF MaskedShuffle
    <3>2. /\ sent[P1][PermInverse(q.pi_0)[k]] = [j \in Pos |-> Plus(x[P1][j], R1[j])]
                                           [PermInverse(q.pi_1)[PermInverse(q.pi_0)[k]]]
          /\ sent[P0][PermInverse(q.pi_1_p)[k]] = [j \in Pos |-> Plus(x[P0][j], R0[j])]
                                           [PermInverse(q.pi_0_p)[PermInverse(q.pi_1_p)[k]]]
      BY <2>5, <3>1 DEF Scatter
    <3> QED
      BY <2>4, <2>5, <3>2
  <2>8. /\ res[P0][k] = Minus(sent[P1][PermInverse(q.pi_0)[k]], corr[P0].B[k])
        /\ res[P1][k] = Minus(sent[P0][PermInverse(q.pi_1_p)[k]], corr[P1].B[k])
    BY <1>3, <1>6, <2>1 DEF Unmasked, Scatter
  <2> QED
    BY <2>5, <2>6, <2>7, <2>8 DEF s
<1> QED
  BY <1>5, <1>6

LEMMA PermutingOpens ==
  ASSUME IInv, Done, gate \in Permuting
  PROVE  Open(res) = Ideal
<1>1. PICK q \in Quads, R0 \in Vec, R1 \in Vec, R \in Ring : PermutingOK(q, R0, R1, R)
  BY DEF IInv, CorrOK
<1>2. Ideal = Scatter(order.do, Collect(order.undo, Open(x)))
  BY DEF Ideal, Permuting
<1>3. ASSUME NEW k \in Pos
      PROVE  Plus(res[P0][k], res[P1][k]) = Ideal[k]
  <2> DEFINE s == Source(k)
  <2>1. /\ s \in Pos
        /\ res[P0][k] = Minus(Plus(x[P1][s], R1[s]), Minus(R1[s], R))
        /\ res[P1][k] = Minus(Plus(x[P0][s], R0[s]), Plus(R0[s], R))
    BY <1>1, PermutedEntry
  <2>2. PermInverse(order.do)[k] \in Pos
    BY <1>1, PermType DEF PermutingOK
  <2>3. Ideal[k] = Open(x)[s]
    BY <1>2, <2>2 DEF Scatter, Collect, Source
  <2> HIDE DEF s
  <2>4. Ideal[k] = Plus(x[P0][s], x[P1][s])
    BY <2>1, <2>3 DEF Open
  <2>5. x[P0][s] \in Ring /\ x[P1][s] \in Ring /\ R0[s] \in Ring /\ R1[s] \in Ring
       /\ R \in Ring
    BY <1>1, <2>1 DEF IInv, Vec, Party
  <2>6. Plus(res[P0][k], res[P1][k]) = Plus(x[P0][s], x[P1][s])
    <3>1. R \in Ring
      BY <1>1
    <3>2. \A a, b, r0, r1 \in Ring :
            Plus(Minus(Plus(b, r1), Minus(r1, R)), Minus(Plus(a, r0), Plus(r0, R))) = Plus(a, b)
      BY <3>1, MasksCancel
    <3>3. Plus(Minus(Plus(x[P1][s], R1[s]), Minus(R1[s], R)),
               Minus(Plus(x[P0][s], R0[s]), Plus(R0[s], R))) = Plus(x[P0][s], x[P1][s])
      BY <2>5, <3>2
    <3> QED
      BY <2>1, <3>3
  <2> QED
    BY <2>4, <2>6
<1>4. Open(res) = [k \in Pos |-> Ideal[k]]
  BY <1>3 DEF Open
<1>5. Ideal = [k \in Pos |-> Ideal[k]]
  BY <1>2 DEF Scatter
<1> QED
  BY <1>4, <1>5

LEMMA FactorTypes ==
  ASSUME IInv, NEW p \in Party, NEW i \in Pos
  PROVE  FactorX(p)[i] \in Ring /\ FactorY(p)[i] \in Ring
<1>1. x[p][i] \in Ring /\ y[p][i] \in Ring
  BY DEF IInv, Vec
<1>2. Id(p) \in Ring /\ Id(Other(p)) \in Ring
  BY RingAssumption DEF Id
<1>3. Times(Id(Other(p)), x[p][i]) \in Ring /\ Times(Id(p), x[p][i]) \in Ring
  BY <1>1, <1>2, RingAssumption
<1> QED
  BY <1>1, <1>3 DEF FactorX, FactorY

\* The parties' shares of the product open to the product of the factors.
LEMMA ProductOpens ==
  ASSUME IInv, Done, gate \in Multiplying, NEW i \in Pos
  PROVE  /\ Product(P0)[i] \in Ring /\ Product(P1)[i] \in Ring
         /\ Plus(Product(P0)[i], Product(P1)[i])
              = Times(Plus(FactorX(P0)[i], FactorX(P1)[i]), Plus(FactorY(P0)[i], FactorY(P1)[i]))
<1>1. PICK a \in [Party -> Vec], b \in [Party -> Vec], c0 \in Vec : corr = TripleCorr(a, b, c0)
  BY DEF IInv, CorrOK
<1> DEFINE fx(p) == FactorX(p)[i]
           fy(p) == FactorY(p)[i]
           A(p) == a[p][i]
           B(p) == b[p][i]
           c == Times(Plus(A(P0), A(P1)), Plus(B(P0), B(P1)))
           C == Minus(c, c0[i])
           xa == Plus(Plus(fx(P0), A(P0)), Plus(fx(P1), A(P1)))
           yb == Plus(Plus(fy(P0), B(P0)), Plus(fy(P1), B(P1)))
           X == Plus(fx(P0), fx(P1))
           Y == Plus(fy(P0), fy(P1))
           s0 == Plus(Minus(Minus(Zero, Times(xa, B(P0))), Times(yb, A(P0))), c0[i])
           s1 == Plus(Minus(Minus(Times(xa, yb), Times(xa, B(P1))), Times(yb, A(P1))), C)
<1>2. P0 \in Party /\ P1 \in Party /\ P0 # P1
  BY DEF Party, P0, P1
<1>3. fx(P0) \in Ring /\ fx(P1) \in Ring /\ fy(P0) \in Ring /\ fy(P1) \in Ring
  BY <1>2, FactorTypes
<1>4. /\ A(P0) \in Ring /\ A(P1) \in Ring /\ B(P0) \in Ring /\ B(P1) \in Ring
      /\ c0[i] \in Ring
  BY <1>1, <1>2 DEF Vec
<1>5. c \in Ring
  BY <1>4, RingAssumption
<1>6. C \in Ring /\ Plus(c0[i], C) = c
  <2> HIDE DEF c
  <2>1. C \in Ring /\ Plus(C, c0[i]) = c
    BY <1>4, <1>5, MinusPlus
  <2> HIDE DEF C
  <2> QED
    BY <1>4, <2>1, RingAssumption
<1>7. xa = Plus(X, Plus(A(P0), A(P1))) /\ yb = Plus(Y, Plus(B(P0), B(P1)))
  BY SMTT(20), <1>3, <1>4, PlusSwap
<1>8. X \in Ring /\ Y \in Ring /\ xa \in Ring /\ yb \in Ring
  <2> HIDE DEF fx, fy, A, B
  <2> QED
    BY <1>3, <1>4, RingAssumption
<1>9. Plus(s0, s1) = Times(X, Y)
  <2> HIDE DEF fx, fy, A, B, c, C, xa, yb, X, Y
  <2>1. ASSUME NEW a0 \in Ring, NEW a1 \in Ring, NEW b0 \in Ring, NEW b1 \in Ring,
               xa = Plus(X, Plus(a0, a1)), yb = Plus(Y, Plus(b0, b1))
        PROVE  \A d0, d1 \in Ring :
                 Plus(d0, d1) = Times(Plus(a0, a1), Plus(b0, b1)) =>
                   Plus(Plus(Minus(Minus(Zero, Times(xa, b0)), Times(yb, a0)), d0),
                        Plus(Minus(Minus(Times(xa, yb), Times(xa, b1)), Times(yb, a1)), d1))
                     = Times(X, Y)
    BY <1>8, <2>1, TripleCancels
  <2>2. c = Times(Plus(A(P0), A(P1)), Plus(B(P0), B(P1)))
    BY DEF c
  <2>3. \A d0, d1 \in Ring :
          Plus(d0, d1) = Times(Plus(A(P0), A(P1)), Plus(B(P0), B(P1))) =>
            Plus(Plus(Minus(Minus(Zero, Times(xa, B(P0))), Times(yb, A(P0))), d0),
                 Plus(Minus(Minus(Times(xa, yb), Times(xa, B(P1))), Times(yb, A(P1))), d1))
              = Times(X, Y)
    BY <1>4, <1>7, <2>1
  <2> QED
    BY <1>4, <1>6, <2>2, <2>3
<1>10. s0 \in Ring /\ s1 \in Ring
  <2>1. /\ Times(xa, B(P0)) \in Ring /\ Times(yb, A(P0)) \in Ring /\ Times(xa, yb) \in Ring
        /\ Times(xa, B(P1)) \in Ring /\ Times(yb, A(P1)) \in Ring /\ Zero \in Ring
    <3> HIDE DEF xa, yb, A, B
    <3> QED
      BY <1>4, <1>8, RingAssumption
  <2>2. ASSUME NEW z \in Ring, NEW u \in Ring, NEW v \in Ring, NEW d \in Ring
        PROVE  Plus(Minus(Minus(z, u), v), d) \in Ring
    BY ShareTerms
  <2> HIDE DEF xa, yb, A, B, C
  <2> QED
    BY <1>4, <1>6, <2>1, <2>2
<1>11. /\ sent[P0] = MaskedFactors(P0) /\ sent[P1] = MaskedFactors(P1)
  BY <1>2 DEF IInv, Done, ProgressOK, Message, Permuting, Multiplying
<1>12. /\ corr[P0] = [a |-> a[P0], b |-> b[P0], c |-> c0]
       /\ corr[P1].a = a[P1] /\ corr[P1].b = b[P1] /\ corr[P1].c[i] = C
  BY <1>1, <1>2 DEF TripleCorr
<1>13. /\ xa = Plus(sent[P0].xa[i], sent[P1].xa[i])
       /\ yb = Plus(sent[P0].yb[i], sent[P1].yb[i])
  BY <1>11, <1>12 DEF MaskedFactors
<1>14. Id(P0) = Zero /\ Id(P1) = One
  BY DEF Id, P0, P1
<1> HIDE DEF xa, yb
<1>15. Times(xa, yb) \in Ring
  BY <1>8, RingAssumption
<1>16. Times(Times(xa, yb), Zero) = Zero /\ Times(Times(xa, yb), One) = Times(xa, yb)
  BY <1>15, RingAssumption
<1>17. Product(P0)[i] = s0
  BY <1>12, <1>13, <1>14, <1>16 DEF Product
<1>18. Product(P1)[i] = s1
  BY <1>12, <1>13, <1>14, <1>16 DEF Product
<1> HIDE DEF s0, s1
<1> QED
  BY <1>9, <1>10, <1>17, <1>18

LEMMA MulOpens ==
  ASSUME IInv, Done, gate = "MulSIMD"
  PROVE  Open(res) = Ideal
<1>1. res[P0] = Product(P0) /\ res[P1] = Product(P1)
  BY DEF IInv, Done, ProgressOK, Result, Permuting, Party, P0, P1
<1>2. \A i \in Pos : Plus(res[P0][i], res[P1][i])
                       = Times(Plus(x[P0][i], x[P1][i]), Plus(y[P0][i], y[P1][i]))
  BY <1>1, ProductOpens DEF FactorX, FactorY, Multiplying
<1>3. Ideal = [i \in Pos |-> Times(Open(x)[i], Open(y)[i])]
  BY DEF Ideal, Permuting
<1> QED
  BY <1>2, <1>3 DEF Open

\* bit0 + bit1 - 2 * bit0 * bit1 is the exclusive or of two bits.
LEMMA XorLaw ==
  ASSUME NEW b \in {Zero, One}, NEW c \in {Zero, One},
         NEW s \in Ring, NEW t \in Ring, Plus(s, t) = Times(b, c)
  PROVE  Plus(Minus(b, Plus(s, s)), Minus(c, Plus(t, t))) = BitXor(b, c)
<1> DEFINE m == Times(b, c)
           u == Minus(b, Plus(s, s))
           v == Minus(c, Plus(t, t))
<1>1. b \in Ring /\ c \in Ring /\ Zero \in Ring /\ One \in Ring
  BY RingAssumption
<1>2. m \in Ring /\ Plus(b, c) \in Ring /\ Plus(s, s) \in Ring /\ Plus(t, t) \in Ring
  BY <1>1, RingAssumption
<1>3. /\ u \in Ring /\ Plus(u, Plus(s, s)) = b
      /\ v \in Ring /\ Plus(v, Plus(t, t)) = c
  BY <1>1, <1>2, MinusPlus
<1> HIDE DEF u, v
<1>4. Plus(Plus(u, v), Plus(m, m)) = Plus(b, c)
  <2>1. Plus(Plus(s, s), Plus(t, t)) = Plus(m, m)
    BY PlusSwap
  <2> HIDE DEF m
  <2>2. Plus(Plus(u, v), Plus(Plus(s, s), Plus(t, t)))
          = Plus(Plus(u, Plus(s, s)), Plus(v, Plus(t, t)))
    BY <1>2, <1>3, PlusSwap
  <2> QED
    BY <1>3, <2>1, <2>2
<1>5. Plus(BitXor(b, c), Plus(m, m)) = Plus(b, c)
  <2>1. CASE c = Zero
    <3>1. m = Zero /\ Plus(Zero, Zero) = Zero
      BY <1>1, <2>1, RingAssumption
    <3>2. BitXor(b, c) = b
      BY <2>1 DEF BitXor
    <3> QED
      BY <2>1, <3>1, <3>2
  <2>2. CASE c = One /\ b = Zero
    <3>1. m = Zero /\ Plus(Zero, Zero) = Zero /\ Plus(One, Zero) = One /\ Plus(Zero, One) = One
      BY <1>1, <2>2, RingAssumption
    <3>2. BitXor(b, c) = One
      BY <2>2 DEF BitXor
    <3> QED
      BY <2>2, <3>1, <3>2
  <2>3. CASE c = One /\ b = One
    <3>1. m = One
      BY <1>1, <2>3, RingAssumption
    <3>2. BitXor(b, c) = Zero
      BY <2>3 DEF BitXor
    <3>3. Plus(Zero, Plus(One, One)) = Plus(One, One)
      <4>1. Plus(One, One) \in Ring
        BY <1>1, RingAssumption
      <4> QED
        BY <1>1, <4>1, RingAssumption
    <3> QED
      BY <2>3, <3>1, <3>2, <3>3
  <2> QED
    BY <2>1, <2>2, <2>3
<1>6. Plus(u, v) \in Ring /\ BitXor(b, c) \in Ring /\ Plus(m, m) \in Ring
  <2>1. BitXor(b, c) \in Ring
    BY <1>1 DEF BitXor
  <2> HIDE DEF m
  <2> QED
    BY <1>2, <1>3, <2>1, RingAssumption
<1> HIDE DEF m
<1>7. Plus(u, v) = BitXor(b, c)
  BY <1>4, <1>5, <1>6, PlusCancel
<1> QED
  BY <1>7 DEF u, v

LEMMA Bit2AOpens ==
  ASSUME IInv, Done, gate = "Bit2A"
  PROVE  Open(res) = Ideal
<1>1. res[P0] = FromBit(P0) /\ res[P1] = FromBit(P1)
  BY DEF IInv, Done, ProgressOK, Result, Permuting, Party, P0, P1
<1>2. Ideal = [i \in Pos |-> BitXor(x[P0][i], x[P1][i])]
  BY DEF Ideal, Permuting
<1>3. ASSUME NEW i \in Pos
      PROVE  Plus(res[P0][i], res[P1][i]) = BitXor(x[P0][i], x[P1][i])
  <2> DEFINE b == x[P0][i]
             c == x[P1][i]
             s == Product(P0)[i]
             t == Product(P1)[i]
  <2>1. b \in {Zero, One} /\ c \in {Zero, One}
    BY DEF IInv, CorrOK, Bits, Party, P0, P1
  <2>2. b \in Ring /\ c \in Ring
    BY <2>1, RingAssumption
  <2>3. /\ FactorX(P0)[i] = Times(One, b) /\ FactorX(P1)[i] = Times(Zero, c)
        /\ FactorY(P0)[i] = Times(Zero, b) /\ FactorY(P1)[i] = Times(One, c)
    BY DEF FactorX, FactorY, Id, Other, P0, P1
  <2>4. /\ Plus(FactorX(P0)[i], FactorX(P1)[i]) = b
        /\ Plus(FactorY(P0)[i], FactorY(P1)[i]) = c
    <3> HIDE DEF b, c
    <3> QED
      BY <2>2, <2>3, RingAssumption
  <2>5. s \in Ring /\ t \in Ring /\ Plus(s, t) = Times(b, c)
    BY <2>4, ProductOpens DEF Multiplying
  <2>6. res[P0][i] = Minus(b, Plus(s, s)) /\ res[P1][i] = Minus(c, Plus(t, t))
    BY <1>1 DEF FromBit
  <2> HIDE DEF b, c, s, t
  <2>7. Plus(res[P0][i], res[P1][i]) = BitXor(b, c)
    BY <2>1, <2>5, <2>6, XorLaw
  <2> QED
    BY <2>7 DEF b, c
<1> QED
  BY <1>2, <1>3 DEF Open

LEMMA InvReconstructed == IInv => Reconstructed
<1> SUFFICES ASSUME IInv, Done
             PROVE  IF gate = "Reveal" THEN \A p \in Party : res[p] = Ideal ELSE Open(res) = Ideal
  BY DEF Reconstructed
<1>1. CASE gate \in Permuting
  BY <1>1, PermutingOpens DEF Permuting
<1>2. CASE gate = "MulSIMD"
  BY <1>2, MulOpens
<1>3. CASE gate = "Bit2A"
  BY <1>3, Bit2AOpens
<1>4. CASE gate = "Reveal"
  <2>1. sent[P0] = x[P0] /\ sent[P1] = x[P1]
    BY <1>4 DEF IInv, Done, ProgressOK, Message, Permuting, Multiplying, Party, P0, P1
  <2>2. \A p \in Party : res[p] = [i \in Pos |-> Plus(x[p][i], sent[Other(p)][i])]
    BY <1>4 DEF IInv, Done, ProgressOK, Result, Permuting
  <2>3. Ideal = [i \in Pos |-> Plus(x[P0][i], x[P1][i])]
    BY <1>4 DEF Ideal, Permuting, Open
  <2>4. \A i \in Pos : Plus(x[P1][i], x[P0][i]) = Plus(x[P0][i], x[P1][i])
    <3>1. \A i \in Pos : x[P0][i] \in Ring /\ x[P1][i] \in Ring
      BY DEF IInv, Vec, Party
    <3> QED
      BY <3>1, RingAssumption
  <2>5. res[P0] = Ideal
    BY <2>1, <2>2, <2>3 DEF Party, Other, P0, P1
  <2>6. res[P1] = Ideal
    <3>1. res[P1] = [i \in Pos |-> Plus(x[P1][i], x[P0][i])]
      BY <2>1, <2>2 DEF Party, Other, P0, P1
    <3> QED
      BY <2>3, <2>4, <3>1
  <2> QED
    BY <1>4, <2>5, <2>6 DEF Party
<1> QED
  BY <1>1, <1>2, <1>3, <1>4 DEF IInv, AllGateTypes, Permuting

\* Every gate opens to what it computes, for all vectors over all rings.
THEOREM Reconstruction == Spec => []Reconstructed
<1>1. Init => IInv
  BY InitInv
<1>2. IInv /\ [Next]_vars => IInv'
  BY StepInv
<1>3. IInv => Reconstructed
  BY InvReconstructed
<1> QED
  BY <1>1, <1>2, <1>3, PTL DEF Spec

==============================================================================
