------------------------- MODULE InputSharing_proof -------------------------
(***************************************************************************)
(* The two ways to a shared graph.                                         *)
(*                                                                         *)
(* InputSharing, for every number of clients and all slices: the messages  *)
(* arrive in the order of the script, the loops add up all of them, and    *)
(* what gets past the checks of recv_graph is a list without gaps and      *)
(* overlaps.                                                               *)
(*                                                                         *)
(* GraphSharing, from "Powers of two" on, for graphs of every size: all    *)
(* that a party has follows from where it is, and what is on the way to it *)
(* from where both are.                                                    *)
(***************************************************************************)
EXTENDS InputSharing, GraphSharing, FiniteSetTheorems, SequenceTheorems, WellFoundedInduction, TLAPS

------------------------------------------------------------------------------
(* Loops that add up *)

(* A nonempty set of naturals has a smallest element: by it, what a loop adds
   up can be reasoned about. *)
LEMMA Smallest ==
  ASSUME NEW T \in SUBSET Nat, T # {}
  PROVE  \E m \in T : \A k \in T : ~ (k < m)
<1> DEFINE R == OpToRel(<, Nat)
<1>1. IsWellFoundedOn(R, Nat)
  BY NatLessThanWellFounded
<1>2. \A k, m \in Nat : <<k, m>> \in R <=> k < m
  BY DEF OpToRel
<1> HIDE DEF R
<1>3. \E x \in T : \A y \in T : ~ (<<y, x>> \in R)
  BY <1>1, WFMin
<1> QED
  BY <1>2, <1>3

\* g sums the first n of f.
Sums(g, f, n) == g = [k \in 0 .. n |-> IF k = 0 THEN 0 ELSE g[k - 1] + f[k]]

(* A loop has sums after every number of iterations ... *)
LEMMA SumsExist ==
  ASSUME NEW f, NEW n \in Nat
  PROVE  \E g : Sums(g, f, n)
<1> DEFINE T == {m \in Nat : ~ \E g : Sums(g, f, m)}
<1> SUFFICES ASSUME T # {} PROVE FALSE
  OBVIOUS
<1>1. PICK m \in T : \A k \in T : ~ (k < m)
  BY Smallest
<1>2. m \in Nat /\ ~ \E g : Sums(g, f, m)
  OBVIOUS
<1>3. CASE m = 0
  <2>1. Sums([k \in 0 .. 0 |-> 0], f, 0)
    BY DEF Sums
  <2> QED
    BY <1>2, <1>3, <2>1
<1>4. CASE m # 0
  <2>1. m - 1 \in Nat /\ m - 1 < m
    BY <1>2, <1>4
  <2>2. m - 1 \notin T
    BY <1>1, <2>1
  <2>3. PICK g : Sums(g, f, m - 1)
    BY <2>1, <2>2
  <2> DEFINE h == [k \in 0 .. m |-> IF k = m THEN g[m - 1] + f[m] ELSE g[k]]
  <2>4. \A k \in 0 .. m - 1 : g[k] = IF k = 0 THEN 0 ELSE g[k - 1] + f[k]
    BY <2>3 DEF Sums
  <2>5. \A k \in 0 .. m : h[k] = IF k = 0 THEN 0 ELSE h[k - 1] + f[k]
    <3> TAKE k \in 0 .. m
    <3>1. CASE k = m
      <4>1. h[k] = g[m - 1] + f[m] /\ h[k - 1] = g[m - 1]
        BY <1>2, <1>4, <3>1
      <4> HIDE DEF h
      <4> QED
        BY <1>4, <3>1, <4>1
    <3>2. CASE k # m
      <4>1. k \in 0 .. m - 1 /\ h[k] = g[k]
        BY <1>2, <3>2
      <4>2. k # 0 => k - 1 \in 0 .. m /\ k - 1 # m /\ h[k - 1] = g[k - 1]
        BY <1>2, <3>2
      <4> HIDE DEF h
      <4> QED
        BY <2>4, <4>1, <4>2
    <3> QED
      BY <3>1, <3>2
  <2>6. h = [k \in 0 .. m |-> IF k = 0 THEN 0 ELSE h[k - 1] + f[k]]
    BY <2>5
  <2>7. Sums(h, f, m)
    BY <2>6 DEF Sums
  <2> QED
    BY <1>2, <2>7
<1> QED
  BY <1>3, <1>4

(* ... which do not depend on how long it goes on. *)
LEMMA SumsUnique ==
  ASSUME NEW f, NEW n \in Nat, NEW m \in Nat, n <= m, NEW g, NEW h, Sums(g, f, n), Sums(h, f, m)
  PROVE  \A k \in 0 .. n : g[k] = h[k]
<1> DEFINE T == {k \in 0 .. n : g[k] # h[k]}
<1> SUFFICES ASSUME T # {} PROVE FALSE
  OBVIOUS
<1>1. PICK k \in T : \A j \in T : ~ (j < k)
  <2>1. T \in SUBSET Nat
    OBVIOUS
  <2> HIDE DEF T
  <2> QED
    BY <2>1, Smallest
<1>2. /\ g[k] = IF k = 0 THEN 0 ELSE g[k - 1] + f[k]
      /\ h[k] = IF k = 0 THEN 0 ELSE h[k - 1] + f[k]
  <2>1. k \in 0 .. n /\ k \in 0 .. m
    OBVIOUS
  <2> HIDE DEF T
  <2> QED
    BY <2>1 DEF Sums
<1>3. k # 0 => g[k - 1] = h[k - 1]
  <2> SUFFICES ASSUME k # 0 PROVE g[k - 1] = h[k - 1]
    OBVIOUS
  <2>1. k - 1 \in 0 .. n /\ k - 1 < k
    OBVIOUS
  <2>2. k - 1 \notin T
    BY <1>1, <2>1
  <2> QED
    BY <2>1, <2>2
<1>4. g[k] # h[k]
  OBVIOUS
<1> HIDE DEF T
<1> QED
  BY <1>2, <1>3, <1>4

(* An iteration of a loop that adds up adds its element. *)
LEMMA UptoNext ==
  ASSUME NEW f
  PROVE  /\ Upto(f, 0) = 0
         /\ \A n \in Nat : Upto(f, n + 1) = Upto(f, n) + f[n + 1]
<1> DEFINE R(s) == s = [k \in Nat |-> IF k = 0 THEN 0 ELSE s[k - 1] + f[k]]
           G(n) == CHOOSE g : Sums(g, f, n)
           t == [n \in Nat |-> G(n)[n]]
           s0 == CHOOSE s : R(s)
<1>1. \A n \in Nat : Sums(G(n), f, n)
  BY SumsExist
<1> HIDE DEF G
<1>2. R(t)
  <2>1. ASSUME NEW k \in Nat
        PROVE  t[k] = IF k = 0 THEN 0 ELSE t[k - 1] + f[k]
    <3>1. G(k)[k] = IF k = 0 THEN 0 ELSE G(k)[k - 1] + f[k]
      BY <1>1 DEF Sums
    <3>2. k # 0 => k - 1 \in Nat /\ G(k)[k - 1] = G(k - 1)[k - 1]
      <4> SUFFICES ASSUME k # 0 PROVE k - 1 \in Nat /\ G(k)[k - 1] = G(k - 1)[k - 1]
        OBVIOUS
      <4>1. k - 1 \in Nat /\ k - 1 <= k /\ k - 1 \in 0 .. k - 1
        OBVIOUS
      <4> QED
        BY <1>1, <4>1, SumsUnique
    <3> QED
      BY <3>1, <3>2
  <2> HIDE DEF t
  <2>2. t = [k \in Nat |-> t[k]]
    BY DEF t
  <2> QED
    BY <2>1, <2>2
<1>3. R(s0)
  BY <1>2
<1>4. \A n : Upto(f, n) = s0[n]
  BY DEF Upto
<1>5. \A k \in Nat : s0[k] = IF k = 0 THEN 0 ELSE s0[k - 1] + f[k]
  <2> HIDE DEF s0
  <2>1. DOMAIN s0 = Nat
    BY <1>3
  <2> QED
    BY <1>3
<1> HIDE DEF s0, R
<1>6. s0[0] = 0
  BY <1>5
<1>7. ASSUME NEW n \in Nat
      PROVE  s0[n + 1] = s0[n] + f[n + 1]
  <2>1. n + 1 \in Nat /\ n + 1 # 0 /\ (n + 1) - 1 = n
    OBVIOUS
  <2>2. s0[n + 1] = s0[(n + 1) - 1] + f[n + 1]
    BY <1>5, <2>1
  <2> QED
    BY <2>1, <2>2
<1> QED
  BY <1>4, <1>6, <1>7

(* Sums of naturals are naturals. *)
LEMMA UptoNat ==
  ASSUME NEW f, NEW n \in Nat, \A k \in 1 .. n : f[k] \in Nat
  PROVE  Upto(f, n) \in Nat
<1> DEFINE T == {m \in 0 .. n : Upto(f, m) \notin Nat}
<1> SUFFICES ASSUME T # {} PROVE FALSE
  OBVIOUS
<1>1. PICK m \in T : \A k \in T : ~ (k < m)
  <2>1. T \in SUBSET Nat
    OBVIOUS
  <2> HIDE DEF T
  <2> QED
    BY <2>1, Smallest
<1>2. m \in 0 .. n /\ Upto(f, m) \notin Nat
  OBVIOUS
<1>3. m # 0
  BY <1>2, UptoNext
<1>4. m - 1 \in 0 .. n /\ m - 1 < m /\ m \in 1 .. n /\ m - 1 \in Nat /\ (m - 1) + 1 = m
  BY <1>2, <1>3
<1>5. Upto(f, m - 1) \in Nat
  BY <1>1, <1>4
<1>6. Upto(f, m) = Upto(f, m - 1) + f[m]
  BY <1>4, UptoNext
<1> QED
  BY <1>2, <1>4, <1>5, <1>6

------------------------------------------------------------------------------
(* Streams, written as functions of the place *)

LEMMA PlacesSeq ==
  ASSUME NEW n \in Nat, NEW s, s = [k \in 1 .. n |-> s[k]]
  PROVE  Len(s) = n /\ s \in Seq({s[k] : k \in 1 .. n})
<1>1. s \in [1 .. n -> {s[k] : k \in 1 .. n}]
  OBVIOUS
<1>2. s \in Seq({s[k] : k \in 1 .. n})
  BY <1>1, SeqDef
<1>3. DOMAIN s = 1 .. Len(s) /\ Len(s) \in Nat
  BY <1>2, LenProperties
<1>4. DOMAIN s = 1 .. n
  BY <1>1
<1>5. Len(s) = n
  BY <1>3, <1>4
<1> QED
  BY <1>2, <1>5

(* Reading m words takes them off the front of a stream. *)
LEMMA ReadFirst ==
  ASSUME NEW n \in Nat, NEW m \in 0 .. n, NEW s, s = [k \in 1 .. n |-> s[k]]
  PROVE  /\ SubSeq(s, 1, m) = [k \in 1 .. m |-> s[k]]
         /\ SubSeq(s, m + 1, Len(s)) = [k \in 1 .. n - m |-> s[m + k]]
<1> DEFINE S == {s[k] : k \in 1 .. n}
<1>1. Len(s) = n
  BY PlacesSeq
<1>2. \A k \in 1 .. n : s[k] \in S
  OBVIOUS
<1> HIDE DEF S
<1>3. ASSUME NEW a \in 1 .. n + 1, NEW b \in 0 .. n, a <= b + 1
      PROVE  SubSeq(s, a, b) = [k \in 1 .. b - a + 1 |-> s[a + k - 1]]
  <2> DEFINE u == SubSeq(s, a, b)
  <2>1. a \in Int /\ b \in Int /\ \A i \in a .. b : s[i] \in S
    BY <1>2
  <2>2. /\ u \in Seq(S)
        /\ Len(u) = IF a <= b THEN b - a + 1 ELSE 0
        /\ \A i \in 1 .. b - a + 1 : u[i] = s[a + i - 1]
    <3> HIDE DEF u
    <3>1. u \in Seq(S)
      BY <2>1 DEF u
    <3>2. Len(u) = IF a <= b THEN b - a + 1 ELSE 0
      BY <2>1 DEF u
    <3>3. \A i \in 1 .. b - a + 1 : u[i] = s[a + i - 1]
      BY <2>1 DEF u
    <3> QED
      BY <3>1, <3>2, <3>3
  <2> HIDE DEF u
  <2>3. Len(u) = b - a + 1
    BY <1>3, <2>2
  <2>4. u \in [1 .. b - a + 1 -> S]
    BY <2>2, <2>3, LenProperties
  <2>5. u = [k \in 1 .. b - a + 1 |-> u[k]]
    BY <2>4
  <2> QED
    BY <2>2, <2>5 DEF u
<1>4. SubSeq(s, 1, m) = [k \in 1 .. m |-> s[k]]
  <2>1. SubSeq(s, 1, m) = [k \in 1 .. m - 1 + 1 |-> s[1 + k - 1]]
    BY <1>3
  <2>2. m - 1 + 1 = m /\ \A k \in 1 .. m : 1 + k - 1 = k
    OBVIOUS
  <2> QED
    BY <2>1, <2>2
<1>5. SubSeq(s, m + 1, n) = [k \in 1 .. n - m |-> s[m + k]]
  <2>1. SubSeq(s, m + 1, n) = [k \in 1 .. n - (m + 1) + 1 |-> s[(m + 1) + k - 1]]
    BY <1>3
  <2>2. n - (m + 1) + 1 = n - m /\ \A k \in 1 .. n - m : (m + 1) + k - 1 = m + k
    OBVIOUS
  <2> QED
    BY <2>1, <2>2
<1> QED
  BY <1>1, <1>4, <1>5

(* Sending appends to a stream. *)
LEMMA SendBehind ==
  ASSUME NEW n \in Nat, NEW s, s = [k \in 1 .. n |-> s[k]],
         NEW m \in Nat, NEW t, t = [k \in 1 .. m |-> t[k]]
  PROVE  s \o t = [k \in 1 .. n + m |-> IF k <= n THEN s[k] ELSE t[k - n]]
<1> DEFINE S == {s[k] : k \in 1 .. n} \cup {t[k] : k \in 1 .. m}
           u == s \o t
<1>1. Len(s) = n /\ Len(t) = m
  BY PlacesSeq
<1>2. s \in Seq(S) /\ t \in Seq(S)
  <2>1. s \in [1 .. n -> S] /\ t \in [1 .. m -> S]
    OBVIOUS
  <2> HIDE DEF S
  <2> QED
    BY <2>1, SeqDef
<1> HIDE DEF S
<1>3. /\ u \in Seq(S)
      /\ Len(u) = n + m
      /\ \A i \in 1 .. n + m : u[i] = IF i <= n THEN s[i] ELSE t[i - n]
  BY <1>1, <1>2, ConcatProperties
<1> HIDE DEF u
<1>4. u \in [1 .. n + m -> S]
  BY <1>3, LenProperties
<1>5. u = [k \in 1 .. n + m |-> u[k]]
  BY <1>4
<1> QED
  BY <1>3, <1>5 DEF u

LEMMA AppendBehind ==
  ASSUME NEW n \in Nat, NEW s, s = [k \in 1 .. n |-> s[k]], NEW e
  PROVE  Append(s, e) = [k \in 1 .. n + 1 |-> IF k <= n THEN s[k] ELSE e]
<1> DEFINE S == {s[k] : k \in 1 .. n} \cup {e}
           u == Append(s, e)
<1>1. Len(s) = n
  BY PlacesSeq
<1>2. s \in Seq(S)
  <2>1. s \in [1 .. n -> S]
    OBVIOUS
  <2> HIDE DEF S
  <2> QED
    BY <2>1, SeqDef
<1>3. e \in S
  OBVIOUS
<1> HIDE DEF S
<1>4. /\ u \in Seq(S)
      /\ Len(u) = n + 1
      /\ \A i \in 1 .. n + 1 : u[i] = IF i <= n THEN s[i] ELSE e
  BY <1>1, <1>2, <1>3
<1> HIDE DEF u
<1>5. u \in [1 .. n + 1 -> S]
  BY <1>4, LenProperties
<1>6. u = [k \in 1 .. n + 1 |-> u[k]]
  BY <1>5
<1> QED
  BY <1>4, <1>6 DEF u

------------------------------------------------------------------------------
(* Packets *)

LEMMA Division ==
  ASSUME NEW n \in Nat \ {0}, NEW q \in Nat, NEW i \in 0 .. n - 1, NEW a, a = q * n + i
  PROVE  a \div n = q /\ a % n = i
<1> DEFINE d == a \div n
           r == a % n
<1>1. q * n \in Nat /\ a \in Nat
  OBVIOUS
<1>2. d \in Int /\ r \in 0 .. n - 1 /\ a = d * n + r
  BY <1>1
<1> HIDE DEF d, r
<1>3. d = q
  <2>1. CASE d < q
    <3>1. (q - d) * n >= n
      BY <1>2, <2>1
    <3>2. (q - d) * n = q * n - d * n
      BY <1>2
    <3>3. d * n \in Int
      BY <1>2
    <3> QED
      BY <1>1, <1>2, <3>1, <3>2, <3>3
  <2>2. CASE d > q
    <3>1. (d - q) * n >= n
      BY <1>2, <2>2
    <3>2. (d - q) * n = d * n - q * n
      BY <1>2
    <3>3. d * n \in Int
      BY <1>2
    <3> QED
      BY <1>1, <1>2, <3>1, <3>2, <3>3
  <2> QED
    BY <1>2, <2>1, <2>2
<1>4. r = i
  BY <1>1, <1>2, <1>3
<1> QED
  BY <1>3, <1>4 DEF d, r

LEMMA LengthNat ==
  ASSUME NEW n \in Nat
  PROVE  Length(n) \in Nat /\ Length(0) = 0
<1>1. 4 + 2 * Bits \in Nat
  BY InputAssumption
<1> DEFINE w == 4 + 2 * Bits
<1>2. w \in Nat
  BY <1>1
<1> HIDE DEF w
<1>3. w * n \in Nat /\ w * 0 = 0
  BY <1>2
<1> QED
  BY <1>3 DEF Length, w

(* The place where recv_graph reads a field of an entry is the one where
   serialize put it. *)
LEMMA ReadBack ==
  ASSUME NEW c, NEW n \in Nat, NEW i \in 0 .. n - 1, NEW f \in Field
  PROVE  Serialize(c, n)[PositionOf(f, i, n)] = <<c, i, f>>
<1>1. Bits \in Nat /\ f \in Nat /\ f <= 3 + 2 * Bits /\ n # 0
  BY InputAssumption DEF Field
<1> DEFINE w == 4 + 2 * Bits
<1>2. w \in Nat /\ 4 <= w /\ f < w
  BY <1>1
<1>3. 4 * n <= w * n /\ w * n \in Nat
  <2>1. (w - 4) * n >= 0
    BY <1>2
  <2>2. (w - 4) * n = w * n - 4 * n /\ w * n \in Nat
    BY <1>2
  <2> HIDE DEF w
  <2> QED
    BY <2>1, <2>2
<1>4. Length(n) = w * n
  BY DEF Length
<1>5. ASSUME NEW k \in 1 .. w * n
      PROVE  Serialize(c, n)[k] = IF k <= 4 * n THEN <<c, (k - 1) \div 4, (k - 1) % 4>>
                                  ELSE <<c, (k - 1) % n, 3 + (k - 1 - 4 * n) \div n + 1>>
  BY <1>4 DEF Serialize
<1> HIDE DEF w
<1>6. CASE f < 4
  <2> DEFINE k == 4 * i + f + 1
  <2>1. k \in 1 .. 4 * n /\ k - 1 = i * 4 + f /\ f \in 0 .. 4 - 1
    BY <1>1, <1>6
  <2>2. k \in 1 .. w * n /\ k <= 4 * n
    BY <1>3, <2>1
  <2> HIDE DEF k
  <2>3. (k - 1) \div 4 = i /\ (k - 1) % 4 = f
    BY <2>1, Division
  <2>4. Serialize(c, n)[k] = <<c, i, f>>
    BY <1>5, <2>2, <2>3
  <2> QED
    BY <1>6, <2>4 DEF PositionOf, k
<1>7. CASE ~ (f < 4)
  <2> DEFINE q == f - 4
             m == q * n
             k == 4 * n + m + i + 1
  <2>1. q \in Nat /\ q < w - 4
    BY <1>1, <1>2, <1>7
  <2> HIDE DEF q
  <2>2. m \in Nat /\ m + n <= w * n - 4 * n
    <3>1. (w - 4 - q - 1) * n >= 0
      BY <1>2, <2>1
    <3>2. (w - 4 - q - 1) * n = w * n - 4 * n - q * n - n
      BY <1>2, <2>1
    <3>3. q * n \in Nat
      BY <2>1
    <3> QED
      BY <1>3, <3>1, <3>2, <3>3
  <2>3. m = q * n
    OBVIOUS
  <2>4. k - 1 = (4 + q) * n + i
    BY <2>1
  <2> HIDE DEF m
  <2>5. k \in 1 .. w * n /\ ~ (k <= 4 * n)
    BY <1>3, <2>2
  <2>6. k - 1 - 4 * n = q * n + i
    BY <2>2, <2>3
  <2> HIDE DEF k
  <2>7. (k - 1) % n = i
    <3>1. 4 + q \in Nat
      BY <2>1
    <3> QED
      BY <1>1, <2>4, <3>1, Division
  <2>8. (k - 1 - 4 * n) \div n = q
    BY <1>1, <2>1, <2>6, Division
  <2>9. 3 + q + 1 = f
    BY <1>1 DEF q
  <2>10. Serialize(c, n)[k] = <<c, i, f>>
    BY <1>5, <2>5, <2>7, <2>8, <2>9
  <2> QED
    BY <1>7, <2>10 DEF PositionOf, k, m, q
<1> QED
  BY <1>6, <1>7

------------------------------------------------------------------------------
(* The invariant *)

\* What client c has for server p, word by word; s is its slice.
WordAt(s, c, p, j) ==
  IF j = 1 THEN s.nodes
  ELSE IF p = D THEN s.size
  ELSE IF j = 2 THEN s.start
  ELSE IF j = 3 THEN (s.start + s.size) % Word
  ELSE Serialize(c, s.size)[j - 3]
\* The words in the first m messages for p.
Words(s, p, m) ==
  IF m <= 0 THEN 0
  ELSE IF m = 1 THEN 1
  ELSE IF p = D THEN 2
  ELSE IF m = 2 THEN 3 ELSE 3 + Length(s.size)
\* The messages for other servers that come before those for p.
Ahead(p) == IF p = P0 THEN 0 ELSE IF p = P1 THEN 3 ELSE 6

\* k of them, from after the first t.
Part(s, c, p, t, k) == [j \in 1 .. k |-> WordAt(s, c, p, t + j)]
\* Of the words for p those from after the first t to the g-th are on the way.
OnTheWay(s, c, p, t, g, w) ==
  /\ t <= g
  /\ w = [k \in 1 .. g - t |-> WordAt(s, c, p, t + k)]

\* What a client in phase h at step i has sent, and a server has taken.
Given(s, p, h, i) == Words(s, p, (IF h = "send" THEN i - 1 ELSE 8) - Ahead(p))
Messages(h, i, c) ==
  IF h = "nodes" THEN IF c < i THEN 1 ELSE 0
  ELSE IF h = "size" THEN IF c < i THEN 2 ELSE 1
  ELSE IF c < i THEN 3
  ELSE IF h = "entries" /\ c = i THEN 2 ELSE 1
TakenFrom(s, p, h, i, c) == Words(s, p, Messages(h, i, c))

Reading == {"nodes", "size", "header", "entries"}
Streams ==
  \A p \in Server, c \in Client : phase[p] \in Reading =>
    OnTheWay(slice[c], c, p, TakenFrom(slice[c], p, phase[p], step[p], c),
             Given(slice[c], p, phase[ClientId(c)], step[ClientId(c)]), inbox[p][c])

ClientPhases == {"send", "sync", "share0", "share1", "done"}
ServerPhases == {"nodes", "size", "header", "entries", "merge", "sync", "results"} \cup Ended
Grid(f, rows, columns) == DOMAIN f = rows /\ \A r \in rows : DOMAIN f[r] = columns

Typed ==
  /\ slice \in [Client -> SliceType]
  /\ phase \in [Process -> ClientPhases \cup ServerPhases]
  /\ step \in [Process -> Nat]
  /\ nodes \in [Server -> Nat] /\ size \in [Server -> Nat]
  /\ Grid(inbox, Server, Client) /\ Grid(outbox, Server, Client)
  /\ DOMAIN pkts = Sharer /\ DOMAIN graph = Server
  /\ Grid(startIdx, Server, Client) /\ Grid(endIdx, Server, 0 .. NParties - 1)
  /\ Grid(shares, Client, Sharer)
  /\ entered \in [Process -> Nat] /\ left \in [Process -> Nat]

Places ==
  /\ \A c \in Client : phase[ClientId(c)] \in ClientPhases /\ step[ClientId(c)] \in 1 .. 8
  /\ \A p \in Server : /\ phase[p] \in ServerPhases /\ step[p] \in Client
                       /\ phase[p] \in {"merge", "sync"} => step[p] = 0
  /\ phase[D] \notin {"header", "entries", "merge", "adrift"}
  /\ \A p \in Sharer : phase[p] # "size"

\* What is added up so far.
Counted ==
  /\ \A p \in Server : phase[p] # "adrift" =>
       nodes[p] = Upto(NodesOf, IF phase[p] = "nodes" THEN step[p] ELSE NClients)
  /\ size[D] = Upto(SizesOf, IF phase[D] = "nodes" THEN 0
                             ELSE IF phase[D] = "size" THEN step[D] ELSE NClients)

\* The packets in phase h at step i: how many headers and how many contents.
Headers(h, i) == IF h = "nodes" THEN 0 ELSE IF h = "header" THEN i
                 ELSE IF h = "entries" THEN i + 1 ELSE NClients
Contents(h, i) == IF h = "nodes" THEN 0 ELSE IF h \in {"header", "entries"} THEN i ELSE NClients
Packets(sl, m, n) ==
  [k \in 1 .. m |-> [start |-> sl[k - 1].start, size |-> sl[k - 1].size,
                     entries |-> IF k <= n THEN Serialize(k - 1, sl[k - 1].size) ELSE <<>>]]
PackedAt(sl, h, i, ps, starts, ends) ==
  /\ Len(ps) <= NClients
  /\ h \notin {"adrift", "undefined"} =>
       /\ ps = Packets(sl, Headers(h, i), Contents(h, i))
       /\ Contents(h, i) <= NParties
       /\ \A c \in Client : c < Contents(h, i) => /\ starts[c] = sl[c].start
                                                 /\ ends[c] = sl[c].start + sl[c].size
Packed ==
  \A p \in Sharer : PackedAt(slice, phase[p], step[p], pkts[p], startIdx[p], endIdx[p])

MergedAt(h, ps, n, list) ==
  h \in {"sync", "results", "done"} =>
    /\ ~ Refused(ps) /\ ~ Aborted(ps)
    /\ n = TotalSize(ps)
    /\ list = Unpacked(ps)
Merged == \A p \in Sharer : MergedAt(phase[p], pkts[p], size[p], graph[p])

\* The way of the results.
Result(s, c) == [i \in 1 .. s.size |-> <<c, i - 1, 0>>]
SentBack(h, i, c) == h = "done" \/ (h = "results" /\ c < i)
Got(p, h) == h = "done" \/ (p = P0 /\ h = "share1")
Handed(s, c, sent, got, out, has) ==
  /\ out = IF sent /\ ~ got THEN Result(s, c) ELSE <<>>
  /\ has = IF got THEN Result(s, c) ELSE <<>>
  /\ got => sent \/ s.size = 0
Returned ==
  \A p \in Sharer, c \in Client :
    Handed(slice[c], c, SentBack(phase[p], step[p], c), Got(p, phase[ClientId(c)]),
           outbox[p][c], shares[c][p])

\* Nobody leaves a sync that P0 has not entered.
Barred ==
  /\ \A x \in Process : left[x] > 0 => entered[P0] > 0
  /\ entered[P0] > 0 => Acceptable

IInv == Typed /\ Places /\ Streams /\ Counted /\ Packed /\ Merged /\ Returned /\ Barred

------------------------------------------------------------------------------
(* Streams are written at one end and read at the other *)

\* The first m words on the way, and those that are left.
Reads(s, c, p, t, g, w, m) ==
  /\ OnTheWay(s, c, p, t + m, g, SubSeq(w, m + 1, Len(w)))
  /\ SubSeq(w, 1, m) = Part(s, c, p, t, m)
  /\ \A k \in 1 .. m : w[k] = WordAt(s, c, p, t + k)

LEMMA StreamRead ==
  ASSUME NEW s, NEW c, NEW p, NEW t \in Nat, NEW g \in Nat, NEW w, OnTheWay(s, c, p, t, g, w),
         NEW m \in Nat, Len(w) >= m
  PROVE  Reads(s, c, p, t, g, w, m)
<1> DEFINE n == g - t
<1>1. n \in Nat /\ t <= g /\ \A k \in 1 .. n : w[k] = WordAt(s, c, p, t + k)
  BY DEF OnTheWay
<1>2. w = [k \in 1 .. n |-> w[k]]
  BY DEF OnTheWay
<1>3. n = g - t
  OBVIOUS
<1> HIDE DEF n
<1>4. Len(w) = n
  BY <1>1, <1>2, PlacesSeq
<1>5. m \in 0 .. n
  BY <1>1, <1>4
<1>6. /\ SubSeq(w, 1, m) = [k \in 1 .. m |-> w[k]]
      /\ SubSeq(w, m + 1, Len(w)) = [k \in 1 .. n - m |-> w[m + k]]
  BY <1>1, <1>2, <1>5, ReadFirst
<1>7. \A k \in 1 .. m : w[k] = WordAt(s, c, p, t + k)
  BY <1>1, <1>5
<1>8. \A k \in 1 .. n - m : w[m + k] = WordAt(s, c, p, (t + m) + k)
  <2> TAKE k \in 1 .. n - m
  <2>1. m + k \in 1 .. n /\ t + (m + k) = (t + m) + k
    BY <1>1, <1>5
  <2> QED
    BY <1>1, <2>1
<1>9. n - m = g - (t + m) /\ t + m <= g
  BY <1>1, <1>3, <1>5
<1> QED
  BY <1>6, <1>7, <1>8, <1>9 DEF OnTheWay, Part, Reads

LEMMA StreamSent ==
  ASSUME NEW s, NEW c, NEW p, NEW t \in Nat, NEW g \in Nat, NEW w, OnTheWay(s, c, p, t, g, w),
         NEW m \in Nat, NEW u, u = [k \in 1 .. m |-> WordAt(s, c, p, g + k)]
  PROVE  OnTheWay(s, c, p, t, g + m, w \o u)
<1> DEFINE n == g - t
<1>1. n \in Nat /\ t <= g /\ \A k \in 1 .. n : w[k] = WordAt(s, c, p, t + k)
  BY DEF OnTheWay
<1>2. w = [k \in 1 .. n |-> w[k]]
  BY DEF OnTheWay
<1>3. n = g - t
  OBVIOUS
<1> HIDE DEF n
<1>4. u = [k \in 1 .. m |-> u[k]] /\ \A k \in 1 .. m : u[k] = WordAt(s, c, p, g + k)
  OBVIOUS
<1>5. w \o u = [k \in 1 .. n + m |-> IF k <= n THEN w[k] ELSE u[k - n]]
  BY <1>1, <1>2, <1>4, SendBehind
<1>6. ASSUME NEW k \in 1 .. n + m
      PROVE  (IF k <= n THEN w[k] ELSE u[k - n]) = WordAt(s, c, p, t + k)
  <2>1. CASE k <= n
    BY <1>1, <2>1
  <2>2. CASE ~ (k <= n)
    <3>1. k - n \in 1 .. m /\ g + (k - n) = t + k
      BY <1>1, <1>3, <2>2
    <3> QED
      BY <1>4, <2>2, <3>1
  <2> QED
    BY <2>1, <2>2
<1>7. n + m = (g + m) - t /\ t <= g + m
  BY <1>1, <1>3
<1> QED
  BY <1>5, <1>6, <1>7 DEF OnTheWay

LEMMA WordsNat ==
  ASSUME NEW s \in SliceType, NEW p \in Server, NEW m \in Int
  PROVE  Words(s, p, m) \in Nat
<1>1. s.size \in Nat
  BY InputAssumption DEF SliceType
<1> QED
  BY <1>1, LengthNat DEF Words

\* msg, the j-th message of client c, has the words that are next for its receiver.
Continues(s, c, j, msg) ==
  /\ msg.to \in Server
  /\ \A p \in Server : p # msg.to => Words(s, p, j - Ahead(p)) = Words(s, p, j - 1 - Ahead(p))
  /\ \E m \in Nat :
       /\ Words(s, msg.to, j - Ahead(msg.to)) = Words(s, msg.to, j - 1 - Ahead(msg.to)) + m
       /\ msg.words = [k \in 1 .. m |->
                        WordAt(s, c, msg.to, Words(s, msg.to, j - 1 - Ahead(msg.to)) + k)]

LEMMA ScriptMessage ==
  ASSUME NEW c \in Client, slice[c] \in SliceType, NEW j \in 1 .. 8, NEW msg, msg = Script(c)[j],
         NEW s, s = slice[c]
  PROVE  Len(Script(c)) = 8 /\ Continues(s, c, j, msg)
<1> DEFINE n == s.size
           l == Length(n)
           x == Serialize(c, n)
           e == (s.start + n) % Word
           packet(p) == <<[to |-> p, words |-> <<s.nodes>>],
                          [to |-> p, words |-> <<s.start, e>>],
                          [to |-> p, words |-> x]>>
           tail == <<[to |-> D, words |-> <<s.nodes>>], [to |-> D, words |-> <<n>>]>>
<1>1. n \in Nat /\ l \in Nat
  BY InputAssumption, LengthNat DEF SliceType
<1>2. x = [k \in 1 .. l |-> x[k]]
  BY DEF Serialize
<1>3. Script(c) = packet(P0) \o packet(P1) \o tail
  BY DEF Script
<1> HIDE DEF x, e, l
<1>4. /\ Len(Script(c)) = 8
      /\ \A i \in 1 .. 8 : Script(c)[i] = IF i <= 3 THEN packet(P0)[i]
                                          ELSE IF i <= 6 THEN packet(P1)[i - 3] ELSE tail[i - 6]
  <2> DEFINE a == packet(P0)
             b == packet(P1)
             d == a \o b
  <2>1. a = [k \in 1 .. 3 |-> a[k]] /\ b = [k \in 1 .. 3 |-> b[k]] /\ tail = [k \in 1 .. 2 |-> tail[k]]
    OBVIOUS
  <2> HIDE DEF a, b, tail
  <2>2. d = [k \in 1 .. 6 |-> IF k <= 3 THEN a[k] ELSE b[k - 3]]
    <3>1. d = [k \in 1 .. 3 + 3 |-> IF k <= 3 THEN a[k] ELSE b[k - 3]]
      BY <2>1, SendBehind
    <3> QED
      BY <3>1
  <2> HIDE DEF d
  <2>3. d \o tail = [k \in 1 .. 8 |-> IF k <= 6 THEN d[k] ELSE tail[k - 6]]
    <3>1. d = [k \in 1 .. 6 |-> d[k]]
      BY <2>2
    <3>2. d \o tail = [k \in 1 .. 6 + 2 |-> IF k <= 6 THEN d[k] ELSE tail[k - 6]]
      BY <2>1, <3>1, SendBehind
    <3> QED
      BY <3>2
  <2>4. Script(c) = d \o tail
    BY <1>3 DEF d, a, b
  <2> DEFINE z == Script(c)
  <2> HIDE DEF z
  <2>5. z = [k \in 1 .. 8 |-> z[k]]
    BY <2>3, <2>4 DEF z
  <2>6. Len(z) = 8
    BY <2>5, PlacesSeq
  <2>7. \A i \in 1 .. 8 : z[i] = IF i <= 3 THEN a[i] ELSE IF i <= 6 THEN b[i - 3] ELSE tail[i - 6]
    BY <2>2, <2>3, <2>4 DEF z
  <2> QED
    BY <2>6, <2>7 DEF z, a, b
<1>5. /\ \A p : packet(p)[1].to = p /\ packet(p)[2].to = p /\ packet(p)[3].to = p
      /\ \A p : packet(p)[1].words = <<s.nodes>> /\ packet(p)[2].words = <<s.start, e>>
                /\ packet(p)[3].words = x
      /\ tail[1].to = D /\ tail[2].to = D /\ tail[1].words = <<s.nodes>> /\ tail[2].words = <<n>>
  OBVIOUS
<1>6. /\ <<s.nodes>> = [k \in 1 .. 1 |-> s.nodes]
      /\ <<s.start, e>> = [k \in 1 .. 2 |-> IF k = 1 THEN s.start ELSE e]
      /\ <<n>> = [k \in 1 .. 1 |-> n]
  OBVIOUS
<1> HIDE DEF packet, tail
<1> DEFINE to == IF j <= 3 THEN P0 ELSE IF j <= 6 THEN P1 ELSE D
           r == j - Ahead(to)
<1>7. /\ to \in Server /\ r \in 1 .. 3 /\ (to = D => r <= 2) /\ j - 1 - Ahead(to) = r - 1
      /\ msg.to = to
      /\ msg.words = IF r = 1 THEN <<s.nodes>> ELSE IF to = D THEN <<n>>
                     ELSE IF r = 2 THEN <<s.start, e>> ELSE x
  <2>1. CASE j <= 3
    <3>1. to = P0 /\ r = j
      BY <2>1 DEF Ahead
    <3>2. msg = packet(P0)[j]
      BY <1>4, <2>1
    <3>3. j = 1 \/ j = 2 \/ j = 3
      BY <2>1
    <3>4. to \in Server /\ r \in 1 .. 3 /\ (to = D => r <= 2) /\ j - 1 - Ahead(to) = r - 1
      BY <3>1, <3>3 DEF Server, Ahead, P0, P1, D
    <3> HIDE DEF to, r
    <3>5. msg.to = to
      BY <1>5, <3>1, <3>2, <3>3
    <3>6. msg.words = IF r = 1 THEN <<s.nodes>> ELSE IF to = D THEN <<n>>
                      ELSE IF r = 2 THEN <<s.start, e>> ELSE x
      BY <1>5, <3>1, <3>2, <3>3 DEF P0, P1, D
    <3> QED
      BY <3>4, <3>5, <3>6
  <2>2. CASE ~ (j <= 3) /\ j <= 6
    <3>1. to = P1 /\ r = j - 3
      BY <2>2 DEF Ahead, P0, P1
    <3>2. msg = packet(P1)[j - 3]
      BY <1>4, <2>2
    <3>3. j - 3 = 1 \/ j - 3 = 2 \/ j - 3 = 3
      BY <2>2
    <3>4. to \in Server /\ r \in 1 .. 3 /\ (to = D => r <= 2) /\ j - 1 - Ahead(to) = r - 1
      BY <3>1, <3>3 DEF Server, Ahead, P0, P1, D
    <3> HIDE DEF to, r
    <3>5. msg.to = to
      BY <1>5, <3>1, <3>2, <3>3
    <3>6. msg.words = IF r = 1 THEN <<s.nodes>> ELSE IF to = D THEN <<n>>
                      ELSE IF r = 2 THEN <<s.start, e>> ELSE x
      BY <1>5, <3>1, <3>2, <3>3 DEF P0, P1, D
    <3> QED
      BY <3>4, <3>5, <3>6
  <2>3. CASE ~ (j <= 6)
    <3>1. to = D /\ r = j - 6
      BY <2>3 DEF Ahead, P0, P1, D
    <3>2. msg = tail[j - 6]
      BY <1>4, <2>3
    <3>3. j - 6 = 1 \/ j - 6 = 2
      BY <2>3
    <3>4. to \in Server /\ r \in 1 .. 3 /\ (to = D => r <= 2) /\ j - 1 - Ahead(to) = r - 1
      BY <3>1, <3>3 DEF Server, Ahead, P0, P1, D
    <3> HIDE DEF to, r
    <3>5. msg.to = to
      BY <1>5, <3>1, <3>2, <3>3
    <3>6. msg.words = IF r = 1 THEN <<s.nodes>> ELSE IF to = D THEN <<n>>
                      ELSE IF r = 2 THEN <<s.start, e>> ELSE x
      BY <1>5, <3>1, <3>2, <3>3 DEF P0, P1, D
    <3> QED
      BY <3>4, <3>5, <3>6
  <2> QED
    BY <2>1, <2>2, <2>3
<1>8. ASSUME NEW p \in Server, p # to
      PROVE  Words(s, p, j - Ahead(p)) = Words(s, p, j - 1 - Ahead(p))
  <2>1. p = P0 \/ p = P1 \/ p = D
    BY DEF Server
  <2>2. CASE p = P0
    BY <1>8, <2>2 DEF Words, Ahead, P0, P1, D
  <2>3. CASE p = P1
    BY <1>8, <2>3 DEF Words, Ahead, P0, P1, D
  <2>4. CASE p = D
    BY <1>8, <2>4 DEF Words, Ahead, P0, P1, D
  <2> QED
    BY <2>1, <2>2, <2>3, <2>4
<1> DEFINE g == Words(s, to, r - 1)
<1> HIDE DEF to, r
<1>9. PICK m \in Nat : /\ Words(s, to, r) = g + m
                       /\ msg.words = [k \in 1 .. m |-> WordAt(s, c, to, g + k)]
  <2>1. CASE r = 1
    <3>1. g = 0 /\ Words(s, to, r) = 1
      BY <2>1 DEF Words
    <3>2. \A k \in 1 .. 1 : WordAt(s, c, to, 0 + k) = s.nodes
      BY DEF WordAt
    <3>3. msg.words = [k \in 1 .. 1 |-> WordAt(s, c, to, 0 + k)]
      BY <1>6, <1>7, <2>1, <3>2
    <3> QED
      BY <3>1, <3>3
  <2>2. CASE r = 2 /\ to = D
    <3>1. g = 1 /\ Words(s, to, r) = 2
      BY <2>2 DEF Words
    <3>2. \A k \in 1 .. 1 : WordAt(s, c, to, 1 + k) = n
      BY <2>2 DEF WordAt
    <3>3. msg.words = [k \in 1 .. 1 |-> WordAt(s, c, to, 1 + k)]
      BY <1>6, <1>7, <2>2, <3>2
    <3> QED
      BY <3>1, <3>3
  <2>3. CASE r = 2 /\ to # D
    <3>1. g = 1 /\ Words(s, to, r) = 3
      BY <2>3 DEF Words
    <3>2. \A k \in 1 .. 2 : WordAt(s, c, to, 1 + k) = IF k = 1 THEN s.start ELSE e
      BY <2>3 DEF WordAt, e
    <3>3. msg.words = [k \in 1 .. 2 |-> WordAt(s, c, to, 1 + k)]
      BY <1>6, <1>7, <2>3, <3>2
    <3> QED
      BY <3>1, <3>3
  <2>4. CASE r = 3
    <3>1. g = 3 /\ Words(s, to, r) = 3 + l /\ to # D
      BY <1>7, <2>4 DEF Words, l
    <3>2. \A k \in 1 .. l : WordAt(s, c, to, 3 + k) = x[k]
      BY <1>1, <3>1 DEF WordAt, x
    <3>3. msg.words = [k \in 1 .. l |-> WordAt(s, c, to, 3 + k)]
      BY <1>2, <1>7, <2>4, <3>1, <3>2
    <3> QED
      BY <1>1, <3>1, <3>3
  <2>5. r = 1 \/ r = 2 \/ r = 3
    BY <1>7
  <2> QED
    BY <2>1, <2>2, <2>3, <2>4, <2>5
<1>10. j - Ahead(to) = r /\ Words(s, to, j - 1 - Ahead(to)) = g
  BY <1>7 DEF r
<1> HIDE DEF g
<1>11. \E i \in Nat : /\ Words(s, msg.to, j - Ahead(msg.to)) = Words(s, msg.to, j - 1 - Ahead(msg.to)) + i
                      /\ msg.words = [k \in 1 .. i |->
                           WordAt(s, c, msg.to, Words(s, msg.to, j - 1 - Ahead(msg.to)) + k)]
  BY <1>7, <1>9, <1>10
<1> QED
  BY <1>4, <1>7, <1>8, <1>11 DEF Continues

------------------------------------------------------------------------------
(* The start *)

LEMMA Ids ==
  /\ Server = {0, 1, 2} /\ P0 = 0 /\ P1 = 1 /\ D = 2 /\ Sharer = {P0, P1} /\ NParties = 3
  /\ Server \subseteq Process /\ Sharer \subseteq Server
  /\ \A c \in Client : ClientId(c) \in Process \ Server
  /\ \A c, d \in Client : ClientId(c) = ClientId(d) => c = d
  /\ \A x \in Process : x \in Server \/ \E c \in Client : x = ClientId(c)
  /\ NClients \in Nat \ {0} /\ 0 \in Client /\ NClients - 1 \in Client
  /\ \A c \in Client : c \in Nat /\ c < NClients /\ (c < NClients - 1 => c + 1 \in Client)
  /\ \A k \in 1 .. NClients : k - 1 \in Client
<1>1. \A c \in Client : c \in Nat
  BY InputAssumption DEF Client
<1>2. \A c \in Client : ClientId(c) \in Process \ Server
  BY <1>1 DEF Process, Server, ClientId, NParties, P0, P1, D
<1>3. \A c, d \in Client : ClientId(c) = ClientId(d) => c = d
  BY <1>1 DEF ClientId, NParties
<1>4. \A x \in Process : x \in Server \/ \E c \in Client : x = ClientId(c)
  BY DEF Process
<1>5. Server \subseteq Process /\ Sharer \subseteq Server
  BY DEF Process, Server, Sharer
<1>6. /\ NClients \in Nat \ {0} /\ 0 \in Client /\ NClients - 1 \in Client
      /\ \A c \in Client : c \in Nat /\ c < NClients /\ (c < NClients - 1 => c + 1 \in Client)
      /\ \A k \in 1 .. NClients : k - 1 \in Client
  BY InputAssumption DEF Client
<1> QED
  BY <1>2, <1>3, <1>4, <1>5, <1>6 DEF Server, Sharer, P0, P1, D, NParties

LEMMA SliceNat ==
  ASSUME NEW s \in SliceType
  PROVE  /\ s.start \in Nat /\ s.size \in Nat /\ s.nodes \in Nat
         /\ s.start < Word /\ s.size < Word /\ Word \in Nat
  BY InputAssumption DEF SliceType

LEMMA InvInit == Init => IInv
<1> SUFFICES ASSUME Init PROVE IInv
  OBVIOUS
<1> USE Ids
<1>1. slice \in [Client -> SliceType]
  BY InputAssumption DEF Init
<1>2. /\ \A p \in Server : phase[p] = "nodes" /\ step[p] = 0
      /\ \A c \in Client : phase[ClientId(c)] = "send" /\ step[ClientId(c)] = 1
  BY DEF Init
<1>3. Typed
  <2>1. /\ phase \in [Process -> ClientPhases \cup ServerPhases]
        /\ step \in [Process -> Nat]
    BY DEF Init, ClientPhases, ServerPhases
  <2>2. /\ nodes \in [Server -> Nat] /\ size \in [Server -> Nat]
        /\ entered \in [Process -> Nat] /\ left \in [Process -> Nat]
    BY DEF Init, Sync!Init
  <2>3. /\ Grid(inbox, Server, Client) /\ Grid(outbox, Server, Client)
        /\ DOMAIN pkts = Sharer /\ DOMAIN graph = Server
        /\ Grid(startIdx, Server, Client) /\ Grid(endIdx, Server, 0 .. NParties - 1)
        /\ Grid(shares, Client, Sharer)
    BY DEF Init, Grid
  <2> QED
    BY <1>1, <2>1, <2>2, <2>3 DEF Typed
<1>4. Places
  BY <1>2 DEF Places, ClientPhases, ServerPhases
<1>5. Streams
  <2> SUFFICES ASSUME NEW p \in Server, NEW c \in Client
               PROVE  OnTheWay(slice[c], c, p, TakenFrom(slice[c], p, phase[p], step[p], c),
                        Given(slice[c], p, phase[ClientId(c)], step[ClientId(c)]), inbox[p][c])
    BY DEF Streams
  <2>1. inbox[p][c] = << >>
    BY DEF Init
  <2>2. Messages("nodes", 0, c) = 0
    BY DEF Messages
  <2>3. TakenFrom(slice[c], p, phase[p], step[p], c) = 0
    BY <1>2, <2>2 DEF TakenFrom, Words
  <2>4. 1 - 1 - Ahead(p) <= 0
    BY DEF Ahead
  <2>5. Given(slice[c], p, phase[ClientId(c)], step[ClientId(c)]) = 0
    BY <1>2, <2>4 DEF Given, Words
  <2>6. << >> = [k \in 1 .. 0 - 0 |-> WordAt(slice[c], c, p, 0 + k)]
    OBVIOUS
  <2> QED
    BY <2>1, <2>3, <2>5, <2>6 DEF OnTheWay
<1>6. Counted
  BY <1>2, UptoNext DEF Init, Counted
<1>7. Packed
  <2> SUFFICES ASSUME NEW p \in Sharer
               PROVE  /\ Len(pkts[p]) <= NClients
                      /\ pkts[p] = Packets(slice, 0, 0)
    <3>1. \A p \in Sharer : phase[p] = "nodes"
      BY <1>2
    <3>2. \A i : Headers("nodes", i) = 0 /\ Contents("nodes", i) = 0
      BY DEF Headers, Contents
    <3>3. \A c \in Client : ~ (c < 0)
      BY InputAssumption DEF Client
    <3> QED
      BY <3>1, <3>2, <3>3 DEF Packed, PackedAt
  <2>1. pkts[p] = << >>
    BY DEF Init
  <2>2. Len(pkts[p]) <= NClients
    BY <2>1
  <2>3. Packets(slice, 0, 0) = << >>
    BY DEF Packets
  <2> QED
    BY <2>1, <2>2, <2>3
<1>8. Merged
  BY <1>2 DEF Merged, MergedAt
<1>9. Returned
  <2> SUFFICES ASSUME NEW p \in Sharer, NEW c \in Client
               PROVE  /\ outbox[p][c] = << >> /\ shares[c][p] = << >>
                      /\ ~ Got(p, phase[ClientId(c)]) /\ ~ SentBack(phase[p], step[p], c)
    BY DEF Returned, Handed
  <2> QED
    BY <1>2 DEF Init, Got, SentBack
<1>10. Barred
  BY DEF Init, Sync!Init, Barred
<1> QED
  BY <1>3, <1>4, <1>5, <1>6, <1>7, <1>8, <1>9, <1>10 DEF IInv

------------------------------------------------------------------------------
(* The steps of a client *)

LEMMA SameSlices ==
  ASSUME UNCHANGED slice
  PROVE  Acceptable' = Acceptable /\ Whole' = Whole /\ SizesOf' = SizesOf /\ NodesOf' = NodesOf
  BY DEF Acceptable, Whole, SizesOf, NodesOf, SliceCells

(* A client's step does not touch what the servers made of the slices. *)
LEMMA ServersKeep ==
  ASSUME IInv, UNCHANGED data, \A p \in Server : phase'[p] = phase[p] /\ step'[p] = step[p]
  PROVE  Counted' /\ Packed' /\ Merged'
<1> USE Ids
<1>1. UNCHANGED <<slice, nodes, size, pkts, graph, startIdx, endIdx>>
  BY DEF data
<1>2. Counted /\ Packed /\ Merged
  BY DEF IInv
<1>3. Counted'
  BY <1>1, <1>2, SameSlices DEF Counted
<1>4. Packed'
  BY <1>1, <1>2 DEF Packed
<1>5. Merged'
  BY <1>1, <1>2 DEF Merged
<1> QED
  BY <1>3, <1>4, <1>5

(* Nor does it touch the syncs, except where it is one. *)
LEMMA BarredKeeps ==
  ASSUME IInv, UNCHANGED <<slice, entered, left>>
  PROVE  Barred'
  BY SameSlices DEF IInv, Barred

LEMMA ClientSendInv ==
  ASSUME IInv, NEW c \in Client, ClientSend(c)
  PROVE  IInv'
<1> DEFINE me == ClientId(c)
           j == step[me]
           s == slice[c]
           msg == Script(c)[j]
<1> USE Ids
<1>1. UNCHANGED data /\ UNCHANGED <<outbox, shares, entered, left>>
  BY DEF ClientSend
<1>2. UNCHANGED <<slice, nodes, size, pkts, graph, startIdx, endIdx>>
  BY <1>1 DEF data
<1>3. Typed /\ Places
  BY DEF IInv
<1>4. s \in SliceType /\ j \in 1 .. 8 /\ me \in Process /\ phase[me] = "send"
  BY <1>3 DEF Typed, Places, ClientSend
<1>5. Len(Script(c)) = 8 /\ Continues(s, c, j, msg)
  <2>1. msg = Script(c)[j] /\ s = slice[c]
    OBVIOUS
  <2> HIDE DEF msg, j, s
  <2> QED
    BY <1>4, <2>1, ScriptMessage
<1>6. inbox' = [inbox EXCEPT ![msg.to][c] = @ \o msg.words]
  BY DEF ClientSend
<1>7. \/ j < 8 /\ step' = [step EXCEPT ![me] = j + 1] /\ phase' = phase
      \/ j = 8 /\ phase' = [phase EXCEPT ![me] = "sync"] /\ step' = step
  BY <1>4, <1>5 DEF ClientSend
<1> HIDE DEF msg
<1>8. /\ \A x \in Process : x # me => phase'[x] = phase[x] /\ step'[x] = step[x]
      /\ phase' \in [Process -> ClientPhases \cup ServerPhases] /\ step' \in [Process -> Nat]
      /\ phase'[me] \in {"send", "sync"} /\ step'[me] \in 1 .. 8
      /\ (IF phase'[me] = "send" THEN step'[me] - 1 ELSE 8) = j
  <2>1. phase \in [Process -> ClientPhases \cup ServerPhases] /\ step \in [Process -> Nat]
    BY <1>3 DEF Typed
  <2>2. "sync" \in ClientPhases
    BY DEF ClientPhases
  <2> HIDE DEF me
  <2>3. CASE j < 8 /\ step' = [step EXCEPT ![me] = j + 1] /\ phase' = phase
    BY <1>4, <2>1, <2>3
  <2>4. CASE j = 8 /\ phase' = [phase EXCEPT ![me] = "sync"] /\ step' = step
    BY <1>4, <2>1, <2>2, <2>4
  <2> QED
    BY <1>7, <2>3, <2>4
<1>9. \A p \in Server : phase'[p] = phase[p] /\ step'[p] = step[p]
  BY <1>8
<1>10. \A d \in Client : d # c => phase'[ClientId(d)] = phase[ClientId(d)]
                                  /\ step'[ClientId(d)] = step[ClientId(d)]
  BY <1>8
<1>11. Grid(inbox, Server, Client) /\ Grid(inbox', Server, Client)
  <2>1. Grid(inbox, Server, Client)
    BY <1>3 DEF Typed
  <2> QED
    BY <1>6, <2>1 DEF Grid
<1>12. Typed'
  BY <1>1, <1>2, <1>3, <1>8, <1>11 DEF Typed, Grid
<1>13. Places'
  <2>1. \A d \in Client : phase'[ClientId(d)] \in ClientPhases /\ step'[ClientId(d)] \in 1 .. 8
    BY <1>3, <1>8, <1>10 DEF Places, ClientPhases
  <2> QED
    BY <1>3, <1>9, <2>1 DEF Places
<1>14. Streams'
  <2> SUFFICES ASSUME NEW p \in Server, NEW d \in Client, phase[p] \in Reading
               PROVE  OnTheWay(slice[d], d, p, TakenFrom(slice[d], p, phase[p], step[p], d),
                        Given(slice[d], p, phase'[ClientId(d)], step'[ClientId(d)]), inbox'[p][d])
    BY <1>2, <1>9 DEF Streams
  <2>1. OnTheWay(slice[d], d, p, TakenFrom(slice[d], p, phase[p], step[p], d),
                 Given(slice[d], p, phase[ClientId(d)], step[ClientId(d)]), inbox[p][d])
    BY DEF IInv, Streams
  <2>2. inbox'[p][d] = IF p = msg.to /\ d = c THEN inbox[p][d] \o msg.words ELSE inbox[p][d]
    BY <1>5, <1>6, <1>11 DEF Grid, Continues
  <2>3. CASE d # c
    BY <1>10, <2>1, <2>2, <2>3
  <2>4. CASE d = c
    <3> DEFINE t == TakenFrom(s, p, phase[p], step[p], c)
               g == Words(s, p, j - 1 - Ahead(p))
    <3>1. Given(s, p, phase[me], step[me]) = g
      BY <1>4 DEF Given
    <3>2. Given(s, p, phase'[me], step'[me]) = Words(s, p, j - Ahead(p))
      BY <1>8 DEF Given
    <3>3. j - 1 - Ahead(p) \in Int
      BY <1>4 DEF Ahead
    <3>4. g \in Nat
      BY <1>4, <3>3, WordsNat
    <3>5. t \in Nat
      <4>1. Messages(phase[p], step[p], c) \in Int
        BY DEF Messages
      <4> QED
        BY <1>4, <4>1, WordsNat DEF TakenFrom
    <3>6. OnTheWay(s, c, p, t, g, inbox[p][c])
      BY <2>1, <2>4, <3>1
    <3> HIDE DEF t, g
    <3>7. OnTheWay(s, c, p, t, Words(s, p, j - Ahead(p)), inbox'[p][c])
      <4>1. CASE p # msg.to
        <5>1. Words(s, p, j - Ahead(p)) = g
          BY <1>5, <4>1 DEF g, Continues
        <5>2. inbox'[p][c] = inbox[p][c]
          BY <2>2, <2>4, <4>1
        <5> QED
          BY <3>6, <5>1, <5>2
      <4>2. CASE p = msg.to
        <5>1. PICK m \in Nat : /\ Words(s, p, j - Ahead(p)) = g + m
                               /\ msg.words = [k \in 1 .. m |-> WordAt(s, c, p, g + k)]
          BY <1>5, <4>2 DEF g, Continues
        <5>2. OnTheWay(s, c, p, t, g + m, inbox[p][c] \o msg.words)
          BY <3>4, <3>5, <3>6, <5>1, StreamSent
        <5> QED
          BY <2>2, <2>4, <4>2, <5>1, <5>2
      <4> QED
        BY <4>1, <4>2
    <3> QED
      BY <2>4, <3>2, <3>7 DEF t
  <2> QED
    BY <2>3, <2>4
<1>15. Returned'
  <2>1. \A p, d : d \in Client => Got(p, phase'[ClientId(d)]) = Got(p, phase[ClientId(d)])
    BY <1>4, <1>8, <1>10 DEF Got
  <2> SUFFICES ASSUME NEW p \in Sharer, NEW d \in Client
               PROVE  Handed(slice'[d], d, SentBack(phase'[p], step'[p], d), Got(p, phase'[ClientId(d)]),
                             outbox'[p][d], shares'[d][p])
    BY DEF Returned
  <2>2. phase'[p] = phase[p] /\ step'[p] = step[p]
    BY <1>9
  <2>3. Handed(slice[d], d, SentBack(phase[p], step[p], d), Got(p, phase[ClientId(d)]),
               outbox[p][d], shares[d][p])
    BY DEF IInv, Returned
  <2> QED
    BY <1>1, <1>2, <2>1, <2>2, <2>3
<1> QED
  BY <1>1, <1>2, <1>9, <1>12, <1>13, <1>14, <1>15, ServersKeep, BarredKeeps DEF IInv

LEMMA ClientRecvInv ==
  ASSUME IInv, NEW c \in Client, NEW p \in Sharer, ClientRecv(c, p)
  PROVE  IInv'
<1> DEFINE me == ClientId(c)
           n == slice[c].size
           then == IF p = P0 THEN "share1" ELSE "done"
<1> USE Ids
<1>1. UNCHANGED data /\ UNCHANGED <<step, inbox, entered, left>>
  BY DEF ClientRecv
<1>2. UNCHANGED <<slice, nodes, size, pkts, graph, startIdx, endIdx>>
  BY <1>1 DEF data
<1>3. Typed /\ Places
  BY DEF IInv
<1>4. /\ phase[me] = (IF p = P0 THEN "share0" ELSE "share1")
      /\ Len(outbox[p][c]) >= n
      /\ shares' = [shares EXCEPT ![c][p] = SubSeq(outbox[p][c], 1, n)]
      /\ outbox' = [outbox EXCEPT ![p][c] = SubSeq(outbox[p][c], n + 1, Len(outbox[p][c]))]
      /\ phase' = [phase EXCEPT ![me] = then]
  BY DEF ClientRecv
<1>5. me \in Process /\ n \in Nat /\ then \in ClientPhases /\ phase \in [Process -> ClientPhases \cup ServerPhases]
  BY <1>3, SliceNat DEF Typed, ClientPhases
<1>6. /\ \A x \in Process : x # me => phase'[x] = phase[x]
      /\ phase'[me] = then /\ phase' \in [Process -> ClientPhases \cup ServerPhases]
  <2> HIDE DEF me, then
  <2> QED
    BY <1>4, <1>5
<1>7. \A q \in Server : phase'[q] = phase[q] /\ step'[q] = step[q]
  BY <1>1, <1>6
<1>8. \A d \in Client : d # c => phase'[ClientId(d)] = phase[ClientId(d)]
  BY <1>6
<1>9. /\ Grid(outbox, Server, Client) /\ Grid(shares, Client, Sharer)
      /\ Grid(outbox', Server, Client) /\ Grid(shares', Client, Sharer)
  <2>1. Grid(outbox, Server, Client) /\ Grid(shares, Client, Sharer)
    BY <1>3 DEF Typed
  <2> HIDE DEF n
  <2>2. Grid(outbox', Server, Client)
    BY <1>4, <2>1 DEF Grid
  <2>3. Grid(shares', Client, Sharer)
    BY <1>4, <2>1 DEF Grid
  <2> QED
    BY <2>1, <2>2, <2>3
<1>10. Typed'
  BY <1>1, <1>2, <1>3, <1>6, <1>9 DEF Typed, Grid
<1>11. Places'
  <2>1. \A d \in Client : phase'[ClientId(d)] \in ClientPhases /\ step'[ClientId(d)] \in 1 .. 8
    BY <1>1, <1>3, <1>5, <1>6, <1>8 DEF Places
  <2> QED
    BY <1>3, <1>7, <2>1 DEF Places
<1>12. Streams'
  <2>1. \A q, d : d \in Client => Given(slice[d], q, phase'[ClientId(d)], step'[ClientId(d)])
                                  = Given(slice[d], q, phase[ClientId(d)], step[ClientId(d)])
    <3>1. phase[me] # "send" /\ phase'[me] # "send"
      BY <1>4, <1>6
    <3> QED
      BY <1>1, <1>8, <3>1 DEF Given
  <2> SUFFICES ASSUME NEW q \in Server, NEW d \in Client, phase'[q] \in Reading
               PROVE  OnTheWay(slice'[d], d, q, TakenFrom(slice'[d], q, phase'[q], step'[q], d),
                        Given(slice'[d], q, phase'[ClientId(d)], step'[ClientId(d)]), inbox'[q][d])
    BY DEF Streams
  <2>2. phase'[q] = phase[q] /\ step'[q] = step[q]
    BY <1>7
  <2>3. OnTheWay(slice[d], d, q, TakenFrom(slice[d], q, phase[q], step[q], d),
                 Given(slice[d], q, phase[ClientId(d)], step[ClientId(d)]), inbox[q][d])
    BY <2>2 DEF IInv, Streams
  <2> QED
    BY <1>1, <1>2, <2>1, <2>2, <2>3
<1>13. Returned'
  <2> SUFFICES ASSUME NEW q \in Sharer, NEW d \in Client
               PROVE  Handed(slice[d], d, SentBack(phase[q], step[q], d), Got(q, phase'[ClientId(d)]),
                             outbox'[q][d], shares'[d][q])
    BY <1>2, <1>7 DEF Returned
  <2>1. Handed(slice[d], d, SentBack(phase[q], step[q], d), Got(q, phase[ClientId(d)]),
               outbox[q][d], shares[d][q])
    BY DEF IInv, Returned
  <2>2. CASE d # c \/ q # p
    <3>1. outbox'[q][d] = outbox[q][d] /\ shares'[d][q] = shares[d][q]
      <4> HIDE DEF n
      <4>1. outbox'[q][d] = outbox[q][d]
        BY <1>4, <1>9, <2>2 DEF Grid
      <4>2. shares'[d][q] = shares[d][q]
        BY <1>4, <1>9, <2>2 DEF Grid
      <4> QED
        BY <4>1, <4>2
    <3>2. Got(q, phase'[ClientId(d)]) = Got(q, phase[ClientId(d)])
      <4>1. CASE d # c
        BY <1>8, <4>1
      <4>2. CASE d = c
        BY <1>4, <1>6, <2>2, <4>2 DEF Got
      <4> QED
        BY <4>1, <4>2
    <3> QED
      BY <2>1, <3>1, <3>2
  <2>3. CASE d = c /\ q = p
    <3> DEFINE sent == SentBack(phase[p], step[p], c)
               w == outbox[p][c]
               res == Result(slice[c], c)
    <3>1. ~ Got(p, phase[me]) /\ Got(p, phase'[me])
      BY <1>4, <1>6 DEF Got
    <3>2. w = IF sent THEN res ELSE <<>>
      BY <2>1, <2>3, <3>1 DEF Handed
    <3>3. outbox'[p][c] = SubSeq(w, n + 1, Len(w)) /\ shares'[c][p] = SubSeq(w, 1, n)
      <4> HIDE DEF n
      <4>1. p \in Server /\ p \in Sharer /\ c \in Client
        OBVIOUS
      <4>2. outbox'[p][c] = SubSeq(outbox[p][c], n + 1, Len(outbox[p][c]))
        BY <1>4, <1>9, <4>1 DEF Grid
      <4>3. shares'[c][p] = SubSeq(outbox[p][c], 1, n)
        <5>1. DOMAIN shares = Client /\ DOMAIN shares[c] = Sharer
          BY <1>9 DEF Grid
        <5> QED
          BY <1>4, <4>1, <5>1
      <4> QED
        BY <4>2, <4>3
    <3>4. res = [k \in 1 .. n |-> res[k]]
      BY DEF Result
    <3> HIDE DEF res, sent, w
    <3>5. w = res /\ (sent \/ n = 0)
      <4>1. CASE sent
        BY <3>2, <4>1
      <4>2. CASE ~ sent
        <5>1. w = <<>> /\ n = 0
          BY <1>4, <1>5, <3>2, <4>2 DEF w
        <5>2. [k \in 1 .. 0 |-> res[k]] = <<>>
          OBVIOUS
        <5> QED
          BY <3>4, <5>1, <5>2
      <4> QED
        BY <4>1, <4>2
    <3>6. SubSeq(w, 1, n) = res /\ SubSeq(w, n + 1, Len(w)) = <<>>
      <4> HIDE DEF n
      <4>1. w = [k \in 1 .. n |-> w[k]] /\ n \in 0 .. n
        BY <1>5, <3>4, <3>5
      <4>2. /\ SubSeq(w, 1, n) = [k \in 1 .. n |-> w[k]]
            /\ SubSeq(w, n + 1, Len(w)) = [k \in 1 .. n - n |-> w[n + k]]
        BY <1>5, <4>1, ReadFirst
      <4>3. [k \in 1 .. 0 |-> w[n + k]] = <<>> /\ n - n = 0
        BY <1>5
      <4> QED
        BY <3>5, <4>1, <4>2, <4>3
    <3> QED
      BY <2>3, <3>1, <3>3, <3>5, <3>6 DEF Handed, res, sent
  <2> QED
    BY <2>2, <2>3
<1> QED
  BY <1>1, <1>2, <1>7, <1>10, <1>11, <1>12, <1>13, ServersKeep, BarredKeeps DEF IInv

------------------------------------------------------------------------------
(* The steps of a server *)

\* Server p moves, nobody else does.
Alone(p) ==
  /\ \A x \in Process : x # p => phase'[x] = phase[x] /\ step'[x] = step[x]
  /\ phase' \in [Process -> ClientPhases \cup ServerPhases]
  /\ step' \in [Process -> Nat]

LEMMA ServerAt ==
  ASSUME IInv, NEW p \in Server
  PROVE  /\ p \in Process /\ phase[p] \in ServerPhases /\ step[p] \in Client /\ step[p] \in Nat
         /\ phase[p] \in {"merge", "sync"} => step[p] = 0
         /\ p = D => phase[p] \notin {"header", "entries", "merge", "adrift"}
         /\ p # D => phase[p] # "size"
         /\ phase \in [Process -> ClientPhases \cup ServerPhases] /\ step \in [Process -> Nat]
<1>1. Places /\ Typed
  BY DEF IInv
<1>2. /\ phase[p] \in ServerPhases /\ step[p] \in Client
      /\ phase[p] \in {"merge", "sync"} => step[p] = 0
  BY <1>1 DEF Places
<1>3. phase[D] \notin {"header", "entries", "merge", "adrift"}
  BY <1>1 DEF Places
<1>4. p # D => phase[p] # "size"
  <2>1. p # D => p \in Sharer
    BY DEF Server, Sharer
  <2> QED
    BY <1>1, <2>1 DEF Places
<1>5. phase \in [Process -> ClientPhases \cup ServerPhases] /\ step \in [Process -> Nat]
  BY <1>1 DEF Typed
<1> QED
  BY <1>2, <1>3, <1>4, <1>5, Ids

LEMMA Visited ==
  ASSUME IInv, NEW p \in Server, NEW then \in ServerPhases, Visit(p, then)
  PROVE  /\ Alone(p)
         /\ \/ step[p] < NClients - 1 /\ step'[p] = step[p] + 1 /\ phase'[p] = phase[p]
            \/ step[p] = NClients - 1 /\ step'[p] = 0 /\ phase'[p] = then
<1> USE Ids
<1>1. /\ phase \in [Process -> ClientPhases \cup ServerPhases] /\ step \in [Process -> Nat]
      /\ p \in Process /\ step[p] \in Client
  BY ServerAt
<1>2. CASE step[p] < NClients - 1
  <2>1. step' = [step EXCEPT ![p] = step[p] + 1] /\ phase' = phase
    BY <1>2 DEF Visit
  <2> QED
    BY <1>1, <1>2, <2>1 DEF Alone
<1>3. CASE ~ (step[p] < NClients - 1)
  <2>1. step' = [step EXCEPT ![p] = 0] /\ phase' = [phase EXCEPT ![p] = then]
    BY <1>3 DEF Visit
  <2>2. step[p] = NClients - 1
    BY <1>1, <1>3
  <2> QED
    BY <1>1, <2>1, <2>2 DEF Alone
<1> QED
  BY <1>2, <1>3

LEMMA Halted ==
  ASSUME IInv, NEW p \in Server, NEW how \in ServerPhases, Halt(p, how), UNCHANGED step
  PROVE  Alone(p) /\ phase'[p] = how /\ step'[p] = step[p]
<1>1. /\ phase \in [Process -> ClientPhases \cup ServerPhases] /\ step \in [Process -> Nat]
      /\ p \in Process
  BY Ids DEF IInv, Typed
<1>2. phase' = [phase EXCEPT ![p] = how]
  BY DEF Halt
<1> QED
  BY <1>1, <1>2 DEF Alone

LEMMA PlacesMove ==
  ASSUME IInv, NEW p \in Server, Alone(p), phase'[p] \in ServerPhases, step'[p] \in Client,
         phase'[p] \in {"merge", "sync"} => step'[p] = 0,
         p = D => phase'[p] \notin {"header", "entries", "merge", "adrift"},
         p # D => phase'[p] # "size"
  PROVE  Places'
<1> USE Ids
<1>1. Places
  BY DEF IInv
<1>2. \A c \in Client : phase'[ClientId(c)] = phase[ClientId(c)] /\ step'[ClientId(c)] = step[ClientId(c)]
  BY DEF Alone
<1>3. \A q \in Server : q # p => phase'[q] = phase[q] /\ step'[q] = step[q]
  BY DEF Alone
<1>4. \A c \in Client : phase'[ClientId(c)] \in ClientPhases /\ step'[ClientId(c)] \in 1 .. 8
  BY <1>1, <1>2 DEF Places
<1>5. \A q \in Server : /\ phase'[q] \in ServerPhases /\ step'[q] \in Client
                        /\ phase'[q] \in {"merge", "sync"} => step'[q] = 0
  <2> TAKE q \in Server
  <2>1. CASE q = p
    BY <2>1
  <2>2. CASE q # p
    BY <1>3, <2>2, ServerAt
  <2> QED
    BY <2>1, <2>2
<1>6. phase'[D] \notin {"header", "entries", "merge", "adrift"}
  <2>1. CASE p = D
    BY <2>1
  <2>2. CASE p # D
    BY <1>1, <1>3, <2>2 DEF Places
  <2> QED
    BY <2>1, <2>2
<1>7. \A q \in Sharer : phase'[q] # "size"
  <2> TAKE q \in Sharer
  <2>1. CASE p = q
    BY <2>1
  <2>2. CASE p # q
    BY <1>1, <1>3, <2>2 DEF Places
  <2> QED
    BY <2>1, <2>2
<1> QED
  BY <1>4, <1>5, <1>6, <1>7 DEF Places

\* The k words that server p takes are those of client c from after the first t.
Obtains(p, c, t, k) ==
  /\ c \in Client /\ t \in Nat
  /\ \A j \in 1 .. k : Taken(p, j) = WordAt(slice[c], c, p, t + j)
  /\ SubSeq(inbox[p][c], 1, k) = Part(slice[c], c, p, t, k)
  /\ OnTheWay(slice[c], c, p, t + k, Given(slice[c], p, phase[ClientId(c)], step[ClientId(c)]),
              SubSeq(inbox[p][c], k + 1, Len(inbox[p][c])))

(* What a server reads is what the client it is at has for it. *)
LEMMA ReadWords ==
  ASSUME IInv, NEW p \in Server, NEW k \in Nat, phase[p] \in Reading, Take(p, k),
         NEW c, c = step[p], NEW t, t = TakenFrom(slice[c], p, phase[p], c, c)
  PROVE  Obtains(p, c, t, k)
<1> USE Ids
<1>1. c \in Client /\ slice[c] \in SliceType /\ ClientId(c) \in Process
  BY ServerAt DEF IInv, Typed
<1>2. t \in Nat
  <2>1. Messages(phase[p], c, c) \in Int
    BY DEF Messages
  <2> QED
    BY <1>1, <2>1, WordsNat DEF TakenFrom
<1> DEFINE g == Given(slice[c], p, phase[ClientId(c)], step[ClientId(c)])
           w == inbox[p][c]
<1>3. g \in Nat
  <2>1. step[ClientId(c)] \in Nat
    BY <1>1 DEF IInv, Typed
  <2>2. (IF phase[ClientId(c)] = "send" THEN step[ClientId(c)] - 1 ELSE 8) - Ahead(p) \in Int
    BY <2>1 DEF Ahead
  <2> QED
    BY <1>1, <2>2, WordsNat DEF Given
<1>4. OnTheWay(slice[c], c, p, t, g, w)
  BY <1>1 DEF IInv, Streams
<1>5. Len(w) >= k
  BY DEF Take
<1>6. \A j : Taken(p, j) = w[j]
  BY DEF Taken
<1>7. Len(w) >= k /\ OnTheWay(slice[c], c, p, t, g, w) /\ g \in Nat
  BY <1>3, <1>4, <1>5
<1> HIDE DEF g, w
<1>8. /\ OnTheWay(slice[c], c, p, t + k, g, SubSeq(w, k + 1, Len(w)))
      /\ SubSeq(w, 1, k) = Part(slice[c], c, p, t, k)
      /\ \A j \in 1 .. k : w[j] = WordAt(slice[c], c, p, t + j)
  <2>1. Reads(slice[c], c, p, t, g, w, k)
    BY <1>2, <1>7, StreamRead
  <2> QED
    BY <2>1 DEF Reads
<1> QED
  BY <1>1, <1>2, <1>6, <1>8 DEF g, w, Obtains

(* The streams are as they should be if a server goes on behind what it has read. *)
LEMMA ReadKeeps ==
  ASSUME IInv, NEW p \in Server, NEW k \in Nat, phase[p] \in Reading, Take(p, k), Alone(p),
         UNCHANGED slice,
         phase'[p] \in Reading =>
           \A d \in Client : TakenFrom(slice[d], p, phase'[p], step'[p], d)
             = TakenFrom(slice[d], p, phase[p], step[p], d) + IF d = step[p] THEN k ELSE 0
  PROVE  Streams' /\ Grid(inbox', Server, Client)
<1> USE Ids
<1> DEFINE c == step[p]
<1>1. /\ c \in Client /\ Grid(inbox, Server, Client)
      /\ inbox' = [inbox EXCEPT ![p][c] = SubSeq(inbox[p][c], k + 1, Len(inbox[p][c]))]
  <2>1. c \in Client /\ Grid(inbox, Server, Client)
    BY ServerAt DEF IInv, Typed
  <2>2. inbox' = [inbox EXCEPT ![p][c] = SubSeq(inbox[p][c], k + 1, Len(inbox[p][c]))]
    BY DEF Take
  <2> QED
    BY <2>1, <2>2
<1>2. Grid(inbox', Server, Client)
  <2> HIDE DEF c
  <2> QED
    BY <1>1 DEF Grid
<1>3. ASSUME NEW q \in Server, NEW d \in Client
      PROVE  inbox'[q][d] = IF q = p /\ d = c THEN SubSeq(inbox[p][c], k + 1, Len(inbox[p][c]))
                            ELSE inbox[q][d]
  <2>1. DOMAIN inbox = Server /\ DOMAIN inbox[p] = Client /\ DOMAIN inbox[q] = Client
    BY <1>1 DEF Grid
  <2> HIDE DEF c
  <2> QED
    BY <1>1, <2>1
<1>4. Streams'
  <2> SUFFICES ASSUME NEW q \in Server, NEW d \in Client, phase'[q] \in Reading
               PROVE  OnTheWay(slice'[d], d, q, TakenFrom(slice'[d], q, phase'[q], step'[q], d),
                        Given(slice'[d], q, phase'[ClientId(d)], step'[ClientId(d)]), inbox'[q][d])
    BY DEF Streams
  <2>1. phase'[ClientId(d)] = phase[ClientId(d)] /\ step'[ClientId(d)] = step[ClientId(d)]
    BY DEF Alone
  <2>2. CASE q # p
    <3>1. phase'[q] = phase[q] /\ step'[q] = step[q]
      BY <2>2 DEF Alone
    <3>2. OnTheWay(slice[d], d, q, TakenFrom(slice[d], q, phase[q], step[q], d),
                   Given(slice[d], q, phase[ClientId(d)], step[ClientId(d)]), inbox[q][d])
      BY <3>1 DEF IInv, Streams
    <3> QED
      BY <1>3, <2>1, <2>2, <3>1, <3>2
  <2>3. CASE q = p /\ d # c
    <3>1. OnTheWay(slice[d], d, p, TakenFrom(slice[d], p, phase[p], step[p], d),
                   Given(slice[d], p, phase[ClientId(d)], step[ClientId(d)]), inbox[p][d])
      BY DEF IInv, Streams
    <3>2. TakenFrom(slice[d], p, phase[p], step[p], d) \in Nat
      <4>1. slice[d] \in SliceType /\ Messages(phase[p], step[p], d) \in Int
        BY DEF IInv, Typed, Messages
      <4> QED
        BY <4>1, WordsNat DEF TakenFrom
    <3>3. TakenFrom(slice[d], p, phase'[p], step'[p], d) = TakenFrom(slice[d], p, phase[p], step[p], d)
      BY <2>3, <3>2
    <3> QED
      BY <1>3, <2>1, <2>3, <3>1, <3>3
  <2>4. CASE q = p /\ d = c
    <3>1. OnTheWay(slice[c], c, p, TakenFrom(slice[c], p, phase[p], c, c) + k,
                   Given(slice[c], p, phase[ClientId(c)], step[ClientId(c)]),
                   SubSeq(inbox[p][c], k + 1, Len(inbox[p][c])))
      BY ReadWords DEF Obtains
    <3> QED
      BY <1>3, <2>1, <2>4, <3>1
  <2> QED
    BY <2>2, <2>3, <2>4
<1> QED
  BY <1>2, <1>4

------------------------------------------------------------------------------
(* What gets past the checks of recv_graph *)

LEMMA NextSum ==
  ASSUME slice \in [Client -> SliceType], NEW c \in Client
  PROVE  /\ Upto(SizesOf, c + 1) = Upto(SizesOf, c) + slice[c].size
         /\ Upto(NodesOf, c + 1) = Upto(NodesOf, c) + slice[c].nodes
<1>1. c \in Nat /\ c + 1 \in 1 .. NClients /\ (c + 1) - 1 = c
  BY Ids
<1>2. SizesOf[c + 1] = slice[c].size /\ NodesOf[c + 1] = slice[c].nodes
  BY <1>1 DEF SizesOf, NodesOf
<1> QED
  BY <1>1, <1>2, UptoNext

LEMMA AllPackets ==
  ASSUME slice \in [Client -> SliceType], NEW ps, ps = Packets(slice, NClients, NClients)
  PROVE  /\ DOMAIN ps = 1 .. NClients /\ Len(ps) = NClients
         /\ \A k \in 1 .. NClients :
              /\ ps[k].start = slice[k - 1].start
              /\ ps[k].size = slice[k - 1].size
              /\ ps[k].entries = Serialize(k - 1, slice[k - 1].size)
              /\ Cells(ps[k]) = SliceCells(k - 1)
         /\ TotalSize(ps) = Whole /\ Whole \in Nat
<1>1. /\ DOMAIN ps = 1 .. NClients
      /\ ps = [k \in 1 .. NClients |-> ps[k]]
      /\ \A k \in 1 .. NClients :
           /\ ps[k].start = slice[k - 1].start
           /\ ps[k].size = slice[k - 1].size
           /\ ps[k].entries = Serialize(k - 1, slice[k - 1].size)
  BY Ids DEF Packets
<1>2. Len(ps) = NClients
  BY <1>1, Ids, PlacesSeq
<1>3. \A k \in 1 .. NClients : Cells(ps[k]) = SliceCells(k - 1)
  BY <1>1 DEF Cells, SliceCells
<1>4. [k \in 1 .. Len(ps) |-> ps[k].size] = SizesOf
  BY <1>1, <1>2 DEF SizesOf
<1>5. TotalSize(ps) = Whole
  BY <1>2, <1>4 DEF TotalSize, Whole
<1>6. \A k \in 1 .. NClients : SizesOf[k] \in Nat
  BY Ids, SliceNat DEF SizesOf
<1>7. Whole \in Nat
  BY <1>6, Ids, UptoNat DEF Whole
<1> QED
  BY <1>1, <1>2, <1>3, <1>5, <1>7

(* Packets that end inside the list, do not overlap and leave no gap: every
   cell is written by one client, and read out of its packet. *)
LEMMA FitTogether ==
  ASSUME slice \in [Client -> SliceType], NEW ps, ps = Packets(slice, NClients, NClients),
         ~ Refused(ps), ~ Aborted(ps)
  PROVE  /\ Acceptable
         /\ DOMAIN Unpacked(ps) = 0 .. Whole - 1
         /\ \A c \in Client : \A x \in SliceCells(c) : x \in 0 .. Whole - 1
         /\ \A c \in Client : \A x \in SliceCells(c) : \A f \in Field :
              Unpacked(ps)[x][f] = <<c, x - slice[c].start, f>>
<1>1. /\ DOMAIN ps = 1 .. NClients /\ Len(ps) = NClients
      /\ TotalSize(ps) = Whole /\ Whole \in Nat
  BY AllPackets
<1>2. \A k \in 1 .. NClients :
        /\ ps[k].start = slice[k - 1].start
        /\ ps[k].size = slice[k - 1].size
        /\ ps[k].entries = Serialize(k - 1, slice[k - 1].size)
        /\ Cells(ps[k]) = SliceCells(k - 1)
  BY AllPackets
<1>3. \A c \in Client : c + 1 \in 1 .. NClients /\ (c + 1) - 1 = c
  BY Ids
<1>4. /\ \A k \in DOMAIN ps : ~ (ps[k].start + ps[k].size > Whole)
      /\ \A j, k \in DOMAIN ps : j # k => Cells(ps[j]) \cap Cells(ps[k]) = {}
      /\ UNION {Cells(ps[k]) : k \in DOMAIN ps} = 0 .. Whole - 1
  BY <1>1 DEF Refused
<1>5. \A c, d \in Client : c # d => SliceCells(c) \cap SliceCells(d) = {}
  <2> SUFFICES ASSUME NEW c \in Client, NEW d \in Client, c # d
               PROVE  SliceCells(c) \cap SliceCells(d) = {}
    OBVIOUS
  <2>1. c \in Nat /\ d \in Nat /\ c + 1 # d + 1
    BY Ids
  <2>2. Cells(ps[c + 1]) = SliceCells(c) /\ Cells(ps[d + 1]) = SliceCells(d)
    BY <1>2, <1>3
  <2> QED
    BY <1>1, <1>3, <1>4, <2>1, <2>2
<1>6. \A x : x \in 0 .. Whole - 1 <=> \E c \in Client : x \in SliceCells(c)
  <2>1. ASSUME NEW x \in 0 .. Whole - 1
        PROVE  \E c \in Client : x \in SliceCells(c)
    <3>1. PICK k \in 1 .. NClients : x \in Cells(ps[k])
      BY <1>1, <1>4
    <3>2. k - 1 \in Client
      BY Ids
    <3> QED
      BY <1>2, <3>1, <3>2
  <2>2. ASSUME NEW c \in Client, NEW x \in SliceCells(c)
        PROVE  x \in 0 .. Whole - 1
    <3>1. x \in Cells(ps[c + 1])
      BY <1>2, <1>3
    <3>2. c + 1 \in DOMAIN ps
      BY <1>1, <1>3
    <3> QED
      BY <1>4, <3>1, <3>2
  <2> QED
    BY <2>1, <2>2
<1>7. Acceptable
  <2>1. ASSUME NEW x \in 0 .. Whole - 1
        PROVE  Cardinality({c \in Client : x \in SliceCells(c)}) = 1
    <3>1. PICK c \in Client : x \in SliceCells(c)
      BY <1>6
    <3>2. {d \in Client : x \in SliceCells(d)} = {c}
      BY <1>5, <3>1
    <3> QED
      BY <3>2, FS_Singleton
  <2>2. ASSUME NEW c \in Client
        PROVE  slice[c].start + slice[c].size <= Whole
    <3>1. ~ (ps[c + 1].start + ps[c + 1].size > Whole)
      BY <1>1, <1>3, <1>4
    <3>2. ps[c + 1].start = slice[c].start /\ ps[c + 1].size = slice[c].size
      BY <1>2, <1>3
    <3>3. slice[c].start \in Nat /\ slice[c].size \in Nat
      BY SliceNat
    <3> QED
      BY <1>1, <3>1, <3>2, <3>3
  <2>3. ASSUME Asserts, NEW c \in Client
        PROVE  slice[c].size > 0
    <3>1. ps[c + 1].size # 0
      BY <1>1, <1>3, <2>3 DEF Aborted
    <3>2. ps[c + 1].size = slice[c].size /\ slice[c].size \in Nat
      BY <1>2, <1>3, SliceNat
    <3> QED
      BY <3>1, <3>2
  <2> QED
    BY <2>1, <2>2, <2>3 DEF Acceptable
<1>8. DOMAIN Unpacked(ps) = 0 .. Whole - 1
  BY <1>1 DEF Unpacked
<1>9. ASSUME NEW c \in Client, NEW x \in SliceCells(c), NEW f \in Field
      PROVE  Unpacked(ps)[x][f] = <<c, x - slice[c].start, f>>
  <2> DEFINE writers == {k \in DOMAIN ps : x \in Cells(ps[k])}
             s == slice[c]
             i == x - s.start
  <2>1. writers = {c + 1}
    <3>1. c + 1 \in writers
      BY <1>1, <1>2, <1>3
    <3>2. ASSUME NEW k \in writers PROVE k = c + 1
      BY <1>1, <1>4, <3>1
    <3> QED
      BY <3>1, <3>2
  <2>2. Max(writers) = c + 1
    <3>1. c + 1 \in Nat
      BY Ids
    <3> HIDE DEF writers
    <3> QED
      BY <2>1, <3>1 DEF Max
  <2>3. x \in 0 .. Whole - 1
    BY <1>6
  <2>4. Unpacked(ps)[x][f] = ps[c + 1].entries[PositionOf(f, x - ps[c + 1].start, ps[c + 1].size)]
    <3>1. Unpacked(ps)[x][f] = IF writers = {} THEN <<>>
            ELSE ps[Max(writers)].entries[PositionOf(f, x - ps[Max(writers)].start, ps[Max(writers)].size)]
      BY <1>1, <2>3 DEF Unpacked
    <3> HIDE DEF writers
    <3> QED
      BY <2>1, <2>2, <3>1
  <2>5. /\ ps[c + 1].start = s.start /\ ps[c + 1].size = s.size
        /\ ps[c + 1].entries = Serialize(c, s.size)
    BY <1>2, <1>3
  <2>6. s.size \in Nat /\ i \in 0 .. s.size - 1
    <3>1. s \in SliceType /\ s.size \in Nat /\ s.start \in Nat
      BY SliceNat
    <3>2. x \in s.start .. s.start + s.size - 1
      BY DEF SliceCells, Cells
    <3> HIDE DEF s
    <3> QED
      BY <3>1, <3>2
  <2> HIDE DEF s, i
  <2>7. Serialize(c, s.size)[PositionOf(f, i, s.size)] = <<c, i, f>>
    BY <2>6, ReadBack
  <2> QED
    BY <2>4, <2>5, <2>7 DEF i, s
<1> QED
  BY <1>6, <1>7, <1>8, <1>9

(* The list that a server has put together is the one that the slices make up. *)
LEMMA MergedFits ==
  ASSUME IInv, NEW p \in Sharer, HasInput(p)
  PROVE  /\ Acceptable
         /\ size[p] = Whole /\ nodes[p] = Upto(NodesOf, NClients)
         /\ DOMAIN graph[p] = 0 .. Whole - 1
         /\ \A c \in Client : \A x \in SliceCells(c) : x \in 0 .. Whole - 1
         /\ \A c \in Client : \A x \in SliceCells(c) : \A f \in Field :
              graph[p][x][f] = <<c, x - slice[c].start, f>>
<1>1. phase[p] \in {"sync", "results", "done"}
  BY DEF HasInput
<1>2. slice \in [Client -> SliceType]
  BY DEF IInv, Typed
<1>3. pkts[p] = Packets(slice, NClients, NClients)
  <2>1. Headers(phase[p], step[p]) = NClients /\ Contents(phase[p], step[p]) = NClients
    BY <1>1 DEF Headers, Contents
  <2> QED
    BY <1>1, <2>1 DEF IInv, Packed, PackedAt
<1>4. /\ ~ Refused(pkts[p]) /\ ~ Aborted(pkts[p])
      /\ size[p] = TotalSize(pkts[p]) /\ graph[p] = Unpacked(pkts[p])
  BY <1>1 DEF IInv, Merged, MergedAt
<1>5. size[p] = Whole
  BY <1>2, <1>3, <1>4, AllPackets
<1>6. nodes[p] = Upto(NodesOf, NClients)
  BY <1>1, Ids DEF IInv, Counted
<1> QED
  BY <1>2, <1>3, <1>4, <1>5, <1>6, FitTogether

------------------------------------------------------------------------------
(* A server goes on: what it leaves alone stays as it should be *)

LEMMA CountedMove ==
  ASSUME IInv, NEW p \in Server, Alone(p), UNCHANGED slice,
         \A q \in Server : q # p => nodes'[q] = nodes[q],
         phase'[p] # "adrift" => nodes'[p] = Upto(NodesOf, IF phase'[p] = "nodes" THEN step'[p] ELSE NClients),
         p # D => size'[D] = size[D],
         p = D => size'[D] = Upto(SizesOf, IF phase'[D] = "nodes" THEN 0
                                           ELSE IF phase'[D] = "size" THEN step'[D] ELSE NClients)
  PROVE  Counted'
<1> USE Ids, SameSlices
<1>1. \A q \in Server : q # p => phase'[q] = phase[q] /\ step'[q] = step[q]
  BY DEF Alone
<1>2. \A q \in Server : phase'[q] # "adrift" =>
        nodes'[q] = Upto(NodesOf, IF phase'[q] = "nodes" THEN step'[q] ELSE NClients)
  <2> TAKE q \in Server
  <2>1. CASE q = p
    BY <2>1
  <2>2. CASE q # p
    BY <1>1, <2>2 DEF IInv, Counted
  <2> QED
    BY <2>1, <2>2
<1>3. size'[D] = Upto(SizesOf, IF phase'[D] = "nodes" THEN 0
                               ELSE IF phase'[D] = "size" THEN step'[D] ELSE NClients)
  <2>1. CASE p = D
    BY <2>1
  <2>2. CASE p # D
    BY <1>1, <2>2 DEF IInv, Counted
  <2> QED
    BY <2>1, <2>2
<1> QED
  BY <1>2, <1>3 DEF Counted

LEMMA PackedMove ==
  ASSUME IInv, NEW p \in Server, Alone(p), UNCHANGED slice,
         \A q \in Sharer : q # p => pkts'[q] = pkts[q] /\ startIdx'[q] = startIdx[q] /\ endIdx'[q] = endIdx[q],
         p \in Sharer => PackedAt(slice, phase'[p], step'[p], pkts'[p], startIdx'[p], endIdx'[p])
  PROVE  Packed'
<1> SUFFICES ASSUME NEW q \in Sharer
             PROVE  PackedAt(slice', phase'[q], step'[q], pkts'[q], startIdx'[q], endIdx'[q])
  BY DEF Packed
<1>1. CASE q = p
  BY <1>1
<1>2. CASE q # p
  <2>1. phase'[q] = phase[q] /\ step'[q] = step[q]
    BY <1>2, Ids DEF Alone
  <2>2. PackedAt(slice, phase[q], step[q], pkts[q], startIdx[q], endIdx[q])
    BY DEF IInv, Packed
  <2> QED
    BY <1>2, <2>1, <2>2
<1> QED
  BY <1>1, <1>2

LEMMA MergedMove ==
  ASSUME IInv, NEW p \in Server, Alone(p),
         \A q \in Sharer : q # p => pkts'[q] = pkts[q] /\ size'[q] = size[q] /\ graph'[q] = graph[q],
         p \in Sharer => MergedAt(phase'[p], pkts'[p], size'[p], graph'[p])
  PROVE  Merged'
<1> SUFFICES ASSUME NEW q \in Sharer
             PROVE  MergedAt(phase'[q], pkts'[q], size'[q], graph'[q])
  BY DEF Merged
<1>1. CASE q = p
  BY <1>1
<1>2. CASE q # p
  <2>1. phase'[q] = phase[q]
    BY <1>2, Ids DEF Alone
  <2>2. MergedAt(phase[q], pkts[q], size[q], graph[q])
    BY DEF IInv, Merged
  <2> QED
    BY <1>2, <2>1, <2>2
<1> QED
  BY <1>1, <1>2

LEMMA ReturnedMove ==
  ASSUME IInv, NEW p \in Server, Alone(p), UNCHANGED slice, UNCHANGED outbox, UNCHANGED shares,
         p \in Sharer => \A d \in Client : SentBack(phase'[p], step'[p], d) = SentBack(phase[p], step[p], d)
  PROVE  Returned'
<1> SUFFICES ASSUME NEW q \in Sharer, NEW d \in Client
             PROVE  Handed(slice'[d], d, SentBack(phase'[q], step'[q], d), Got(q, phase'[ClientId(d)]),
                           outbox'[q][d], shares'[d][q])
  BY DEF Returned
<1>1. phase'[ClientId(d)] = phase[ClientId(d)]
  BY Ids DEF Alone
<1>2. SentBack(phase'[q], step'[q], d) = SentBack(phase[q], step[q], d)
  <2>1. CASE q = p
    BY <2>1
  <2>2. CASE q # p
    <3>1. phase'[q] = phase[q] /\ step'[q] = step[q]
      BY <2>2, Ids DEF Alone
    <3> QED
      BY <3>1
  <2> QED
    BY <2>1, <2>2
<1>3. Handed(slice[d], d, SentBack(phase[q], step[q], d), Got(q, phase[ClientId(d)]),
             outbox[q][d], shares[d][q])
  BY DEF IInv, Returned
<1> QED
  BY <1>1, <1>2, <1>3

LEMMA RecvNodesInv ==
  ASSUME IInv, NEW p \in Server, RecvNodes(p)
  PROVE  IInv'
<1> DEFINE c == step[p]
           then == IF p = D THEN "size" ELSE "header"
<1> USE Ids
<1>1. /\ phase[p] = "nodes" /\ Take(p, 1) /\ Visit(p, then)
      /\ nodes' = [nodes EXCEPT ![p] = nodes[p] + Taken(p, 1)]
      /\ UNCHANGED <<slice, size, pkts, graph, startIdx, endIdx, outbox, shares, entered, left>>
  BY DEF RecvNodes
<1>2. slice \in [Client -> SliceType] /\ nodes \in [Server -> Nat] /\ Typed
  BY DEF IInv, Typed
<1>3. p \in Process /\ c \in Client /\ c \in Nat /\ phase[p] \in Reading
  BY <1>1, ServerAt DEF Reading
<1>4. then \in ServerPhases
  BY DEF ServerPhases
<1>5. /\ Alone(p)
      /\ \/ c < NClients - 1 /\ step'[p] = c + 1 /\ phase'[p] = "nodes"
         \/ c = NClients - 1 /\ step'[p] = 0 /\ phase'[p] = then
  BY <1>1, <1>4, Visited
<1>6. step'[p] \in Client /\ phase'[p] \in {"nodes", "size", "header"}
  BY <1>3, <1>5
<1>7. Taken(p, 1) = slice[c].nodes
  <2>1. Messages("nodes", c, c) = 0
    BY <1>3 DEF Messages
  <2>2. 0 = TakenFrom(slice[c], p, phase[p], c, c)
    BY <1>1, <2>1 DEF TakenFrom, Words
  <2>3. \A j \in 1 .. 1 : Taken(p, j) = WordAt(slice[c], c, p, 0 + j)
    BY <1>1, <1>3, <2>2, ReadWords DEF Obtains
  <2> QED
    BY <2>3 DEF WordAt
<1>8. ASSUME NEW d \in Client
      PROVE  TakenFrom(slice[d], p, phase'[p], step'[p], d)
               = TakenFrom(slice[d], p, phase[p], step[p], d) + IF d = step[p] THEN 1 ELSE 0
  <2>1. d \in Nat /\ d < NClients
    OBVIOUS
  <2>2. Messages("nodes", c, d) = IF d < c THEN 1 ELSE 0
    BY DEF Messages
  <2>3. Messages(phase'[p], step'[p], d) = IF d < c \/ d = c THEN 1 ELSE 0
    <3>1. CASE c < NClients - 1 /\ step'[p] = c + 1 /\ phase'[p] = "nodes"
      BY <1>3, <2>1, <3>1 DEF Messages
    <3>2. CASE c = NClients - 1 /\ step'[p] = 0 /\ phase'[p] = then
      BY <1>3, <2>1, <3>2 DEF Messages
    <3> QED
      BY <1>5, <3>1, <3>2
  <2>4. Words(slice[d], p, 0) = 0 /\ Words(slice[d], p, 1) = 1
    BY DEF Words
  <2> QED
    BY <1>1, <1>3, <2>1, <2>2, <2>3, <2>4 DEF TakenFrom
<1>9. Streams' /\ Grid(inbox', Server, Client)
  BY <1>1, <1>3, <1>5, <1>8, ReadKeeps
<1>10. nodes'[p] = Upto(NodesOf, c + 1) /\ nodes' \in [Server -> Nat]
      /\ \A q \in Server : q # p => nodes'[q] = nodes[q]
  <2>1. nodes[p] = Upto(NodesOf, c)
    BY <1>1 DEF IInv, Counted
  <2>2. Upto(NodesOf, c + 1) = Upto(NodesOf, c) + slice[c].nodes
    BY <1>2, <1>3, NextSum
  <2>3. slice[c].nodes \in Nat
    BY <1>2, <1>3, SliceNat
  <2> HIDE DEF c
  <2> QED
    BY <1>1, <1>2, <1>7, <2>1, <2>2, <2>3
<1>11. Counted'
  <2>1. nodes'[p] = Upto(NodesOf, IF phase'[p] = "nodes" THEN step'[p] ELSE NClients)
    BY <1>3, <1>5, <1>10
  <2>2. p = D => size'[D] = Upto(SizesOf, IF phase'[D] = "nodes" THEN 0
                                 ELSE IF phase'[D] = "size" THEN step'[D] ELSE NClients)
    <3> SUFFICES ASSUME p = D
                 PROVE  size'[D] = Upto(SizesOf, IF phase'[D] = "nodes" THEN 0
                                 ELSE IF phase'[D] = "size" THEN step'[D] ELSE NClients)
      OBVIOUS
    <3>1. size'[D] = Upto(SizesOf, 0)
      BY <1>1 DEF IInv, Counted
    <3> QED
      BY <1>5, <3>1
  <2> QED
    BY <1>1, <1>5, <1>10, <2>1, <2>2, CountedMove
<1>12. Packed'
  <2> SUFFICES ASSUME p \in Sharer
               PROVE  PackedAt(slice, phase'[p], step'[p], pkts'[p], startIdx'[p], endIdx'[p])
    BY <1>1, <1>5, PackedMove
  <2>1. PackedAt(slice, "nodes", c, pkts[p], startIdx[p], endIdx[p])
    BY <1>1 DEF IInv, Packed
  <2>2. Headers(phase'[p], step'[p]) = 0 /\ Contents(phase'[p], step'[p]) = 0
    BY <1>5 DEF Headers, Contents
  <2>3. Headers("nodes", c) = 0 /\ Contents("nodes", c) = 0
    BY DEF Headers, Contents
  <2> QED
    BY <1>1, <2>1, <2>2, <2>3 DEF PackedAt
<1>13. Merged'
  <2>1. MergedAt(phase'[p], pkts'[p], size'[p], graph'[p])
    BY <1>6 DEF MergedAt
  <2> QED
    BY <1>1, <1>5, <2>1, MergedMove
<1>14. Returned'
  <2>1. \A d \in Client : SentBack(phase'[p], step'[p], d) = SentBack(phase[p], step[p], d)
    BY <1>1, <1>6 DEF SentBack
  <2> QED
    BY <1>1, <1>5, <2>1, ReturnedMove
<1>15. Places'
  <2>1. phase'[p] \in ServerPhases /\ (p = D => phase'[p] # "header") /\ (p # D => phase'[p] # "size")
    BY <1>5, <1>4 DEF ServerPhases
  <2> QED
    BY <1>5, <1>6, <2>1, PlacesMove
<1>16. Typed'
  BY <1>1, <1>2, <1>5, <1>9, <1>10 DEF Typed, Alone, Grid
<1>17. Barred'
  BY <1>1, BarredKeeps
<1> QED
  BY <1>9, <1>11, <1>12, <1>13, <1>14, <1>15, <1>16, <1>17 DEF IInv

LEMMA RecvSizeInv ==
  ASSUME IInv, RecvSize
  PROVE  IInv'
<1> DEFINE c == step[D]
<1> USE Ids
<1>1. /\ phase[D] = "size" /\ Take(D, 1) /\ Visit(D, "sync")
      /\ size' = [size EXCEPT ![D] = size[D] + Taken(D, 1)]
      /\ UNCHANGED <<slice, nodes, pkts, graph, startIdx, endIdx, outbox, shares, entered, left>>
  BY DEF RecvSize, AddSize
<1>2. slice \in [Client -> SliceType] /\ size \in [Server -> Nat] /\ Typed
  BY DEF IInv, Typed
<1>3. D \in Server /\ D \notin Sharer
  OBVIOUS
<1>4. D \in Process /\ c \in Client /\ c \in Nat /\ phase[D] \in Reading
  BY <1>1, <1>3, ServerAt DEF Reading
<1>5. /\ Alone(D)
      /\ \/ c < NClients - 1 /\ step'[D] = c + 1 /\ phase'[D] = "size"
         \/ c = NClients - 1 /\ step'[D] = 0 /\ phase'[D] = "sync"
  <2>1. "sync" \in ServerPhases
    BY DEF ServerPhases
  <2> QED
    BY <1>1, <1>3, <2>1, Visited
<1>6. step'[D] \in Client /\ phase'[D] \in {"size", "sync"} /\ (phase'[D] = "sync" => step'[D] = 0)
  BY <1>4, <1>5
<1>7. Taken(D, 1) = slice[c].size
  <2>1. Messages("size", c, c) = 1
    BY <1>4 DEF Messages
  <2>2. 1 = TakenFrom(slice[c], D, phase[D], c, c)
    BY <1>1, <2>1 DEF TakenFrom, Words
  <2>3. \A j \in 1 .. 1 : Taken(D, j) = WordAt(slice[c], c, D, 1 + j)
    BY <1>1, <1>3, <1>4, <2>2, ReadWords DEF Obtains
  <2> QED
    BY <2>3 DEF WordAt
<1>8. phase'[D] \in Reading =>
        \A d \in Client : TakenFrom(slice[d], D, phase'[D], step'[D], d)
          = TakenFrom(slice[d], D, phase[D], step[D], d) + IF d = step[D] THEN 1 ELSE 0
  <2> SUFFICES ASSUME phase'[D] \in Reading, NEW d \in Client
               PROVE  TakenFrom(slice[d], D, phase'[D], step'[D], d)
                        = TakenFrom(slice[d], D, phase[D], step[D], d) + IF d = step[D] THEN 1 ELSE 0
    OBVIOUS
  <2>1. d \in Nat /\ step'[D] = c + 1 /\ phase'[D] = "size"
    BY <1>5 DEF Reading
  <2>2. Messages("size", c, d) = IF d < c THEN 2 ELSE 1
    BY DEF Messages
  <2>3. Messages("size", c + 1, d) = IF d < c \/ d = c THEN 2 ELSE 1
    BY <1>4, <2>1 DEF Messages
  <2>4. Words(slice[d], D, 1) = 1 /\ Words(slice[d], D, 2) = 2
    BY DEF Words
  <2> QED
    BY <1>1, <1>4, <2>1, <2>2, <2>3, <2>4 DEF TakenFrom
<1>9. Streams' /\ Grid(inbox', Server, Client)
  BY <1>1, <1>3, <1>4, <1>5, <1>8, ReadKeeps
<1>10. size'[D] = Upto(SizesOf, c + 1) /\ size' \in [Server -> Nat]
       /\ \A q \in Server : q # D => size'[q] = size[q]
  <2>1. size[D] = Upto(SizesOf, c)
    BY <1>1 DEF IInv, Counted
  <2>2. Upto(SizesOf, c + 1) = Upto(SizesOf, c) + slice[c].size
    BY <1>2, <1>4, NextSum
  <2>3. slice[c].size \in Nat
    BY <1>2, <1>4, SliceNat
  <2> HIDE DEF c
  <2> QED
    BY <1>1, <1>2, <1>3, <1>7, <2>1, <2>2, <2>3
<1>11. Counted'
  <2>1. nodes'[D] = Upto(NodesOf, IF phase'[D] = "nodes" THEN step'[D] ELSE NClients)
    <3>1. nodes[D] = Upto(NodesOf, NClients)
      BY <1>1 DEF IInv, Counted
    <3> QED
      BY <1>1, <1>6, <3>1
  <2>2. size'[D] = Upto(SizesOf, IF phase'[D] = "nodes" THEN 0
                                 ELSE IF phase'[D] = "size" THEN step'[D] ELSE NClients)
    BY <1>4, <1>5, <1>10
  <2> QED
    BY <1>1, <1>3, <1>5, <2>1, <2>2, CountedMove
<1>12. Packed'
  BY <1>1, <1>3, <1>5, PackedMove
<1>13. Merged'
  BY <1>1, <1>3, <1>5, <1>10, MergedMove
<1>14. Returned'
  BY <1>1, <1>3, <1>5, ReturnedMove
<1>15. Places'
  <2>1. phase'[D] \in ServerPhases /\ phase'[D] \notin {"header", "entries", "merge", "adrift"}
    BY <1>6 DEF ServerPhases
  <2> QED
    BY <1>3, <1>5, <1>6, <2>1, PlacesMove
<1>16. Typed'
  BY <1>1, <1>2, <1>5, <1>9, <1>10 DEF Typed, Alone, Grid
<1>17. Barred'
  BY <1>1, BarredKeeps
<1> QED
  BY <1>9, <1>11, <1>12, <1>13, <1>14, <1>15, <1>16, <1>17 DEF IInv

(* Start and end of a slice that does not end before it starts have its size
   between them, although the end is kept in one word. *)
LEMMA WrapOnce ==
  ASSUME NEW s \in SliceType, s.start <= (s.start + s.size) % Word
  PROVE  ((s.start + s.size) % Word) - s.start = s.size
<1>1. /\ s.start \in Nat /\ s.size \in Nat /\ s.start < Word /\ s.size < Word /\ Word \in Nat
  BY SliceNat
<1> DEFINE a == s.start
           n == s.size
           w == Word
<1>2. a \in Nat /\ n \in Nat /\ w \in Nat /\ a < w /\ n < w /\ a <= (a + n) % w
  BY <1>1
<1> HIDE DEF a, n, w
<1>3. CASE a + n < w
  <2>1. w \in Nat \ {0} /\ 0 \in Nat /\ a + n \in 0 .. w - 1 /\ a + n = 0 * w + (a + n)
    BY <1>2, <1>3
  <2>2. (a + n) % w = a + n
    BY <2>1, Division
  <2> QED
    BY <1>2, <2>2 DEF a, n, w
<1>4. CASE ~ (a + n < w)
  <2> DEFINE one == 1
             r == a + n - w
             sum == a + n
  <2>1. w \in Nat \ {0} /\ one \in Nat /\ r \in 0 .. w - 1 /\ sum = one * w + r
    BY <1>2, <1>4
  <2> HIDE DEF one, r, sum
  <2>2. sum % w = r
    BY <2>1, Division
  <2>3. (a + n) % w = a + n - w
    BY <2>2 DEF r, sum
  <2> QED
    BY <1>2, <2>3
<1> QED
  BY <1>3, <1>4

(* The phases in which a sharer reads a packet come after those of the nodes. *)
LEMMA HeaderWords ==
  ASSUME IInv, NEW p \in Sharer, phase[p] = "header", Take(p, 2), NEW c, c = step[p]
  PROVE  /\ c \in Client /\ slice[c] \in SliceType
         /\ TakenFrom(slice[c], p, phase[p], c, c) = 1
         /\ Taken(p, 1) = slice[c].start
         /\ Taken(p, 2) = (slice[c].start + slice[c].size) % Word
<1> USE Ids
<1>1. p \in Server /\ p # D
  OBVIOUS
<1>2. c \in Client /\ c \in Nat /\ phase[p] \in Reading
  BY <1>1, ServerAt DEF Reading
<1>3. slice[c] \in SliceType
  BY <1>2 DEF IInv, Typed
<1>4. 1 = TakenFrom(slice[c], p, phase[p], c, c)
  <2>1. Messages("header", c, c) = 1
    BY <1>2 DEF Messages
  <2> QED
    BY <2>1 DEF TakenFrom, Words
<1>5. \A j \in 1 .. 2 : Taken(p, j) = WordAt(slice[c], c, p, 1 + j)
  BY <1>1, <1>2, <1>4, ReadWords DEF Obtains
<1>6. WordAt(slice[c], c, p, 1 + 1) = slice[c].start
      /\ WordAt(slice[c], c, p, 1 + 2) = (slice[c].start + slice[c].size) % Word
  BY <1>1 DEF WordAt
<1> QED
  BY <1>2, <1>3, <1>4, <1>5, <1>6

LEMMA RecvHeaderInv ==
  ASSUME IInv, NEW p \in Sharer, RecvHeader(p)
  PROVE  IInv'
<1> DEFINE c == step[p]
           s == slice[c]
           e == [start |-> s.start, size |-> s.size, entries |-> <<>>]
<1> USE Ids
<1>1. /\ phase[p] = "header" /\ Take(p, 2) /\ Taken(p, 1) <= Taken(p, 2)
      /\ pkts' = [pkts EXCEPT ![p] = Append(pkts[p], [start |-> Taken(p, 1), size |-> Taken(p, 2) - Taken(p, 1),
                                                      entries |-> <<>>])]
      /\ phase' = [phase EXCEPT ![p] = "entries"]
      /\ UNCHANGED <<slice, step, nodes, size, graph, startIdx, endIdx, outbox, shares, entered, left>>
  BY DEF RecvHeader
<1>2. p \in Server /\ p # D /\ slice \in [Client -> SliceType] /\ Typed
  BY DEF IInv, Typed
<1>3. c \in Client /\ c \in Nat /\ phase[p] \in Reading
  BY <1>1, <1>2, ServerAt DEF Reading
<1>4. Alone(p) /\ phase'[p] = "entries" /\ step'[p] = c
  <2>1. "entries" \in ServerPhases /\ Halt(p, "entries")
    BY <1>1 DEF ServerPhases, Halt
  <2> QED
    BY <1>1, <1>2, <2>1, Halted
<1>5. Taken(p, 1) = s.start /\ Taken(p, 2) - Taken(p, 1) = s.size
  <2>1. s \in SliceType /\ Taken(p, 1) = s.start /\ Taken(p, 2) = (s.start + s.size) % Word
    BY <1>1, HeaderWords
  <2> HIDE DEF s
  <2> QED
    BY <1>1, <2>1, WrapOnce
<1>6. ASSUME NEW d \in Client
      PROVE  TakenFrom(slice[d], p, phase'[p], step'[p], d)
               = TakenFrom(slice[d], p, phase[p], step[p], d) + IF d = step[p] THEN 2 ELSE 0
  <2>1. d \in Nat
    OBVIOUS
  <2>2. CASE d = c
    <3>1. Messages("header", c, c) = 1 /\ Messages("entries", c, c) = 2
      BY <1>3 DEF Messages
    <3>2. Words(slice[d], p, 1) = 1 /\ Words(slice[d], p, 2) = 3
      BY <1>2 DEF Words
    <3> QED
      BY <1>1, <1>4, <2>2, <3>1, <3>2 DEF TakenFrom
  <2>3. CASE d # c
    <3>1. Messages("header", c, d) = Messages("entries", c, d) /\ Messages("header", c, d) \in Int
      BY <2>3 DEF Messages
    <3>2. Words(slice[d], p, Messages("header", c, d)) \in Nat
      BY <1>2, <3>1, WordsNat
    <3> QED
      BY <1>1, <1>4, <2>3, <3>1, <3>2 DEF TakenFrom
  <2> QED
    BY <2>2, <2>3
<1>7. Streams' /\ Grid(inbox', Server, Client)
  BY <1>1, <1>2, <1>3, <1>4, <1>6, ReadKeeps
<1>8. pkts'[p] = Append(pkts[p], e) /\ DOMAIN pkts' = Sharer
      /\ \A q \in Sharer : q # p => pkts'[q] = pkts[q]
  <2>1. DOMAIN pkts = Sharer
    BY <1>2 DEF Typed
  <2> QED
    BY <1>1, <1>5, <2>1
<1>9. Counted'
  <2>1. nodes'[p] = Upto(NodesOf, NClients)
    BY <1>1, <1>2 DEF IInv, Counted
  <2> QED
    BY <1>1, <1>2, <1>4, <2>1, CountedMove
<1>10. Packed'
  <2> SUFFICES PackedAt(slice, phase'[p], step'[p], pkts'[p], startIdx'[p], endIdx'[p])
    BY <1>1, <1>2, <1>4, <1>8, PackedMove
  <2>1. PackedAt(slice, "header", c, pkts[p], startIdx[p], endIdx[p])
    BY <1>1 DEF IInv, Packed
  <2>2. /\ Headers("header", c) = c /\ Contents("header", c) = c
        /\ Headers("entries", c) = c + 1 /\ Contents("entries", c) = c
    BY DEF Headers, Contents
  <2>3. pkts[p] = Packets(slice, c, c)
    BY <2>1, <2>2 DEF PackedAt
  <2> DEFINE ps == pkts[p]
             new == Append(ps, e)
  <2>4. ps = [k \in 1 .. c |-> ps[k]]
        /\ \A k \in 1 .. c : ps[k] = [start |-> slice[k - 1].start, size |-> slice[k - 1].size,
                                      entries |-> Serialize(k - 1, slice[k - 1].size)]
    BY <1>3, <2>3 DEF Packets
  <2> HIDE DEF ps, c, e
  <2>5. new = [k \in 1 .. c + 1 |-> IF k <= c THEN ps[k] ELSE e]
    BY <1>3, <2>4, AppendBehind
  <2>6. ASSUME NEW k \in 1 .. c + 1
        PROVE  (IF k <= c THEN ps[k] ELSE e)
                 = [start |-> slice[k - 1].start, size |-> slice[k - 1].size,
                    entries |-> IF k <= c THEN Serialize(k - 1, slice[k - 1].size) ELSE <<>>]
    <3>1. CASE k <= c
      BY <1>3, <2>4, <3>1
    <3>2. CASE ~ (k <= c)
      <4>1. k - 1 = c
        BY <1>3, <3>2
      <4> QED
        BY <3>2, <4>1 DEF e
    <3> QED
      BY <3>1, <3>2
  <2>7. new = Packets(slice, c + 1, c)
    BY <2>5, <2>6 DEF Packets
  <2>8. Len(new) <= NClients
    <3>1. c + 1 \in Nat /\ c + 1 <= NClients
      BY <1>3
    <3>2. new = [k \in 1 .. c + 1 |-> new[k]]
      BY <2>5
    <3> HIDE DEF new
    <3> QED
      BY <3>1, <3>2, PlacesSeq
  <2>9. pkts'[p] = new
    BY <1>8 DEF ps
  <2> HIDE DEF new
  <2> QED
    BY <1>1, <1>4, <2>1, <2>2, <2>7, <2>8, <2>9 DEF PackedAt
<1>11. Merged'
  <2>1. MergedAt(phase'[p], pkts'[p], size'[p], graph'[p])
    BY <1>4 DEF MergedAt
  <2> QED
    BY <1>1, <1>2, <1>4, <1>8, <2>1, MergedMove
<1>12. Returned'
  <2>1. \A d \in Client : SentBack(phase'[p], step'[p], d) = SentBack(phase[p], step[p], d)
    BY <1>1, <1>4 DEF SentBack
  <2> QED
    BY <1>1, <1>2, <1>4, <2>1, ReturnedMove
<1>13. Places'
  <2>1. "entries" \in ServerPhases
    BY DEF ServerPhases
  <2> QED
    BY <1>2, <1>3, <1>4, <2>1, PlacesMove
<1>14. Typed'
  BY <1>1, <1>2, <1>4, <1>7, <1>8 DEF Typed, Alone, Grid
<1>15. Barred'
  BY <1>1, BarredKeeps
<1> QED
  BY <1>7, <1>9, <1>10, <1>11, <1>12, <1>13, <1>14, <1>15 DEF IInv

LEMMA RecvInvalidInv ==
  ASSUME IInv, NEW p \in Sharer, RecvInvalid(p)
  PROVE  IInv'
<1> DEFINE c == step[p]
<1> USE Ids
<1>1. /\ phase[p] = "header" /\ Take(p, 2)
      /\ nodes' = [nodes EXCEPT ![p] = 0]
      /\ phase' = [phase EXCEPT ![p] = "adrift"]
      /\ UNCHANGED <<slice, step, size, pkts, graph, startIdx, endIdx, outbox, shares, entered, left>>
  BY DEF RecvInvalid
<1>2. p \in Server /\ p # D /\ slice \in [Client -> SliceType] /\ Typed
  BY DEF IInv, Typed
<1>3. c \in Client /\ phase[p] \in Reading
  BY <1>1, <1>2, ServerAt DEF Reading
<1>4. Alone(p) /\ phase'[p] = "adrift" /\ step'[p] = c
  <2>1. "adrift" \in ServerPhases /\ Halt(p, "adrift")
    BY <1>1 DEF ServerPhases, Ended, Halt
  <2> QED
    BY <1>1, <1>2, <2>1, Halted
<1>5. Streams' /\ Grid(inbox', Server, Client)
  <2>1. phase'[p] \notin Reading
    BY <1>4 DEF Reading
  <2> QED
    BY <1>1, <1>2, <1>3, <1>4, <2>1, ReadKeeps
<1>6. Counted'
  <2>1. nodes \in [Server -> Nat]
    BY <1>2 DEF Typed
  <2>2. \A q \in Server : q # p => nodes'[q] = nodes[q]
    BY <1>1, <2>1
  <2> QED
    BY <1>1, <1>2, <1>4, <2>2, CountedMove
<1>7. Packed'
  <2>1. Len(pkts[p]) <= NClients
    BY DEF IInv, Packed, PackedAt
  <2>2. PackedAt(slice, phase'[p], step'[p], pkts'[p], startIdx'[p], endIdx'[p])
    BY <1>1, <1>4, <2>1 DEF PackedAt
  <2> QED
    BY <1>1, <1>2, <1>4, <2>2, PackedMove
<1>8. Merged'
  <2>1. MergedAt(phase'[p], pkts'[p], size'[p], graph'[p])
    BY <1>4 DEF MergedAt
  <2> QED
    BY <1>1, <1>2, <1>4, <2>1, MergedMove
<1>9. Returned'
  <2>1. \A d \in Client : SentBack(phase'[p], step'[p], d) = SentBack(phase[p], step[p], d)
    BY <1>1, <1>4 DEF SentBack
  <2> QED
    BY <1>1, <1>2, <1>4, <2>1, ReturnedMove
<1>10. Places'
  <2>1. "adrift" \in ServerPhases
    BY DEF ServerPhases, Ended
  <2> QED
    BY <1>2, <1>3, <1>4, <2>1, PlacesMove
<1>11. Typed'
  BY <1>1, <1>2, <1>4, <1>5 DEF Typed, Alone, Grid
<1>12. Barred'
  BY <1>1, BarredKeeps
<1> QED
  BY <1>5, <1>6, <1>7, <1>8, <1>9, <1>10, <1>11, <1>12 DEF IInv

LEMMA RecvEntriesInv ==
  ASSUME IInv, NEW p \in Sharer, RecvEntries(p)
  PROVE  IInv'
<1> DEFINE c == step[p]
           s == slice[c]
           ps == pkts[p]
           pkt == Last(ps)
           n == Length(pkt.size)
           w == SubSeq(inbox[p][c], 1, n)
<1> USE Ids
<1>1. /\ phase[p] = "entries" /\ Take(p, n)
      /\ UNCHANGED <<slice, nodes, size, graph, outbox, shares, entered, left>>
      /\ \/ /\ c < NParties
            /\ pkts' = [pkts EXCEPT ![p][Len(ps)].entries = w]
            /\ startIdx' = [startIdx EXCEPT ![p][c] = pkt.start]
            /\ endIdx' = [endIdx EXCEPT ![p][c] = pkt.start + pkt.size]
            /\ \/ c < NClients - 1 /\ step' = [step EXCEPT ![p] = c + 1] /\ phase' = [phase EXCEPT ![p] = "header"]
               \/ ~ (c < NClients - 1) /\ step' = [step EXCEPT ![p] = 0] /\ phase' = [phase EXCEPT ![p] = "merge"]
         \/ Halt(p, "undefined") /\ UNCHANGED <<pkts, startIdx, endIdx, step>>
  BY DEF RecvEntries, StartOf
<1>2. p \in Server /\ p # D /\ slice \in [Client -> SliceType] /\ Typed
  BY DEF IInv, Typed
<1>3. c \in Client /\ c \in Nat /\ phase[p] \in Reading /\ s \in SliceType /\ p \in Process
  BY <1>1, <1>2, ServerAt DEF Reading
<1>4. /\ PackedAt(slice, "entries", c, ps, startIdx[p], endIdx[p])
      /\ Headers("entries", c) = c + 1 /\ Contents("entries", c) = c
  BY <1>1 DEF IInv, Packed, Headers, Contents
<1>5. ps = Packets(slice, c + 1, c) /\ Len(ps) = c + 1
  <2>1. ps = Packets(slice, c + 1, c)
    BY <1>4 DEF PackedAt
  <2> HIDE DEF ps, c
  <2>2. ps = [k \in 1 .. c + 1 |-> ps[k]] /\ c + 1 \in Nat
    BY <1>3, <2>1 DEF Packets
  <2> QED
    BY <2>1, <2>2, PlacesSeq
<1>6. pkt.start = s.start /\ pkt.size = s.size
  <2>1. pkt = ps[c + 1]
    BY <1>5 DEF Last
  <2>2. c + 1 \in 1 .. c + 1 /\ (c + 1) - 1 = c
    BY <1>3
  <2> HIDE DEF ps, c, pkt
  <2>3. ps[c + 1].start = slice[(c + 1) - 1].start /\ ps[c + 1].size = slice[(c + 1) - 1].size
    BY <1>5, <2>2 DEF Packets
  <2> QED
    BY <2>1, <2>2, <2>3
<1>7. n \in Nat /\ n = Length(s.size)
  BY <1>3, <1>6, SliceNat, LengthNat
<1>8. w = Serialize(c, s.size)
  <2>1. 3 = TakenFrom(slice[c], p, phase[p], c, c)
    <3>1. Messages("entries", c, c) = 2
      BY <1>3 DEF Messages
    <3> QED
      BY <1>1, <1>2, <3>1 DEF TakenFrom, Words
  <2>2. c = step[p] /\ Take(p, n)
    BY <1>1
  <2> DEFINE t == TakenFrom(slice[c], p, phase[p], c, c)
  <2>6. t = TakenFrom(slice[c], p, phase[p], c, c) /\ phase[p] \in Reading /\ p \in Server /\ n \in Nat
    BY <1>2, <1>3, <1>7
  <2> HIDE DEF c, n, s, t
  <2>3. SubSeq(inbox[p][c], 1, n) = Part(slice[c], c, p, t, n)
    <3>1. Obtains(p, c, t, n)
      BY <2>2, <2>6, ReadWords
    <3> QED
      BY <3>1 DEF Obtains
  <2>4. \A j \in 1 .. n : WordAt(slice[c], c, p, 3 + j) = Serialize(c, slice[c].size)[j]
    <3> SUFFICES ASSUME NEW j \in 1 .. n
                 PROVE  WordAt(slice[c], c, p, 3 + j) = Serialize(c, slice[c].size)[j]
      OBVIOUS
    <3>1. j \in Nat /\ 3 + j # 1 /\ 3 + j # 2 /\ 3 + j # 3 /\ (3 + j) - 3 = j
      BY <1>7
    <3> QED
      BY <1>2, <3>1 DEF WordAt
  <2>5. Serialize(c, slice[c].size) = [j \in 1 .. n |-> Serialize(c, slice[c].size)[j]]
    BY <1>7 DEF Serialize, s
  <2> QED
    BY <2>1, <2>3, <2>4, <2>5 DEF Part, s, t
<1>9. Alone(p) /\ step'[p] \in Client
      /\ \/ /\ c < NParties
            /\ \/ c < NClients - 1 /\ step'[p] = c + 1 /\ phase'[p] = "header"
               \/ c = NClients - 1 /\ step'[p] = 0 /\ phase'[p] = "merge"
            /\ pkts' = [pkts EXCEPT ![p][c + 1].entries = w]
            /\ startIdx' = [startIdx EXCEPT ![p][c] = s.start]
            /\ endIdx' = [endIdx EXCEPT ![p][c] = s.start + s.size]
         \/ phase'[p] = "undefined" /\ UNCHANGED <<pkts, startIdx, endIdx, step>>
  <2>1. phase \in [Process -> ClientPhases \cup ServerPhases] /\ step \in [Process -> Nat]
    BY <1>2 DEF Typed
  <2>2. {"header", "merge", "undefined"} \subseteq ServerPhases
    BY DEF ServerPhases, Ended
  <2> HIDE DEF c, n, s, ps, w, pkt
  <2>3. CASE /\ c < NParties
             /\ pkts' = [pkts EXCEPT ![p][Len(ps)].entries = w]
             /\ startIdx' = [startIdx EXCEPT ![p][c] = pkt.start]
             /\ endIdx' = [endIdx EXCEPT ![p][c] = pkt.start + pkt.size]
             /\ c < NClients - 1 /\ step' = [step EXCEPT ![p] = c + 1] /\ phase' = [phase EXCEPT ![p] = "header"]
    BY <1>3, <1>5, <1>6, <2>1, <2>2, <2>3 DEF Alone
  <2>4. CASE /\ c < NParties
             /\ pkts' = [pkts EXCEPT ![p][Len(ps)].entries = w]
             /\ startIdx' = [startIdx EXCEPT ![p][c] = pkt.start]
             /\ endIdx' = [endIdx EXCEPT ![p][c] = pkt.start + pkt.size]
             /\ ~ (c < NClients - 1) /\ step' = [step EXCEPT ![p] = 0] /\ phase' = [phase EXCEPT ![p] = "merge"]
    <3>1. c = NClients - 1
      BY <1>3, <2>4
    <3> QED
      BY <1>3, <1>5, <1>6, <2>1, <2>2, <2>4, <3>1 DEF Alone
  <2>5. CASE Halt(p, "undefined") /\ UNCHANGED <<pkts, startIdx, endIdx, step>>
    <3>1. Alone(p) /\ phase'[p] = "undefined" /\ step'[p] = step[p]
      BY <1>2, <2>2, <2>5, Halted
    <3> QED
      BY <1>3, <2>5, <3>1 DEF c
  <2> QED
    BY <1>1, <2>3, <2>4, <2>5
<1>10. phase'[p] \in {"header", "merge", "undefined"}
  BY <1>9
<1>11. Streams' /\ Grid(inbox', Server, Client)
  <2> SUFFICES ASSUME phase'[p] \in Reading, NEW d \in Client
               PROVE  TakenFrom(slice[d], p, phase'[p], step'[p], d)
                        = TakenFrom(slice[d], p, phase[p], step[p], d) + IF d = step[p] THEN n ELSE 0
    BY <1>1, <1>2, <1>3, <1>7, <1>9, ReadKeeps
  <2>1. step'[p] = c + 1 /\ phase'[p] = "header"
    BY <1>9 DEF Reading
  <2>2. d \in Nat
    OBVIOUS
  <2>3. CASE d = c
    <3>1. Messages("entries", c, c) = 2 /\ Messages("header", c + 1, c) = 3
      BY <1>3 DEF Messages
    <3>2. Words(s, p, 2) = 3 /\ Words(s, p, 3) = 3 + n
      BY <1>2, <1>7 DEF Words
    <3> QED
      BY <1>1, <2>1, <2>3, <3>1, <3>2 DEF TakenFrom
  <2>4. CASE d # c
    <3>1. Messages("header", c + 1, d) = Messages("entries", c, d) /\ Messages("entries", c, d) \in Int
      BY <1>3, <2>2, <2>4 DEF Messages
    <3>2. Words(slice[d], p, Messages("entries", c, d)) \in Nat
      BY <1>2, <3>1, WordsNat
    <3> QED
      BY <1>1, <2>1, <2>4, <3>1, <3>2 DEF TakenFrom
  <2> QED
    BY <2>3, <2>4
<1>12. /\ DOMAIN pkts' = Sharer /\ Grid(startIdx', Server, Client) /\ Grid(endIdx', Server, 0 .. NParties - 1)
       /\ \A q \in Sharer : q # p => pkts'[q] = pkts[q] /\ startIdx'[q] = startIdx[q] /\ endIdx'[q] = endIdx[q]
  <2>1. /\ DOMAIN pkts = Sharer /\ Grid(startIdx, Server, Client) /\ Grid(endIdx, Server, 0 .. NParties - 1)
    BY <1>2 DEF Typed
  <2> HIDE DEF c, s, w
  <2>2. CASE /\ pkts' = [pkts EXCEPT ![p][c + 1].entries = w]
             /\ startIdx' = [startIdx EXCEPT ![p][c] = s.start]
             /\ endIdx' = [endIdx EXCEPT ![p][c] = s.start + s.size]
    BY <1>2, <2>1, <2>2 DEF Grid
  <2>3. CASE UNCHANGED <<pkts, startIdx, endIdx>>
    BY <2>1, <2>3 DEF Grid
  <2> QED
    BY <1>9, <2>2, <2>3
<1>13. Counted'
  <2>1. nodes'[p] = Upto(NodesOf, NClients)
    BY <1>1, <1>2 DEF IInv, Counted
  <2> QED
    BY <1>1, <1>2, <1>9, <1>10, <2>1, CountedMove
<1>14. Packed'
  <2> SUFFICES PackedAt(slice, phase'[p], step'[p], pkts'[p], startIdx'[p], endIdx'[p])
    BY <1>1, <1>2, <1>9, <1>12, PackedMove
  <2>1. CASE phase'[p] = "undefined" /\ UNCHANGED <<pkts, startIdx, endIdx, step>>
    BY <1>4, <2>1 DEF PackedAt
  <2>2. CASE /\ c < NParties
             /\ \/ c < NClients - 1 /\ step'[p] = c + 1 /\ phase'[p] = "header"
                \/ c = NClients - 1 /\ step'[p] = 0 /\ phase'[p] = "merge"
             /\ pkts' = [pkts EXCEPT ![p][c + 1].entries = w]
             /\ startIdx' = [startIdx EXCEPT ![p][c] = s.start]
             /\ endIdx' = [endIdx EXCEPT ![p][c] = s.start + s.size]
    <3>1. Headers(phase'[p], step'[p]) = c + 1 /\ Contents(phase'[p], step'[p]) = c + 1
      BY <1>3, <2>2 DEF Headers, Contents
    <3>2. c + 1 <= NParties /\ c + 1 <= NClients /\ c + 1 \in Nat
      BY <1>3, <2>2
    <3> DEFINE new == [ps EXCEPT ![c + 1].entries = w]
    <3>3. pkts'[p] = new
      <4>1. DOMAIN pkts = Sharer
        BY <1>2 DEF Typed
      <4> QED
        BY <2>2, <4>1
    <3>4. /\ ps = [k \in 1 .. c + 1 |-> ps[k]]
          /\ \A k \in 1 .. c + 1 :
               ps[k] = [start |-> slice[k - 1].start, size |-> slice[k - 1].size,
                        entries |-> IF k <= c THEN Serialize(k - 1, slice[k - 1].size) ELSE <<>>]
      BY <1>3, <1>5 DEF Packets
    <3> HIDE DEF ps, c, w, s
    <3>5. new = [k \in 1 .. c + 1 |-> IF k = c + 1 THEN [ps[k] EXCEPT !.entries = w] ELSE ps[k]]
      BY <1>3, <3>4
    <3>6. ASSUME NEW k \in 1 .. c + 1
          PROVE  (IF k = c + 1 THEN [ps[k] EXCEPT !.entries = w] ELSE ps[k])
                   = [start |-> slice[k - 1].start, size |-> slice[k - 1].size,
                      entries |-> Serialize(k - 1, slice[k - 1].size)]
      <4>1. CASE k = c + 1
        <5>1. k - 1 = c /\ ~ (k <= c)
          BY <1>3, <4>1
        <5>2. w = Serialize(k - 1, slice[k - 1].size)
          BY <1>8, <5>1 DEF s
        <5> QED
          BY <3>4, <4>1, <5>2
      <4>2. CASE k # c + 1
        <5>1. k <= c
          BY <1>3, <4>2
        <5> QED
          BY <3>4, <4>2, <5>1
      <4> QED
        BY <4>1, <4>2
    <3>7. new = Packets(slice, c + 1, c + 1)
      <4>1. \A k \in 1 .. c + 1 : k <= c + 1
        BY <3>2
      <4> QED
        BY <3>5, <3>6, <4>1 DEF Packets
    <3>8. Len(new) = c + 1
      <4>1. new = [k \in 1 .. c + 1 |-> new[k]]
        BY <3>5
      <4> HIDE DEF new
      <4> QED
        BY <3>2, <4>1, PlacesSeq
    <3>9. ASSUME NEW d \in Client, d < c + 1
          PROVE  startIdx'[p][d] = slice[d].start /\ endIdx'[p][d] = slice[d].start + slice[d].size
      <4>1. /\ DOMAIN startIdx = Server /\ DOMAIN startIdx[p] = Client
            /\ DOMAIN endIdx = Server /\ DOMAIN endIdx[p] = 0 .. NParties - 1
        BY <1>2 DEF Typed, Grid
      <4>2. c \in 0 .. NParties - 1
        BY <1>3, <2>2
      <4>3. CASE d = c
        BY <1>2, <1>3, <2>2, <4>1, <4>2, <4>3 DEF s
      <4>4. CASE d # c
        <5>1. d < c
          BY <1>3, <3>9, <4>4
        <5>2. startIdx[p][d] = slice[d].start /\ endIdx[p][d] = slice[d].start + slice[d].size
          BY <1>4, <5>1 DEF PackedAt
        <5>3. startIdx'[p][d] = startIdx[p][d]
          BY <1>2, <2>2, <4>1, <4>4
        <5>4. endIdx'[p][d] = endIdx[p][d]
          BY <1>2, <2>2, <4>1, <4>4
        <5> QED
          BY <5>2, <5>3, <5>4
      <4> QED
        BY <4>3, <4>4
    <3> HIDE DEF new
    <3> QED
      BY <3>1, <3>2, <3>3, <3>7, <3>8, <3>9 DEF PackedAt
  <2> QED
    BY <1>9, <2>1, <2>2
<1>15. Merged'
  <2>1. MergedAt(phase'[p], pkts'[p], size'[p], graph'[p])
    BY <1>10 DEF MergedAt
  <2> QED
    BY <1>1, <1>2, <1>9, <1>12, <2>1, MergedMove
<1>16. Returned'
  <2>1. \A d \in Client : SentBack(phase'[p], step'[p], d) = SentBack(phase[p], step[p], d)
    BY <1>1, <1>10 DEF SentBack
  <2> QED
    BY <1>1, <1>2, <1>9, <2>1, ReturnedMove
<1>17. Places'
  <2>1. {"header", "merge", "undefined"} \subseteq ServerPhases
    BY DEF ServerPhases, Ended
  <2>2. phase'[p] \in {"merge", "sync"} => step'[p] = 0
    BY <1>9
  <2> QED
    BY <1>2, <1>9, <1>10, <2>1, <2>2, PlacesMove
<1>18. Typed'
  BY <1>1, <1>2, <1>9, <1>11, <1>12 DEF Typed, Alone, Grid
<1>19. Barred'
  BY <1>1, BarredKeeps
<1> QED
  BY <1>11, <1>13, <1>14, <1>15, <1>16, <1>17, <1>18, <1>19 DEF IInv

LEMMA StreamsKeep ==
  ASSUME IInv, UNCHANGED <<slice, inbox>>,
         \A q \in Server : phase'[q] \in Reading => phase'[q] = phase[q] /\ step'[q] = step[q],
         \A c \in Client : /\ phase'[ClientId(c)] = "send" <=> phase[ClientId(c)] = "send"
                           /\ step'[ClientId(c)] = step[ClientId(c)]
  PROVE  Streams'
<1> SUFFICES ASSUME NEW q \in Server, NEW d \in Client, phase'[q] \in Reading
             PROVE  OnTheWay(slice'[d], d, q, TakenFrom(slice'[d], q, phase'[q], step'[q], d),
                      Given(slice'[d], q, phase'[ClientId(d)], step'[ClientId(d)]), inbox'[q][d])
  BY DEF Streams
<1>1. phase'[q] = phase[q] /\ step'[q] = step[q]
  OBVIOUS
<1>2. Given(slice[d], q, phase'[ClientId(d)], step'[ClientId(d)])
        = Given(slice[d], q, phase[ClientId(d)], step[ClientId(d)])
  <2>1. /\ phase'[ClientId(d)] = "send" <=> phase[ClientId(d)] = "send"
        /\ step'[ClientId(d)] = step[ClientId(d)]
    OBVIOUS
  <2>2. CASE phase[ClientId(d)] = "send"
    BY <2>1, <2>2 DEF Given
  <2>3. CASE phase[ClientId(d)] # "send"
    BY <2>1, <2>3 DEF Given
  <2> QED
    BY <2>2, <2>3
<1>3. OnTheWay(slice[d], d, q, TakenFrom(slice[d], q, phase[q], step[q], d),
               Given(slice[d], q, phase[ClientId(d)], step[ClientId(d)]), inbox[q][d])
  BY <1>1 DEF IInv, Streams
<1> QED
  BY <1>1, <1>2, <1>3

LEMMA MergeInv ==
  ASSUME IInv, NEW p \in Sharer, Merge(p)
  PROVE  IInv'
<1> USE Ids
<1>1. /\ phase[p] = "merge"
      /\ UNCHANGED <<slice, nodes, pkts, startIdx, endIdx, step, inbox, outbox, shares, entered, left>>
      /\ \/ Halt(p, "stopped") /\ UNCHANGED <<size, graph>>
         \/ /\ ~ Refused(pkts[p]) /\ ~ Aborted(pkts[p])
            /\ size' = [size EXCEPT ![p] = TotalSize(pkts[p])]
            /\ graph' = [graph EXCEPT ![p] = Unpacked(pkts[p])]
            /\ Halt(p, "sync")
  BY DEF Merge, Halt
<1>2. p \in Server /\ p # D /\ slice \in [Client -> SliceType] /\ Typed
  BY DEF IInv, Typed
<1>3. step[p] \in Client /\ step[p] = 0
  BY <1>1, <1>2, ServerAt
<1>4. Alone(p) /\ step'[p] = step[p]
      /\ \/ phase'[p] = "stopped" /\ UNCHANGED <<size, graph>>
         \/ /\ phase'[p] = "sync"
            /\ ~ Refused(pkts[p]) /\ ~ Aborted(pkts[p])
            /\ size' = [size EXCEPT ![p] = TotalSize(pkts[p])]
            /\ graph' = [graph EXCEPT ![p] = Unpacked(pkts[p])]
  <2>1. "stopped" \in ServerPhases /\ "sync" \in ServerPhases
    BY DEF ServerPhases, Ended
  <2>2. CASE Halt(p, "stopped") /\ UNCHANGED <<size, graph>>
    <3>1. Alone(p) /\ phase'[p] = "stopped" /\ step'[p] = step[p]
      BY <1>1, <1>2, <2>1, <2>2, Halted
    <3> QED
      BY <2>2, <3>1
  <2>3. CASE /\ ~ Refused(pkts[p]) /\ ~ Aborted(pkts[p])
             /\ size' = [size EXCEPT ![p] = TotalSize(pkts[p])]
             /\ graph' = [graph EXCEPT ![p] = Unpacked(pkts[p])]
             /\ Halt(p, "sync")
    <3>1. Alone(p) /\ phase'[p] = "sync" /\ step'[p] = step[p]
      BY <1>1, <1>2, <2>1, <2>3, Halted
    <3> QED
      BY <2>3, <3>1
  <2> QED
    BY <1>1, <2>2, <2>3
<1>5. phase'[p] \in {"stopped", "sync"}
  BY <1>4
<1>6. Streams'
  <2>1. \A q \in Server : phase'[q] \in Reading => phase'[q] = phase[q] /\ step'[q] = step[q]
    BY <1>4, <1>5 DEF Alone, Reading
  <2>2. \A c \in Client : phase'[ClientId(c)] = phase[ClientId(c)] /\ step'[ClientId(c)] = step[ClientId(c)]
    BY <1>2, <1>4 DEF Alone
  <2> QED
    BY <1>1, <2>1, <2>2, StreamsKeep
<1>7. PackedAt(slice, phase[p], step[p], pkts[p], startIdx[p], endIdx[p])
  BY DEF IInv, Packed
<1>8. Packed'
  <2>1. PackedAt(slice, phase'[p], step'[p], pkts'[p], startIdx'[p], endIdx'[p])
    <3>1. /\ Headers(phase'[p], step'[p]) = NClients /\ Contents(phase'[p], step'[p]) = NClients
          /\ Headers(phase[p], step[p]) = NClients /\ Contents(phase[p], step[p]) = NClients
      BY <1>1, <1>5 DEF Headers, Contents
    <3> QED
      BY <1>1, <1>5, <1>7, <3>1 DEF PackedAt
  <2> QED
    BY <1>1, <1>2, <1>4, <2>1, PackedMove
<1>9. /\ size' \in [Server -> Nat] /\ DOMAIN graph' = Server
      /\ \A q \in Server : q # p => size'[q] = size[q] /\ graph'[q] = graph[q]
      /\ MergedAt(phase'[p], pkts'[p], size'[p], graph'[p])
  <2>1. size \in [Server -> Nat] /\ DOMAIN graph = Server
    BY <1>2 DEF Typed
  <2>2. TotalSize(pkts[p]) \in Nat
    <3>1. Headers(phase[p], step[p]) = NClients /\ Contents(phase[p], step[p]) = NClients
      BY <1>1 DEF Headers, Contents
    <3>2. pkts[p] = Packets(slice, NClients, NClients)
      BY <1>1, <1>7, <3>1 DEF PackedAt
    <3> QED
      BY <1>2, <3>2, AllPackets
  <2>3. CASE phase'[p] = "stopped" /\ UNCHANGED <<size, graph>>
    BY <2>1, <2>3 DEF MergedAt
  <2>4. CASE /\ phase'[p] = "sync"
             /\ ~ Refused(pkts[p]) /\ ~ Aborted(pkts[p])
             /\ size' = [size EXCEPT ![p] = TotalSize(pkts[p])]
             /\ graph' = [graph EXCEPT ![p] = Unpacked(pkts[p])]
    BY <1>1, <1>2, <2>1, <2>2, <2>4 DEF MergedAt
  <2> QED
    BY <1>4, <2>3, <2>4
<1>10. Merged'
  BY <1>1, <1>2, <1>4, <1>9, MergedMove
<1>11. Counted'
  <2>1. nodes'[p] = Upto(NodesOf, NClients)
    BY <1>1, <1>2 DEF IInv, Counted
  <2> QED
    BY <1>1, <1>2, <1>4, <1>5, <1>9, <2>1, CountedMove
<1>12. Returned'
  <2>1. \A d \in Client : SentBack(phase'[p], step'[p], d) = SentBack(phase[p], step[p], d)
    BY <1>1, <1>5 DEF SentBack
  <2> QED
    BY <1>1, <1>2, <1>4, <2>1, ReturnedMove
<1>13. Places'
  <2>1. {"stopped", "sync"} \subseteq ServerPhases
    BY DEF ServerPhases, Ended
  <2> QED
    BY <1>2, <1>3, <1>4, <1>5, <2>1, PlacesMove
<1>14. Typed'
  BY <1>1, <1>2, <1>4, <1>9 DEF Typed, Alone, Grid
<1>15. Barred'
  BY <1>1, BarredKeeps
<1> QED
  BY <1>6, <1>8, <1>10, <1>11, <1>12, <1>13, <1>14, <1>15 DEF IInv

LEMMA EnterSyncInv ==
  ASSUME IInv, NEW x \in Process, EnterSync(x)
  PROVE  IInv'
<1> USE Ids
<1>1. /\ phase[x] = "sync"
      /\ entered' = [entered EXCEPT ![x] = entered[x] + 1]
      /\ UNCHANGED <<data, phase, step, inbox, outbox, shares, left>>
  BY DEF EnterSync, Sync!Enter
<1>2. UNCHANGED <<slice, nodes, size, pkts, graph, startIdx, endIdx>>
  BY <1>1 DEF data
<1>3. Typed /\ Barred
  BY DEF IInv
<1>4. entered \in [Process -> Nat] /\ P0 \in Process /\ P0 \in Sharer
  BY <1>3 DEF Typed
<1>5. entered' \in [Process -> Nat] /\ \A y \in Process : entered'[y] >= entered[y]
      /\ (y # x => entered'[y] = entered[y])
  BY <1>1, <1>4
<1>6. Barred'
  <2>1. \A y \in Process : left'[y] > 0 => entered'[P0] > 0
    <3> SUFFICES ASSUME NEW y \in Process, left[y] > 0 PROVE entered'[P0] > 0
      BY <1>1
    <3>1. entered[P0] > 0
      BY <1>3 DEF Barred
    <3>2. entered'[P0] >= entered[P0] /\ entered'[P0] \in Nat /\ entered[P0] \in Nat
      BY <1>4, <1>5
    <3> QED
      BY <3>1, <3>2
  <2>2. entered'[P0] > 0 => Acceptable
    <3>1. CASE x = P0
      <4>1. HasInput(P0)
        BY <1>1, <3>1 DEF HasInput
      <4> QED
        BY <1>4, <4>1, MergedFits
    <3>2. CASE x # P0
      BY <1>3, <1>4, <1>5, <3>2 DEF Barred
    <3> QED
      BY <3>1, <3>2
  <2> QED
    BY <1>2, <2>1, <2>2, SameSlices DEF Barred
<1>7. Counted' /\ Packed' /\ Merged'
  BY <1>1, ServersKeep
<1>8. Streams'
  BY <1>1, <1>2, StreamsKeep
<1>9. Returned'
  BY <1>1, <1>2 DEF IInv, Returned
<1>10. Places'
  BY <1>1 DEF IInv, Places
<1>11. Typed'
  BY <1>1, <1>2, <1>3, <1>5 DEF Typed, Grid
<1> QED
  BY <1>6, <1>7, <1>8, <1>9, <1>10, <1>11 DEF IInv

LEMMA LeaveSyncInv ==
  ASSUME IInv, NEW x \in Process, LeaveSync(x)
  PROVE  IInv'
<1> DEFINE then == IF x \in Server THEN "results" ELSE "share0"
<1> USE Ids
<1>1. /\ phase[x] = "sync"
      /\ left[x] < entered[x] /\ \A y \in Process : entered[y] >= entered[x]
      /\ left' = [left EXCEPT ![x] = left[x] + 1]
      /\ phase' = phase \/ phase' = [phase EXCEPT ![x] = then]
      /\ UNCHANGED <<data, entered, step, inbox, outbox, shares>>
  BY DEF LeaveSync, Sync!Leave
<1>2. UNCHANGED <<slice, nodes, size, pkts, graph, startIdx, endIdx>>
  BY <1>1 DEF data
<1>3. Typed /\ Barred /\ Places
  BY DEF IInv
<1>4. /\ entered \in [Process -> Nat] /\ left \in [Process -> Nat] /\ P0 \in Process
      /\ phase \in [Process -> ClientPhases \cup ServerPhases] /\ step \in [Process -> Nat]
  BY <1>3 DEF Typed
<1>5. left' \in [Process -> Nat] /\ \A y \in Process : y # x => left'[y] = left[y]
  BY <1>1, <1>4
<1>6. Barred'
  <2>1. \A y \in Process : left'[y] > 0 => entered[P0] > 0
    <3> SUFFICES ASSUME NEW y \in Process, left'[y] > 0 PROVE entered[P0] > 0
      OBVIOUS
    <3>1. CASE y = x
      <4>1. entered[P0] >= entered[x] /\ left[x] < entered[x]
            /\ left[x] \in Nat /\ entered[x] \in Nat /\ entered[P0] \in Nat
        BY <1>1, <1>4
      <4> QED
        BY <4>1
    <3>2. CASE y # x
      BY <1>3, <1>5, <3>2 DEF Barred
    <3> QED
      BY <3>1, <3>2
  <2> QED
    BY <1>1, <1>2, <1>3, <2>1, SameSlices DEF Barred
<1>7. /\ phase' \in [Process -> ClientPhases \cup ServerPhases]
      /\ \A y \in Process : y # x => phase'[y] = phase[y]
      /\ phase'[x] = "sync" \/ phase'[x] = then
  <2>1. then \in ClientPhases \cup ServerPhases
    BY DEF ClientPhases, ServerPhases
  <2> HIDE DEF then
  <2> QED
    BY <1>1, <1>4, <2>1
<1>8. Typed'
  BY <1>1, <1>2, <1>3, <1>5, <1>7 DEF Typed, Grid
<1>9. \A c \in Client : phase'[ClientId(c)] = "send" <=> phase[ClientId(c)] = "send"
  <2> TAKE c \in Client
  <2>1. CASE x = ClientId(c)
    BY <1>1, <1>7, <2>1
  <2>2. CASE x # ClientId(c)
    BY <1>7, <2>2
  <2> QED
    BY <2>1, <2>2
<1>10. Streams'
  <2>1. \A q \in Server : phase'[q] \in Reading => phase'[q] = phase[q] /\ step'[q] = step[q]
    <3> TAKE q \in Server
    <3>1. CASE x = q
      BY <1>7, <3>1 DEF Reading
    <3>2. CASE x # q
      BY <1>1, <1>7, <3>2
    <3> QED
      BY <3>1, <3>2
  <2> QED
    BY <1>1, <1>2, <1>9, <2>1, StreamsKeep
<1>11. CASE x \in Server
  <2>1. Alone(x) /\ phase'[x] \in {"sync", "results"} /\ step'[x] = step[x]
    BY <1>1, <1>4, <1>7, <1>11 DEF Alone
  <2>2. step[x] \in Client /\ step[x] = 0
    BY <1>1, <1>11, ServerAt
  <2>3. Places'
    <3>1. {"results", "sync"} \subseteq ServerPhases
      BY DEF ServerPhases, Ended
    <3> QED
      BY <1>11, <2>1, <2>2, <3>1, PlacesMove
  <2>4. Counted'
    <3>1. nodes[x] = Upto(NodesOf, NClients)
      BY <1>1, <1>11 DEF IInv, Counted
    <3>2. x = D => size[D] = Upto(SizesOf, NClients)
      BY <1>1 DEF IInv, Counted
    <3> QED
      BY <1>2, <1>11, <2>1, <3>1, <3>2, CountedMove
  <2>5. Packed'
    <3>1. x \in Sharer => PackedAt(slice, phase'[x], step'[x], pkts'[x], startIdx'[x], endIdx'[x])
      <4> HAVE x \in Sharer
      <4>1. PackedAt(slice, phase[x], step[x], pkts[x], startIdx[x], endIdx[x])
        BY DEF IInv, Packed
      <4>2. /\ Headers(phase'[x], step'[x]) = NClients /\ Contents(phase'[x], step'[x]) = NClients
            /\ Headers(phase[x], step[x]) = NClients /\ Contents(phase[x], step[x]) = NClients
        BY <1>1, <2>1 DEF Headers, Contents
      <4> QED
        BY <1>1, <1>2, <2>1, <4>1, <4>2 DEF PackedAt
    <3> QED
      BY <1>2, <1>11, <2>1, <3>1, PackedMove
  <2>6. Merged'
    <3>1. x \in Sharer => MergedAt(phase'[x], pkts'[x], size'[x], graph'[x])
      BY <1>1, <1>2, <2>1 DEF IInv, Merged, MergedAt
    <3> QED
      BY <1>2, <1>11, <2>1, <3>1, MergedMove
  <2>7. Returned'
    <3>1. \A d \in Client : SentBack(phase'[x], step'[x], d) = SentBack(phase[x], step[x], d)
      BY <1>1, <2>1, <2>2 DEF SentBack, Client
    <3> QED
      BY <1>1, <1>2, <1>11, <2>1, <3>1, ReturnedMove
  <2> QED
    BY <1>6, <1>8, <1>10, <2>3, <2>4, <2>5, <2>6, <2>7 DEF IInv
<1>12. CASE x \notin Server
  <2>1. \A p \in Server : phase'[p] = phase[p] /\ step'[p] = step[p]
    BY <1>1, <1>7, <1>12
  <2>2. Counted' /\ Packed' /\ Merged'
    BY <1>1, <2>1, ServersKeep
  <2>3. phase'[x] \in {"sync", "share0"}
    BY <1>7, <1>12
  <2>4. Places'
    <3>1. \A c \in Client : phase'[ClientId(c)] \in ClientPhases /\ step'[ClientId(c)] \in 1 .. 8
      <4> TAKE c \in Client
      <4>1. phase[ClientId(c)] \in ClientPhases /\ step[ClientId(c)] \in 1 .. 8
        BY <1>3 DEF Places
      <4>2. CASE x = ClientId(c)
        BY <1>1, <2>3, <4>1, <4>2 DEF ClientPhases
      <4>3. CASE x # ClientId(c)
        BY <1>1, <1>7, <4>1, <4>3
      <4> QED
        BY <4>2, <4>3
    <3> QED
      BY <1>3, <2>1, <3>1 DEF Places
  <2>5. Returned'
    <3> SUFFICES ASSUME NEW q \in Sharer, NEW d \in Client
                 PROVE  Handed(slice'[d], d, SentBack(phase'[q], step'[q], d), Got(q, phase'[ClientId(d)]),
                               outbox'[q][d], shares'[d][q])
      BY DEF Returned
    <3>1. Got(q, phase'[ClientId(d)]) = Got(q, phase[ClientId(d)])
      <4>1. CASE x = ClientId(d)
        BY <1>1, <2>3, <4>1 DEF Got
      <4>2. CASE x # ClientId(d)
        BY <1>7, <4>2
      <4> QED
        BY <4>1, <4>2
    <3>2. Handed(slice[d], d, SentBack(phase[q], step[q], d), Got(q, phase[ClientId(d)]),
                 outbox[q][d], shares[d][q])
      BY DEF IInv, Returned
    <3> QED
      BY <1>1, <1>2, <2>1, <3>1, <3>2
  <2> QED
    BY <1>6, <1>8, <1>10, <2>2, <2>4, <2>5 DEF IInv
<1> QED
  BY <1>11, <1>12

(* What a server cuts out for a client are the outputs of the client's entries. *)
PartFor(p, c) ==
  [k \in 1 .. endIdx[p][c] - startIdx[p][c] |-> Outputs(p)[startIdx[p][c] + k - 1]]

LEMMA PartIsResult ==
  ASSUME IInv, NEW p \in Sharer, phase[p] = "results", NEW c \in Client
  PROVE  PartFor(p, c) = Result(slice[c], c) /\ c < NParties
<1> DEFINE s == slice[c]
<1> USE Ids
<1>1. s \in SliceType
  BY DEF IInv, Typed
<1>2. s.start \in Nat /\ s.size \in Nat
  BY <1>1, SliceNat
<1>3. c < NClients /\ c \in Nat /\ NClients \in Nat
  OBVIOUS
<1>4. NClients <= NParties
      /\ startIdx[p][c] = s.start /\ endIdx[p][c] = s.start + s.size
  <2>1. PackedAt(slice, phase[p], step[p], pkts[p], startIdx[p], endIdx[p])
    BY DEF IInv, Packed
  <2>2. Contents(phase[p], step[p]) = NClients
    BY DEF Contents
  <2> QED
    BY <1>3, <2>1, <2>2 DEF PackedAt
<1>5. HasInput(p)
  BY DEF HasInput
<1>6. /\ DOMAIN graph[p] = 0 .. Whole - 1
      /\ \A x \in SliceCells(c) : x \in 0 .. Whole - 1
      /\ \A x \in SliceCells(c) : \A f \in Field : graph[p][x][f] = <<c, x - s.start, f>>
  BY <1>5, MergedFits
<1>7. \A k \in 1 .. s.size : Outputs(p)[s.start + k - 1] = <<c, k - 1, 0>>
  <2> TAKE k \in 1 .. s.size
  <2> DEFINE x == s.start + k - 1
  <2>1. x \in SliceCells(c) /\ x - s.start = k - 1
    BY <1>2 DEF SliceCells, Cells
  <2>2. 0 \in Field
    BY InputAssumption DEF Field
  <2>3. graph[p][x][0] = <<c, x - s.start, 0>>
    BY <1>6, <2>1, <2>2
  <2>4. x \in DOMAIN graph[p]
    BY <1>6, <2>1
  <2> HIDE DEF x
  <2>5. Outputs(p)[x] = graph[p][x][0]
    BY <2>4 DEF Outputs
  <2> QED
    BY <2>1, <2>3, <2>5 DEF x
<1>8. endIdx[p][c] - startIdx[p][c] = s.size
  BY <1>2, <1>4
<1>9. PartFor(p, c) = [k \in 1 .. s.size |-> <<c, k - 1, 0>>]
  BY <1>4, <1>7, <1>8 DEF PartFor
<1>10. c < NParties
  BY <1>3, <1>4
<1> QED
  BY <1>9, <1>10 DEF Result

LEMMA SendResultInv ==
  ASSUME IInv, NEW p \in Server, SendResult(p)
  PROVE  IInv'
<1> DEFINE c == step[p]
<1> USE Ids
<1>1. /\ phase[p] = "results"
      /\ \/ /\ outbox' = [outbox EXCEPT ![p][c] = outbox[p][c] \o PartFor(p, c)]
            /\ Visit(p, "done") /\ c < NParties
         \/ Halt(p, "undefined") /\ UNCHANGED <<outbox, step>> /\ ~ (c < NParties)
      /\ UNCHANGED <<data, inbox, shares, entered, left>>
  BY DEF SendResult, PartFor
<1>2. UNCHANGED <<slice, nodes, size, pkts, graph, startIdx, endIdx>>
  BY <1>1 DEF data
<1>3. slice \in [Client -> SliceType] /\ Typed
  BY DEF IInv, Typed
<1>4. p \in Process /\ c \in Client /\ c \in Nat
  BY ServerAt
<1>5. /\ Alone(p)
      /\ \/ c < NClients - 1 /\ step'[p] = c + 1 /\ phase'[p] = "results"
         \/ c = NClients - 1 /\ step'[p] = 0 /\ phase'[p] = "done"
         \/ p \notin Sharer /\ step'[p] = c /\ phase'[p] = "undefined"
  <2>1. "done" \in ServerPhases /\ "undefined" \in ServerPhases
    BY DEF ServerPhases, Ended
  <2>2. CASE Visit(p, "done")
    BY <1>1, <2>1, <2>2, Visited
  <2>3. CASE Halt(p, "undefined") /\ UNCHANGED <<outbox, step>> /\ ~ (c < NParties)
    <3>1. Alone(p) /\ phase'[p] = "undefined" /\ step'[p] = step[p]
      BY <2>1, <2>3, Halted
    <3>2. p \notin Sharer
      BY <1>1, <1>4, <2>3, PartIsResult
    <3> QED
      BY <3>1, <3>2
  <2> QED
    BY <1>1, <2>2, <2>3
<1>6. step'[p] \in Client /\ phase'[p] \in {"results", "done", "undefined"}
  BY <1>4, <1>5
<1>7. Streams'
  <2>1. \A q \in Server : phase'[q] \in Reading => phase'[q] = phase[q] /\ step'[q] = step[q]
    <3> TAKE q \in Server
    <3>1. CASE q = p
      BY <1>6, <3>1 DEF Reading
    <3>2. CASE q # p
      BY <1>5, <3>2 DEF Alone
    <3> QED
      BY <3>1, <3>2
  <2>2. \A d \in Client : phase'[ClientId(d)] = phase[ClientId(d)] /\ step'[ClientId(d)] = step[ClientId(d)]
    BY <1>5 DEF Alone
  <2> QED
    BY <1>1, <1>2, <2>1, <2>2, StreamsKeep
<1>8. Packed'
  <2>1. p \in Sharer => PackedAt(slice, phase'[p], step'[p], pkts'[p], startIdx'[p], endIdx'[p])
    <3> HAVE p \in Sharer
    <3>1. PackedAt(slice, phase[p], step[p], pkts[p], startIdx[p], endIdx[p])
      BY DEF IInv, Packed
    <3>2. phase'[p] \in {"results", "done"}
      BY <1>5
    <3>3. /\ Headers(phase'[p], step'[p]) = NClients /\ Contents(phase'[p], step'[p]) = NClients
          /\ Headers(phase[p], step[p]) = NClients /\ Contents(phase[p], step[p]) = NClients
      BY <1>1, <3>2 DEF Headers, Contents
    <3> QED
      BY <1>1, <1>2, <3>1, <3>2, <3>3 DEF PackedAt
  <2> QED
    BY <1>2, <1>5, <2>1, PackedMove
<1>9. Merged'
  <2>1. p \in Sharer => MergedAt(phase'[p], pkts'[p], size'[p], graph'[p])
    BY <1>1, <1>2 DEF IInv, Merged, MergedAt
  <2> QED
    BY <1>2, <1>5, <2>1, MergedMove
<1>10. Counted'
  <2>1. nodes[p] = Upto(NodesOf, NClients)
    BY <1>1 DEF IInv, Counted
  <2>2. p = D => size[D] = Upto(SizesOf, NClients)
    BY <1>1 DEF IInv, Counted
  <2> QED
    BY <1>2, <1>5, <1>6, <2>1, <2>2, CountedMove
<1>11. /\ Grid(outbox', Server, Client)
       /\ \A q \in Server : \A d \in Client :
            q # p \/ d # c \/ phase'[p] = "undefined" => outbox'[q][d] = outbox[q][d]
       /\ phase'[p] # "undefined" => outbox'[p][c] = outbox[p][c] \o PartFor(p, c)
  <2>1. Grid(outbox, Server, Client)
    BY <1>3 DEF Typed
  <2>2. CASE outbox' = [outbox EXCEPT ![p][c] = outbox[p][c] \o PartFor(p, c)] /\ Visit(p, "done")
    <3>1. phase'[p] # "undefined"
      <4>1. "done" \in ServerPhases
        BY DEF ServerPhases, Ended
      <4> QED
        BY <1>1, <2>2, <4>1, Visited
    <3> DEFINE w == outbox[p][c] \o PartFor(p, c)
    <3>2. outbox' = [outbox EXCEPT ![p][c] = w]
      BY <2>2
    <3> HIDE DEF w, c
    <3>3. Grid(outbox', Server, Client)
      BY <1>4, <2>1, <3>2 DEF Grid
    <3>4. \A q \in Server : \A d \in Client : q # p \/ d # c => outbox'[q][d] = outbox[q][d]
      BY <1>4, <2>1, <3>2 DEF Grid
    <3>5. outbox'[p][c] = w
      BY <1>4, <2>1, <3>2 DEF Grid
    <3> QED
      BY <3>1, <3>3, <3>4, <3>5 DEF w
  <2>3. CASE Halt(p, "undefined") /\ UNCHANGED <<outbox, step>>
    <3>1. phase'[p] = "undefined"
      <4>1. "undefined" \in ServerPhases
        BY DEF ServerPhases, Ended
      <4> QED
        BY <2>3, <4>1, Halted
    <3> QED
      BY <2>1, <2>3, <3>1
  <2> QED
    BY <1>1, <2>2, <2>3
<1>12. Returned'
  <2> SUFFICES ASSUME NEW q \in Sharer, NEW d \in Client
               PROVE  Handed(slice[d], d, SentBack(phase'[q], step'[q], d), Got(q, phase'[ClientId(d)]),
                             outbox'[q][d], shares[d][q])
    BY <1>1, <1>2 DEF Returned
  <2>1. Handed(slice[d], d, SentBack(phase[q], step[q], d), Got(q, phase[ClientId(d)]),
               outbox[q][d], shares[d][q])
    BY DEF IInv, Returned
  <2>2. Got(q, phase'[ClientId(d)]) = Got(q, phase[ClientId(d)])
    BY <1>5 DEF Alone
  <2>3. CASE q # p
    <3>1. phase'[q] = phase[q] /\ step'[q] = step[q]
      BY <1>5, <2>3 DEF Alone
    <3>2. outbox'[q][d] = outbox[q][d]
      BY <1>11, <2>3
    <3> QED
      BY <2>1, <2>2, <3>1, <3>2
  <2>4. CASE q = p /\ d # c
    <3>1. outbox'[q][d] = outbox[q][d]
      BY <1>11, <2>4
    <3>2. SentBack(phase'[p], step'[p], d) = SentBack(phase[p], step[p], d)
      <4>1. d \in Nat /\ d < NClients
        OBVIOUS
      <4>2. CASE c < NClients - 1 /\ step'[p] = c + 1 /\ phase'[p] = "results"
        BY <1>1, <1>4, <2>4, <4>1, <4>2 DEF SentBack
      <4>3. CASE c = NClients - 1 /\ step'[p] = 0 /\ phase'[p] = "done"
        <5>1. d < c
          BY <1>4, <2>4, <4>1, <4>3
        <5> QED
          BY <1>1, <4>3, <5>1 DEF SentBack
      <4> QED
        BY <1>5, <2>4, <4>2, <4>3
    <3> QED
      BY <2>1, <2>2, <2>4, <3>1, <3>2
  <2>5. CASE q = p /\ d = c
    <3> DEFINE s == slice[c]
               res == Result(s, c)
    <3>1. PartFor(p, c) = res
      BY <1>1, <2>5, PartIsResult
    <3>2. ~ SentBack(phase[p], step[p], c) /\ SentBack(phase'[p], step'[p], c)
      <4>1. SentBack(phase'[p], step'[p], c)
        BY <1>4, <1>5, <2>5 DEF SentBack
      <4> QED
        BY <1>1, <1>4, <4>1 DEF SentBack
    <3>3. /\ outbox[p][c] = <<>>
          /\ shares[c][p] = IF Got(p, phase[ClientId(c)]) THEN res ELSE <<>>
          /\ Got(p, phase[ClientId(c)]) => s.size = 0
      BY <2>1, <2>5, <3>2 DEF Handed
    <3>4. outbox'[p][c] = <<>> \o res
      BY <1>5, <1>11, <2>5, <3>1, <3>3
    <3>5. s.size \in Nat
      BY <1>3, <1>4, SliceNat
    <3>6. <<>> \o res = res
      <4>1. res = [k \in 1 .. s.size |-> res[k]]
        BY DEF Result
      <4> HIDE DEF res
      <4>2. res \in Seq({res[k] : k \in 1 .. s.size})
        BY <3>5, <4>1, PlacesSeq
      <4> QED
        BY <4>2
    <3>7. s.size = 0 => res = <<>>
      <4>1. [i \in 1 .. 0 |-> <<c, i - 1, 0>>] = <<>>
        OBVIOUS
      <4> QED
        BY <4>1 DEF Result
    <3> HIDE DEF res, s
    <3>8. outbox'[p][c] = IF ~ Got(p, phase[ClientId(c)]) THEN res ELSE <<>>
      BY <3>3, <3>4, <3>6, <3>7
    <3>9. Handed(s, c, SentBack(phase'[p], step'[p], c), Got(p, phase[ClientId(c)]),
                 outbox'[p][c], shares[c][p])
      BY <3>2, <3>3, <3>8 DEF Handed, res
    <3> QED
      BY <2>2, <2>5, <3>9 DEF s
  <2> QED
    BY <2>3, <2>4, <2>5
<1>13. Places'
  <2>1. {"results", "done", "undefined"} \subseteq ServerPhases
    BY DEF ServerPhases, Ended
  <2> QED
    BY <1>5, <1>6, <2>1, PlacesMove
<1>14. Typed'
  BY <1>1, <1>2, <1>3, <1>5, <1>11 DEF Typed, Alone, Grid
<1>15. Barred'
  BY <1>1, <1>2, BarredKeeps
<1> QED
  BY <1>7, <1>8, <1>9, <1>10, <1>12, <1>13, <1>14, <1>15 DEF IInv

------------------------------------------------------------------------------
(* Every step *)

LEMMA InvStep ==
  ASSUME IInv, [Next]_vars
  PROVE  IInv'
<1>1. ASSUME NEW c \in Client, ClientStep(c) PROVE IInv'
  BY <1>1, ClientSendInv, ClientRecvInv DEF ClientStep
<1>2. ASSUME NEW p \in Server, ServerStep(p) PROVE IInv'
  BY <1>2, RecvNodesInv, SendResultInv DEF ServerStep
<1>3. ASSUME NEW p \in Sharer, SharerStep(p) PROVE IInv'
  BY <1>3, RecvHeaderInv, RecvInvalidInv, RecvEntriesInv, MergeInv DEF SharerStep
<1>4. ASSUME RecvSize PROVE IInv'
  BY <1>4, RecvSizeInv
<1>5. ASSUME NEW x \in Process, EnterSync(x) \/ LeaveSync(x) PROVE IInv'
  BY <1>5, EnterSyncInv, LeaveSyncInv
<1>6. ASSUME UNCHANGED vars PROVE IInv'
  <2>1. UNCHANGED <<data, phase, step, inbox, outbox, shares, entered, left>>
    BY <1>6 DEF vars
  <2>2. UNCHANGED <<slice, nodes, size, pkts, graph, startIdx, endIdx>>
    BY <2>1 DEF data
  <2>3. Counted' /\ Packed' /\ Merged'
    BY <2>1, ServersKeep
  <2>4. Streams'
    BY <2>1, <2>2, StreamsKeep
  <2>5. Returned'
    BY <2>1, <2>2 DEF IInv, Returned
  <2>6. Places' /\ Typed'
    BY <2>1, <2>2 DEF IInv, Places, Typed, Grid
  <2>7. Barred'
    BY <2>1, <2>2, BarredKeeps
  <2> QED
    BY <2>3, <2>4, <2>5, <2>6, <2>7 DEF IInv
<1>7. Next => \/ \E c \in Client : ClientStep(c)
              \/ \E p \in Server : ServerStep(p)
              \/ \E p \in Sharer : SharerStep(p)
              \/ RecvSize
              \/ \E x \in Process : EnterSync(x) \/ LeaveSync(x)
              \/ UNCHANGED vars
  BY DEF Next, Terminated
<1> QED
  BY <1>1, <1>2, <1>3, <1>4, <1>5, <1>6, <1>7

LEMMA InvAlways == Spec => []IInv
<1>1. Init => IInv
  BY InvInit
<1>2. IInv /\ [Next]_vars => IInv'
  BY InvStep
<1> QED
  BY <1>1, <1>2, PTL DEF Spec

------------------------------------------------------------------------------
(* What input sharing promises, for any number of clients and any slices *)

\* run_server.cpp, run_client.cpp: the loops over the clients stay among them,
\* the sums stay numbers, no server keeps more packets than there are clients,
\* and a client gets from each of P0 and P1 nothing yet or as much as it asked for.
THEOREM InputTypes == Spec => []TypeOK
<1>1. IInv => TypeOK
  <2> SUFFICES ASSUME IInv PROVE TypeOK
    OBVIOUS
  <2> USE Ids
  <2>1. Typed /\ Places
    BY DEF IInv
  <2>2. ASSUME NEW c \in Client, NEW p \in Sharer
        PROVE  Len(shares[c][p]) \in {0, slice[c].size}
    <3> DEFINE s == slice[c]
               res == Result(s, c)
    <3>1. shares[c][p] = res \/ shares[c][p] = <<>>
      BY <2>2 DEF IInv, Returned, Handed
    <3>2. Len(res) = s.size
      <4>1. s.size \in Nat
        BY <2>1, <2>2, SliceNat DEF Typed
      <4>2. res = [k \in 1 .. s.size |-> res[k]]
        BY DEF Result
      <4> HIDE DEF res
      <4> QED
        BY <4>1, <4>2, PlacesSeq
    <3> HIDE DEF res
    <3>3. Len(<<>>) = 0
      OBVIOUS
    <3> QED
      BY <3>1, <3>2, <3>3
  <2>3. ASSUME NEW c \in Client
        PROVE  /\ phase[ClientId(c)] \in {"send", "sync", "share0", "share1", "done"}
               /\ step[ClientId(c)] \in 1 .. 8
    BY <2>1, <2>3 DEF Places, ClientPhases
  <2>4. ASSUME NEW p \in Server
        PROVE  /\ phase[p] \in {"nodes", "size", "header", "entries", "merge", "sync", "results"} \cup Ended
               /\ step[p] \in Client
               /\ nodes[p] \in Nat /\ size[p] \in Nat
    BY <2>1, <2>4 DEF Places, ServerPhases, Typed
  <2>5. \A p \in Sharer : Len(pkts[p]) <= NClients
    BY DEF IInv, Packed, PackedAt
  <2> QED
    BY <2>1, <2>2, <2>3, <2>4, <2>5 DEF TypeOK, Typed
<1> QED
  BY <1>1, InvAlways, PTL

\* InputServer::recv_graph returns the list that the slices make up: a server
\* that gets on with it has every cell from the one client whose slice holds it,
\* and slices that overlap, leave a gap or end behind the list are refused.
THEOREM JoinedAlways == Spec => []Joined
<1>1. IInv => Joined
  BY MergedFits DEF Joined
<1> QED
  BY <1>1, InvAlways, PTL

\* The dealer adds up what the clients announce (recv_graph of run_server.cpp),
\* P0 and P1 what they receive: all three go on with the same size and nodes.
THEOREM SameDimensionsAlways == Spec => []SameDimensions
<1>1. IInv => SameDimensions
  <2> SUFFICES ASSUME IInv PROVE SameDimensions
    OBVIOUS
  <2>1. ASSUME NEW p \in Server, HasInput(p)
        PROVE  size[p] = Whole /\ nodes[p] = Upto(NodesOf, NClients)
    <3>1. CASE p \in Sharer
      BY <2>1, <3>1, MergedFits
    <3>2. CASE p \notin Sharer
      <4>1. p = D
        BY <3>2, Ids
      <4>2. phase[D] \in {"sync", "results", "done"}
        BY <2>1, <4>1 DEF HasInput
      <4> QED
        BY <4>1, <4>2, Ids DEF IInv, Counted, Whole
    <3> QED
      BY <3>1, <3>2
  <2> QED
    BY <2>1 DEF SameDimensions
<1> QED
  BY <1>1, InvAlways, PTL

\* InputServer::send_result and InputClient::recv_result: a client that is done
\* has, from P0 and from P1, the outputs of its own entries in their order.
THEOREM OwnResultsAlways == Spec => []OwnResults
<1>1. IInv => OwnResults
  <2> SUFFICES ASSUME IInv, NEW c \in Client, phase[ClientId(c)] = "done", NEW p \in Sharer
               PROVE  shares[c][p] = [i \in 1 .. slice[c].size |-> <<c, i - 1, 0>>]
    BY DEF OwnResults
  <2>1. Got(p, phase[ClientId(c)])
    BY DEF Got
  <2> QED
    BY <2>1 DEF IInv, Returned, Handed, Result
<1> QED
  BY <1>1, InvAlways, PTL

\* recv_graph throws before the first sync of run_server.cpp: with slices that do
\* not fit together nobody, the dealer included, gets past that sync.
THEOREM NobodyServedAlways == Spec => []NobodyServed
<1>1. IInv => NobodyServed
  <2> SUFFICES ASSUME IInv, ~ Acceptable, NEW x \in Process
               PROVE  left[x] = 0
    BY DEF NobodyServed
  <2>1. left[x] \in Nat
    BY DEF IInv, Typed
  <2>2. ~ (left[x] > 0)
    BY DEF IInv, Barred
  <2> QED
    BY <2>1, <2>2
<1> QED
  BY <1>1, InvAlways, PTL

------------------------------------------------------------------------------
(* Powers of two *)

\* g has the powers up to n.
Powers(g, n) == g = [k \in 0 .. n |-> IF k = 0 THEN 1 ELSE 2 * g[k - 1]]

LEMMA PowersExist ==
  ASSUME NEW n \in Nat
  PROVE  \E g : Powers(g, n)
<1> DEFINE T == {m \in Nat : ~ \E g : Powers(g, m)}
<1> SUFFICES ASSUME T # {} PROVE FALSE
  OBVIOUS
<1>1. PICK m \in T : \A k \in T : ~ (k < m)
  BY Smallest
<1>2. m \in Nat /\ ~ \E g : Powers(g, m)
  OBVIOUS
<1>3. CASE m = 0
  <2>1. Powers([k \in 0 .. 0 |-> 1], 0)
    BY DEF Powers
  <2> QED
    BY <1>2, <1>3, <2>1
<1>4. CASE m # 0
  <2>1. m - 1 \in Nat /\ m - 1 < m
    BY <1>2, <1>4
  <2>2. m - 1 \notin T
    BY <1>1, <2>1
  <2>3. PICK g : Powers(g, m - 1)
    BY <2>1, <2>2
  <2> DEFINE h == [k \in 0 .. m |-> IF k = m THEN 2 * g[m - 1] ELSE g[k]]
  <2>4. \A k \in 0 .. m - 1 : g[k] = IF k = 0 THEN 1 ELSE 2 * g[k - 1]
    BY <2>3 DEF Powers
  <2>5. \A k \in 0 .. m : h[k] = IF k = 0 THEN 1 ELSE 2 * h[k - 1]
    <3> TAKE k \in 0 .. m
    <3>1. CASE k = m
      <4>1. h[k] = 2 * g[m - 1] /\ h[k - 1] = g[m - 1]
        BY <1>2, <1>4, <3>1
      <4> HIDE DEF h
      <4> QED
        BY <1>4, <3>1, <4>1
    <3>2. CASE k # m
      <4>1. k \in 0 .. m - 1 /\ h[k] = g[k]
        BY <1>2, <3>2
      <4>2. k # 0 => k - 1 \in 0 .. m /\ k - 1 # m /\ h[k - 1] = g[k - 1]
        BY <1>2, <3>2
      <4> HIDE DEF h
      <4> QED
        BY <2>4, <4>1, <4>2
    <3> QED
      BY <3>1, <3>2
  <2>6. h = [k \in 0 .. m |-> IF k = 0 THEN 1 ELSE 2 * h[k - 1]]
    BY <2>5
  <2>7. Powers(h, m)
    BY <2>6 DEF Powers
  <2> QED
    BY <1>2, <2>7
<1> QED
  BY <1>3, <1>4

LEMMA PowersUnique ==
  ASSUME NEW n \in Nat, NEW m \in Nat, n <= m, NEW g, NEW h, Powers(g, n), Powers(h, m)
  PROVE  \A k \in 0 .. n : g[k] = h[k]
<1> DEFINE T == {k \in 0 .. n : g[k] # h[k]}
<1> SUFFICES ASSUME T # {} PROVE FALSE
  OBVIOUS
<1>1. PICK k \in T : \A j \in T : ~ (j < k)
  <2>1. T \in SUBSET Nat
    OBVIOUS
  <2> HIDE DEF T
  <2> QED
    BY <2>1, Smallest
<1>2. /\ g[k] = IF k = 0 THEN 1 ELSE 2 * g[k - 1]
      /\ h[k] = IF k = 0 THEN 1 ELSE 2 * h[k - 1]
  <2>1. k \in 0 .. n /\ k \in 0 .. m
    OBVIOUS
  <2> HIDE DEF T
  <2> QED
    BY <2>1 DEF Powers
<1>3. k # 0 => g[k - 1] = h[k - 1]
  <2> SUFFICES ASSUME k # 0 PROVE g[k - 1] = h[k - 1]
    OBVIOUS
  <2>1. k - 1 \in 0 .. n /\ k - 1 < k
    OBVIOUS
  <2>2. k - 1 \notin T
    BY <1>1, <2>1
  <2> QED
    BY <2>1, <2>2
<1>4. g[k] # h[k]
  OBVIOUS
<1> HIDE DEF T
<1> QED
  BY <1>2, <1>3, <1>4

(* Power is the function its recursive definition describes. *)
LEMMA PowerNext ==
  /\ Power[0] = 1
  /\ \A n \in Nat : Power[n + 1] = 2 * Power[n]
<1> DEFINE R(s) == s = [k \in Nat |-> IF k = 0 THEN 1 ELSE 2 * s[k - 1]]
           G(n) == CHOOSE g : Powers(g, n)
           t == [n \in Nat |-> G(n)[n]]
<1>1. \A n \in Nat : Powers(G(n), n)
  BY PowersExist
<1> HIDE DEF G
<1>2. R(t)
  <2>1. ASSUME NEW k \in Nat
        PROVE  t[k] = IF k = 0 THEN 1 ELSE 2 * t[k - 1]
    <3>1. G(k)[k] = IF k = 0 THEN 1 ELSE 2 * G(k)[k - 1]
      BY <1>1 DEF Powers
    <3>2. k # 0 => k - 1 \in Nat /\ G(k)[k - 1] = G(k - 1)[k - 1]
      <4> SUFFICES ASSUME k # 0 PROVE k - 1 \in Nat /\ G(k)[k - 1] = G(k - 1)[k - 1]
        OBVIOUS
      <4>1. k - 1 \in Nat /\ k - 1 <= k /\ k - 1 \in 0 .. k - 1
        OBVIOUS
      <4> QED
        BY <1>1, <4>1, PowersUnique
    <3> QED
      BY <3>1, <3>2
  <2> HIDE DEF t
  <2>2. t = [k \in Nat |-> t[k]]
    BY DEF t
  <2> QED
    BY <2>1, <2>2
<1>3. R(Power)
  BY <1>2 DEF Power
<1>4. \A k \in Nat : Power[k] = IF k = 0 THEN 1 ELSE 2 * Power[k - 1]
  <2>1. DOMAIN Power = Nat
    BY <1>3
  <2> QED
    BY <1>3
<1> HIDE DEF R
<1>5. ASSUME NEW n \in Nat
      PROVE  Power[n + 1] = 2 * Power[n]
  <2>1. n + 1 \in Nat /\ n + 1 # 0 /\ (n + 1) - 1 = n
    OBVIOUS
  <2>2. Power[n + 1] = 2 * Power[(n + 1) - 1]
    BY <1>4, <2>1
  <2> QED
    BY <2>1, <2>2
<1> QED
  BY <1>4, <1>5

(* They are naturals and grow beyond every bound. *)
LEMMA PowerGrows ==
  ASSUME NEW n \in Nat
  PROVE  Power[n] \in Nat /\ Power[n] >= n + 1
<1> DEFINE T == {m \in Nat : ~ (Power[m] \in Nat /\ Power[m] >= m + 1)}
<1> SUFFICES ASSUME T # {} PROVE FALSE
  OBVIOUS
<1>1. PICK m \in T : \A k \in T : ~ (k < m)
  BY Smallest
<1>2. CASE m = 0
  BY <1>2, PowerNext
<1>3. CASE m # 0
  <2>1. m - 1 \in Nat /\ m - 1 < m /\ (m - 1) + 1 = m
    BY <1>3
  <2>2. m - 1 \notin T
    BY <1>1, <2>1
  <2>3. Power[m - 1] \in Nat /\ Power[m - 1] >= m
    BY <2>1, <2>2
  <2>4. Power[(m - 1) + 1] = 2 * Power[m - 1]
    BY <2>1, PowerNext
  <2> QED
    BY <2>1, <2>3, <2>4
<1> QED
  BY <1>2, <1>3

(* Enough bits for every id. *)
LEMMA EnoughBits ==
  ASSUME NEW c \in Confs
  PROVE  NBits(c) \in Nat /\ Power[NBits(c)] \in Nat /\ Power[NBits(c)] >= c.nodes + 2
<1> DEFINE T == {b \in Nat : Power[b] >= c.nodes + 2}
<1>0. c.nodes \in Nat /\ c.nodes + 2 \in Nat
  BY ConfAssumption
<1>1. c.nodes + 2 \in T
  BY <1>0, PowerGrows
<1>2. PICK m \in T : \A k \in T : ~ (k < m)
  BY <1>1, Smallest
<1>3. m \in 0 .. c.nodes + 2 /\ Power[m] >= c.nodes + 2
  BY <1>0, <1>1, <1>2
<1>4. \A a \in 0 .. m - 1 : Power[a] < c.nodes + 2
  <2> SUFFICES ASSUME NEW a \in 0 .. m - 1 PROVE Power[a] < c.nodes + 2
    OBVIOUS
  <2>1. a \in Nat /\ a < m
    BY <1>3
  <2>2. a \notin T
    BY <1>2, <2>1
  <2>3. ~ (Power[a] >= c.nodes + 2) /\ Power[a] \in Nat
    BY <2>1, <2>2, PowerGrows
  <2> QED
    BY <1>0, <2>3
<1> HIDE DEF T
<1>5. NBits(c) \in 0 .. c.nodes + 2 /\ Power[NBits(c)] >= c.nodes + 2
  BY <1>3, <1>4 DEF NBits
<1> QED
  BY <1>0, <1>5, PowerGrows

------------------------------------------------------------------------------
(* The two halves *)

Size(h) == Len(Contribution(h))
HalfNodes(h) == Count(From(h, conf.nodes))
HalfEdges(h) == Count(From(h, conf.entries - conf.nodes))
DimsOf(h) == [entries |-> Size(h), nodes |-> HalfNodes(h)]
List == Contribution(0) \o Contribution(1)

Entries == [src : Nat, dst : Nat, isV : Nat, data : Nat]

(* The halves have all nodes and edges between them, and the second is not
   empty. *)
LEMMA HalfCounts ==
  ASSUME conf \in Confs
  PROVE  /\ conf.nodes \in Nat \ {0} /\ conf.entries \in Nat
         /\ \A h \in Half : HalfNodes(h) \in Nat /\ HalfEdges(h) \in Nat
         /\ From(0, conf.nodes).first = 0 /\ From(1, conf.nodes).first = HalfNodes(0)
         /\ HalfNodes(0) + HalfNodes(1) = conf.nodes
         /\ HalfEdges(0) + HalfEdges(1) = conf.entries - conf.nodes
         /\ HalfNodes(1) > 0
<1>1. conf.nodes \in Nat \ {0} /\ conf.entries \in Nat /\ conf.entries >= conf.nodes
  BY ConfAssumption
<1>2. conf.nodes \div 2 \in Nat /\ conf.nodes \div 2 < conf.nodes
  BY <1>1
<1>3. PICK e \in Nat : e = conf.entries - conf.nodes
  BY <1>1
<1>4. e \div 2 \in Nat /\ e \div 2 <= e
  BY <1>3
<1>5. \A n : /\ From(0, n).first = 0 /\ From(1, n).first = n \div 2
             /\ Count(From(0, n)) = (n \div 2) - 0 /\ Count(From(1, n)) = n - (n \div 2)
  BY DEF From, Count
<1>6. PICK m \in Nat : m = conf.nodes \div 2 /\ m < conf.nodes
  BY <1>2
<1>7. PICK d \in Nat : d = e \div 2 /\ d <= e
  BY <1>4
<1>8. HalfNodes(0) = m /\ HalfNodes(1) = conf.nodes - m /\ From(1, conf.nodes).first = m
  BY <1>5, <1>6 DEF HalfNodes
<1>9. HalfEdges(0) = d /\ HalfEdges(1) = e - d
  BY <1>3, <1>5, <1>7 DEF HalfEdges
<1>10. PICK n \in Nat, t \in Nat : n = conf.nodes /\ t = conf.entries /\ n > 0 /\ t >= n
  BY <1>1
<1>11. m + (n - m) = n /\ n - m \in Nat /\ n - m > 0 /\ d + (e - d) = t - n /\ e - d \in Nat
  <2>1. e = t - n /\ m < n
    BY <1>3, <1>6, <1>10
  <2> QED
    <3>1. m \in Nat /\ d \in Nat /\ e \in Nat /\ n \in Nat /\ t \in Nat /\ d <= e
      BY <1>3, <1>6, <1>7, <1>10
    <3>2. m + (n - m) = n /\ n - m \in Nat /\ n - m > 0
      BY <2>1, <3>1
    <3>3. d + (e - d) = e /\ e - d \in Nat
      BY <3>1
    <3> QED
      BY <2>1, <3>2, <3>3
<1>12. \A h \in Half : h = 0 \/ h = 1
  BY DEF Half
<1>13. \A h \in Half : HalfNodes(h) \in Nat /\ HalfEdges(h) \in Nat
  BY <1>8, <1>9, <1>10, <1>11, <1>12
<1> QED
  BY <1>1, <1>5, <1>8, <1>9, <1>10, <1>11, <1>13

(* What a half consists of. *)
LEMMA HalfEntries ==
  ASSUME conf \in Confs, NEW h \in Half
  PROVE  /\ Contribution(h) \in Seq(Entries)
         /\ Size(h) \in Nat /\ Size(h) = HalfNodes(h) + HalfEdges(h)
         /\ \A i \in 1 .. Size(h) :
              Contribution(h)[i] = IF i <= HalfNodes(h) THEN Node(From(h, conf.nodes).first + i)
                                   ELSE BenchmarkEdge
<1> DEFINE v == [i \in 1 .. HalfNodes(h) |-> Node(From(h, conf.nodes).first + i)]
           e == [i \in 1 .. HalfEdges(h) |-> BenchmarkEdge]
<1>1. HalfNodes(h) \in Nat /\ HalfEdges(h) \in Nat /\ From(h, conf.nodes).first \in Nat
  BY HalfCounts DEF Half
<1>2. \A i \in 1 .. HalfNodes(h) : Node(From(h, conf.nodes).first + i) \in Entries
  BY <1>1 DEF Node, Entries
<1>3. BenchmarkEdge \in Entries
  BY DEF BenchmarkEdge, Entries
<1>4. v \in Seq(Entries) /\ Len(v) = HalfNodes(h)
  BY <1>1, <1>2
<1>5. e \in Seq(Entries) /\ Len(e) = HalfEdges(h)
  BY <1>1, <1>3
<1>6. Contribution(h) = v \o e
  BY DEF Contribution, HalfNodes, HalfEdges
<1>7. \A i \in 1 .. HalfNodes(h) : v[i] = Node(From(h, conf.nodes).first + i)
  OBVIOUS
<1>8. \A i \in 1 .. HalfEdges(h) : e[i] = BenchmarkEdge
  OBVIOUS
<1> HIDE DEF v, e
<1>9. /\ v \o e \in Seq(Entries)
      /\ Len(v \o e) = HalfNodes(h) + HalfEdges(h)
      /\ \A i \in 1 .. HalfNodes(h) + HalfEdges(h) :
           (v \o e)[i] = IF i <= HalfNodes(h) THEN v[i] ELSE e[i - HalfNodes(h)]
  BY <1>4, <1>5, ConcatProperties
<1>10. Size(h) = HalfNodes(h) + HalfEdges(h)
  BY <1>6, <1>9 DEF Size
<1>11. ASSUME NEW i \in 1 .. Size(h)
       PROVE  Contribution(h)[i] = IF i <= HalfNodes(h) THEN Node(From(h, conf.nodes).first + i)
                                   ELSE BenchmarkEdge
  <2>1. CASE i <= HalfNodes(h)
    BY <1>1, <1>6, <1>7, <1>9, <1>10, <2>1
  <2>2. CASE i > HalfNodes(h)
    <3>1. i - HalfNodes(h) \in 1 .. HalfEdges(h)
      BY <1>1, <1>10, <2>2
    <3> QED
      BY <1>1, <1>6, <1>8, <1>9, <1>10, <2>2, <3>1
  <2> QED
    BY <1>1, <2>1, <2>2
<1> QED
  BY <1>1, <1>6, <1>9, <1>10, <1>11

(* Sizes add up, and the list is one half behind the other. *)
LEMMA ListEntries ==
  ASSUME conf \in Confs
  PROVE  /\ Size(0) \in Nat /\ Size(1) \in Nat \ {0} /\ Size(0) + Size(1) = conf.entries
         /\ Len(List) = conf.entries /\ DOMAIN List = 1 .. conf.entries
         /\ \A i \in 1 .. conf.entries :
              /\ List[i] \in Entries
              /\ List[i] = IF i <= Size(0) THEN Contribution(0)[i] ELSE Contribution(1)[i - Size(0)]
<1>1. /\ Contribution(0) \in Seq(Entries) /\ Contribution(1) \in Seq(Entries)
      /\ Size(0) \in Nat /\ Size(1) \in Nat /\ Size(0) = HalfNodes(0) + HalfEdges(0)
      /\ Size(1) = HalfNodes(1) + HalfEdges(1)
  BY HalfEntries DEF Half
<1>2. Size(1) # 0 /\ Size(0) + Size(1) = conf.entries
  <2>1. /\ conf.nodes \in Nat /\ conf.entries \in Nat
        /\ HalfNodes(0) \in Nat /\ HalfNodes(1) \in Nat /\ HalfEdges(0) \in Nat /\ HalfEdges(1) \in Nat
        /\ HalfNodes(0) + HalfNodes(1) = conf.nodes /\ HalfNodes(1) > 0
        /\ HalfEdges(0) + HalfEdges(1) = conf.entries - conf.nodes
    BY HalfCounts DEF Half
  <2>2. PICK n0 \in Nat, n1 \in Nat, e0 \in Nat, e1 \in Nat, n \in Nat, t \in Nat :
          /\ n0 = HalfNodes(0) /\ n1 = HalfNodes(1) /\ e0 = HalfEdges(0) /\ e1 = HalfEdges(1)
          /\ n = conf.nodes /\ t = conf.entries
    BY <2>1
  <2>3. Size(0) = n0 + e0 /\ Size(1) = n1 + e1
    BY <1>1, <2>2
  <2>4. n0 + n1 = n /\ n1 > 0 /\ e0 + e1 = t - n
    BY <2>1, <2>2
  <2>5. n1 + e1 # 0 /\ (n0 + e0) + (n1 + e1) = t
    BY <2>4
  <2> QED
    BY <2>2, <2>3, <2>5
<1>3. /\ List \in Seq(Entries) /\ Len(List) = conf.entries
      /\ \A i \in 1 .. conf.entries :
           List[i] = IF i <= Size(0) THEN Contribution(0)[i] ELSE Contribution(1)[i - Size(0)]
  BY <1>1, <1>2, ConcatProperties DEF List, Size
<1>4. DOMAIN List = 1 .. conf.entries
  BY <1>3, LenProperties
<1>5. \A i \in 1 .. conf.entries : List[i] \in Entries
  BY <1>3, ElementOfSeq
<1> QED
  BY <1>1, <1>2, <1>3, <1>4, <1>5

------------------------------------------------------------------------------
(* The shares of a column *)

\* The values drawn from rng_01 before column k of half h.
DrawnBefore(h, k) == (k - 1) * Size(h) + (IF h = 0 THEN 0 ELSE Columns(conf) * Size(0))
SharesOf(p, h, k) ==
  [i \in 1 .. Size(h) |->
     IF p = h THEN <<ColumnOf(conf, k, Contribution(h)[i]), -(DrawnBefore(h, k) + i)>>
     ELSE <<0, DrawnBefore(h, k) + i>>]
WholeColumn(p, k) == SharesOf(p, 0, k) \o SharesOf(p, 1, k)

Shares == Int \X Int

(* A column has integers in it. *)
LEMMA ColumnType ==
  ASSUME conf \in Confs, NEW k \in 1 .. Columns(conf), NEW e \in Entries
  PROVE  ColumnOf(conf, k, e) \in Int
<1>1. NBits(conf) \in Nat
  BY EnoughBits
<1>2. k \in Nat \ {0} /\ k <= 2 * NBits(conf) + 4
  BY <1>1 DEF Columns
<1>3. e.src \in Nat /\ e.dst \in Nat /\ e.isV \in Nat /\ e.data \in Nat
  BY DEF Entries
<1>4. \A v, j \in Nat : BitOf(v, j) \in Int
  <2> SUFFICES ASSUME NEW v \in Nat, NEW j \in Nat PROVE BitOf(v, j) \in Int
    OBVIOUS
  <2>1. PICK q \in Nat : q = Power[j] /\ q > 0
    BY PowerGrows
  <2>2. v \div q \in Int
    BY <2>1
  <2> QED
    BY <2>1, <2>2 DEF BitOf
<1>5. CASE BitColumn(conf, k)
  <2>1. (k - 1) \div 2 \in Nat
    BY <1>2
  <2> QED
    BY <1>3, <1>4, <1>5, <2>1 DEF ColumnOf
<1>6. CASE ~ BitColumn(conf, k)
  <2>1. k - 2 * NBits(conf) \in 1 .. 4
    BY <1>1, <1>2, <1>6 DEF BitColumn
  <2>2. FieldNames[k - 2 * NBits(conf)] \in {"src", "dst", "isV", "data"}
    BY <2>1 DEF FieldNames
  <2>3. \A f \in {"src", "dst", "isV", "data"} : e[f] \in Nat
    BY DEF Entries
  <2> QED
    BY <1>6, <2>2, <2>3 DEF ColumnOf
<1> QED
  BY <1>5, <1>6

(* So have the masks. *)
LEMMA DrawnType ==
  ASSUME conf \in Confs, NEW h \in Half, NEW k \in Nat
  PROVE  DrawnBefore(h, k) \in Int /\ DrawnBefore(h, k) + Size(h) = DrawnBefore(h, k + 1)
<1>1. NBits(conf) \in Nat /\ Columns(conf) \in Nat
  BY EnoughBits DEF Columns
<1>2. Size(0) \in Nat /\ Size(h) \in Nat
  BY HalfEntries DEF Half
<1>3. \A a, b \in Nat : a * b \in Int
  OBVIOUS
<1>4. \A s \in Nat : (k - 1) * s \in Int /\ (k - 1) * s + s = ((k + 1) - 1) * s
  OBVIOUS
<1>5. PICK c \in Int : c = Columns(conf) * Size(0)
  BY <1>1, <1>2, <1>3
<1>6. PICK s \in Nat : s = Size(h)
  BY <1>2
<1>7. PICK d \in Int : d = IF h = 0 THEN 0 ELSE Columns(conf) * Size(0)
  BY <1>5
<1>8. DrawnBefore(h, k) = (k - 1) * s + d /\ DrawnBefore(h, k + 1) = ((k + 1) - 1) * s + d
  BY <1>6, <1>7 DEF DrawnBefore
<1>9. PICK a \in Int, b \in Int : a = (k - 1) * s /\ b = ((k + 1) - 1) * s /\ a + s = b
  BY <1>4
<1> QED
  BY <1>6, <1>8, <1>9

LEMMA SharesType ==
  ASSUME conf \in Confs, NEW p \in Half, NEW h \in Half, NEW k \in 1 .. Columns(conf)
  PROVE  SharesOf(p, h, k) \in Seq(Shares) /\ Len(SharesOf(p, h, k)) = Size(h)
<1>1. Size(h) \in Nat /\ Contribution(h) \in Seq(Entries)
  BY HalfEntries
<1>2. k \in Nat
  BY EnoughBits DEF Columns
<1>3. DrawnBefore(h, k) \in Int
  BY <1>2, DrawnType
<1>4. \A i \in 1 .. Size(h) : ColumnOf(conf, k, Contribution(h)[i]) \in Int
  BY <1>1, ElementOfSeq, ColumnType DEF Size
<1>5. \A i \in 1 .. Size(h) :
        (IF p = h THEN <<ColumnOf(conf, k, Contribution(h)[i]), -(DrawnBefore(h, k) + i)>>
         ELSE <<0, DrawnBefore(h, k) + i>>) \in Shares
  BY <1>1, <1>3, <1>4 DEF Shares
<1>6. SharesOf(p, h, k) \in [1 .. Size(h) -> Shares]
  BY <1>5 DEF SharesOf
<1> QED
  BY <1>1, <1>6

(* The two shares of a column open to the column of the list, without a
   mask. *)
LEMMA ColumnOpens ==
  ASSUME conf \in Confs, NEW p \in Half, NEW k \in 1 .. Columns(conf)
  PROVE  /\ WholeColumn(p, k) \in Seq(Shares)
         /\ Len(WholeColumn(p, k)) = conf.entries
         /\ DOMAIN WholeColumn(p, k) = 1 .. conf.entries
         /\ \A i \in 1 .. conf.entries :
              OpenShares(WholeColumn(p, k)[i], WholeColumn(Opposite(p), k)[i])
                = <<ColumnOf(conf, k, List[i]), 0>>
<1> DEFINE q == Opposite(p)
<1>1. q \in Half /\ q # p /\ Half = {0, 1}
  BY DEF Half, Opposite
<1>2. /\ Size(0) \in Nat /\ Size(1) \in Nat \ {0} /\ Size(0) + Size(1) = conf.entries
      /\ \A i \in 1 .. conf.entries :
           /\ List[i] \in Entries
           /\ List[i] = IF i <= Size(0) THEN Contribution(0)[i] ELSE Contribution(1)[i - Size(0)]
  BY ListEntries
<1>3. ASSUME NEW r \in Half
      PROVE  /\ WholeColumn(r, k) \in Seq(Shares)
             /\ Len(WholeColumn(r, k)) = conf.entries
             /\ \A i \in 1 .. conf.entries :
                  WholeColumn(r, k)[i] = IF i <= Size(0) THEN SharesOf(r, 0, k)[i]
                                         ELSE SharesOf(r, 1, k)[i - Size(0)]
  <2>1. /\ SharesOf(r, 0, k) \in Seq(Shares) /\ Len(SharesOf(r, 0, k)) = Size(0)
        /\ SharesOf(r, 1, k) \in Seq(Shares) /\ Len(SharesOf(r, 1, k)) = Size(1)
    BY <1>1, SharesType
  <2>2. /\ WholeColumn(r, k) \in Seq(Shares)
        /\ Len(WholeColumn(r, k)) = Size(0) + Size(1)
        /\ \A i \in 1 .. Size(0) + Size(1) :
             WholeColumn(r, k)[i] = IF i <= Size(0) THEN SharesOf(r, 0, k)[i]
                                    ELSE SharesOf(r, 1, k)[i - Size(0)]
    <3>1. PICK s \in Seq(Shares), t \in Seq(Shares) : s = SharesOf(r, 0, k) /\ t = SharesOf(r, 1, k)
      BY <2>1
    <3>2. WholeColumn(r, k) = s \o t /\ Len(s) = Size(0) /\ Len(t) = Size(1)
      BY <2>1, <3>1 DEF WholeColumn
    <3> QED
      BY ONLY <3>1, <3>2, ConcatProperties
  <2> QED
    BY <1>2, <2>2
<1>4. ASSUME NEW h \in Half, NEW j \in 1 .. Size(h), ColumnOf(conf, k, Contribution(h)[j]) \in Int
      PROVE  OpenShares(SharesOf(p, h, k)[j], SharesOf(q, h, k)[j])
               = <<ColumnOf(conf, k, Contribution(h)[j]), 0>>
  <2>1. k \in Nat
    BY EnoughBits DEF Columns
  <2>2. PICK d \in Int : d = DrawnBefore(h, k) + j
    BY <1>2, <2>1, DrawnType DEF Half
  <2>3. PICK c \in Int : c = ColumnOf(conf, k, Contribution(h)[j])
    BY <1>4
  <2>4. CASE p = h
    <3>1. SharesOf(p, h, k)[j] = <<c, -d>> /\ SharesOf(q, h, k)[j] = <<0, d>>
      BY <1>1, <2>2, <2>3, <2>4 DEF SharesOf
    <3> QED
      BY <2>3, <3>1 DEF OpenShares
  <2>5. CASE p # h
    <3>1. SharesOf(p, h, k)[j] = <<0, d>> /\ SharesOf(q, h, k)[j] = <<c, -d>>
      BY <1>1, <2>2, <2>3, <2>5 DEF SharesOf
    <3> QED
      BY <2>3, <3>1 DEF OpenShares
  <2> QED
    BY <2>4, <2>5
<1>5. ASSUME NEW i \in 1 .. conf.entries
      PROVE  OpenShares(WholeColumn(p, k)[i], WholeColumn(q, k)[i])
               = <<ColumnOf(conf, k, List[i]), 0>>
  <2>1. ColumnOf(conf, k, List[i]) \in Int
    BY <1>2, ColumnType
  <2>2. CASE i <= Size(0)
    <3>1. i \in 1 .. Size(0) /\ List[i] = Contribution(0)[i]
      BY <1>2, <2>2
    <3>2. OpenShares(SharesOf(p, 0, k)[i], SharesOf(q, 0, k)[i]) = <<ColumnOf(conf, k, List[i]), 0>>
      BY <1>1, <1>4, <2>1, <3>1
    <3>3. WholeColumn(p, k)[i] = SharesOf(p, 0, k)[i] /\ WholeColumn(q, k)[i] = SharesOf(q, 0, k)[i]
      BY <1>1, <1>3, <2>2
    <3> QED
      BY <3>2, <3>3
  <2>3. CASE i > Size(0)
    <3>1. PICK j \in 1 .. Size(1) : j = i - Size(0)
      BY <1>2, <2>3
    <3>2. ~ (i <= Size(0)) /\ List[i] = Contribution(1)[j]
      BY <1>2, <2>3, <3>1
    <3>3. OpenShares(SharesOf(p, 1, k)[j], SharesOf(q, 1, k)[j]) = <<ColumnOf(conf, k, List[i]), 0>>
      BY <1>1, <1>4, <2>1, <3>2
    <3>4. WholeColumn(p, k)[i] = SharesOf(p, 1, k)[j] /\ WholeColumn(q, k)[i] = SharesOf(q, 1, k)[j]
      BY <1>1, <1>3, <3>1, <3>2
    <3> QED
      BY <3>3, <3>4
  <2> QED
    BY <1>2, <2>2, <2>3
<1>6. DOMAIN WholeColumn(p, k) = 1 .. conf.entries
  BY <1>3, LenProperties
<1> QED
  BY <1>3, <1>5, <1>6

------------------------------------------------------------------------------
(* Where the parties are, and what they have there *)

Stages(p) ==
  {<<"share", h, k>> : h \in Half, k \in 0 .. Columns(conf)} \cup {Joining, Final}
    \cup {OpenAt(f) : f \in 1 .. 4} \cup (IF p = 0 THEN {WaitAt(f) : f \in 1 .. 4} ELSE {})

\* At a place: the dimensions of a half are known, the party waits for a
\* field, it has the graph; the columns shared, the fields opened, the values
\* drawn.
Past(a, h) == a[1] = "share" => h < a[2] \/ (h = a[2] /\ a[3] > 0)
Waits(a) == a[1] = "wait"
Graphed(a) == a[1] \in {"open", "wait", "done"}
Columned(a, h) ==
  IF a[1] # "share" \/ h < a[2] THEN Columns(conf)
  ELSE IF h = a[2] /\ a[3] > 0 THEN a[3] - 1 ELSE 0
Fields(a) == IF a[1] = "done" THEN 4 ELSE IF a[1] \in {"open", "wait"} THEN a[3] - 1 ELSE 0
Drawn(a) ==
  IF a[1] # "share" THEN DrawnBefore(1, Columns(conf) + 1)
  ELSE DrawnBefore(a[2], IF a[3] = 0 THEN 1 ELSE a[3])

FieldOf(p, f) == WholeColumn(p, 2 * NBits(conf) + f)
OpenedField(f) == [i \in DOMAIN List |-> <<List[i][FieldNames[f]], 0>>]
WholeGraph(p) == [entries |-> conf.entries, nodes |-> conf.nodes,
             columns |-> [k \in 1 .. Columns(conf) |-> WholeColumn(p, k)]]

DimsAt(a) == [h \in Half |-> IF Past(a, h) THEN DimsOf(h) ELSE NoDims]
PartsAt(p, a) == [h \in Half |-> [k \in 1 .. Columned(a, h) |-> SharesOf(p, h, k)]]
JoinedAt(p, a) == IF Graphed(a) THEN WholeGraph(p) ELSE NoGraph
RevealedAt(a) == [f \in 1 .. Fields(a) |-> OpenedField(f)]

\* The places of P0 and P1 fit together.
Together(a, b) ==
  /\ Past(a, 1) => Past(b, 1)
  /\ Past(b, 0) => Past(a, 0)
  /\ Fields(a) <= Fields(b) /\ Fields(b) <= Fields(a) + 1
  /\ Fields(b) > Fields(a) => Waits(a)

\* What is on the way to each when P0 is at a and P1 at b.
Toward0(a, b) ==
  IF Past(b, 1) /\ ~Past(a, 1) THEN <<Size(1), HalfNodes(1)>>
  ELSE IF Waits(a) /\ Fields(b) > Fields(a) THEN FieldOf(1, Fields(b)) ELSE <<>>
Toward1(a, b) ==
  IF Past(a, 0) /\ ~Past(b, 0) THEN <<Size(0), HalfNodes(0)>>
  ELSE IF Waits(a) /\ Fields(b) = Fields(a) THEN FieldOf(0, Fields(a) + 1) ELSE <<>>

\* All that a party has follows from where it is, and what is on the way from
\* where both are.
InPlace(loc) ==
  /\ loc = [p \in Half |-> loc[p]] /\ loc[0] \in Stages(0) /\ loc[1] \in Stages(1)
  /\ Together(loc[0], loc[1])
  /\ rng01 = [p \in Half |-> Drawn(loc[p])]
  /\ dims = [p \in Half |-> DimsAt(loc[p])]
  /\ parts = [p \in Half |-> PartsAt(p, loc[p])]
  /\ joined = [p \in Half |-> JoinedAt(p, loc[p])]
  /\ revealed = [p \in Half |-> RevealedAt(loc[p])]
  /\ toward = [p \in Half |-> IF p = 0 THEN Toward0(loc[0], loc[1]) ELSE Toward1(loc[0], loc[1])]

SharingInv == conf \in Confs /\ \E loc : at = loc /\ InPlace(loc)

(* What the places come to. *)
LEMMA PlaceFacts ==
  ASSUME conf \in Confs
  PROVE  /\ Columns(conf) \in Nat /\ Columns(conf) >= 4
         /\ \A h \in Half, k \in 0 .. Columns(conf) :
              LET a == <<"share", h, k>> IN
              /\ ~Waits(a) /\ ~Graphed(a) /\ Fields(a) = 0
              /\ Drawn(a) = DrawnBefore(h, IF k = 0 THEN 1 ELSE k)
              /\ \A g \in Half :
                   /\ Past(a, g) <=> g < h \/ (g = h /\ k > 0)
                   /\ Columned(a, g) = IF g < h THEN Columns(conf) ELSE IF g = h /\ k > 0 THEN k - 1 ELSE 0
         /\ ~Waits(Joining) /\ ~Graphed(Joining) /\ Fields(Joining) = 0
         /\ ~Waits(Final) /\ Graphed(Final) /\ Fields(Final) = 4
         /\ \A f \in 1 .. 4 : /\ ~Waits(OpenAt(f)) /\ Graphed(OpenAt(f)) /\ Fields(OpenAt(f)) = f - 1
                              /\ Waits(WaitAt(f)) /\ Graphed(WaitAt(f)) /\ Fields(WaitAt(f)) = f - 1
         /\ \A f \in 1 .. 4 : \A a \in {Joining, Final, OpenAt(f), WaitAt(f)} :
              /\ Drawn(a) = DrawnBefore(1, Columns(conf) + 1)
              /\ \A g \in Half : Past(a, g) /\ Columned(a, g) = Columns(conf)
<1>1. Columns(conf) \in Nat /\ Columns(conf) >= 4
  BY EnoughBits DEF Columns
<1>2. ASSUME NEW h \in Half, NEW k \in 0 .. Columns(conf), NEW a, a = <<"share", h, k>>
      PROVE  /\ ~Waits(a) /\ ~Graphed(a) /\ Fields(a) = 0
             /\ Drawn(a) = DrawnBefore(h, IF k = 0 THEN 1 ELSE k)
             /\ \A g \in Half :
                  /\ Past(a, g) <=> g < h \/ (g = h /\ k > 0)
                  /\ Columned(a, g) = IF g < h THEN Columns(conf) ELSE IF g = h /\ k > 0 THEN k - 1 ELSE 0
  <2>1. a[1] = "share" /\ a[2] = h /\ a[3] = k
    BY <1>2
  <2> QED
    BY <2>1 DEF Waits, Graphed, Fields, Drawn, Past, Columned
<1>3. ASSUME NEW f \in 1 .. 4, NEW a \in {Joining, Final, OpenAt(f), WaitAt(f)}
      PROVE  /\ Drawn(a) = DrawnBefore(1, Columns(conf) + 1)
             /\ \A g \in Half : Past(a, g) /\ Columned(a, g) = Columns(conf)
  <2>1. a[1] # "share"
    BY DEF Joining, Final, OpenAt, WaitAt
  <2> QED
    BY <2>1 DEF Drawn, Past, Columned
<1>4. ~Waits(Joining) /\ ~Graphed(Joining) /\ Fields(Joining) = 0
  BY DEF Joining, Waits, Graphed, Fields
<1>5. ~Waits(Final) /\ Graphed(Final) /\ Fields(Final) = 4
  BY DEF Final, Waits, Graphed, Fields
<1>6. ASSUME NEW f \in 1 .. 4
      PROVE  /\ ~Waits(OpenAt(f)) /\ Graphed(OpenAt(f)) /\ Fields(OpenAt(f)) = f - 1
             /\ Waits(WaitAt(f)) /\ Graphed(WaitAt(f)) /\ Fields(WaitAt(f)) = f - 1
  BY DEF OpenAt, WaitAt, Waits, Graphed, Fields
<1> QED
  BY <1>1, <1>2, <1>3, <1>4, <1>5, <1>6

(* A party that is past P1's half is past P0's. *)
LEMMA PastBoth ==
  ASSUME conf \in Confs, NEW p \in Half, NEW a \in Stages(p)
  PROVE  /\ Past(a, 1) => Past(a, 0)
         /\ Waits(a) => Past(a, 1)
         /\ Fields(a) \in 0 .. 4 /\ (Fields(a) > 0 => Past(a, 1))
<1>1. CASE \E h \in Half, k \in 0 .. Columns(conf) : a = <<"share", h, k>>
  <2>1. PICK h \in Half, k \in 0 .. Columns(conf) : a = <<"share", h, k>>
    BY <1>1
  <2>2. /\ ~Waits(a) /\ Fields(a) = 0
        /\ \A g \in Half : Past(a, g) <=> g < h \/ (g = h /\ k > 0)
    BY <2>1, PlaceFacts
  <2> QED
    BY <2>2 DEF Half
<1>2. CASE \E f \in 1 .. 4 : a \in {Joining, Final, OpenAt(f), WaitAt(f)}
  <2>1. PICK f \in 1 .. 4 : a \in {Joining, Final, OpenAt(f), WaitAt(f)}
    BY <1>2
  <2>2. Past(a, 0) /\ Past(a, 1)
    BY <2>1, PlaceFacts DEF Half
  <2>3. Fields(a) \in 0 .. 4
    BY <2>1, PlaceFacts
  <2> QED
    BY <2>2, <2>3
<1> QED
  BY <1>1, <1>2 DEF Stages

(* Nothing of this changes while the dimensions of the graph do not. *)
LEMMA ConfStays ==
  ASSUME conf' = conf
  PROVE  /\ \A p : Stages(p)' = Stages(p)
         /\ \A a : Drawn(a)' = Drawn(a) /\ DimsAt(a)' = DimsAt(a) /\ RevealedAt(a)' = RevealedAt(a)
         /\ \A p, a : PartsAt(p, a)' = PartsAt(p, a) /\ JoinedAt(p, a)' = JoinedAt(p, a)
         /\ \A a, b : Toward0(a, b)' = Toward0(a, b) /\ Toward1(a, b)' = Toward1(a, b)
<1>1. \A h : Contribution(h)' = Contribution(h)
  BY DEF Contribution
<1>2. \A h : Size(h)' = Size(h) /\ HalfNodes(h)' = HalfNodes(h)
  BY <1>1 DEF Size, HalfNodes
<1>3. \A h : DimsOf(h)' = DimsOf(h)
  BY <1>2 DEF DimsOf
<1>4. List' = List
  BY <1>1 DEF List
<1>5. \A h, k : DrawnBefore(h, k)' = DrawnBefore(h, k)
  BY <1>2 DEF DrawnBefore
<1>6. \A p, h, k : SharesOf(p, h, k)' = SharesOf(p, h, k)
  BY <1>1, <1>2, <1>5 DEF SharesOf
<1>7. \A p, k : WholeColumn(p, k)' = WholeColumn(p, k)
  BY <1>6 DEF WholeColumn
<1>8. \A p, f : FieldOf(p, f)' = FieldOf(p, f)
  BY <1>7 DEF FieldOf
<1>9. \A p : WholeGraph(p)' = WholeGraph(p)
  BY <1>7 DEF WholeGraph
<1>10. \A f : OpenedField(f)' = OpenedField(f)
  BY <1>4 DEF OpenedField
<1>11. \A p : Stages(p)' = Stages(p)
  BY DEF Stages
<1>12. \A a : Drawn(a)' = Drawn(a) /\ DimsAt(a)' = DimsAt(a) /\ RevealedAt(a)' = RevealedAt(a)
  BY <1>3, <1>5, <1>10 DEF Drawn, DimsAt, RevealedAt
<1>13. \A a, h : Columned(a, h)' = Columned(a, h)
  BY DEF Columned
<1>14. \A p, a : PartsAt(p, a)' = PartsAt(p, a) /\ JoinedAt(p, a)' = JoinedAt(p, a)
  BY <1>6, <1>9, <1>13 DEF PartsAt, JoinedAt
<1>15. \A a, b : Toward0(a, b)' = Toward0(a, b) /\ Toward1(a, b)' = Toward1(a, b)
  BY <1>2, <1>8 DEF Toward0, Toward1
<1> QED
  BY <1>11, <1>12, <1>14, <1>15

------------------------------------------------------------------------------
(* The steps *)

(* A sequence that grows by its next element. *)
LEMMA AppendNext ==
  ASSUME NEW n \in Nat, NEW f, f = [j \in 1 .. n + 1 |-> f[j]]
  PROVE  Append([j \in 1 .. n |-> f[j]], f[n + 1]) = f
<1> DEFINE S == {f[j] : j \in 1 .. n + 1}
<1>1. PICK s : s = [j \in 1 .. n |-> f[j]]
  OBVIOUS
<1>2. s \in Seq(S) /\ Len(s) = n /\ f[n + 1] \in S
  <2>1. \A j \in 1 .. n + 1 : f[j] \in S
    OBVIOUS
  <2> HIDE DEF S
  <2>2. n + 1 \in 1 .. n + 1 /\ \A j \in 1 .. n : j \in 1 .. n + 1
    OBVIOUS
  <2>3. s \in [1 .. n -> S]
    BY <1>1, <2>1, <2>2
  <2> QED
    BY <1>1, <2>1, <2>2, <2>3
<1>3. f \in Seq(S) /\ Len(f) = n + 1
  OBVIOUS
<1> HIDE DEF S
<1>4. /\ Append(s, f[n + 1]) \in Seq(S) /\ Len(Append(s, f[n + 1])) = n + 1
      /\ \A j \in 1 .. n : Append(s, f[n + 1])[j] = s[j]
      /\ Append(s, f[n + 1])[n + 1] = f[n + 1]
  BY <1>2, AppendProperties
<1>5. \A j \in 1 .. n + 1 : Append(s, f[n + 1])[j] = f[j]
  BY <1>1, <1>4
<1>6. Append(s, f[n + 1]) = f
  BY <1>3, <1>4, <1>5, SeqEqual
<1> QED
  BY <1>1, <1>6

\* A party moves to b, and then has what belongs there; m is where both are.
Moves(p, b, m) ==
  /\ b \in Stages(p) /\ Together(m[0], m[1])
  /\ at' = [at EXCEPT ![p] = b]
  /\ rng01' = [rng01 EXCEPT ![p] = Drawn(b)]
  /\ dims' = [dims EXCEPT ![p] = DimsAt(b)]
  /\ parts' = [parts EXCEPT ![p] = PartsAt(p, b)]
  /\ joined' = [joined EXCEPT ![p] = JoinedAt(p, b)]
  /\ revealed' = [revealed EXCEPT ![p] = RevealedAt(b)]
  /\ toward' = [q \in Half |-> IF q = 0 THEN Toward0(m[0], m[1]) ELSE Toward1(m[0], m[1])]

(* A party that moves like this keeps the invariant. *)
LEMMA MoveInv ==
  ASSUME conf \in Confs, conf' = conf, NEW loc, at = loc, InPlace(loc),
         NEW p \in Half, NEW b, NEW m, m = [loc EXCEPT ![p] = b], Moves(p, b, m)
  PROVE  SharingInv'
<1> USE DEF Moves
<1>1. /\ DOMAIN loc = Half /\ loc[0] \in Stages(0) /\ loc[1] \in Stages(1)
      /\ rng01 = [q \in Half |-> Drawn(loc[q])]
      /\ dims = [q \in Half |-> DimsAt(loc[q])]
      /\ parts = [q \in Half |-> PartsAt(q, loc[q])]
      /\ joined = [q \in Half |-> JoinedAt(q, loc[q])]
      /\ revealed = [q \in Half |-> RevealedAt(loc[q])]
  BY DEF InPlace
<1>2. m = [q \in Half |-> m[q]] /\ \A q \in Half : m[q] = IF q = p THEN b ELSE loc[q]
  BY <1>1
<1>3. m[0] \in Stages(0) /\ m[1] \in Stages(1)
  BY <1>1, <1>2 DEF Half
<1>4. rng01' = [q \in Half |-> Drawn(m[q])]
  BY <1>1, <1>2
<1>5. dims' = [q \in Half |-> DimsAt(m[q])]
  BY <1>1, <1>2
<1>6. parts' = [q \in Half |-> PartsAt(q, m[q])]
  BY <1>1, <1>2
<1>7. joined' = [q \in Half |-> JoinedAt(q, m[q])]
  BY <1>1, <1>2
<1>8. revealed' = [q \in Half |-> RevealedAt(m[q])]
  BY <1>1, <1>2
<1>9. InPlace(m)'
  <2>1. m[0] \in Stages(0)' /\ m[1] \in Stages(1)'
    BY <1>3, ConfStays
  <2>2. rng01' = [q \in Half |-> Drawn(m[q])']
    BY <1>4, ConfStays
  <2>3. dims' = [q \in Half |-> DimsAt(m[q])']
    BY <1>5, ConfStays
  <2>4. parts' = [q \in Half |-> PartsAt(q, m[q])']
    <3>1. \A q \in Half : PartsAt(q, m[q])' = PartsAt(q, m[q])
      BY ConfStays
    <3> QED
      BY <1>6, <3>1
  <2>5. joined' = [q \in Half |-> JoinedAt(q, m[q])']
    <3>1. \A q \in Half : JoinedAt(q, m[q])' = JoinedAt(q, m[q])
      BY ConfStays
    <3> QED
      BY <1>7, <3>1
  <2>6. revealed' = [q \in Half |-> RevealedAt(m[q])']
    BY <1>8, ConfStays
  <2>7. toward' = [q \in Half |-> IF q = 0 THEN Toward0(m[0], m[1])' ELSE Toward1(m[0], m[1])']
    BY ConfStays
  <2> QED
    BY <1>2, <2>1, <2>2, <2>3, <2>4, <2>5, <2>6, <2>7 DEF InPlace
<1>10. at' = m
  OBVIOUS
<1> QED
  BY <1>9, <1>10 DEF SharingInv

(* What is known of a party in a stage. *)
LEMMA InPlaceFacts ==
  ASSUME conf \in Confs, NEW loc, InPlace(loc), NEW p \in Half
  PROVE  /\ loc[p] \in Stages(p) /\ loc[0] \in Stages(0) /\ loc[1] \in Stages(1)
         /\ Together(loc[0], loc[1])
         /\ DOMAIN loc = Half
         /\ rng01[p] = Drawn(loc[p]) /\ rng01 = [q \in Half |-> rng01[q]]
         /\ dims[p] = DimsAt(loc[p]) /\ dims = [q \in Half |-> dims[q]]
         /\ parts[p] = PartsAt(p, loc[p]) /\ parts = [q \in Half |-> parts[q]]
         /\ joined[p] = JoinedAt(p, loc[p]) /\ joined = [q \in Half |-> joined[q]]
         /\ revealed[p] = RevealedAt(loc[p]) /\ revealed = [q \in Half |-> revealed[q]]
         /\ toward = [q \in Half |-> IF q = 0 THEN Toward0(loc[0], loc[1]) ELSE Toward1(loc[0], loc[1])]
         /\ \A a \in Stages(0), b \in Stages(1) :
              /\ (Past(a, 1) => Past(a, 0)) /\ (Past(b, 1) => Past(b, 0))
              /\ Fields(a) \in 0 .. 4 /\ Fields(b) \in 0 .. 4
              /\ (Waits(a) => Past(a, 1)) /\ (Fields(a) > 0 => Past(a, 1))
              /\ (Fields(b) > 0 => Past(b, 1))
<1>1. /\ DOMAIN loc = Half /\ loc[0] \in Stages(0) /\ loc[1] \in Stages(1)
      /\ Together(loc[0], loc[1])
      /\ rng01 = [q \in Half |-> Drawn(loc[q])]
      /\ dims = [q \in Half |-> DimsAt(loc[q])]
      /\ parts = [q \in Half |-> PartsAt(q, loc[q])]
      /\ joined = [q \in Half |-> JoinedAt(q, loc[q])]
      /\ revealed = [q \in Half |-> RevealedAt(loc[q])]
      /\ toward = [q \in Half |-> IF q = 0 THEN Toward0(loc[0], loc[1]) ELSE Toward1(loc[0], loc[1])]
  BY DEF InPlace
<1>2. loc[p] \in Stages(p)
  BY <1>1 DEF Half
<1>3. /\ rng01[p] = Drawn(loc[p]) /\ rng01 = [q \in Half |-> rng01[q]]
      /\ dims[p] = DimsAt(loc[p]) /\ dims = [q \in Half |-> dims[q]]
  BY <1>1
<1>4. /\ parts[p] = PartsAt(p, loc[p]) /\ parts = [q \in Half |-> parts[q]]
      /\ joined[p] = JoinedAt(p, loc[p]) /\ joined = [q \in Half |-> joined[q]]
      /\ revealed[p] = RevealedAt(loc[p]) /\ revealed = [q \in Half |-> revealed[q]]
  BY <1>1
<1>5. 0 \in Half /\ 1 \in Half
  BY DEF Half
<1>6. \A a \in Stages(0), b \in Stages(1) :
        /\ (Past(a, 1) => Past(a, 0)) /\ (Past(b, 1) => Past(b, 0))
        /\ Fields(a) \in 0 .. 4 /\ Fields(b) \in 0 .. 4
        /\ (Waits(a) => Past(a, 1)) /\ (Fields(a) > 0 => Past(a, 1))
        /\ (Fields(b) > 0 => Past(b, 1))
  BY <1>5, PastBoth
<1> QED
  BY <1>1, <1>2, <1>3, <1>4, <1>6

AsFar(a, b) ==
  /\ \A g \in Half : Past(a, g) <=> Past(b, g)
  /\ Waits(a) <=> Waits(b)
  /\ Fields(a) = Fields(b)

\* The places fit together, and what is on the way is the same for both.
SameStreams(m, loc) ==
  /\ Together(m[0], m[1])
  /\ Toward0(m[0], m[1]) = Toward0(loc[0], loc[1])
  /\ Toward1(m[0], m[1]) = Toward1(loc[0], loc[1])

(* A step that does not change how far the halves are known and the fields
   opened changes nothing on the way. *)
LEMMA SameProgress ==
  ASSUME conf \in Confs, NEW loc, InPlace(loc), NEW p \in Half, NEW b, AsFar(b, loc[p]),
         NEW m, m = [loc EXCEPT ![p] = b]
  PROVE  SameStreams(m, loc)
<1>1. DOMAIN loc = Half /\ Together(loc[0], loc[1])
  BY DEF InPlace
<1>2. \A q \in Half : m[q] = IF q = p THEN b ELSE loc[q]
  BY <1>1
<1>3. \A q \in Half : /\ \A g \in Half : Past(m[q], g) <=> Past(loc[q], g)
                      /\ Waits(m[q]) <=> Waits(loc[q])
                      /\ Fields(m[q]) = Fields(loc[q])
  BY <1>2 DEF AsFar
<1>4. 0 \in Half /\ 1 \in Half
  BY DEF Half
<1>5. Together(m[0], m[1])
  BY <1>1, <1>3, <1>4 DEF Together
<1>6. Toward0(m[0], m[1]) = Toward0(loc[0], loc[1])
  BY <1>3, <1>4 DEF Toward0
<1>7. Toward1(m[0], m[1]) = Toward1(loc[0], loc[1])
  BY <1>3, <1>4 DEF Toward1
<1> QED
  BY <1>5, <1>6, <1>7 DEF SameStreams

(* The owner of a half announces its dimensions. *)
LEMMA SendDimsStep ==
  ASSUME SharingInv, NEW p \in Half, SendDims(p)
  PROVE  SharingInv'
<1>1. PICK loc : at = loc /\ InPlace(loc)
  BY DEF SharingInv
<1>2. conf \in Confs /\ conf' = conf
  BY DEF SharingInv, SendDims
<1>3. PICK a, b, m : a = <<"share", p, 0>> /\ b = <<"share", p, 1>> /\ m = [loc EXCEPT ![p] = b]
  OBVIOUS
<1>4. loc[p] = a /\ at' = [at EXCEPT ![p] = b]
  BY <1>1, <1>3 DEF SendDims, InHalf
<1>5. /\ b \in Stages(p) /\ ~Waits(a) /\ ~Graphed(a) /\ Fields(a) = 0
      /\ ~Waits(b) /\ ~Graphed(b) /\ Fields(b) = 0 /\ Drawn(a) = Drawn(b)
      /\ \A g \in Half : /\ Past(a, g) <=> g < p
                         /\ Past(b, g) <=> g < p \/ g = p
                         /\ Columned(a, g) = Columned(b, g)
  <2>1. 0 \in 0 .. Columns(conf) /\ 1 \in 0 .. Columns(conf)
    BY <1>2, PlaceFacts
  <2>2. b \in Stages(p)
    BY <1>3, <2>1 DEF Stages
  <2>3. /\ ~Waits(a) /\ ~Graphed(a) /\ Fields(a) = 0 /\ Drawn(a) = DrawnBefore(p, 1)
        /\ \A g \in Half : (Past(a, g) <=> g < p) /\ Columned(a, g) = IF g < p THEN Columns(conf) ELSE 0
    BY <1>2, <1>3, <2>1, PlaceFacts
  <2>4. /\ ~Waits(b) /\ ~Graphed(b) /\ Fields(b) = 0 /\ Drawn(b) = DrawnBefore(p, 1)
        /\ \A g \in Half : (Past(b, g) <=> g < p \/ g = p) /\ Columned(b, g) = IF g < p THEN Columns(conf) ELSE 0
    BY <1>2, <1>3, <2>1, PlaceFacts
  <2> QED
    BY <2>2, <2>3, <2>4
<1>6. rng01' = [rng01 EXCEPT ![p] = Drawn(b)]
  <2>1. rng01' = rng01 /\ rng01[p] = Drawn(b)
    BY <1>1, <1>2, <1>4, <1>5, InPlaceFacts DEF SendDims
  <2> QED
    BY <1>1, <1>2, <2>1, InPlaceFacts
<1>7. dims' = [dims EXCEPT ![p] = DimsAt(b)]
  <2>1. dims' = [dims EXCEPT ![p][p] = DimsOf(p)]
    BY DEF SendDims, DimsOf, Size, HalfNodes
  <2>2. dims[p] = DimsAt(a)
    BY <1>1, <1>2, <1>4, InPlaceFacts
  <2>3. DimsAt(b) = [DimsAt(a) EXCEPT ![p] = DimsOf(p)]
    BY <1>5 DEF DimsAt, Half
  <2> QED
    BY <2>1, <2>2, <2>3
<1>8. parts' = [parts EXCEPT ![p] = PartsAt(p, b)]
  <2>1. parts' = parts /\ parts[p] = PartsAt(p, a)
    BY <1>1, <1>2, <1>4, InPlaceFacts DEF SendDims
  <2>2. PartsAt(p, b) = PartsAt(p, a)
    BY <1>5 DEF PartsAt
  <2> QED
    BY <1>1, <1>2, <2>1, <2>2, InPlaceFacts
<1>9. joined' = [joined EXCEPT ![p] = JoinedAt(p, b)] /\ revealed' = [revealed EXCEPT ![p] = RevealedAt(b)]
  <2>1. /\ joined' = joined /\ joined[p] = JoinedAt(p, a)
        /\ revealed' = revealed /\ revealed[p] = RevealedAt(a)
    BY <1>1, <1>2, <1>4, InPlaceFacts DEF SendDims
  <2>2. JoinedAt(p, b) = JoinedAt(p, a) /\ RevealedAt(b) = RevealedAt(a)
    BY <1>5 DEF JoinedAt, RevealedAt
  <2> QED
    BY <1>1, <1>2, <2>1, <2>2, InPlaceFacts
<1>10. /\ Together(m[0], m[1])
       /\ toward' = [q \in Half |-> IF q = 0 THEN Toward0(m[0], m[1]) ELSE Toward1(m[0], m[1])]
  <2>1. /\ loc[0] \in Stages(0) /\ loc[1] \in Stages(1) /\ Together(loc[0], loc[1]) /\ DOMAIN loc = Half
        /\ toward = [q \in Half |-> IF q = 0 THEN Toward0(loc[0], loc[1]) ELSE Toward1(loc[0], loc[1])]
        /\ \A d \in Stages(0), e \in Stages(1) :
              /\ (Past(d, 1) => Past(d, 0)) /\ (Past(e, 1) => Past(e, 0))
              /\ Fields(d) \in 0 .. 4 /\ Fields(e) \in 0 .. 4
              /\ (Waits(d) => Past(d, 1)) /\ (Fields(d) > 0 => Past(d, 1))
              /\ (Fields(e) > 0 => Past(e, 1))
    BY <1>1, <1>2, InPlaceFacts
  <2>2. toward' = [toward EXCEPT ![Opposite(p)] = @ \o <<Size(p), HalfNodes(p)>>]
    BY DEF SendDims, Size, HalfNodes
  <2>3. <<>> \o <<Size(p), HalfNodes(p)>> = <<Size(p), HalfNodes(p)>>
    <3>1. <<Size(p), HalfNodes(p)>> \in Seq({Size(p), HalfNodes(p)})
      OBVIOUS
    <3> QED
      BY <3>1, ConcatEmptySeq
  <2>4. CASE p = 0
    <3>1. m[0] = b /\ m[1] = loc[1] /\ loc[0] = a /\ Opposite(p) = 1
      BY <1>3, <1>4, <2>1, <2>4 DEF Opposite, Half
    <3>2. ~Past(a, 0) /\ ~Past(a, 1) /\ Past(b, 0) /\ ~Past(b, 1)
      BY <1>5, <2>4 DEF Half
    <3>3. ~Past(loc[1], 0) /\ ~Past(loc[1], 1) /\ Fields(loc[1]) = 0
      BY <1>5, <2>1, <3>1, <3>2 DEF Together
    <3>4. Together(m[0], m[1])
      BY <1>5, <3>1, <3>2, <3>3 DEF Together
    <3>5. Toward0(m[0], m[1]) = <<>> /\ Toward1(m[0], m[1]) = <<Size(0), HalfNodes(0)>>
      BY <1>5, <3>1, <3>2, <3>3 DEF Toward0, Toward1
    <3>6. Toward0(loc[0], loc[1]) = <<>> /\ Toward1(loc[0], loc[1]) = <<>>
      BY <1>5, <3>1, <3>2, <3>3 DEF Toward0, Toward1
    <3>7. toward = [q \in Half |-> <<>>]
      BY <2>1, <3>6
    <3>8. toward' = [q \in Half |-> IF q = 0 THEN <<>> ELSE <<Size(0), HalfNodes(0)>>]
      <4>1. toward[1] = <<>> /\ toward' = [toward EXCEPT ![1] = <<Size(0), HalfNodes(0)>>]
        BY <2>2, <2>3, <2>4, <3>1, <3>7 DEF Half
      <4> QED
        <5>1. PICK w, e : w = <<Size(0), HalfNodes(0)>> /\ e = <<>>
          OBVIOUS
        <5>2. toward = [q \in Half |-> e] /\ toward' = [toward EXCEPT ![1] = w]
          BY <3>7, <4>1, <5>1
        <5>3. \A q \in Half : q # 1 <=> q = 0
          BY DEF Half
        <5>4. toward' = [q \in Half |-> IF q = 1 THEN w ELSE e]
          BY ONLY <5>2
        <5>5. toward' = [q \in Half |-> IF q = 0 THEN e ELSE w]
          BY <5>3, <5>4
        <5> QED
          BY <5>1, <5>5
    <3> QED
      BY <3>4, <3>5, <3>8
  <2>5. CASE p = 1
    <3>1. m[1] = b /\ m[0] = loc[0] /\ loc[1] = a /\ Opposite(p) = 0
      BY <1>3, <1>4, <2>1, <2>5 DEF Opposite, Half
    <3>2. Past(a, 0) /\ ~Past(a, 1) /\ Past(b, 0) /\ Past(b, 1)
      BY <1>5, <2>5 DEF Half
    <3>3. Past(loc[0], 0) /\ ~Past(loc[0], 1) /\ Fields(loc[0]) = 0 /\ ~Waits(loc[0])
      BY <1>5, <2>1, <3>1, <3>2 DEF Together
    <3>4. Together(m[0], m[1])
      BY <1>5, <3>1, <3>2, <3>3 DEF Together
    <3>5. Toward1(m[0], m[1]) = <<>> /\ Toward0(m[0], m[1]) = <<Size(1), HalfNodes(1)>>
      BY <1>5, <3>1, <3>2, <3>3 DEF Toward0, Toward1
    <3>6. Toward0(loc[0], loc[1]) = <<>> /\ Toward1(loc[0], loc[1]) = <<>>
      BY <1>5, <3>1, <3>2, <3>3 DEF Toward0, Toward1
    <3>7. toward = [q \in Half |-> <<>>]
      BY <2>1, <3>6
    <3>8. toward' = [q \in Half |-> IF q = 0 THEN <<Size(1), HalfNodes(1)>> ELSE <<>>]
      BY <2>2, <2>3, <2>5, <3>1, <3>7 DEF Half
    <3> QED
      BY <3>4, <3>5, <3>8
  <2> QED
    BY <2>4, <2>5 DEF Half
<1>11. Moves(p, b, m)
  BY <1>4, <1>5, <1>6, <1>7, <1>8, <1>9, <1>10 DEF Moves
<1> QED
  BY <1>1, <1>2, <1>3, <1>11, MoveInv

(* The other party takes them. *)
LEMMA RecvDimsStep ==
  ASSUME SharingInv, NEW p \in Half, RecvDims(p)
  PROVE  SharingInv'
<1>1. PICK loc : at = loc /\ InPlace(loc)
  BY DEF SharingInv
<1>2. conf \in Confs /\ conf' = conf
  BY DEF SharingInv, RecvDims
<1>3. PICK h \in Half : h = Opposite(p)
  BY DEF Opposite, Half
<1>4. PICK a, b, m : a = <<"share", h, 0>> /\ b = <<"share", h, 1>> /\ m = [loc EXCEPT ![p] = b]
  OBVIOUS
<1>5. loc[p] = a /\ at' = [at EXCEPT ![p] = b]
  BY <1>1, <1>3, <1>4 DEF RecvDims, InHalf
<1>6. /\ b \in Stages(p) /\ ~Waits(a) /\ ~Graphed(a) /\ Fields(a) = 0
      /\ ~Waits(b) /\ ~Graphed(b) /\ Fields(b) = 0 /\ Drawn(a) = Drawn(b)
      /\ \A g \in Half : /\ Past(a, g) <=> g < h
                         /\ Past(b, g) <=> g < h \/ g = h
                         /\ Columned(a, g) = Columned(b, g)
  <2>1. 0 \in 0 .. Columns(conf) /\ 1 \in 0 .. Columns(conf)
    BY <1>2, PlaceFacts
  <2>2. b \in Stages(p)
    BY <1>4, <2>1 DEF Stages
  <2>3. /\ ~Waits(a) /\ ~Graphed(a) /\ Fields(a) = 0 /\ Drawn(a) = DrawnBefore(h, 1)
        /\ \A g \in Half : (Past(a, g) <=> g < h) /\ Columned(a, g) = IF g < h THEN Columns(conf) ELSE 0
    BY <1>2, <1>4, <2>1, PlaceFacts
  <2>4. /\ ~Waits(b) /\ ~Graphed(b) /\ Fields(b) = 0 /\ Drawn(b) = DrawnBefore(h, 1)
        /\ \A g \in Half : (Past(b, g) <=> g < h \/ g = h) /\ Columned(b, g) = IF g < h THEN Columns(conf) ELSE 0
    BY <1>2, <1>4, <2>1, PlaceFacts
  <2> QED
    BY <2>2, <2>3, <2>4
<1>7. rng01' = [rng01 EXCEPT ![p] = Drawn(b)]
  <2>1. rng01' = rng01 /\ rng01[p] = Drawn(b)
    BY <1>1, <1>2, <1>5, <1>6, InPlaceFacts DEF RecvDims
  <2> QED
    BY <1>1, <1>2, <2>1, InPlaceFacts
<1>8. parts' = [parts EXCEPT ![p] = PartsAt(p, b)]
  <2>1. parts' = parts /\ parts[p] = PartsAt(p, a)
    BY <1>1, <1>2, <1>5, InPlaceFacts DEF RecvDims
  <2>2. PartsAt(p, b) = PartsAt(p, a)
    BY <1>6 DEF PartsAt
  <2> QED
    BY <1>1, <1>2, <2>1, <2>2, InPlaceFacts
<1>9. joined' = [joined EXCEPT ![p] = JoinedAt(p, b)] /\ revealed' = [revealed EXCEPT ![p] = RevealedAt(b)]
  <2>1. /\ joined' = joined /\ joined[p] = JoinedAt(p, a)
        /\ revealed' = revealed /\ revealed[p] = RevealedAt(a)
    BY <1>1, <1>2, <1>5, InPlaceFacts DEF RecvDims
  <2>2. JoinedAt(p, b) = JoinedAt(p, a) /\ RevealedAt(b) = RevealedAt(a)
    BY <1>6 DEF JoinedAt, RevealedAt
  <2> QED
    BY <1>1, <1>2, <2>1, <2>2, InPlaceFacts
<1>10. /\ loc[0] \in Stages(0) /\ loc[1] \in Stages(1) /\ Together(loc[0], loc[1]) /\ DOMAIN loc = Half
       /\ toward = [q \in Half |-> IF q = 0 THEN Toward0(loc[0], loc[1]) ELSE Toward1(loc[0], loc[1])]
       /\ \A d \in Stages(0), e \in Stages(1) :
             /\ (Past(d, 1) => Past(d, 0)) /\ (Past(e, 1) => Past(e, 0))
             /\ Fields(d) \in 0 .. 4 /\ Fields(e) \in 0 .. 4
             /\ (Waits(d) => Past(d, 1)) /\ (Fields(d) > 0 => Past(d, 1))
             /\ (Fields(e) > 0 => Past(e, 1))
  BY <1>1, <1>2, InPlaceFacts
<1>11. PICK u, w : u = <<>> /\ w = <<Size(h), HalfNodes(h)>>
  OBVIOUS
<1>12. toward[p] # u /\ toward' = [toward EXCEPT ![p] = SubSeq(@, 3, Len(@))]
  <2>1. Len(<<>>) = 0
    OBVIOUS
  <2> QED
    BY <1>11, <2>1 DEF RecvDims
<1>13. Len(w) = 2 /\ w[1] = Size(h) /\ w[2] = HalfNodes(h) /\ SubSeq(w, 3, Len(w)) = u
  BY <1>11, SubSeqEmpty
<1>14. /\ Together(m[0], m[1]) /\ toward[p] = w
       /\ toward' = [q \in Half |-> IF q = 0 THEN Toward0(m[0], m[1]) ELSE Toward1(m[0], m[1])]
  <2>1. CASE p = 0
    <3>1. m[0] = b /\ m[1] = loc[1] /\ loc[0] = a /\ h = 1
      BY <1>3, <1>4, <1>5, <1>10, <2>1 DEF Opposite, Half
    <3>2. Past(a, 0) /\ ~Past(a, 1) /\ Past(b, 0) /\ Past(b, 1)
      BY <1>6, <3>1 DEF Half
    <3>3. toward[p] = Toward0(a, loc[1])
      BY <1>10, <2>1, <3>1 DEF Half
    <3>4. Past(loc[1], 1) /\ Past(loc[1], 0) /\ Fields(loc[1]) = 0
      BY <1>6, <1>10, <1>11, <1>12, <3>1, <3>2, <3>3 DEF Together, Toward0
    <3>5. Together(m[0], m[1])
      BY <1>6, <3>1, <3>2, <3>4 DEF Together
    <3>6. Toward0(m[0], m[1]) = u /\ Toward1(m[0], m[1]) = u
      BY <1>6, <1>11, <3>1, <3>2, <3>4 DEF Toward0, Toward1
    <3>7. Toward0(loc[0], loc[1]) = w /\ Toward1(loc[0], loc[1]) = u
      BY <1>6, <1>11, <3>1, <3>2, <3>4 DEF Toward0, Toward1
    <3>8. toward = [q \in Half |-> IF q = 0 THEN w ELSE u]
      BY <1>10, <3>7
    <3>9. toward' = [toward EXCEPT ![0] = u] /\ toward[0] = w
      BY <1>12, <1>13, <2>1, <3>8 DEF Half
    <3>10. toward' = [q \in Half |-> IF q = 0 THEN u ELSE u]
      BY ONLY <3>8, <3>9
    <3> QED
      BY <2>1, <3>5, <3>6, <3>9, <3>10
  <2>2. CASE p = 1
    <3>1. m[1] = b /\ m[0] = loc[0] /\ loc[1] = a /\ h = 0
      BY <1>3, <1>4, <1>5, <1>10, <2>2 DEF Opposite, Half
    <3>2. ~Past(a, 0) /\ ~Past(a, 1) /\ Past(b, 0) /\ ~Past(b, 1)
      BY <1>6, <3>1 DEF Half
    <3>3. toward[p] = Toward1(loc[0], a)
      BY <1>10, <2>2, <3>1 DEF Half
    <3>4. Past(loc[0], 0) /\ ~Past(loc[0], 1) /\ Fields(loc[0]) = 0 /\ ~Waits(loc[0])
      BY <1>6, <1>10, <1>11, <1>12, <3>1, <3>2, <3>3 DEF Together, Toward1
    <3>5. Together(m[0], m[1])
      BY <1>6, <3>1, <3>2, <3>4 DEF Together
    <3>6. Toward0(m[0], m[1]) = u /\ Toward1(m[0], m[1]) = u
      BY <1>6, <1>11, <3>1, <3>2, <3>4 DEF Toward0, Toward1
    <3>7. Toward0(loc[0], loc[1]) = u /\ Toward1(loc[0], loc[1]) = w
      BY <1>6, <1>11, <3>1, <3>2, <3>4 DEF Toward0, Toward1
    <3>8. toward = [q \in Half |-> IF q = 0 THEN u ELSE w]
      BY <1>10, <3>7
    <3>9. toward' = [toward EXCEPT ![1] = u] /\ toward[1] = w
      BY <1>12, <1>13, <2>2, <3>8 DEF Half
    <3>10. \A q \in Half : q # 1 <=> q = 0
      BY DEF Half
    <3>11. toward' = [q \in Half |-> IF q = 0 THEN u ELSE u]
      BY ONLY <3>8, <3>9, <3>10
    <3> QED
      BY <2>2, <3>5, <3>6, <3>9, <3>11
  <2> QED
    BY <2>1, <2>2 DEF Half
<1>15. dims' = [dims EXCEPT ![p] = DimsAt(b)]
  <2>1. dims' = [dims EXCEPT ![p][h] = DimsOf(h)]
    BY <1>3, <1>13, <1>14 DEF RecvDims, DimsOf
  <2>2. dims[p] = DimsAt(a)
    BY <1>1, <1>2, <1>5, InPlaceFacts
  <2>3. DimsAt(b) = [DimsAt(a) EXCEPT ![h] = DimsOf(h)]
    BY <1>6 DEF DimsAt, Half
  <2> QED
    BY <2>1, <2>2, <2>3
<1>16. Moves(p, b, m)
  BY <1>5, <1>6, <1>7, <1>8, <1>9, <1>14, <1>15 DEF Moves
<1> QED
  BY <1>1, <1>2, <1>4, <1>16, MoveInv

(* A column of shares. *)
LEMMA ShareColumnStep ==
  ASSUME SharingInv, NEW p \in Half, NEW h \in Half, ShareColumn(p, h)
  PROVE  SharingInv'
<1>1. PICK loc : at = loc /\ InPlace(loc)
  BY DEF SharingInv
<1>2. conf \in Confs /\ conf' = conf
  BY DEF SharingInv, ShareColumn
<1>3. PICK k \in 1 .. Columns(conf) : at[p] = <<"share", h, k>>
  BY DEF ShareColumn, Sharing
<1>4. PICK a, b, m : a = <<"share", h, k>> /\ b = AfterColumn(h, k) /\ m = [loc EXCEPT ![p] = b]
  OBVIOUS
<1>5. loc[p] = a /\ at' = [at EXCEPT ![p] = b]
  BY <1>1, <1>3, <1>4 DEF ShareColumn
<1>6. /\ b \in Stages(p) /\ ~Waits(a) /\ ~Graphed(a) /\ Fields(a) = 0
      /\ ~Waits(b) /\ ~Graphed(b) /\ Fields(b) = 0
      /\ Drawn(a) = DrawnBefore(h, k) /\ Drawn(b) = DrawnBefore(h, k + 1)
      /\ \A g \in Half : /\ Past(a, g) <=> Past(b, g)
                         /\ g # h => Columned(a, g) = Columned(b, g)
      /\ Past(a, h) /\ Columned(a, h) = k - 1 /\ Columned(b, h) = k
  <2>1. k \in Nat \ {0} /\ k \in 0 .. Columns(conf) /\ Columns(conf) \in Nat /\ Half = {0, 1}
    BY <1>2, PlaceFacts DEF Half
  <2>2. /\ ~Waits(a) /\ ~Graphed(a) /\ Fields(a) = 0 /\ Drawn(a) = DrawnBefore(h, k)
        /\ \A g \in Half : /\ Past(a, g) <=> g < h \/ g = h
                           /\ Columned(a, g) = IF g < h THEN Columns(conf) ELSE IF g = h THEN k - 1 ELSE 0
    BY <1>2, <1>4, <2>1, PlaceFacts
  <2>3. CASE k < Columns(conf)
    <3>1. k + 1 \in 0 .. Columns(conf) /\ k + 1 # 0 /\ b = <<"share", h, k + 1>>
      BY <1>4, <2>1, <2>3 DEF AfterColumn
    <3>2. /\ ~Waits(b) /\ ~Graphed(b) /\ Fields(b) = 0 /\ Drawn(b) = DrawnBefore(h, k + 1)
          /\ \A g \in Half : /\ Past(b, g) <=> g < h \/ g = h
                             /\ Columned(b, g) = IF g < h THEN Columns(conf) ELSE IF g = h THEN k ELSE 0
      BY <1>2, <2>1, <3>1, PlaceFacts
    <3>3. b \in Stages(p)
      BY <3>1 DEF Stages
    <3> QED
      BY <2>1, <2>2, <3>2, <3>3
  <2>4. CASE k = Columns(conf) /\ h = 0
    <3>1. b = <<"share", 1, 0>> /\ 0 \in 0 .. Columns(conf)
      BY <1>4, <2>1, <2>4 DEF AfterColumn
    <3>2. /\ ~Waits(b) /\ ~Graphed(b) /\ Fields(b) = 0 /\ Drawn(b) = DrawnBefore(1, 1)
          /\ Past(b, 0) /\ ~Past(b, 1) /\ Columned(b, 0) = Columns(conf) /\ Columned(b, 1) = 0
      BY <1>2, <2>1, <3>1, PlaceFacts
    <3>3. b \in Stages(p)
      BY <2>1, <3>1 DEF Stages
    <3>4. DrawnBefore(1, 1) = DrawnBefore(0, k + 1)
      <4>1. PICK s \in Nat, t \in Nat, n \in Nat : s = Size(0) /\ t = Size(1) /\ n = Columns(conf)
        BY <1>2, <2>1, HalfEntries
      <4>2. DrawnBefore(1, 1) = (1 - 1) * t + n * s /\ DrawnBefore(0, k + 1) = ((n + 1) - 1) * s + 0
        BY <2>4, <4>1 DEF DrawnBefore
      <4> QED
        BY <4>2
    <3> QED
      BY <2>1, <2>2, <2>4, <3>2, <3>3, <3>4
  <2>5. CASE k = Columns(conf) /\ h = 1
    <3>1. b = Joining /\ 1 \in 1 .. 4
      BY <1>4, <2>1, <2>5 DEF AfterColumn
    <3>2. /\ ~Waits(b) /\ ~Graphed(b) /\ Fields(b) = 0 /\ Drawn(b) = DrawnBefore(1, Columns(conf) + 1)
          /\ \A g \in Half : Past(b, g) /\ Columned(b, g) = Columns(conf)
      BY <1>2, <3>1, PlaceFacts
    <3>3. b \in Stages(p)
      BY <3>1 DEF Stages
    <3> QED
      BY <2>1, <2>2, <2>5, <3>2, <3>3
  <2> QED
    BY <2>1, <2>3, <2>4, <2>5
<1>7. /\ dims[p] = DimsAt(a) /\ rng01[p] = DrawnBefore(h, k) /\ parts[p] = PartsAt(p, a)
      /\ joined[p] = JoinedAt(p, a) /\ revealed[p] = RevealedAt(a)
      /\ dims = [q \in Half |-> dims[q]] /\ joined = [q \in Half |-> joined[q]]
      /\ revealed = [q \in Half |-> revealed[q]]
  BY <1>1, <1>2, <1>5, <1>6, InPlaceFacts
<1>8. dims[p][h].entries = Size(h) /\ at[p][3] = k
  BY <1>3, <1>6, <1>7 DEF DimsAt, DimsOf
<1>9. rng01' = [rng01 EXCEPT ![p] = Drawn(b)]
  <2>1. DrawnBefore(h, k) + Size(h) = DrawnBefore(h, k + 1)
    BY <1>2, DrawnType DEF Half
  <2>2. rng01' = [rng01 EXCEPT ![p] = rng01[p] + Size(h)]
    BY <1>8 DEF ShareColumn
  <2> QED
    BY <1>6, <1>7, <2>1, <2>2
<1>10. parts' = [parts EXCEPT ![p] = PartsAt(p, b)]
  <2>1. [i \in 1 .. Size(h) |-> ShareOf(p, h, k, i)] = SharesOf(p, h, k)
    BY <1>7 DEF ShareOf, SharesOf
  <2>2. parts' = [parts EXCEPT ![p][h] = Append(@, SharesOf(p, h, k))]
    BY <1>8, <2>1 DEF ShareColumn
  <2>3. PICK f : f = [j \in 1 .. k |-> SharesOf(p, h, j)]
    OBVIOUS
  <2>4. parts[p][h] = [j \in 1 .. k - 1 |-> f[j]] /\ k \in Nat \ {0}
    <3>1. k \in Nat \ {0}
      BY <1>2, PlaceFacts
    <3> QED
      BY <1>6, <1>7, <2>3, <3>1 DEF PartsAt
  <2>5. Append([j \in 1 .. k - 1 |-> f[j]], f[k]) = f
    <3>1. PICK n \in Nat : k = n + 1
      BY <2>4
    <3> QED
      BY <2>3, <3>1, AppendNext
  <2>6. parts' = [parts EXCEPT ![p][h] = f]
    <3>1. f[k] = SharesOf(p, h, k)
      BY <2>3, <2>4
    <3>2. Append(parts[p][h], SharesOf(p, h, k)) = f
      BY <2>4, <2>5, <3>1
    <3> QED
      BY <2>2, <3>2
  <2>7. PartsAt(p, b) = [PartsAt(p, a) EXCEPT ![h] = f]
    BY <1>6, <2>3 DEF PartsAt
  <2> QED
    BY <1>7, <2>6, <2>7
<1>11. dims' = [dims EXCEPT ![p] = DimsAt(b)]
  <2>1. dims' = dims /\ DimsAt(b) = DimsAt(a)
    BY <1>6 DEF DimsAt, ShareColumn
  <2> QED
    BY <1>7, <2>1
<1>12. joined' = [joined EXCEPT ![p] = JoinedAt(p, b)] /\ revealed' = [revealed EXCEPT ![p] = RevealedAt(b)]
  <2>1. /\ joined' = joined /\ revealed' = revealed
        /\ JoinedAt(p, b) = JoinedAt(p, a) /\ RevealedAt(b) = RevealedAt(a)
    BY <1>6 DEF JoinedAt, RevealedAt, ShareColumn
  <2> QED
    BY <1>7, <2>1
<1>13. /\ Together(m[0], m[1])
       /\ toward' = [q \in Half |-> IF q = 0 THEN Toward0(m[0], m[1]) ELSE Toward1(m[0], m[1])]
  <2>1. /\ Together(m[0], m[1])
        /\ Toward0(m[0], m[1]) = Toward0(loc[0], loc[1]) /\ Toward1(m[0], m[1]) = Toward1(loc[0], loc[1])
    <3>1. AsFar(b, loc[p])
      BY <1>5, <1>6 DEF AsFar
    <3>2. SameStreams(m, loc)
      BY <1>1, <1>2, <1>4, <3>1, SameProgress
    <3> QED
      BY <3>2 DEF SameStreams
  <2>2. /\ toward' = toward
        /\ toward = [q \in Half |-> IF q = 0 THEN Toward0(loc[0], loc[1]) ELSE Toward1(loc[0], loc[1])]
    BY <1>1, <1>2, InPlaceFacts DEF ShareColumn
  <2> QED
    BY <2>1, <2>2
<1>14. Moves(p, b, m)
  BY <1>5, <1>6, <1>9, <1>10, <1>11, <1>12, <1>13 DEF Moves
<1> QED
  BY <1>1, <1>2, <1>4, <1>14, MoveInv

(* The halves are joined. *)
LEMMA JoinHalvesStep ==
  ASSUME SharingInv, NEW p \in Half, JoinHalves(p)
  PROVE  SharingInv'
<1>1. PICK loc : at = loc /\ InPlace(loc)
  BY DEF SharingInv
<1>2. conf \in Confs /\ conf' = conf
  BY DEF SharingInv, JoinHalves
<1>3. PICK a, b, m : a = Joining /\ b = OpenAt(1) /\ m = [loc EXCEPT ![p] = b]
  OBVIOUS
<1>4. loc[p] = a /\ at' = [at EXCEPT ![p] = b]
  BY <1>1, <1>3 DEF JoinHalves
<1>5. 1 \in 1 .. 4 /\ a \in {Joining, Final, OpenAt(1), WaitAt(1)} /\ b \in {Joining, Final, OpenAt(1), WaitAt(1)}
  BY <1>3
<1>6. /\ b \in Stages(p) /\ ~Waits(a) /\ ~Graphed(a) /\ Fields(a) = 0
      /\ ~Waits(b) /\ Graphed(b) /\ Fields(b) = 0 /\ Drawn(a) = Drawn(b)
      /\ \A g \in Half : /\ Past(a, g) /\ Past(b, g)
                         /\ Columned(a, g) = Columns(conf) /\ Columned(b, g) = Columns(conf)
  <2>1. b \in Stages(p)
    BY <1>3, <1>5 DEF Stages
  <2>2. ~Waits(a) /\ ~Graphed(a) /\ Fields(a) = 0 /\ ~Waits(b) /\ Graphed(b) /\ Fields(b) = 0
    BY <1>2, <1>3, <1>5, PlaceFacts
  <2>3. /\ Drawn(a) = DrawnBefore(1, Columns(conf) + 1) /\ Drawn(b) = DrawnBefore(1, Columns(conf) + 1)
        /\ \A g \in Half : /\ Past(a, g) /\ Past(b, g)
                           /\ Columned(a, g) = Columns(conf) /\ Columned(b, g) = Columns(conf)
    BY <1>2, <1>5, PlaceFacts
  <2> QED
    BY <2>1, <2>2, <2>3
<1>7. /\ dims[p] = DimsAt(a) /\ rng01[p] = Drawn(a) /\ parts[p] = PartsAt(p, a)
      /\ joined[p] = JoinedAt(p, a) /\ revealed[p] = RevealedAt(a)
      /\ dims = [q \in Half |-> dims[q]] /\ joined = [q \in Half |-> joined[q]]
      /\ revealed = [q \in Half |-> revealed[q]] /\ parts = [q \in Half |-> parts[q]]
      /\ rng01 = [q \in Half |-> rng01[q]]
  BY <1>1, <1>2, <1>4, <1>6, InPlaceFacts
<1>8. rng01' = [rng01 EXCEPT ![p] = Drawn(b)] /\ dims' = [dims EXCEPT ![p] = DimsAt(b)]
  <2>1. /\ rng01' = rng01 /\ dims' = dims
        /\ DimsAt(b) = DimsAt(a)
    BY <1>6 DEF DimsAt, JoinHalves
  <2> QED
    BY <1>6, <1>7, <2>1
<1>9. parts' = [parts EXCEPT ![p] = PartsAt(p, b)] /\ revealed' = [revealed EXCEPT ![p] = RevealedAt(b)]
  <2>1. /\ parts' = parts /\ revealed' = revealed
        /\ PartsAt(p, b) = PartsAt(p, a) /\ RevealedAt(b) = RevealedAt(a)
    BY <1>6 DEF PartsAt, RevealedAt, JoinHalves
  <2> QED
    BY <1>7, <2>1
<1>10. joined' = [joined EXCEPT ![p] = JoinedAt(p, b)]
  <2>1. Size(0) \in Nat /\ Size(1) \in Nat \ {0} /\ Size(0) + Size(1) = conf.entries
    BY <1>2, ListEntries
  <2>2. /\ HalfNodes(0) + HalfNodes(1) = conf.nodes /\ 0 \in Half /\ 1 \in Half
    BY <1>2, HalfCounts DEF Half
  <2>3. dims[p][0] = DimsOf(0) /\ dims[p][1] = DimsOf(1)
    BY <1>6, <1>7, <2>2 DEF DimsAt
  <2>4. \A h \in Half : parts[p][h] = [k \in 1 .. Columns(conf) |-> SharesOf(p, h, k)]
    BY <1>6, <1>7 DEF PartsAt
  <2>5. [entries |-> dims[p][0].entries + dims[p][1].entries, nodes |-> dims[p][0].nodes + dims[p][1].nodes,
         columns |-> [k \in DOMAIN parts[p][0] |-> parts[p][0][k] \o parts[p][1][k]]] = WholeGraph(p)
    <3>1. dims[p][0].entries + dims[p][1].entries = conf.entries /\ dims[p][0].nodes + dims[p][1].nodes = conf.nodes
      BY <2>1, <2>2, <2>3 DEF DimsOf
    <3>2. DOMAIN parts[p][0] = 1 .. Columns(conf)
      BY <2>2, <2>4
    <3>3. \A k \in 1 .. Columns(conf) : parts[p][0][k] \o parts[p][1][k] = WholeColumn(p, k)
      BY <2>2, <2>4 DEF WholeColumn
    <3> QED
      BY <3>1, <3>2, <3>3 DEF WholeGraph
  <2>6. CASE Size(0) # 0
    <3>1. dims[p][1].entries # 0 /\ dims[p][0].entries # 0
      BY <2>1, <2>3, <2>6 DEF DimsOf
    <3>2. joined' = [joined EXCEPT ![p] = WholeGraph(p)]
      BY <2>5, <3>1 DEF JoinHalves
    <3> QED
      BY <1>6, <3>2 DEF JoinedAt
  <2>7. CASE Size(0) = 0
    <3>1. dims[p][1].entries # 0 /\ dims[p][0].entries = 0
      BY <2>1, <2>3, <2>7 DEF DimsOf
    <3>2. joined' = [joined EXCEPT ![p] = [entries |-> dims[p][1].entries, nodes |-> dims[p][1].nodes,
                                           columns |-> parts[p][1]]]
      BY <3>1 DEF JoinHalves
    <3>3. dims[p][1].entries = conf.entries /\ dims[p][1].nodes = conf.nodes
      <4>1. HalfNodes(0) = 0
        <5>1. HalfNodes(0) \in Nat /\ HalfEdges(0) \in Nat /\ Size(0) = HalfNodes(0) + HalfEdges(0)
          BY <1>2, <2>2, HalfCounts, HalfEntries
        <5> QED
          BY <2>7, <5>1
      <4>2. HalfNodes(1) \in Nat
        BY <1>2, <2>2, HalfCounts
      <4> QED
        BY <2>1, <2>2, <2>3, <2>7, <4>1, <4>2 DEF DimsOf
    <3>4. ASSUME NEW k \in 1 .. Columns(conf)
          PROVE  parts[p][1][k] = WholeColumn(p, k)
      <4>1. SharesOf(p, 0, k) \in Seq(Shares) /\ Len(SharesOf(p, 0, k)) = 0 /\ SharesOf(p, 1, k) \in Seq(Shares)
        BY <1>2, <2>2, <2>7, SharesType
      <4>2. SharesOf(p, 0, k) = <<>>
        BY <4>1, EmptySeq
      <4> QED
        BY <2>2, <2>4, <4>1, <4>2, ConcatEmptySeq DEF WholeColumn
    <3>5. parts[p][1] = [k \in 1 .. Columns(conf) |-> WholeColumn(p, k)]
      BY <2>2, <2>4, <3>4
    <3>6. joined' = [joined EXCEPT ![p] = WholeGraph(p)]
      BY <3>2, <3>3, <3>5 DEF WholeGraph
    <3> QED
      BY <1>6, <3>6 DEF JoinedAt
  <2> QED
    BY <2>6, <2>7
<1>11. /\ Together(m[0], m[1])
       /\ toward' = [q \in Half |-> IF q = 0 THEN Toward0(m[0], m[1]) ELSE Toward1(m[0], m[1])]
  <2>1. /\ Together(m[0], m[1])
        /\ Toward0(m[0], m[1]) = Toward0(loc[0], loc[1]) /\ Toward1(m[0], m[1]) = Toward1(loc[0], loc[1])
    <3>1. AsFar(b, loc[p])
      BY <1>4, <1>6 DEF AsFar
    <3>2. SameStreams(m, loc)
      BY <1>1, <1>2, <1>3, <3>1, SameProgress
    <3> QED
      BY <3>2 DEF SameStreams
  <2>2. /\ toward' = toward
        /\ toward = [q \in Half |-> IF q = 0 THEN Toward0(loc[0], loc[1]) ELSE Toward1(loc[0], loc[1])]
    BY <1>1, <1>2, InPlaceFacts DEF JoinHalves
  <2> QED
    BY <2>1, <2>2
<1>12. Moves(p, b, m)
  BY <1>4, <1>6, <1>8, <1>9, <1>10, <1>11 DEF Moves
<1> QED
  BY <1>1, <1>2, <1>3, <1>12, MoveInv

(* The two shares of a field open to that field of the list. *)
LEMMA FieldOpens ==
  ASSUME conf \in Confs, NEW p \in Half, NEW f \in 1 .. 4
  PROVE  /\ FieldOf(p, f) \in Seq(Shares) /\ Len(FieldOf(p, f)) = conf.entries
         /\ conf.entries \in Nat \ {0}
         /\ [i \in DOMAIN FieldOf(p, f) |-> OpenShares(FieldOf(p, f)[i], FieldOf(Opposite(p), f)[i])]
              = OpenedField(f)
<1>1. NBits(conf) \in Nat
  BY EnoughBits
<1>2. PICK k \in 1 .. Columns(conf) : k = 2 * NBits(conf) + f
  BY <1>1 DEF Columns
<1>3. conf.entries \in Nat \ {0} /\ DOMAIN List = 1 .. conf.entries
  <2>1. PICK s \in Nat, t \in Nat \ {0} : s = Size(0) /\ t = Size(1) /\ s + t = conf.entries
    BY ListEntries
  <2> QED
    BY <2>1, ListEntries
<1>4. \A e : ColumnOf(conf, k, e) = e[FieldNames[f]]
  BY <1>1, <1>2 DEF ColumnOf, BitColumn
<1>5. \A q : FieldOf(q, f) = WholeColumn(q, k)
  BY <1>2 DEF FieldOf
<1>6. /\ WholeColumn(p, k) \in Seq(Shares)
      /\ Len(WholeColumn(p, k)) = conf.entries
      /\ DOMAIN WholeColumn(p, k) = 1 .. conf.entries
      /\ \A i \in 1 .. conf.entries :
           OpenShares(WholeColumn(p, k)[i], WholeColumn(Opposite(p), k)[i])
             = <<ColumnOf(conf, k, List[i]), 0>>
  BY ColumnOpens
<1> QED
  BY <1>3, <1>4, <1>5, <1>6 DEF OpenedField

(* What is sent for a field, and what it is with the partner's share. *)
LEMMA FieldSent ==
  ASSUME conf \in Confs, NEW p \in Half, NEW f \in 1 .. 4, joined[p] = WholeGraph(p)
  PROVE  FieldVector(p, f) = FieldOf(p, f)
<1>1. NBits(conf) \in Nat
  BY EnoughBits
<1>2. 2 * NBits(conf) + f \in 1 .. Columns(conf)
  BY <1>1 DEF Columns
<1>3. conf.entries # 0
  BY FieldOpens
<1> QED
  BY <1>2, <1>3 DEF FieldVector, FieldOf, WholeGraph

(* A field that has arrived is opened, and nothing stays behind. *)
LEMMA FieldTaken ==
  ASSUME conf \in Confs, NEW p \in Half, NEW f \in 1 .. 4, joined[p] = WholeGraph(p),
         toward[p] = FieldOf(Opposite(p), f)
  PROVE  /\ [i \in DOMAIN FieldVector(p, f) |-> OpenShares(FieldVector(p, f)[i], toward[p][i])] = OpenedField(f)
         /\ SubSeq(toward[p], Len(FieldVector(p, f)) + 1, Len(toward[p])) = <<>>
<1>1. FieldVector(p, f) = FieldOf(p, f)
  BY FieldSent
<1>2. Opposite(p) \in Half
  BY DEF Opposite, Half
<1>3. Len(FieldOf(p, f)) = conf.entries /\ Len(toward[p]) = conf.entries /\ conf.entries \in Nat
  BY <1>2, FieldOpens
<1>4. SubSeq(toward[p], conf.entries + 1, conf.entries) = <<>>
  <2>1. PICK n \in Nat : n = conf.entries
    BY <1>3
  <2>2. n + 1 \in Int /\ n \in Int /\ n < n + 1
    OBVIOUS
  <2> QED
    BY <2>1, <2>2, SubSeqEmpty
<1>5. [i \in DOMAIN FieldOf(p, f) |-> OpenShares(FieldOf(p, f)[i], toward[p][i])] = OpenedField(f)
  BY FieldOpens
<1> QED
  BY <1>1, <1>3, <1>4, <1>5

(* One more field is open. *)
LEMMA FieldAppended ==
  ASSUME conf \in Confs, NEW f \in 1 .. 4, NEW a, NEW b, Fields(a) = f - 1, Fields(b) = f
  PROVE  Append(RevealedAt(a), OpenedField(f)) = RevealedAt(b)
<1>1. PICK n \in Nat : f = n + 1
  OBVIOUS
<1>2. PICK r : r = [j \in 1 .. n + 1 |-> OpenedField(j)]
  OBVIOUS
<1>3. RevealedAt(b) = r /\ RevealedAt(a) = [j \in 1 .. n |-> r[j]] /\ OpenedField(f) = r[n + 1]
  BY <1>1, <1>2 DEF RevealedAt
<1>4. r = [j \in 1 .. n + 1 |-> r[j]]
  BY <1>2
<1> QED
  BY <1>3, <1>4, AppendNext

(* P0 sends its share of a field. *)
LEMMA RevealSendStep ==
  ASSUME SharingInv, NEW p \in Half, RevealSend(p)
  PROVE  SharingInv'
<1>1. PICK loc : at = loc /\ InPlace(loc)
  BY DEF SharingInv
<1>2. conf \in Confs /\ conf' = conf /\ p = 0
  BY DEF SharingInv, RevealSend
<1>3. PICK f \in 1 .. 4 : at[p] = OpenAt(f)
  BY DEF RevealSend, Opening
<1>4. PICK a, b, m : a = OpenAt(f) /\ b = WaitAt(f) /\ m = [loc EXCEPT ![p] = b]
  OBVIOUS
<1>5. loc[p] = a /\ at[p][3] = f /\ at' = [at EXCEPT ![p] = b]
  <2>1. at[p][3] = f
    BY <1>3 DEF OpenAt
  <2> QED
    BY <1>1, <1>3, <1>4, <2>1 DEF RevealSend
<1>6. /\ b \in Stages(p) /\ ~Waits(a) /\ Graphed(a) /\ Fields(a) = f - 1
      /\ Waits(b) /\ Graphed(b) /\ Fields(b) = f - 1 /\ Drawn(a) = Drawn(b)
      /\ \A g \in Half : /\ Past(a, g) /\ Past(b, g)
                         /\ Columned(a, g) = Columns(conf) /\ Columned(b, g) = Columns(conf)
  <2>1. b \in Stages(p)
    BY <1>2, <1>4 DEF Stages
  <2>2. /\ ~Waits(a) /\ Graphed(a) /\ Fields(a) = f - 1 /\ Waits(b) /\ Graphed(b) /\ Fields(b) = f - 1
    BY <1>2, <1>4, PlaceFacts
  <2>3. a \in {Joining, Final, OpenAt(f), WaitAt(f)} /\ b \in {Joining, Final, OpenAt(f), WaitAt(f)}
    BY <1>4
  <2>4. /\ Drawn(a) = DrawnBefore(1, Columns(conf) + 1) /\ Drawn(b) = DrawnBefore(1, Columns(conf) + 1)
        /\ \A g \in Half : /\ Past(a, g) /\ Past(b, g)
                           /\ Columned(a, g) = Columns(conf) /\ Columned(b, g) = Columns(conf)
    BY <1>2, <2>3, PlaceFacts
  <2> QED
    BY <2>1, <2>2, <2>4
<1>7. /\ dims[p] = DimsAt(a) /\ rng01[p] = Drawn(a) /\ parts[p] = PartsAt(p, a)
      /\ joined[p] = WholeGraph(p) /\ revealed[p] = RevealedAt(a)
      /\ dims = [q \in Half |-> dims[q]] /\ joined = [q \in Half |-> joined[q]]
      /\ revealed = [q \in Half |-> revealed[q]] /\ parts = [q \in Half |-> parts[q]]
      /\ rng01 = [q \in Half |-> rng01[q]]
  <2>1. JoinedAt(p, a) = WholeGraph(p)
    BY <1>6 DEF JoinedAt
  <2> QED
    BY <1>1, <1>2, <1>5, <2>1, InPlaceFacts
<1>8. rng01' = [rng01 EXCEPT ![p] = Drawn(b)] /\ dims' = [dims EXCEPT ![p] = DimsAt(b)]
  <2>1. rng01' = rng01 /\ dims' = dims /\ DimsAt(b) = DimsAt(a)
    BY <1>6 DEF DimsAt, RevealSend
  <2> QED
    BY <1>6, <1>7, <2>1
<1>9. parts' = [parts EXCEPT ![p] = PartsAt(p, b)] /\ joined' = [joined EXCEPT ![p] = JoinedAt(p, b)]
  <2>1. parts' = parts /\ joined' = joined /\ PartsAt(p, b) = PartsAt(p, a) /\ JoinedAt(p, b) = WholeGraph(p)
    BY <1>6 DEF PartsAt, JoinedAt, RevealSend
  <2> QED
    BY <1>7, <2>1
<1>10. revealed' = [revealed EXCEPT ![p] = RevealedAt(b)]
  <2>1. revealed' = revealed /\ RevealedAt(b) = RevealedAt(a)
    BY <1>6 DEF RevealedAt, RevealSend
  <2> QED
    BY <1>7, <2>1
<1>11. /\ Together(m[0], m[1])
       /\ toward' = [q \in Half |-> IF q = 0 THEN Toward0(m[0], m[1]) ELSE Toward1(m[0], m[1])]
  <2>1. /\ loc[0] \in Stages(0) /\ loc[1] \in Stages(1) /\ Together(loc[0], loc[1]) /\ DOMAIN loc = Half
        /\ toward = [q \in Half |-> IF q = 0 THEN Toward0(loc[0], loc[1]) ELSE Toward1(loc[0], loc[1])]
        /\ \A d \in Stages(0), e \in Stages(1) :
              /\ (Past(d, 1) => Past(d, 0)) /\ (Past(e, 1) => Past(e, 0))
              /\ Fields(d) \in 0 .. 4 /\ Fields(e) \in 0 .. 4
              /\ (Waits(d) => Past(d, 1)) /\ (Fields(d) > 0 => Past(d, 1))
              /\ (Fields(e) > 0 => Past(e, 1))
    BY <1>1, <1>2, InPlaceFacts
  <2>2. m[0] = b /\ m[1] = loc[1] /\ loc[0] = a
    BY <1>2, <1>4, <1>5, <2>1 DEF Half
  <2>3. PICK u, w : u = <<>> /\ w = FieldOf(0, f)
    OBVIOUS
  <2>4. Past(a, 0) /\ Past(a, 1) /\ Past(b, 0) /\ Past(b, 1) /\ Past(loc[1], 1) /\ Past(loc[1], 0)
    BY <1>6, <2>1, <2>2 DEF Together, Half
  <2>5. Fields(loc[1]) = f - 1
    BY <1>6, <2>1, <2>2 DEF Together
  <2>6. Together(m[0], m[1])
    BY <1>6, <2>2, <2>4, <2>5 DEF Together
  <2>7. Toward0(m[0], m[1]) = u /\ Toward1(m[0], m[1]) = w
    <3>1. (f - 1) + 1 = f
      OBVIOUS
    <3> QED
      BY <1>6, <2>2, <2>3, <2>4, <2>5, <3>1 DEF Toward0, Toward1
  <2>8. Toward0(loc[0], loc[1]) = u /\ Toward1(loc[0], loc[1]) = u
    BY <1>6, <2>2, <2>3, <2>4, <2>5 DEF Toward0, Toward1
  <2>9. toward = [q \in Half |-> IF q = 0 THEN u ELSE u]
    BY <2>1, <2>8
  <2>10. u \o w = w
    <3>1. w \in Seq(Shares)
      BY <1>2, <2>3, FieldOpens
    <3> QED
      BY <2>3, <3>1, ConcatEmptySeq
  <2>11. toward' = [toward EXCEPT ![1] = w]
    <3>1. toward' = [toward EXCEPT ![1] = @ \o w]
      <4>1. FieldVector(p, f) = w
        BY <1>2, <1>7, <2>3, FieldSent
      <4>2. toward' = [toward EXCEPT ![1] = @ \o FieldVector(p, f)]
        BY <1>5 DEF RevealSend
      <4> QED
        BY <4>1, <4>2
    <3>2. toward[1] = u
      BY <2>9 DEF Half
    <3> QED
      BY <2>10, <3>1, <3>2
  <2>12. \A q \in Half : q # 1 <=> q = 0
    BY DEF Half
  <2>13. toward' = [q \in Half |-> IF q = 0 THEN u ELSE w]
    BY ONLY <2>9, <2>11, <2>12
  <2> QED
    BY <2>6, <2>7, <2>13
<1>12. Moves(p, b, m)
  BY <1>5, <1>6, <1>8, <1>9, <1>10, <1>11 DEF Moves
<1> QED
  BY <1>1, <1>2, <1>4, <1>12, MoveInv

AfterField(f) == IF f < 4 THEN OpenAt(f + 1) ELSE Final

(* Where a party is when it has opened a field. *)
LEMMA AfterFieldFacts ==
  ASSUME conf \in Confs, NEW p \in Half, NEW f \in 1 .. 4, NEW b, b = AfterField(f)
  PROVE  /\ b \in Stages(p) /\ ~Waits(b) /\ Graphed(b) /\ Fields(b) = f
         /\ Drawn(b) = DrawnBefore(1, Columns(conf) + 1)
         /\ \A g \in Half : Past(b, g) /\ Columned(b, g) = Columns(conf)
<1>1. CASE f < 4
  <2>1. PICK g \in 1 .. 4 : g = f + 1 /\ b = OpenAt(g)
    BY <1>1 DEF AfterField
  <2>2. b \in Stages(p) /\ b \in {Joining, Final, OpenAt(g), WaitAt(g)}
    BY <2>1 DEF Stages
  <2>3. ~Waits(b) /\ Graphed(b) /\ Fields(b) = g - 1
    BY <2>1, PlaceFacts
  <2>4. g - 1 = f
    BY <2>1
  <2> QED
    BY <2>2, <2>3, <2>4, PlaceFacts
<1>2. CASE f = 4
  <2>1. b = Final
    BY <1>2 DEF AfterField
  <2>2. b \in Stages(p) /\ b \in {Joining, Final, OpenAt(f), WaitAt(f)}
    BY <2>1 DEF Stages
  <2>3. ~Waits(b) /\ Graphed(b) /\ Fields(b) = 4
    BY <2>1, PlaceFacts
  <2> QED
    BY <1>2, <2>2, <2>3, PlaceFacts
<1> QED
  BY <1>1, <1>2

(* P0 takes P1's share of it. *)
LEMMA RevealRecvStep ==
  ASSUME SharingInv, NEW p \in Half, RevealRecv(p)
  PROVE  SharingInv'
<1>1. PICK loc : at = loc /\ InPlace(loc)
  BY DEF SharingInv
<1>2. conf \in Confs /\ conf' = conf /\ p = 0
  BY DEF SharingInv, RevealRecv
<1>3. PICK f \in 1 .. 4 : at[p] = WaitAt(f)
  BY DEF RevealRecv, Opening, Waiting
<1>4. PICK a, b, m : a = WaitAt(f) /\ b = AfterField(f) /\ m = [loc EXCEPT ![p] = b]
  OBVIOUS
<1>5. /\ at[p][3] = f /\ Arrived(p, f) /\ OpenField(p, f)
      /\ loc[p] = a /\ at' = [at EXCEPT ![p] = b]
  <2>1. at[p][3] = f
    BY <1>3 DEF WaitAt
  <2> QED
    BY <1>1, <1>3, <1>4, <2>1 DEF RevealRecv, OpenField, AfterField
<1>6. /\ b \in Stages(p) /\ ~Waits(b) /\ Graphed(b) /\ Fields(b) = f
      /\ Waits(a) /\ Graphed(a) /\ Fields(a) = f - 1 /\ Drawn(a) = Drawn(b)
      /\ \A g \in Half : /\ Past(a, g) /\ Past(b, g)
                         /\ Columned(a, g) = Columns(conf) /\ Columned(b, g) = Columns(conf)
  <2>1. /\ b \in Stages(p) /\ ~Waits(b) /\ Graphed(b) /\ Fields(b) = f
        /\ Drawn(b) = DrawnBefore(1, Columns(conf) + 1)
        /\ \A g \in Half : Past(b, g) /\ Columned(b, g) = Columns(conf)
    BY <1>2, <1>4, AfterFieldFacts
  <2>2. Waits(a) /\ Graphed(a) /\ Fields(a) = f - 1
    BY <1>2, <1>4, PlaceFacts
  <2>3. a \in {Joining, Final, OpenAt(f), WaitAt(f)}
    BY <1>4
  <2>4. /\ Drawn(a) = DrawnBefore(1, Columns(conf) + 1)
        /\ \A g \in Half : Past(a, g) /\ Columned(a, g) = Columns(conf)
    BY <1>2, <2>3, PlaceFacts
  <2> QED
    BY <2>1, <2>2, <2>4
<1>7. /\ dims[p] = DimsAt(a) /\ rng01[p] = Drawn(a) /\ parts[p] = PartsAt(p, a)
      /\ joined[p] = WholeGraph(p) /\ revealed[p] = RevealedAt(a)
      /\ dims = [q \in Half |-> dims[q]] /\ joined = [q \in Half |-> joined[q]]
      /\ revealed = [q \in Half |-> revealed[q]] /\ parts = [q \in Half |-> parts[q]]
      /\ rng01 = [q \in Half |-> rng01[q]]
  <2>1. JoinedAt(p, a) = WholeGraph(p)
    BY <1>6 DEF JoinedAt
  <2> QED
    BY <1>1, <1>2, <1>5, <2>1, InPlaceFacts
<1>8. rng01' = [rng01 EXCEPT ![p] = Drawn(b)] /\ dims' = [dims EXCEPT ![p] = DimsAt(b)]
  <2>1. rng01' = rng01 /\ dims' = dims /\ DimsAt(b) = DimsAt(a)
    BY <1>6 DEF DimsAt, RevealRecv
  <2> QED
    BY <1>6, <1>7, <2>1
<1>9. parts' = [parts EXCEPT ![p] = PartsAt(p, b)] /\ joined' = [joined EXCEPT ![p] = JoinedAt(p, b)]
  <2>1. parts' = parts /\ joined' = joined /\ PartsAt(p, b) = PartsAt(p, a) /\ JoinedAt(p, b) = WholeGraph(p)
    BY <1>6 DEF PartsAt, JoinedAt, RevealRecv
  <2> QED
    BY <1>7, <2>1
<1>10. /\ loc[0] \in Stages(0) /\ loc[1] \in Stages(1) /\ Together(loc[0], loc[1]) /\ DOMAIN loc = Half
       /\ toward = [q \in Half |-> IF q = 0 THEN Toward0(loc[0], loc[1]) ELSE Toward1(loc[0], loc[1])]
       /\ \A d \in Stages(0), e \in Stages(1) :
             /\ (Past(d, 1) => Past(d, 0)) /\ (Past(e, 1) => Past(e, 0))
             /\ Fields(d) \in 0 .. 4 /\ Fields(e) \in 0 .. 4
             /\ (Waits(d) => Past(d, 1)) /\ (Fields(d) > 0 => Past(d, 1))
             /\ (Fields(e) > 0 => Past(e, 1))
  BY <1>1, <1>2, InPlaceFacts
<1>11. PICK u, v, w : u = <<>> /\ v = FieldOf(0, f) /\ w = FieldOf(1, f)
  OBVIOUS
<1>12. toward[p] # u /\ FieldVector(p, f) = v
  <2>1. FieldVector(p, f) = FieldOf(p, f)
    BY <1>2, <1>7, FieldSent
  <2>2. Len(FieldOf(p, f)) = conf.entries /\ conf.entries \in Nat \ {0}
    BY <1>2, FieldOpens
  <2>3. Len(toward[p]) # 0
    <3>1. PICK n \in Nat \ {0} : n = conf.entries
      BY <2>2
    <3>2. Len(toward[p]) >= n
      BY <1>5, <2>1, <2>2, <3>1 DEF Arrived
    <3>3. ~ (0 >= n)
      BY <3>1
    <3> QED
      BY <3>2, <3>3
  <2>4. Len(<<>>) = 0
    OBVIOUS
  <2> QED
    BY <1>2, <1>11, <2>1, <2>3, <2>4
<1>13. 0 \in Half /\ 1 \in Half /\ \A q \in Half : q # 1 <=> q = 0
  BY DEF Half
<1>14. m[0] = b /\ m[1] = loc[1] /\ loc[0] = a
  BY <1>2, <1>4, <1>5, <1>10 DEF Half
<1>15. /\ Past(a, 0) /\ Past(a, 1) /\ Past(b, 0) /\ Past(b, 1) /\ Past(loc[1], 1) /\ Past(loc[1], 0)
       /\ Fields(loc[1]) = f
       /\ toward[p] = FieldOf(1, f)
  <2>1. Past(a, 0) /\ Past(a, 1) /\ Past(b, 0) /\ Past(b, 1) /\ Past(loc[1], 1) /\ Past(loc[1], 0)
    BY <1>6, <1>10, <1>13, <1>14 DEF Together
  <2>2. toward[p] = Toward0(a, loc[1])
    BY <1>2, <1>10, <1>13, <1>14
  <2>3. Fields(loc[1]) > Fields(a) /\ toward[p] = FieldOf(1, Fields(loc[1]))
    BY <1>11, <1>12, <2>1, <2>2 DEF Toward0
  <2>4. Fields(loc[1]) = f
    <3>1. PICK n \in 0 .. 4 : n = Fields(loc[1])
      BY <1>10
    <3>2. n > f - 1 /\ n <= (f - 1) + 1
      BY <1>6, <1>10, <1>14, <2>3, <3>1 DEF Together
    <3> QED
      BY <3>1, <3>2
  <2> QED
    BY <2>1, <2>3, <2>4
<1>16. /\ Together(m[0], m[1])
       /\ toward' = [q \in Half |-> IF q = 0 THEN Toward0(m[0], m[1]) ELSE Toward1(m[0], m[1])]
  <2>1. Together(m[0], m[1])
    BY <1>6, <1>14, <1>15 DEF Together
  <2>2. Toward0(m[0], m[1]) = u /\ Toward1(m[0], m[1]) = u
    BY <1>6, <1>11, <1>14, <1>15 DEF Toward0, Toward1
  <2>3. Toward0(loc[0], loc[1]) = w /\ Toward1(loc[0], loc[1]) = u
    BY <1>6, <1>11, <1>14, <1>15 DEF Toward0, Toward1
  <2>4. toward = [q \in Half |-> IF q = 0 THEN w ELSE u]
    BY <1>10, <2>3
  <2>5. SubSeq(toward[p], Len(FieldVector(p, f)) + 1, Len(toward[p])) = u
    BY <1>2, <1>7, <1>11, <1>15, FieldTaken DEF Opposite
  <2>6. toward' = [toward EXCEPT ![0] = u]
    <3>1. toward' = [toward EXCEPT ![p] = SubSeq(@, Len(FieldVector(p, f)) + 1, Len(@))]
      BY <1>5 DEF RevealRecv
    <3> QED
      BY <1>2, <2>5, <3>1
  <2>7. toward' = [q \in Half |-> IF q = 0 THEN u ELSE u]
    BY ONLY <2>4, <2>6
  <2> QED
    BY <2>1, <2>2, <2>7
<1>17. revealed' = [revealed EXCEPT ![p] = RevealedAt(b)]
  <2>1. [i \in DOMAIN FieldVector(p, f) |-> OpenShares(FieldVector(p, f)[i], toward[p][i])] = OpenedField(f)
    BY <1>2, <1>7, <1>11, <1>15, FieldTaken DEF Opposite
  <2>2. revealed' = [revealed EXCEPT ![p] = Append(@, OpenedField(f))]
    BY <1>5, <2>1 DEF OpenField
  <2>3. Append(RevealedAt(a), OpenedField(f)) = RevealedAt(b)
    BY <1>2, <1>6, FieldAppended
  <2> QED
    BY <1>7, <2>2, <2>3
<1>18. Moves(p, b, m)
  BY <1>5, <1>6, <1>8, <1>9, <1>16, <1>17 DEF Moves
<1> QED
  BY <1>1, <1>2, <1>4, <1>18, MoveInv

(* P1 opens a field and sends its share of it. *)
LEMMA RevealAnswerStep ==
  ASSUME SharingInv, NEW p \in Half, RevealAnswer(p)
  PROVE  SharingInv'
<1>1. PICK loc : at = loc /\ InPlace(loc)
  BY DEF SharingInv
<1>2. conf \in Confs /\ conf' = conf /\ p = 1
  BY DEF SharingInv, RevealAnswer
<1>3. PICK f \in 1 .. 4 : at[p] = OpenAt(f)
  BY DEF RevealAnswer, Opening, Waiting
<1>4. PICK a, b, m : a = OpenAt(f) /\ b = AfterField(f) /\ m = [loc EXCEPT ![p] = b]
  OBVIOUS
<1>5. /\ at[p][3] = f /\ Arrived(p, f) /\ OpenField(p, f)
      /\ loc[p] = a /\ at' = [at EXCEPT ![p] = b]
  <2>1. at[p][3] = f
    BY <1>3 DEF OpenAt
  <2> QED
    BY <1>1, <1>3, <1>4, <2>1 DEF RevealAnswer, OpenField, AfterField
<1>6. /\ b \in Stages(p) /\ ~Waits(b) /\ Graphed(b) /\ Fields(b) = f
      /\ ~Waits(a) /\ Graphed(a) /\ Fields(a) = f - 1 /\ Drawn(a) = Drawn(b)
      /\ \A g \in Half : /\ Past(a, g) /\ Past(b, g)
                         /\ Columned(a, g) = Columns(conf) /\ Columned(b, g) = Columns(conf)
  <2>1. /\ b \in Stages(p) /\ ~Waits(b) /\ Graphed(b) /\ Fields(b) = f
        /\ Drawn(b) = DrawnBefore(1, Columns(conf) + 1)
        /\ \A g \in Half : Past(b, g) /\ Columned(b, g) = Columns(conf)
    BY <1>2, <1>4, AfterFieldFacts
  <2>2. ~Waits(a) /\ Graphed(a) /\ Fields(a) = f - 1
    BY <1>2, <1>4, PlaceFacts
  <2>3. a \in {Joining, Final, OpenAt(f), WaitAt(f)}
    BY <1>4
  <2>4. /\ Drawn(a) = DrawnBefore(1, Columns(conf) + 1)
        /\ \A g \in Half : Past(a, g) /\ Columned(a, g) = Columns(conf)
    BY <1>2, <2>3, PlaceFacts
  <2> QED
    BY <2>1, <2>2, <2>4
<1>7. /\ dims[p] = DimsAt(a) /\ rng01[p] = Drawn(a) /\ parts[p] = PartsAt(p, a)
      /\ joined[p] = WholeGraph(p) /\ revealed[p] = RevealedAt(a)
      /\ dims = [q \in Half |-> dims[q]] /\ joined = [q \in Half |-> joined[q]]
      /\ revealed = [q \in Half |-> revealed[q]] /\ parts = [q \in Half |-> parts[q]]
      /\ rng01 = [q \in Half |-> rng01[q]]
  <2>1. JoinedAt(p, a) = WholeGraph(p)
    BY <1>6 DEF JoinedAt
  <2> QED
    BY <1>1, <1>2, <1>5, <2>1, InPlaceFacts
<1>8. rng01' = [rng01 EXCEPT ![p] = Drawn(b)] /\ dims' = [dims EXCEPT ![p] = DimsAt(b)]
  <2>1. rng01' = rng01 /\ dims' = dims /\ DimsAt(b) = DimsAt(a)
    BY <1>6 DEF DimsAt, RevealAnswer
  <2> QED
    BY <1>6, <1>7, <2>1
<1>9. parts' = [parts EXCEPT ![p] = PartsAt(p, b)] /\ joined' = [joined EXCEPT ![p] = JoinedAt(p, b)]
  <2>1. parts' = parts /\ joined' = joined /\ PartsAt(p, b) = PartsAt(p, a) /\ JoinedAt(p, b) = WholeGraph(p)
    BY <1>6 DEF PartsAt, JoinedAt, RevealAnswer
  <2> QED
    BY <1>7, <2>1
<1>10. /\ loc[0] \in Stages(0) /\ loc[1] \in Stages(1) /\ Together(loc[0], loc[1]) /\ DOMAIN loc = Half
       /\ toward = [q \in Half |-> IF q = 0 THEN Toward0(loc[0], loc[1]) ELSE Toward1(loc[0], loc[1])]
       /\ \A d \in Stages(0), e \in Stages(1) :
             /\ (Past(d, 1) => Past(d, 0)) /\ (Past(e, 1) => Past(e, 0))
             /\ Fields(d) \in 0 .. 4 /\ Fields(e) \in 0 .. 4
             /\ (Waits(d) => Past(d, 1)) /\ (Fields(d) > 0 => Past(d, 1))
             /\ (Fields(e) > 0 => Past(e, 1))
  BY <1>1, <1>2, InPlaceFacts
<1>11. PICK u, v, w : u = <<>> /\ v = FieldOf(0, f) /\ w = FieldOf(1, f)
  OBVIOUS
<1>12. toward[p] # u /\ FieldVector(p, f) = w
  <2>1. FieldVector(p, f) = FieldOf(p, f)
    BY <1>2, <1>7, FieldSent
  <2>2. Len(FieldOf(p, f)) = conf.entries /\ conf.entries \in Nat \ {0}
    BY <1>2, FieldOpens
  <2>3. Len(toward[p]) # 0
    <3>1. PICK n \in Nat \ {0} : n = conf.entries
      BY <2>2
    <3>2. Len(toward[p]) >= n
      BY <1>5, <2>1, <2>2, <3>1 DEF Arrived
    <3>3. ~ (0 >= n)
      BY <3>1
    <3> QED
      BY <3>2, <3>3
  <2>4. Len(<<>>) = 0
    OBVIOUS
  <2> QED
    BY <1>2, <1>11, <2>1, <2>3, <2>4
<1>13. 0 \in Half /\ 1 \in Half /\ \A q \in Half : q # 1 <=> q = 0
  BY DEF Half
<1>14. m[0] = loc[0] /\ m[1] = b /\ loc[1] = a
  BY <1>2, <1>4, <1>5, <1>10 DEF Half
<1>15. /\ Past(a, 0) /\ Past(a, 1) /\ Past(b, 0) /\ Past(b, 1) /\ Past(loc[0], 1) /\ Past(loc[0], 0)
       /\ Waits(loc[0]) /\ Fields(loc[0]) = f - 1
       /\ toward[p] = FieldOf(0, f)
  <2>1. Past(a, 0) /\ Past(a, 1) /\ Past(b, 0) /\ Past(b, 1)
    BY <1>6, <1>13
  <2>2. toward[p] = Toward1(loc[0], a)
    BY <1>2, <1>10, <1>13, <1>14
  <2>3. Waits(loc[0]) /\ Fields(loc[0]) = f - 1 /\ toward[p] = FieldOf(0, Fields(loc[0]) + 1)
    BY <1>6, <1>11, <1>12, <2>1, <2>2 DEF Toward1
  <2>4. (f - 1) + 1 = f
    OBVIOUS
  <2>5. Past(loc[0], 1) /\ Past(loc[0], 0)
    BY <1>10, <2>3
  <2> QED
    BY <2>1, <2>3, <2>4, <2>5
<1>16. /\ Together(m[0], m[1])
       /\ toward' = [q \in Half |-> IF q = 0 THEN Toward0(m[0], m[1]) ELSE Toward1(m[0], m[1])]
  <2>0. f - 1 <= f /\ f <= (f - 1) + 1 /\ f > f - 1 /\ f # f - 1 /\ ~ (f - 1 > f - 1)
    OBVIOUS
  <2>1. Together(m[0], m[1])
    BY <1>6, <1>14, <1>15, <2>0 DEF Together
  <2>2. Toward0(m[0], m[1]) = w /\ Toward1(m[0], m[1]) = u
    BY <1>6, <1>11, <1>14, <1>15, <2>0 DEF Toward0, Toward1
  <2>3. Toward0(loc[0], loc[1]) = u /\ Toward1(loc[0], loc[1]) = v
    BY <1>2, <1>6, <1>10, <1>11, <1>13, <1>14, <1>15, <2>0 DEF Toward0, Toward1
  <2>4. toward = [q \in Half |-> IF q = 0 THEN u ELSE v]
    BY <1>10, <2>3
  <2>5. SubSeq(toward[p], Len(FieldVector(p, f)) + 1, Len(toward[p])) = u
    BY <1>2, <1>7, <1>11, <1>15, FieldTaken DEF Opposite
  <2>6. u \o w = w
    <3>1. w \in Seq(Shares)
      BY <1>2, <1>11, FieldOpens
    <3> QED
      BY <1>11, <3>1, ConcatEmptySeq
  <2>7. toward' = [toward EXCEPT ![1] = u, ![0] = w]
    <3>1. toward' = [toward EXCEPT ![p] = SubSeq(@, Len(FieldVector(p, f)) + 1, Len(@)),
                                   ![0] = @ \o FieldVector(p, f)]
      BY <1>5 DEF RevealAnswer
    <3>2. toward' = [toward EXCEPT ![1] = SubSeq(@, Len(FieldVector(p, f)) + 1, Len(@)),
                                   ![0] = @ \o w]
      BY <1>2, <1>12, <3>1
    <3>3. toward[0] = u /\ SubSeq(toward[1], Len(FieldVector(p, f)) + 1, Len(toward[1])) = u
      BY <1>2, <1>13, <2>4, <2>5
    <3> QED
      BY <2>6, <3>2, <3>3
  <2>8. toward' = [q \in Half |-> IF q = 0 THEN w ELSE u]
    BY ONLY <1>13, <2>4, <2>7
  <2> QED
    BY <2>1, <2>2, <2>8
<1>17. revealed' = [revealed EXCEPT ![p] = RevealedAt(b)]
  <2>1. [i \in DOMAIN FieldVector(p, f) |-> OpenShares(FieldVector(p, f)[i], toward[p][i])] = OpenedField(f)
    BY <1>2, <1>7, <1>11, <1>15, FieldTaken DEF Opposite
  <2>2. revealed' = [revealed EXCEPT ![p] = Append(@, OpenedField(f))]
    BY <1>5, <2>1 DEF OpenField
  <2>3. Append(RevealedAt(a), OpenedField(f)) = RevealedAt(b)
    BY <1>2, <1>6, FieldAppended
  <2> QED
    BY <1>7, <2>2, <2>3
<1>18. Moves(p, b, m)
  BY <1>5, <1>6, <1>8, <1>9, <1>16, <1>17 DEF Moves
<1> QED
  BY <1>1, <1>2, <1>4, <1>18, MoveInv

(* In the beginning nothing is known, drawn or on the way. *)
LEMMA SharingInitInv == SharingInit => SharingInv
<1> SUFFICES ASSUME SharingInit PROVE SharingInv
  OBVIOUS
<1>1. PICK loc, a : loc = at /\ a = <<"share", 0, 0>>
  OBVIOUS
<1>2. conf \in Confs /\ loc = [p \in Half |-> a] /\ 0 \in Half /\ 1 \in Half
  BY <1>1 DEF SharingInit, Half
<1>3. loc[0] = a /\ loc[1] = a /\ \A p \in Half : loc[p] = a
  BY <1>2
<1>4. \A p : a \in Stages(p)
  BY <1>1, <1>2, PlaceFacts DEF Stages
<1>5. /\ ~Waits(a) /\ ~Graphed(a) /\ Fields(a) = 0 /\ Drawn(a) = DrawnBefore(0, 1)
      /\ \A g \in Half : ~Past(a, g) /\ Columned(a, g) = 0
  BY <1>1, <1>2, PlaceFacts DEF Half
<1>6. DrawnBefore(0, 1) = 0
  <2>1. PICK s \in Nat : s = Size(0)
    BY <1>2, HalfEntries
  <2>2. (1 - 1) * s + 0 = 0
    BY <2>1
  <2> QED
    BY <2>1, <2>2 DEF DrawnBefore
<1>7. Together(loc[0], loc[1])
  BY <1>2, <1>3, <1>5 DEF Together
<1>8. /\ rng01 = [p \in Half |-> Drawn(loc[p])] /\ dims = [p \in Half |-> DimsAt(loc[p])]
      /\ joined = [p \in Half |-> JoinedAt(p, loc[p])]
  BY <1>3, <1>5, <1>6 DEF SharingInit, DimsAt, JoinedAt
<1>9. parts = [p \in Half |-> PartsAt(p, loc[p])] /\ revealed = [p \in Half |-> RevealedAt(loc[p])]
  <2>1. \A p : PartsAt(p, a) = [h \in Half |-> <<>>]
    BY <1>5 DEF PartsAt
  <2>2. RevealedAt(a) = <<>>
    BY <1>5 DEF RevealedAt
  <2> QED
    BY <1>3, <2>1, <2>2 DEF SharingInit
<1>10. toward = [p \in Half |-> IF p = 0 THEN Toward0(loc[0], loc[1]) ELSE Toward1(loc[0], loc[1])]
  BY <1>2, <1>3, <1>5 DEF SharingInit, Toward0, Toward1
<1>11. InPlace(loc)
  BY <1>2, <1>3, <1>4, <1>7, <1>8, <1>9, <1>10 DEF InPlace
<1> QED
  BY <1>1, <1>2, <1>11 DEF SharingInv

(* If nothing happens everything stays. *)
LEMMA SharingStutter ==
  ASSUME SharingInv, UNCHANGED sharingVars
  PROVE  SharingInv'
<1>1. PICK loc : at = loc /\ InPlace(loc)
  BY DEF SharingInv
<1>2. conf \in Confs /\ conf' = conf /\ at' = at
  BY DEF SharingInv, sharingVars
<1>3. PICK m : m = [loc EXCEPT ![0] = loc[0]]
  OBVIOUS
<1>4. /\ DOMAIN loc = Half /\ 0 \in Half /\ m = loc
  <2>1. loc = [p \in Half |-> loc[p]] /\ 0 \in Half
    BY <1>1 DEF InPlace, Half
  <2>2. DOMAIN loc = Half /\ \A p \in Half : m[p] = loc[p]
    BY <1>3, <2>1
  <2>3. m = [p \in Half |-> m[p]]
    BY <1>3, <2>2
  <2> QED
    BY <2>1, <2>2, <2>3
<1>5. /\ loc[0] \in Stages(0) /\ Together(loc[0], loc[1])
      /\ dims[0] = DimsAt(loc[0]) /\ rng01[0] = Drawn(loc[0]) /\ parts[0] = PartsAt(0, loc[0])
      /\ joined[0] = JoinedAt(0, loc[0]) /\ revealed[0] = RevealedAt(loc[0])
      /\ dims = [q \in Half |-> dims[q]] /\ joined = [q \in Half |-> joined[q]]
      /\ revealed = [q \in Half |-> revealed[q]] /\ parts = [q \in Half |-> parts[q]]
      /\ rng01 = [q \in Half |-> rng01[q]]
      /\ toward = [q \in Half |-> IF q = 0 THEN Toward0(loc[0], loc[1]) ELSE Toward1(loc[0], loc[1])]
  BY <1>1, <1>2, <1>4, InPlaceFacts
<1>6. at' = [at EXCEPT ![0] = loc[0]]
  BY <1>1, <1>2, <1>3, <1>4
<1>7. /\ rng01' = [rng01 EXCEPT ![0] = Drawn(loc[0])] /\ dims' = [dims EXCEPT ![0] = DimsAt(loc[0])]
      /\ parts' = [parts EXCEPT ![0] = PartsAt(0, loc[0])]
  <2>1. rng01' = rng01 /\ dims' = dims /\ parts' = parts
    BY DEF sharingVars
  <2> QED
    BY <1>5, <2>1
<1>8. /\ joined' = [joined EXCEPT ![0] = JoinedAt(0, loc[0])]
      /\ revealed' = [revealed EXCEPT ![0] = RevealedAt(loc[0])]
      /\ toward' = toward
  <2>1. joined' = joined /\ revealed' = revealed /\ toward' = toward
    BY DEF sharingVars
  <2> QED
    BY <1>5, <2>1
<1>9. Moves(0, loc[0], m)
  BY <1>4, <1>5, <1>6, <1>7, <1>8 DEF Moves
<1> QED
  BY <1>1, <1>2, <1>3, <1>4, <1>9, MoveInv

(* Every step keeps the invariant. *)
LEMMA SharingStepInv == SharingInv /\ [SharingNext]_sharingVars => SharingInv'
<1> SUFFICES ASSUME SharingInv, [SharingNext]_sharingVars PROVE SharingInv'
  OBVIOUS
<1>1. ASSUME NEW p \in Half, SendDims(p) PROVE SharingInv'
  BY <1>1, SendDimsStep
<1>2. ASSUME NEW p \in Half, RecvDims(p) PROVE SharingInv'
  BY <1>2, RecvDimsStep
<1>3. ASSUME NEW p \in Half, NEW h \in Half, ShareColumn(p, h) PROVE SharingInv'
  BY <1>3, ShareColumnStep
<1>4. ASSUME NEW p \in Half, JoinHalves(p) PROVE SharingInv'
  BY <1>4, JoinHalvesStep
<1>5. ASSUME NEW p \in Half, RevealSend(p) PROVE SharingInv'
  BY <1>5, RevealSendStep
<1>6. ASSUME NEW p \in Half, RevealRecv(p) PROVE SharingInv'
  BY <1>6, RevealRecvStep
<1>7. ASSUME NEW p \in Half, RevealAnswer(p) PROVE SharingInv'
  BY <1>7, RevealAnswerStep
<1>8. CASE UNCHANGED sharingVars
  BY <1>8, SharingStutter
<1> QED
  BY <1>1, <1>2, <1>3, <1>4, <1>5, <1>6, <1>7, <1>8 DEF SharingNext, SharingStep

------------------------------------------------------------------------------
(* What both open *)

(* A party that is done has opened the fields of the list. *)
LEMMA InvSameOpened == SharingInv => SameOpened
<1> SUFFICES ASSUME SharingInv, SharingDone, NEW p \in Half, NEW f \in 1 .. 4
             PROVE  revealed[p][f] = OpenedField(f)
  BY DEF SameOpened, OpenedField, List
<1>1. PICK loc : at = loc /\ InPlace(loc)
  BY DEF SharingInv
<1>2. conf \in Confs /\ loc[p] = Final
  BY <1>1 DEF SharingInv, SharingDone
<1>3. revealed[p] = RevealedAt(Final) /\ Fields(Final) = 4
  BY <1>1, <1>2, InPlaceFacts, PlaceFacts
<1> QED
  BY <1>3 DEF RevealedAt

(* Both parties open the values of the halves that were shared, in every field:
   no mask stays in a value and none is taken for another, although the
   parties draw them without naming what they are for. *)
THEOREM SameOpenedAlways == SharingSpec => []SameOpened
<1>1. SharingInit => SharingInv
  BY SharingInitInv
<1>2. SharingInv /\ [SharingNext]_sharingVars => SharingInv'
  BY SharingStepInv
<1>3. SharingInv => SameOpened
  BY InvSameOpened
<1> QED
  BY <1>1, <1>2, <1>3, PTL DEF SharingSpec

------------------------------------------------------------------------------
(* What they share *)

(* The list: the nodes of each half, then its edges. *)
LEMMA ListOrder ==
  ASSUME conf \in Confs
  PROVE  \E n0 \in Nat, n1 \in Nat, e0 \in Nat, e1 \in Nat :
           /\ conf.nodes = n0 + n1 /\ conf.entries = (n0 + e0) + (n1 + e1)
           /\ \A i \in 1 .. conf.entries :
                List[i] = IF i <= n0 THEN Node(i) ELSE IF i <= n0 + e0 THEN BenchmarkEdge
                          ELSE IF i - (n0 + e0) <= n1 THEN Node(n0 + (i - (n0 + e0))) ELSE BenchmarkEdge
<1>1. PICK n0 \in Nat, n1 \in Nat, e0 \in Nat, e1 \in Nat :
        n0 = HalfNodes(0) /\ n1 = HalfNodes(1) /\ e0 = HalfEdges(0) /\ e1 = HalfEdges(1)
  BY HalfCounts DEF Half
<1>2. Size(0) = n0 + e0 /\ Size(1) = n1 + e1 /\ n0 + n1 = conf.nodes
  BY <1>1, HalfEntries, HalfCounts DEF Half
<1>3. conf.entries = (n0 + e0) + (n1 + e1)
  BY <1>2, ListEntries
<1>4. From(0, conf.nodes).first = 0 /\ From(1, conf.nodes).first = n0
  BY <1>1, HalfCounts
<1>5. \A i \in 1 .. n0 + e0 : Contribution(0)[i] = IF i <= n0 THEN Node(0 + i) ELSE BenchmarkEdge
  BY <1>1, <1>2, <1>4, HalfEntries DEF Half
<1>6. \A i \in 1 .. n1 + e1 : Contribution(1)[i] = IF i <= n1 THEN Node(n0 + i) ELSE BenchmarkEdge
  BY <1>1, <1>2, <1>4, HalfEntries DEF Half
<1>7. ASSUME NEW i \in 1 .. conf.entries
      PROVE  List[i] = IF i <= n0 THEN Node(i) ELSE IF i <= n0 + e0 THEN BenchmarkEdge
                       ELSE IF i - (n0 + e0) <= n1 THEN Node(n0 + (i - (n0 + e0))) ELSE BenchmarkEdge
  <2>1. List[i] = IF i <= n0 + e0 THEN Contribution(0)[i] ELSE Contribution(1)[i - (n0 + e0)]
    BY <1>2, ListEntries
  <2>2. i \in 1 .. (n0 + e0) + (n1 + e1)
    BY <1>3
  <2>3. CASE i <= n0 + e0
    <3>1. i \in 1 .. n0 + e0 /\ 0 + i = i
      BY <2>2, <2>3
    <3> QED
      BY <1>5, <2>1, <2>3, <3>1
  <2>4. CASE ~ (i <= n0 + e0)
    <3>1. i - (n0 + e0) \in 1 .. n1 + e1 /\ ~ (i <= n0)
      BY <2>2, <2>4
    <3> QED
      BY <1>6, <2>1, <2>4, <3>1
  <2> QED
    BY <2>3, <2>4
<1> QED
  BY <1>2, <1>3, <1>7

(* Each node is in the list once, and the edges are the rest. *)
LEMMA ListHasAll ==
  ASSUME conf \in Confs
  PROVE  /\ \A v \in 1 .. conf.nodes :
              Cardinality({i \in 1 .. conf.entries : List[i].isV = 1 /\ List[i].src = v /\ List[i].dst = v}) = 1
         /\ Cardinality({i \in 1 .. conf.entries : List[i].isV = 0 /\ List[i].src = 1 /\ List[i].dst = 2})
              = conf.entries - conf.nodes
         /\ \A i \in 1 .. conf.entries : List[i].src < conf.nodes + 2 /\ List[i].dst < conf.nodes + 2
<1>1. PICK n0 \in Nat, n1 \in Nat, e0 \in Nat, e1 \in Nat :
           /\ conf.nodes = n0 + n1 /\ conf.entries = (n0 + e0) + (n1 + e1)
           /\ \A i \in 1 .. conf.entries :
                List[i] = IF i <= n0 THEN Node(i) ELSE IF i <= n0 + e0 THEN BenchmarkEdge
                          ELSE IF i - (n0 + e0) <= n1 THEN Node(n0 + (i - (n0 + e0))) ELSE BenchmarkEdge
  BY ListOrder
<1>2. PICK n \in Nat, t \in Nat : n = conf.nodes /\ t = conf.entries /\ n = n0 + n1 /\ t = (n0 + e0) + (n1 + e1)
  BY <1>1
<1>3. n # 0
  BY <1>2, ConfAssumption
<1>4. /\ \A u : Node(u).src = u /\ Node(u).dst = u /\ Node(u).isV = 1
      /\ BenchmarkEdge.src = 1 /\ BenchmarkEdge.dst = 2 /\ BenchmarkEdge.isV = 0
  BY DEF Node, BenchmarkEdge
<1>5. PICK list : list = List
  OBVIOUS
<1>6. \A i \in 1 .. t :
        /\ i <= n0 => list[i].src = i /\ list[i].dst = i /\ list[i].isV = 1
        /\ ~ (i <= n0) /\ i <= n0 + e0 => list[i].src = 1 /\ list[i].dst = 2 /\ list[i].isV = 0
        /\ ~ (i <= n0 + e0) /\ i <= (n0 + e0) + n1 =>
             list[i].src = i - e0 /\ list[i].dst = i - e0 /\ list[i].isV = 1
        /\ ~ (i <= (n0 + e0) + n1) => list[i].src = 1 /\ list[i].dst = 2 /\ list[i].isV = 0
  <2> TAKE i \in 1 .. t
  <2>1. list[i] = IF i <= n0 THEN Node(i) ELSE IF i <= n0 + e0 THEN BenchmarkEdge
                  ELSE IF i - (n0 + e0) <= n1 THEN Node(n0 + (i - (n0 + e0))) ELSE BenchmarkEdge
    BY <1>1, <1>2, <1>5
  <2>2. CASE i <= n0
    BY <1>4, <2>1, <2>2
  <2>3. CASE ~ (i <= n0) /\ i <= n0 + e0
    BY <1>4, <2>1, <2>3
  <2>4. CASE ~ (i <= n0 + e0) /\ i <= (n0 + e0) + n1
    <3>1. n0 + (i - (n0 + e0)) = i - e0 /\ ~ (i <= n0) /\ i - (n0 + e0) <= n1
      BY <2>4
    <3>2. list[i] = Node(i - e0)
      BY <2>1, <2>4, <3>1
    <3> QED
      BY <1>4, <2>4, <3>1, <3>2
  <2>5. CASE ~ (i <= (n0 + e0) + n1)
    <3>1. ~ (i <= n0) /\ ~ (i <= n0 + e0) /\ ~ (i - (n0 + e0) <= n1)
      BY <2>5
    <3>2. list[i] = BenchmarkEdge
      BY <2>1, <3>1
    <3> QED
      BY <1>4, <2>5, <3>1, <3>2
  <2> QED
    BY <2>2, <2>3, <2>4, <2>5
<1>7. ASSUME NEW v \in 1 .. n
      PROVE  Cardinality({i \in 1 .. t : list[i].isV = 1 /\ list[i].src = v /\ list[i].dst = v}) = 1
  <2>1. PICK j \in 1 .. t : j = IF v <= n0 THEN v ELSE v + e0
    BY <1>2
  <2>2. list[j].isV = 1 /\ list[j].src = v /\ list[j].dst = v
    <3>1. CASE v <= n0
      BY <1>6, <2>1, <3>1
    <3>2. CASE ~ (v <= n0)
      <4>1. j = v + e0 /\ ~ (j <= n0 + e0) /\ j <= (n0 + e0) + n1 /\ j - e0 = v
        BY <1>2, <2>1, <3>2
      <4> QED
        BY <1>6, <4>1
    <3> QED
      BY <3>1, <3>2
  <2>3. ASSUME NEW i \in 1 .. t, list[i].isV = 1, list[i].src = v
        PROVE  i = j
    <3>1. i <= n0 \/ (~ (i <= n0 + e0) /\ i <= (n0 + e0) + n1)
      BY <1>6, <2>3
    <3>2. CASE i <= n0
      BY <1>6, <2>1, <2>3, <3>2
    <3>3. CASE ~ (i <= n0 + e0) /\ i <= (n0 + e0) + n1
      <4>1. i - e0 = v
        BY <1>6, <2>3, <3>3
      <4> QED
        BY <2>1, <3>3, <4>1
    <3> QED
      BY <3>1, <3>2, <3>3
  <2>4. {i \in 1 .. t : list[i].isV = 1 /\ list[i].src = v /\ list[i].dst = v} = {j}
    BY <2>2, <2>3
  <2> QED
    BY <2>4, FS_Singleton
<1>8. Cardinality({i \in 1 .. t : list[i].isV = 0 /\ list[i].src = 1 /\ list[i].dst = 2}) = t - n
  <2>1. PICK a \in Int, b \in Int, c \in Int : a = n0 + 1 /\ b = n0 + e0 /\ c = (n0 + e0) + n1 + 1
    OBVIOUS
  <2>2. {i \in 1 .. t : list[i].isV = 0 /\ list[i].src = 1 /\ list[i].dst = 2} = (a .. b) \cup (c .. t)
    <3>1. ASSUME NEW i \in 1 .. t
          PROVE  (list[i].isV = 0 /\ list[i].src = 1 /\ list[i].dst = 2) <=> i \in a .. b \/ i \in c .. t
      <4>1. i \in a .. b <=> ~ (i <= n0) /\ i <= n0 + e0
        BY <2>1
      <4>2. i \in c .. t <=> ~ (i <= (n0 + e0) + n1)
        BY <2>1
      <4>3. i <= n0 \/ (~ (i <= n0) /\ i <= n0 + e0) \/ (~ (i <= n0 + e0) /\ i <= (n0 + e0) + n1)
              \/ ~ (i <= (n0 + e0) + n1)
        OBVIOUS
      <4>4. i <= n0 => i <= n0 + e0 /\ i <= (n0 + e0) + n1
        OBVIOUS
      <4> QED
        BY <1>6, <4>1, <4>2, <4>3, <4>4
    <3>2. \A i : i \in a .. b \/ i \in c .. t => i \in 1 .. t
      BY <1>2, <2>1
    <3> QED
      BY <3>1, <3>2
  <2>3. IsFiniteSet(a .. b) /\ Cardinality(a .. b) = e0
    BY <2>1, FS_Interval
  <2>4. IsFiniteSet(c .. t) /\ Cardinality(c .. t) = e1
    BY <1>2, <2>1, FS_Interval
  <2>5. (a .. b) \cap (c .. t) = {}
    BY <2>1
  <2>6. PICK A, B : A = a .. b /\ B = c .. t
    OBVIOUS
  <2>7. IsFiniteSet(A) /\ IsFiniteSet(B) /\ A \cap B = {} /\ Cardinality({}) = 0
    BY <2>3, <2>4, <2>5, <2>6, FS_EmptySet
  <2>8. Cardinality(A \cup B) = Cardinality(A) + Cardinality(B) - Cardinality(A \cap B)
    BY <2>7, FS_Union
  <2>9. Cardinality(A \cup B) = e0 + e1
    <3>1. Cardinality(A) = e0 /\ Cardinality(B) = e1 /\ Cardinality(A \cap B) = 0
      BY <2>3, <2>4, <2>6, <2>7
    <3>2. e0 + e1 - 0 = e0 + e1
      OBVIOUS
    <3> QED
      BY <2>8, <3>1, <3>2
  <2>10. e0 + e1 = t - n
    BY <1>2
  <2> QED
    BY <2>2, <2>6, <2>9, <2>10
<1>9. ASSUME NEW i \in 1 .. t
      PROVE  list[i].src < n + 2 /\ list[i].dst < n + 2
  <2>1. CASE i <= n0
    <3>1. i < n + 2
      BY <1>2, <2>1
    <3> QED
      BY <1>6, <2>1, <3>1
  <2>2. CASE ~ (i <= n0 + e0) /\ i <= (n0 + e0) + n1
    <3>1. i - e0 < n + 2
      BY <1>2, <2>2
    <3> QED
      BY <1>6, <2>2, <3>1
  <2>3. CASE (~ (i <= n0) /\ i <= n0 + e0) \/ ~ (i <= (n0 + e0) + n1)
    <3>1. list[i].src = 1 /\ list[i].dst = 2
      BY <1>6, <2>3
    <3>2. 1 < n + 2 /\ 2 < n + 2
      BY <1>3
    <3> QED
      BY <3>1, <3>2
  <2> QED
    BY <2>1, <2>2, <2>3
<1> QED
  BY <1>2, <1>5, <1>7, <1>8, <1>9

(* A party that has the graph has the whole of it. *)
LEMMA GraphAtBoth ==
  ASSUME SharingInv, NEW p \in Half, HasGraph(p)
  PROVE  joined[p] = WholeGraph(p)
<1>1. PICK loc : at = loc /\ InPlace(loc)
  BY DEF SharingInv
<1>2. conf \in Confs
  BY DEF SharingInv
<1>3. \E f \in 1 .. 4 : at[p] \in {OpenAt(f), WaitAt(f), Final}
  BY DEF HasGraph, Opening, Waiting
<1>4. Graphed(at[p])
  BY <1>2, <1>3, PlaceFacts
<1>5. joined[p] = JoinedAt(p, at[p])
  BY <1>1, <1>2, InPlaceFacts
<1> QED
  BY <1>4, <1>5 DEF JoinedAt

OpenedColumn(k) == [i \in 1 .. conf.entries |-> <<ColumnOf(conf, k, List[i]), 0>>]

(* Opened at both, a column of the graph is that of the list. *)
LEMMA ColumnwiseOpens ==
  ASSUME conf \in Confs, joined[0] = WholeGraph(0), joined[1] = WholeGraph(1), NEW k \in 1 .. Columns(conf)
  PROVE  /\ Len(joined[0].columns[k]) = conf.entries /\ Len(joined[1].columns[k]) = conf.entries
         /\ Columnwise(k) = OpenedColumn(k)
<1>1. joined[0].columns[k] = WholeColumn(0, k) /\ joined[1].columns[k] = WholeColumn(1, k)
  BY DEF WholeGraph
<1>2. 0 \in Half /\ 1 \in Half /\ Opposite(0) = 1
  BY DEF Half, Opposite
<1>3. /\ Len(WholeColumn(0, k)) = conf.entries /\ Len(WholeColumn(1, k)) = conf.entries
      /\ DOMAIN WholeColumn(0, k) = 1 .. conf.entries
      /\ \A i \in 1 .. conf.entries :
           OpenShares(WholeColumn(0, k)[i], WholeColumn(1, k)[i]) = <<ColumnOf(conf, k, List[i]), 0>>
  BY <1>2, ColumnOpens
<1>4. Columnwise(k) = [i \in DOMAIN WholeColumn(0, k) |-> OpenShares(WholeColumn(0, k)[i], WholeColumn(1, k)[i])]
  BY <1>1 DEF Columnwise
<1>5. Columnwise(k) = OpenedColumn(k)
  BY <1>3, <1>4 DEF OpenedColumn
<1> QED
  BY <1>1, <1>3, <1>5

(* Which column is which: the fields, and a bit of each id. *)
LEMMA FieldColumns ==
  ASSUME conf \in Confs, NEW e
  PROVE  /\ \A f \in 1 .. 4 : /\ 2 * NBits(conf) + f \in 1 .. Columns(conf)
                              /\ ColumnOf(conf, 2 * NBits(conf) + f, e) = e[FieldNames[f]]
         /\ \A j \in 0 .. NBits(conf) - 1 :
              /\ 2 * j + 1 \in 1 .. Columns(conf) /\ 2 * j + 2 \in 1 .. Columns(conf)
              /\ ColumnOf(conf, 2 * j + 1, e) = BitOf(e.src, j)
              /\ ColumnOf(conf, 2 * j + 2, e) = BitOf(e.dst, j)
<1>1. PICK b \in Nat : b = NBits(conf)
  BY EnoughBits
<1>2. ASSUME NEW f \in 1 .. 4
      PROVE  /\ 2 * b + f \in 1 .. Columns(conf)
             /\ ColumnOf(conf, 2 * b + f, e) = e[FieldNames[f]]
  <2>1. 2 * b + f \in 1 .. 2 * b + 4 /\ ~ (2 * b + f <= 2 * b) /\ (2 * b + f) - 2 * b = f
    OBVIOUS
  <2> QED
    BY <1>1, <2>1 DEF Columns, ColumnOf, BitColumn
<1>3. ASSUME NEW j \in 0 .. b - 1
      PROVE  /\ 2 * j + 1 \in 1 .. Columns(conf) /\ 2 * j + 2 \in 1 .. Columns(conf)
             /\ ColumnOf(conf, 2 * j + 1, e) = BitOf(e.src, j)
             /\ ColumnOf(conf, 2 * j + 2, e) = BitOf(e.dst, j)
  <2>1. /\ 2 * j + 1 \in 1 .. 2 * b + 4 /\ 2 * j + 2 \in 1 .. 2 * b + 4
        /\ 2 * j + 1 <= 2 * b /\ 2 * j + 2 <= 2 * b
        /\ (2 * j + 1) % 2 = 1 /\ (2 * j + 2) % 2 # 1
        /\ ((2 * j + 1) - 1) \div 2 = j /\ ((2 * j + 2) - 1) \div 2 = j
    BY <1>1
  <2>2. SrcColumn(2 * j + 1) /\ ~SrcColumn(2 * j + 2)
    BY <2>1 DEF SrcColumn
  <2>3. BitColumn(conf, 2 * j + 1) /\ BitColumn(conf, 2 * j + 2)
    BY <1>1, <2>1 DEF BitColumn
  <2>4. ColumnOf(conf, 2 * j + 1, e) = BitOf(e.src, j)
    BY <2>1, <2>2, <2>3 DEF ColumnOf
  <2>5. ColumnOf(conf, 2 * j + 2, e) = BitOf(e.dst, j)
    BY <2>1, <2>2, <2>3 DEF ColumnOf
  <2> QED
    BY <1>1, <2>1, <2>4, <2>5 DEF Columns
<1> QED
  BY <1>1, <1>2, <1>3

(* The graph of a state that satisfies the invariant is the list. *)
LEMMA InvSharedGraph == SharingInv => SharedGraph
<1> SUFFICES ASSUME SharingInv, \A p \in Half : HasGraph(p)
             PROVE  SharedGraph
  BY DEF SharedGraph
<1> DEFINE total == conf.entries
           b == NBits(conf)
           value(k, i) == Columnwise(k)[i][1]
           field(f, i) == value(2 * b + f, i)
           bits(first, i) == [j \in 0 .. b - 1 |-> value(2 * j + first, i)]
<1>1. conf \in Confs
  BY DEF SharingInv
<1>2. joined[0] = WholeGraph(0) /\ joined[1] = WholeGraph(1)
  BY GraphAtBoth DEF Half
<1>3. \A p \in Half : joined[p].entries = total /\ joined[p].nodes = conf.nodes
  BY <1>2 DEF Half, WholeGraph
<1>4. \A k \in 1 .. Columns(conf) :
        /\ Len(joined[0].columns[k]) = total /\ Len(joined[1].columns[k]) = total
        /\ \A i \in 1 .. total : /\ Columnwise(k)[i][2] = 0
                                /\ value(k, i) = ColumnOf(conf, k, List[i])
  <2> TAKE k \in 1 .. Columns(conf)
  <2>1. /\ Len(joined[0].columns[k]) = conf.entries /\ Len(joined[1].columns[k]) = conf.entries
        /\ Columnwise(k) = OpenedColumn(k)
    BY <1>1, <1>2, ColumnwiseOpens
  <2>2. \A i \in 1 .. conf.entries : OpenedColumn(k)[i] = <<ColumnOf(conf, k, List[i]), 0>>
    BY DEF OpenedColumn
  <2> QED
    BY <2>1, <2>2
<1> HIDE DEF value
<1>5. \A i \in 1 .. total : /\ field(1, i) = List[i].src /\ field(2, i) = List[i].dst
                           /\ field(3, i) = List[i].isV
  <2> TAKE i \in 1 .. total
  <2>1. \A f \in 1 .. 4 : field(f, i) = List[i][FieldNames[f]]
    BY <1>1, <1>4, FieldColumns
  <2>2. FieldNames[1] = "src" /\ FieldNames[2] = "dst" /\ FieldNames[3] = "isV"
    BY DEF FieldNames
  <2> QED
    BY <2>1, <2>2
<1>6. ASSUME NEW i \in 1 .. total, NEW j \in 0 .. b - 1
      PROVE  bits(1, i)[j] = BitOf(field(1, i), j) /\ bits(2, i)[j] = BitOf(field(2, i), j)
  <2>1. bits(1, i)[j] = value(2 * j + 1, i) /\ bits(2, i)[j] = value(2 * j + 2, i)
    OBVIOUS
  <2>2. value(2 * j + 1, i) = BitOf(List[i].src, j) /\ value(2 * j + 2, i) = BitOf(List[i].dst, j)
    BY <1>1, <1>4, FieldColumns
  <2> QED
    BY <1>5, <2>1, <2>2
<1> HIDE DEF field, bits
<1>7. \A v \in 1 .. conf.nodes :
        Cardinality({i \in 1 .. total : field(3, i) = 1 /\ field(1, i) = v /\ field(2, i) = v}) = 1
  <2> TAKE v \in 1 .. conf.nodes
  <2>1. {i \in 1 .. total : field(3, i) = 1 /\ field(1, i) = v /\ field(2, i) = v}
          = {i \in 1 .. total : List[i].isV = 1 /\ List[i].src = v /\ List[i].dst = v}
    BY <1>5
  <2> QED
    BY <1>1, <2>1, ListHasAll
<1>8. Cardinality({i \in 1 .. total : field(3, i) = 0 /\ field(1, i) = 1 /\ field(2, i) = 2}) = total - conf.nodes
  <2>1. {i \in 1 .. total : field(3, i) = 0 /\ field(1, i) = 1 /\ field(2, i) = 2}
          = {i \in 1 .. total : List[i].isV = 0 /\ List[i].src = 1 /\ List[i].dst = 2}
    BY <1>5
  <2> QED
    BY <1>1, <2>1, ListHasAll
<1>9. \A i \in 1 .. total : field(1, i) < Power[b] /\ field(2, i) < Power[b]
  <2> TAKE i \in 1 .. total
  <2>1. PICK n \in Nat, w \in Nat : n = conf.nodes /\ w = Power[b] /\ n + 2 <= w
    BY <1>1, ConfAssumption, EnoughBits
  <2>2. PICK s \in Nat, d \in Nat : s = List[i].src /\ d = List[i].dst
    BY <1>1, ListEntries DEF Entries
  <2>3. s < n + 2 /\ d < n + 2
    BY <1>1, <2>1, <2>2, ListHasAll
  <2>4. s < w /\ d < w
    BY <2>1, <2>3
  <2> QED
    BY <1>5, <2>1, <2>2, <2>4
<1> USE DEF bits, field, value
<1> HIDE DEF total, b
<1> QED
  <2>1. SharedGraph =
          ((\A p \in Half : HasGraph(p)) =>
             /\ \A p \in Half : joined[p].entries = total /\ joined[p].nodes = conf.nodes
             /\ \A k \in 1 .. Columns(conf) :
                  /\ Len(joined[0].columns[k]) = total /\ Len(joined[1].columns[k]) = total
                  /\ \A i \in 1 .. total : Columnwise(k)[i][2] = 0
             /\ \A v \in 1 .. conf.nodes :
                  Cardinality({i \in 1 .. total : field(3, i) = 1 /\ field(1, i) = v /\ field(2, i) = v}) = 1
             /\ Cardinality({i \in 1 .. total : field(3, i) = 0 /\ field(1, i) = 1 /\ field(2, i) = 2})
                  = total - conf.nodes
             /\ \A i \in 1 .. total, j \in 0 .. b - 1 :
                  bits(1, i)[j] = BitOf(field(1, i), j) /\ bits(2, i)[j] = BitOf(field(2, i), j)
             /\ \A i \in 1 .. total : field(1, i) < Power[b] /\ field(2, i) < Power[b])
    BY Zenon DEF SharedGraph, total, b
  <2> HIDE DEF bits, field, value
  <2> QED
    BY <1>3, <1>4, <1>6, <1>7, <1>8, <1>9, <2>1

(* Once both parties have the shared graph, it has the dimensions they were
   started with at both, its masks cancel, it has every node once and the
   edges for the rest, and the shared bits of an entry are those of its ids. *)
THEOREM SharedGraphAlways == SharingSpec => []SharedGraph
<1>1. SharingInit => SharingInv
  BY SharingInitInv
<1>2. SharingInv /\ [SharingNext]_sharingVars => SharingInv'
  BY SharingStepInv
<1> QED
  BY <1>1, <1>2, InvSharedGraph, PTL DEF SharingSpec

==============================================================================
