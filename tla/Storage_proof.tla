---------------------------- MODULE Storage_proof ----------------------------
(***************************************************************************)
(* The party reads back what the dealer stored, for every plan, block size *)
(* and number of repetitions, whoever of the two keeps files.              *)
(*                                                                         *)
(* A list is laid out in chunks: there is a place for each chunk, and what *)
(* lies behind the place is the chunk.  This is kept while the dealer      *)
(* appends, when its two lists become one, and while that one travels; the *)
(* party's cursor is at the place of the chunk that its walk comes to.     *)
(***************************************************************************)
EXTENDS Storage, SequenceTheorems, TLAPS

Name == {"a", "b", "c", "B", "shipped"}
Value == Nat \X Nat \X Name \X Nat
Values == Seq(Value)

------------------------------------------------------------------------------
(* Chunks laid out in a list *)

\* In s lie the chunks cs[1], ..., cs[m - 1]; cs[i] begins behind off[i] values.
Laid(s, off, m, cs) ==
  /\ off \in [1 .. m -> Nat]
  /\ off[1] = 0 /\ off[m] = Len(s)
  /\ \A i \in 1 .. m - 1 :
       /\ cs[i] \in Values
       /\ off[i + 1] = off[i] + Len(cs[i])
       /\ \A k \in 1 .. Len(cs[i]) : s[off[i] + k] = cs[i][k]
  /\ \A i, j \in 1 .. m : i <= j => off[i] <= off[j]

LEMMA Within ==
  ASSUME NEW a \in Nat, NEW b \in Nat, NEW n \in Nat, NEW l \in Nat, NEW k \in 1 .. n,
         b = a + n, b <= l
  PROVE  a + k \in 1 .. l
  OBVIOUS

LEMMA Shifted ==
  ASSUME NEW a \in Nat, NEW x \in Nat, NEW n \in Nat, NEW l \in Nat, NEW k \in 1 .. n,
         x + k \in 1 .. l
  PROVE  (a + x) + k \in 1 .. a + l /\ ~ ((a + x) + k <= a) /\ ((a + x) + k) - a = x + k
  OBVIOUS

LEMMA LaidNothing ==
  ASSUME NEW cs
  PROVE  Laid(<<>>, [i \in 1 .. 1 |-> 0], 1, cs)
  BY DEF Laid

(* Appending a chunk. *)
LEMMA LaidNext ==
  ASSUME NEW m \in Nat \ {0}, NEW cs, NEW s \in Values, NEW v \in Values, v = cs[m],
         NEW off, Laid(s, off, m, cs)
  PROVE  \E next : Laid(s \o v, next, m + 1, cs)
<1> DEFINE next == [i \in 1 .. m + 1 |-> IF i <= m THEN off[i] ELSE off[m] + Len(v)]
           w == s \o v
<1>1. /\ Len(w) = Len(s) + Len(v)
      /\ \A i \in 1 .. Len(s) + Len(v) : w[i] = IF i <= Len(s) THEN s[i] ELSE v[i - Len(s)]
  BY ConcatProperties DEF Values
<1>2. Len(s) \in Nat /\ Len(v) \in Nat
  BY LenProperties DEF Values
<1>3. /\ off \in [1 .. m -> Nat] /\ off[1] = 0 /\ off[m] = Len(s)
      /\ \A i \in 1 .. m - 1 : cs[i] \in Values /\ Len(cs[i]) \in Nat /\ off[i + 1] = off[i] + Len(cs[i])
      /\ \A i \in 1 .. m - 1 : \A k \in 1 .. Len(cs[i]) : s[off[i] + k] = cs[i][k]
      /\ \A i, j \in 1 .. m : i <= j => off[i] <= off[j]
  BY LenProperties DEF Laid, Values
<1>4. /\ next \in [1 .. m + 1 -> Nat] /\ next[m + 1] = Len(s) + Len(v)
      /\ \A i \in 1 .. m : next[i] = off[i]
  BY <1>2, <1>3
<1> HIDE DEF next, w
<1>5. ASSUME NEW i \in 1 .. m
      PROVE  /\ cs[i] \in Values
             /\ next[i + 1] = next[i] + Len(cs[i])
             /\ \A k \in 1 .. Len(cs[i]) : w[next[i] + k] = cs[i][k]
  <2>1. CASE i = m
    <3>1. next[i] = Len(s) /\ next[i + 1] = Len(s) + Len(v) /\ cs[i] = v
      BY <1>3, <1>4, <2>1
    <3>2. ASSUME NEW k \in 1 .. Len(v)
          PROVE  w[Len(s) + k] = v[k]
      <4>1. Len(s) + k \in 1 .. Len(s) + Len(v) /\ ~ (Len(s) + k <= Len(s)) /\ (Len(s) + k) - Len(s) = k
        BY <1>2
      <4> QED
        BY <1>1, <4>1
    <3> QED
      BY <3>1, <3>2
  <2>2. CASE i # m
    <3>1. i \in 1 .. m - 1 /\ i + 1 \in 1 .. m
      BY <2>2
    <3>2. next[i] = off[i] /\ next[i + 1] = off[i + 1] /\ off[i + 1] = off[i] + Len(cs[i])
      BY <1>3, <1>4, <3>1
    <3>3. /\ cs[i] \in Values /\ Len(cs[i]) \in Nat
          /\ off[i] \in Nat /\ off[i + 1] \in Nat /\ off[i + 1] <= Len(s)
      BY <1>3, <3>1
    <3>4. ASSUME NEW k \in 1 .. Len(cs[i])
          PROVE  w[off[i] + k] = cs[i][k]
      <4>1. off[i] + k \in 1 .. Len(s)
        BY <1>2, <3>2, <3>3
      <4>2. s[off[i] + k] = cs[i][k]
        BY <1>3, <3>1
      <4>3. off[i] + k \in 1 .. Len(s) + Len(v) /\ off[i] + k <= Len(s)
        BY <1>2, <4>1
      <4>4. w[off[i] + k] = s[off[i] + k]
        BY <1>1, <4>3
      <4> QED
        BY <4>2, <4>4
    <3> QED
      BY <3>2, <3>3, <3>4
  <2> QED
    BY <2>1, <2>2
<1>6. \A i, j \in 1 .. m + 1 : i <= j => next[i] <= next[j]
  <2> SUFFICES ASSUME NEW i \in 1 .. m + 1, NEW j \in 1 .. m + 1, i <= j PROVE next[i] <= next[j]
    OBVIOUS
  <2>1. CASE j = m + 1 /\ i # m + 1
    <3>1. i \in 1 .. m /\ m \in 1 .. m
      BY <2>1
    <3> QED
      BY <1>2, <1>3, <1>4, <2>1, <3>1
  <2>2. CASE i = m + 1
    BY <1>2, <1>4, <2>2
  <2>3. CASE j # m + 1
    BY <1>3, <1>4, <2>3
  <2> QED
    BY <2>1, <2>2, <2>3
<1>7. Laid(w, next, m + 1, cs)
  <2>1. (m + 1) - 1 = m /\ next[1] = 0
    BY <1>3, <1>4
  <2> QED
    BY <1>1, <1>4, <1>5, <1>6, <2>1 DEF Laid
<1> QED
  BY <1>7 DEF w

(* Joining two lists. *)
LEMMA LaidJoin ==
  ASSUME NEW m \in Nat \ {0}, NEW n \in Nat \ {0}, NEW cs, NEW ds, NEW es,
         NEW s \in Values, NEW t \in Values, NEW off, NEW off2,
         Laid(s, off, m, cs), Laid(t, off2, n, ds),
         \A i \in 1 .. m - 1 : es[i] = cs[i],
         \A i \in 1 .. n - 1 : es[m - 1 + i] = ds[i]
  PROVE  \E both : Laid(s \o t, both, m + n - 1, es)
<1> DEFINE both == [i \in 1 .. m + n - 1 |-> IF i <= m THEN off[i] ELSE Len(s) + off2[i - m + 1]]
           w == s \o t
<1>1. /\ Len(w) = Len(s) + Len(t)
      /\ \A i \in 1 .. Len(s) + Len(t) : w[i] = IF i <= Len(s) THEN s[i] ELSE t[i - Len(s)]
  BY ConcatProperties DEF Values
<1>2. Len(s) \in Nat /\ Len(t) \in Nat
  BY LenProperties DEF Values
<1>3. /\ off \in [1 .. m -> Nat] /\ off[1] = 0 /\ off[m] = Len(s)
      /\ \A i \in 1 .. m - 1 : cs[i] \in Values /\ Len(cs[i]) \in Nat /\ off[i + 1] = off[i] + Len(cs[i])
      /\ \A i \in 1 .. m - 1 : \A k \in 1 .. Len(cs[i]) : s[off[i] + k] = cs[i][k]
      /\ \A i, j \in 1 .. m : i <= j => off[i] <= off[j]
  BY LenProperties DEF Laid, Values
<1>4. /\ off2 \in [1 .. n -> Nat] /\ off2[1] = 0 /\ off2[n] = Len(t)
      /\ \A i \in 1 .. n - 1 : ds[i] \in Values /\ Len(ds[i]) \in Nat /\ off2[i + 1] = off2[i] + Len(ds[i])
      /\ \A i \in 1 .. n - 1 : \A k \in 1 .. Len(ds[i]) : t[off2[i] + k] = ds[i][k]
      /\ \A i, j \in 1 .. n : i <= j => off2[i] <= off2[j]
  BY LenProperties DEF Laid, Values
<1>5. /\ DOMAIN both = 1 .. m + n - 1
      /\ \A i \in 1 .. m : both[i] = off[i]
  OBVIOUS
<1>6. \A j \in 1 .. n : both[m - 1 + j] = Len(s) + off2[j]
  <2> TAKE j \in 1 .. n
  <2>1. CASE j = 1
    BY <1>2, <1>3, <1>4, <1>5, <2>1
  <2>2. CASE j # 1
    <3>1. m - 1 + j \in 1 .. m + n - 1 /\ ~ (m - 1 + j <= m) /\ (m - 1 + j) - m + 1 = j
      BY <2>2
    <3> QED
      BY <3>1
  <2> QED
    BY <2>1, <2>2
<1>7. \A i \in 1 .. m + n - 1 : i \notin 1 .. m => \E j \in 1 .. n : i = m - 1 + j
  <2> TAKE i \in 1 .. m + n - 1
  <2> HAVE i \notin 1 .. m
  <2> WITNESS i - m + 1 \in 1 .. n
  <2> QED
    OBVIOUS
<1>8. both = [i \in 1 .. m + n - 1 |-> both[i]]
  OBVIOUS
<1> HIDE DEF both, w
<1>9. \A i \in 1 .. m + n - 1 : both[i] \in Nat
  <2> TAKE i \in 1 .. m + n - 1
  <2>1. CASE i \in 1 .. m
    BY <1>3, <1>5, <2>1
  <2>2. CASE i \notin 1 .. m
    <3>1. PICK j \in 1 .. n : i = m - 1 + j
      BY <1>7, <2>2
    <3>2. off2[j] \in Nat
      BY <1>4
    <3> QED
      BY <1>2, <1>6, <3>1, <3>2
  <2> QED
    BY <2>1, <2>2
<1>10. both \in [1 .. m + n - 1 -> Nat]
  BY <1>8, <1>9
<1>11. both[1] = 0 /\ both[m + n - 1] = Len(w)
  <2>1. 1 \in 1 .. m /\ n \in 1 .. n /\ m - 1 + n = m + n - 1
    OBVIOUS
  <2>2. both[m + n - 1] = Len(s) + off2[n]
    BY <1>6, <2>1
  <2> QED
    BY <1>1, <1>3, <1>4, <1>5, <2>1, <2>2
<1>12. ASSUME NEW i \in 1 .. (m + n - 1) - 1
       PROVE  /\ es[i] \in Values
              /\ both[i + 1] = both[i] + Len(es[i])
              /\ \A k \in 1 .. Len(es[i]) : w[both[i] + k] = es[i][k]
  <2>1. CASE i < m
    <3>1. i \in 1 .. m - 1 /\ i + 1 \in 1 .. m /\ i \in 1 .. m
      BY <2>1
    <3>2. es[i] = cs[i] /\ both[i] = off[i] /\ both[i + 1] = off[i + 1] /\ off[i + 1] = off[i] + Len(cs[i])
      BY <1>3, <1>5, <3>1
    <3>3. /\ cs[i] \in Values /\ Len(cs[i]) \in Nat
          /\ off[i] \in Nat /\ off[i + 1] \in Nat /\ off[i + 1] <= Len(s)
      BY <1>3, <3>1
    <3>4. ASSUME NEW k \in 1 .. Len(cs[i])
          PROVE  w[off[i] + k] = cs[i][k]
      <4>1. off[i] + k \in 1 .. Len(s)
        BY <1>2, <3>2, <3>3, Within
      <4>2. off[i] + k \in 1 .. Len(s) + Len(t) /\ off[i] + k <= Len(s)
        BY <1>2, <4>1
      <4>3. w[off[i] + k] = s[off[i] + k]
        BY <1>1, <4>2
      <4> QED
        BY <1>3, <3>1, <4>3
    <3> QED
      BY <3>2, <3>3, <3>4
  <2>2. CASE i >= m
    <3> DEFINE j == i - m + 1
    <3>1. j \in 1 .. n - 1 /\ j + 1 \in 1 .. n /\ j \in 1 .. n /\ m - 1 + j = i /\ m - 1 + (j + 1) = i + 1
      BY <2>2
    <3> HIDE DEF j
    <3>2. es[i] = ds[j] /\ both[i] = Len(s) + off2[j] /\ both[i + 1] = Len(s) + off2[j + 1]
      BY <1>6, <3>1
    <3>3. /\ ds[j] \in Values /\ Len(ds[j]) \in Nat
          /\ off2[j] \in Nat /\ off2[j + 1] \in Nat /\ off2[j + 1] <= Len(t)
          /\ off2[j + 1] = off2[j] + Len(ds[j])
      BY <1>4, <3>1
    <3>4. ASSUME NEW k \in 1 .. Len(ds[j])
          PROVE  w[(Len(s) + off2[j]) + k] = ds[j][k]
      <4>0. off2[j] + k \in 1 .. Len(t)
        BY <1>2, <3>3, Within
      <4>1. /\ (Len(s) + off2[j]) + k \in 1 .. Len(s) + Len(t)
            /\ ~ ((Len(s) + off2[j]) + k <= Len(s))
            /\ ((Len(s) + off2[j]) + k) - Len(s) = off2[j] + k
        BY <1>2, <3>3, <4>0, Shifted
      <4>2. w[(Len(s) + off2[j]) + k] = t[off2[j] + k]
        BY <1>1, <4>1
      <4> QED
        BY <1>4, <3>1, <4>2
    <3>5. both[i + 1] = both[i] + Len(es[i])
      <4>1. Len(s) + off2[j + 1] = (Len(s) + off2[j]) + Len(ds[j])
        BY <1>2, <3>3
      <4> QED
        BY <3>2, <4>1
    <3> QED
      BY <3>2, <3>3, <3>4, <3>5
  <2> QED
    BY <2>1, <2>2
<1>13. \A i, j \in 1 .. m + n - 1 : i <= j => both[i] <= both[j]
  <2> SUFFICES ASSUME NEW i \in 1 .. m + n - 1, NEW j \in 1 .. m + n - 1, i <= j
               PROVE  both[i] <= both[j]
    OBVIOUS
  <2>1. CASE j \in 1 .. m
    <3>1. i \in 1 .. m
      BY <2>1
    <3> QED
      BY <1>3, <1>5, <2>1, <3>1
  <2>2. CASE j \notin 1 .. m
    <3>1. PICK b \in 1 .. n : j = m - 1 + b
      BY <1>7, <2>2
    <3>2. both[j] = Len(s) + off2[b] /\ off2[b] \in Nat
      BY <1>4, <1>6, <3>1
    <3>3. CASE i \in 1 .. m
      <4>1. off[i] <= Len(s) /\ off[i] \in Nat
        <5>1. m \in 1 .. m /\ i <= m
          BY <3>3
        <5> QED
          BY <1>3, <3>3, <5>1
      <4> QED
        BY <1>2, <1>5, <3>2, <3>3, <4>1
    <3>4. CASE i \notin 1 .. m
      <4>1. PICK a \in 1 .. n : i = m - 1 + a
        BY <1>7, <3>4
      <4>2. a <= b
        BY <3>1, <4>1
      <4>3. both[i] = Len(s) + off2[a] /\ off2[a] \in Nat /\ off2[a] <= off2[b]
        BY <1>4, <1>6, <4>1, <4>2
      <4> QED
        BY <1>2, <3>2, <4>3
    <3> QED
      BY <3>3, <3>4
  <2> QED
    BY <2>1, <2>2
<1>14. Laid(w, both, m + n - 1, es)
  BY <1>10, <1>11, <1>12, <1>13 DEF Laid
<1> QED
  BY <1>14 DEF w

(* Two ways to write down the same chunk. *)
LEMMA SameElements ==
  ASSUME NEW S, NEW u \in Seq(S), NEW v \in Seq(S), Len(u) = Len(v),
         \A k \in 1 .. Len(v) : u[k] = v[k]
  PROVE  u = v
  BY SeqEqual

Wrap(k, n) == IF k >= n THEN 0 ELSE k

\* A list whose cursor is at the place of chunk i.
At(s, off, i) == [data |-> s, at |-> Wrap(off[i], Len(s))]

(* Reading a chunk where the cursor is: from a file as from a vector it is  *)
(* the chunk stored there, and the cursor comes to the next one.           *)
LEMMA ReadChunk ==
  ASSUME NEW m \in Nat \ {0}, NEW cs, NEW s \in Values, NEW off, Laid(s, off, m, cs),
         NEW i \in 1 .. m - 1, NEW n, n = Len(cs[i]), NEW d \in BOOLEAN
  PROVE  /\ Chunk(d, At(s, off, i), n) = cs[i]
         /\ Behind(d, At(s, off, i), n) = At(s, off, i + 1)
<1> DEFINE c == cs[i]
           L == Len(s)
           a == off[i]
           list == At(s, off, i)
<1>1. c \in Values /\ n \in Nat /\ L \in Nat /\ n = Len(c)
  BY LenProperties DEF Laid, Values
<1>2. i \in 1 .. m /\ i + 1 \in 1 .. m /\ m \in 1 .. m /\ i + 1 <= m
  OBVIOUS
<1>3. a \in Nat /\ off[i + 1] = a + n /\ a + n <= L
  BY <1>1, <1>2 DEF Laid
<1>4. \A k \in 1 .. n : s[a + k] = c[k]
  BY DEF Laid
<1>5. list.data = s /\ list.at = Wrap(a, L) /\ list = [data |-> s, at |-> Wrap(a, L)]
  BY DEF At
<1>6. At(s, off, i + 1) = [data |-> s, at |-> Wrap(a + n, L)]
  BY <1>3 DEF At
<1>7. \A next : [list EXCEPT !.at = next] = [data |-> s, at |-> next]
  BY DEF At
<1>8. n = 0 => c = <<>>
  BY <1>1, EmptySeq DEF Values
<1>9. s = <<>> <=> L = 0
  BY EmptySeq DEF Values
<1> HIDE DEF c, L, a, list
<1>10. CASE a < L
  <2>1. list.at = a /\ s # <<>> /\ FileHas(list, n) = n
    BY <1>1, <1>3, <1>5, <1>9, <1>10 DEF Wrap, FileHas, FirstOf, L
  <2>2. SubSeq(s, a + 1, a + n) = c
    <3>1. \A k \in (a + 1) .. (a + n) : s[k] \in Value
      <4>1. \A k \in 1 .. L : s[k] \in Value
        BY DEF Values, L
      <4> QED
        BY <1>1, <1>3, <4>1
    <3>2. /\ SubSeq(s, a + 1, a + n) \in Seq(Value)
          /\ Len(SubSeq(s, a + 1, a + n)) = IF a + 1 <= a + n THEN (a + n) - (a + 1) + 1 ELSE 0
          /\ \A k \in 1 .. (a + n) - (a + 1) + 1 : SubSeq(s, a + 1, a + n)[k] = s[(a + 1) + k - 1]
      <4>1. a + 1 \in Int /\ a + n \in Int
        BY <1>1, <1>3
      <4> HIDE DEF Value
      <4> QED
        BY <3>1, <4>1, SubSeqProperties
    <3>3. (a + n) - (a + 1) + 1 = n /\ (IF a + 1 <= a + n THEN (a + n) - (a + 1) + 1 ELSE 0) = n
      BY <1>1, <1>3
    <3>4. \A k \in 1 .. n : (a + 1) + k - 1 = a + k
      BY <1>1, <1>3
    <3>5. \A k \in 1 .. n : SubSeq(s, a + 1, a + n)[k] = c[k]
      BY <1>4, <3>2, <3>3, <3>4
    <3> HIDE DEF Value
    <3> QED
      BY <1>1, <3>2, <3>3, <3>5, SameElements DEF Values
  <2>3. Chunk(d, list, n) = c
    BY <1>1, <1>3, <1>5, <2>1, <2>2 DEF Chunk, L
  <2>4. Behind(d, list, n) = [data |-> s, at |-> Wrap(a + n, L)]
    BY <1>5, <1>7, <2>1 DEF Behind, Wrap, L
  <2> QED
    BY <1>6, <2>3, <2>4 DEF c, list
<1>11. CASE ~ (a < L)
  <2>1. a = L /\ n = 0 /\ c = <<>> /\ list.at = 0
    BY <1>1, <1>3, <1>5, <1>8, <1>11 DEF Wrap
  <2>2. FileHas(list, n) = 0
    BY <1>1, <1>5, <2>1 DEF FileHas, FirstOf, L
  <2>3. SubSeq(s, 1, 0) = <<>> /\ Zeros(0) = <<>>
    BY SubSeqEmpty DEF Zeros
  <2>4. Chunk(d, list, n) = c
    BY <1>1, <1>5, <2>1, <2>2, <2>3 DEF Chunk, L
  <2>5. Behind(d, list, n) = [data |-> s, at |-> 0]
    BY <1>1, <1>5, <1>7, <2>1, <2>2 DEF Behind, L
  <2>6. Wrap(a + n, L) = 0
    BY <1>1, <2>1 DEF Wrap
  <2> QED
    BY <1>6, <2>4, <2>5, <2>6 DEF c, list
<1> QED
  BY <1>1, <1>3, <1>10, <1>11

------------------------------------------------------------------------------
(* Blocks *)

LEMMA Division ==
  ASSUME NEW n \in Nat \ {0}, NEW q \in Nat, NEW i \in 0 .. n - 1, NEW a, a = q * n + i
  PROVE  a \div n = q
<1> DEFINE d == a \div n
           r == a % n
<1>1. q * n \in Nat /\ a \in Nat
  OBVIOUS
<1>2. d \in Int /\ r \in 0 .. n - 1 /\ a = d * n + r
  BY <1>1
<1> HIDE DEF d, r
<1>3. CASE d < q
  <2>1. (q - d) * n >= n
    BY <1>2, <1>3
  <2>2. (q - d) * n = q * n - d * n /\ d * n \in Int
    BY <1>2
  <2> QED
    BY <1>1, <1>2, <2>1, <2>2
<1>4. CASE d > q
  <2>1. (d - q) * n >= n
    BY <1>2, <1>4
  <2>2. (d - q) * n = d * n - q * n /\ d * n \in Int
    BY <1>2
  <2> QED
    BY <1>1, <1>2, <2>1, <2>2
<1> QED
  BY <1>2, <1>3, <1>4 DEF d

Number(n) == (n + BlockSize - 1) \div BlockSize

LEMMA NumberOfBlocks ==
  ASSUME NEW n \in Nat
  PROVE  /\ Number(n) \in Nat
         /\ n = 0 => Number(n) = 0
         /\ 0 < n /\ n <= BlockSize => Number(n) = 1
         /\ n > BlockSize => Number(n) = Number(n - BlockSize) + 1
         /\ Number(n) * BlockSize <= n + BlockSize - 1
<1> DEFINE d == BlockSize
<1>1. d \in Nat \ {0}
  BY StorageAssumption
<1>2. ASSUME NEW a \in Nat
      PROVE  \E q \in Nat, r \in 0 .. d - 1 : a + d - 1 = q * d + r /\ Number(a) = q
  <2> DEFINE b == a + d - 1
  <2>1. b \in Nat
    BY <1>1
  <2>2. b \div d \in Nat /\ b % d \in 0 .. d - 1 /\ b = (b \div d) * d + (b % d)
    <3> HIDE DEF b, d
    <3> QED
      BY <1>1, <2>1
  <2> QED
    BY <2>2 DEF Number
<1> HIDE DEF d
<1>3. ASSUME NEW a \in Nat, NEW q \in Nat, NEW r \in 0 .. d - 1, a + d - 1 = q * d + r
      PROVE  Number(a) = q
  BY <1>1, <1>3, Division DEF Number, d
<1>4. PICK q \in Nat, r \in 0 .. d - 1 : n + d - 1 = q * d + r /\ Number(n) = q
  BY <1>2
<1>5. n = 0 => Number(n) = 0
  <2> HAVE n = 0
  <2>1. n + d - 1 = 0 * d + (d - 1) /\ d - 1 \in 0 .. d - 1
    BY <1>1
  <2> QED
    BY <1>3, <2>1
<1>6. 0 < n /\ n <= d => Number(n) = 1
  <2> HAVE 0 < n /\ n <= d
  <2>1. n + d - 1 = 1 * d + (n - 1) /\ n - 1 \in 0 .. d - 1
    BY <1>1
  <2> QED
    BY <1>3, <2>1
<1>7. n > d => Number(n) = Number(n - d) + 1
  <2> HAVE n > d
  <2>1. n - d \in Nat
    BY <1>1
  <2>2. PICK x \in Nat, y \in 0 .. d - 1 : (n - d) + d - 1 = x * d + y /\ Number(n - d) = x
    BY <1>2, <2>1
  <2>3. (x + 1) * d = x * d + d /\ x * d \in Nat
    BY <1>1
  <2>4. n + d - 1 = (x + 1) * d + y
    BY <1>1, <2>2, <2>3
  <2>5. Number(n) = x + 1
    BY <1>3, <2>4
  <2> QED
    BY <2>2, <2>5
<1>8. Number(n) * d <= n + d - 1
  <2>1. q * d \in Nat
    BY <1>1
  <2> QED
    BY <1>1, <1>4, <2>1
<1> QED
  BY <1>4, <1>5, <1>6, <1>7, <1>8 DEF d

Cut(v, i) == SubSeq(v, (i - 1) * BlockSize + 1, FirstOf(i * BlockSize, Len(v)))

LEMMA Monotonic ==
  ASSUME NEW i \in Nat, NEW j \in Nat, NEW d \in Nat, i <= j
  PROVE  i * d <= j * d /\ i * d \in Nat
<1>1. (j - i) * d >= 0
  OBVIOUS
<1>2. (j - i) * d = j * d - i * d /\ i * d \in Nat /\ j * d \in Nat
  OBVIOUS
<1> QED
  BY <1>1, <1>2

LEMMA PartOfValues ==
  ASSUME NEW v \in Values, NEW a \in Nat \ {0}, NEW b \in Nat, b <= Len(v)
  PROVE  /\ SubSeq(v, a, b) \in Values
         /\ Len(SubSeq(v, a, b)) = IF a <= b THEN b - a + 1 ELSE 0
<1>1. \A k \in a .. b : v[k] \in Value
  BY DEF Values
<1> HIDE DEF Value
<1> QED
  BY <1>1, SubSeqProperties DEF Values

LEMMA PartOfPart ==
  ASSUME NEW v \in Values, NEW i \in 1 .. Len(v), NEW j \in 1 .. Len(v),
         NEW m \in 1 .. j - i + 1, NEW n \in 1 .. j - i + 1
  PROVE  SubSeq(SubSeq(v, i, j), m, n) = SubSeq(v, i + m - 1, i + n - 1)
<1> DEFINE S == Value
<1>1. v \in Seq(S)
  BY DEF Values
<1> HIDE DEF S
<1> QED
  BY <1>1, SubSeqOfSubSeq

LEMMA BlocksType ==
  ASSUME NEW v \in Values
  PROVE  /\ Blocks(v) = [i \in 1 .. Number(Len(v)) |-> Cut(v, i)]
         /\ Blocks(v) \in Seq(Values) /\ Len(Blocks(v)) = Number(Len(v))
         /\ \A i \in 1 .. Number(Len(v)) : Cut(v, i) \in Values
<1>1. Len(v) \in Nat /\ BlockSize \in Nat
  BY LenProperties, StorageAssumption DEF Values
<1>2. Number(Len(v)) \in Nat
  BY <1>1, NumberOfBlocks
<1>3. Blocks(v) = [i \in 1 .. Number(Len(v)) |-> Cut(v, i)]
  BY DEF Blocks, Number, Cut
<1>4. ASSUME NEW i \in 1 .. Number(Len(v))
      PROVE  Cut(v, i) \in Values
  <2>1. (i - 1) * BlockSize + 1 \in Nat \ {0} /\ i * BlockSize \in Nat
    BY <1>1, <1>2
  <2>2. FirstOf(i * BlockSize, Len(v)) \in Nat /\ FirstOf(i * BlockSize, Len(v)) <= Len(v)
    BY <1>1, <2>1 DEF FirstOf
  <2> QED
    BY <2>1, <2>2, PartOfValues DEF Cut
<1>5. Blocks(v) \in [1 .. Number(Len(v)) -> Values]
  BY <1>3, <1>4
<1>6. Blocks(v) \in Seq(Values) /\ Len(Blocks(v)) = Number(Len(v))
  <2> HIDE DEF Blocks, Values
  <2> QED
    BY <1>2, <1>5, SeqDef, LenProperties
<1> QED
  BY <1>3, <1>4, <1>6

LEMMA NoBlocks == Blocks(<<>>) = <<>>
<1>1. <<>> \in Values /\ Len(<<>>) = 0
  BY EmptySeq DEF Values
<1>2. Len(Blocks(<<>>)) = 0 /\ Blocks(<<>>) \in Seq(Values)
  BY <1>1, BlocksType, NumberOfBlocks
<1> QED
  BY <1>2, EmptySeq

(* The first block and what follows it. *)
LEMMA FirstBlock ==
  ASSUME NEW v \in Values, v # <<>>,
         NEW f, f = FirstOf(Len(v), BlockSize), NEW rest, rest = SubSeq(v, f + 1, Len(v))
  PROVE  /\ Head(Blocks(v)) \in Values /\ rest \in Values
         /\ Blocks(v) # <<>> /\ Tail(Blocks(v)) = Blocks(rest)
         /\ v = Head(Blocks(v)) \o rest
         /\ Len(rest) = Len(v) - f
<1> DEFINE L == Len(v)
           d == BlockSize
           q == Number(L)
<1>1. L \in Nat \ {0} /\ d \in Nat \ {0}
  BY StorageAssumption, LenProperties, EmptySeq DEF Values
<1>2. f \in 1 .. L /\ f <= d /\ (L <= d => f = L) /\ (L > d => f = d)
  BY <1>1 DEF FirstOf
<1>3. rest \in Values /\ Len(rest) = L - f
  <2>1. f + 1 \in Nat \ {0} /\ L \in Nat /\ L <= Len(v) /\ (IF f + 1 <= L THEN L - (f + 1) + 1 ELSE 0) = L - f
    BY <1>1, <1>2
  <2> HIDE DEF L
  <2> QED
    BY <2>1, PartOfValues DEF L
<1>4. /\ q \in Nat /\ q >= 1 /\ q * d <= L + d - 1
      /\ q = Number(L - f) + 1
  <2> HIDE DEF L
  <2>1. q \in Nat /\ q * d <= L + d - 1 /\ Number(0) = 0
    BY <1>1, NumberOfBlocks
  <2>2. CASE L <= d
    <3>1. q = 1 /\ L - f = 0
      BY <1>1, <1>2, <2>2, NumberOfBlocks
    <3> QED
      BY <2>1, <3>1
  <2>3. CASE L > d
    <3>1. L - d \in Nat /\ L - f = L - d
      BY <1>1, <1>2, <2>3
    <3>2. q = Number(L - d) + 1 /\ Number(L - d) \in Nat
      BY <1>1, <2>3, <3>1, NumberOfBlocks
    <3> HIDE DEF q
    <3> QED
      BY <2>1, <3>1, <3>2
  <2> QED
    BY <1>1, <2>2, <2>3
<1>5. /\ Blocks(v) = [i \in 1 .. q |-> Cut(v, i)]
      /\ Blocks(v) \in Seq(Values) /\ Len(Blocks(v)) = q
  BY BlocksType
<1>6. /\ Blocks(rest) = [i \in 1 .. q - 1 |-> Cut(rest, i)]
      /\ Blocks(rest) \in Seq(Values) /\ Len(Blocks(rest)) = q - 1
  <2>1. Number(L - f) \in Nat
    <3>1. L - f \in Nat
      BY <1>1, <1>2
    <3> HIDE DEF L
    <3> QED
      BY <3>1, NumberOfBlocks
  <2>2. q - 1 = Number(L - f)
    <3> HIDE DEF q
    <3> QED
      BY <1>4, <2>1
  <2> HIDE DEF q, L
  <2> QED
    BY <1>3, <2>2, BlocksType
<1>7. Blocks(v) # <<>>
  BY <1>4, <1>5
<1>8. Head(Blocks(v)) = SubSeq(v, 1, f)
  <2>1. Head(Blocks(v)) = Cut(v, 1)
    BY <1>4, <1>5
  <2>2. (1 - 1) * BlockSize + 1 = 1 /\ 1 * BlockSize = d
    BY <1>1
  <2>3. FirstOf(d, L) = f
    BY <1>1 DEF FirstOf
  <2> QED
    BY <2>1, <2>2, <2>3 DEF Cut
<1>9. ASSUME NEW i \in 1 .. q - 1
      PROVE  Blocks(v)[i + 1] = Blocks(rest)[i]
  <2>1. L > d /\ f = d
    <3>1. CASE L <= d
      BY <1>1, <1>4, <3>1, NumberOfBlocks
    <3> QED
      BY <1>1, <1>2, <3>1
  <2> DEFINE b == (i - 1) * d
             e == FirstOf(i * d, L - d)
  <2>2. b \in Nat /\ i * d = b + d /\ (i + 1) * d = i * d + d /\ i * d \in Nat /\ ((i + 1) - 1) * d = i * d
    BY <1>1, <1>4
  <2>3. i * d <= L - 1
    <3>1. i + 1 \in Nat /\ i + 1 <= q
      BY <1>4
    <3>2. (i + 1) * d <= q * d
      BY <1>1, <1>4, <3>1, Monotonic
    <3>3. q * d \in Nat
      BY <1>1, <1>4
    <3> QED
      BY <1>1, <1>4, <2>2, <3>2, <3>3
  <2> HIDE DEF b
  <2>4. b + 1 \in 1 .. L - d /\ e \in 1 .. L - d /\ FirstOf((i + 1) * d, L) = d + e
    BY <1>1, <2>1, <2>2, <2>3 DEF FirstOf
  <2> HIDE DEF e
  <2>5. SubSeq(rest, b + 1, e) = SubSeq(v, (d + 1) + (b + 1) - 1, (d + 1) + e - 1)
    <3>1. d + 1 \in 1 .. Len(v) /\ L \in 1 .. Len(v) /\ L - (d + 1) + 1 = L - d
      BY <1>1, <2>1
    <3>2. b + 1 \in 1 .. L - (d + 1) + 1 /\ e \in 1 .. L - (d + 1) + 1
      BY <2>4, <3>1
    <3>3. rest = SubSeq(v, d + 1, L)
      BY <2>1
    <3> HIDE DEF d, L
    <3> QED
      BY <3>1, <3>2, <3>3, PartOfPart
  <2>6. (d + 1) + (b + 1) - 1 = i * d + 1 /\ (d + 1) + e - 1 = d + e
    BY <1>1, <2>2, <2>4
  <2>7. Blocks(rest)[i] = SubSeq(rest, b + 1, e)
    <3>1. Blocks(rest)[i] = Cut(rest, i)
      BY <1>6
    <3> QED
      BY <1>3, <2>1, <3>1 DEF Cut, b, e
  <2>8. Blocks(v)[i + 1] = SubSeq(v, i * d + 1, d + e)
    <3>1. i + 1 \in 1 .. q
      BY <1>4
    <3>2. Blocks(v)[i + 1] = Cut(v, i + 1)
      BY <1>5, <3>1
    <3> QED
      BY <2>2, <2>4, <3>2 DEF Cut
  <2> QED
    BY <2>5, <2>6, <2>7, <2>8
<1>10. Tail(Blocks(v)) = Blocks(rest)
  <2> HIDE DEF q, L, Values, Blocks
  <2>1. /\ Tail(Blocks(v)) \in Seq(Values) /\ Len(Tail(Blocks(v))) = q - 1
        /\ \A i \in 1 .. q - 1 : Tail(Blocks(v))[i] = Blocks(v)[i + 1]
    BY <1>5, <1>7, HeadTailProperties
  <2> QED
    BY <1>6, <1>9, <2>1, SameElements
<1>11. v = SubSeq(v, 1, f) \o rest
  <2>1. 1 \in 1 .. Len(v) + 1 /\ f \in 1 - 1 .. Len(v) /\ L \in f .. Len(v)
    BY <1>1, <1>2
  <2>2. SubSeq(v, 1, f) \o SubSeq(v, f + 1, L) = SubSeq(v, 1, L)
    <3> HIDE DEF Value, L
    <3> QED
      BY <2>1, ConcatAdjacentSubSeq DEF Values
  <2>3. SubSeq(v, 1, L) = v
    <3> HIDE DEF Value
    <3> QED
      BY SubSeqFull DEF Values
  <2> QED
    BY <2>2, <2>3
<1>12. SubSeq(v, 1, f) \in Values
  BY <1>1, <1>2, PartOfValues
<1> QED
  BY <1>3, <1>7, <1>8, <1>10, <1>11, <1>12

(* The count, which the party takes first. *)
LEMMA CountFirst ==
  ASSUME NEW v \in Values
  PROVE  LET sent == <<>> \o <<Len(v)>> \o Blocks(v) IN
           sent # <<>> /\ Head(sent) = Len(v) /\ Tail(sent) = Blocks(v)
<1> DEFINE S == {Len(v)} \cup Values
           n == Len(v)
           b == Blocks(v)
           w == <<n>> \o b
<1>1. b \in Seq(S) /\ <<n>> \in Seq(S) /\ Len(<<n>>) = 1 /\ <<n>>[1] = n
  <2>1. b \in Seq(Values)
    BY BlocksType
  <2>2. Values \subseteq S /\ n \in S
    OBVIOUS
  <2> HIDE DEF S, b, n, Values
  <2> QED
    BY <2>1, <2>2, SeqMonotonic
<1> HIDE DEF S, b, n
<1>2. <<>> \o <<n>> = <<n>>
  BY <1>1, ConcatEmptySeq
<1>3. /\ w \in Seq(S) /\ Len(w) = Len(b) + 1 /\ Len(b) \in Nat
      /\ w[1] = n
      /\ \A i \in 1 .. Len(b) : w[i + 1] = b[i]
  <2>1. Len(b) \in Nat
    BY <1>1, LenProperties
  <2>2. /\ w \in Seq(S) /\ Len(w) = 1 + Len(b)
        /\ \A i \in 1 .. 1 + Len(b) : w[i] = IF i <= 1 THEN <<n>>[i] ELSE b[i - 1]
    <3> HIDE DEF w
    <3> QED
      BY <1>1, ConcatProperties DEF w
  <2> HIDE DEF w
  <2>3. \A i \in 1 .. Len(b) : i + 1 \in 1 .. 1 + Len(b) /\ ~ (i + 1 <= 1) /\ (i + 1) - 1 = i
    BY <2>1
  <2>4. 1 \in 1 .. 1 + Len(b)
    BY <2>1
  <2> QED
    BY <1>1, <2>1, <2>2, <2>3, <2>4
<1> HIDE DEF w
<1>4. w # <<>>
  BY <1>3, EmptySeq
<1>5. Head(w) = n
  BY <1>3, <1>4
<1>6. Tail(w) = b
  <2>1. /\ Tail(w) \in Seq(S) /\ Len(Tail(w)) = Len(w) - 1
        /\ \A i \in 1 .. Len(Tail(w)) : Tail(w)[i] = w[i + 1]
    BY <1>3, <1>4, HeadTailProperties
  <2> QED
    BY <1>1, <1>3, <2>1, SameElements
<1> QED
  BY <1>2, <1>4, <1>5, <1>6 DEF w, n, b

------------------------------------------------------------------------------
(* What the dealer stores and the party expects *)

PreChunks == [g \in 1 .. Len(plan) |-> PreChunk(g)]
BChunks == [g \in 1 .. Len(plan) |-> BChunk(g)]
Chunks == [i \in 1 .. 2 * Len(plan) |->
             IF i <= Len(plan) THEN PreChunk(i) ELSE BChunk(i - Len(plan))]

List == [data : Values, at : Nat]

StorageTypes ==
  /\ plan \in Plans
  /\ repetition \in Nat
  /\ ssd \in [dealer : BOOLEAN, party : BOOLEAN]
  /\ task \in [dealer : {"deal", "over"}, party : {"count", "list", "online", "over"}]
  /\ dealing \in 1 .. Len(plan) + 1 /\ walking \in 1 .. Len(plan) + 1
  /\ sending \in 1 .. Len(plan) + 1 /\ receiving \in 1 .. Len(plan) + 1
  /\ pre \in List /\ B \in List /\ preproc \in List

LEMMA PlanFacts ==
  ASSUME plan \in Plans
  PROVE  /\ Len(plan) \in Nat /\ DOMAIN plan = 1 .. Len(plan)
         /\ \A g \in 1 .. Len(plan) :
              /\ plan[g].size \in Nat /\ plan[g].ships \in BOOLEAN
              /\ plan[g].type \in {"perm", "triple", "compaction"}
              /\ plan[g].type # "triple" => plan[g].size = VecSize
<1>1. plan \in Seq(PlannedGate)
  BY StorageAssumption
<1>2. Len(plan) \in Nat /\ DOMAIN plan = 1 .. Len(plan)
  BY <1>1, LenProperties
<1>3. \A g \in 1 .. Len(plan) : plan[g] \in PlannedGate
  BY <1>1, <1>2, ElementOfSeq
<1> QED
  BY <1>2, <1>3, StorageAssumption DEF PlannedGate

LEMMA ValuesOfType ==
  ASSUME repetition \in Nat, NEW what \in Name, NEW g \in Nat, NEW n \in Nat
  PROVE  ValuesOf(what, g, n) \in Values /\ Len(ValuesOf(what, g, n)) = n
<1> DEFINE v == ValuesOf(what, g, n)
           S == Value
<1>1. \A k \in 1 .. n : <<repetition, g, what, k>> \in S
  BY DEF Value
<1> HIDE DEF S
<1>2. v \in [1 .. n -> S]
  BY <1>1 DEF ValuesOf
<1> HIDE DEF v
<1>3. v \in Seq(S)
  BY <1>2, SeqDef
<1>4. Len(v) = n
  BY <1>2, <1>3, LenProperties
<1> QED
  BY <1>3, <1>4 DEF Values, v, S

LEMMA ChunkTypes ==
  ASSUME plan \in Plans, repetition \in Nat
  PROVE  /\ \A g \in 1 .. Len(plan) : PreChunk(g) \in Values /\ BChunk(g) \in Values
         /\ \A g \in 1 .. Len(plan) : plan[g].ships => Len(PreChunk(g)) = plan[g].size
         /\ \A g \in 1 .. Len(plan) : plan[g].type = "perm" => Len(BChunk(g)) = VecSize
<1>1. <<>> \in Values
  BY EmptySeq DEF Values
<1>2. VecSize \in Nat
  BY StorageAssumption
<1> HIDE DEF Values
<1> SUFFICES ASSUME NEW g \in 1 .. Len(plan)
             PROVE  /\ PreChunk(g) \in Values /\ BChunk(g) \in Values
                    /\ plan[g].ships => Len(PreChunk(g)) = plan[g].size
                    /\ plan[g].type = "perm" => Len(BChunk(g)) = VecSize
  OBVIOUS
<1>3. g \in Nat /\ plan[g].size \in Nat
  BY PlanFacts
<1>4. ValuesOf("shipped", g, plan[g].size) \in Values /\ Len(ValuesOf("shipped", g, plan[g].size)) = plan[g].size
  BY <1>3, ValuesOfType DEF Name
<1>5. ValuesOf("B", g, VecSize) \in Values /\ Len(ValuesOf("B", g, VecSize)) = VecSize
  BY <1>2, <1>3, ValuesOfType DEF Name
<1> QED
  BY <1>1, <1>4, <1>5 DEF PreChunk, BChunk

(* The two lists of the dealer, one behind the other, are the party's. *)
LEMMA DealerJoins ==
  ASSUME plan \in Plans, NEW s \in Values, NEW t \in Values,
         \E off : Laid(s, off, Len(plan) + 1, PreChunks),
         \E off : Laid(t, off, Len(plan) + 1, BChunks)
  PROVE  \E off : Laid(s \o t, off, 2 * Len(plan) + 1, Chunks)
<1> DEFINE E == Len(plan)
<1>1. E \in Nat
  BY PlanFacts
<1>2. /\ E + 1 \in Nat \ {0} /\ (E + 1) + (E + 1) - 1 = 2 * E + 1 /\ (E + 1) - 1 = E
      /\ \A i \in 1 .. E : i \in 1 .. 2 * E /\ i <= E
      /\ \A i \in 1 .. E : E + i \in 1 .. 2 * E /\ ~ (E + i <= E) /\ (E + i) - E = i
  BY <1>1
<1>3. \A i \in 1 .. E : Chunks[i] = PreChunks[i] /\ Chunks[E + i] = BChunks[i]
  BY <1>2 DEF Chunks, PreChunks, BChunks
<1>4. PICK off : Laid(s, off, E + 1, PreChunks)
  OBVIOUS
<1>5. PICK off2 : Laid(t, off2, E + 1, BChunks)
  OBVIOUS
<1> HIDE DEF E
<1>6. /\ \A i \in 1 .. (E + 1) - 1 : Chunks[i] = PreChunks[i]
      /\ \A i \in 1 .. (E + 1) - 1 : Chunks[(E + 1) - 1 + i] = BChunks[i]
  BY <1>2, <1>3
<1>7. \E both : Laid(s \o t, both, (E + 1) + (E + 1) - 1, Chunks)
  BY <1>2, <1>4, <1>5, <1>6, LaidJoin
<1> QED
  BY <1>2, <1>7 DEF E

------------------------------------------------------------------------------
(* The inductive invariant *)

\* The dealer's lists hold the chunks of the gates behind it.
DealerInv ==
  IF task.dealer = "deal"
  THEN /\ task.party = "count" /\ link = <<>>
       /\ \E off : Laid(pre.data, off, dealing, PreChunks)
       /\ \E off : Laid(B.data, off, dealing, BChunks)
       /\ pre.at = 0 /\ B.at = 0
  ELSE pre = Empty /\ B = Empty

CountInv ==
  task.party = "count" =>
    /\ preproc = Empty
    /\ walking = 1 /\ sending = 1 /\ receiving = 1
    /\ task.dealer = "over" =>
         \E s \in Values :
           /\ \E off : Laid(s, off, 2 * Len(plan) + 1, Chunks)
           /\ link = <<>> \o <<Len(s)>> \o Blocks(s)

\* What has come and what is under way make up the list; the party reads
\* when all has come.
ListInv ==
  task.party = "list" =>
    /\ sending = 1 /\ receiving = 1 /\ task.dealer = "over"
    /\ \E rest \in Values : \E off :
         /\ expected = Len(rest) /\ link = Blocks(rest)
         /\ Laid(preproc.data \o rest, off, 2 * Len(plan) + 1, Chunks)
         /\ IF rest = <<>> THEN preproc = At(preproc.data, off, walking)
                           ELSE walking = 1 /\ preproc.at = 0

OnlineInv ==
  task.party = "online" =>
    /\ walking = Len(plan) + 1 /\ task.dealer = "over"
    /\ link = <<>>
    /\ \E off : /\ Laid(preproc.data, off, 2 * Len(plan) + 1, Chunks)
                /\ preproc = At(preproc.data, off, Len(plan) + receiving)

OverInv == task.party = "over" => preproc = Empty /\ link = <<>> /\ task.dealer = "over"

StoredNow(g) == task.party \in {"list", "online"} /\ IsTriple(g) /\ g < walking

StoredAs(g) ==
  [data |-> IF ssd.party THEN TripleOf(g)[1] \o TripleOf(g)[2] \o TripleOf(g)[3]
                         ELSE TripleOf(g),
   at |-> 0]

TriplesInv ==
  /\ triples = [g \in DOMAIN plan |-> triples[g]]
  /\ \A g \in DOMAIN plan :
       IF StoredNow(g) THEN triples[g] = StoredAs(g) ELSE ssd.party => triples[g] = Empty

StorageInv ==
  /\ StorageTypes /\ DealerInv
  /\ CountInv /\ ListInv /\ OnlineInv /\ OverInv
  /\ TriplesInv
  /\ ChunksInOrder /\ TriplesKept

LEMMA StorageInitInv == StorageInit => StorageInv
<1> SUFFICES ASSUME StorageInit PROVE StorageInv
  OBVIOUS
<1>1. /\ plan \in Plans /\ task.dealer = "deal" /\ task.party = "count" /\ repetition = 1
      /\ dealing = 1 /\ walking = 1 /\ sending = 1 /\ receiving = 1
      /\ pre = Empty /\ B = Empty /\ preproc = Empty /\ link = <<>>
      /\ Empty.data = <<>> /\ Empty.at = 0
  BY DEF StorageInit, Empty
<1>2. StorageTypes
  <2>1. <<>> \in Values
    BY EmptySeq DEF Values
  <2> HIDE DEF Values
  <2>2. Empty \in List
    BY <2>1 DEF Empty, List
  <2> QED
    BY <1>1, <2>2, PlanFacts DEF StorageTypes, StorageInit
<1>3. DealerInv
  BY <1>1, LaidNothing DEF DealerInv
<1>4. CountInv /\ ListInv /\ OnlineInv /\ OverInv
  BY <1>1 DEF CountInv, ListInv, OnlineInv, OverInv
<1>5. TriplesInv
  BY <1>1 DEF TriplesInv, StorageInit, StoredNow
<1>6. ChunksInOrder /\ TriplesKept
  BY DEF StorageInit, NothingTaken, NothingLoaded, ChunksInOrder, TriplesKept
<1> QED
  BY <1>2, <1>3, <1>4, <1>5, <1>6 DEF StorageInv

(* In one repetition the chunks and the triples are what they are. *)
LEMMA SameValues ==
  ASSUME UNCHANGED <<plan, repetition>>
  PROVE  /\ PreChunks' = PreChunks /\ BChunks' = BChunks /\ Chunks' = Chunks
         /\ \A g : TripleOf(g)' = TripleOf(g) /\ IsTriple(g)' = IsTriple(g)
         /\ UNCHANGED <<taken>> => (ChunksInOrder => ChunksInOrder')
         /\ UNCHANGED <<loaded>> => (TriplesKept => TriplesKept')
<1>1. PreChunks' = PreChunks /\ BChunks' = BChunks /\ Chunks' = Chunks
  BY DEF PreChunks, BChunks, Chunks, PreChunk, BChunk, ValuesOf
<1>2. \A g : TripleOf(g)' = TripleOf(g) /\ IsTriple(g)' = IsTriple(g)
  BY DEF TripleOf, ValuesOf, IsTriple
<1>3. UNCHANGED <<taken>> => (ChunksInOrder => ChunksInOrder')
  BY DEF ChunksInOrder, ValuesOf
<1>4. UNCHANGED <<loaded>> => (TriplesKept => TriplesKept')
  BY <1>2 DEF TriplesKept
<1> QED
  BY <1>1, <1>2, <1>3, <1>4

LEMMA SameTriples ==
  ASSUME UNCHANGED <<plan, repetition, ssd, triples>>, TriplesInv,
         \A g \in DOMAIN plan : StoredNow(g)' = StoredNow(g)
  PROVE  TriplesInv'
<1>1. \A g : StoredAs(g)' = StoredAs(g)
  BY SameValues DEF StoredAs
<1> QED
  BY <1>1 DEF TriplesInv

------------------------------------------------------------------------------
(* The dealer's steps *)

LEMMA StoreIs ==
  ASSUME NEW list \in List, NEW v \in Values
  PROVE  /\ Store(list, v) \in List
         /\ Store(list, v).data = list.data \o v
         /\ Store(list, v).at = list.at
<1>1. list = [data |-> list.data, at |-> list.at] /\ list.data \in Values /\ list.at \in Nat
  BY DEF List
<1>2. list.data \o v \in Values
  BY <1>1, ConcatProperties DEF Values
<1> HIDE DEF Values
<1>3. Store(list, v) = [data |-> list.data \o v, at |-> list.at]
  <2>1. \A d, a, x : [[data |-> d, at |-> a] EXCEPT !.data = x] = [data |-> x, at |-> a]
    OBVIOUS
  <2>2. Store(list, v) = [list EXCEPT !.data = list.data \o v]
    BY DEF Store
  <2> QED
    BY <1>1, <2>1, <2>2
<1> QED
  BY <1>1, <1>2, <1>3 DEF List

LEMMA DealGateInv == StorageInv /\ DealGate => StorageInv'
<1> SUFFICES ASSUME StorageInv, DealGate PROVE StorageInv'
  OBVIOUS
<1>1. /\ task.dealer = "deal" /\ dealing \in 1 .. Len(plan) /\ dealing' = dealing + 1
      /\ pre' = Store(pre, PreChunk(dealing)) /\ B' = Store(B, BChunk(dealing))
      /\ UNCHANGED <<plan, ssd, repetition, task, link, expected, preproc, triples,
                     walking, sending, receiving, taken, loaded>>
      /\ Len(plan) \in Nat
  BY PlanFacts DEF StorageInv, StorageTypes, DealGate
<1>2. PreChunk(dealing) \in Values /\ BChunk(dealing) \in Values
  BY <1>1, ChunkTypes DEF StorageInv, StorageTypes
<1>3. /\ pre \in List /\ B \in List /\ pre.data \in Values /\ B.data \in Values
      /\ pre' \in List /\ pre'.data = pre.data \o PreChunk(dealing) /\ pre'.at = pre.at
      /\ B' \in List /\ B'.data = B.data \o BChunk(dealing) /\ B'.at = B.at
  <2>1. pre \in List /\ B \in List
    BY DEF StorageInv, StorageTypes
  <2>2. pre.data \in Values /\ B.data \in Values
    BY <2>1 DEF List
  <2> HIDE DEF Values
  <2> QED
    BY <1>1, <1>2, <2>1, <2>2, StoreIs
<1> HIDE DEF Values
<1>4. StorageTypes'
  BY <1>1, <1>3 DEF StorageInv, StorageTypes
<1>5. DealerInv'
  <2>1. /\ task.party = "count" /\ link = <<>> /\ pre.at = 0 /\ B.at = 0
        /\ \E off : Laid(pre.data, off, dealing, PreChunks)
        /\ \E off : Laid(B.data, off, dealing, BChunks)
    BY <1>1 DEF StorageInv, DealerInv
  <2>2. PreChunks[dealing] = PreChunk(dealing) /\ BChunks[dealing] = BChunk(dealing) /\ dealing \in Nat \ {0}
    BY <1>1 DEF PreChunks, BChunks
  <2>3. \E off : Laid(pre'.data, off, dealing', PreChunks)
    <3>1. PICK off : Laid(pre.data, off, dealing, PreChunks)
      BY <2>1
    <3>2. \E next : Laid(pre.data \o PreChunk(dealing), next, dealing + 1, PreChunks)
      BY <1>2, <1>3, <2>2, <3>1, LaidNext
    <3> QED
      BY <1>1, <1>3, <3>2
  <2>4. \E off : Laid(B'.data, off, dealing', BChunks)
    <3>1. PICK off : Laid(B.data, off, dealing, BChunks)
      BY <2>1
    <3>2. \E next : Laid(B.data \o BChunk(dealing), next, dealing + 1, BChunks)
      BY <1>2, <1>3, <2>2, <3>1, LaidNext
    <3> QED
      BY <1>1, <1>3, <3>2
  <2>5. PreChunks' = PreChunks /\ BChunks' = BChunks
    BY <1>1, SameValues
  <2> QED
    BY <1>1, <1>3, <2>1, <2>3, <2>4, <2>5 DEF DealerInv
<1>6. CountInv' /\ ListInv' /\ OnlineInv' /\ OverInv'
  <2>1. task.party = "count" /\ task.dealer = "deal"
    BY <1>1 DEF StorageInv, DealerInv
  <2> QED
    BY <1>1, <2>1 DEF StorageInv, CountInv, ListInv, OnlineInv, OverInv
<1>7. TriplesInv'
  BY <1>1, SameTriples DEF StorageInv, StoredNow, IsTriple
<1>8. ChunksInOrder' /\ TriplesKept'
  BY <1>1, SameValues DEF StorageInv
<1> QED
  BY <1>4, <1>5, <1>6, <1>7, <1>8 DEF StorageInv

LEMMA ShipListInv == StorageInv /\ ShipList => StorageInv'
<1> SUFFICES ASSUME StorageInv, ShipList PROVE StorageInv'
  OBVIOUS
<1> DEFINE all == IF ssd.dealer
                  THEN Chunk(TRUE, pre, Len(pre.data)) \o Chunk(TRUE, B, Len(B.data))
                  ELSE pre.data \o B.data
           s == pre.data \o B.data
<1>1. /\ task.dealer = "deal" /\ dealing > Len(plan)
      /\ link' = link \o <<Len(all)>> \o Blocks(all)
      /\ pre' = Cleared(ssd.dealer, pre) /\ B' = Cleared(ssd.dealer, B)
      /\ task' = [task EXCEPT !.dealer = "over"]
      /\ UNCHANGED <<plan, ssd, repetition, dealing, expected, preproc, triples, walking,
                     sending, receiving, taken, loaded>>
  BY DEF ShipList
<1>2. /\ task.party = "count" /\ link = <<>> /\ pre.at = 0 /\ B.at = 0
      /\ \E off : Laid(pre.data, off, dealing, PreChunks)
      /\ \E off : Laid(B.data, off, dealing, BChunks)
  BY <1>1 DEF StorageInv, DealerInv
<1>3. dealing = Len(plan) + 1 /\ task' = [dealer |-> "over", party |-> "count"]
  BY <1>1, <1>2, PlanFacts DEF StorageInv, StorageTypes
<1>4. /\ pre.data \in Values /\ B.data \in Values /\ s \in Values
      /\ pre = [data |-> pre.data, at |-> 0] /\ B = [data |-> B.data, at |-> 0]
  <2>1. /\ pre \in List /\ B \in List /\ pre.data \in Values /\ B.data \in Values
    BY DEF StorageInv, StorageTypes, List
  <2>2. s \in Values
    BY <2>1, ConcatProperties DEF Values
  <2> HIDE DEF Values
  <2> QED
    BY <1>2, <2>1, <2>2 DEF List
<1>5. all = s
  <2>1. ASSUME NEW list, list.at = 0, list.data \in Values
        PROVE  Chunk(TRUE, list, Len(list.data)) = list.data
    <3>1. Len(list.data) \in Nat
      BY <2>1, LenProperties DEF Values
    <3>2. CASE list.data = <<>>
      BY <3>2, EmptySeq DEF Chunk, Zeros
    <3>3. CASE list.data # <<>>
      <4>1. FileHas(list, Len(list.data)) = Len(list.data) /\ list.at + 1 = 1
        BY <2>1, <3>1 DEF FileHas, FirstOf
      <4>2. SubSeq(list.data, 1, Len(list.data)) = list.data
        <5> HIDE DEF Value
        <5> QED
          BY <2>1, SubSeqFull DEF Values
      <4> QED
        BY <2>1, <3>1, <3>3, <4>1, <4>2 DEF Chunk
    <3> QED
      BY <3>2, <3>3
  <2> QED
    BY <1>2, <1>4, <2>1
<1> HIDE DEF all
<1>6. pre' = Empty /\ B' = Empty
  BY <1>1, <1>4 DEF Cleared, Empty
<1> HIDE DEF Values
<1>7. StorageTypes'
  <2>1. Empty \in List
    BY EmptySeq DEF Empty, List, Values
  <2> QED
    BY <1>1, <1>3, <1>6, <2>1 DEF StorageInv, StorageTypes
<1>8. DealerInv'
  BY <1>3, <1>6 DEF DealerInv
<1>9. CountInv'
  <2>1. \E off : Laid(s, off, 2 * Len(plan) + 1, Chunks)
    <3> HIDE DEF s
    <3> QED
      BY <1>2, <1>3, <1>4, DealerJoins DEF StorageInv, StorageTypes, s
  <2>2. link' = <<>> \o <<Len(s)>> \o Blocks(s)
    BY <1>1, <1>2, <1>5
  <2>3. Chunks' = Chunks /\ Len(plan') = Len(plan)
    BY <1>1, SameValues
  <2>4. preproc = Empty /\ walking = 1 /\ sending = 1 /\ receiving = 1
    BY <1>2 DEF StorageInv, CountInv
  <2>5. PICK v \in Values : v = s
    BY <1>4
  <2> HIDE DEF s
  <2> QED
    BY <1>1, <2>1, <2>2, <2>3, <2>4, <2>5 DEF CountInv
<1>10. ListInv' /\ OnlineInv' /\ OverInv'
  BY <1>3 DEF ListInv, OnlineInv, OverInv
<1>11. TriplesInv'
  BY <1>1, <1>2, <1>3, SameTriples DEF StorageInv, StoredNow, IsTriple
<1>12. ChunksInOrder' /\ TriplesKept'
  BY <1>1, SameValues DEF StorageInv
<1> QED
  BY <1>7, <1>8, <1>9, <1>10, <1>11, <1>12 DEF StorageInv

------------------------------------------------------------------------------
(* The party's steps: the list *)

LEMMA Associative ==
  ASSUME NEW s \in Values, NEW t \in Values, NEW u \in Values
  PROVE  (s \o t) \o u = s \o (t \o u)
<1> DEFINE S == Value
<1>1. s \in Seq(S) /\ t \in Seq(S) /\ u \in Seq(S)
  BY DEF Values
<1> HIDE DEF S
<1> QED
  BY <1>1, ConcatAssociative

LEMMA TakeCountInv == StorageInv /\ TakeCount => StorageInv'
<1> SUFFICES ASSUME StorageInv, TakeCount PROVE StorageInv'
  OBVIOUS
<1>1. /\ task.party = "count" /\ link # <<>>
      /\ expected' = Head(link) /\ link' = Tail(link)
      /\ preproc' = IF ssd.party THEN preproc ELSE [preproc EXCEPT !.data = <<>>]
      /\ task' = [task EXCEPT !.party = "list"]
      /\ UNCHANGED <<plan, ssd, repetition, dealing, pre, B, triples, walking, sending,
                     receiving, taken, loaded>>
  BY DEF TakeCount
<1>2. task.dealer = "over" /\ task' = [dealer |-> "over", party |-> "list"]
  <2>1. task.dealer # "deal"
    BY <1>1 DEF StorageInv, DealerInv
  <2> QED
    BY <1>1, <2>1 DEF StorageInv, StorageTypes
<1>3. /\ preproc = Empty /\ walking = 1 /\ sending = 1 /\ receiving = 1
      /\ \E s \in Values :
           /\ \E off : Laid(s, off, 2 * Len(plan) + 1, Chunks)
           /\ link = <<>> \o <<Len(s)>> \o Blocks(s)
  BY <1>1, <1>2 DEF StorageInv, CountInv
<1>4. PICK s \in Values : /\ \E off : Laid(s, off, 2 * Len(plan) + 1, Chunks)
                          /\ link = <<>> \o <<Len(s)>> \o Blocks(s)
  BY <1>3
<1>5. PICK off : Laid(s, off, 2 * Len(plan) + 1, Chunks)
  BY <1>4
<1>6. expected' = Len(s) /\ link' = Blocks(s)
  BY <1>1, <1>4, CountFirst
<1>7. preproc' = Empty /\ Empty.data = <<>> /\ Empty.at = 0
  BY <1>1, <1>3 DEF Empty
<1> HIDE DEF Values
<1>8. StorageTypes'
  BY <1>1, <1>2, <1>3, <1>7 DEF StorageInv, StorageTypes
<1>9. DealerInv' /\ CountInv' /\ OnlineInv' /\ OverInv'
  BY <1>1, <1>2 DEF StorageInv, DealerInv, CountInv, OnlineInv, OverInv
<1>10. ListInv'
  <2>1. preproc'.data \o s = s
    BY <1>7, ConcatEmptySeq DEF Values
  <2>2. Chunks' = Chunks /\ Len(plan') = Len(plan)
    BY <1>1, SameValues
  <2>3. s = <<>> => preproc' = At(preproc'.data, off, walking')
    <3>1. off[1] = 0
      BY <1>5 DEF Laid
    <3> QED
      BY <1>1, <1>3, <1>7, <3>1 DEF At, Wrap, Empty
  <2>4. /\ expected' = Len(s) /\ link' = Blocks(s)
        /\ Laid(preproc'.data \o s, off, 2 * Len(plan') + 1, Chunks')
        /\ IF s = <<>> THEN preproc' = At(preproc'.data, off, walking')
                       ELSE walking' = 1 /\ preproc'.at = 0
    BY <1>1, <1>3, <1>5, <1>6, <1>7, <2>1, <2>2, <2>3
  <2>5. sending' = 1 /\ receiving' = 1 /\ task'.dealer = "over"
    BY <1>1, <1>2, <1>3
  <2> QED
    BY <2>4, <2>5 DEF ListInv
<1>11. TriplesInv'
  <2>1. \A g \in DOMAIN plan : StoredNow(g)' = StoredNow(g)
    <3> SUFFICES ASSUME NEW g \in DOMAIN plan PROVE ~ StoredNow(g)' /\ ~ StoredNow(g)
      BY <1>1 DEF StoredNow
    <3>1. ~ (g < 1)
      BY PlanFacts DEF StorageInv, StorageTypes
    <3> QED
      BY <1>1, <1>3, <3>1 DEF StoredNow
  <2> QED
    BY <1>1, <2>1, SameTriples DEF StorageInv
<1>12. ChunksInOrder' /\ TriplesKept'
  BY <1>1, SameValues DEF StorageInv
<1> QED
  BY <1>8, <1>9, <1>10, <1>11, <1>12 DEF StorageInv

LEMMA TakeBlockInv == StorageInv /\ TakeBlock => StorageInv'
<1> SUFFICES ASSUME StorageInv, TakeBlock PROVE StorageInv'
  OBVIOUS
<1>1. /\ task.party = "list" /\ expected > 0
      /\ preproc' = Store(preproc, Head(link))
      /\ expected' = expected - FirstOf(expected, BlockSize)
      /\ link' = Tail(link)
      /\ UNCHANGED <<plan, ssd, repetition, task, dealing, pre, B, triples, walking,
                     sending, receiving, taken, loaded>>
  BY DEF TakeBlock
<1>2. PICK v \in Values : \E off :
        /\ expected = Len(v) /\ link = Blocks(v)
        /\ Laid(preproc.data \o v, off, 2 * Len(plan) + 1, Chunks)
        /\ IF v = <<>> THEN preproc = At(preproc.data, off, walking)
                       ELSE walking = 1 /\ preproc.at = 0
  BY <1>1 DEF StorageInv, ListInv
<1>3. PICK off :
        /\ expected = Len(v) /\ link = Blocks(v)
        /\ Laid(preproc.data \o v, off, 2 * Len(plan) + 1, Chunks)
        /\ IF v = <<>> THEN preproc = At(preproc.data, off, walking)
                       ELSE walking = 1 /\ preproc.at = 0
  BY <1>2
<1>4. v # <<>>
  BY <1>1, <1>3
<1> DEFINE f == FirstOf(Len(v), BlockSize)
           rest == SubSeq(v, f + 1, Len(v))
           first == Head(Blocks(v))
<1>5. /\ first \in Values /\ rest \in Values /\ Tail(Blocks(v)) = Blocks(rest)
      /\ v = first \o rest /\ Len(rest) = Len(v) - f
  <2> HIDE DEF Values
  <2> QED
    BY <1>4, FirstBlock
<1> HIDE DEF f, rest, first
<1>6. expected' = Len(rest) /\ link' = Blocks(rest)
  BY <1>1, <1>3, <1>5 DEF f
<1>7. preproc \in List /\ preproc.data \in Values
  BY DEF StorageInv, StorageTypes, List
<1>8. preproc' \in List /\ preproc'.data = preproc.data \o first /\ preproc'.at = preproc.at
  BY <1>1, <1>3, <1>5, <1>7, StoreIs DEF first
<1>9. StorageTypes'
  BY <1>1, <1>8 DEF StorageInv, StorageTypes
<1>10. task.dealer = "over" /\ sending = 1 /\ receiving = 1
  BY <1>1 DEF StorageInv, ListInv
<1>11. DealerInv' /\ CountInv' /\ OnlineInv' /\ OverInv'
  BY <1>1, <1>10 DEF StorageInv, DealerInv, CountInv, OnlineInv, OverInv
<1>12. ListInv'
  <2>1. preproc'.data \o rest = preproc.data \o v
    <3>1. (preproc.data \o first) \o rest = preproc.data \o (first \o rest)
      BY <1>5, <1>7, Associative
    <3> QED
      BY <1>5, <1>8, <3>1
  <2>2. Chunks' = Chunks /\ Len(plan') = Len(plan)
    BY <1>1, SameValues
  <2>3. walking = 1 /\ preproc.at = 0
    BY <1>3, <1>4
  <2>4. rest = <<>> => preproc' = At(preproc'.data, off, walking')
    <3>1. off[1] = 0
      BY <1>3 DEF Laid
    <3>2. preproc' = [data |-> preproc'.data, at |-> preproc'.at]
      BY <1>8 DEF List
    <3>3. At(preproc'.data, off, 1) = [data |-> preproc'.data, at |-> 0]
      BY <3>1 DEF At, Wrap
    <3> QED
      BY <1>1, <1>8, <2>3, <3>2, <3>3
  <2>5. Laid(preproc'.data \o rest, off, 2 * Len(plan') + 1, Chunks')
    BY <1>3, <2>1, <2>2
  <2>6. PICK w \in Values : w = rest
    BY <1>5
  <2> QED
    BY <1>1, <1>6, <1>8, <1>10, <2>3, <2>4, <2>5, <2>6 DEF ListInv
<1>13. TriplesInv'
  BY <1>1, SameTriples DEF StorageInv, StoredNow, IsTriple
<1>14. ChunksInOrder' /\ TriplesKept'
  BY <1>1, SameValues DEF StorageInv
<1> QED
  BY <1>9, <1>11, <1>12, <1>13, <1>14 DEF StorageInv

------------------------------------------------------------------------------
(* The party's steps: its walks *)

LEMMA AtType ==
  ASSUME NEW m \in Nat \ {0}, NEW cs, NEW s \in Values, NEW off, Laid(s, off, m, cs), NEW i \in 1 .. m
  PROVE  /\ At(s, off, i) \in List /\ At(s, off, i).data = s
         /\ i < m /\ Len(cs[i]) = 0 => At(s, off, i + 1) = At(s, off, i)
<1>1. off[i] \in Nat
  BY DEF Laid
<1> HIDE DEF Values
<1>2. At(s, off, i) \in List /\ At(s, off, i).data = s
  BY <1>1 DEF At, List, Wrap
<1>3. i < m /\ Len(cs[i]) = 0 => At(s, off, i + 1) = At(s, off, i)
  <2> HAVE i < m /\ Len(cs[i]) = 0
  <2>1. off[i + 1] = off[i] + 0
    BY DEF Laid
  <2> QED
    BY <1>1, <2>1 DEF At
<1> QED
  BY <1>2, <1>3

LEMMA TripleParts ==
  ASSUME NEW g
  PROVE  /\ TripleOf(g)[1] = ValuesOf("a", g, plan[g].size)
         /\ TripleOf(g)[2] = ValuesOf("b", g, plan[g].size)
         /\ TripleOf(g)[3] = ValuesOf(IF plan[g].ships THEN "shipped" ELSE "c", g, plan[g].size)
         /\ TripleOf(g) = <<TripleOf(g)[1], TripleOf(g)[2], TripleOf(g)[3]>>
  BY DEF TripleOf

LEMMA PrepareGateInv == StorageInv /\ PrepareGate => StorageInv'
<1> SUFFICES ASSUME StorageInv, PrepareGate PROVE StorageInv'
  OBVIOUS
<1>0. PICK g : g = walking
  OBVIOUS
<1> DEFINE c == IF plan[g].ships THEN Chunk(ssd.party, preproc, plan[g].size) ELSE TripleOf(g)[3]
<1>1. /\ task.party = "list" /\ expected = 0 /\ walking <= Len(plan)
      /\ IF plan[g].ships THEN TakeChunk(g, "shipped", plan[g].size)
                          ELSE UNCHANGED <<taken, preproc>>
      /\ triples' = IF IsTriple(g) THEN [triples EXCEPT ![g] = StoredTriple(g, c)] ELSE triples
      /\ walking' = walking + 1
      /\ UNCHANGED <<plan, ssd, repetition, task, dealing, pre, B, link, expected,
                     sending, receiving, loaded>>
      /\ g = walking
  BY <1>0 DEF PrepareGate
<1>2. /\ plan \in Plans /\ repetition \in Nat /\ Len(plan) \in Nat /\ DOMAIN plan = 1 .. Len(plan)
      /\ walking \in 1 .. Len(plan) /\ g \in 1 .. Len(plan) /\ ssd.party \in BOOLEAN
      /\ plan[g].ships \in BOOLEAN
      /\ task.dealer = "over" /\ sending = 1 /\ receiving = 1
      /\ preproc.data \in Values
  BY <1>1, PlanFacts DEF StorageInv, StorageTypes, ListInv, List
<1>3. PICK v \in Values : \E off :
        /\ expected = Len(v) /\ link = Blocks(v)
        /\ Laid(preproc.data \o v, off, 2 * Len(plan) + 1, Chunks)
        /\ IF v = <<>> THEN preproc = At(preproc.data, off, walking)
                       ELSE walking = 1 /\ preproc.at = 0
  BY <1>1 DEF StorageInv, ListInv
<1>4. PICK off :
        /\ expected = Len(v) /\ link = Blocks(v)
        /\ Laid(preproc.data \o v, off, 2 * Len(plan) + 1, Chunks)
        /\ IF v = <<>> THEN preproc = At(preproc.data, off, walking)
                       ELSE walking = 1 /\ preproc.at = 0
  BY <1>3
<1> DEFINE m == 2 * Len(plan) + 1
           s == preproc.data
<1>5. v = <<>>
  BY <1>1, <1>3, <1>4, EmptySeq DEF Values
<1>6. Laid(s, off, m, Chunks) /\ preproc = At(s, off, g) /\ link = <<>>
  <2>1. s \o <<>> = s
    BY <1>2, ConcatEmptySeq DEF Values
  <2> QED
    BY <1>1, <1>4, <1>5, <2>1, NoBlocks
<1>7. /\ m \in Nat \ {0} /\ g \in 1 .. m - 1 /\ g \in 1 .. m /\ g + 1 \in 1 .. m /\ g < m
      /\ Chunks[g] = PreChunk(g)
  BY <1>2 DEF Chunks
<1> HIDE DEF m
<1>8. /\ plan[g].ships => Chunk(ssd.party, preproc, plan[g].size) = PreChunk(g)
      /\ preproc' = At(s, off, g + 1)
  <2>1. CASE plan[g].ships
    <3>1. Len(PreChunk(g)) = plan[g].size
      BY <1>2, <2>1, ChunkTypes
    <3>2. preproc' = Behind(ssd.party, preproc, plan[g].size)
      BY <1>1, <2>1 DEF TakeChunk
    <3>3. /\ Chunk(ssd.party, At(s, off, g), plan[g].size) = Chunks[g]
          /\ Behind(ssd.party, At(s, off, g), plan[g].size) = At(s, off, g + 1)
      <4> HIDE DEF s
      <4> QED
        BY <1>2, <1>6, <1>7, <3>1, ReadChunk DEF s
    <3> QED
      BY <1>6, <1>7, <3>2, <3>3
  <2>2. CASE ~ plan[g].ships
    <3>1. Len(PreChunk(g)) = 0
      BY <2>2 DEF PreChunk
    <3>2. At(s, off, g + 1) = At(s, off, g)
      <4> HIDE DEF s
      <4> QED
        BY <1>2, <1>6, <1>7, <3>1, AtType DEF s
    <3> QED
      BY <1>1, <1>6, <2>2, <3>2
  <2> QED
    BY <2>1, <2>2
<1>9. preproc' \in List /\ preproc'.data = s
  <2> HIDE DEF s
  <2> QED
    BY <1>2, <1>6, <1>7, <1>8, AtType DEF s
<1>10. c = TripleOf(g)[3]
  BY <1>8, TripleParts DEF PreChunk
<1> HIDE DEF c, Values
<1>11. StorageTypes'
  BY <1>1, <1>2, <1>9 DEF StorageInv, StorageTypes
<1>12. DealerInv' /\ CountInv' /\ OnlineInv' /\ OverInv'
  BY <1>1, <1>2 DEF StorageInv, DealerInv, CountInv, OnlineInv, OverInv
<1>13. ListInv'
  <2>1. preproc'.data \o <<>> = s
    BY <1>2, <1>9, ConcatEmptySeq DEF Values
  <2>2. Chunks' = Chunks /\ Len(plan') = Len(plan)
    BY <1>1, SameValues
  <2>3. <<>> \in Values /\ Len(<<>>) = 0 /\ Blocks(<<>>) = <<>>
    BY NoBlocks, EmptySeq DEF Values
  <2>4. /\ expected' = Len(<<>>) /\ link' = Blocks(<<>>)
        /\ Laid(preproc'.data \o <<>>, off, 2 * Len(plan') + 1, Chunks')
        /\ preproc' = At(preproc'.data, off, walking')
    BY <1>1, <1>6, <1>8, <1>9, <2>1, <2>2, <2>3 DEF m
  <2>5. sending' = 1 /\ receiving' = 1 /\ task'.dealer = "over"
    BY <1>1, <1>2
  <2>6. PICK w \in Values : w = <<>>
    BY <2>3
  <2> QED
    BY <2>4, <2>5, <2>6 DEF ListInv
<1>14. TriplesInv'
  <2>1. \A h : TripleOf(h)' = TripleOf(h) /\ IsTriple(h)' = IsTriple(h) /\ StoredAs(h)' = StoredAs(h)
    BY <1>1, SameValues DEF StoredAs
  <2>2. /\ triples = [h \in DOMAIN plan |-> triples[h]]
        /\ \A h \in DOMAIN plan :
             IF StoredNow(h) THEN triples[h] = StoredAs(h) ELSE ssd.party => triples[h] = Empty
    BY DEF StorageInv, TriplesInv
  <2>3. triples' = [h \in DOMAIN plan |-> triples'[h]]
    BY <1>1, <2>2
  <2>4. ASSUME NEW h \in DOMAIN plan, h # g
        PROVE  triples'[h] = triples[h] /\ StoredNow(h)' = StoredNow(h)
    <3>1. triples'[h] = triples[h]
      BY <1>1, <2>2, <2>4
    <3>2. h < g <=> h < g + 1
      BY <1>2, <2>4
    <3> QED
      BY <1>1, <2>1, <3>1, <3>2 DEF StoredNow
  <2>5. ASSUME IsTriple(g)
        PROVE  triples'[g] = StoredAs(g)
    <3>1. triples'[g] = StoredTriple(g, c) /\ g \in DOMAIN plan
      BY <1>1, <1>2, <2>2, <2>5
    <3>2. CASE ssd.party
      <4>1. triples[g] = Empty
        <5>1. ~ StoredNow(g)
          BY <1>1, <1>2 DEF StoredNow
        <5> QED
          BY <2>2, <3>1, <3>2, <5>1
      <4> DEFINE t == TripleOf(g)[1] \o TripleOf(g)[2] \o TripleOf(g)[3]
      <4>2. StoredTriple(g, c) = Store(Empty, t)
        BY <1>10, <3>2, <4>1 DEF StoredTriple
      <4>3. Store(Empty, t) = [data |-> <<>> \o t, at |-> 0]
        <5> HIDE DEF t
        <5>1. \A d, a, x : [[data |-> d, at |-> a] EXCEPT !.data = x] = [data |-> x, at |-> a]
          OBVIOUS
        <5>2. Empty.data = <<>> /\ Empty = [data |-> <<>>, at |-> 0]
          BY DEF Empty
        <5>3. Store(Empty, t) = [Empty EXCEPT !.data = Empty.data \o t]
          BY DEF Store
        <5> QED
          BY <5>1, <5>2, <5>3
      <4>4. <<>> \o t = t
        <5>1. ValuesOf("a", g, plan[g].size) \in Values /\ ValuesOf("b", g, plan[g].size) \in Values
              /\ TripleOf(g)[3] \in Values
          BY <1>2, PlanFacts, ValuesOfType, TripleParts DEF Name
        <5>2. t \in Values
          <6>1. \A x \in Values, y \in Values : x \o y \in Values
            BY ConcatProperties DEF Values
          <6> QED
            BY <5>1, <6>1, TripleParts
        <5> HIDE DEF t
        <5> QED
          BY <5>2, ConcatEmptySeq DEF Values
      <4> QED
        BY <3>1, <3>2, <4>2, <4>3, <4>4 DEF StoredAs
    <3>3. CASE ~ ssd.party
      <4>1. StoredTriple(g, c) = [data |-> TripleOf(g), at |-> 0]
        BY <1>10, <3>3, TripleParts DEF StoredTriple
      <4> QED
        BY <3>1, <3>3, <4>1 DEF StoredAs
    <3> QED
      BY <3>2, <3>3
  <2>6. ASSUME ~ IsTriple(g)
        PROVE  triples' = triples /\ ~ StoredNow(g) /\ ~ StoredNow(g)'
    BY <1>1, <1>2, <2>1, <2>6 DEF StoredNow
  <2>7. IsTriple(g) => StoredNow(g)'
    BY <1>1, <1>2, <2>1 DEF StoredNow
  <2>8. ASSUME NEW h \in DOMAIN plan
        PROVE  IF StoredNow(h)' THEN triples'[h] = StoredAs(h) ELSE ssd.party => triples'[h] = Empty
    <3>1. CASE h # g
      BY <2>2, <2>4, <3>1
    <3>2. CASE h = g
      BY <2>2, <2>5, <2>6, <2>7, <3>2
    <3> QED
      BY <3>1, <3>2
  <2> QED
    BY <1>1, <2>1, <2>3, <2>8 DEF TriplesInv
<1>15. ChunksInOrder'
  <2>1. CASE plan[g].ships
    <3>1. taken' = [gate |-> g, what |-> "shipped", value |-> ValuesOf("shipped", g, plan[g].size)]
      BY <1>1, <1>8, <2>1 DEF TakeChunk, PreChunk
    <3> QED
      BY <1>1, <3>1 DEF ChunksInOrder, ValuesOf
  <2>2. CASE ~ plan[g].ships
    BY <1>1, <2>2, SameValues DEF StorageInv
  <2> QED
    BY <2>1, <2>2
<1>16. TriplesKept'
  BY <1>1, SameValues DEF StorageInv
<1> QED
  BY <1>11, <1>12, <1>13, <1>14, <1>15, <1>16 DEF StorageInv

LEMMA StartEvaluationInv == StorageInv /\ StartEvaluation => StorageInv'
<1> SUFFICES ASSUME StorageInv, StartEvaluation PROVE StorageInv'
  OBVIOUS
<1>1. /\ task.party = "list" /\ expected = 0 /\ walking > Len(plan) /\ task.dealer = "over"
      /\ task' = [task EXCEPT !.party = "online"]
      /\ UNCHANGED <<plan, ssd, repetition, dealing, pre, B, link, expected, preproc,
                     triples, walking, sending, receiving, taken, loaded>>
  BY DEF StartEvaluation
<1>2. /\ task' = [dealer |-> "over", party |-> "online"] /\ walking = Len(plan) + 1
      /\ sending = 1 /\ receiving = 1 /\ preproc.data \in Values
  BY <1>1, PlanFacts DEF StorageInv, StorageTypes, ListInv, List
<1>3. StorageTypes'
  BY <1>1, <1>2 DEF StorageInv, StorageTypes
<1>4. DealerInv' /\ CountInv' /\ ListInv' /\ OverInv'
  BY <1>1, <1>2 DEF StorageInv, DealerInv, CountInv, ListInv, OverInv
<1>5. OnlineInv'
  <2>1. PICK v \in Values : \E off :
          /\ expected = Len(v) /\ link = Blocks(v)
          /\ Laid(preproc.data \o v, off, 2 * Len(plan) + 1, Chunks)
          /\ IF v = <<>> THEN preproc = At(preproc.data, off, walking)
                         ELSE walking = 1 /\ preproc.at = 0
    BY <1>1 DEF StorageInv, ListInv
  <2>2. PICK off :
          /\ expected = Len(v) /\ link = Blocks(v)
          /\ Laid(preproc.data \o v, off, 2 * Len(plan) + 1, Chunks)
          /\ IF v = <<>> THEN preproc = At(preproc.data, off, walking)
                         ELSE walking = 1 /\ preproc.at = 0
    BY <2>1
  <2>3. v = <<>> /\ preproc.data \o <<>> = preproc.data
    BY <1>1, <1>2, <2>1, <2>2, EmptySeq, ConcatEmptySeq DEF Values
  <2>4. link = <<>> /\ Laid(preproc.data, off, 2 * Len(plan) + 1, Chunks)
    BY <2>2, <2>3, NoBlocks
  <2>5. preproc = At(preproc.data, off, Len(plan) + receiving)
    BY <1>2, <2>2, <2>3
  <2>6. Chunks' = Chunks
    BY <1>1, SameValues
  <2> QED
    BY <1>1, <1>2, <2>4, <2>5, <2>6 DEF OnlineInv
<1>6. TriplesInv'
  <2>1. \A g \in DOMAIN plan : StoredNow(g)' = StoredNow(g)
    BY <1>1, <1>2 DEF StoredNow, IsTriple
  <2> QED
    BY <1>1, <2>1, SameTriples DEF StorageInv
<1>7. ChunksInOrder' /\ TriplesKept'
  BY <1>1, SameValues DEF StorageInv
<1> QED
  BY <1>3, <1>4, <1>5, <1>6, <1>7 DEF StorageInv

(* Reading a file three times. *)
LEMMA ReadThree ==
  ASSUME NEW cs, NEW s \in Values, NEW off, Laid(s, off, 4, cs)
  PROVE  /\ Chunk(TRUE, At(s, off, 1), Len(cs[1])) = cs[1]
         /\ Behind(TRUE, At(s, off, 1), Len(cs[1])) = At(s, off, 2)
         /\ Chunk(TRUE, At(s, off, 2), Len(cs[2])) = cs[2]
         /\ Behind(TRUE, At(s, off, 2), Len(cs[2])) = At(s, off, 3)
         /\ Chunk(TRUE, At(s, off, 3), Len(cs[3])) = cs[3]
         /\ Behind(TRUE, At(s, off, 3), Len(cs[3])) = At(s, off, 4)
<1>1. PICK m \in Nat \ {0} : m = 4
  OBVIOUS
<1>2. Laid(s, off, m, cs)
  BY <1>1
<1>3. ASSUME NEW i \in 1 .. m - 1, NEW j, j = i + 1
      PROVE  /\ Chunk(TRUE, At(s, off, i), Len(cs[i])) = cs[i]
             /\ Behind(TRUE, At(s, off, i), Len(cs[i])) = At(s, off, j)
  <2>1. PICK d \in BOOLEAN : d
    OBVIOUS
  <2>2. /\ Chunk(d, At(s, off, i), Len(cs[i])) = cs[i]
        /\ Behind(d, At(s, off, i), Len(cs[i])) = At(s, off, i + 1)
    BY <1>2, ReadChunk
  <2> QED
    BY <1>3, <2>1, <2>2 DEF Chunk, Behind
<1>4. 1 \in 1 .. m - 1 /\ 2 \in 1 .. m - 1 /\ 3 \in 1 .. m - 1 /\ 2 = 1 + 1 /\ 3 = 2 + 1 /\ 4 = 3 + 1
  BY <1>1
<1>5. /\ Chunk(TRUE, At(s, off, 1), Len(cs[1])) = cs[1]
      /\ Behind(TRUE, At(s, off, 1), Len(cs[1])) = At(s, off, 2)
  BY <1>3, <1>4
<1>6. /\ Chunk(TRUE, At(s, off, 2), Len(cs[2])) = cs[2]
      /\ Behind(TRUE, At(s, off, 2), Len(cs[2])) = At(s, off, 3)
  BY <1>3, <1>4
<1>7. /\ Chunk(TRUE, At(s, off, 3), Len(cs[3])) = cs[3]
      /\ Behind(TRUE, At(s, off, 3), Len(cs[3])) = At(s, off, 4)
  BY <1>3, <1>4
<1> QED
  BY <1>5, <1>6, <1>7

(* A load gives the triple stored, and leaves its file as it was. *)

LEMMA LoadIs ==
  ASSUME StorageInv, NEW g \in DOMAIN plan, StoredNow(g), LoadTriples(g)
  PROVE  triples' = triples /\ loaded' = [gate |-> g, value |-> TripleOf(g)]
<1> DEFINE n == LoadSize(g)
           a == TripleOf(g)[1]
           b == TripleOf(g)[2]
           c == TripleOf(g)[3]
           s == a \o b \o c
           cs == <<a, b, c>>
<1>1. /\ triples = [h \in DOMAIN plan |-> triples[h]] /\ triples[g] = StoredAs(g)
      /\ plan \in Plans /\ repetition \in Nat /\ ssd.party \in BOOLEAN
  BY DEF StorageInv, StorageTypes, TriplesInv
<1>2. g \in 1 .. Len(plan) /\ plan[g].size \in Nat /\ n = plan[g].size /\ g \in Nat
  BY <1>1, PlanFacts DEF LoadSize
<1>3. /\ a \in Values /\ b \in Values /\ c \in Values
      /\ Len(a) = n /\ Len(b) = n /\ Len(c) = n
  <2>1. ASSUME NEW what \in Name
        PROVE  ValuesOf(what, g, plan[g].size) \in Values /\ Len(ValuesOf(what, g, plan[g].size)) = n
    <3> HIDE DEF n, Values
    <3> QED
      BY <1>1, <1>2, ValuesOfType
  <2>2. "a" \in Name /\ "b" \in Name /\ "c" \in Name /\ "shipped" \in Name
    BY DEF Name
  <2> HIDE DEF n, Values
  <2> QED
    BY <2>1, <2>2, TripleParts
<1>4. TripleOf(g) = <<a, b, c>>
  BY TripleParts
<1>5. CASE ssd.party
  <2>1. /\ loaded' = [gate |-> g, value |->
             <<Chunk(TRUE, triples[g], n), Chunk(TRUE, Behind(TRUE, triples[g], n), n),
               Chunk(TRUE, Behind(TRUE, Behind(TRUE, triples[g], n), n), n)>>]
        /\ triples' = [triples EXCEPT ![g] =
             Behind(TRUE, Behind(TRUE, Behind(TRUE, triples[g], n), n), n)]
    BY <1>5 DEF LoadTriples
  <2>2. triples[g] = [data |-> s, at |-> 0]
    BY <1>1, <1>5 DEF StoredAs
  <2> HIDE DEF n, a, b, c, Values
  <2>3. /\ <<>> \in Values /\ a \o b \in Values /\ s \in Values
        /\ <<>> \o a = a
        /\ cs[1] = a /\ cs[2] = b /\ cs[3] = c
    <3>1. \A x \in Values, y \in Values : x \o y \in Values
      BY ConcatProperties DEF Values
    <3>2. <<>> \in Values
      BY EmptySeq DEF Values
    <3>3. <<>> \o a = a
      BY <1>3, ConcatEmptySeq DEF Values
    <3> QED
      BY <1>3, <3>1, <3>2, <3>3
  <2> HIDE DEF cs
  <2>0. \A m \in Nat \ {0} : \A u \in Values, v \in Values :
          v = cs[m] /\ (\E off : Laid(u, off, m, cs)) => \E off : Laid(u \o v, off, m + 1, cs)
    <3> TAKE m \in Nat \ {0}
    <3> TAKE u \in Values, v \in Values
    <3> HAVE v = cs[m] /\ (\E off : Laid(u, off, m, cs))
    <3>1. PICK off : Laid(u, off, m, cs)
      OBVIOUS
    <3>2. \E next : Laid(u \o v, next, m + 1, cs)
      BY <3>1, LaidNext
    <3> QED
      BY <3>2
  <2>4. \E off : Laid(a, off, 2, cs)
    <3>1. PICK e \in Values : e = <<>>
      BY <2>3
    <3>2. \E off : Laid(e, off, 1, cs)
      BY <3>1, LaidNothing
    <3>3. \E off : Laid(e \o a, off, 1 + 1, cs)
      BY <1>3, <2>0, <2>3, <3>2
    <3> QED
      BY <2>3, <3>1, <3>3
  <2>5. \E off : Laid(a \o b, off, 3, cs)
    <3>1. \E off : Laid(a \o b, off, 2 + 1, cs)
      BY <1>3, <2>0, <2>3, <2>4
    <3> QED
      BY <3>1
  <2>6. \E off : Laid(s, off, 4, cs)
    <3>1. \E off : Laid((a \o b) \o c, off, 3 + 1, cs)
      BY <1>3, <2>0, <2>3, <2>5
    <3> QED
      BY <3>1
  <2> HIDE DEF s
  <2>7. PICK off : Laid(s, off, 4, cs)
    BY <2>6
  <2>8. At(s, off, 1) = [data |-> s, at |-> 0] /\ At(s, off, 4) = [data |-> s, at |-> 0]
    <3>1. off[1] = 0 /\ off[4] = Len(s) /\ Len(s) \in Nat
      BY <2>3, <2>7, LenProperties DEF Laid, Values
    <3> QED
      BY <3>1 DEF At, Wrap
  <2>9. /\ Chunk(TRUE, At(s, off, 1), n) = a /\ Behind(TRUE, At(s, off, 1), n) = At(s, off, 2)
        /\ Chunk(TRUE, At(s, off, 2), n) = b /\ Behind(TRUE, At(s, off, 2), n) = At(s, off, 3)
        /\ Chunk(TRUE, At(s, off, 3), n) = c /\ Behind(TRUE, At(s, off, 3), n) = At(s, off, 4)
    <3>1. /\ Chunk(TRUE, At(s, off, 1), Len(cs[1])) = cs[1]
          /\ Behind(TRUE, At(s, off, 1), Len(cs[1])) = At(s, off, 2)
          /\ Chunk(TRUE, At(s, off, 2), Len(cs[2])) = cs[2]
          /\ Behind(TRUE, At(s, off, 2), Len(cs[2])) = At(s, off, 3)
          /\ Chunk(TRUE, At(s, off, 3), Len(cs[3])) = cs[3]
          /\ Behind(TRUE, At(s, off, 3), Len(cs[3])) = At(s, off, 4)
      BY <2>3, <2>7, ReadThree
    <3>2. Len(cs[1]) = n /\ Len(cs[2]) = n /\ Len(cs[3]) = n
      BY <1>3, <2>3
    <3> QED
      BY <2>3, <3>1, <3>2
  <2>10. /\ loaded' = [gate |-> g, value |-> <<a, b, c>>]
         /\ triples' = [triples EXCEPT ![g] = triples[g]]
    BY <2>1, <2>2, <2>8, <2>9
  <2> QED
    BY <1>1, <1>4, <2>10
<1>6. CASE ~ ssd.party
  <2>1. loaded' = [gate |-> g, value |-> triples[g].data] /\ triples' = triples
    BY <1>6 DEF LoadTriples
  <2>2. triples[g].data = TripleOf(g)
    BY <1>1, <1>6 DEF StoredAs
  <2> QED
    BY <2>1, <2>2
<1> QED
  BY <1>1, <1>5, <1>6

LEMMA LoadedKept ==
  ASSUME NEW g, loaded' = [gate |-> g, value |-> TripleOf(g)], UNCHANGED <<plan, repetition>>
  PROVE  TriplesKept'
  BY SameValues DEF TriplesKept

LEMMA EvaluateSendInv == StorageInv /\ EvaluateSend => StorageInv'
<1> SUFFICES ASSUME StorageInv, EvaluateSend PROVE StorageInv'
  OBVIOUS
<1>0. PICK g : g = sending
  OBVIOUS
<1>1. /\ task.party = "online" /\ g = sending /\ sending <= Len(plan) /\ sending' = sending + 1
      /\ IF IsTriple(g) THEN LoadTriples(g) ELSE UNCHANGED <<triples, loaded>>
      /\ UNCHANGED <<plan, ssd, repetition, task, dealing, pre, B, link, expected, preproc,
                     walking, receiving, taken>>
  BY <1>0 DEF EvaluateSend, MoreToSend
<1>2. /\ g \in 1 .. Len(plan) /\ DOMAIN plan = 1 .. Len(plan) /\ Len(plan) \in Nat
      /\ walking = Len(plan) + 1 /\ task.dealer = "over"
  BY <1>1, PlanFacts DEF StorageInv, StorageTypes, OnlineInv
<1>3. /\ triples' = triples
      /\ UNCHANGED <<loaded>> \/ loaded' = [gate |-> g, value |-> TripleOf(g)]
  <2>1. IsTriple(g) => StoredNow(g)
    BY <1>1, <1>2 DEF StoredNow
  <2> QED
    BY <1>1, <1>2, <2>1, LoadIs
<1>4. StorageTypes'
  BY <1>1, <1>2 DEF StorageInv, StorageTypes
<1>5. DealerInv' /\ CountInv' /\ ListInv' /\ OverInv'
  BY <1>1, <1>2 DEF StorageInv, DealerInv, CountInv, ListInv, OverInv
<1>6. OnlineInv'
  <2>1. Chunks' = Chunks
    BY <1>1, SameValues
  <2> QED
    BY <1>1, <2>1 DEF StorageInv, OnlineInv
<1>7. TriplesInv'
  BY <1>1, <1>3, SameTriples DEF StorageInv, StoredNow, IsTriple
<1>8. ChunksInOrder' /\ TriplesKept'
  BY <1>1, <1>3, SameValues, LoadedKept DEF StorageInv
<1> QED
  BY <1>4, <1>5, <1>6, <1>7, <1>8 DEF StorageInv

LEMMA EvaluateRecvInv == StorageInv /\ EvaluateRecv => StorageInv'
<1> SUFFICES ASSUME StorageInv, EvaluateRecv PROVE StorageInv'
  OBVIOUS
<1>0. PICK g : g = receiving
  OBVIOUS
<1>1. /\ task.party = "online" /\ g = receiving /\ receiving <= Len(plan) /\ receiving' = receiving + 1
      /\ IF IsTriple(g) THEN LoadTriples(g) /\ UNCHANGED <<taken, preproc>>
                        ELSE TakeChunk(g, "B", VecSize) /\ UNCHANGED <<triples, loaded>>
      /\ UNCHANGED <<plan, ssd, repetition, task, dealing, pre, B, link, expected, walking, sending>>
  BY <1>0 DEF EvaluateRecv
<1>2. /\ plan \in Plans /\ repetition \in Nat /\ ssd.party \in BOOLEAN
      /\ g \in 1 .. Len(plan) /\ DOMAIN plan = 1 .. Len(plan) /\ Len(plan) \in Nat
      /\ walking = Len(plan) + 1 /\ task.dealer = "over" /\ link = <<>>
      /\ preproc.data \in Values
  BY <1>1, PlanFacts DEF StorageInv, StorageTypes, OnlineInv, List
<1> DEFINE m == 2 * Len(plan) + 1
           s == preproc.data
           i == Len(plan) + g
<1>3. PICK off : Laid(s, off, m, Chunks) /\ preproc = At(s, off, i)
  BY <1>1 DEF StorageInv, OnlineInv
<1>4. /\ m \in Nat \ {0} /\ i \in 1 .. m - 1 /\ i \in 1 .. m /\ i + 1 \in 1 .. m /\ i < m
      /\ i + 1 = Len(plan) + (g + 1)
      /\ Chunks[i] = BChunk(g)
  <2>1. i \in 1 .. 2 * Len(plan) /\ ~ (i <= Len(plan)) /\ i - Len(plan) = g
    BY <1>2
  <2> QED
    BY <1>2, <2>1 DEF Chunks
<1>5. /\ triples' = triples
      /\ UNCHANGED <<loaded>> \/ loaded' = [gate |-> g, value |-> TripleOf(g)]
  <2>1. IsTriple(g) => StoredNow(g)
    BY <1>1, <1>2 DEF StoredNow
  <2> QED
    BY <1>1, <1>2, <2>1, LoadIs
<1> HIDE DEF i, m
<1>6. /\ ~ IsTriple(g) => taken' = [gate |-> g, what |-> "B", value |-> ValuesOf("B", g, VecSize)]
      /\ preproc' = At(s, off, i + 1)
  <2>1. CASE ~ IsTriple(g)
    <3>1. BChunk(g) = ValuesOf("B", g, VecSize) /\ Len(BChunk(g)) = VecSize
      BY <1>2, <2>1, ChunkTypes DEF IsTriple, BChunk
    <3>2. /\ Chunk(ssd.party, At(s, off, i), VecSize) = Chunks[i]
          /\ Behind(ssd.party, At(s, off, i), VecSize) = At(s, off, i + 1)
      <4> HIDE DEF s, Values
      <4> QED
        BY <1>2, <1>3, <1>4, <3>1, ReadChunk DEF s
    <3>3. /\ taken' = [gate |-> g, what |-> "B", value |-> Chunk(ssd.party, preproc, VecSize)]
          /\ preproc' = Behind(ssd.party, preproc, VecSize)
      BY <1>1, <2>1 DEF TakeChunk
    <3> QED
      BY <1>3, <1>4, <3>1, <3>2, <3>3
  <2>2. CASE IsTriple(g)
    <3>1. Len(Chunks[i]) = 0
      BY <1>4, <2>2 DEF IsTriple, BChunk
    <3>2. At(s, off, i + 1) = At(s, off, i)
      <4>1. /\ m \in Nat \ {0} /\ s \in Values /\ Laid(s, off, m, Chunks) /\ i \in 1 .. m
            /\ i < m /\ Len(Chunks[i]) = 0
        BY <1>2, <1>3, <1>4, <3>1
      <4> HIDE DEF s, Values
      <4> QED
        BY <4>1, AtType
    <3> QED
      BY <1>1, <1>3, <2>2, <3>2
  <2> QED
    BY <2>1, <2>2
<1>7. preproc' \in List /\ preproc'.data = s
  <2> HIDE DEF s, Values
  <2> QED
    BY <1>2, <1>3, <1>4, <1>6, AtType DEF s
<1> HIDE DEF Values
<1>8. StorageTypes'
  BY <1>1, <1>2, <1>7 DEF StorageInv, StorageTypes
<1>9. DealerInv' /\ CountInv' /\ ListInv' /\ OverInv'
  BY <1>1, <1>2 DEF StorageInv, DealerInv, CountInv, ListInv, OverInv
<1>10. OnlineInv'
  <2>1. Chunks' = Chunks
    BY <1>1, SameValues
  <2>2. /\ Laid(preproc'.data, off, 2 * Len(plan') + 1, Chunks')
        /\ preproc' = At(preproc'.data, off, Len(plan') + receiving')
    BY <1>1, <1>3, <1>4, <1>6, <1>7, <2>1 DEF m
  <2> QED
    BY <1>1, <1>2, <2>2 DEF OnlineInv
<1>11. TriplesInv'
  BY <1>1, <1>5, SameTriples DEF StorageInv, StoredNow, IsTriple
<1>12. ChunksInOrder'
  <2>1. CASE ~ IsTriple(g)
    <3>1. plan[g].size = VecSize
      BY <1>2, <2>1, PlanFacts DEF IsTriple
    <3> QED
      BY <1>1, <1>6, <2>1, <3>1 DEF ChunksInOrder, ValuesOf
  <2>2. CASE IsTriple(g)
    BY <1>1, <2>2, SameValues DEF StorageInv
  <2> QED
    BY <2>1, <2>2
<1>13. TriplesKept'
  BY <1>1, <1>5, SameValues, LoadedKept DEF StorageInv
<1> QED
  BY <1>8, <1>9, <1>10, <1>11, <1>12, <1>13 DEF StorageInv

------------------------------------------------------------------------------
(* The end of a repetition *)

LEMMA ResetPartyInv == StorageInv /\ ResetParty => StorageInv'
<1> SUFFICES ASSUME StorageInv, ResetParty PROVE StorageInv'
  OBVIOUS
<1>1. /\ task.party = "online" /\ receiving > Len(plan)
      /\ preproc' = Cleared(ssd.party, preproc)
      /\ triples' = IF ssd.party THEN [g \in DOMAIN plan |-> Empty] ELSE triples
      /\ task' = [task EXCEPT !.party = "over"]
      /\ UNCHANGED <<plan, ssd, repetition, dealing, pre, B, link, expected, walking,
                     sending, receiving, taken, loaded>>
  BY DEF ResetParty
<1>2. /\ task' = [dealer |-> "over", party |-> "over"] /\ task.dealer = "over"
      /\ receiving = Len(plan) + 1 /\ Len(plan) \in Nat /\ link = <<>>
  BY <1>1, PlanFacts DEF StorageInv, StorageTypes, OnlineInv
<1>3. preproc' = Empty
  <2>1. PICK off : /\ Laid(preproc.data, off, 2 * Len(plan) + 1, Chunks)
                   /\ preproc = At(preproc.data, off, Len(plan) + receiving)
    BY <1>1 DEF StorageInv, OnlineInv
  <2>2. off[Len(plan) + receiving] = Len(preproc.data)
    <3>1. Len(plan) + receiving = 2 * Len(plan) + 1
      BY <1>2
    <3> QED
      BY <2>1, <3>1 DEF Laid
  <2>3. Len(preproc.data) \in Nat
    BY LenProperties DEF StorageInv, StorageTypes, List, Values
  <2>4. preproc = [data |-> preproc.data, at |-> 0]
    BY <2>1, <2>2, <2>3 DEF At, Wrap
  <2> QED
    BY <1>1, <2>4 DEF Cleared, Empty
<1>4. StorageTypes'
  <2>1. Empty \in List
    BY EmptySeq DEF Empty, List, Values
  <2> QED
    BY <1>1, <1>2, <1>3, <2>1 DEF StorageInv, StorageTypes
<1>5. DealerInv' /\ CountInv' /\ ListInv' /\ OnlineInv' /\ OverInv'
  BY <1>1, <1>2, <1>3 DEF StorageInv, DealerInv, CountInv, ListInv, OnlineInv, OverInv
<1>6. TriplesInv'
  <2>1. \A g : ~ StoredNow(g)'
    BY <1>2 DEF StoredNow
  <2>2. triples' = [g \in DOMAIN plan |-> triples'[g]]
    BY <1>1 DEF StorageInv, TriplesInv
  <2>3. \A g \in DOMAIN plan : ssd.party => triples'[g] = Empty
    BY <1>1
  <2> QED
    BY <1>1, <2>1, <2>2, <2>3 DEF TriplesInv
<1>7. ChunksInOrder' /\ TriplesKept'
  BY <1>1, SameValues DEF StorageInv
<1> QED
  BY <1>4, <1>5, <1>6, <1>7 DEF StorageInv

LEMMA NextRepetitionInv == StorageInv /\ NextRepetition => StorageInv'
<1> SUFFICES ASSUME StorageInv, NextRepetition PROVE StorageInv'
  OBVIOUS
<1>1. /\ task = [dealer |-> "over", party |-> "over"]
      /\ repetition' = repetition + 1
      /\ task' = [dealer |-> "deal", party |-> "count"]
      /\ dealing' = 1 /\ walking' = 1 /\ sending' = 1 /\ receiving' = 1
      /\ taken' = NothingTaken /\ loaded' = NothingLoaded
      /\ UNCHANGED <<plan, ssd, pre, B, link, expected, preproc, triples>>
  BY DEF NextRepetition
<1>2. task.dealer = "over" /\ task.party = "over" /\ task'.dealer = "deal" /\ task'.party = "count"
  BY <1>1
<1>3. pre = Empty /\ B = Empty /\ preproc = Empty /\ link = <<>> /\ Empty.data = <<>> /\ Empty.at = 0
  BY <1>2 DEF StorageInv, DealerInv, OverInv, Empty
<1>4. StorageTypes'
  <2>1. Len(plan) \in Nat
    BY PlanFacts DEF StorageInv, StorageTypes
  <2> QED
    BY <1>1, <2>1 DEF StorageInv, StorageTypes
<1>5. DealerInv'
  <2>1. \E off : Laid(pre'.data, off, dealing', PreChunks')
    BY <1>1, <1>3, LaidNothing
  <2>2. \E off : Laid(B'.data, off, dealing', BChunks')
    BY <1>1, <1>3, LaidNothing
  <2> QED
    BY <1>1, <1>2, <1>3, <2>1, <2>2 DEF DealerInv
<1>6. CountInv' /\ ListInv' /\ OnlineInv' /\ OverInv'
  BY <1>1, <1>2, <1>3 DEF CountInv, ListInv, OnlineInv, OverInv
<1>7. TriplesInv'
  <2>1. \A g : ~ StoredNow(g) /\ ~ StoredNow(g)'
    BY <1>2 DEF StoredNow
  <2> QED
    BY <1>1, <2>1 DEF StorageInv, TriplesInv
<1>8. ChunksInOrder' /\ TriplesKept'
  BY <1>1 DEF ChunksInOrder, TriplesKept, NothingTaken, NothingLoaded
<1> QED
  BY <1>4, <1>5, <1>6, <1>7, <1>8 DEF StorageInv

LEMMA StorageStutter == StorageInv /\ UNCHANGED storageVars => StorageInv'
<1> SUFFICES ASSUME StorageInv, UNCHANGED storageVars PROVE StorageInv'
  OBVIOUS
<1>1. UNCHANGED <<plan, ssd, repetition, task, dealing, pre, B, link, expected, preproc,
                  triples, walking, sending, receiving, taken, loaded>>
  BY DEF storageVars
<1>2. PreChunks' = PreChunks /\ BChunks' = BChunks /\ Chunks' = Chunks
  BY <1>1, SameValues
<1>3. StorageTypes'
  BY <1>1 DEF StorageInv, StorageTypes
<1>4. DealerInv'
  BY <1>1, <1>2 DEF StorageInv, DealerInv
<1>5. CountInv'
  BY <1>1, <1>2 DEF StorageInv, CountInv
<1>6. ListInv' /\ OnlineInv' /\ OverInv'
  BY <1>1, <1>2 DEF StorageInv, ListInv, OnlineInv, OverInv
<1>7. TriplesInv'
  BY <1>1, SameTriples DEF StorageInv, StoredNow, IsTriple
<1>8. ChunksInOrder' /\ TriplesKept'
  BY <1>1, SameValues DEF StorageInv
<1> QED
  BY <1>3, <1>4, <1>5, <1>6, <1>7, <1>8 DEF StorageInv

------------------------------------------------------------------------------
(* The theorems *)

\* The invariant holds of every run: the lists are cut where they were put
\* together, in every phase of every repetition.
THEOREM StorageInvariant == StorageSpec => []StorageInv
<1>1. StorageInit => StorageInv
  BY StorageInitInv
<1>2. StorageInv /\ [StorageNext]_storageVars => StorageInv'
  BY DealGateInv, ShipListInv, TakeCountInv, TakeBlockInv, PrepareGateInv,
     StartEvaluationInv, EvaluateSendInv, EvaluateRecvInv, ResetPartyInv,
     NextRepetitionInv, StorageStutter DEF StorageNext
<1> QED
  BY <1>1, <1>2, PTL DEF StorageSpec

\* read_preproc returns for every gate what the dealer stored for it in this
\* repetition, whichever of the two servers keeps files, whatever the block
\* size and however many repetitions went before.
THEOREM ReadsWhatWasStored == StorageSpec => []ChunksInOrder
<1>1. StorageInv => ChunksInOrder
  BY DEF StorageInv
<1> QED
  BY <1>1, StorageInvariant, PTL

\* load_triples returns both times what store_triples of this repetition
\* wrote, from a file that is read round as from vectors.
THEOREM LoadsWhatWasStored == StorageSpec => []TriplesKept
<1>1. StorageInv => TriplesKept
  BY DEF StorageInv
<1> QED
  BY <1>1, StorageInvariant, PTL
==============================================================================
