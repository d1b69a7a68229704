---------------------------- MODULE Permutations ----------------------------
(***************************************************************************)
(* class Permutation of src/utils/permutation.h: permutations of the       *)
(* positions 0..n-1 of a SIMD vector, represented by perm_vec.             *)
(***************************************************************************)
EXTENDS Naturals

CONSTANT n  \* length of a vector

ASSUME VectorAssumption == n \in Nat \ {0}

Pos == 0 .. n - 1

Perm == {p \in [Pos -> Pos] : \A k \in Pos : \E i \in Pos : p[i] = k}

Identity == [i \in Pos |-> i]

\* inverse(): inverse_vec[perm_vec[i]] = i
PermInverse(p) == [k \in Pos |-> CHOOSE i \in Pos : p[i] = k]

\* operator*: result[i] = p[q[i]], q acts first
Compose(p, q) == [i \in Pos |-> p[q[i]]]

\* operator(): result[p[i]] = v[i]
Scatter(p, v) == [k \in Pos |-> v[PermInverse(p)[k]]]

\* the ReversePermute gate: result[i] = v[p[i]]
Collect(p, v) == [i \in Pos |-> v[p[i]]]

(***************************************************************************)
(* random(): position i is swapped with a position drawn from i..n-1.  The *)
(* draws are the function k with k[i] in 0..n-1-i; the loop is the         *)
(* recursive function over the number of swaps done.                       *)
(***************************************************************************)
Draws == {k \in [Pos -> Pos] : \A i \in Pos : k[i] < n - i}

Swap(p, i, j) == [p EXCEPT ![i] = p[j], ![j] = p[i]]

RandomPerm(k) ==
  LET step[i \in 0..n] ==
        IF i = 0 THEN Identity ELSE Swap(step[i - 1], i - 1, i - 1 + k[i - 1])
  IN  step[n]

==============================================================================
