-------------------------------- MODULE Levels --------------------------------
(***************************************************************************)
(* What the two computing parties open in one level of a circuit: one      *)
(* vector of values per kind of interactive gate.  A value is named by its *)
(* owner, the level, the kind and its index.                               *)
(***************************************************************************)
EXTENDS Naturals, Sequences

Party == {0, 1}   \* P0 and P1
Partner(p) == 1 - p

Kind == {"mul", "and", "shuffle", "reveal"}

\* How many values a level opens; a level is a count per kind.
NComm(level) == level["mul"] + level["and"] + level["shuffle"] + level["reveal"]

\* mul_vals, and_vals, shuffle_vals and reveal_vals of p in level l.
Values(p, l, level, kind) == [i \in 1 .. level[kind] |-> <<p, l, kind, i>>]

==============================================================================
