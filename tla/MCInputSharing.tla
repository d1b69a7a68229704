---------------------------- MODULE MCInputSharing ----------------------------
(***************************************************************************)
(* Slices for TLC: in turn, in the other order, with an empty one, with    *)
(* gaps and with overlaps.                                                 *)
(***************************************************************************)
EXTENDS InputSharing

S(x, n, v) == [start |-> x, size |-> n, nodes |-> v]
Of(s) == [c \in Client |-> s[c + 1]]

\* An offset of -1, read as a size_t.
Wrapped == {Of(<<S(0, 1, 1), S(Word - 1, 1, 1)>>)}

MCSlices == {Of(<<S(x, m, 1), S(y, n, m)>>) : x \in 0 .. 2, m \in 1 .. 2, y \in {0, 1}, n \in {0, 2}}
            \cup {Of(<<S(0, 1, 1), S(1, 1, 0)>>), Of(<<S(0, 1, 0), S(3, 0, 0)>>)} \cup Wrapped

\* One node each, in the order of the clients.
InTurn == {[c \in Client |-> S(c, 1, 1)]}
===============================================================================
