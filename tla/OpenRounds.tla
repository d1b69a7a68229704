------------------------------ MODULE OpenRounds ------------------------------
(***************************************************************************)
(* What the communication of the online phase promises, level by level:    *)
(* each party hands in the values it has for the level and leaves with     *)
(* every value combined with the partner's value of the same gate; if a    *)
(* level has values at all, nobody leaves it before both have entered it.  *)
(* A process may end at any time; the other one never makes up for it.     *)
(***************************************************************************)
EXTENDS Levels

VARIABLES circ,    \* the levels of the circuit
          lev,     \* the level each party is at
          inside,  \* it has entered the communication of that level
          opened,  \* what it took out of the levels so far
          ended    \* its process has ended

vars == <<circ, lev, inside, opened, ended>>

Both(op, s, t) == [i \in DOMAIN s |-> <<op, s[i], t[i]>>]

\* Products and reveals are summed, ANDs xored, shuffles take the partner's.
Result(p, l) ==
  LET of(q, kind) == Values(q, l, circ[l], kind)
  IN [mul     |-> Both("+", of(p, "mul"), of(Partner(p), "mul")),
      and     |-> Both("^", of(p, "and"), of(Partner(p), "and")),
      shuffle |-> of(Partner(p), "shuffle"),
      reveal  |-> Both("+", of(p, "reveal"), of(Partner(p), "reveal"))]

Running(p) == ~ended[p] /\ lev[p] <= Len(circ)
Silent(p) == NComm(circ[lev[p]]) = 0

Enter(p) ==
  /\ Running(p)
  /\ ~Silent(p)
  /\ ~inside[p]
  /\ inside' = [inside EXCEPT ![p] = TRUE]
  /\ UNCHANGED <<circ, lev, opened, ended>>

MayLeave(p, q) ==
  \/ Silent(p)
  \/ inside[p] /\ lev[q] > lev[p]
  \/ inside[p] /\ lev[q] = lev[p] /\ inside[q]

Leave(p) ==
  /\ Running(p)
  /\ MayLeave(p, Partner(p))
  /\ opened' = [opened EXCEPT ![p] = Append(@, Result(p, lev[p]))]
  /\ lev' = [lev EXCEPT ![p] = @ + 1]
  /\ inside' = [inside EXCEPT ![p] = FALSE]
  /\ UNCHANGED <<circ, ended>>

End(p) ==
  /\ Running(p)
  /\ ended' = [ended EXCEPT ![p] = TRUE]
  /\ UNCHANGED <<circ, lev, inside, opened>>

Init ==
  /\ lev = [p \in Party |-> 1]
  /\ inside = [p \in Party |-> FALSE]
  /\ opened = [p \in Party |-> <<>>]
  /\ ended = [p \in Party |-> FALSE]

Next == \E p \in Party : Enter(p) \/ Leave(p) \/ End(p)

Spec == Init /\ [][Next]_vars

==============================================================================
