------------------------------- MODULE Barrier -------------------------------
(***************************************************************************)
(* What NetIOMP::sync promises to run_server.cpp, run_client.cpp and       *)
(* benchmark.h: nobody returns from its n-th sync before everybody has     *)
(* called its n-th sync.                                                   *)
(***************************************************************************)
EXTENDS Naturals

CONSTANTS Proc,    \* the servers and clients
          Rounds   \* how often the program syncs

VARIABLES entered, \* syncs that a process has called
          left     \* syncs that have returned to it

Init == entered = [p \in Proc |-> 0] /\ left = [p \in Proc |-> 0]

Enter(p) ==
  /\ entered[p] = left[p]
  /\ entered[p] < Rounds
  /\ entered' = [entered EXCEPT ![p] = @ + 1]
  /\ UNCHANGED left

Leave(p) ==
  /\ left[p] < entered[p]
  /\ \A q \in Proc : entered[q] >= entered[p]
  /\ left' = [left EXCEPT ![p] = @ + 1]
  /\ UNCHANGED entered

Next == \E p \in Proc : Enter(p) \/ Leave(p)

Spec == Init /\ [][Next]_<<entered, left>>
==============================================================================
