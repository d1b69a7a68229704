--------------------------- MODULE MCGateProtocol ---------------------------
(***************************************************************************)
(* Instances of GateProtocol, WordGates and GraphSharing for TLC: what the *)
(* two parties compute on shares, from the input graph on.                 *)
(*                                                                         *)
(* GateProtocol: arithmetic gates over Z/4, where two is a zero divisor as *)
(* it is in Z/2^32, on vectors of length three (the shortest whose         *)
(* permutations do not commute).                                           *)
(* WordGates: words of four bits, so two EQZ layers; the first of two      *)
(* differences has every pair of shares, the other sums are zero, eight    *)
(* (the top bit alone) or have several bits.                               *)
(* GraphSharing: graphs of one to four nodes and none to three edges:      *)
(* halves of equal and of different sizes, an empty left half, ids of two  *)
(* and of three bits.                                                      *)
(* Each behaviour is one of one module; the others' state stands still.    *)
(***************************************************************************)
EXTENDS GateProtocol, WordGates, GraphSharing, TLC

ModPlus(a, b) == (a + b) % 4
ModNeg(a) == (4 - a) % 4
ModTimes(a, b) == (a * b) % 4

MCRing == 0..3

\* 1 2 3: all different, so that a wrong position shows; 1 0 1: bits.
MCVectors == {[i \in Pos |-> (i + 1) % 4], [i \in Pos |-> (i + 1) % 2]}

MCDifferences ==
  {[src |-> <<v, s>>, dst |-> <<d, 8>>] : v \in 0..15, s \in {3, 13}, d \in {0, 8}}

MCDraws ==
  {[a |-> (0 :> 6 @@ 1 :> 11), b |-> (0 :> 13 @@ 1 :> 5), c0 |-> 9],
   [a |-> (0 :> 15 @@ 1 :> 3), b |-> (0 :> 2 @@ 1 :> 8), c0 |-> 0]}

MCConfs == {[nodes |-> v, entries |-> v + e] : v \in 1 .. 4, e \in 0 .. 3}

NoWords ==
  /\ difference = <<>> /\ deal = <<>> /\ held = <<>> /\ opened = <<>> /\ waits = <<>>
  /\ level = [i \in Id01 |-> 0]

NoGate ==
  /\ gate = "Reveal" /\ corr = <<>> /\ order = <<>> /\ sent = <<>> /\ res = <<>>
  /\ x = <<>> /\ y = <<>>
  /\ step = [p \in Party |-> "start"]

NoSharing ==
  /\ conf = [nodes |-> 0, entries |-> 0] /\ rng01 = <<>> /\ dims = <<>> /\ parts = <<>>
  /\ joined = <<>> /\ toward = <<>> /\ revealed = <<>>
  /\ at = [p \in Half |-> <<"idle", 0, 0>>]

MCInit ==
  \/ Init /\ NoWords /\ NoSharing
  \/ NoGate /\ WordInit /\ NoSharing
  \/ NoGate /\ NoWords /\ SharingInit

MCNext ==
  \/ corr # <<>> /\ Next /\ UNCHANGED <<wordVars, sharingVars>>
  \/ deal # <<>> /\ WordNext /\ UNCHANGED <<vars, sharingVars>>
  \/ rng01 # <<>> /\ SharingNext /\ UNCHANGED <<vars, wordVars>>
  \/ (WordsOver \/ SharingDone) /\ UNCHANGED <<vars, wordVars, sharingVars>>

MCSpec == MCInit /\ [][MCNext]_<<vars, wordVars, sharingVars>>

==============================================================================
