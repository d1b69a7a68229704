------------------------------ MODULE MCTransfer ------------------------------
(***************************************************************************)
(* What travels in blocks: the levels' openings (MCExchange) and the       *)
(* dealer's lists (Storage), each with the other one standing still.       *)
(*                                                                         *)
(* Storage has all circuits of up to three gates in two levels, out of     *)
(* permuting gates with and without a permutation shipped and triples of   *)
(* conf.size, less and no elements, two repetitions, and both servers with *)
(* vectors or files.  Three elements in blocks of two: chunks lie across   *)
(* blocks and blocks across chunks.                                        *)
(***************************************************************************)
EXTENDS MCExchange, Storage

Gate(t, n, s) == [type |-> t, size |-> n, ships |-> s, level |-> 1]

MCGates ==
  {Gate("perm", 3, TRUE), Gate("perm", 3, FALSE), Gate("compaction", 3, TRUE),
   Gate("triple", 2, TRUE), Gate("triple", 2, FALSE), Gate("triple", 0, TRUE)}

MCPlans ==
  {[i \in DOMAIN p |-> [p[i] EXCEPT !.level = (i + 1) \div 2]] :
     p \in UNION {[1 .. n -> MCGates] : n \in 0 .. 3}}

StorageIdle ==
  /\ StorageInit /\ plan = <<>> /\ ssd = [dealer |-> FALSE, party |-> FALSE]

MCInit == Init /\ IF circ = <<>> THEN StorageInit ELSE StorageIdle

MCNext ==
  \/ circ # <<>> /\ Next /\ UNCHANGED storageVars
  \/ circ = <<>> /\ StorageNext /\ UNCHANGED vars
  \/ circ = <<>> /\ StorageDone /\ UNCHANGED <<vars, storageVars>>

MCSpec ==
  /\ MCInit /\ [][MCNext]_<<vars, storageVars>>
  /\ \A p \in Party : WF_vars(Evaluator(p))
==============================================================================
