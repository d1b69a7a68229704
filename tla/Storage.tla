------------------------------- MODULE Storage -------------------------------
(***************************************************************************)
(* Where correlated randomness lies between preprocessing and use: in      *)
(* vectors, or with --ssd in files (FileWriter).  Every server chooses for *)
(* itself.  The dealer keeps two lists per party, ships them one behind    *)
(* the other in blocks, and the party reads its copy chunk by chunk: what  *)
(* it needs to preprocess, then the B vectors as it evaluates.  Triples do *)
(* not move, but each is loaded twice, by evaluate_send and evaluate_recv. *)
(*                                                                         *)
(* Correlation takes these lists for ideal queues and follows whose turn   *)
(* it is; this module follows cursors, ends and resets.  One party is      *)
(* modelled with the dealer's half that serves it; the other party has     *)
(* lists, files and a connection of its own.                               *)
(*                                                                         *)
(* Sources: src/core/storage.cpp, src/core/io/disk.h, netmp.h (send_vec,   *)
(* recv_vec), preprocessor.cpp (run), benchmarks/benchmark.h.              *)
(***************************************************************************)
EXTENDS Naturals, Sequences

CONSTANTS
  Plans,       \* per gate what is stored for it
  VecSize,     \* conf.size
  BlockSize,   \* BLOCK_SIZE
  Repetitions  \* of the benchmark loop

\* A permuting gate has a B vector, and a permutation of its own if it
\* `ships' one; a multiplying gate has a triple, whose c is shipped or drawn.
PlannedGate == [type : {"perm", "triple", "compaction"}, size : Nat,
                ships : BOOLEAN, level : Nat]

ASSUME StorageAssumption ==
  /\ BlockSize \in Nat \ {0}
  /\ VecSize \in Nat
  /\ \A p \in Plans :
       /\ p \in Seq(PlannedGate)
       /\ \A g \in DOMAIN p : p[g].type # "triple" => p[g].size = VecSize

VARIABLES
  plan,
  ssd,       \* conf.ssd of the dealer and of the party
  repetition,
  task,      \* what each of the two is doing
  dealing,   \* the gate the dealer handles
  pre, B,    \* the dealer's lists
  link,      \* on the way to the party
  expected,  \* n_recv, the elements the party waits for
  preproc,   \* the party's list
  triples,   \* the party's triples
  walking, sending, receiving,  \* the gates its three walks have come to
  taken,     \* history: the chunk of its list it has read last
  loaded     \* history: the triple it has loaded last

storageVars == <<plan, ssd, repetition, task, dealing, pre, B, link, expected, preproc,
                 triples, walking, sending, receiving, taken, loaded>>

------------------------------------------------------------------------------
(* A list of values with a cursor, as a vector or as a FileWriter *)

Empty == [data |-> <<>>, at |-> 0]

Store(list, v) == [list EXCEPT !.data = @ \o v]
FirstOf(a, b) == IF a < b THEN a ELSE b

\* n values behind the cursor.  A file gives what it has; from an empty one
\* the buffer keeps its zeros.
Zeros(n) == [k \in 1 .. n |-> <<0, 0, "zero", 0>>]
FileHas(list, n) == FirstOf(n, Len(list.data) - list.at)
OutOfBounds == <<<<0, 0, "undefined", 0>>>>
Chunk(onDisk, list, n) ==
  IF onDisk
  THEN IF list.data = <<>> THEN Zeros(n)
       ELSE SubSeq(list.data, list.at + 1, list.at + FileHas(list, n))
  ELSE IF list.at + n <= Len(list.data) THEN SubSeq(list.data, list.at + 1, list.at + n)
       ELSE OutOfBounds

\* The cursor returns to the front behind the last value.
Slip_Behind(onDisk, list, n) ==   \* a slip: it stays there
  LET next == list.at + (IF onDisk THEN FileHas(list, n) ELSE n) IN
    [list EXCEPT !.at = next]
Behind(onDisk, list, n) ==
  LET next == list.at + (IF onDisk THEN FileHas(list, n) ELSE n) IN
    [list EXCEPT !.at = IF next >= Len(list.data) THEN 0 ELSE next]

\* Storage::reset clears vectors without touching read_idx.
Cleared(onDisk, list) == IF onDisk THEN Empty ELSE [list EXCEPT !.data = <<>>]

------------------------------------------------------------------------------
(* The values *)

ValuesOf(what, g, n) == [k \in 1 .. n |-> <<repetition, g, what, k>>]
PreChunk(g) == IF plan[g].ships THEN ValuesOf("shipped", g, plan[g].size) ELSE <<>>
BChunk(g) == IF plan[g].type = "perm" THEN ValuesOf("B", g, VecSize) ELSE <<>>
TripleOf(g) == LET vec(what) == ValuesOf(what, g, plan[g].size) IN
  <<vec("a"), vec("b"), vec(IF plan[g].ships THEN "shipped" ELSE "c")>>

------------------------------------------------------------------------------
(* The dealer: preprocess, then the end of run *)

DealGate ==
  /\ task.dealer = "deal"
  /\ dealing <= Len(plan)
  /\ pre' = Store(pre, PreChunk(dealing))
  /\ B' = Store(B, BChunk(dealing))
  /\ dealing' = dealing + 1
  /\ UNCHANGED <<plan, ssd, repetition, task, link, expected, preproc, triples,
                 walking, sending, receiving, taken, loaded>>

\* send_vec: full blocks, then a rest unless there is none.
Blocks(v) ==
  [i \in 1 .. (Len(v) + BlockSize - 1) \div BlockSize |->
     SubSeq(v, (i - 1) * BlockSize + 1, FirstOf(i * BlockSize, Len(v)))]

\* The dealer reads its files back, or joins its vectors; the count first.
ShipList ==
  /\ task.dealer = "deal"
  /\ dealing > Len(plan)
  /\ LET all == IF ssd.dealer
                THEN Chunk(TRUE, pre, Len(pre.data)) \o Chunk(TRUE, B, Len(B.data))
                ELSE pre.data \o B.data
     IN  link' = link \o <<Len(all)>> \o Blocks(all)
  /\ pre' = Cleared(ssd.dealer, pre)
  /\ B' = Cleared(ssd.dealer, B)
  /\ task' = [task EXCEPT !.dealer = "over"]
  /\ UNCHANGED <<plan, ssd, repetition, dealing, expected, preproc, triples, walking,
                 sending, receiving, taken, loaded>>

------------------------------------------------------------------------------
(* The party: the list *)

\* A vector gets its new length at once, a file grows.
TakeCount ==
  /\ task.party = "count"
  /\ link # <<>>
  /\ expected' = Head(link)
  /\ link' = Tail(link)
  /\ preproc' = IF ssd.party THEN preproc ELSE [preproc EXCEPT !.data = <<>>]
  /\ task' = [task EXCEPT !.party = "list"]
  /\ UNCHANGED <<plan, ssd, repetition, dealing, pre, B, triples, walking, sending,
                 receiving, taken, loaded>>

TakeBlock ==
  /\ task.party = "list"
  /\ expected > 0
  /\ link # <<>>
  /\ preproc' = Store(preproc, Head(link))
  /\ expected' = expected - FirstOf(expected, BlockSize)
  /\ link' = Tail(link)
  /\ UNCHANGED <<plan, ssd, repetition, task, dealing, pre, B, triples, walking,
                 sending, receiving, taken, loaded>>

------------------------------------------------------------------------------
(* The party: its walks over the circuit *)

\* read_preproc, for gate g.
TakeChunk(g, what, n) ==
  /\ taken' = [gate |-> g, what |-> what, value |-> Chunk(ssd.party, preproc, n)]
  /\ preproc' = Behind(ssd.party, preproc, n)

IsTriple(g) == plan[g].type # "perm"

\* Preprocessor::preprocess: permutations and shares of c are read, what is
\* drawn is drawn; store_triples appends to a file and replaces vectors.
StoredTriple(g, c) ==
  LET t == TripleOf(g) IN
    IF ssd.party THEN Store(triples[g], t[1] \o t[2] \o c)
                 ELSE [data |-> <<t[1], t[2], c>>, at |-> 0]

PrepareGate ==
  /\ task.party = "list"
  /\ expected = 0
  /\ walking <= Len(plan)
  /\ LET g == walking
         c == IF plan[g].ships THEN Chunk(ssd.party, preproc, plan[g].size) ELSE TripleOf(g)[3]
     IN  /\ IF plan[g].ships THEN TakeChunk(g, "shipped", plan[g].size)
                                ELSE UNCHANGED <<taken, preproc>>
         /\ triples' = IF IsTriple(g) THEN [triples EXCEPT ![g] = StoredTriple(g, c)] ELSE triples
  /\ walking' = walking + 1
  /\ UNCHANGED <<plan, ssd, repetition, task, dealing, pre, B, link, expected,
                 sending, receiving, loaded>>

\* The sync between preprocessing and evaluation.
StartEvaluation ==
  /\ task.party = "list"
  /\ expected = 0
  /\ walking > Len(plan)
  /\ task.dealer = "over"
  /\ task' = [task EXCEPT !.party = "online"]
  /\ UNCHANGED <<plan, ssd, repetition, dealing, pre, B, link, expected, preproc,
                 triples, walking, sending, receiving, taken, loaded>>

\* A slip: every load asks for conf.size values.
Slip_LoadSize(g) == VecSize
\* Compaction's overload of load_triples asks for conf.size values.
LoadSize(g) == IF plan[g].type = "compaction" THEN VecSize ELSE plan[g].size

LoadTriples(g) ==
  LET n == LoadSize(g)
      t0 == triples[g]
      t1 == Behind(TRUE, t0, n)
      t2 == Behind(TRUE, t1, n)
  IN  IF ssd.party
      THEN /\ loaded' = [gate |-> g, value |->
                <<Chunk(TRUE, t0, n), Chunk(TRUE, t1, n), Chunk(TRUE, t2, n)>>]
           /\ triples' = [triples EXCEPT ![g] = Behind(TRUE, t2, n)]
      ELSE /\ loaded' = [gate |-> g, value |-> t0.data]
           /\ UNCHANGED triples

MoreToSend ==
  /\ sending <= Len(plan)
  /\ plan[sending].level = plan[receiving].level

\* evaluate_send of a level, gate by gate.
EvaluateSend ==
  /\ task.party = "online"
  /\ MoreToSend
  /\ sending' = sending + 1
  /\ IF IsTriple(sending) THEN LoadTriples(sending) ELSE UNCHANGED <<triples, loaded>>
  /\ UNCHANGED <<plan, ssd, repetition, task, dealing, pre, B, link, expected, preproc,
                 walking, receiving, taken>>

\* evaluate_recv of a level, gate by gate.
EvaluateRecv ==
  /\ task.party = "online"
  /\ ~MoreToSend
  /\ receiving <= Len(plan)
  /\ receiving' = receiving + 1
  /\ IF IsTriple(receiving)
     THEN LoadTriples(receiving) /\ UNCHANGED <<taken, preproc>>
     ELSE TakeChunk(receiving, "B", VecSize) /\ UNCHANGED <<triples, loaded>>
  /\ UNCHANGED <<plan, ssd, repetition, task, dealing, pre, B, link, expected, walking, sending>>

------------------------------------------------------------------------------
(* Storage::reset and the next repetition *)

ResetParty ==
  /\ task.party = "online"
  /\ receiving > Len(plan)
  /\ preproc' = Cleared(ssd.party, preproc)
  /\ triples' = IF ssd.party THEN [g \in DOMAIN plan |-> Empty] ELSE triples
  /\ task' = [task EXCEPT !.party = "over"]
  /\ UNCHANGED <<plan, ssd, repetition, dealing, pre, B, link, expected, walking,
                 sending, receiving, taken, loaded>>

NothingTaken == [gate |-> 0, what |-> "nothing", value |-> <<>>]
NothingLoaded == [gate |-> 0, value |-> <<>>]

NextRepetition ==
  /\ task = [dealer |-> "over", party |-> "over"]
  /\ repetition < Repetitions
  /\ repetition' = repetition + 1
  /\ task' = [dealer |-> "deal", party |-> "count"]
  /\ dealing' = 1 /\ walking' = 1 /\ sending' = 1 /\ receiving' = 1
  /\ taken' = NothingTaken /\ loaded' = NothingLoaded
  /\ UNCHANGED <<plan, ssd, pre, B, link, expected, preproc, triples>>

StorageInit ==
  /\ plan \in Plans
  /\ ssd \in [dealer : BOOLEAN, party : BOOLEAN]
  /\ repetition = 1
  /\ task = [dealer |-> "deal", party |-> "count"]
  /\ dealing = 1 /\ walking = 1 /\ sending = 1 /\ receiving = 1
  /\ pre = Empty /\ B = Empty /\ preproc = Empty
  /\ triples = [g \in DOMAIN plan |-> Empty]
  /\ link = <<>> /\ expected = 0
  /\ taken = NothingTaken /\ loaded = NothingLoaded

StorageNext ==
  \/ DealGate \/ ShipList
  \/ TakeCount \/ TakeBlock \/ PrepareGate \/ StartEvaluation
  \/ EvaluateSend \/ EvaluateRecv
  \/ ResetParty \/ NextRepetition

StorageSpec == StorageInit /\ [][StorageNext]_storageVars

StorageDone ==
  /\ task = [dealer |-> "over", party |-> "over"]
  /\ repetition = Repetitions

------------------------------------------------------------------------------
(* Properties *)

\* Every chunk the party reads is the one the dealer stored for that gate in
\* this repetition, whichever of the two uses files (storage.cpp 68-83,
\* 158-170, disk.h 34-83, preprocessor.cpp 60-93).
ChunksInOrder ==
  taken.gate > 0 => taken.value = ValuesOf(taken.what, taken.gate, plan[taken.gate].size)

\* Both loads of a triple give what preprocessing of this repetition stored,
\* from vectors that are overwritten as from files that are read round and
\* round (storage.cpp 104-137).
TriplesKept == loaded.gate > 0 => loaded.value = TripleOf(loaded.gate)

==============================================================================
