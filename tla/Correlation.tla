----------------------------- MODULE Correlation -----------------------------
(***************************************************************************)
(* How the dealer D and the computing parties P0 and P1 keep their         *)
(* correlated randomness in step.                                          *)
(*                                                                         *)
(* Nothing on the wire says which random value belongs to which gate.  The *)
(* dealer walks the circuit alone, drawing from generators it shares with  *)
(* one party each and appending what the parties cannot draw themselves to *)
(* two lists per party (preproc and B).  A party receives the concatenated *)
(* list and walks the same circuit twice, once to preprocess and once,     *)
(* level by level, to evaluate, drawing and reading by position only.  The *)
(* module follows every draw and every read; a value is represented by its *)
(* provenance (a token), so that two servers use the same value exactly    *)
(* when they use the same token.                                           *)
(*                                                                         *)
(* Sources: src/core/preprocessor.cpp, evaluator.cpp, storage.cpp,         *)
(* src/utils/random_generators.h, sharing.cpp, benchmarks/                 *)
(* benchmark.h (the repetition loop).                                      *)
(***************************************************************************)
EXTENDS Naturals, Sequences, GateOrder

CONSTANTS Idx,       \* the shuffle ids of the circuits (size of the tables)
          VecSize,   \* conf.size, the length of a SIMD wire
          Circuits,  \* the circuits to be evaluated, gates in level order
          MaxReps    \* repetitions of the benchmark loop

P0 == 0
P1 == 1
Dealer == 2
Party == {P0, P1}
Server == Party \cup {Dealer}
Slip_Other(p) == p + 1   \* a slip: no wrap-around (see README, slips)
Other(p) == 1 - p

PermGate == {"Shuffle", "MergedShuffle"}
\* "MulSIMD" stands for the four triple-consuming types; "SetConstVecSIMD"
\* is the one local gate that draws randomness.
GateType == PermGate \cup {"Unshuffle", "MulSIMD", "SetConstVecSIMD"}
Gate == [type : GateType, idx : Idx, pi : Idx, omega : Idx,
         size : Nat \ {0}, level : Nat]

\* That the circuits Circuit::build makes are dealable is checked by the
\* runs of GraphAlgorithm (DealerCanServe).
WellFormed(c) == c \in Seq(Gate) /\ c # <<>> /\ Dealable(c)

ASSUME CorrelationAssumption ==
  /\ VecSize \in Nat \ {0}
  /\ MaxReps \in Nat \ {0}
  /\ \A c \in Circuits : WellFormed(c)

VARIABLES
  circ,     \* the circuit all servers built
  rep,      \* the repetition in progress
  phase,    \* what each server is doing
  pos,      \* gate a server handles next (party online: in evaluate_recv)
  spos,     \* gate a party handles next in evaluate_send
  deals,    \* the dealer's states: deals[g] is the one before gate g
  dealt,    \* history: tokens the dealer prepared, per gate and party
  turn,     \* Preprocessor::recv of each party
  cur,      \* party: position in each generator
  buf,      \* party: the list received from the dealer
  readIdx,  \* party: Storage::read_idx
  out,      \* party: pi_0_p of P0 and pi_1 of P1
  back,     \* party: pi_0 of P0 and pi_1_p of P1
  prepared, \* party: Storage::preprocessed
  inbox,    \* party: levels whose message from the partner is in flight
  used      \* history: tokens the party used, per gate

partyVars == <<turn, cur, buf, readIdx, out, back, prepared, inbox, used>>
vars == <<circ, rep, phase, pos, spos, deals, dealt, partyVars>>

------------------------------------------------------------------------------
(* Tokens *)

Stream == {"prep", "send", "recv", "rng01"}
Token == [by : Stream \cup {"none", "perm", "B", "c"},
          p : Party, at : Nat, n : Nat, rep : Nat]

NoToken == [by |-> "none", p |-> P0, at |-> 0, n |-> 0, rep |-> 0]

\* n calls of random_data on a generator from position `at' on; every call
\* asks for one element or one index of a permutation and uses one block.
Draw(p, s, at, n) == [by |-> s, p |-> p, at |-> at, n |-> n, rep |-> rep]

\* A vector the dealer computes for gate g and ships to p.
Made(what, p, g, n) == [by |-> what, p |-> p, at |-> g, n |-> n, rep |-> rep]

NoTokens == [p \in Party |-> NoToken]
NoQuad == [out |-> NoTokens, back |-> NoTokens]

PermUse == [R : Token, send : Token, recv : Token, B : Token]
TripleUse == [a : Token, b : Token, c : Token]
NoUse == [R |-> NoToken, send |-> NoToken, recv |-> NoToken, B |-> NoToken]

------------------------------------------------------------------------------
(* The dealer: Preprocessor::preprocess with id = D *)

Deal0 == [cur   |-> [p \in Party |-> [prep |-> 0, send |-> 0, recv |-> 0]],
          turn  |-> P0,
          pre   |-> [p \in Party |-> <<>>],
          B     |-> [p \in Party |-> <<>>],
          perms |-> [i \in Idx |-> NoQuad]]

\* A slip: the permutation is drawn before the mask.
Slip_SampleShuffle(g, d) ==
  [out  |-> [p \in Party |-> IF d.turn = P0 /\ p = P0
                             THEN Made("perm", p, g, VecSize)
                             ELSE Draw(p, "send", d.cur[p].send, VecSize)],
   back |-> [p \in Party |-> IF d.turn = P1 /\ p = P1
                             THEN Made("perm", p, g, VecSize)
                             ELSE Draw(p, "recv", d.cur[p].recv, VecSize)]]

\* The four permutations of a new Shuffle id: the party whose turn it is
\* gets one of its two shipped, all others are drawn.
SampleShuffle(g, d) ==
  [out  |-> [p \in Party |-> IF d.turn = P0 /\ p = P0
                             THEN Made("perm", p, g, VecSize)
                             ELSE Draw(p, "send", d.cur[p].send + VecSize, VecSize)],
   back |-> [p \in Party |-> IF d.turn = P1 /\ p = P1
                             THEN Made("perm", p, g, VecSize)
                             ELSE Draw(p, "recv", d.cur[p].recv, VecSize)]]

\* A new MergedShuffle id: each party gets one shipped and draws the other.
SampleMerged(g, d) ==
  [out  |-> [p \in Party |-> Made("perm", p, g, VecSize)],
   back |-> [p \in Party |-> Draw(p, "recv", d.cur[p].recv, VecSize)]]

Drawn(t, s) == IF t.by = s THEN t.n ELSE 0

Shipped(q, p) == CASE q.out[p].by = "perm"  -> <<q.out[p]>>
                   [] q.back[p].by = "perm" -> <<q.back[p]>>
                   [] OTHER                 -> <<>>

AppendB(g, d) == [p \in Party |-> Append(d.B[p], Made("B", p, g, VecSize))]

\* Masks first, then, for an id without permutations, sample those of `q'.
DealPerms(i, g, d, q) ==
  IF d.perms[i] = NoQuad
  THEN [d EXCEPT !.cur = [p \in Party |->
                    [d.cur[p] EXCEPT !.send = @ + VecSize + Drawn(q.out[p], "send"),
                                     !.recv = @ + Drawn(q.back[p], "recv")]],
                 !.pre = [p \in Party |-> d.pre[p] \o Shipped(q, p)],
                 !.B = AppendB(g, d),
                 !.perms[i] = q]
  ELSE [d EXCEPT !.cur = [p \in Party |-> [d.cur[p] EXCEPT !.send = @ + VecSize]],
                 !.B = AppendB(g, d)]

\* What the parties need to know to evaluate gate g forwards (Shuffle) ...
Forward(i, g, d, e) == [p \in Party |->
  [R |-> Draw(p, "send", d.cur[p].send, VecSize),
   send |-> e.perms[i].out[p], recv |-> e.perms[i].back[p],
   B |-> Made("B", p, g, VecSize)]]

\* ... or backwards (Unshuffle), with the roles of the permutations swapped.
Backward(i, g, d) == [p \in Party |->
  [R |-> Draw(p, "send", d.cur[p].send, VecSize),
   send |-> d.perms[i].back[p], recv |-> d.perms[i].out[p],
   B |-> Made("B", p, g, VecSize)]]

\* random_share_vec_3P twice, then random_share_secret_vec_3P: a and b are
\* drawn by both parties, c is drawn by one and shipped to the other.
Triple(g, d, n) == [p \in Party |->
  LET at == d.cur[p].prep IN
    [a |-> Draw(p, "prep", at, n),
     b |-> Draw(p, "prep", at + n, n),
     c |-> IF d.turn = p THEN Made("c", p, g, n) ELSE Draw(p, "prep", at + 2 * n, n)]]

Dealing(types) ==
  /\ phase[Dealer] = "deal"
  /\ pos[Dealer] <= Len(circ)
  /\ circ[pos[Dealer]].type \in types
  /\ UNCHANGED <<circ, rep, phase, spos, partyVars>>

\* Gate g is done: e is the dealer's next state, use what it prepared.
DealAs(g, e, use) ==
  /\ deals' = Append(deals, e)
  /\ dealt' = [dealt EXCEPT ![g] = use]
  /\ pos' = [pos EXCEPT ![Dealer] = g + 1]

DealShuffle ==
  /\ Dealing({"Shuffle"})
  /\ LET g == pos[Dealer]
         d == deals[g]
         i == circ[g].idx
         e == [DealPerms(i, g, d, SampleShuffle(g, d)) EXCEPT !.turn = Other(d.turn)]
     IN  DealAs(g, e, Forward(i, g, d, e))

DealMergedShuffle ==
  /\ Dealing({"MergedShuffle"})
  /\ LET g == pos[Dealer]
         d == deals[g]
         i == circ[g].idx
         e == DealPerms(i, g, d, SampleMerged(g, d))
     IN  DealAs(g, e, Forward(i, g, d, e))

DealUnshuffle ==
  /\ Dealing({"Unshuffle"})
  /\ LET g == pos[Dealer]
         d == deals[g]
         e == [d EXCEPT !.cur = [p \in Party |-> [d.cur[p] EXCEPT !.send = @ + VecSize]],
                        !.B = AppendB(g, d)]
     IN  DealAs(g, e, Backward(circ[g].idx, g, d))

DealTriple ==
  /\ Dealing({"MulSIMD"})
  /\ LET g == pos[Dealer]
         d == deals[g]
         n == circ[g].size
         e == [d EXCEPT !.cur = [p \in Party |-> [d.cur[p] EXCEPT
                                    !.prep = @ + (IF d.turn = p THEN 2 ELSE 3) * n]],
                        !.pre[d.turn] = Append(@, Made("c", d.turn, g, n)),
                        !.turn = Other(d.turn)]
     IN  DealAs(g, e, Triple(g, d, n))

DealNothing ==
  /\ Dealing({"SetConstVecSIMD"})
  /\ LET g == pos[Dealer] IN DealAs(g, deals[g], [p \in Party |-> NoUse])

\* Preprocessor::run, end: the lists go to P0, then to P1 (both were sent
\* their seeds before).  D has nothing to evaluate and waits for the sync.
DealerSends(p) ==
  /\ phase[Dealer] = IF p = P0 THEN "deal" ELSE "give"
  /\ pos[Dealer] = Len(circ) + 1
  /\ LET d == deals[Len(circ) + 1] IN buf' = [buf EXCEPT ![p] = d.pre[p] \o d.B[p]]
  /\ phase' = [phase EXCEPT ![Dealer] = IF p = P0 THEN "give" ELSE "ready", ![p] = "seeded"]
  /\ UNCHANGED <<circ, rep, pos, spos, deals, dealt, turn, cur, readIdx, out, back,
                 prepared, inbox, used>>

------------------------------------------------------------------------------
(* A party: Preprocessor::run and preprocess with id = P0 or P1            *)

\* Storage::read_preproc: the cursor wraps when it reaches the end.
Item(p) == buf[p][readIdx[p] + 1]
\* Slips: the last item is out of bounds; the cursor does not wrap.
Slip_HasItem(p) == readIdx[p] + 1 < Len(buf[p])
Slip_AfterRead(p) == [readIdx EXCEPT ![p] = @ + 1]
HasItem(p) == readIdx[p] < Len(buf[p])
AfterRead(p) == [readIdx EXCEPT ![p] = IF @ + 1 >= Len(buf[p]) THEN 0 ELSE @ + 1]

\* party_create_rngs and the seed of rng_01, which P1 gets from P0.
ReceiveSeeds(p) ==
  /\ phase[p] = "seeded"
  /\ p = P1 => phase[P0] \notin {"wait", "seeded"}
  /\ cur' = [cur EXCEPT ![p] = [s \in Stream |-> 0]]
  /\ turn' = [turn EXCEPT ![p] = P0]
  /\ phase' = [phase EXCEPT ![p] = "prep"]
  /\ UNCHANGED <<circ, rep, pos, spos, deals, dealt, buf, readIdx, out, back,
                 prepared, inbox, used>>

Preparing(p, types) ==
  /\ phase[p] = "prep"
  /\ pos[p] <= Len(circ)
  /\ circ[pos[p]].type \in types
  /\ pos' = [pos EXCEPT ![p] = @ + 1]
  /\ UNCHANGED <<circ, rep, phase, spos, deals, dealt, buf, inbox>>

\* The party whose turn it is at the first gate of an id reads its
\* permutation: P0 its pi_0_p, P1 its pi_1_p.
PrepShuffle(p) ==
  /\ Preparing(p, {"Shuffle"})
  /\ LET i == circ[pos[p]].idx IN
       /\ IF turn[p] = p /\ ~prepared[p][i]
          THEN /\ HasItem(p)
               /\ readIdx' = AfterRead(p)
               /\ out' = IF p = P0 THEN [out EXCEPT ![p][i] = Item(p)] ELSE out
               /\ back' = IF p = P1 THEN [back EXCEPT ![p][i] = Item(p)] ELSE back
          ELSE UNCHANGED <<readIdx, out, back>>
       /\ prepared' = [prepared EXCEPT ![p][i] = TRUE]
  /\ turn' = [turn EXCEPT ![p] = Other(@)]
  /\ UNCHANGED <<cur, used>>

PrepMergedShuffle(p) ==
  /\ Preparing(p, {"MergedShuffle"})
  /\ LET i == circ[pos[p]].idx IN
       /\ IF prepared[p][i]
          THEN UNCHANGED <<readIdx, out>>
          ELSE /\ HasItem(p)
               /\ readIdx' = AfterRead(p)
               /\ out' = [out EXCEPT ![p][i] = Item(p)]
       /\ prepared' = [prepared EXCEPT ![p][i] = TRUE]
  /\ UNCHANGED <<turn, cur, back, used>>

\* Both factors are drawn, the product is drawn or read; store_triples keeps
\* them for the gate, which owns its mult_idx.
PrepTriple(p) ==
  /\ Preparing(p, {"MulSIMD"})
  /\ LET g == pos[p]
         n == circ[g].size
         at == cur[p]["prep"]
         reads == turn[p] = p
     IN  /\ reads => HasItem(p)
         /\ used' = [used EXCEPT ![p][g] =
              [a |-> Draw(p, "prep", at, n), b |-> Draw(p, "prep", at + n, n),
               c |-> IF reads THEN Item(p) ELSE Draw(p, "prep", at + 2 * n, n)]]
         /\ cur' = [cur EXCEPT ![p]["prep"] = at + (IF reads THEN 2 ELSE 3) * n]
         /\ readIdx' = IF reads THEN AfterRead(p) ELSE readIdx
  /\ turn' = [turn EXCEPT ![p] = Other(@)]
  /\ UNCHANGED <<out, back, prepared>>

PrepNothing(p) ==
  /\ Preparing(p, {"Unshuffle", "SetConstVecSIMD"})
  /\ UNCHANGED <<turn, cur, readIdx, out, back, prepared, used>>

PrepDone(p) ==
  /\ phase[p] = "prep"
  /\ pos[p] > Len(circ)
  /\ phase' = [phase EXCEPT ![p] = "ready"]
  /\ UNCHANGED <<circ, rep, pos, spos, deals, dealt, partyVars>>

------------------------------------------------------------------------------
(* Evaluator::run: per level evaluate_send, online_communication,          *)
(* evaluate_recv.  Level(p) is the level p works on.                       *)

Level(p) == circ[pos[p]].level
\* A slip: evaluate_send runs over the whole circuit.
Slip_LayerSent(p) == spos[p] > Len(circ)
LayerSent(p) == spos[p] <= Len(circ) => circ[spos[p]].level # Level(p)
Interactive(l) == \E g \in DOMAIN circ :
                     circ[g].level = l /\ circ[g].type # "SetConstVecSIMD"

\* The sync between preprocessing and evaluation.  D's Evaluator::run
\* returns at once.
StartOnline ==
  /\ \A s \in Server : phase[s] = "ready"
  /\ phase' = [s \in Server |-> IF s = Dealer THEN "evaluated" ELSE "send"]
  /\ pos' = [pos EXCEPT ![P0] = 1, ![P1] = 1]
  /\ spos' = [p \in Party |-> 1]
  /\ UNCHANGED <<circ, rep, deals, dealt, partyVars>>

Sending(p, types) ==
  /\ phase[p] = "send"
  /\ ~LayerSent(p)
  /\ circ[spos[p]].type \in types
  /\ spos' = [spos EXCEPT ![p] = @ + 1]
  /\ UNCHANGED <<circ, rep, phase, pos, deals, dealt, turn, buf, readIdx, back,
                 prepared, inbox>>

\* Draw the mask, then the permutation unless the table has it already.
SendShuffle(p) ==
  /\ Sending(p, PermGate)
  /\ LET g == spos[p]
         i == circ[g].idx
         at == cur[p]["send"]
         new == out[p][i] = NoToken
         perm == IF new THEN Draw(p, "send", at + VecSize, VecSize) ELSE out[p][i]
     IN  /\ cur' = [cur EXCEPT ![p]["send"] = at + (IF new THEN 2 ELSE 1) * VecSize]
         /\ out' = [out EXCEPT ![p][i] = perm]
         /\ used' = [used EXCEPT ![p][g] =
              [NoUse EXCEPT !.R = Draw(p, "send", at, VecSize), !.send = perm]]

\* A slip: the mask is read from the generator without moving on.
Slip_SendUnshuffle(p) ==
  /\ Sending(p, {"Unshuffle"})
  /\ LET g == spos[p] IN
       used' = [used EXCEPT ![p][g] =
         [NoUse EXCEPT !.R = Draw(p, "send", cur[p]["send"], VecSize),
                       !.send = back[p][circ[g].idx]]]
  /\ UNCHANGED <<cur, out>>

SendUnshuffle(p) ==
  /\ Sending(p, {"Unshuffle"})
  /\ LET g == spos[p]
         at == cur[p]["send"]
     IN  /\ cur' = [cur EXCEPT ![p]["send"] = at + VecSize]
         /\ used' = [used EXCEPT ![p][g] =
              [NoUse EXCEPT !.R = Draw(p, "send", at, VecSize),
                            !.send = back[p][circ[g].idx]]]
  /\ UNCHANGED out

SendOther(p) ==
  /\ Sending(p, {"MulSIMD", "SetConstVecSIMD"})
  /\ UNCHANGED <<cur, out, used>>

\* online_communication: one message each way, none if no gate filled one.
SendLevel(p) ==
  /\ phase[p] = "send"
  /\ LayerSent(p)
  /\ IF Interactive(Level(p))
     THEN /\ inbox' = [inbox EXCEPT ![Other(p)] = Append(@, Level(p))]
          /\ phase' = [phase EXCEPT ![p] = "await"]
     ELSE /\ phase' = [phase EXCEPT ![p] = "receive"]
          /\ UNCHANGED inbox
  /\ UNCHANGED <<circ, rep, pos, spos, deals, dealt, turn, cur, buf, readIdx, out,
                 back, prepared, used>>

\* A slip: the message stays in the channel.
Slip_ReceiveLevel(p) ==
  /\ phase[p] = "await"
  /\ inbox[p] # <<>>
  /\ phase' = [phase EXCEPT ![p] = "receive"]
  /\ UNCHANGED <<circ, rep, pos, spos, deals, dealt, partyVars>>

ReceiveLevel(p) ==
  /\ phase[p] = "await"
  /\ inbox[p] # <<>>
  /\ inbox' = [inbox EXCEPT ![p] = Tail(@)]
  /\ phase' = [phase EXCEPT ![p] = "receive"]
  /\ UNCHANGED <<circ, rep, pos, spos, deals, dealt, turn, cur, buf, readIdx, out,
                 back, prepared, used>>

Receiving(p, types) ==
  /\ phase[p] = "receive"
  /\ pos[p] < spos[p]
  /\ circ[pos[p]].type \in types
  /\ pos' = [pos EXCEPT ![p] = @ + 1]
  /\ UNCHANGED <<circ, rep, phase, spos, deals, dealt, turn, buf, out, prepared, inbox>>

RecvShuffle(p) ==
  /\ Receiving(p, PermGate)
  /\ HasItem(p)
  /\ LET g == pos[p]
         i == circ[g].idx
         at == cur[p]["recv"]
         new == back[p][i] = NoToken
         perm == IF new THEN Draw(p, "recv", at, VecSize) ELSE back[p][i]
     IN  /\ cur' = [cur EXCEPT ![p]["recv"] = at + (IF new THEN VecSize ELSE 0)]
         /\ back' = [back EXCEPT ![p][i] = perm]
         /\ used' = [used EXCEPT ![p][g].recv = perm, ![p][g].B = Item(p)]
  /\ readIdx' = AfterRead(p)

RecvUnshuffle(p) ==
  /\ Receiving(p, {"Unshuffle"})
  /\ HasItem(p)
  /\ LET g == pos[p] IN
       used' = [used EXCEPT ![p][g].recv = out[p][circ[g].idx], ![p][g].B = Item(p)]
  /\ readIdx' = AfterRead(p)
  /\ UNCHANGED <<cur, back>>

\* A slip: only the sender of the secret draws.
Slip_RecvSetConstVec(p) ==
  /\ Receiving(p, {"SetConstVecSIMD"})
  /\ LET g == pos[p]
         at == cur[p]["rng01"]
     IN  /\ used' = [used EXCEPT ![p][g].R = Draw(P0, "rng01", at, VecSize)]
         /\ cur' = [cur EXCEPT ![p]["rng01"] = at + (IF p = P0 THEN VecSize ELSE 0)]
  /\ UNCHANGED <<readIdx, back>>

\* random_share_secret_vec_2P: both parties draw the same mask from rng_01.
RecvSetConstVec(p) ==
  /\ Receiving(p, {"SetConstVecSIMD"})
  /\ LET g == pos[p]
         at == cur[p]["rng01"]
     IN  /\ used' = [used EXCEPT ![p][g].R = Draw(P0, "rng01", at, VecSize)]
         /\ cur' = [cur EXCEPT ![p]["rng01"] = at + VecSize]
  /\ UNCHANGED <<readIdx, back>>

RecvTriple(p) ==
  /\ Receiving(p, {"MulSIMD"})
  /\ UNCHANGED <<cur, readIdx, back, used>>

LayerDone(p) ==
  /\ phase[p] = "receive"
  /\ pos[p] = spos[p]
  /\ phase' = [phase EXCEPT ![p] = IF pos[p] > Len(circ) THEN "evaluated" ELSE "send"]
  /\ UNCHANGED <<circ, rep, pos, spos, deals, dealt, partyVars>>

------------------------------------------------------------------------------
(* The repetition loop of Benchmark::run *)

\* Storage::reset, which leaves read_idx alone.  (The dealer's tables are
\* dropped with the rest of its state in NextRep.)
Reset(s) ==
  /\ phase[s] = "evaluated"
  /\ phase' = [phase EXCEPT ![s] = "reset"]
  /\ IF s = Dealer
     THEN UNCHANGED <<buf, out, back, prepared>>
     ELSE /\ buf' = [buf EXCEPT ![s] = <<>>]
          /\ out' = [out EXCEPT ![s] = [i \in Idx |-> NoToken]]
          /\ back' = [back EXCEPT ![s] = [i \in Idx |-> NoToken]]
          /\ prepared' = [prepared EXCEPT ![s] = [i \in Idx |-> FALSE]]
  /\ UNCHANGED <<circ, rep, pos, spos, deals, dealt, turn, cur, readIdx, inbox, used>>

Unused(c) == [g \in DOMAIN c |-> NoUse]

\* The sync at the end of a repetition; the next one makes a Preprocessor.
NextRep ==
  /\ \A s \in Server : phase[s] = "reset"
  /\ rep < MaxReps
  /\ rep' = rep + 1
  /\ phase' = [s \in Server |-> IF s = Dealer THEN "deal" ELSE "wait"]
  /\ pos' = [s \in Server |-> 1]
  /\ spos' = [p \in Party |-> 1]
  /\ deals' = <<Deal0>>
  /\ dealt' = [g \in DOMAIN circ |-> [p \in Party |-> NoUse]]
  /\ used' = [p \in Party |-> Unused(circ)]
  /\ UNCHANGED <<circ, turn, cur, buf, readIdx, out, back, prepared, inbox>>

AllDone == rep = MaxReps /\ \A s \in Server : phase[s] = "reset"

Terminated == AllDone /\ UNCHANGED vars

Init ==
  /\ circ \in Circuits
  /\ rep = 1
  /\ phase = [s \in Server |-> IF s = Dealer THEN "deal" ELSE "wait"]
  /\ pos = [s \in Server |-> 1]
  /\ spos = [p \in Party |-> 1]
  /\ deals = <<Deal0>>
  /\ dealt = [g \in DOMAIN circ |-> [p \in Party |-> NoUse]]
  /\ turn = [p \in Party |-> P0]
  /\ cur = [p \in Party |-> [s \in Stream |-> 0]]
  /\ buf = [p \in Party |-> <<>>]
  /\ readIdx = [p \in Party |-> 0]
  /\ out = [p \in Party |-> [i \in Idx |-> NoToken]]
  /\ back = [p \in Party |-> [i \in Idx |-> NoToken]]
  /\ prepared = [p \in Party |-> [i \in Idx |-> FALSE]]
  /\ inbox = [p \in Party |-> <<>>]
  /\ used = [p \in Party |-> Unused(circ)]

DealerStep ==
  \/ DealShuffle \/ DealMergedShuffle \/ DealUnshuffle \/ DealTriple \/ DealNothing
  \/ \E p \in Party : DealerSends(p)

PrepStep(p) ==
  \/ ReceiveSeeds(p) \/ PrepShuffle(p) \/ PrepMergedShuffle(p)
  \/ PrepTriple(p) \/ PrepNothing(p) \/ PrepDone(p)

EvalStep(p) ==
  \/ SendShuffle(p) \/ SendUnshuffle(p) \/ SendOther(p) \/ SendLevel(p)
  \/ ReceiveLevel(p) \/ RecvShuffle(p) \/ RecvUnshuffle(p) \/ RecvSetConstVec(p)
  \/ RecvTriple(p) \/ LayerDone(p)

\* What one server does on its own, and the two syncs of the three.
ServerStep(s) ==
  \/ s = Dealer /\ DealerStep
  \/ s \in Party /\ (PrepStep(s) \/ EvalStep(s))
  \/ Reset(s)

Next == (\E s \in Server : ServerStep(s)) \/ StartOnline \/ NextRep \/ Terminated

\* Each server is one thread that runs until it blocks on a message or on a
\* sync; a message sent is delivered.
Fairness ==
  /\ \A s \in Server : WF_vars(ServerStep(s))
  /\ WF_vars(StartOnline \/ NextRep)

Spec == Init /\ [][Next]_vars
FairSpec == Spec /\ Fairness

------------------------------------------------------------------------------
(* Properties *)

Use == PermUse \cup TripleUse
Quad == [out : [Party -> Token], back : [Party -> Token]]
Cursor == [{"prep", "send", "recv"} -> Nat]
Snapshot == [cur : [Party -> Cursor], turn : Party, pre : [Party -> Seq(Token)],
             B : [Party -> Seq(Token)], perms : [Idx -> Quad]]

\* The variables hold what they are declared to hold.
TypeOK ==
  /\ circ \in Circuits
  /\ rep \in 1..MaxReps
  /\ phase \in [Server -> {"deal", "give", "wait", "seeded", "prep", "ready", "send",
                           "await", "receive", "evaluated", "reset"}]
  /\ pos \in [Server -> Nat \ {0}]
  /\ spos \in [Party -> Nat \ {0}]
  /\ deals \in Seq(Snapshot)
  /\ dealt \in [DOMAIN circ -> [Party -> Use]]
  /\ turn \in [Party -> Party]
  /\ cur \in [Party -> [Stream -> Nat]]
  /\ buf \in [Party -> Seq(Token)]
  /\ readIdx \in [Party -> Nat]
  /\ out \in [Party -> [Idx -> Token]]
  /\ back \in [Party -> [Idx -> Token]]
  /\ prepared \in [Party -> [Idx -> BOOLEAN]]
  /\ inbox \in [Party -> Seq(Nat)]
  /\ used \in [Party -> [DOMAIN circ -> Use]]

Evaluated(p, g) ==
  phase[p] \in {"send", "await", "receive", "evaluated", "reset"} /\ g < pos[p]

\* A party that is through with a gate used the mask, the two permutations
\* and the correction vector (or the triple) that the dealer correlated for
\* that gate: drawing and reading by position never slips.
Aligned ==
  \A p \in Party : \A g \in DOMAIN circ :
    Evaluated(p, g) /\ circ[g].type # "SetConstVecSIMD" => used[p][g] = dealt[g][p]

\* No server works with a permutation that was never sampled: an Unshuffle
\* finds both tables filled, a MergedShuffle merges two sampled shuffles.
PermsKnown ==
  /\ \A p \in Party : \A g \in DOMAIN circ :
       Evaluated(p, g) /\ circ[g].type \in PermGate \cup {"Unshuffle"} =>
         used[p][g].send # NoToken /\ used[p][g].recv # NoToken
  /\ \A g \in DOMAIN circ :
       g < pos[Dealer] /\ circ[g].type = "MergedShuffle" =>
         \A i \in {circ[g].pi, circ[g].omega} : deals[g].perms[i] # NoQuad

\* The two parties mask a constant vector with the same part of rng_01.
SharedMask ==
  \A g \in DOMAIN circ :
    circ[g].type = "SetConstVecSIMD" /\ (\A p \in Party : Evaluated(p, g)) =>
      used[P0][g] = used[P1][g] /\ used[P0][g].R # NoToken

\* Masks and permutations come from disjoint parts of a generator: what is
\* drawn for one purpose is never drawn again for another.
Tokens(p) == UNION { {used[p][g][f] : f \in DOMAIN used[p][g]} :
                     g \in {h \in DOMAIN circ : Evaluated(p, h)} }
Disjoint(t, u) == t.at + t.n <= u.at \/ u.at + u.n <= t.at

NoReuse ==
  \A p \in Party :
    /\ \A t, u \in Tokens(p) : t.by = u.by /\ t.by \in Stream /\ t # u => Disjoint(t, u)
    /\ \A g, h \in DOMAIN circ :
         Evaluated(p, g) /\ Evaluated(p, h) /\ g # h =>
           \A f \in DOMAIN used[p][g] \cap {"R", "B", "a", "b", "c"} \cap DOMAIN used[p][h] :
             used[p][g][f] = NoToken \/ used[p][g][f] # used[p][h][f]

\* A party has consumed its list exactly when it is done, so that the read
\* cursor, which survives Storage::reset, stands at 0 for the next list.
Consumed == \A p \in Party : phase[p] \in {"evaluated", "reset", "wait"} => readIdx[p] = 0

\* A party adds the partner's message to the values of the level that the
\* message was made for.
LevelsMatch ==
  \A p \in Party : phase[p] = "await" /\ inbox[p] # <<>> => Head(inbox[p]) = Level(p)

\* Nobody waits forever: all repetitions come to their end.
Termination == <>AllDone

==============================================================================
