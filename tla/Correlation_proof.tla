-------------------------- MODULE Correlation_proof --------------------------
(***************************************************************************)
(* Invariants of Correlation, for all circuits the builder may produce:    *)
(* types and levels, and then what the dealer prepared for every gate and  *)
(* where that puts a party which walks the same circuit drawing and        *)
(* reading by position.  Alignment_proof shows that every step keeps this. *)
(***************************************************************************)
EXTENDS Correlation, FiniteSetTheorems, TLAPS

------------------------------------------------------------------------------
(* Types of the dealer's operators *)

LEMMA PartyFacts ==
  /\ P0 \in Party /\ P1 \in Party /\ Dealer \notin Party /\ Dealer \in Server
  /\ \A p \in Party : p \in Server /\ p # Dealer /\ Other(p) \in Party
BY DEF Party, Server, Dealer, P0, P1, Other

LEMMA TokenTypes ==
  ASSUME rep \in Nat, NEW p \in Party, NEW at \in Nat, NEW n \in Nat
  PROVE  /\ \A s \in Stream : Draw(p, s, at, n) \in Token
         /\ \A w \in {"perm", "B", "c"} : Made(w, p, at, n) \in Token
         /\ NoToken \in Token
BY PartyFacts DEF Draw, Made, NoToken, Token

LEMMA NoUseType == NoUse \in Use
BY PartyFacts DEF NoUse, Use, PermUse, NoToken, Token

LEMMA GateFacts ==
  ASSUME circ \in Circuits, NEW g \in DOMAIN circ
  PROVE  /\ circ \in Seq(Gate) /\ Len(circ) \in Nat \ {0}
         /\ DOMAIN circ = 1 .. Len(circ)
         /\ circ[g] \in Gate /\ circ[g].idx \in Idx
         /\ circ[g].size \in Nat \ {0} /\ circ[g].level \in Nat
<1>1. WellFormed(circ)
  BY CorrelationAssumption
<1>2. circ \in Seq(Gate) /\ circ # <<>>
  BY <1>1 DEF WellFormed
<1>3. DOMAIN circ = 1 .. Len(circ) /\ Len(circ) \in Nat \ {0}
  BY <1>2
<1>4. circ[g] \in Gate
  BY <1>2, <1>3
<1> QED
  BY <1>2, <1>3, <1>4 DEF Gate

LEMMA SampleTypes ==
  ASSUME rep \in Nat, NEW d \in Snapshot, NEW g \in Nat
  PROVE  SampleShuffle(g, d) \in Quad /\ SampleMerged(g, d) \in Quad
<1>1. VecSize \in Nat
  BY CorrelationAssumption
<1>2. \A p \in Party : d.cur[p]["send"] \in Nat /\ d.cur[p]["recv"] \in Nat
  BY DEF Snapshot, Cursor
<1>3. \A p \in Party : /\ Made("perm", p, g, VecSize) \in Token
                       /\ Draw(p, "send", d.cur[p].send + VecSize, VecSize) \in Token
                       /\ Draw(p, "recv", d.cur[p].recv, VecSize) \in Token
  <2>1. TAKE p \in Party
  <2>2. d.cur[p]["send"] + VecSize \in Nat
    BY <1>1, <1>2
  <2> QED
    BY <1>1, <1>2, <2>2, TokenTypes DEF Stream
<1> QED
  BY <1>3 DEF SampleShuffle, SampleMerged, Quad

LEMMA CursorType ==
  ASSUME NEW c \in Cursor, NEW m \in Nat, NEW k \in Nat
  PROVE  /\ c.prep \in Nat /\ c.send \in Nat /\ c.recv \in Nat
         /\ [c EXCEPT !.send = @ + m] \in Cursor
         /\ [c EXCEPT !.prep = @ + m] \in Cursor
         /\ [c EXCEPT !.send = @ + m, !.recv = @ + k] \in Cursor
<1>1. c.prep \in Nat /\ c.send \in Nat /\ c.recv \in Nat
  BY DEF Cursor
<1>2. c.prep + m \in Nat /\ c.send + m \in Nat /\ c.recv + k \in Nat
  BY <1>1
<1>3. [c EXCEPT !.send = @ + m] \in Cursor
  BY <1>2 DEF Cursor
<1>4. [c EXCEPT !.prep = @ + m] \in Cursor
  BY <1>2 DEF Cursor
<1>5. [c EXCEPT !.send = @ + m, !.recv = @ + k] \in Cursor
  BY <1>2, <1>3 DEF Cursor
<1> QED
  BY <1>1, <1>3, <1>4, <1>5

\* What is sampled is typed; what is taken from a snapshot stays a snapshot.
LEMMA DealPermsType ==
  ASSUME rep \in Nat, NEW d \in Snapshot, NEW g \in Nat, NEW i \in Idx, NEW q \in Quad
  PROVE  DealPerms(i, g, d, q) \in Snapshot
<1>1. VecSize \in Nat
  BY CorrelationAssumption
<1>2. /\ d.cur \in [Party -> Cursor] /\ d.pre \in [Party -> Seq(Token)]
      /\ d.B \in [Party -> Seq(Token)] /\ d.perms \in [Idx -> Quad] /\ d.turn \in Party
      /\ d = [cur |-> d.cur, turn |-> d.turn, pre |-> d.pre, B |-> d.B, perms |-> d.perms]
  BY DEF Snapshot
<1>3. AppendB(g, d) \in [Party -> Seq(Token)]
  <2>1. ASSUME NEW p \in Party
        PROVE  Append(d.B[p], Made("B", p, g, VecSize)) \in Seq(Token)
    <3>1. Made("B", p, g, VecSize) \in Token
      BY <1>1, TokenTypes
    <3> QED
      BY <1>2, <3>1
  <2> QED
    BY <2>1 DEF AppendB
<1>4. ASSUME NEW p \in Party
      PROVE  Shipped(q, p) \in Seq(Token)
  BY DEF Shipped, Quad
<1>5. ASSUME NEW t \in Token, NEW s
      PROVE  Drawn(t, s) \in Nat
  BY DEF Drawn, Token
<1>6. ASSUME NEW p \in Party, NEW m \in Nat, NEW k \in Nat
      PROVE  /\ [d.cur[p] EXCEPT !.send = @ + m, !.recv = @ + k] \in Cursor
             /\ [d.cur[p] EXCEPT !.send = @ + m] \in Cursor
  BY <1>2, CursorType
<1>7. CASE d.perms[i] = NoQuad
  <2> DEFINE cur2 == [p \in Party |->
                 [d.cur[p] EXCEPT !.send = @ + VecSize + Drawn(q.out[p], "send"),
                                  !.recv = @ + Drawn(q.back[p], "recv")]]
             pre2 == [p \in Party |-> d.pre[p] \o Shipped(q, p)]
             perms2 == [d.perms EXCEPT ![i] = q]
  <2>1. cur2 \in [Party -> Cursor]
    <3>1. ASSUME NEW p \in Party
          PROVE  [d.cur[p] EXCEPT !.send = @ + VecSize + Drawn(q.out[p], "send"),
                                  !.recv = @ + Drawn(q.back[p], "recv")] \in Cursor
      <4>1. Drawn(q.out[p], "send") \in Nat /\ Drawn(q.back[p], "recv") \in Nat
        BY <1>5 DEF Quad
      <4> DEFINE u == d.cur[p].send + VecSize + Drawn(q.out[p], "send")
                 v == d.cur[p].recv + Drawn(q.back[p], "recv")
      <4>2. d.cur[p] \in Cursor /\ d.cur[p].send \in Nat /\ d.cur[p].recv \in Nat
        BY <1>2, CursorType
      <4>3. u \in Nat /\ v \in Nat
        BY <1>1, <4>1, <4>2
      <4> HIDE DEF u, v
      <4>4. [d.cur[p] EXCEPT !.send = u, !.recv = v] \in Cursor
        BY <4>2, <4>3 DEF Cursor
      <4> QED
        BY <4>4 DEF u, v
    <3> QED
      BY <3>1
  <2>2. pre2 \in [Party -> Seq(Token)]
    BY <1>2, <1>4
  <2>3. perms2 \in [Idx -> Quad]
    BY <1>2
  <2>4. DealPerms(i, g, d, q)
          = [cur |-> cur2, turn |-> d.turn, pre |-> pre2, B |-> AppendB(g, d), perms |-> perms2]
    BY <1>2, <1>7 DEF DealPerms
  <2> HIDE DEF cur2, pre2, perms2
  <2> QED
    BY <1>2, <1>3, <2>1, <2>2, <2>3, <2>4 DEF Snapshot
<1>8. CASE d.perms[i] # NoQuad
  <2> DEFINE cur2 == [p \in Party |-> [d.cur[p] EXCEPT !.send = @ + VecSize]]
  <2>1. cur2 \in [Party -> Cursor]
    BY <1>1, <1>6
  <2>2. DealPerms(i, g, d, q)
          = [cur |-> cur2, turn |-> d.turn, pre |-> d.pre, B |-> AppendB(g, d), perms |-> d.perms]
    BY <1>2, <1>8 DEF DealPerms
  <2> HIDE DEF cur2
  <2> QED
    BY <1>2, <1>3, <2>1, <2>2 DEF Snapshot
<1> QED
  BY <1>7, <1>8

\* The tokens of a gate, as the dealer prepares them, are typed.
LEMMA UseTypes ==
  ASSUME rep \in Nat, NEW d \in Snapshot, NEW e \in Snapshot, NEW g \in Nat, NEW i \in Idx,
         NEW n \in Nat
  PROVE  /\ Forward(i, g, d, e) \in [Party -> Use]
         /\ Backward(i, g, d) \in [Party -> Use]
         /\ Triple(g, d, n) \in [Party -> Use]
<1>1. VecSize \in Nat
  BY CorrelationAssumption
<1>2. \A p \in Party : /\ d.cur[p]["send"] \in Nat /\ d.cur[p]["prep"] \in Nat
                       /\ d.perms[i].out[p] \in Token /\ d.perms[i].back[p] \in Token
                       /\ e.perms[i].out[p] \in Token /\ e.perms[i].back[p] \in Token
  <2>1. /\ d.cur \in [Party -> Cursor] /\ d.perms \in [Idx -> Quad] /\ e.perms \in [Idx -> Quad]
    BY DEF Snapshot
  <2>2. d.perms[i] \in Quad /\ e.perms[i] \in Quad
    BY <2>1
  <2> QED
    BY <2>1, <2>2, CursorType DEF Quad
<1>3. ASSUME NEW p \in Party
      PROVE  Draw(p, "send", d.cur[p].send, VecSize) \in Token /\ Made("B", p, g, VecSize) \in Token
  BY <1>1, <1>2, TokenTypes DEF Stream
<1>4. ASSUME NEW p \in Party
      PROVE  /\ Draw(p, "prep", d.cur[p].prep, n) \in Token
             /\ Draw(p, "prep", d.cur[p].prep + n, n) \in Token
             /\ Draw(p, "prep", d.cur[p].prep + 2 * n, n) \in Token
             /\ Made("c", p, g, n) \in Token
  <2>1. d.cur[p].prep + n \in Nat /\ d.cur[p].prep + 2 * n \in Nat
    BY <1>2
  <2> QED
    BY <1>2, <2>1, TokenTypes DEF Stream
<1>5. Forward(i, g, d, e) \in [Party -> Use] /\ Backward(i, g, d) \in [Party -> Use]
  BY <1>2, <1>3 DEF Forward, Backward, Use, PermUse
<1>6. Triple(g, d, n) \in [Party -> Use]
  BY <1>4 DEF Triple, Use, TripleUse
<1> QED
  BY <1>5, <1>6

------------------------------------------------------------------------------
(* Type correctness *)

\* The dealer has one snapshot per gate handled, and no server runs past the
\* end of the circuit.
Bounds ==
  /\ pos[Dealer] = Len(deals) /\ pos[Dealer] <= Len(circ) + 1
  /\ \A p \in Party : spos[p] <= Len(circ) + 1
  /\ \A p \in Party : phase[p] = "send" => pos[p] <= Len(circ)

TInv == TypeOK /\ Bounds

Phases == {"deal", "give", "wait", "seeded", "prep", "ready", "send",
           "await", "receive", "evaluated", "reset"}

LEMMA Deal0Type == Deal0 \in Snapshot
BY PartyFacts DEF Deal0, Snapshot, Cursor, Quad, NoQuad, NoTokens, NoToken, Token

LEMMA TypeInit == Init => TInv
<1> SUFFICES ASSUME Init PROVE TInv
  OBVIOUS
<1>1. circ \in Circuits /\ circ # <<>> /\ Len(circ) \in Nat \ {0}
  BY CorrelationAssumption DEF Init, WellFormed
<1>2. NoToken \in Token /\ P0 \in Party /\ NoUse \in Use
  BY PartyFacts, NoUseType DEF NoToken, Token
<1>3. Deal0 \in Snapshot
  BY Deal0Type
<1>4. deals \in Seq(Snapshot) /\ Len(deals) = 1
  BY <1>3 DEF Init
<1>5. rep \in 1 .. MaxReps
  BY CorrelationAssumption DEF Init
<1>6. TypeOK
  BY <1>1, <1>2, <1>4, <1>5 DEF Init, TypeOK, Unused
<1>7. Bounds
  BY <1>1, <1>4, PartyFacts DEF Init, Bounds, Server
<1> QED
  BY <1>6, <1>7 DEF TInv

\* A step of the dealer to a next snapshot e, with the tokens use prepared.
LEMMA DealType ==
  ASSUME TInv, NEW types, Dealing(types),
         NEW e \in Snapshot, NEW use \in [Party -> Use], DealAs(pos[Dealer], e, use)
  PROVE  TInv'
<1> DEFINE g == pos[Dealer]
<1>1. /\ g \in Nat \ {0} /\ g <= Len(circ) /\ Len(circ) \in Nat /\ DOMAIN circ = 1 .. Len(circ)
  <2>1. g \in Nat \ {0} /\ g <= Len(circ)
    BY PartyFacts DEF TInv, TypeOK, Dealing
  <2>2. circ \in Seq(Gate)
    BY CorrelationAssumption DEF TInv, TypeOK, WellFormed
  <2> QED
    BY <2>1, <2>2
<1>2. /\ UNCHANGED <<circ, rep, phase, spos, turn, cur, buf, readIdx, out, back,
                     prepared, inbox, used>>
  BY DEF Dealing, partyVars
<1>3. deals \in Seq(Snapshot) /\ Len(deals) = g
  BY DEF TInv, TypeOK, Bounds
<1>4. deals' \in Seq(Snapshot) /\ Len(deals') = g + 1
  BY <1>3 DEF DealAs
<1>5. dealt' \in [DOMAIN circ -> [Party -> Use]]
  BY <1>1 DEF DealAs, TInv, TypeOK
<1>6. /\ pos' \in [Server -> Nat \ {0}] /\ pos'[Dealer] = g + 1
      /\ \A p \in Party : pos'[p] = pos[p]
  <2>1. /\ pos \in [Server -> Nat \ {0}] /\ pos' = [pos EXCEPT ![Dealer] = g + 1]
        /\ g + 1 \in Nat \ {0}
    BY <1>1 DEF DealAs, TInv, TypeOK
  <2> HIDE DEF g
  <2>2. pos' \in [Server -> Nat \ {0}]
    BY <2>1
  <2>3. pos'[Dealer] = g + 1 /\ \A p \in Party : pos'[p] = pos[p]
    BY <2>1, PartyFacts
  <2> QED
    BY <2>2, <2>3
<1>7. TypeOK'
  <2>1. deals' \in Seq(Snapshot) /\ dealt' \in [DOMAIN circ' -> [Party -> Use]]
    BY <1>2, <1>4, <1>5
  <2>2. pos' \in [Server -> Nat \ {0}]
    BY <1>6
  <2> QED
    BY <1>2, <2>1, <2>2 DEF TInv, TypeOK
<1>8. Bounds'
  BY <1>1, <1>2, <1>4, <1>6 DEF TInv, Bounds
<1> QED
  BY <1>7, <1>8 DEF TInv

LEMMA DealerTypes ==
  ASSUME TInv, DealShuffle \/ DealMergedShuffle \/ DealUnshuffle \/ DealTriple \/ DealNothing
  PROVE  TInv'
<1> DEFINE g == pos[Dealer]
           d == deals[g]
           i == circ[g].idx
<1>1. \A types : Dealing(types) => g \in Nat \ {0} /\ g \in DOMAIN circ
  <2>1. circ \in Seq(Gate) /\ g \in Nat \ {0}
    BY CorrelationAssumption, PartyFacts DEF TInv, TypeOK, WellFormed
  <2> QED
    BY <2>1 DEF Dealing
<1>2. rep \in Nat /\ circ \in Circuits
  BY DEF TInv, TypeOK
<1>3. ASSUME g \in Nat \ {0}
      PROVE  d \in Snapshot
  BY <1>3 DEF TInv, TypeOK, Bounds
<1>4. ASSUME NEW s \in Snapshot
      PROVE  s.turn \in Party /\ [s EXCEPT !.turn = Other(s.turn)] \in Snapshot
  BY PartyFacts DEF Snapshot
<1>5. CASE DealShuffle
  <2> DEFINE f == DealPerms(i, g, d, SampleShuffle(g, d))
             e == [f EXCEPT !.turn = Other(d.turn)]
  <2>1. Dealing({"Shuffle"}) /\ DealAs(g, e, Forward(i, g, d, e))
    BY <1>5 DEF DealShuffle
  <2>2. g \in Nat \ {0} /\ d \in Snapshot /\ i \in Idx
    BY <1>1, <1>2, <1>3, <2>1, GateFacts
  <2> HIDE DEF d, i, g
  <2>3. f \in Snapshot
    BY <1>2, <2>2, SampleTypes, DealPermsType
  <2>4. e \in Snapshot
    BY <1>4, <2>2, <2>3, PartyFacts DEF Snapshot
  <2> HIDE DEF f, e
  <2>5. Forward(i, g, d, e) \in [Party -> Use]
    BY <1>2, <2>2, <2>4, UseTypes, 0 \in Nat
  <2> QED
    BY <2>1, <2>4, <2>5, DealType DEF g
<1>6. CASE DealMergedShuffle
  <2> DEFINE e == DealPerms(i, g, d, SampleMerged(g, d))
  <2>1. Dealing({"MergedShuffle"}) /\ DealAs(g, e, Forward(i, g, d, e))
    BY <1>6 DEF DealMergedShuffle
  <2>2. g \in Nat \ {0} /\ d \in Snapshot /\ i \in Idx
    BY <1>1, <1>2, <1>3, <2>1, GateFacts
  <2> HIDE DEF d, i, g
  <2>3. e \in Snapshot
    BY <1>2, <2>2, SampleTypes, DealPermsType
  <2> HIDE DEF e
  <2>4. Forward(i, g, d, e) \in [Party -> Use]
    BY <1>2, <2>2, <2>3, UseTypes, 0 \in Nat
  <2> QED
    BY <2>1, <2>3, <2>4, DealType DEF g
<1>7. CASE DealUnshuffle
  <2> DEFINE e == [d EXCEPT !.cur = [p \in Party |-> [d.cur[p] EXCEPT !.send = @ + VecSize]],
                            !.B = AppendB(g, d)]
  <2>1. Dealing({"Unshuffle"}) /\ DealAs(g, e, Backward(i, g, d))
    BY <1>7 DEF DealUnshuffle
  <2>2. g \in Nat \ {0} /\ d \in Snapshot /\ i \in Idx
    BY <1>1, <1>2, <1>3, <2>1, GateFacts
  <2> HIDE DEF d, i, g
  <2>3. [p \in Party |-> [d.cur[p] EXCEPT !.send = @ + VecSize]] \in [Party -> Cursor]
    BY <2>2, CursorType, CorrelationAssumption DEF Snapshot
  <2>4. AppendB(g, d) \in [Party -> Seq(Token)]
    <3>1. ASSUME NEW p \in Party
          PROVE  Append(d.B[p], Made("B", p, g, VecSize)) \in Seq(Token)
      <4>1. Made("B", p, g, VecSize) \in Token
        BY <1>2, <2>2, TokenTypes, CorrelationAssumption
      <4>2. d.B[p] \in Seq(Token)
        BY <2>2 DEF Snapshot
      <4> QED
        BY <4>1, <4>2
    <3> QED
      BY <3>1 DEF AppendB
  <2>5. e \in Snapshot
    BY <2>2, <2>3, <2>4 DEF Snapshot
  <2> HIDE DEF e
  <2>6. Backward(i, g, d) \in [Party -> Use]
    BY <1>2, <2>2, UseTypes, 0 \in Nat
  <2> QED
    BY <2>1, <2>5, <2>6, DealType DEF g
<1>8. CASE DealTriple
  <2> DEFINE n == circ[g].size
             e == [d EXCEPT !.cur = [p \in Party |-> [d.cur[p] EXCEPT
                                       !.prep = @ + (IF d.turn = p THEN 2 ELSE 3) * n]],
                            !.pre[d.turn] = Append(@, Made("c", d.turn, g, n)),
                            !.turn = Other(d.turn)]
  <2>1. Dealing({"MulSIMD"}) /\ DealAs(g, e, Triple(g, d, n))
    BY <1>8 DEF DealTriple
  <2>2. g \in Nat \ {0} /\ d \in Snapshot /\ i \in Idx /\ n \in Nat
    BY <1>1, <1>2, <1>3, <2>1, GateFacts
  <2> HIDE DEF d, i, g, n
  <2>3. [p \in Party |-> [d.cur[p] EXCEPT !.prep = @ + (IF d.turn = p THEN 2 ELSE 3) * n]]
          \in [Party -> Cursor]
    <3>1. ASSUME NEW p \in Party
          PROVE  [d.cur[p] EXCEPT !.prep = @ + (IF d.turn = p THEN 2 ELSE 3) * n] \in Cursor
      <4> DEFINE m == (IF d.turn = p THEN 2 ELSE 3) * n
      <4>1. m \in Nat /\ d.cur[p] \in Cursor
        BY <2>2 DEF Snapshot
      <4> HIDE DEF m
      <4>2. [d.cur[p] EXCEPT !.prep = @ + m] \in Cursor
        BY <4>1, CursorType
      <4> QED
        BY <4>2 DEF m
    <3> QED
      BY <3>1
  <2>4. /\ d.turn \in Party /\ d.pre \in [Party -> Seq(Token)]
        /\ Made("c", d.turn, g, n) \in Token
    BY <1>2, <1>4, <2>2, TokenTypes DEF Snapshot
  <2>5. [d.pre EXCEPT ![d.turn] = Append(@, Made("c", d.turn, g, n))] \in [Party -> Seq(Token)]
    BY <2>4
  <2>6. e \in Snapshot
    BY <2>2, <2>3, <2>4, <2>5, PartyFacts DEF Snapshot
  <2> HIDE DEF e
  <2>7. Triple(g, d, n) \in [Party -> Use]
    BY <1>2, <2>2, UseTypes
  <2> QED
    BY <2>1, <2>6, <2>7, DealType DEF g
<1>9. CASE DealNothing
  <2>1. /\ Dealing({"SetConstVecSIMD"})
        /\ DealAs(g, d, [p \in Party |-> NoUse])
    BY <1>9 DEF DealNothing
  <2>2. d \in Snapshot
    BY <1>1, <1>3, <2>1
  <2> HIDE DEF d
  <2> QED
    BY <2>1, <2>2, DealType, NoUseType
<1> QED
  BY <1>5, <1>6, <1>7, <1>8, <1>9

\* The parts of TypeOK that a step of a party may touch.
LEMMA PartyType ==
  ASSUME TInv, UNCHANGED <<circ, rep, deals, dealt>>,
         phase' \in [Server -> Phases], pos' \in [Server -> Nat \ {0}], pos'[Dealer] = pos[Dealer],
         spos' \in [Party -> Nat \ {0}],
         \A p \in Party : spos'[p] <= Len(circ) + 1,
         \A p \in Party : phase'[p] = "send" => pos'[p] <= Len(circ),
         turn' \in [Party -> Party], cur' \in [Party -> [Stream -> Nat]],
         buf' \in [Party -> Seq(Token)], readIdx' \in [Party -> Nat],
         out' \in [Party -> [Idx -> Token]], back' \in [Party -> [Idx -> Token]],
         prepared' \in [Party -> [Idx -> BOOLEAN]], inbox' \in [Party -> Seq(Nat)],
         used' \in [Party -> [DOMAIN circ -> Use]]
  PROVE  TInv'
<1>1. TypeOK'
  BY DEF TInv, TypeOK, Phases
<1>2. Bounds'
  BY DEF TInv, Bounds
<1> QED
  BY <1>1, <1>2 DEF TInv

LEMMA TypeFacts ==
  ASSUME TInv
  PROVE  /\ phase \in [Server -> Phases] /\ pos \in [Server -> Nat \ {0}]
         /\ spos \in [Party -> Nat \ {0}]
         /\ \A p \in Party : spos[p] <= Len(circ) + 1
         /\ \A p \in Party : phase[p] = "send" => pos[p] <= Len(circ)
         /\ turn \in [Party -> Party] /\ cur \in [Party -> [Stream -> Nat]]
         /\ buf \in [Party -> Seq(Token)] /\ readIdx \in [Party -> Nat]
         /\ out \in [Party -> [Idx -> Token]] /\ back \in [Party -> [Idx -> Token]]
         /\ prepared \in [Party -> [Idx -> BOOLEAN]] /\ inbox \in [Party -> Seq(Nat)]
         /\ used \in [Party -> [DOMAIN circ -> Use]]
         /\ circ \in Circuits /\ circ \in Seq(Gate) /\ Len(circ) \in Nat \ {0}
         /\ rep \in Nat /\ VecSize \in Nat
<1>1. WellFormed(circ) /\ circ \in Circuits /\ VecSize \in Nat
  BY CorrelationAssumption DEF TInv, TypeOK
<1>2. circ \in Seq(Gate) /\ Len(circ) \in Nat \ {0}
  BY <1>1 DEF WellFormed
<1> QED
  BY <1>1, <1>2 DEF TInv, TypeOK, Bounds, Phases

\* An item read from the list is a token.
LEMMA ReadType ==
  ASSUME TInv, NEW p \in Party
  PROVE  /\ HasItem(p) => Item(p) \in Token
         /\ AfterRead(p) \in [Party -> Nat]
<1>1. buf[p] \in Seq(Token) /\ readIdx \in [Party -> Nat]
  BY TypeFacts
<1> QED
  BY <1>1 DEF HasItem, Item, AfterRead

\* Table updates: one entry of one party's table.
LEMMA TableType ==
  ASSUME NEW S, NEW T, NEW f \in [Party -> [S -> T]], NEW p \in Party, NEW s \in S, NEW v \in T
  PROVE  [f EXCEPT ![p][s] = v] \in [Party -> [S -> T]]
BY DEF Party

LEMMA EntryType ==
  ASSUME NEW S, NEW T, NEW f \in [S -> T], NEW s, NEW v \in T
  PROVE  [f EXCEPT ![s] = v] \in [S -> T]
OBVIOUS

LEMMA TablesType ==
  ASSUME TInv, NEW p \in Party, NEW i \in Idx
  PROVE  /\ \A v \in Token : [out EXCEPT ![p][i] = v] \in [Party -> [Idx -> Token]]
         /\ \A v \in Token : [back EXCEPT ![p][i] = v] \in [Party -> [Idx -> Token]]
         /\ [prepared EXCEPT ![p][i] = TRUE] \in [Party -> [Idx -> BOOLEAN]]
BY TypeFacts, TableType

LEMMA PrepFrame ==
  ASSUME TInv, NEW p \in Party, NEW types, Preparing(p, types)
  PROVE  /\ pos[p] \in DOMAIN circ /\ circ[pos[p]].idx \in Idx /\ circ[pos[p]].size \in Nat
         /\ UNCHANGED <<circ, rep, deals, dealt>>
         /\ pos' \in [Server -> Nat \ {0}] /\ pos'[Dealer] = pos[Dealer]
         /\ phase' \in [Server -> Phases]
         /\ \A q \in Party : phase'[q] = "send" => pos'[q] <= Len(circ)
         /\ spos' \in [Party -> Nat \ {0}] /\ \A q \in Party : spos'[q] <= Len(circ) + 1
         /\ buf' \in [Party -> Seq(Token)] /\ inbox' \in [Party -> Seq(Nat)]
<1>1. /\ pos[p] \in Nat \ {0} /\ pos[p] <= Len(circ) /\ phase[p] = "prep"
      /\ pos' = [pos EXCEPT ![p] = @ + 1] /\ pos \in [Server -> Nat \ {0}]
  BY TypeFacts, PartyFacts DEF Preparing
<1>2. pos[p] \in DOMAIN circ
  BY <1>1, TypeFacts
<1>3. circ[pos[p]].idx \in Idx /\ circ[pos[p]].size \in Nat
  BY <1>2, TypeFacts, GateFacts
<1>4. pos' \in [Server -> Nat \ {0}] /\ \A s \in Server : s # p => pos'[s] = pos[s]
  BY <1>1, PartyFacts
<1>5. \A q \in Party : phase[q] = "send" => pos'[q] <= Len(circ)
  BY <1>1, <1>4, TypeFacts, PartyFacts
<1>6. UNCHANGED <<circ, rep, phase, spos, deals, dealt, buf, inbox>>
  BY DEF Preparing
<1> QED
  BY <1>2, <1>3, <1>4, <1>5, <1>6, PartyFacts, TypeFacts

LEMMA PrepTypes ==
  ASSUME TInv, NEW p \in Party, PrepStep(p)
  PROVE  TInv'
<1>1. CASE ReceiveSeeds(p)
  <2>1. [s \in Stream |-> 0] \in [Stream -> Nat]
    OBVIOUS
  <2> QED
    BY <1>1, <2>1, PartyType, TypeFacts, PartyFacts DEF ReceiveSeeds, Phases
<1>2. CASE PrepShuffle(p)
  <2>1. Preparing(p, {"Shuffle"})
    BY <1>2 DEF PrepShuffle
  <2>2. /\ out' \in [Party -> [Idx -> Token]] /\ back' \in [Party -> [Idx -> Token]]
        /\ readIdx' \in [Party -> Nat]
    <3> DEFINE i == circ[pos[p]].idx
    <3>1. i \in Idx
      BY <2>1, PrepFrame
    <3> HIDE DEF i
    <3>2. \/ /\ HasItem(p)
             /\ readIdx' = AfterRead(p)
             /\ out' = IF p = P0 THEN [out EXCEPT ![p][i] = Item(p)] ELSE out
             /\ back' = IF p = P1 THEN [back EXCEPT ![p][i] = Item(p)] ELSE back
          \/ UNCHANGED <<readIdx, out, back>>
      BY <1>2 DEF PrepShuffle, i
    <3>3. HasItem(p) => Item(p) \in Token /\ AfterRead(p) \in [Party -> Nat]
      BY ReadType
    <3>4. readIdx' \in [Party -> Nat]
      BY <3>2, <3>3, TypeFacts
    <3>5. out' \in [Party -> [Idx -> Token]]
      <4>1. HasItem(p) => [out EXCEPT ![p][i] = Item(p)] \in [Party -> [Idx -> Token]]
        BY <3>1, <3>3, TablesType
      <4>2. out \in [Party -> [Idx -> Token]]
        BY TypeFacts
      <4> QED
        BY <3>2, <4>1, <4>2
    <3>6. back' \in [Party -> [Idx -> Token]]
      <4>1. HasItem(p) => [back EXCEPT ![p][i] = Item(p)] \in [Party -> [Idx -> Token]]
        BY <3>1, <3>3, TablesType
      <4>2. back \in [Party -> [Idx -> Token]]
        BY TypeFacts
      <4> QED
        BY <3>2, <4>1, <4>2
    <3> QED
      BY <3>4, <3>5, <3>6
  <2>3. /\ prepared' \in [Party -> [Idx -> BOOLEAN]] /\ turn' \in [Party -> Party]
    BY <1>2, <2>1, PrepFrame, TablesType, TypeFacts, PartyFacts DEF PrepShuffle
  <2>4. UNCHANGED <<cur, used>>
    BY <1>2 DEF PrepShuffle
  <2> QED
    BY <2>1, <2>2, <2>3, <2>4, PrepFrame, PartyType, TypeFacts
<1>3. CASE PrepMergedShuffle(p)
  <2>1. Preparing(p, {"MergedShuffle"})
    BY <1>3 DEF PrepMergedShuffle
  <2>2. /\ out' \in [Party -> [Idx -> Token]] /\ readIdx' \in [Party -> Nat]
    <3> DEFINE i == circ[pos[p]].idx
    <3>1. i \in Idx
      BY <2>1, PrepFrame
    <3> HIDE DEF i
    <3>2. \/ HasItem(p) /\ readIdx' = AfterRead(p) /\ out' = [out EXCEPT ![p][i] = Item(p)]
          \/ UNCHANGED <<readIdx, out>>
      BY <1>3 DEF PrepMergedShuffle, i
    <3>3. HasItem(p) => Item(p) \in Token /\ AfterRead(p) \in [Party -> Nat]
      BY ReadType
    <3>4. readIdx' \in [Party -> Nat]
      BY <3>2, <3>3, TypeFacts
    <3>5. out' \in [Party -> [Idx -> Token]]
      <4>1. HasItem(p) => [out EXCEPT ![p][i] = Item(p)] \in [Party -> [Idx -> Token]]
        BY <3>1, <3>3, TablesType
      <4>2. out \in [Party -> [Idx -> Token]]
        BY TypeFacts
      <4> QED
        BY <3>2, <4>1, <4>2
    <3> QED
      BY <3>4, <3>5
  <2>3. prepared' \in [Party -> [Idx -> BOOLEAN]]
    BY <1>3, <2>1, PrepFrame, TablesType, TypeFacts DEF PrepMergedShuffle
  <2>4. UNCHANGED <<turn, cur, back, used>>
    BY <1>3 DEF PrepMergedShuffle
  <2> QED
    BY <2>1, <2>2, <2>3, <2>4, PrepFrame, PartyType, TypeFacts
<1>4. CASE PrepTriple(p)
  <2> DEFINE g == pos[p]
             n == circ[g].size
             at == cur[p]["prep"]
             reads == turn[p] = p
             u == [a |-> Draw(p, "prep", at, n), b |-> Draw(p, "prep", at + n, n),
                   c |-> IF reads THEN Item(p) ELSE Draw(p, "prep", at + 2 * n, n)]
  <2>1. Preparing(p, {"MulSIMD"}) /\ (reads => HasItem(p))
    BY <1>4 DEF PrepTriple
  <2>2. /\ used' = [used EXCEPT ![p][g] = u]
        /\ cur' = [cur EXCEPT ![p]["prep"] = at + (IF reads THEN 2 ELSE 3) * n]
        /\ readIdx' = IF reads THEN AfterRead(p) ELSE readIdx
        /\ turn' = [turn EXCEPT ![p] = Other(@)]
        /\ UNCHANGED <<out, back, prepared>>
    BY <1>4 DEF PrepTriple
  <2>3. n \in Nat /\ at \in Nat /\ g \in DOMAIN circ
    <3>1. n \in Nat /\ g \in DOMAIN circ
      BY <2>1, PrepFrame
    <3>2. at \in Nat
      BY TypeFacts DEF Stream
    <3> QED
      BY <3>1, <3>2
  <2>4. at + n \in Nat /\ at + 2 * n \in Nat /\ at + (IF reads THEN 2 ELSE 3) * n \in Nat
    <3> HIDE DEF n, at, reads
    <3> QED
      BY <2>3
  <2>5. u \in Use
    <3>1. \A m \in Nat : Draw(p, "prep", m, n) \in Token
      BY <2>3, TokenTypes, TypeFacts DEF Stream
    <3>2. reads => Item(p) \in Token
      BY <2>1, ReadType
    <3> HIDE DEF n, at, reads
    <3> QED
      BY <2>3, <2>4, <3>1, <3>2 DEF Use, TripleUse
  <2>6. used' \in [Party -> [DOMAIN circ -> Use]]
    <3> HIDE DEF u, g
    <3> QED
      BY <2>2, <2>3, <2>5, TableType, TypeFacts
  <2>7. cur' \in [Party -> [Stream -> Nat]]
    <3> HIDE DEF n, at, reads, g
    <3> "prep" \in Stream
      BY DEF Stream
    <3> QED
      BY <2>2, <2>4, TableType, TypeFacts
  <2>8. readIdx' \in [Party -> Nat] /\ turn' \in [Party -> Party]
    BY <2>2, ReadType, TypeFacts, PartyFacts
  <2> HIDE DEF u, g, n, at, reads
  <2> QED
    BY <2>1, <2>2, <2>6, <2>7, <2>8, PrepFrame, PartyType, TypeFacts
<1>5. CASE PrepNothing(p)
  BY <1>5, PrepFrame, PartyType, TypeFacts DEF PrepNothing
<1>6. CASE PrepDone(p)
  BY <1>6, PartyType, TypeFacts, PartyFacts DEF PrepDone, partyVars, Phases
<1> QED
  BY <1>1, <1>2, <1>3, <1>4, <1>5, <1>6 DEF PrepStep

\* Recording a token in the entry of a gate.
LEMMA UseUpdate ==
  ASSUME NEW u \in Use, NEW v \in Token, NEW w \in Token
  PROVE  /\ [u EXCEPT !.R = v] \in Use
         /\ [u EXCEPT !.recv = v, !.B = w] \in Use
         /\ [NoUse EXCEPT !.R = v, !.send = w] \in Use
<1>1. [u EXCEPT !.R = v] \in Use
  BY DEF Use, PermUse, TripleUse
<1>2. [u EXCEPT !.recv = v, !.B = w] \in Use
  BY DEF Use, PermUse, TripleUse
<1>3. NoUse \in PermUse
  BY PartyFacts DEF NoUse, PermUse, NoToken, Token
<1>4. [NoUse EXCEPT !.R = v, !.send = w] \in PermUse
  BY <1>3 DEF PermUse
<1> QED
  BY <1>1, <1>2, <1>4 DEF Use

LEMMA SendFrame ==
  ASSUME TInv, NEW p \in Party, NEW types, Sending(p, types)
  PROVE  /\ spos[p] \in DOMAIN circ /\ circ[spos[p]].idx \in Idx
         /\ UNCHANGED <<circ, rep, phase, pos, deals, dealt, turn, buf, readIdx, back,
                        prepared, inbox>>
         /\ spos' \in [Party -> Nat \ {0}] /\ \A q \in Party : spos'[q] <= Len(circ) + 1
<1>1. /\ spos[p] \in Nat \ {0} /\ spos[p] <= Len(circ) /\ spos \in [Party -> Nat \ {0}]
      /\ spos' = [spos EXCEPT ![p] = @ + 1]
  BY TypeFacts DEF Sending, LayerSent
<1>2. spos[p] \in DOMAIN circ
  BY <1>1, TypeFacts
<1>3. circ[spos[p]].idx \in Idx
  BY <1>2, TypeFacts, GateFacts
<1>4. spos' \in [Party -> Nat \ {0}]
  BY <1>1
<1>5. ASSUME NEW q \in Party PROVE spos'[q] <= Len(circ) + 1
  BY <1>1, TypeFacts
<1> QED
  BY <1>2, <1>3, <1>4, <1>5 DEF Sending

LEMMA ReceiveFrame ==
  ASSUME TInv, NEW p \in Party, NEW types, Receiving(p, types)
  PROVE  /\ pos[p] \in DOMAIN circ /\ circ[pos[p]].idx \in Idx
         /\ UNCHANGED <<circ, rep, phase, spos, deals, dealt, turn, buf, out, prepared, inbox>>
         /\ pos' \in [Server -> Nat \ {0}] /\ pos'[Dealer] = pos[Dealer]
         /\ \A q \in Party : phase'[q] = "send" => pos'[q] <= Len(circ)
<1>1. /\ pos[p] \in Nat \ {0} /\ pos[p] < spos[p] /\ spos[p] <= Len(circ) + 1
      /\ spos[p] \in Nat /\ pos \in [Server -> Nat \ {0}]
      /\ phase[p] = "receive" /\ pos' = [pos EXCEPT ![p] = @ + 1]
  BY TypeFacts, PartyFacts DEF Receiving
<1>2. pos[p] \in DOMAIN circ
  <2>1. circ \in Seq(Gate) /\ Len(circ) \in Nat
    BY TypeFacts
  <2>2. pos[p] <= Len(circ)
    BY <1>1, <2>1
  <2> QED
    BY <1>1, <2>1, <2>2
<1>3. circ[pos[p]].idx \in Idx
  BY <1>2, TypeFacts, GateFacts
<1>4. pos' \in [Server -> Nat \ {0}] /\ \A s \in Server : s # p => pos'[s] = pos[s]
  BY <1>1, PartyFacts
<1>5. UNCHANGED <<circ, rep, phase, spos, deals, dealt, turn, buf, out, prepared, inbox>>
  BY DEF Receiving
<1> QED
  BY <1>1, <1>2, <1>3, <1>4, <1>5, PartyFacts, TypeFacts

LEMMA SendTypes ==
  ASSUME TInv, NEW p \in Party,
         SendShuffle(p) \/ SendUnshuffle(p) \/ SendOther(p) \/ SendLevel(p)
  PROVE  TInv'
<1>1. CASE SendShuffle(p)
  <2> DEFINE g == spos[p]
             i == circ[g].idx
             at == cur[p]["send"]
             new == out[p][i] = NoToken
             perm == IF new THEN Draw(p, "send", at + VecSize, VecSize) ELSE out[p][i]
             u == [NoUse EXCEPT !.R = Draw(p, "send", at, VecSize), !.send = perm]
             m == at + (IF new THEN 2 ELSE 1) * VecSize
  <2>1. /\ Sending(p, PermGate) /\ cur' = [cur EXCEPT ![p]["send"] = m]
        /\ out' = [out EXCEPT ![p][i] = perm] /\ used' = [used EXCEPT ![p][g] = u]
    BY <1>1 DEF SendShuffle
  <2>2. g \in DOMAIN circ /\ i \in Idx
    BY <2>1, SendFrame
  <2>3. at \in Nat /\ VecSize \in Nat /\ rep \in Nat
    BY TypeFacts DEF Stream
  <2>4. out[p][i] \in Token
    <3> HIDE DEF i
    <3> QED
      BY <2>2, TypeFacts
  <2>5. at + VecSize \in Nat /\ m \in Nat
    <3> HIDE DEF at, new
    <3> QED
      BY <2>3
  <2>6. Draw(p, "send", at, VecSize) \in Token /\ perm \in Token
    <3> HIDE DEF at, i
    <3> QED
      BY <2>3, <2>4, <2>5, TokenTypes DEF Stream
  <2> HIDE DEF perm, at, m, i, g, new
  <2>7. u \in Use
    BY <2>6, UseUpdate, NoUseType
  <2> HIDE DEF u
  <2>8. used' \in [Party -> [DOMAIN circ -> Use]]
    BY <2>1, <2>2, <2>7, TableType, TypeFacts
  <2>9. cur' \in [Party -> [Stream -> Nat]]
    <3> "send" \in Stream
      BY DEF Stream
    <3> QED
      BY <2>1, <2>5, TableType, TypeFacts
  <2>10. out' \in [Party -> [Idx -> Token]]
    BY <2>1, <2>2, <2>6, TablesType
  <2> QED
    BY <2>1, <2>8, <2>9, <2>10, SendFrame, PartyType, TypeFacts
<1>2. CASE SendUnshuffle(p)
  <2> DEFINE g == spos[p]
             i == circ[g].idx
             at == cur[p]["send"]
             perm == back[p][i]
             u == [NoUse EXCEPT !.R = Draw(p, "send", at, VecSize), !.send = perm]
             m == at + VecSize
  <2>1. /\ Sending(p, {"Unshuffle"}) /\ cur' = [cur EXCEPT ![p]["send"] = m]
        /\ out' = out /\ used' = [used EXCEPT ![p][g] = u]
    BY <1>2 DEF SendUnshuffle
  <2>2. g \in DOMAIN circ /\ i \in Idx
    BY <2>1, SendFrame
  <2>3. at \in Nat /\ VecSize \in Nat /\ rep \in Nat
    BY TypeFacts DEF Stream
  <2>4. perm \in Token
    <3> HIDE DEF i
    <3> QED
      BY <2>2, TypeFacts
  <2>5. m \in Nat
    <3> HIDE DEF at
    <3> QED
      BY <2>3
  <2>6. Draw(p, "send", at, VecSize) \in Token
    <3> HIDE DEF at
    <3> QED
      BY <2>3, TokenTypes DEF Stream
  <2> HIDE DEF perm, at, m, i, g
  <2>7. u \in Use
    BY <2>4, <2>6, UseUpdate, NoUseType
  <2> HIDE DEF u
  <2>8. used' \in [Party -> [DOMAIN circ -> Use]]
    BY <2>1, <2>2, <2>7, TableType, TypeFacts
  <2>9. cur' \in [Party -> [Stream -> Nat]]
    <3> "send" \in Stream
      BY DEF Stream
    <3> QED
      BY <2>1, <2>5, TableType, TypeFacts
  <2> QED
    BY <2>1, <2>8, <2>9, SendFrame, PartyType, TypeFacts
<1>3. CASE SendOther(p)
  <2>1. Sending(p, {"MulSIMD", "SetConstVecSIMD"}) /\ UNCHANGED <<cur, out, used>>
    BY <1>3 DEF SendOther
  <2> QED
    BY <2>1, SendFrame, PartyType, TypeFacts
<1>4. CASE SendLevel(p)
  <2>1. /\ phase[p] = "send"
        /\ \/ /\ phase' = [phase EXCEPT ![p] = "await"]
              /\ inbox' = [inbox EXCEPT ![Other(p)] = Append(@, Level(p))]
           \/ phase' = [phase EXCEPT ![p] = "receive"] /\ UNCHANGED inbox
        /\ UNCHANGED <<circ, rep, pos, spos, deals, dealt, turn, cur, buf, readIdx, out,
                       back, prepared, used>>
    BY <1>4 DEF SendLevel
  <2>2. pos[p] \in Nat \ {0} /\ pos[p] <= Len(circ)
    BY <2>1, TypeFacts, PartyFacts
  <2>3. Level(p) \in Nat
    <3>1. pos[p] \in DOMAIN circ
      BY <2>2, TypeFacts
    <3> QED
      BY <3>1, TypeFacts, GateFacts DEF Level
  <2>4. inbox' \in [Party -> Seq(Nat)]
    <3>1. inbox \in [Party -> Seq(Nat)] /\ Other(p) \in Party
      BY TypeFacts, PartyFacts
    <3> HIDE DEF Party
    <3>2. [inbox EXCEPT ![Other(p)] = Append(@, Level(p))] \in [Party -> Seq(Nat)]
      BY <2>3, <3>1
    <3> QED
      BY <2>1, <3>1, <3>2
  <2>5. phase' \in [Server -> Phases]
    BY <2>1, TypeFacts DEF Phases
  <2>6. \A q \in Party : phase'[q] = "send" => pos'[q] <= Len(circ)
    BY <2>1, TypeFacts, PartyFacts
  <2> QED
    BY <2>1, <2>4, <2>5, <2>6, PartyType, TypeFacts
<1> QED
  BY <1>1, <1>2, <1>3, <1>4

LEMMA ReceiveTypes ==
  ASSUME TInv, NEW p \in Party,
         \/ ReceiveLevel(p) \/ RecvShuffle(p) \/ RecvUnshuffle(p)
         \/ RecvSetConstVec(p) \/ RecvTriple(p) \/ LayerDone(p)
  PROVE  TInv'
<1>1. CASE ReceiveLevel(p)
  <2>1. /\ phase[p] = "await" /\ inbox[p] # <<>>
        /\ inbox' = [inbox EXCEPT ![p] = Tail(@)]
        /\ phase' = [phase EXCEPT ![p] = "receive"]
        /\ UNCHANGED <<circ, rep, pos, spos, deals, dealt, turn, cur, buf, readIdx, out,
                       back, prepared, used>>
    BY <1>1 DEF ReceiveLevel
  <2>2. inbox' \in [Party -> Seq(Nat)]
    BY <2>1, TypeFacts
  <2> QED
    BY <2>1, <2>2, PartyType, TypeFacts, PartyFacts DEF Phases
<1>2. CASE RecvShuffle(p)
  <2> DEFINE g == pos[p]
             i == circ[g].idx
             at == cur[p]["recv"]
             new == back[p][i] = NoToken
             perm == IF new THEN Draw(p, "recv", at, VecSize) ELSE back[p][i]
             u == [used[p][g] EXCEPT !.recv = perm, !.B = Item(p)]
             m == at + (IF new THEN VecSize ELSE 0)
  <2>1. /\ Receiving(p, PermGate) /\ HasItem(p) /\ cur' = [cur EXCEPT ![p]["recv"] = m]
        /\ back' = [back EXCEPT ![p][i] = perm] /\ readIdx' = AfterRead(p)
        /\ used' = [used EXCEPT ![p][g].recv = perm, ![p][g].B = Item(p)]
    BY <1>2 DEF RecvShuffle
  <2>2. g \in DOMAIN circ /\ i \in Idx
    BY <2>1, ReceiveFrame
  <2>3. at \in Nat /\ VecSize \in Nat /\ rep \in Nat
    BY TypeFacts DEF Stream
  <2>4. back[p][i] \in Token
    <3> HIDE DEF i
    <3> QED
      BY <2>2, TypeFacts
  <2>5. m \in Nat
    <3> HIDE DEF at, new
    <3> QED
      BY <2>3
  <2>6. perm \in Token
    <3> HIDE DEF at, i
    <3> QED
      BY <2>3, <2>4, TokenTypes DEF Stream
  <2> HIDE DEF perm, at, m, i, g, new
  <2>7. Item(p) \in Token /\ readIdx' \in [Party -> Nat]
    BY <2>1, ReadType
  <2>8. used[p][g] \in Use
    BY <2>2, TypeFacts
  <2>9. u \in Use
    BY <2>6, <2>7, <2>8, UseUpdate
  <2>10. used' = [used EXCEPT ![p][g] = u]
    BY <2>1, <2>2, TypeFacts
  <2> HIDE DEF u
  <2>11. used' \in [Party -> [DOMAIN circ -> Use]]
    BY <2>2, <2>9, <2>10, TableType, TypeFacts
  <2>12. cur' \in [Party -> [Stream -> Nat]]
    <3> "recv" \in Stream
      BY DEF Stream
    <3> QED
      BY <2>1, <2>5, TableType, TypeFacts
  <2>13. back' \in [Party -> [Idx -> Token]]
    BY <2>1, <2>2, <2>6, TablesType
  <2> QED
    BY <2>1, <2>7, <2>11, <2>12, <2>13, ReceiveFrame, PartyType, TypeFacts
<1>3. CASE RecvUnshuffle(p)
  <2> DEFINE g == pos[p]
             i == circ[g].idx
             perm == out[p][i]
             u == [used[p][g] EXCEPT !.recv = perm, !.B = Item(p)]
  <2>1. /\ Receiving(p, {"Unshuffle"}) /\ HasItem(p) /\ UNCHANGED <<cur, back>>
        /\ readIdx' = AfterRead(p)
        /\ used' = [used EXCEPT ![p][g].recv = perm, ![p][g].B = Item(p)]
    BY <1>3 DEF RecvUnshuffle
  <2>2. g \in DOMAIN circ /\ i \in Idx
    BY <2>1, ReceiveFrame
  <2>3. perm \in Token
    <3> HIDE DEF i
    <3> QED
      BY <2>2, TypeFacts
  <2> HIDE DEF perm, i, g
  <2>4. Item(p) \in Token /\ readIdx' \in [Party -> Nat]
    BY <2>1, ReadType
  <2>5. used[p][g] \in Use
    BY <2>2, TypeFacts
  <2>6. u \in Use
    BY <2>3, <2>4, <2>5, UseUpdate
  <2>7. used' = [used EXCEPT ![p][g] = u]
    BY <2>1, <2>2, TypeFacts
  <2> HIDE DEF u
  <2>8. used' \in [Party -> [DOMAIN circ -> Use]]
    BY <2>2, <2>6, <2>7, TableType, TypeFacts
  <2> QED
    BY <2>1, <2>4, <2>8, ReceiveFrame, PartyType, TypeFacts
<1>4. CASE RecvSetConstVec(p)
  <2> DEFINE g == pos[p]
             at == cur[p]["rng01"]
             t == Draw(P0, "rng01", at, VecSize)
             u == [used[p][g] EXCEPT !.R = t]
             m == at + VecSize
  <2>1. /\ Receiving(p, {"SetConstVecSIMD"}) /\ UNCHANGED <<readIdx, back>>
        /\ used' = [used EXCEPT ![p][g].R = t] /\ cur' = [cur EXCEPT ![p]["rng01"] = m]
    BY <1>4 DEF RecvSetConstVec
  <2>2. g \in DOMAIN circ
    BY <2>1, ReceiveFrame
  <2>3. at \in Nat /\ VecSize \in Nat /\ rep \in Nat
    BY TypeFacts DEF Stream
  <2>4. m \in Nat
    <3> HIDE DEF at
    <3> QED
      BY <2>3
  <2>5. t \in Token
    <3> HIDE DEF at
    <3> QED
      BY <2>3, TokenTypes, PartyFacts DEF Stream
  <2> HIDE DEF t, at, m, g
  <2>6. used[p][g] \in Use
    BY <2>2, TypeFacts
  <2>7. u \in Use
    BY <2>5, <2>6, UseUpdate
  <2>8. used' = [used EXCEPT ![p][g] = u]
    BY <2>1, <2>2, TypeFacts
  <2> HIDE DEF u
  <2>9. used' \in [Party -> [DOMAIN circ -> Use]]
    BY <2>2, <2>7, <2>8, TableType, TypeFacts
  <2>10. cur' \in [Party -> [Stream -> Nat]]
    <3> "rng01" \in Stream
      BY DEF Stream
    <3> QED
      BY <2>1, <2>4, TableType, TypeFacts
  <2> QED
    BY <2>1, <2>9, <2>10, ReceiveFrame, PartyType, TypeFacts
<1>5. CASE RecvTriple(p)
  <2>1. Receiving(p, {"MulSIMD"}) /\ UNCHANGED <<cur, readIdx, back, used>>
    BY <1>5 DEF RecvTriple
  <2> QED
    BY <2>1, ReceiveFrame, PartyType, TypeFacts
<1>6. CASE LayerDone(p)
  <2>1. /\ phase' = [phase EXCEPT ![p] = IF pos[p] > Len(circ) THEN "evaluated" ELSE "send"]
        /\ UNCHANGED <<circ, rep, pos, spos, deals, dealt, turn, cur, buf, readIdx, out, back,
                       prepared, inbox, used>>
    BY <1>6 DEF LayerDone, partyVars
  <2>2. phase' \in [Server -> Phases]
    BY <2>1, TypeFacts DEF Phases
  <2>3. \A q \in Party : phase'[q] = "send" => pos'[q] <= Len(circ)
    <3>1. pos[p] \in Nat /\ Len(circ) \in Nat /\ phase \in [Server -> Phases]
      BY TypeFacts, PartyFacts
    <3>2. \A q \in Party : phase[q] = "send" => pos[q] <= Len(circ)
      BY TypeFacts
    <3> QED
      BY <2>1, <3>1, <3>2, PartyFacts
  <2> QED
    BY <2>1, <2>2, <2>3, PartyType, TypeFacts
<1> QED
  BY <1>1, <1>2, <1>3, <1>4, <1>5, <1>6

LEMMA BarrierTypes ==
  ASSUME TInv,
         \/ \E p \in Party : DealerSends(p)
         \/ \E s \in Server : Reset(s)
         \/ StartOnline \/ NextRep \/ Terminated
  PROVE  TInv'
<1>1. ASSUME NEW p \in Party, DealerSends(p)
      PROVE  TInv'
  <2> DEFINE d == deals[Len(circ) + 1]
  <2>1. /\ pos[Dealer] = Len(circ) + 1
        /\ buf' = [buf EXCEPT ![p] = d.pre[p] \o d.B[p]]
        /\ phase' = [phase EXCEPT ![Dealer] = IF p = P0 THEN "give" ELSE "ready",
                                  ![p] = "seeded"]
        /\ UNCHANGED <<circ, rep, pos, spos, deals, dealt, turn, cur, readIdx, out, back,
                       prepared, inbox, used>>
    BY <1>1 DEF DealerSends
  <2>2. d \in Snapshot
    <3>1. deals \in Seq(Snapshot) /\ Len(deals) = Len(circ) + 1
      BY <2>1 DEF TInv, TypeOK, Bounds
    <3>2. Len(circ) \in Nat
      BY TypeFacts
    <3> QED
      BY <3>1, <3>2
  <2> HIDE DEF d
  <2>3. d.pre[p] \o d.B[p] \in Seq(Token)
    BY <2>2 DEF Snapshot
  <2>4. buf' \in [Party -> Seq(Token)]
    BY <2>1, <2>3, TypeFacts
  <2>5. phase' \in [Server -> Phases]
    BY <2>1, TypeFacts DEF Phases
  <2>6. \A q \in Party : phase'[q] = "send" => pos'[q] <= Len(circ)
    BY <2>1, TypeFacts, PartyFacts
  <2> QED
    BY <2>1, <2>4, <2>5, <2>6, PartyType, TypeFacts
<1>2. ASSUME NEW s \in Server, Reset(s)
      PROVE  TInv'
  <2>1. /\ phase' = [phase EXCEPT ![s] = "reset"]
        /\ UNCHANGED <<circ, rep, pos, spos, deals, dealt, turn, cur, readIdx, inbox, used>>
    BY <1>2 DEF Reset
  <2>2. phase' \in [Server -> Phases]
    BY <2>1, TypeFacts DEF Phases
  <2>3. \A q \in Party : phase'[q] = "send" => pos'[q] <= Len(circ)
    BY <2>1, TypeFacts, PartyFacts
  <2>4. /\ buf' \in [Party -> Seq(Token)] /\ out' \in [Party -> [Idx -> Token]]
        /\ back' \in [Party -> [Idx -> Token]] /\ prepared' \in [Party -> [Idx -> BOOLEAN]]
    <3>1. CASE s = Dealer
      BY <1>2, <3>1, TypeFacts DEF Reset
    <3>2. CASE s # Dealer
      <4>1. NoToken \in Token /\ s \in Party
        BY <3>2, PartyFacts DEF NoToken, Token, Server
      <4>2. /\ buf' = [buf EXCEPT ![s] = <<>>]
            /\ out' = [out EXCEPT ![s] = [j \in Idx |-> NoToken]]
            /\ back' = [back EXCEPT ![s] = [j \in Idx |-> NoToken]]
            /\ prepared' = [prepared EXCEPT ![s] = [j \in Idx |-> FALSE]]
        BY <1>2, <3>2 DEF Reset
      <4>3. <<>> \in Seq(Token) /\ [j \in Idx |-> NoToken] \in [Idx -> Token]
        BY <4>1
      <4> QED
        BY <4>2, <4>3, TypeFacts
    <3> QED
      BY <3>1, <3>2
  <2> QED
    BY <2>1, <2>2, <2>3, <2>4, PartyType, TypeFacts
<1>3. CASE StartOnline
  <2>1. /\ phase' = [s \in Server |-> IF s = Dealer THEN "evaluated" ELSE "send"]
        /\ pos' = [pos EXCEPT ![P0] = 1, ![P1] = 1]
        /\ spos' = [p \in Party |-> 1]
        /\ UNCHANGED <<circ, rep, deals, dealt, turn, cur, buf, readIdx, out, back,
                       prepared, inbox, used>>
    BY <1>3 DEF StartOnline, partyVars
  <2>2. phase' \in [Server -> Phases]
    BY <2>1 DEF Phases
  <2>3. pos' \in [Server -> Nat \ {0}] /\ pos'[Dealer] = pos[Dealer]
    <3>1. pos \in [Server -> Nat \ {0}]
      BY TypeFacts
    <3>2. [pos EXCEPT ![P0] = 1, ![P1] = 1] \in [Server -> Nat \ {0}]
      <4>1. 1 \in Nat \ {0}
        OBVIOUS
      <4>2. [pos EXCEPT ![P0] = 1] \in [Server -> Nat \ {0}]
        BY <3>1, <4>1, EntryType
      <4> QED
        BY <4>1, <4>2, EntryType
    <3>3. pos'[Dealer] = pos[Dealer]
      BY <2>1, <3>1 DEF Server, Party, P0, P1, Dealer
    <3> QED
      BY <2>1, <3>2, <3>3
  <2>4. \A p \in Party : pos'[p] = 1 /\ spos'[p] = 1
    BY <2>1, TypeFacts DEF Server, Party, P0, P1, Dealer
  <2>5. spos' \in [Party -> Nat \ {0}] /\ Len(circ) \in Nat \ {0}
    BY <2>1, TypeFacts
  <2>6. \A p \in Party : spos'[p] <= Len(circ) + 1 /\ pos'[p] <= Len(circ)
    BY <2>4, <2>5
  <2> QED
    BY <2>1, <2>2, <2>3, <2>5, <2>6, PartyType, TypeFacts
<1>4. CASE NextRep
  <2>1. /\ rep < MaxReps /\ rep' = rep + 1
        /\ phase' = [s \in Server |-> IF s = Dealer THEN "deal" ELSE "wait"]
        /\ pos' = [s \in Server |-> 1] /\ spos' = [p \in Party |-> 1]
        /\ deals' = <<Deal0>>
        /\ dealt' = [g \in DOMAIN circ |-> [p \in Party |-> NoUse]]
        /\ used' = [p \in Party |-> [g \in DOMAIN circ |-> NoUse]]
        /\ UNCHANGED <<circ, turn, cur, buf, readIdx, out, back, prepared, inbox>>
    BY <1>4 DEF NextRep, Unused
  <2>2. rep' \in 1 .. MaxReps
    BY <2>1, CorrelationAssumption DEF TInv, TypeOK
  <2>3. deals' \in Seq(Snapshot) /\ Len(deals') = 1
    BY <2>1, Deal0Type
  <2>4. dealt' \in [DOMAIN circ' -> [Party -> Use]] /\ used' \in [Party -> [DOMAIN circ' -> Use]]
    BY <2>1, NoUseType
  <2>5. /\ pos' \in [Server -> Nat \ {0}] /\ spos' \in [Party -> Nat \ {0}]
        /\ phase' \in [Server -> Phases]
    <3>1. pos' \in [Server -> Nat \ {0}] /\ spos' \in [Party -> Nat \ {0}]
      BY <2>1
    <3>2. phase' \in [Server -> Phases]
      BY <2>1 DEF Phases
    <3> QED
      BY <3>1, <3>2
  <2>6. TypeOK'
    BY <2>1, <2>2, <2>3, <2>4, <2>5, TypeFacts DEF TypeOK, Phases
  <2>7. Bounds'
    <3>1. pos'[Dealer] = 1 /\ \A p \in Party : spos'[p] = 1 /\ pos'[p] = 1
      BY <2>1, PartyFacts
    <3>2. Len(circ') \in Nat \ {0}
      BY <2>1, TypeFacts
    <3> QED
      BY <2>3, <3>1, <3>2 DEF Bounds
  <2> QED
    BY <2>6, <2>7 DEF TInv
<1>5. CASE Terminated
  BY <1>5, PartyType, TypeFacts DEF Terminated, vars, partyVars
<1> QED
  BY <1>1, <1>2, <1>3, <1>4, <1>5

LEMMA TypeStep == TInv /\ [Next]_vars => TInv'
<1> SUFFICES ASSUME TInv, [Next]_vars PROVE TInv'
  OBVIOUS
<1>1. CASE DealerStep
  BY <1>1, DealerTypes, BarrierTypes DEF DealerStep
<1>2. ASSUME NEW p \in Party, PrepStep(p) \/ EvalStep(p)
      PROVE  TInv'
  BY <1>2, PrepTypes, SendTypes, ReceiveTypes DEF EvalStep
<1>3. CASE \E s \in Server : ServerStep(s)
  BY <1>1, <1>2, <1>3, BarrierTypes DEF ServerStep
<1>4. CASE UNCHANGED vars
  BY <1>4, PartyType, TypeFacts DEF vars, partyVars
<1> QED
  BY <1>3, <1>4, BarrierTypes DEF Next

\* Whatever circuits the builder produces and however many repetitions the
\* benchmark runs, the three servers' state stays typed: the cursors of
\* preprocessor.cpp and evaluator.cpp stay inside the circuit and every item
\* read from the preprocessing list is a vector the dealer put there.
THEOREM TypeCorrect == Spec => []TypeOK
<1>1. TInv => TypeOK
  BY DEF TInv
<1> QED
  BY <1>1, TypeInit, TypeStep, PTL DEF Spec

------------------------------------------------------------------------------
(* Where the three servers are in the circuit, and which messages are under *)
(* way between the two parties                                             *)

LEMMA CircuitFacts ==
  ASSUME TInv
  PROVE  /\ circ \in Circuits /\ circ \in Seq(Gate) /\ Len(circ) \in Nat \ {0}
         /\ DOMAIN circ = 1 .. Len(circ)
         /\ \A g \in 1 .. Len(circ) : circ[g].level \in Nat
         /\ \A g, h \in 1 .. Len(circ) : g <= h => circ[g].level <= circ[h].level
<1>1. circ \in Circuits /\ circ \in Seq(Gate) /\ Len(circ) \in Nat \ {0}
  BY TypeFacts
<1>2. DOMAIN circ = 1 .. Len(circ)
  BY <1>1
<1>3. \A g \in 1 .. Len(circ) : circ[g].level \in Nat
  BY <1>1, <1>2, GateFacts
<1>4. Dealable(circ)
  BY <1>1, CorrelationAssumption DEF WellFormed
<1>5. \A g, h \in 1 .. Len(circ) : g < h => circ[g].level <= circ[h].level
  BY <1>2, <1>4 DEF Dealable
<1>6. \A g, h \in 1 .. Len(circ) : g <= h => g < h \/ g = h
  OBVIOUS
<1> QED
  BY <1>1, <1>2, <1>3, <1>5, <1>6

------------------------------------------------------------------------------
(* Where the servers are *)

Offline == {"seeded", "prep", "ready"}
Online == {"send", "await", "receive", "evaluated"}
Over == Online \cup {"reset"}

\* The two syncs and the transfer of the lists keep the servers together.
Together ==
  /\ phase[Dealer] # "deal" => pos[Dealer] = Len(circ) + 1
  /\ \/ phase[Dealer] = "deal" /\ \A p \in Party : phase[p] = "wait"
     \/ phase[Dealer] = "give" /\ phase[P1] = "wait" /\ phase[P0] \in Offline
     \/ phase[Dealer] = "ready" /\ \A p \in Party : phase[p] \in Offline
     \/ phase[Dealer] \in {"evaluated", "reset"} /\ \A p \in Party : phase[p] \in Over

\* b is the first gate of a level, or the end of the circuit.
Boundary(b) ==
  /\ b \in 1 .. Len(circ) + 1
  /\ \A g, h \in 1 .. Len(circ) : g < b /\ b <= h => circ[g].level < circ[h].level

\* A party sends a level, waits for the partner's, and receives it.
Placed(p) ==
  /\ phase[p] \in {"wait", "seeded"} => pos[p] = 1 /\ spos[p] = 1
  /\ phase[p] = "prep" => pos[p] <= Len(circ) + 1
  /\ phase[p] = "ready" => pos[p] = Len(circ) + 1
  /\ phase[p] \in Over => pos[p] <= spos[p]
  /\ phase[p] \in {"send", "await"} =>
       /\ pos[p] <= Len(circ) /\ Boundary(pos[p])
       /\ \A h \in pos[p] .. spos[p] - 1 : circ[h].level = Level(p)
  /\ phase[p] \in {"await", "receive", "evaluated", "reset"} => Boundary(spos[p])
  /\ phase[p] = "await" => pos[p] < spos[p] /\ Interactive(Level(p))
  /\ phase[p] \in {"evaluated", "reset"} => pos[p] = Len(circ) + 1 /\ spos[p] = Len(circ) + 1

Talks(g) == circ[g].type # "SetConstVecSIMD"

\* The first gate whose level p has not sent, and the first whose level it
\* has not received.
SentUpTo(p) == IF phase[p] = "send" THEN pos[p] ELSE spos[p]
ReceivedUpTo(p) == IF phase[p] \in {"send", "await"} THEN pos[p] ELSE spos[p]

\* s lists the levels of the talking gates from `from' to before `to'; if it
\* is the receiver that is ahead, what lies between is silent.
Between(s, from, to) ==
  /\ \A j, k \in 1 .. Len(s) : j < k => s[j] < s[k]
  /\ \A h \in from .. to - 1 : Talks(h) => \E k \in 1 .. Len(s) : s[k] = circ[h].level
  /\ \A k \in 1 .. Len(s) : \E h \in from .. to - 1 : Talks(h) /\ circ[h].level = s[k]
  /\ \A h \in to .. from - 1 : ~Talks(h)

InTransit(p) ==
  IF phase[p] \in Over THEN Between(inbox[p], ReceivedUpTo(p), SentUpTo(Other(p)))
                       ELSE inbox[p] = <<>>

ControlInv ==
  /\ TInv
  /\ Together
  /\ \A p \in Party : Placed(p)
  /\ \A p \in Party : InTransit(p)

------------------------------------------------------------------------------
(* Messages in transit *)

\* The gates to .. to2 - 1 are level l, and the sender sends it.
LEMMA BetweenSend ==
  ASSUME TInv, NEW s \in Seq(Nat), NEW from \in Nat, NEW to \in Nat, NEW to2 \in Nat,
         Boundary(from), Boundary(to), Boundary(to2), to <= to2, NEW l \in Nat,
         \A h \in to .. to2 - 1 : circ[h].level = l,
         \E h \in to .. to2 - 1 : Talks(h),
         Between(s, from, to)
  PROVE  Between(Append(s, l), from, to2)
<1>1. /\ from \in 1 .. Len(circ) + 1 /\ to \in 1 .. Len(circ) + 1 /\ to2 \in 1 .. Len(circ) + 1
      /\ Len(circ) \in Nat \ {0}
  BY CircuitFacts DEF Boundary
<1>2. PICK t \in to .. to2 - 1 : Talks(t) /\ circ[t].level = l
  OBVIOUS
<1>3. from <= to
  <2> SUFFICES ASSUME from > to PROVE FALSE
    BY <1>1
  <2>1. CASE from >= to2
    <3>1. t \in to .. from - 1
      BY <1>1, <2>1
    <3> QED
      BY <1>2, <3>1 DEF Between
  <2>2. CASE from < to2
    <3>1. from - 1 \in to .. to2 - 1 /\ from \in to .. to2 - 1
          /\ from - 1 \in 1 .. Len(circ) /\ from \in 1 .. Len(circ)
          /\ from - 1 < from /\ from <= from
      BY <1>1, <2>2
    <3>2. circ[from - 1].level < circ[from].level
      BY <3>1 DEF Boundary
    <3>3. circ[from - 1].level = l /\ circ[from].level = l
      BY <3>1
    <3> QED
      BY <3>2, <3>3
  <2> QED
    BY <1>1, <2>1, <2>2
<1> DEFINE s2 == Append(s, l)
<1>4. /\ Len(s) \in Nat /\ Len(s2) = Len(s) + 1 /\ s2[Len(s) + 1] = l
      /\ \A k \in 1 .. Len(s) : s2[k] = s[k] /\ s[k] \in Nat
  OBVIOUS
<1> HIDE DEF s2
<1>5. \A k \in 1 .. Len(s) : s[k] < l
  <2> TAKE k \in 1 .. Len(s)
  <2>1. PICK h \in from .. to - 1 : circ[h].level = s[k]
    BY DEF Between
  <2>2. h \in 1 .. Len(circ) /\ t \in 1 .. Len(circ) /\ h < to /\ to <= t
    BY <1>1, <1>2, <2>1
  <2> QED
    BY <1>2, <2>1, <2>2 DEF Boundary
<1>6. ASSUME NEW j \in 1 .. Len(s2), NEW k \in 1 .. Len(s2), j < k
      PROVE  s2[j] < s2[k]
  <2>1. j \in 1 .. Len(s) /\ (k \in 1 .. Len(s) \/ k = Len(s) + 1)
    BY <1>4, <1>6
  <2> QED
    BY <1>4, <1>5, <1>6, <2>1 DEF Between
<1>7. ASSUME NEW h \in from .. to2 - 1, Talks(h)
      PROVE  \E k \in 1 .. Len(s2) : s2[k] = circ[h].level
  <2>1. CASE h < to
    <3>1. h \in from .. to - 1
      BY <1>1, <2>1
    <3>2. PICK k \in 1 .. Len(s) : s[k] = circ[h].level
      BY <1>7, <3>1 DEF Between
    <3>3. k \in 1 .. Len(s2)
      BY <1>4
    <3> QED
      BY <1>4, <3>2, <3>3
  <2>2. CASE h >= to
    <3>1. h \in to .. to2 - 1 /\ Len(s) + 1 \in 1 .. Len(s2)
      BY <1>1, <1>4, <2>2
    <3> QED
      BY <1>4, <3>1
  <2> QED
    BY <1>1, <2>1, <2>2
<1>8. ASSUME NEW k \in 1 .. Len(s2)
      PROVE  \E h \in from .. to2 - 1 : Talks(h) /\ circ[h].level = s2[k]
  <2>1. CASE k \in 1 .. Len(s)
    <3>1. PICK h \in from .. to - 1 : Talks(h) /\ circ[h].level = s[k]
      BY <2>1 DEF Between
    <3>2. h \in from .. to2 - 1
      BY <1>1
    <3> QED
      BY <1>4, <2>1, <3>1, <3>2
  <2>2. CASE k = Len(s) + 1
    <3>1. t \in from .. to2 - 1
      BY <1>1, <1>3
    <3> QED
      BY <1>2, <1>4, <2>2, <3>1
  <2> QED
    BY <1>4, <2>1, <2>2
<1>9. \A h \in to2 .. from - 1 : ~Talks(h)
  BY <1>1, <1>3
<1> QED
  BY <1>6, <1>7, <1>8, <1>9 DEF Between, s2

\* Nothing is said in silent gates, whoever passes them.
LEMMA BetweenSkip ==
  ASSUME NEW s, NEW from \in Nat, NEW from2 \in Nat, NEW to \in Nat, NEW to2 \in Nat,
         from <= from2, to <= to2,
         \A h \in from .. from2 - 1 : ~Talks(h),
         \A h \in to .. to2 - 1 : ~Talks(h),
         Between(s, from, to)
  PROVE  Between(s, from2, to2)
<1>1. ASSUME NEW h \in from2 .. to2 - 1, Talks(h)
      PROVE  h \in from .. to - 1
  <2>1. ~(h \in to .. to2 - 1)
    BY <1>1
  <2> QED
    BY <2>1
<1>2. ASSUME NEW h \in from .. to - 1, Talks(h)
      PROVE  h \in from2 .. to2 - 1
  <2>1. ~(h \in from .. from2 - 1)
    BY <1>2
  <2> QED
    BY <2>1
<1>3. ASSUME NEW h \in to2 .. from2 - 1
      PROVE  ~Talks(h)
  <2>1. h \in to .. from - 1 \/ h \in from .. from2 - 1
    OBVIOUS
  <2> QED
    BY <2>1 DEF Between
<1>4. \A h \in from2 .. to2 - 1 : Talks(h) => \E k \in 1 .. Len(s) : s[k] = circ[h].level
  BY <1>1 DEF Between
<1>5. \A k \in 1 .. Len(s) : \E h \in from2 .. to2 - 1 : Talks(h) /\ circ[h].level = s[k]
  BY <1>2 DEF Between
<1> QED
  BY <1>3, <1>4, <1>5 DEF Between

\* The message at the head is for the level that the receiver waits for.
LEMMA BetweenReceive ==
  ASSUME TInv, NEW s \in Seq(Nat), s # <<>>, NEW from \in Nat, NEW from2 \in Nat, NEW to \in Nat,
         Boundary(from2), Boundary(to), from < from2, 1 <= from, NEW l \in Nat,
         \A h \in from .. from2 - 1 : circ[h].level = l,
         \E h \in from .. from2 - 1 : Talks(h),
         Between(s, from, to)
  PROVE  Head(s) = l /\ Between(Tail(s), from2, to)
<1>1. /\ from2 \in 1 .. Len(circ) + 1 /\ to \in 1 .. Len(circ) + 1
      /\ from \in 1 .. Len(circ) /\ Len(circ) \in Nat \ {0}
  BY CircuitFacts DEF Boundary
<1>2. PICK t \in from .. from2 - 1 : Talks(t) /\ circ[t].level = l
  OBVIOUS
<1>3. Len(s) \in Nat \ {0} /\ Head(s) = s[1] /\ 1 \in 1 .. Len(s) /\ \A k \in 1 .. Len(s) : s[k] \in Nat
  OBVIOUS
<1>4. PICK u \in from .. to - 1 : Talks(u) /\ circ[u].level = s[1]
  BY <1>3 DEF Between
<1>5. from2 <= to
  <2> SUFFICES ASSUME to < from2 PROVE FALSE
    BY <1>1
  <2>1. /\ to - 1 \in from .. from2 - 1 /\ to \in from .. from2 - 1
        /\ to - 1 \in 1 .. Len(circ) /\ to \in 1 .. Len(circ)
        /\ to - 1 < to /\ to <= to
    BY <1>1, <1>4
  <2>2. circ[to - 1].level < circ[to].level
    BY <2>1 DEF Boundary
  <2>3. circ[to - 1].level = l /\ circ[to].level = l
    BY <2>1
  <2> QED
    BY <2>2, <2>3
<1>6. \A h \in from2 .. to - 1 : h \in 1 .. Len(circ) /\ circ[h].level > l
  <2> TAKE h \in from2 .. to - 1
  <2>1. h \in 1 .. Len(circ) /\ t \in 1 .. Len(circ) /\ t < from2 /\ from2 <= h
    BY <1>1, <1>2
  <2>2. circ[h].level \in Nat
    BY <2>1, CircuitFacts
  <2> QED
    BY <1>2, <2>1, <2>2 DEF Boundary
<1>7. s[1] = l
  <2>1. t \in from .. to - 1
    BY <1>1, <1>5
  <2>2. PICK k \in 1 .. Len(s) : s[k] = l
    BY <1>2, <2>1 DEF Between
  <2>3. s[1] <= l
    <3>1. s[1] \in Nat /\ 1 \in 1 .. Len(s) /\ (k = 1 \/ 1 < k)
      BY <1>3
    <3>2. 1 < k => s[1] < s[k]
      BY <3>1 DEF Between
    <3> QED
      BY <2>2, <3>1, <3>2
  <2>4. u \in from .. from2 - 1 \/ u \in from2 .. to - 1
    BY <1>1
  <2>5. l <= s[1]
    BY <1>3, <1>4, <1>6, <2>4
  <2> QED
    BY <1>3, <2>3, <2>5
<1> DEFINE s2 == Tail(s)
<1>8. Len(s2) = Len(s) - 1 /\ \A k \in 1 .. Len(s2) : s2[k] = s[k + 1]
  OBVIOUS
<1> HIDE DEF s2
<1>9. ASSUME NEW j \in 1 .. Len(s2), NEW k \in 1 .. Len(s2), j < k
      PROVE  s2[j] < s2[k]
  <2>1. j + 1 \in 1 .. Len(s) /\ k + 1 \in 1 .. Len(s) /\ j + 1 < k + 1
    BY <1>3, <1>8, <1>9
  <2> QED
    BY <1>8, <2>1 DEF Between
<1>10. ASSUME NEW h \in from2 .. to - 1, Talks(h)
       PROVE  \E k \in 1 .. Len(s2) : s2[k] = circ[h].level
  <2>1. h \in from .. to - 1
    BY <1>1
  <2>2. PICK k \in 1 .. Len(s) : s[k] = circ[h].level
    BY <1>10, <2>1 DEF Between
  <2>3. k # 1
    BY <1>6, <1>7, <2>2
  <2>4. k - 1 \in 1 .. Len(s2) /\ (k - 1) + 1 = k
    BY <1>3, <1>8, <2>3
  <2> QED
    BY <1>8, <2>2, <2>4
<1>11. ASSUME NEW k \in 1 .. Len(s2)
       PROVE  \E h \in from2 .. to - 1 : Talks(h) /\ circ[h].level = s2[k]
  <2>1. k + 1 \in 1 .. Len(s) /\ 1 < k + 1
    BY <1>3, <1>8
  <2>2. PICK h \in from .. to - 1 : Talks(h) /\ circ[h].level = s[k + 1]
    BY <2>1 DEF Between
  <2>3. s[k + 1] > l
    BY <1>3, <1>7, <2>1 DEF Between
  <2>4. h \in from2 .. to - 1
    <3>1. ~(h \in from .. from2 - 1)
      BY <2>2, <2>3
    <3> QED
      BY <1>1, <3>1
  <2> QED
    BY <1>8, <2>2, <2>4
<1>12. \A h \in to .. from2 - 1 : ~Talks(h)
  BY <1>1, <1>5
<1> QED
  BY <1>3, <1>7, <1>9, <1>10, <1>11, <1>12 DEF Between, s2

------------------------------------------------------------------------------
(* Control: positions and phases *)

LEMMA ServerFacts ==
  ASSUME ControlInv
  PROVE  /\ Party = {P0, P1} /\ P0 # P1 /\ Dealer # P0 /\ Dealer # P1
         /\ Server = {P0, P1, Dealer}
         /\ \A p \in Party : /\ Other(p) \in Party /\ Other(p) # p /\ Other(Other(p)) = p
                             /\ \A q \in Party : q = p \/ q = Other(p)
         /\ \A p \in Party : /\ pos[p] \in Nat \ {0} /\ spos[p] \in Nat \ {0}
                             /\ spos[p] <= Len(circ) + 1
                             /\ phase[p] \in Phases
         /\ \A p \in Party : phase[p] \in Over => \A q \in Party : phase[q] \in Over
         /\ Len(circ) \in Nat \ {0}
<1>1. /\ phase \in [Server -> Phases] /\ pos \in [Server -> Nat \ {0}]
      /\ spos \in [Party -> Nat \ {0}] /\ Len(circ) \in Nat \ {0}
      /\ \A p \in Party : spos[p] <= Len(circ) + 1
  BY TypeFacts DEF ControlInv
<1>2. ASSUME NEW p \in Party, phase[p] \in Over
      PROVE  \A q \in Party : phase[q] \in Over
  BY <1>2 DEF ControlInv, Together, Over, Online, Offline, Party, P0, P1
<1>3. /\ Party = {P0, P1} /\ P0 # P1 /\ Dealer # P0 /\ Dealer # P1
      /\ Server = {P0, P1, Dealer}
      /\ \A p \in Party : /\ Other(p) \in Party /\ Other(p) # p /\ Other(Other(p)) = p
                          /\ \A q \in Party : q = p \/ q = Other(p)
  BY DEF Party, Server, P0, P1, Dealer, Other
<1>4. \A p \in Party : pos[p] \in Nat \ {0} /\ spos[p] \in Nat \ {0} /\ phase[p] \in Phases
  BY <1>1 DEF Server
<1> QED
  BY <1>1, <1>2, <1>3, <1>4

LEMMA PlacedSame ==
  ASSUME circ' = circ, NEW q \in Party, Placed(q),
         phase'[q] = phase[q], pos'[q] = pos[q], spos'[q] = spos[q]
  PROVE  Placed(q)'
<1>1. Level(q)' = Level(q) /\ (Interactive(Level(q))' <=> Interactive(Level(q)))
  BY DEF Level, Interactive
<1>2. /\ Boundary(pos[q])' <=> Boundary(pos[q])
      /\ Boundary(spos[q])' <=> Boundary(spos[q])
  BY DEF Boundary
<1> QED
  BY <1>1, <1>2 DEF Placed

LEMMA TransitSame ==
  ASSUME circ' = circ, NEW p \in Party, InTransit(p), inbox'[p] = inbox[p],
         phase'[p] \in Over <=> phase[p] \in Over,
         phase[p] \in Over => /\ ReceivedUpTo(p)' = ReceivedUpTo(p)
                              /\ SentUpTo(Other(p))' = SentUpTo(Other(p))
  PROVE  InTransit(p)'
<1>1. Between(inbox[p], ReceivedUpTo(p), SentUpTo(Other(p)))'
        <=> Between(inbox'[p], ReceivedUpTo(p)', SentUpTo(Other(p))')
  BY DEF Between, Talks, Other
<1> QED
  BY <1>1 DEF InTransit, Between, Talks

LEMMA TransitNext ==
  ASSUME circ' = circ, NEW p \in Party, phase'[p] \in Over, NEW s, NEW from, NEW to,
         inbox'[p] = s, ReceivedUpTo(p)' = from, SentUpTo(Other(p))' = to, Between(s, from, to)
  PROVE  InTransit(p)'
<1>1. Between(inbox[p], ReceivedUpTo(p), SentUpTo(Other(p)))'
        <=> Between(inbox'[p], ReceivedUpTo(p)', SentUpTo(Other(p))')
  BY DEF Between, Talks, Other
<1> QED
  BY <1>1 DEF InTransit, Between, Talks

Control ==
  /\ Together
  /\ \A p \in Party : Placed(p)
  /\ \A p \in Party : InTransit(p)

LEMMA DealControl ==
  ASSUME ControlInv, NEW types, Dealing(types), pos' = [pos EXCEPT ![Dealer] = @ + 1]
  PROVE  Control'
<1>1. /\ circ' = circ /\ phase' = phase /\ spos' = spos /\ inbox' = inbox
      /\ phase[Dealer] = "deal"
  BY DEF Dealing, partyVars
<1>2. \A p \in Party : pos'[p] = pos[p]
  BY TypeFacts, ServerFacts DEF ControlInv
<1>3. Together'
  BY <1>1 DEF ControlInv, Together
<1>4. \A p \in Party : Placed(p)'
  BY <1>1, <1>2, PlacedSame DEF ControlInv
<1>5. \A p \in Party : ReceivedUpTo(p)' = ReceivedUpTo(p) /\ SentUpTo(p)' = SentUpTo(p)
  BY <1>1, <1>2 DEF ReceivedUpTo, SentUpTo
<1>6. \A p \in Party : InTransit(p)'
  BY <1>1, <1>5, TransitSame, ServerFacts DEF ControlInv
<1> QED
  BY <1>3, <1>4, <1>6 DEF Control

LEMMA GiveControl ==
  ASSUME ControlInv, NEW p \in Party, DealerSends(p)
  PROVE  Control'
<1>1. /\ circ' = circ /\ pos' = pos /\ spos' = spos /\ inbox' = inbox
      /\ pos[Dealer] = Len(circ) + 1
      /\ phase[Dealer] = IF p = P0 THEN "deal" ELSE "give"
      /\ phase' = [phase EXCEPT ![Dealer] = IF p = P0 THEN "give" ELSE "ready", ![p] = "seeded"]
      /\ phase \in [Server -> Phases]
  BY TypeFacts DEF DealerSends, ControlInv
<1>2. phase[p] = "wait"
  BY <1>1, ServerFacts DEF ControlInv, Together
<1>3. /\ phase'[Dealer] = (IF p = P0 THEN "give" ELSE "ready") /\ phase'[p] = "seeded"
      /\ phase'[Other(p)] = phase[Other(p)]
  BY <1>1, ServerFacts
<1>4. Together'
  <2>1. CASE p = P0
    BY <1>1, <1>3, <2>1, ServerFacts DEF ControlInv, Together, Offline
  <2>2. CASE p = P1
    BY <1>1, <1>3, <2>2, ServerFacts DEF ControlInv, Together, Offline
  <2> QED
    BY <2>1, <2>2, ServerFacts
<1>5. Placed(p)'
  BY <1>1, <1>2, <1>3 DEF ControlInv, Placed, Over, Online
<1>6. Placed(Other(p))'
  BY <1>1, <1>3, PlacedSame, ServerFacts DEF ControlInv
<1>7. \A q \in Party : ~(phase[q] \in Over) /\ ~(phase'[q] \in Over)
  <2>1. phase[p] \notin Over /\ phase'[p] \notin Over
    BY <1>2, <1>3 DEF Over, Online
  <2>2. phase[Other(p)] \notin Over
    BY <2>1, ServerFacts
  <2> QED
    BY <1>3, <2>1, <2>2, ServerFacts
<1>8. \A q \in Party : InTransit(q)'
  BY <1>1, <1>7, TransitSame DEF ControlInv
<1> QED
  BY <1>4, <1>5, <1>6, <1>8, ServerFacts DEF Control

\* A party alone, before the sync.
LEMMA OfflineControl ==
  ASSUME ControlInv, NEW p \in Party, circ' = circ, spos' = spos, inbox' = inbox,
         phase[p] \in Offline, phase' = [phase EXCEPT ![p] = phase'[p]], phase'[p] \in Offline,
         pos' = [pos EXCEPT ![p] = pos'[p]], Placed(p)'
  PROVE  Control'
<1>1. phase \in [Server -> Phases] /\ pos \in [Server -> Nat \ {0}]
  BY TypeFacts DEF ControlInv
<1>2. /\ phase'[Dealer] = phase[Dealer] /\ phase'[Other(p)] = phase[Other(p)]
      /\ pos'[Dealer] = pos[Dealer] /\ pos'[Other(p)] = pos[Other(p)]
  BY <1>1, ServerFacts
<1>3. Together'
  <2>1. \A q \in Party : phase[q] \in Offline => phase'[q] \in Offline
    BY <1>2, ServerFacts
  <2>2. \A q \in Party : phase'[q] = "wait" <=> phase[q] = "wait"
    BY <1>2, ServerFacts DEF Offline
  <2>3. ~ (\A q \in Party : phase[q] \in Over)
    BY DEF Over, Online, Offline
  <2> QED
    BY <1>2, <2>1, <2>2, <2>3, ServerFacts DEF ControlInv, Together
<1>4. Placed(Other(p))'
  BY <1>2, PlacedSame, ServerFacts DEF ControlInv
<1>5. \A q \in Party : ~(phase[q] \in Over) /\ ~(phase'[q] \in Over)
  <2>1. phase[p] \notin Over /\ phase'[p] \notin Over
    BY DEF Over, Online, Offline
  <2>2. phase[Other(p)] \notin Over
    BY <2>1, ServerFacts
  <2> QED
    BY <1>2, <2>1, <2>2, ServerFacts
<1>6. \A q \in Party : InTransit(q)'
  BY <1>5, TransitSame DEF ControlInv
<1> QED
  BY <1>3, <1>4, <1>6, ServerFacts DEF Control

LEMMA PrepControl ==
  ASSUME ControlInv, NEW p \in Party, PrepStep(p)
  PROVE  Control'
<1>1. /\ phase \in [Server -> Phases] /\ pos \in [Server -> Nat \ {0}] /\ pos[p] \in Nat
      /\ Len(circ) \in Nat
  BY TypeFacts, ServerFacts DEF ControlInv
<1>2. CASE ReceiveSeeds(p)
  <2>1. /\ circ' = circ /\ pos' = pos /\ spos' = spos /\ inbox' = inbox
        /\ phase[p] = "seeded" /\ phase' = [phase EXCEPT ![p] = "prep"] /\ phase'[p] = "prep"
    BY <1>1, <1>2, ServerFacts DEF ReceiveSeeds
  <2>2. Placed(p)'
    BY <1>1, <2>1 DEF ControlInv, Placed, Over, Online
  <2> QED
    BY <1>1, <2>1, <2>2, OfflineControl, ServerFacts DEF Offline
<1>3. CASE PrepDone(p)
  <2>1. /\ circ' = circ /\ pos' = pos /\ spos' = spos /\ inbox' = inbox /\ pos[p] > Len(circ)
        /\ phase[p] = "prep" /\ phase' = [phase EXCEPT ![p] = "ready"] /\ phase'[p] = "ready"
    BY <1>1, <1>3, ServerFacts DEF PrepDone, partyVars
  <2>2. Placed(p)'
    BY <1>1, <2>1 DEF ControlInv, Placed, Over, Online
  <2> QED
    BY <1>1, <2>1, <2>2, OfflineControl, ServerFacts DEF Offline
<1>4. ASSUME NEW types, Preparing(p, types)
      PROVE  Control'
  <2>1. /\ circ' = circ /\ spos' = spos /\ inbox' = inbox /\ phase' = phase
        /\ phase[p] = "prep" /\ pos[p] <= Len(circ)
        /\ pos' = [pos EXCEPT ![p] = pos[p] + 1] /\ pos'[p] = pos[p] + 1
    BY <1>1, <1>4, ServerFacts DEF Preparing
  <2>2. Placed(p)'
    BY <1>1, <2>1 DEF ControlInv, Placed, Over, Online
  <2> QED
    BY <1>1, <2>1, <2>2, OfflineControl, ServerFacts DEF Offline
<1> QED
  BY <1>2, <1>3, <1>4 DEF PrepStep, PrepShuffle, PrepMergedShuffle, PrepTriple, PrepNothing

\* A party alone, after the sync.
LEMMA OnlineFrame ==
  ASSUME ControlInv, NEW p \in Party, circ' = circ,
         phase[p] \in Over, phase' = [phase EXCEPT ![p] = phase'[p]], phase'[p] \in Over,
         pos' = [pos EXCEPT ![p] = pos'[p]], spos' = [spos EXCEPT ![p] = spos'[p]]
  PROVE  /\ Together' /\ Placed(Other(p))'
         /\ phase'[Other(p)] = phase[Other(p)] /\ pos'[Other(p)] = pos[Other(p)]
         /\ spos'[Other(p)] = spos[Other(p)]
         /\ SentUpTo(Other(p))' = SentUpTo(Other(p))
         /\ ReceivedUpTo(Other(p))' = ReceivedUpTo(Other(p))
         /\ \A q \in Party : phase[q] \in Over /\ phase'[q] \in Over
<1>1. /\ phase \in [Server -> Phases] /\ pos \in [Server -> Nat \ {0}]
      /\ spos \in [Party -> Nat \ {0}]
  BY TypeFacts DEF ControlInv
<1>2. /\ phase'[Dealer] = phase[Dealer] /\ phase'[Other(p)] = phase[Other(p)]
      /\ pos'[Dealer] = pos[Dealer] /\ pos'[Other(p)] = pos[Other(p)]
      /\ spos'[Other(p)] = spos[Other(p)]
  BY <1>1, ServerFacts
<1>3. \A q \in Party : phase[q] \in Over /\ phase'[q] \in Over
  BY <1>2, ServerFacts
<1>4. Together'
  <2>1. ~ (phase[p] \in Offline) /\ phase[p] # "wait" /\ p \in {P0, P1}
    BY ServerFacts DEF Over, Online, Offline
  <2>2. phase[Dealer] \in {"evaluated", "reset"} /\ pos[Dealer] = Len(circ) + 1
    BY <1>3, <2>1 DEF ControlInv, Together, Over, Online, Offline
  <2> QED
    BY <1>2, <1>3, <2>2 DEF Together
<1>5. Placed(Other(p))'
  BY <1>2, PlacedSame, ServerFacts DEF ControlInv
<1>6. /\ SentUpTo(Other(p))' = SentUpTo(Other(p))
      /\ ReceivedUpTo(Other(p))' = ReceivedUpTo(Other(p))
  BY <1>2 DEF SentUpTo, ReceivedUpTo, Other
<1> QED
  BY <1>2, <1>3, <1>4, <1>5, <1>6

LEMMA OnlineControl ==
  ASSUME ControlInv, NEW p \in Party, circ' = circ, inbox' = inbox,
         phase[p] \in Over, phase' = [phase EXCEPT ![p] = phase'[p]], phase'[p] \in Over,
         pos' = [pos EXCEPT ![p] = pos'[p]], spos' = [spos EXCEPT ![p] = spos'[p]],
         SentUpTo(p)' = SentUpTo(p), ReceivedUpTo(p)' = ReceivedUpTo(p), Placed(p)'
  PROVE  Control'
<1>1. \A q \in Party : InTransit(q)'
  <2>1. \A q \in Party : ReceivedUpTo(q)' = ReceivedUpTo(q) /\ SentUpTo(q)' = SentUpTo(q)
    BY OnlineFrame, ServerFacts
  <2>2. \A q \in Party : phase[q] \in Over /\ phase'[q] \in Over
    BY OnlineFrame
  <2> QED
    BY <2>1, <2>2, TransitSame, ServerFacts DEF ControlInv
<1> QED
  BY <1>1, OnlineFrame, ServerFacts DEF Control

LEMMA SendControl ==
  ASSUME ControlInv, NEW p \in Party, NEW types, Sending(p, types)
  PROVE  Control'
<1>1. /\ phase \in [Server -> Phases] /\ pos \in [Server -> Nat \ {0}]
      /\ spos \in [Party -> Nat \ {0}]
      /\ pos[p] \in Nat /\ spos[p] \in Nat /\ Len(circ) \in Nat
  BY TypeFacts, ServerFacts DEF ControlInv
<1>2. /\ circ' = circ /\ pos' = pos /\ inbox' = inbox /\ phase' = phase /\ phase[p] = "send"
      /\ spos' = [spos EXCEPT ![p] = spos[p] + 1] /\ spos'[p] = spos[p] + 1
      /\ spos[p] <= Len(circ) /\ circ[spos[p]].level = Level(p)
  BY <1>1 DEF Sending, LayerSent
<1>3. Boundary(pos[p])' <=> Boundary(pos[p])
  BY <1>2 DEF Boundary
<1>4. /\ pos[p] <= spos[p] /\ pos[p] <= Len(circ) /\ Boundary(pos[p])
      /\ \A h \in pos[p] .. spos[p] - 1 : circ[h].level = Level(p)
  BY <1>2 DEF ControlInv, Placed, Over, Online
<1>5. \A h \in pos[p] .. spos'[p] - 1 : circ[h].level = Level(p)
  <2>1. \A h \in pos[p] .. spos'[p] - 1 : h \in pos[p] .. spos[p] - 1 \/ h = spos[p]
    BY <1>1, <1>2
  <2> QED
    BY <1>2, <1>4, <2>1
<1>6. Level(p)' = Level(p)
  BY <1>2 DEF Level
<1>7. Placed(p)'
  <2>1. pos'[p] <= spos'[p]
    BY <1>1, <1>2, <1>4
  <2> QED
    BY <1>2, <1>3, <1>4, <1>5, <1>6, <2>1 DEF Placed
<1>8. SentUpTo(p)' = SentUpTo(p) /\ ReceivedUpTo(p)' = ReceivedUpTo(p)
  BY <1>2 DEF SentUpTo, ReceivedUpTo
<1>9. phase[p] \in Over /\ phase' = [phase EXCEPT ![p] = phase'[p]] /\ pos' = [pos EXCEPT ![p] = pos'[p]]
  BY <1>1, <1>2 DEF Over, Online
<1> QED
  BY <1>2, <1>7, <1>8, <1>9, OnlineControl

LEMMA ReceiveControl ==
  ASSUME ControlInv, NEW p \in Party, NEW types, Receiving(p, types)
  PROVE  Control'
<1>1. /\ phase \in [Server -> Phases] /\ pos \in [Server -> Nat \ {0}]
      /\ spos \in [Party -> Nat \ {0}]
      /\ pos[p] \in Nat /\ spos[p] \in Nat /\ Len(circ) \in Nat
  BY TypeFacts, ServerFacts DEF ControlInv
<1>2. /\ circ' = circ /\ spos' = spos /\ inbox' = inbox /\ phase' = phase /\ phase[p] = "receive"
      /\ pos[p] < spos[p] /\ pos' = [pos EXCEPT ![p] = pos[p] + 1] /\ pos'[p] = pos[p] + 1
  BY <1>1, ServerFacts DEF Receiving
<1>3. Boundary(spos[p])' <=> Boundary(spos[p])
  BY <1>2 DEF Boundary
<1>4. Placed(p)'
  <2>1. pos'[p] <= spos'[p]
    BY <1>1, <1>2
  <2> QED
    BY <1>2, <1>3, <2>1 DEF ControlInv, Placed
<1>5. SentUpTo(p)' = SentUpTo(p) /\ ReceivedUpTo(p)' = ReceivedUpTo(p)
  BY <1>2 DEF SentUpTo, ReceivedUpTo
<1>6. phase[p] \in Over /\ phase' = [phase EXCEPT ![p] = phase'[p]] /\ spos' = [spos EXCEPT ![p] = spos'[p]]
  BY <1>1, <1>2 DEF Over, Online
<1> QED
  BY <1>2, <1>4, <1>5, <1>6, OnlineControl

LEMMA LayerControl ==
  ASSUME ControlInv, NEW p \in Party, LayerDone(p)
  PROVE  Control'
<1>1. /\ phase \in [Server -> Phases] /\ pos \in [Server -> Nat \ {0}]
      /\ spos \in [Party -> Nat \ {0}] /\ p \in Server
      /\ pos[p] \in Nat /\ spos[p] \in Nat /\ Len(circ) \in Nat /\ spos[p] <= Len(circ) + 1
  BY TypeFacts, ServerFacts DEF ControlInv
<1>2. /\ circ' = circ /\ spos' = spos /\ inbox' = inbox /\ pos' = pos /\ phase[p] = "receive"
      /\ pos[p] = spos[p]
      /\ phase' = [phase EXCEPT ![p] = IF pos[p] > Len(circ) THEN "evaluated" ELSE "send"]
      /\ phase'[p] = IF pos[p] > Len(circ) THEN "evaluated" ELSE "send"
  BY <1>1 DEF LayerDone, partyVars
<1>3. /\ Boundary(spos[p])' <=> Boundary(spos[p])
      /\ Boundary(pos[p])' <=> Boundary(pos[p])
  BY <1>2 DEF Boundary
<1>4. Boundary(spos[p])
  BY <1>2 DEF ControlInv, Placed
<1>5. Placed(p)'
  <2>1. CASE pos[p] > Len(circ)
    <3>1. phase'[p] = "evaluated" /\ pos[p] = Len(circ) + 1 /\ pos[p] <= spos[p]
      BY <1>1, <1>2, <2>1
    <3> QED
      BY <1>2, <1>3, <1>4, <3>1 DEF Placed
  <2>2. CASE ~(pos[p] > Len(circ))
    <3>1. /\ phase'[p] = "send" /\ pos[p] <= Len(circ) /\ pos[p] <= spos[p]
          /\ \A h \in pos[p] .. spos[p] - 1 : FALSE
      BY <1>1, <1>2, <2>2
    <3> QED
      BY <1>2, <1>3, <1>4, <3>1 DEF Placed
  <2> QED
    BY <2>1, <2>2
<1>6. SentUpTo(p)' = SentUpTo(p) /\ ReceivedUpTo(p)' = ReceivedUpTo(p)
  BY <1>2 DEF SentUpTo, ReceivedUpTo
<1>7. /\ phase[p] \in Over /\ phase' = [phase EXCEPT ![p] = phase'[p]] /\ phase'[p] \in Over
      /\ spos' = [spos EXCEPT ![p] = spos'[p]] /\ pos' = [pos EXCEPT ![p] = pos'[p]]
  BY <1>1, <1>2 DEF Over, Online
<1> QED
  BY <1>2, <1>5, <1>6, <1>7, OnlineControl

\* What a party has sent and received are whole levels.
LEMMA UpToFacts ==
  ASSUME ControlInv, NEW q \in Party, phase[q] \in Over
  PROVE  /\ Boundary(SentUpTo(q)) /\ Boundary(ReceivedUpTo(q))
         /\ SentUpTo(q) \in Nat \ {0} /\ ReceivedUpTo(q) \in Nat \ {0}
         /\ inbox[q] \in Seq(Nat)
<1>1. inbox[q] \in Seq(Nat) /\ pos[q] \in Nat \ {0} /\ spos[q] \in Nat \ {0}
  BY TypeFacts, ServerFacts DEF ControlInv
<1>2. /\ phase[q] \in {"send", "await"} => Boundary(pos[q])
      /\ phase[q] \in {"await", "receive", "evaluated", "reset"} => Boundary(spos[q])
  BY DEF ControlInv, Placed
<1> QED
  BY <1>1, <1>2 DEF SentUpTo, ReceivedUpTo, Over, Online

\* A party that is through with evaluate_send has passed exactly its level.
LEMMA LayerFacts ==
  ASSUME ControlInv, NEW p \in Party, phase[p] = "send", LayerSent(p)
  PROVE  /\ pos[p] < spos[p] /\ Boundary(pos[p]) /\ Boundary(spos[p])
         /\ pos[p] \in 1 .. Len(circ)
         /\ \A h \in pos[p] .. spos[p] - 1 : circ[h].level = Level(p)
         /\ Interactive(Level(p)) <=> \E h \in pos[p] .. spos[p] - 1 : Talks(h)
<1>1. /\ pos[p] \in Nat \ {0} /\ spos[p] \in Nat \ {0} /\ Len(circ) \in Nat \ {0}
      /\ spos[p] <= Len(circ) + 1
      /\ DOMAIN circ = 1 .. Len(circ)
      /\ \A g \in 1 .. Len(circ) : circ[g].level \in Nat
      /\ \A g, h \in 1 .. Len(circ) : g <= h => circ[g].level <= circ[h].level
  BY ServerFacts, CircuitFacts DEF ControlInv
<1>2. /\ pos[p] <= spos[p] /\ pos[p] <= Len(circ) /\ Boundary(pos[p])
      /\ \A h \in pos[p] .. spos[p] - 1 : circ[h].level = Level(p)
  BY DEF ControlInv, Placed, Over, Online
<1>3. pos[p] < spos[p]
  <2> SUFFICES ASSUME pos[p] = spos[p] PROVE FALSE
    BY <1>1, <1>2
  <2> QED
    BY <1>2 DEF LayerSent, Level
<1>4. spos[p] - 1 \in pos[p] .. spos[p] - 1 /\ spos[p] - 1 \in 1 .. Len(circ)
  BY <1>1, <1>3
<1>5. circ[spos[p] - 1].level = Level(p) /\ Level(p) \in Nat
  BY <1>1, <1>2, <1>4
<1>6. Boundary(spos[p])
  <2>1. spos[p] \in 1 .. Len(circ) + 1
    BY <1>1
  <2>2. ASSUME NEW g \in 1 .. Len(circ), NEW h \in 1 .. Len(circ), g < spos[p], spos[p] <= h
        PROVE  circ[g].level < circ[h].level
    <3>1. g <= spos[p] - 1 /\ spos[p] \in 1 .. Len(circ) /\ spos[p] - 1 <= spos[p]
      BY <1>1, <2>2
    <3>2. circ[g].level <= Level(p) /\ circ[spos[p]].level <= circ[h].level
      BY <1>1, <1>4, <1>5, <2>2, <3>1
    <3>3. Level(p) <= circ[spos[p]].level
      BY <1>1, <1>4, <1>5, <3>1
    <3>4. Level(p) # circ[spos[p]].level
      BY <1>1, <3>1 DEF LayerSent
    <3>5. circ[g].level \in Nat /\ circ[h].level \in Nat /\ circ[spos[p]].level \in Nat
      BY <1>1, <3>1
    <3> HIDE DEF LayerSent
    <3> QED
      BY <1>5, <3>2, <3>3, <3>4, <3>5
  <2> QED
    BY <2>1, <2>2 DEF Boundary
<1>7. ASSUME Interactive(Level(p))
      PROVE  \E h \in pos[p] .. spos[p] - 1 : Talks(h)
  <2>1. PICK g \in 1 .. Len(circ) : circ[g].level = Level(p) /\ circ[g].type # "SetConstVecSIMD"
    BY <1>1, <1>7 DEF Interactive
  <2>2. pos[p] \in 1 .. Len(circ) /\ pos[p] <= pos[p] /\ circ[pos[p]].level = Level(p)
    BY <1>1, <1>2 DEF Level
  <2>3. ~ (g < pos[p])
    <3> SUFFICES ASSUME g < pos[p] PROVE FALSE
      OBVIOUS
    <3>1. circ[g].level < circ[pos[p]].level
      BY <1>2, <2>2 DEF Boundary
    <3> QED
      BY <1>5, <2>1, <2>2, <3>1
  <2>4. ~ (spos[p] <= g)
    <3> SUFFICES ASSUME spos[p] <= g PROVE FALSE
      OBVIOUS
    <3>1. circ[spos[p] - 1].level < circ[g].level
      BY <1>1, <1>4, <1>6 DEF Boundary
    <3> QED
      BY <1>5, <2>1, <3>1
  <2>5. g \in pos[p] .. spos[p] - 1
    BY <1>1, <2>3, <2>4
  <2> QED
    BY <2>1, <2>5 DEF Talks
<1>8. ASSUME NEW h \in pos[p] .. spos[p] - 1, Talks(h)
      PROVE  Interactive(Level(p))
  <2>1. h \in DOMAIN circ
    BY <1>1
  <2> QED
    BY <1>2, <1>8, <2>1 DEF Interactive, Talks
<1> QED
  BY <1>1, <1>2, <1>3, <1>6, <1>7, <1>8

LEMMA SendLevelControl ==
  ASSUME ControlInv, NEW p \in Party, SendLevel(p)
  PROVE  Control'
<1>1. /\ phase \in [Server -> Phases] /\ p \in Server /\ phase[p] = "send" /\ LayerSent(p)
      /\ inbox \in [Party -> Seq(Nat)] /\ phase[p] \in Over
      /\ pos \in [Server -> Nat \ {0}] /\ spos \in [Party -> Nat \ {0}]
  BY TypeFacts, ServerFacts DEF ControlInv, SendLevel, Over, Online
<1>2. /\ circ' = circ /\ pos' = pos /\ spos' = spos
      /\ IF Interactive(Level(p))
         THEN /\ inbox' = [inbox EXCEPT ![Other(p)] = Append(@, Level(p))]
              /\ phase' = [phase EXCEPT ![p] = "await"]
         ELSE /\ phase' = [phase EXCEPT ![p] = "receive"]
              /\ inbox' = inbox
  BY DEF SendLevel
<1>3. /\ pos[p] < spos[p] /\ Boundary(pos[p]) /\ Boundary(spos[p])
      /\ pos[p] \in 1 .. Len(circ)
      /\ \A h \in pos[p] .. spos[p] - 1 : circ[h].level = Level(p)
      /\ Interactive(Level(p)) <=> \E h \in pos[p] .. spos[p] - 1 : Talks(h)
  BY <1>1, LayerFacts
<1>4. /\ Level(p)' = Level(p) /\ (Interactive(Level(p))' <=> Interactive(Level(p)))
      /\ Boundary(pos[p])' /\ Boundary(spos[p])'
  BY <1>2, <1>3 DEF Boundary, Level, Interactive
<1>5. pos[p] \in Nat /\ spos[p] \in Nat /\ Len(circ) \in Nat /\ Level(p) \in Nat
  BY <1>3, ServerFacts, CircuitFacts DEF ControlInv, Level
<1>6. /\ phase[Other(p)] \in Over /\ Other(p) \in Party /\ Other(p) # p /\ Other(Other(p)) = p
      /\ Between(inbox[p], ReceivedUpTo(p), SentUpTo(Other(p)))
      /\ Between(inbox[Other(p)], ReceivedUpTo(Other(p)), SentUpTo(p))
  BY <1>1, ServerFacts DEF ControlInv, InTransit
<1>7. ReceivedUpTo(p) = pos[p] /\ SentUpTo(p) = pos[p]
  BY <1>1 DEF ReceivedUpTo, SentUpTo
<1>8. /\ ReceivedUpTo(Other(p)) \in Nat /\ Boundary(ReceivedUpTo(Other(p)))
      /\ SentUpTo(Other(p)) \in Nat /\ inbox[Other(p)] \in Seq(Nat)
  BY <1>6, UpToFacts
<1>9. /\ phase'[p] \in Over /\ phase' = [phase EXCEPT ![p] = phase'[p]]
      /\ phase'[p] = IF Interactive(Level(p)) THEN "await" ELSE "receive"
  BY <1>1, <1>2 DEF Over, Online
<1>10. /\ pos' = [pos EXCEPT ![p] = pos'[p]] /\ spos' = [spos EXCEPT ![p] = spos'[p]]
  BY <1>1, <1>2
<1>11. /\ Together' /\ Placed(Other(p))'
       /\ SentUpTo(Other(p))' = SentUpTo(Other(p))
       /\ ReceivedUpTo(Other(p))' = ReceivedUpTo(Other(p))
       /\ phase'[Other(p)] \in Over
  BY <1>1, <1>2, <1>6, <1>9, <1>10, OnlineFrame
<1>12. Placed(p)'
  <2>1. pos'[p] = pos[p] /\ spos'[p] = spos[p] /\ pos[p] <= spos[p] /\ pos[p] <= Len(circ)
    BY <1>2, <1>3, <1>5
  <2>2. CASE Interactive(Level(p))
    <3>1. phase'[p] = "await" /\ Interactive(Level(p))'
      BY <1>4, <1>9, <2>2
    <3> QED
      BY <1>2, <1>3, <1>4, <2>1, <3>1 DEF Placed
  <2>3. CASE ~Interactive(Level(p))
    <3>1. phase'[p] = "receive"
      BY <1>9, <2>3
    <3> QED
      BY <1>2, <1>3, <1>4, <2>1, <3>1 DEF Placed
  <2> QED
    BY <2>2, <2>3
<1>13. /\ SentUpTo(p)' = spos[p]
       /\ ReceivedUpTo(p)' = IF Interactive(Level(p)) THEN pos[p] ELSE spos[p]
  BY <1>2, <1>9 DEF SentUpTo, ReceivedUpTo
<1>14. CASE Interactive(Level(p))
  <2>1. inbox'[Other(p)] = Append(inbox[Other(p)], Level(p)) /\ inbox'[p] = inbox[p]
    BY <1>1, <1>2, <1>6, <1>14
  <2>2. Between(inbox'[Other(p)], ReceivedUpTo(Other(p)), spos[p])
    <3> DEFINE s == inbox[Other(p)]
               from == ReceivedUpTo(Other(p))
               l == Level(p)
    <3>1. /\ TInv /\ s \in Seq(Nat) /\ from \in Nat /\ l \in Nat /\ Boundary(from)
          /\ pos[p] <= spos[p] /\ Between(s, from, pos[p])
      BY <1>3, <1>5, <1>6, <1>7, <1>8 DEF ControlInv
    <3>2. /\ \A h \in pos[p] .. spos[p] - 1 : circ[h].level = l
          /\ \E h \in pos[p] .. spos[p] - 1 : Talks(h)
      BY <1>3, <1>14
    <3> HIDE DEF s, from, l
    <3>3. Between(Append(s, l), from, spos[p])
      BY <1>3, <1>5, <3>1, <3>2, BetweenSend
    <3> QED
      BY <2>1, <3>3 DEF s, from, l
  <2>3. InTransit(Other(p))'
    BY <1>2, <1>6, <1>11, <1>13, <2>2 DEF InTransit, Between, Talks
  <2>4. InTransit(p)'
    <3>1. /\ ReceivedUpTo(p)' = ReceivedUpTo(p) /\ phase[p] \in Over
          /\ InTransit(p) /\ circ' = circ
      BY <1>1, <1>2, <1>7, <1>13, <1>14 DEF ControlInv
    <3> QED
      BY <1>9, <1>11, <2>1, <3>1, TransitSame
  <2> QED
    BY <1>11, <1>12, <2>3, <2>4, ServerFacts DEF Control
<1>15. CASE ~Interactive(Level(p))
  <2>1. \A h \in pos[p] .. spos[p] - 1 : ~Talks(h)
    BY <1>3, <1>15
  <2>2. Between(inbox[Other(p)], ReceivedUpTo(Other(p)), spos[p])
    <3> DEFINE s == inbox[Other(p)]
               from == ReceivedUpTo(Other(p))
    <3>1. from \in Nat /\ Between(s, from, pos[p]) /\ pos[p] <= spos[p]
      BY <1>3, <1>5, <1>6, <1>7, <1>8
    <3> HIDE DEF s, from
    <3>2. from <= from /\ \A h \in from .. from - 1 : ~Talks(h)
      BY <3>1
    <3>3. Between(s, from, spos[p])
      BY <1>5, <2>1, <3>1, <3>2, BetweenSkip
    <3> QED
      BY <3>3 DEF s, from
  <2>3. Between(inbox[p], spos[p], SentUpTo(Other(p)))
    <3> DEFINE s == inbox[p]
               to == SentUpTo(Other(p))
    <3>1. to \in Nat /\ Between(s, pos[p], to) /\ pos[p] <= spos[p]
      BY <1>3, <1>5, <1>6, <1>7, <1>8
    <3> HIDE DEF s, to
    <3>2. to <= to /\ \A h \in to .. to - 1 : ~Talks(h)
      BY <3>1
    <3>3. Between(s, spos[p], to)
      BY <1>5, <2>1, <3>1, <3>2, BetweenSkip
    <3> QED
      BY <3>3 DEF s, to
  <2>4. inbox' = inbox
    BY <1>2, <1>15
  <2>5. InTransit(Other(p))'
    BY <1>2, <1>6, <1>11, <1>13, <2>2, <2>4 DEF InTransit, Between, Talks
  <2>6. InTransit(p)'
    BY <1>2, <1>6, <1>9, <1>11, <1>13, <1>15, <2>3, <2>4 DEF InTransit, Between, Talks
  <2> QED
    BY <1>11, <1>12, <2>5, <2>6, ServerFacts DEF Control
<1> QED
  BY <1>14, <1>15

\* The head of the inbox of a party that waits is its level's message.
LEMMA HeadFacts ==
  ASSUME ControlInv, NEW p \in Party, phase[p] = "await", inbox[p] # <<>>
  PROVE  Head(inbox[p]) = Level(p) /\ Between(Tail(inbox[p]), spos[p], SentUpTo(Other(p)))
<1>1. phase[p] \in Over
  BY DEF Over, Online
<1>2. /\ pos[p] < spos[p] /\ Boundary(pos[p]) /\ Boundary(spos[p]) /\ pos[p] <= Len(circ)
      /\ \A h \in pos[p] .. spos[p] - 1 : circ[h].level = Level(p)
      /\ Interactive(Level(p))
  BY DEF ControlInv, Placed
<1>3. /\ pos[p] \in Nat \ {0} /\ spos[p] \in Nat /\ Len(circ) \in Nat /\ Level(p) \in Nat
      /\ pos[p] \in 1 .. Len(circ) /\ DOMAIN circ = 1 .. Len(circ)
  BY <1>2, ServerFacts, CircuitFacts DEF ControlInv, Level
<1>4. /\ phase[Other(p)] \in Over /\ Other(p) \in Party
      /\ Between(inbox[p], ReceivedUpTo(p), SentUpTo(Other(p))) /\ ReceivedUpTo(p) = pos[p]
  BY <1>1, ServerFacts DEF ControlInv, InTransit, ReceivedUpTo
<1>5. /\ inbox[p] \in Seq(Nat) /\ SentUpTo(Other(p)) \in Nat /\ Boundary(SentUpTo(Other(p)))
  BY <1>1, <1>4, UpToFacts
<1>6. \E h \in pos[p] .. spos[p] - 1 : Talks(h)
  <2>1. PICK g \in 1 .. Len(circ) : circ[g].level = Level(p) /\ circ[g].type # "SetConstVecSIMD"
    BY <1>2, <1>3 DEF Interactive
  <2>2. ~ (g < pos[p])
    <3> SUFFICES ASSUME g < pos[p] PROVE FALSE
      OBVIOUS
    <3>1. circ[g].level < circ[pos[p]].level /\ circ[pos[p]].level = circ[g].level
      BY <1>2, <1>3, <2>1 DEF Boundary, Level
    <3> QED
      BY <1>3, <3>1 DEF Level
  <2>3. ~ (spos[p] <= g)
    <3> SUFFICES ASSUME spos[p] <= g PROVE FALSE
      OBVIOUS
    <3>1. circ[pos[p]].level < circ[g].level /\ circ[pos[p]].level = circ[g].level
      BY <1>2, <1>3, <2>1 DEF Boundary, Level
    <3> QED
      BY <1>3, <3>1 DEF Level
  <2>4. g \in pos[p] .. spos[p] - 1
    BY <1>3, <2>2, <2>3
  <2> QED
    BY <2>1, <2>4 DEF Talks
<1> DEFINE s == inbox[p]
           to == SentUpTo(Other(p))
           l == Level(p)
<1>7. /\ TInv /\ s \in Seq(Nat) /\ s # <<>> /\ to \in Nat /\ Boundary(to) /\ l \in Nat
      /\ Between(s, pos[p], to) /\ 1 <= pos[p] /\ pos[p] \in Nat
      /\ \A h \in pos[p] .. spos[p] - 1 : circ[h].level = l
  BY <1>2, <1>3, <1>4, <1>5 DEF ControlInv
<1> HIDE DEF s, to, l
<1>8. Head(s) = l /\ Between(Tail(s), spos[p], to)
  BY <1>2, <1>3, <1>6, <1>7, BetweenReceive
<1> QED
  BY <1>8 DEF s, to, l

LEMMA ReceiveLevelControl ==
  ASSUME ControlInv, NEW p \in Party, ReceiveLevel(p)
  PROVE  Control'
<1>1. /\ phase \in [Server -> Phases] /\ p \in Server /\ phase[p] = "await" /\ inbox[p] # <<>>
      /\ inbox \in [Party -> Seq(Nat)] /\ phase[p] \in Over
      /\ pos \in [Server -> Nat \ {0}] /\ spos \in [Party -> Nat \ {0}]
  BY TypeFacts, ServerFacts DEF ControlInv, ReceiveLevel, Over, Online
<1>2. /\ circ' = circ /\ pos' = pos /\ spos' = spos
      /\ inbox' = [inbox EXCEPT ![p] = Tail(@)]
      /\ phase' = [phase EXCEPT ![p] = "receive"]
  BY DEF ReceiveLevel
<1>3. /\ phase[Other(p)] \in Over /\ Other(p) \in Party /\ Other(p) # p /\ Other(Other(p)) = p
      /\ Between(inbox[Other(p)], ReceivedUpTo(Other(p)), SentUpTo(p))
  BY <1>1, ServerFacts DEF ControlInv, InTransit
<1>4. /\ phase'[p] = "receive" /\ phase'[p] \in Over /\ phase' = [phase EXCEPT ![p] = phase'[p]]
      /\ pos' = [pos EXCEPT ![p] = pos'[p]] /\ spos' = [spos EXCEPT ![p] = spos'[p]]
      /\ inbox'[p] = Tail(inbox[p]) /\ inbox'[Other(p)] = inbox[Other(p)]
  BY <1>1, <1>2, <1>3 DEF Over, Online
<1>5. /\ Together' /\ Placed(Other(p))'
      /\ SentUpTo(Other(p))' = SentUpTo(Other(p))
      /\ ReceivedUpTo(Other(p))' = ReceivedUpTo(Other(p))
      /\ phase'[Other(p)] \in Over
  BY <1>1, <1>2, <1>3, <1>4, OnlineFrame
<1>6. SentUpTo(p)' = SentUpTo(p) /\ ReceivedUpTo(p)' = spos[p]
  BY <1>1, <1>2, <1>4 DEF SentUpTo, ReceivedUpTo
<1>7. Placed(p)'
  <2>1. Boundary(spos[p])' /\ pos'[p] <= spos'[p]
    BY <1>1, <1>2 DEF ControlInv, Placed, Boundary, Over, Online
  <2> QED
    BY <1>2, <1>4, <2>1 DEF Placed
<1>8. Between(inbox'[p], spos[p], SentUpTo(Other(p)))
  BY <1>1, <1>4, HeadFacts
<1>9. InTransit(p)'
  <2> DEFINE s == Tail(inbox[p])
             to == SentUpTo(Other(p))
  <2>1. /\ Between(s, spos[p], to) /\ inbox'[p] = s /\ SentUpTo(Other(p))' = to
        /\ ReceivedUpTo(p)' = spos[p]
    BY <1>4, <1>5, <1>6, <1>8
  <2> HIDE DEF s, to
  <2> QED
    BY <1>2, <1>4, <2>1, TransitNext
<1>10. InTransit(Other(p))'
  <2>1. InTransit(Other(p)) /\ phase[Other(p)] \in Over /\ phase'[Other(p)] \in Over
    BY <1>3, <1>5 DEF ControlInv
  <2> QED
    BY <1>2, <1>3, <1>4, <1>5, <1>6, <2>1, TransitSame
<1> QED
  BY <1>5, <1>7, <1>9, <1>10, ServerFacts DEF Control

LEMMA ResetControl ==
  ASSUME ControlInv, NEW s \in Server, Reset(s)
  PROVE  Control'
<1>1. /\ circ' = circ /\ pos' = pos /\ spos' = spos /\ inbox' = inbox
      /\ phase[s] = "evaluated" /\ phase' = [phase EXCEPT ![s] = "reset"]
      /\ phase'[s] = "reset"
  BY TypeFacts DEF Reset, ControlInv
<1>2. /\ phase \in [Server -> Phases] /\ pos \in [Server -> Nat \ {0}]
      /\ spos \in [Party -> Nat \ {0}]
  BY TypeFacts DEF ControlInv
<1>3. CASE s = Dealer
  <2>1. \A p \in Party : phase'[p] = phase[p]
    BY <1>1, <1>2, <1>3, ServerFacts
  <2>2. \A p \in Party : SentUpTo(p)' = SentUpTo(p) /\ ReceivedUpTo(p)' = ReceivedUpTo(p)
    BY <1>1, <2>1 DEF SentUpTo, ReceivedUpTo
  <2>3. \A p \in Party : InTransit(p)'
    BY <1>1, <2>1, <2>2, TransitSame, ServerFacts DEF ControlInv
  <2>4. \A p \in Party : Placed(p)'
    BY <1>1, <2>1, PlacedSame DEF ControlInv
  <2>5. Together'
    BY <1>1, <1>3, <2>1 DEF ControlInv, Together
  <2> QED
    BY <2>3, <2>4, <2>5 DEF Control
<1>4. CASE s \in Party
  <2>1. phase[s] \in Over /\ phase'[s] \in Over
    BY <1>1 DEF Over, Online
  <2>2. SentUpTo(s)' = SentUpTo(s) /\ ReceivedUpTo(s)' = ReceivedUpTo(s)
    BY <1>1 DEF SentUpTo, ReceivedUpTo
  <2>3. Placed(s)'
    <3>1. Boundary(spos[s])' /\ pos[s] <= spos[s] /\ pos[s] = Len(circ) + 1 /\ spos[s] = Len(circ) + 1
      BY <1>1, <1>4 DEF ControlInv, Placed, Boundary, Over, Online
    <3> QED
      BY <1>1, <3>1 DEF Placed
  <2> QED
    BY <1>1, <1>2, <1>4, <2>1, <2>2, <2>3, OnlineControl, ServerFacts
<1> QED
  BY <1>3, <1>4, ServerFacts

\* Nothing to say and nothing said.
LEMMA BetweenNothing ==
  ASSUME NEW b \in Nat
  PROVE  /\ Between(<<>>, b, b)
         /\ \A s \in Seq(Nat) : Between(s, b, b) => s = <<>>
<1>1. Len(<<>>) = 0 /\ \A h \in b .. b - 1 : FALSE
  OBVIOUS
<1>2. Between(<<>>, b, b)
  BY <1>1 DEF Between
<1>3. ASSUME NEW s \in Seq(Nat), Between(s, b, b)
      PROVE  s = <<>>
  <2>1. \A k \in 1 .. Len(s) : FALSE
    BY <1>1, <1>3 DEF Between
  <2>2. Len(s) \in Nat /\ (Len(s) # 0 => 1 \in 1 .. Len(s))
    OBVIOUS
  <2> QED
    BY <2>1, <2>2
<1> QED
  BY <1>2, <1>3

LEMMA StartControl ==
  ASSUME ControlInv, StartOnline
  PROVE  Control'
<1>1. /\ circ' = circ /\ inbox' = inbox /\ \A s \in Server : phase[s] = "ready"
      /\ phase' = [s \in Server |-> IF s = Dealer THEN "evaluated" ELSE "send"]
      /\ pos' = [pos EXCEPT ![P0] = 1, ![P1] = 1]
      /\ spos' = [p \in Party |-> 1]
      /\ pos \in [Server -> Nat \ {0}]
  BY TypeFacts DEF StartOnline, partyVars, ControlInv
<1>2. /\ phase'[Dealer] = "evaluated" /\ \A p \in Party : phase'[p] = "send"
      /\ \A p \in Party : pos'[p] = 1 /\ spos'[p] = 1
      /\ pos'[Dealer] = pos[Dealer]
  BY <1>1, ServerFacts
<1>3. pos[Dealer] = Len(circ) + 1 /\ Len(circ) \in Nat \ {0}
  BY <1>1, ServerFacts DEF ControlInv, Together
<1>4. \A p \in Party : inbox[p] = <<>>
  BY <1>1, ServerFacts DEF ControlInv, InTransit, Over, Online
<1>5. Boundary(1)'
  BY <1>1, <1>3 DEF Boundary
<1>6. Together'
  BY <1>1, <1>2, <1>3 DEF Together, Over, Online
<1>7. \A p \in Party : Placed(p)'
  <2> TAKE p \in Party
  <2>1. pos'[p] = 1 /\ spos'[p] = 1 /\ phase'[p] = "send" /\ circ' = circ
    BY <1>1, <1>2
  <2>2. /\ pos'[p] <= spos'[p] /\ pos'[p] <= Len(circ')
        /\ \A h \in pos'[p] .. spos'[p] - 1 : FALSE
    BY <1>3, <2>1
  <2>3. Boundary(pos[p])'
    BY <1>5, <2>1 DEF Boundary
  <2> QED
    BY <2>1, <2>2, <2>3 DEF Placed
<1>8. \A p \in Party : InTransit(p)'
  <2>1. \A p \in Party : SentUpTo(p)' = 1 /\ ReceivedUpTo(p)' = 1 /\ inbox'[p] = <<>>
    BY <1>1, <1>2, <1>4 DEF SentUpTo, ReceivedUpTo
  <2>2. Between(<<>>, 1, 1)'
    BY <1>1, BetweenNothing DEF Between, Talks
  <2> QED
    BY <1>2, <2>1, <2>2, ServerFacts DEF InTransit, Over, Online
<1> QED
  BY <1>6, <1>7, <1>8 DEF Control

LEMMA NextRepControl ==
  ASSUME ControlInv, NextRep
  PROVE  Control'
<1>1. /\ circ' = circ /\ inbox' = inbox /\ \A s \in Server : phase[s] = "reset"
      /\ phase' = [s \in Server |-> IF s = Dealer THEN "deal" ELSE "wait"]
      /\ pos' = [s \in Server |-> 1] /\ spos' = [p \in Party |-> 1]
      /\ inbox \in [Party -> Seq(Nat)]
  BY TypeFacts DEF NextRep, ControlInv
<1>2. /\ phase'[Dealer] = "deal" /\ \A p \in Party : phase'[p] = "wait"
      /\ \A p \in Party : pos'[p] = 1 /\ spos'[p] = 1
  BY <1>1, ServerFacts
<1>3. \A p \in Party : inbox[p] = <<>>
  <2> TAKE p \in Party
  <2>1. /\ phase[p] = "reset" /\ phase[Other(p)] = "reset" /\ Other(p) \in Party
        /\ Len(circ) \in Nat
    BY <1>1, ServerFacts
  <2>2. ReceivedUpTo(p) = Len(circ) + 1 /\ SentUpTo(Other(p)) = Len(circ) + 1
    BY <2>1 DEF ControlInv, Placed, ReceivedUpTo, SentUpTo
  <2>3. Between(inbox[p], Len(circ) + 1, Len(circ) + 1)
    BY <2>1, <2>2 DEF ControlInv, InTransit, Over, Online
  <2> QED
    BY <1>1, <2>1, <2>3, BetweenNothing
<1>4. Together'
  BY <1>2 DEF Together
<1>5. \A p \in Party : Placed(p)'
  BY <1>2 DEF Placed, Over, Online
<1>6. \A p \in Party : InTransit(p)'
  BY <1>1, <1>2, <1>3 DEF InTransit, Over, Online
<1> QED
  BY <1>4, <1>5, <1>6 DEF Control

LEMMA StutterControl ==
  ASSUME ControlInv, UNCHANGED vars
  PROVE  Control'
<1>1. circ' = circ /\ phase' = phase /\ pos' = pos /\ spos' = spos /\ inbox' = inbox
  BY DEF vars, partyVars
<1>2. \A p \in Party : Placed(p)'
  BY <1>1, PlacedSame DEF ControlInv
<1>3. \A p \in Party : ReceivedUpTo(p)' = ReceivedUpTo(p) /\ SentUpTo(p)' = SentUpTo(p)
  BY <1>1 DEF ReceivedUpTo, SentUpTo
<1>4. \A p \in Party : InTransit(p)'
  BY <1>1, <1>3, TransitSame, ServerFacts DEF ControlInv
<1>5. Together'
  BY <1>1 DEF ControlInv, Together
<1> QED
  BY <1>2, <1>4, <1>5 DEF Control

LEMMA ControlInit == Init => ControlInv
<1> SUFFICES ASSUME Init PROVE ControlInv
  OBVIOUS
<1>1. TInv
  BY TypeInit
<1>2. /\ phase[Dealer] = "deal" /\ \A p \in Party : phase[p] = "wait"
      /\ \A p \in Party : pos[p] = 1 /\ spos[p] = 1 /\ inbox[p] = <<>>
  BY PartyFacts DEF Init
<1>3. Together
  BY <1>2 DEF Together
<1>4. \A p \in Party : Placed(p)
  BY <1>2 DEF Placed, Over, Online
<1>5. \A p \in Party : InTransit(p)
  BY <1>2 DEF InTransit, Over, Online
<1> QED
  BY <1>1, <1>3, <1>4, <1>5 DEF ControlInv

LEMMA ControlStep == ControlInv /\ [Next]_vars => ControlInv'
<1>1. ControlInv /\ [Next]_vars => TInv'
  BY TypeStep DEF ControlInv
<1> SUFFICES ASSUME ControlInv, [Next]_vars PROVE Control'
  BY <1>1 DEF Control, ControlInv
<1>2. CASE DealerStep
  <2>1. CASE \E p \in Party : DealerSends(p)
    BY <2>1, GiveControl
  <2>2. ASSUME NEW types, NEW e, NEW use, Dealing(types), DealAs(pos[Dealer], e, use)
        PROVE  Control'
    <3>1. pos' = [pos EXCEPT ![Dealer] = @ + 1]
      BY <2>2 DEF DealAs
    <3> QED
      BY <2>2, <3>1, DealControl
  <2>3. CASE DealShuffle
    BY <2>2, <2>3 DEF DealShuffle
  <2>4. CASE DealMergedShuffle
    BY <2>2, <2>4 DEF DealMergedShuffle
  <2>5. CASE DealUnshuffle
    BY <2>2, <2>5 DEF DealUnshuffle
  <2>6. CASE DealTriple
    BY <2>2, <2>6 DEF DealTriple
  <2>7. CASE DealNothing
    BY <2>2, <2>7 DEF DealNothing
  <2> QED
    BY <1>2, <2>1, <2>3, <2>4, <2>5, <2>6, <2>7 DEF DealerStep
<1>3. ASSUME NEW p \in Party, PrepStep(p)
      PROVE  Control'
  BY <1>3, PrepControl
<1>4. ASSUME NEW p \in Party, EvalStep(p)
      PROVE  Control'
  <2>1. CASE \E types : Sending(p, types)
    BY <2>1, SendControl
  <2>2. CASE \E types : Receiving(p, types)
    BY <2>2, ReceiveControl
  <2> QED
    BY <1>4, <2>1, <2>2, SendLevelControl, ReceiveLevelControl, LayerControl
    DEF EvalStep, SendShuffle, SendUnshuffle, SendOther, RecvShuffle, RecvUnshuffle,
        RecvSetConstVec, RecvTriple
<1>5. ASSUME NEW s \in Server, Reset(s)
      PROVE  Control'
  BY <1>5, ResetControl
<1>6. CASE StartOnline
  BY <1>6, StartControl
<1>7. CASE NextRep
  BY <1>7, NextRepControl
<1>8. CASE UNCHANGED vars
  BY <1>8, StutterControl
<1> QED
  BY <1>2, <1>3, <1>4, <1>5, <1>6, <1>7, <1>8 DEF Next, ServerStep, Terminated

\* Nothing on the wire names a level, and a level of constants sends none:
\* still the message a party takes in online_communication is the one that
\* its partner made for the level it is about to receive.
THEOREM LevelsAgree == Spec => []LevelsMatch
<1>1. ControlInv => LevelsMatch
  BY HeadFacts DEF LevelsMatch
<1> QED
  BY <1>1, ControlInit, ControlStep, PTL DEF Spec

------------------------------------------------------------------------------
(* The dealer's history *)

\* Of a shuffle id seen for the first time at gate g, the dealer in state d
\* makes these permutations itself.
MadeOut(p, g, d) == circ[g].type = "MergedShuffle" \/ (d.turn = P0 /\ p = P0)
MadeBack(p, g, d) == circ[g].type = "Shuffle" /\ d.turn = P1 /\ p = P1

\* Gate g took the dealer from state d to e and prepared u for p: a shuffle,
PermDealt(p, g, d, e, u) ==
  LET i == circ[g].idx
      new == d.perms[i] = NoQuad
      o == e.perms[i].out[p]
      b == e.perms[i].back[p]
      newOut == new /\ MadeOut(p, g, d)
      newBack == new /\ MadeBack(p, g, d)
  IN
  /\ new => o = IF MadeOut(p, g, d) THEN Made("perm", p, g, VecSize)
                ELSE Draw(p, "send", d.cur[p].send + VecSize, VecSize)
  /\ new => b = IF MadeBack(p, g, d) THEN Made("perm", p, g, VecSize)
                ELSE Draw(p, "recv", d.cur[p].recv, VecSize)
  /\ e.cur[p].prep = d.cur[p].prep
  /\ e.cur[p].send = IF new /\ ~MadeOut(p, g, d) THEN d.cur[p].send + VecSize + VecSize
                                                ELSE d.cur[p].send + VecSize
  /\ e.cur[p].recv = IF new /\ ~MadeBack(p, g, d) THEN d.cur[p].recv + VecSize
                                                 ELSE d.cur[p].recv
  /\ e.pre[p] = IF newOut THEN Append(d.pre[p], o)
                ELSE IF newBack THEN Append(d.pre[p], b) ELSE d.pre[p]
  /\ e.B[p] = Append(d.B[p], Made("B", p, g, VecSize))
  /\ u = [R |-> Draw(p, "send", d.cur[p].send, VecSize), send |-> o, recv |-> b,
          B |-> Made("B", p, g, VecSize)]

\* the way back through one,
UnshuffleDealt(p, g, d, e, u) ==
  LET q == d.perms[circ[g].idx] IN
  /\ e.pre[p] = d.pre[p]
  /\ e.cur[p].prep = d.cur[p].prep
  /\ e.cur[p].send = d.cur[p].send + VecSize
  /\ e.cur[p].recv = d.cur[p].recv
  /\ e.B[p] = Append(d.B[p], Made("B", p, g, VecSize))
  /\ u = [R |-> Draw(p, "send", d.cur[p].send, VecSize), send |-> q.back[p],
          recv |-> q.out[p], B |-> Made("B", p, g, VecSize)]

\* or a multiplication.
TripleDealt(p, g, d, e, u) ==
  LET n == circ[g].size
      at == d.cur[p].prep
      c == Made("c", p, g, n)
  IN
  /\ e.pre[p] = IF d.turn = p THEN Append(d.pre[p], c) ELSE d.pre[p]
  /\ e.cur[p].prep = at + (IF d.turn = p THEN 2 ELSE 3) * n
  /\ e.cur[p].send = d.cur[p].send
  /\ e.cur[p].recv = d.cur[p].recv
  /\ e.B[p] = d.B[p]
  /\ u = [a |-> Draw(p, "prep", at, n), b |-> Draw(p, "prep", at + n, n),
          c |-> IF d.turn = p THEN c ELSE Draw(p, "prep", at + 2 * n, n)]

HandledAs(g, d, e, u) ==
  /\ circ[g].type \in PermGate =>
       /\ e.turn = IF circ[g].type = "MergedShuffle" THEN d.turn ELSE Other(d.turn)
       /\ \A i \in Idx : i # circ[g].idx \/ d.perms[i] # NoQuad => e.perms[i] = d.perms[i]
       /\ \A p \in Party : PermDealt(p, g, d, e, u[p])
  /\ circ[g].type = "Unshuffle" =>
       /\ e.turn = d.turn /\ e.perms = d.perms
       /\ \A p \in Party : UnshuffleDealt(p, g, d, e, u[p])
  /\ circ[g].type = "MulSIMD" =>
       /\ e.turn = Other(d.turn) /\ e.perms = d.perms
       /\ \A p \in Party : TripleDealt(p, g, d, e, u[p])
  /\ circ[g].type = "SetConstVecSIMD" => e = d

\* Nothing dealt is ever changed, and no generator is turned back.
Prefix(s, t) == Len(s) <= Len(t) /\ \A k \in 1 .. Len(s) : t[k] = s[k]

Grown(d, e) ==
  /\ \A i \in Idx : d.perms[i] # NoQuad => e.perms[i] = d.perms[i]
  /\ \A p \in Party :
       /\ Prefix(d.pre[p], e.pre[p]) /\ Prefix(d.B[p], e.B[p])
       /\ d.cur[p].prep <= e.cur[p].prep
       /\ d.cur[p].send <= e.cur[p].send
       /\ d.cur[p].recv <= e.cur[p].recv

\* The gates before g that need the permutations of shuffle id i, and the
\* one among them that had them sampled.
Needs(h, i) == circ[h].type \in PermGate /\ circ[h].idx = i
Sampled(g, i) == \E h \in 1 .. g - 1 : Needs(h, i)
Sampler(h, i) == Needs(h, i) /\ deals[h].perms[i] = NoQuad

History ==
  /\ deals[1] = Deal0
  /\ \A g \in 1 .. pos[Dealer] - 1 : HandledAs(g, deals[g], deals[g + 1], dealt[g])
  /\ \A h \in 1 .. pos[Dealer] : \A g \in 1 .. h : Grown(deals[g], deals[h])
  /\ \A g \in 1 .. pos[Dealer] : \A i \in Idx :
       /\ ~Sampled(g, i) => deals[g].perms[i] = NoQuad
       /\ Sampled(g, i) => /\ deals[g].perms[i] # NoQuad
                           /\ \E h \in 1 .. g - 1 : Sampler(h, i)

------------------------------------------------------------------------------
(* One gate *)

LEMMA GateAt ==
  ASSUME TInv, NEW g \in 1 .. Len(circ)
  PROVE  /\ g \in Nat \ {0} /\ circ[g].type \in GateType /\ circ[g].idx \in Idx
         /\ circ[g].size \in Nat \ {0} /\ rep \in Nat /\ VecSize \in Nat \ {0}
<1>1. circ \in Circuits /\ g \in DOMAIN circ /\ Len(circ) \in Nat
  BY CircuitFacts
<1>2. circ[g] \in Gate
  BY <1>1, GateFacts
<1>3. rep \in Nat /\ VecSize \in Nat \ {0}
  BY TypeFacts, CorrelationAssumption
<1> QED
  BY <1>1, <1>2, <1>3 DEF Gate

LEMMA SnapshotFacts ==
  ASSUME NEW d \in Snapshot, NEW p \in Party
  PROVE  /\ d.turn \in Party /\ d.cur[p] \in Cursor
         /\ d.cur[p].prep \in Nat /\ d.cur[p].send \in Nat /\ d.cur[p].recv \in Nat
         /\ d.pre[p] \in Seq(Token) /\ d.B[p] \in Seq(Token)
         /\ d.perms \in [Idx -> Quad]
BY DEF Snapshot, Cursor

LEMMA SnapshotUpdate ==
  ASSUME NEW d \in Snapshot, NEW c \in [Party -> Cursor],
         NEW q \in [Party -> Seq(Token)], NEW t \in Party
  PROVE  [d EXCEPT !.cur = c, !.pre = q, !.turn = t]
           = [cur |-> c, turn |-> t, pre |-> q, B |-> d.B, perms |-> d.perms]
<1> DEFINE e == [d EXCEPT !.cur = c, !.pre = q, !.turn = t]
<1>1. e \in Snapshot
  BY DEF Snapshot
<1>2. e.cur = c /\ e.pre = q /\ e.turn = t /\ e.B = d.B /\ e.perms = d.perms
  BY DEF Snapshot
<1> HIDE DEF e
<1>3. e = [cur |-> e.cur, turn |-> e.turn, pre |-> e.pre, B |-> e.B, perms |-> e.perms]
  BY <1>1 DEF Snapshot
<1> QED
  BY <1>2, <1>3 DEF e

LEMMA GrownTrans ==
  ASSUME NEW c \in Snapshot, NEW d \in Snapshot, NEW e \in Snapshot, Grown(c, d), Grown(d, e)
  PROVE  Grown(c, e)
<1>1. \A i \in Idx : c.perms[i] # NoQuad => e.perms[i] = c.perms[i]
  BY DEF Grown
<1>2. ASSUME NEW r \in Seq(Token), NEW s \in Seq(Token), NEW t \in Seq(Token),
             Prefix(r, s), Prefix(s, t)
      PROVE  Prefix(r, t)
  <2>1. Len(r) \in Nat /\ Len(s) \in Nat /\ Len(t) \in Nat
    OBVIOUS
  <2>2. \A k \in 1 .. Len(r) : k \in 1 .. Len(s) /\ t[k] = r[k]
    BY <1>2, <2>1 DEF Prefix
  <2> QED
    BY <1>2, <2>1, <2>2 DEF Prefix
<1>3. ASSUME NEW p \in Party
      PROVE  /\ Prefix(c.pre[p], e.pre[p]) /\ Prefix(c.B[p], e.B[p])
             /\ c.cur[p].prep <= e.cur[p].prep
             /\ c.cur[p].send <= e.cur[p].send
             /\ c.cur[p].recv <= e.cur[p].recv
  <2>1. Prefix(c.pre[p], e.pre[p]) /\ Prefix(c.B[p], e.B[p])
    BY <1>2, SnapshotFacts DEF Grown
  <2>2. /\ c.cur[p].prep \in Nat /\ d.cur[p].prep \in Nat /\ e.cur[p].prep \in Nat
        /\ c.cur[p].send \in Nat /\ d.cur[p].send \in Nat /\ e.cur[p].send \in Nat
        /\ c.cur[p].recv \in Nat /\ d.cur[p].recv \in Nat /\ e.cur[p].recv \in Nat
    BY SnapshotFacts
  <2>3. /\ c.cur[p].prep <= d.cur[p].prep /\ d.cur[p].prep <= e.cur[p].prep
        /\ c.cur[p].send <= d.cur[p].send /\ d.cur[p].send <= e.cur[p].send
        /\ c.cur[p].recv <= d.cur[p].recv /\ d.cur[p].recv <= e.cur[p].recv
    BY DEF Grown
  <2> QED
    BY <2>1, <2>2, <2>3
<1> QED
  BY <1>1, <1>3 DEF Grown

LEMMA PrefixAppend ==
  ASSUME NEW s \in Seq(Token), NEW t \in Token
  PROVE  Prefix(s, s) /\ Prefix(s, Append(s, t))
<1>1. /\ Len(s) \in Nat /\ Len(Append(s, t)) = Len(s) + 1
      /\ \A k \in 1 .. Len(s) : Append(s, t)[k] = s[k]
  OBVIOUS
<1> QED
  BY <1>1 DEF Prefix

LEMMA GrownSame ==
  ASSUME NEW d \in Snapshot
  PROVE  Grown(d, d)
<1>1. \A p \in Party : Prefix(d.pre[p], d.pre[p]) /\ Prefix(d.B[p], d.B[p])
  <2> TAKE p \in Party
  <2>1. Len(d.pre[p]) \in Nat /\ Len(d.B[p]) \in Nat
    BY SnapshotFacts
  <2> QED
    BY <2>1 DEF Prefix
<1>2. \A p \in Party : d.cur[p].prep \in Nat /\ d.cur[p].send \in Nat /\ d.cur[p].recv \in Nat
  BY SnapshotFacts
<1> QED
  BY <1>1, <1>2 DEF Grown

LEMMA HandledGrows ==
  ASSUME TInv, NEW g \in 1 .. Len(circ), NEW d \in Snapshot, NEW e \in Snapshot, NEW u,
         HandledAs(g, d, e, u)
  PROVE  Grown(d, e)
<1>1. /\ VecSize \in Nat /\ rep \in Nat /\ circ[g].type \in GateType
      /\ circ[g].size \in Nat /\ g \in Nat /\ circ[g].idx \in Idx
  BY GateAt
<1>2. \A i \in Idx : d.perms[i] # NoQuad => e.perms[i] = d.perms[i]
  BY <1>1 DEF HandledAs, GateType
<1>3. ASSUME NEW p \in Party
      PROVE  /\ Prefix(d.pre[p], e.pre[p]) /\ Prefix(d.B[p], e.B[p])
             /\ d.cur[p].prep <= e.cur[p].prep
             /\ d.cur[p].send <= e.cur[p].send
             /\ d.cur[p].recv <= e.cur[p].recv
  <2>1. /\ d.cur[p].prep \in Nat /\ d.cur[p].send \in Nat /\ d.cur[p].recv \in Nat
        /\ d.pre[p] \in Seq(Token) /\ d.B[p] \in Seq(Token)
    BY SnapshotFacts
  <2>2. \A t \in Token : Prefix(d.pre[p], d.pre[p]) /\ Prefix(d.pre[p], Append(d.pre[p], t))
    BY <2>1, PrefixAppend
  <2>3. \A t \in Token : Prefix(d.B[p], d.B[p]) /\ Prefix(d.B[p], Append(d.B[p], t))
    BY <2>1, PrefixAppend
  <2>4. Made("B", p, g, VecSize) \in Token /\ Made("c", p, g, circ[g].size) \in Token
    BY <1>1, TokenTypes
  <2>5. CASE circ[g].type \in PermGate
    <3>1. PermDealt(p, g, d, e, u[p])
      BY <2>5 DEF HandledAs
    <3>2. /\ d.cur[p].prep <= e.cur[p].prep
          /\ d.cur[p].send <= e.cur[p].send
          /\ d.cur[p].recv <= e.cur[p].recv
      BY <1>1, <2>1, <3>1 DEF PermDealt
    <3>3. e.perms[circ[g].idx].out[p] \in Token /\ e.perms[circ[g].idx].back[p] \in Token
      BY <1>1, SnapshotFacts DEF Quad
    <3>4. Prefix(d.pre[p], e.pre[p])
      BY <2>2, <3>1, <3>3 DEF PermDealt
    <3>5. Prefix(d.B[p], e.B[p])
      BY <2>3, <2>4, <3>1 DEF PermDealt
    <3> QED
      BY <3>2, <3>4, <3>5
  <2>6. CASE circ[g].type = "Unshuffle"
    <3>1. UnshuffleDealt(p, g, d, e, u[p])
      BY <2>6 DEF HandledAs
    <3> QED
      BY <1>1, <2>1, <2>2, <2>3, <2>4, <3>1 DEF UnshuffleDealt
  <2>7. CASE circ[g].type = "MulSIMD"
    <3>1. TripleDealt(p, g, d, e, u[p])
      BY <2>7 DEF HandledAs
    <3>2. (IF d.turn = p THEN 2 ELSE 3) * circ[g].size \in Nat
      BY <1>1
    <3>3. d.cur[p].prep <= e.cur[p].prep
      <4> DEFINE m == (IF d.turn = p THEN 2 ELSE 3) * circ[g].size
      <4>1. m \in Nat /\ e.cur[p].prep = d.cur[p].prep + m
        BY <3>1, <3>2 DEF TripleDealt
      <4> HIDE DEF m
      <4> QED
        BY <2>1, <4>1
    <3>4. /\ Prefix(d.pre[p], e.pre[p]) /\ Prefix(d.B[p], e.B[p])
          /\ e.cur[p].send = d.cur[p].send /\ e.cur[p].recv = d.cur[p].recv
      BY <2>2, <2>3, <2>4, <3>1 DEF TripleDealt
    <3> QED
      BY <2>1, <3>3, <3>4
  <2>8. CASE circ[g].type = "SetConstVecSIMD"
    <3>1. e = d
      BY <2>8 DEF HandledAs
    <3> QED
      BY <2>1, <2>2, <2>3, <2>4, <3>1
  <2> QED
    BY <1>1, <2>5, <2>6, <2>7, <2>8 DEF GateType
<1> QED
  BY <1>2, <1>3 DEF Grown

------------------------------------------------------------------------------
(* The dealer's actions handle a gate as described *)

LEMMA DealPermsFields ==
  ASSUME TInv, NEW g \in 1 .. Len(circ), NEW d \in Snapshot, NEW i \in Idx, NEW q \in Quad
  PROVE  LET e == DealPerms(i, g, d, q)
             new == d.perms[i] = NoQuad
         IN /\ e \in Snapshot /\ e.turn = d.turn
            /\ \A j \in Idx : e.perms[j] = IF new /\ j = i THEN q ELSE d.perms[j]
            /\ \A p \in Party :
                 /\ e.cur[p].prep = d.cur[p].prep
                 /\ e.cur[p].send = d.cur[p].send + VecSize
                                      + (IF new THEN Drawn(q.out[p], "send") ELSE 0)
                 /\ e.cur[p].recv = d.cur[p].recv + (IF new THEN Drawn(q.back[p], "recv") ELSE 0)
                 /\ e.pre[p] = IF new THEN d.pre[p] \o Shipped(q, p) ELSE d.pre[p]
                 /\ e.B[p] = Append(d.B[p], Made("B", p, g, VecSize))
<1> DEFINE e == DealPerms(i, g, d, q)
<1>1. e \in Snapshot
  BY GateAt, DealPermsType
<1>2. /\ d.cur \in [Party -> Cursor] /\ d.pre \in [Party -> Seq(Token)]
      /\ d.B \in [Party -> Seq(Token)] /\ d.perms \in [Idx -> Quad] /\ d.turn \in Party
      /\ d = [cur |-> d.cur, turn |-> d.turn, pre |-> d.pre, B |-> d.B, perms |-> d.perms]
  BY DEF Snapshot
<1>3. VecSize \in Nat
  BY GateAt
<1>4. \A p \in Party : Drawn(q.out[p], "send") \in Nat /\ Drawn(q.back[p], "recv") \in Nat
  BY DEF Drawn, Quad, Token
<1>5. CASE d.perms[i] = NoQuad
  <2> DEFINE cur2 == [p \in Party |->
                 [d.cur[p] EXCEPT !.send = @ + VecSize + Drawn(q.out[p], "send"),
                                  !.recv = @ + Drawn(q.back[p], "recv")]]
             pre2 == [p \in Party |-> d.pre[p] \o Shipped(q, p)]
             perms2 == [d.perms EXCEPT ![i] = q]
  <2>0. e = [cur |-> cur2, turn |-> d.turn, pre |-> pre2, B |-> AppendB(g, d), perms |-> perms2]
    BY <1>2, <1>5 DEF DealPerms
  <2> HIDE DEF e, cur2, pre2, perms2
  <2>1. e.cur = cur2 /\ e.turn = d.turn /\ e.pre = pre2 /\ e.B = AppendB(g, d) /\ e.perms = perms2
    BY <2>0
  <2>2. \A j \in Idx : e.perms[j] = IF j = i THEN q ELSE d.perms[j]
    BY <1>2, <2>1 DEF perms2
  <2>3. ASSUME NEW p \in Party
        PROVE  /\ e.cur[p].prep = d.cur[p].prep
               /\ e.cur[p].send = d.cur[p].send + VecSize + Drawn(q.out[p], "send")
               /\ e.cur[p].recv = d.cur[p].recv + Drawn(q.back[p], "recv")
    <3>1. e.cur[p] = [d.cur[p] EXCEPT !.send = d.cur[p].send + VecSize + Drawn(q.out[p], "send"),
                                      !.recv = d.cur[p].recv + Drawn(q.back[p], "recv")]
      BY <2>1 DEF cur2
    <3>2. d.cur[p] \in [{"prep", "send", "recv"} -> Nat]
      BY SnapshotFacts DEF Cursor
    <3> QED
      BY <3>1, <3>2
  <2>4. \A p \in Party : /\ e.pre[p] = d.pre[p] \o Shipped(q, p)
                         /\ e.B[p] = Append(d.B[p], Made("B", p, g, VecSize))
    BY <2>1 DEF AppendB, pre2
  <2>5. e.turn = d.turn
    BY <2>1
  <2>6. /\ e.turn = d.turn
        /\ \A j \in Idx : e.perms[j] = IF d.perms[i] = NoQuad /\ j = i THEN q ELSE d.perms[j]
        /\ \A p \in Party :
             /\ e.cur[p].prep = d.cur[p].prep
             /\ e.cur[p].send = d.cur[p].send + VecSize
                                  + (IF d.perms[i] = NoQuad THEN Drawn(q.out[p], "send") ELSE 0)
             /\ e.cur[p].recv = d.cur[p].recv
                                  + (IF d.perms[i] = NoQuad THEN Drawn(q.back[p], "recv") ELSE 0)
             /\ e.pre[p] = IF d.perms[i] = NoQuad THEN d.pre[p] \o Shipped(q, p) ELSE d.pre[p]
             /\ e.B[p] = Append(d.B[p], Made("B", p, g, VecSize))
    BY <1>5, <2>2, <2>3, <2>4, <2>5
  <2> QED
    BY <1>1, <2>6 DEF e
<1>6. CASE d.perms[i] # NoQuad
  <2>1. e = [cur |-> [p \in Party |-> [d.cur[p] EXCEPT !.send = @ + VecSize]],
             turn |-> d.turn, pre |-> d.pre, B |-> AppendB(g, d), perms |-> d.perms]
    BY <1>2, <1>6 DEF DealPerms
  <2>2. ASSUME NEW p \in Party
        PROVE  /\ e.cur[p].prep = d.cur[p].prep
               /\ e.cur[p].send = d.cur[p].send + VecSize
               /\ e.cur[p].recv = d.cur[p].recv
    <3>1. e.cur[p] = [d.cur[p] EXCEPT !.send = d.cur[p].send + VecSize]
      BY <2>1
    <3>2. d.cur[p] \in [{"prep", "send", "recv"} -> Nat]
      BY SnapshotFacts DEF Cursor
    <3> QED
      BY <3>1, <3>2
  <2>3. \A p \in Party : /\ e.pre[p] = d.pre[p]
                         /\ e.B[p] = Append(d.B[p], Made("B", p, g, VecSize))
    BY <2>1 DEF AppendB
  <2>4. e.turn = d.turn /\ e.perms = d.perms
    BY <2>1
  <2> HIDE DEF e
  <2>5. \A p \in Party :
             /\ e.cur[p].send = d.cur[p].send + VecSize
                                  + (IF d.perms[i] = NoQuad THEN Drawn(q.out[p], "send") ELSE 0)
             /\ e.cur[p].recv = d.cur[p].recv
                                  + (IF d.perms[i] = NoQuad THEN Drawn(q.back[p], "recv") ELSE 0)
    <3> TAKE p \in Party
    <3>1. d.cur[p].send \in Nat /\ d.cur[p].recv \in Nat
      BY SnapshotFacts
    <3> QED
      BY <1>3, <1>6, <2>2, <3>1
  <2>6. /\ e.turn = d.turn
        /\ \A j \in Idx : e.perms[j] = IF d.perms[i] = NoQuad /\ j = i THEN q ELSE d.perms[j]
        /\ \A p \in Party :
             /\ e.cur[p].prep = d.cur[p].prep
             /\ e.cur[p].send = d.cur[p].send + VecSize
                                  + (IF d.perms[i] = NoQuad THEN Drawn(q.out[p], "send") ELSE 0)
             /\ e.cur[p].recv = d.cur[p].recv
                                  + (IF d.perms[i] = NoQuad THEN Drawn(q.back[p], "recv") ELSE 0)
             /\ e.pre[p] = IF d.perms[i] = NoQuad THEN d.pre[p] \o Shipped(q, p) ELSE d.pre[p]
             /\ e.B[p] = Append(d.B[p], Made("B", p, g, VecSize))
    BY <1>6, <2>2, <2>3, <2>4, <2>5
  <2> QED
    BY <1>1, <2>6 DEF e
<1> QED
  BY <1>5, <1>6

\* What a shuffle's first gate samples, and what of it is drawn or shipped.
LEMMA SampleFields ==
  ASSUME TInv, NEW g \in 1 .. Len(circ), NEW d \in Snapshot, NEW q, NEW p \in Party,
         \/ circ[g].type = "Shuffle" /\ q = SampleShuffle(g, d)
         \/ circ[g].type = "MergedShuffle" /\ q = SampleMerged(g, d)
  PROVE  LET madeOut == MadeOut(p, g, d)
             madeBack == MadeBack(p, g, d)
         IN /\ q.out[p] = IF madeOut THEN Made("perm", p, g, VecSize)
                          ELSE Draw(p, "send", d.cur[p].send + VecSize, VecSize)
            /\ q.back[p] = IF madeBack THEN Made("perm", p, g, VecSize)
                           ELSE Draw(p, "recv", d.cur[p].recv, VecSize)
            /\ Drawn(q.out[p], "send") = IF madeOut THEN 0 ELSE VecSize
            /\ Drawn(q.back[p], "recv") = IF madeBack THEN 0 ELSE VecSize
            /\ Shipped(q, p) = IF madeOut THEN <<q.out[p]>>
                               ELSE IF madeBack THEN <<q.back[p]>> ELSE <<>>
<1> DEFINE madeOut == MadeOut(p, g, d)
           madeBack == MadeBack(p, g, d)
<1>1. p \in {P0, P1} /\ P0 # P1 /\ d.turn \in {P0, P1}
  BY SnapshotFacts DEF Party, P0, P1
<1>2. CASE circ[g].type = "Shuffle" /\ q = SampleShuffle(g, d)
  <2>1. q.out[p] = IF d.turn = P0 /\ p = P0 THEN Made("perm", p, g, VecSize)
                   ELSE Draw(p, "send", d.cur[p].send + VecSize, VecSize)
    BY <1>2 DEF SampleShuffle
  <2>2. q.back[p] = IF d.turn = P1 /\ p = P1 THEN Made("perm", p, g, VecSize)
                    ELSE Draw(p, "recv", d.cur[p].recv, VecSize)
    BY <1>2 DEF SampleShuffle
  <2>3. (madeOut <=> d.turn = P0 /\ p = P0) /\ (madeBack <=> d.turn = P1 /\ p = P1)
    BY <1>2 DEF MadeOut, MadeBack
  <2> QED
    BY <1>1, <2>1, <2>2, <2>3 DEF Drawn, Shipped, Made, Draw
<1>3. CASE circ[g].type = "MergedShuffle" /\ q = SampleMerged(g, d)
  <2>1. q.out[p] = Made("perm", p, g, VecSize) /\ q.back[p] = Draw(p, "recv", d.cur[p].recv, VecSize)
    BY <1>3 DEF SampleMerged
  <2>2. madeOut /\ ~madeBack
    BY <1>3 DEF MadeOut, MadeBack
  <2> QED
    BY <2>1, <2>2 DEF Drawn, Shipped, Made, Draw
<1> QED
  BY <1>2, <1>3

LEMMA PermHandled ==
  ASSUME TInv, NEW g \in 1 .. Len(circ), NEW d \in Snapshot, NEW q \in Quad, NEW e \in Snapshot,
         \/ circ[g].type = "Shuffle" /\ q = SampleShuffle(g, d)
         \/ circ[g].type = "MergedShuffle" /\ q = SampleMerged(g, d),
         LET e0 == DealPerms(circ[g].idx, g, d, q) IN
           /\ e.cur = e0.cur /\ e.pre = e0.pre /\ e.B = e0.B /\ e.perms = e0.perms
           /\ e.turn = IF circ[g].type = "MergedShuffle" THEN d.turn ELSE Other(d.turn)
  PROVE  HandledAs(g, d, e, Forward(circ[g].idx, g, d, e))
<1> DEFINE i == circ[g].idx
           new == d.perms[i] = NoQuad
           u == Forward(i, g, d, e)
<1>1. i \in Idx /\ circ[g].type \in PermGate /\ VecSize \in Nat
  BY GateAt DEF PermGate
<1>2. /\ \A j \in Idx : e.perms[j] = IF new /\ j = i THEN q ELSE d.perms[j]
      /\ \A p \in Party :
           /\ e.cur[p].prep = d.cur[p].prep
           /\ e.cur[p].send = d.cur[p].send + VecSize
                                + (IF new THEN Drawn(q.out[p], "send") ELSE 0)
           /\ e.cur[p].recv = d.cur[p].recv + (IF new THEN Drawn(q.back[p], "recv") ELSE 0)
           /\ e.pre[p] = IF new THEN d.pre[p] \o Shipped(q, p) ELSE d.pre[p]
           /\ e.B[p] = Append(d.B[p], Made("B", p, g, VecSize))
  BY <1>1, DealPermsFields
<1>3. \A j \in Idx : j # i \/ d.perms[j] # NoQuad => e.perms[j] = d.perms[j]
  BY <1>2
<1>4. ASSUME NEW p \in Party
      PROVE  PermDealt(p, g, d, e, u[p])
  <2> DEFINE oq == MadeOut(p, g, d)
             bq == MadeBack(p, g, d)
  <2>1. /\ q.out[p] = IF oq THEN Made("perm", p, g, VecSize)
                      ELSE Draw(p, "send", d.cur[p].send + VecSize, VecSize)
        /\ q.back[p] = IF bq THEN Made("perm", p, g, VecSize)
                       ELSE Draw(p, "recv", d.cur[p].recv, VecSize)
        /\ Drawn(q.out[p], "send") = IF oq THEN 0 ELSE VecSize
        /\ Drawn(q.back[p], "recv") = IF bq THEN 0 ELSE VecSize
        /\ Shipped(q, p) = IF oq THEN <<q.out[p]>> ELSE IF bq THEN <<q.back[p]>> ELSE <<>>
    BY SampleFields
  <2>2. u[p] = [R |-> Draw(p, "send", d.cur[p].send, VecSize), send |-> e.perms[i].out[p],
                recv |-> e.perms[i].back[p], B |-> Made("B", p, g, VecSize)]
    BY DEF Forward
  <2>3. /\ d.cur[p].send \in Nat /\ d.cur[p].recv \in Nat /\ d.pre[p] \in Seq(Token)
        /\ q.out[p] \in Token /\ q.back[p] \in Token
    BY SnapshotFacts DEF Quad
  <2>4. new => e.perms[i] = q
    BY <1>1, <1>2
  <2>5. e.cur[p].send = IF new /\ ~oq THEN d.cur[p].send + VecSize + VecSize
                                      ELSE d.cur[p].send + VecSize
    BY <1>1, <1>2, <2>1, <2>3
  <2>6. e.cur[p].recv = IF new /\ ~bq THEN d.cur[p].recv + VecSize ELSE d.cur[p].recv
    BY <1>1, <1>2, <2>1, <2>3
  <2>7. e.pre[p] = IF new /\ oq THEN Append(d.pre[p], q.out[p])
                   ELSE IF new /\ bq THEN Append(d.pre[p], q.back[p]) ELSE d.pre[p]
    <3>1. /\ d.pre[p] \o <<>> = d.pre[p]
          /\ \A t \in Token : d.pre[p] \o <<t>> = Append(d.pre[p], t)
      BY <2>3
    <3>2. e.pre[p] = IF new THEN d.pre[p] \o Shipped(q, p) ELSE d.pre[p]
      BY <1>2
    <3> HIDE DEF new, oq, bq
    <3> QED
      BY <2>1, <2>3, <3>1, <3>2
  <2>8. e.cur[p].prep = d.cur[p].prep /\ e.B[p] = Append(d.B[p], Made("B", p, g, VecSize))
    BY <1>2
  <2> HIDE DEF u
  <2> QED
    BY <2>1, <2>2, <2>4, <2>5, <2>6, <2>7, <2>8 DEF PermDealt
<1> HIDE DEF u
<1>5. HandledAs(g, d, e, u)
  BY <1>1, <1>3, <1>4 DEF HandledAs, PermGate
<1> QED
  BY <1>5 DEF u

\* Every step of the dealer but the sending of the lists.
LEMMA DealHandled ==
  ASSUME TInv, DealerStep, ~ (\E p \in Party : DealerSends(p))
  PROVE  \E types, e, u : /\ Dealing(types) /\ DealAs(pos[Dealer], e, u)
                          /\ e \in Snapshot
                          /\ HandledAs(pos[Dealer], deals[pos[Dealer]], e, u)
<1> DEFINE g == pos[Dealer]
           d == deals[g]
<1>1. ASSUME NEW types, Dealing(types)
      PROVE  g \in 1 .. Len(circ) /\ d \in Snapshot /\ circ[g].type \in types
  <2>1. /\ pos[Dealer] \in Nat \ {0} /\ pos[Dealer] = Len(deals) /\ deals \in Seq(Snapshot)
        /\ Len(circ) \in Nat
    BY TypeFacts, PartyFacts DEF TInv, TypeOK, Bounds
  <2> QED
    BY <1>1, <2>1 DEF Dealing
<1>2. /\ rep \in Nat /\ VecSize \in Nat
  BY TypeFacts
<1>3. CASE DealShuffle
  <2> DEFINE q == SampleShuffle(g, d)
             e0 == DealPerms(circ[g].idx, g, d, q)
             e == [e0 EXCEPT !.turn = Other(d.turn)]
  <2>1. Dealing({"Shuffle"}) /\ DealAs(g, e, Forward(circ[g].idx, g, d, e))
    BY <1>3 DEF DealShuffle
  <2>2. g \in 1 .. Len(circ) /\ d \in Snapshot /\ circ[g].type = "Shuffle" /\ g \in Nat
        /\ circ[g].idx \in Idx
    BY <1>1, <2>1, GateAt
  <2>3. q \in Quad
    BY <1>2, <2>2, SampleTypes
  <2>4. e0 \in Snapshot /\ Other(d.turn) \in Party
    <3> HIDE DEF q
    <3> QED
      BY <2>2, <2>3, DealPermsFields, SnapshotFacts, PartyFacts DEF Snapshot
  <2>5. /\ e \in Snapshot /\ e.turn = Other(d.turn)
        /\ e.cur = e0.cur /\ e.pre = e0.pre /\ e.B = e0.B /\ e.perms = e0.perms
    <3> HIDE DEF e0
    <3> QED
      BY <2>4 DEF Snapshot
  <2> HIDE DEF e
  <2>6. HandledAs(g, d, e, Forward(circ[g].idx, g, d, e))
    BY <2>2, <2>3, <2>5, PermHandled
  <2> QED
    BY <2>1, <2>5, <2>6
<1>4. CASE DealMergedShuffle
  <2> DEFINE q == SampleMerged(g, d)
             e == DealPerms(circ[g].idx, g, d, q)
  <2>1. Dealing({"MergedShuffle"}) /\ DealAs(g, e, Forward(circ[g].idx, g, d, e))
    BY <1>4 DEF DealMergedShuffle
  <2>2. g \in 1 .. Len(circ) /\ d \in Snapshot /\ circ[g].type = "MergedShuffle" /\ g \in Nat
        /\ circ[g].idx \in Idx
    BY <1>1, <2>1, GateAt
  <2>3. q \in Quad
    BY <1>2, <2>2, SampleTypes
  <2>4. e \in Snapshot /\ e.turn = d.turn
    <3> HIDE DEF q
    <3> QED
      BY <2>2, <2>3, DealPermsFields
  <2>5. HandledAs(g, d, e, Forward(circ[g].idx, g, d, e))
    BY <2>2, <2>3, <2>4, PermHandled
  <2> QED
    BY <2>1, <2>4, <2>5
<1>5. CASE DealUnshuffle
  <2> DEFINE cur2 == [p \in Party |-> [d.cur[p] EXCEPT !.send = @ + VecSize]]
             e == [d EXCEPT !.cur = cur2, !.B = AppendB(g, d)]
             u == Backward(circ[g].idx, g, d)
  <2>1. Dealing({"Unshuffle"}) /\ DealAs(g, e, u)
    BY <1>5 DEF DealUnshuffle
  <2>2. g \in 1 .. Len(circ) /\ d \in Snapshot /\ circ[g].type = "Unshuffle" /\ g \in Nat
    BY <1>1, <2>1, GateAt
  <2>3. AppendB(g, d) \in [Party -> Seq(Token)]
    <3>1. ASSUME NEW p \in Party
          PROVE  Append(d.B[p], Made("B", p, g, VecSize)) \in Seq(Token)
      BY <1>2, <2>2, TokenTypes, SnapshotFacts
    <3> QED
      BY <3>1 DEF AppendB
  <2>4. ASSUME NEW p \in Party
        PROVE  /\ [d.cur[p] EXCEPT !.send = @ + VecSize] \in Cursor
               /\ cur2[p].prep = d.cur[p].prep
               /\ cur2[p].send = d.cur[p].send + VecSize
               /\ cur2[p].recv = d.cur[p].recv
    <3>1. d.cur[p] \in Cursor
      BY <2>2, SnapshotFacts
    <3>2. [d.cur[p] EXCEPT !.send = @ + VecSize] \in Cursor
      BY <1>2, <3>1, CursorType
    <3> QED
      BY <3>1, <3>2 DEF Cursor
  <2>5. cur2 \in [Party -> Cursor]
    BY <2>4
  <2> HIDE DEF cur2
  <2>6. /\ e \in Snapshot /\ e.turn = d.turn /\ e.perms = d.perms /\ e.pre = d.pre
        /\ e.cur = cur2 /\ \A p \in Party : e.B[p] = Append(d.B[p], Made("B", p, g, VecSize))
    <3>1. e \in Snapshot /\ e.turn = d.turn /\ e.perms = d.perms /\ e.pre = d.pre
          /\ e.cur = cur2 /\ e.B = AppendB(g, d)
      BY <2>2, <2>3, <2>5 DEF Snapshot
    <3> QED
      BY <3>1 DEF AppendB
  <2> HIDE DEF e
  <2>7. \A p \in Party : UnshuffleDealt(p, g, d, e, u[p])
    BY <2>4, <2>6 DEF UnshuffleDealt, Backward
  <2> HIDE DEF u
  <2>8. HandledAs(g, d, e, u)
    BY <2>2, <2>6, <2>7 DEF HandledAs, PermGate
  <2> QED
    BY <2>1, <2>6, <2>8
<1>6. CASE DealTriple
  <2> DEFINE n == circ[g].size
             t == d.turn
             c == Made("c", t, g, n)
             cur2 == [p \in Party |-> [d.cur[p] EXCEPT !.prep = @ + (IF t = p THEN 2 ELSE 3) * n]]
             e == [d EXCEPT !.cur = cur2, !.pre[d.turn] = Append(@, c), !.turn = Other(d.turn)]
             u == Triple(g, d, n)
  <2>1. Dealing({"MulSIMD"}) /\ DealAs(g, e, u)
    BY <1>6 DEF DealTriple
  <2>2. g \in 1 .. Len(circ) /\ d \in Snapshot /\ circ[g].type = "MulSIMD" /\ g \in Nat
        /\ n \in Nat /\ t \in Party /\ Other(t) \in Party
    BY <1>1, <2>1, GateAt, SnapshotFacts, PartyFacts
  <2>3. c \in Token
    BY <1>2, <2>2, TokenTypes
  <2>4. ASSUME NEW p \in Party
        PROVE  /\ [d.cur[p] EXCEPT !.prep = @ + (IF t = p THEN 2 ELSE 3) * n] \in Cursor
               /\ cur2[p].prep = d.cur[p].prep + (IF t = p THEN 2 ELSE 3) * n
               /\ cur2[p].send = d.cur[p].send
               /\ cur2[p].recv = d.cur[p].recv
    <3> DEFINE m == (IF t = p THEN 2 ELSE 3) * n
    <3>1. m \in Nat
      BY <2>2
    <3>2. d.cur[p] \in Cursor /\ cur2[p] = [d.cur[p] EXCEPT !.prep = @ + m]
      BY <2>2, SnapshotFacts
    <3> HIDE DEF m, cur2
    <3>3. [d.cur[p] EXCEPT !.prep = @ + m] \in Cursor
      BY <3>1, <3>2, CursorType
    <3>4. /\ cur2[p].prep = d.cur[p].prep + m
          /\ cur2[p].send = d.cur[p].send
          /\ cur2[p].recv = d.cur[p].recv
      BY <3>2, <3>3 DEF Cursor
    <3> QED
      BY <3>3, <3>4 DEF m
  <2>5. cur2 \in [Party -> Cursor]
    BY <2>4
  <2> HIDE DEF cur2, c
  <2> DEFINE pre2 == [d.pre EXCEPT ![t] = Append(d.pre[t], c)]
  <2>6. /\ e \in Snapshot /\ e.turn = Other(t) /\ e.perms = d.perms /\ e.B = d.B
        /\ e.cur = cur2 /\ e.pre = pre2
    <3>1. Append(d.pre[t], c) \in Seq(Token)
      BY <2>2, <2>3, SnapshotFacts
    <3>2. pre2 \in [Party -> Seq(Token)] /\ d.pre \in [Party -> Seq(Token)]
      BY <2>2, <3>1 DEF Snapshot
    <3>3. e = [cur |-> cur2, turn |-> Other(t), pre |-> pre2, B |-> d.B, perms |-> d.perms]
      <4>1. e = [d EXCEPT !.cur = cur2, !.pre = pre2, !.turn = Other(t)]
        BY DEF e, pre2
      <4>2. d \in Snapshot /\ Other(t) \in Party
        BY <2>2
      <4> HIDE DEF d, e, pre2, t
      <4> QED
        BY <2>5, <3>2, <4>1, <4>2, SnapshotUpdate
    <3> QED
      BY <2>2, <2>5, <3>2, <3>3 DEF Snapshot
  <2>7. \A p \in Party : e.pre[p] = IF t = p THEN Append(d.pre[p], c) ELSE d.pre[p]
    BY <2>2, <2>6 DEF Snapshot
  <2> HIDE DEF e, pre2
  <2>8. ASSUME NEW p \in Party
        PROVE  TripleDealt(p, g, d, e, u[p])
    <3>1. e.pre[p] = IF d.turn = p THEN Append(d.pre[p], Made("c", p, g, n)) ELSE d.pre[p]
      BY <2>7 DEF c
    <3>2. u[p] = [a |-> Draw(p, "prep", d.cur[p].prep, n), b |-> Draw(p, "prep", d.cur[p].prep + n, n),
                  c |-> IF d.turn = p THEN Made("c", p, g, n)
                        ELSE Draw(p, "prep", d.cur[p].prep + 2 * n, n)]
      BY DEF Triple
    <3> HIDE DEF u
    <3> QED
      BY <2>4, <2>6, <3>1, <3>2 DEF TripleDealt
  <2> HIDE DEF u
  <2>9. HandledAs(g, d, e, u)
    BY <2>2, <2>6, <2>8 DEF HandledAs, PermGate
  <2> QED
    BY <2>1, <2>6, <2>9
<1>7. CASE DealNothing
  <2> DEFINE u == [p \in Party |-> NoUse]
  <2>1. Dealing({"SetConstVecSIMD"}) /\ DealAs(g, d, u)
    BY <1>7 DEF DealNothing
  <2>2. d \in Snapshot /\ circ[g].type = "SetConstVecSIMD"
    BY <1>1, <2>1
  <2>3. HandledAs(g, d, d, u)
    BY <2>2 DEF HandledAs, PermGate
  <2> QED
    BY <2>1, <2>2, <2>3
<1> QED
  BY <1>3, <1>4, <1>5, <1>6, <1>7 DEF DealerStep

------------------------------------------------------------------------------
(* The history is an invariant *)

LEMMA HandledSame ==
  ASSUME circ' = circ, rep' = rep, NEW h
  PROVE  HandledAs(h, deals[h], deals[h + 1], dealt[h])'
           <=> HandledAs(h, deals'[h], deals'[h + 1], dealt'[h])
BY DEF HandledAs, PermDealt, UnshuffleDealt, TripleDealt, MadeOut, MadeBack, Made, Draw

LEMMA HistorySame ==
  ASSUME History, circ' = circ, rep' = rep, deals' = deals, dealt' = dealt,
         pos'[Dealer] = pos[Dealer]
  PROVE  History'
<1>1. \A h : HandledAs(h, deals[h], deals[h + 1], dealt[h])'
               <=> HandledAs(h, deals[h], deals[h + 1], dealt[h])
  BY HandledSame
<1>2. \A h, i : /\ Sampled(h, i)' <=> Sampled(h, i)
                /\ Needs(h, i)' <=> Needs(h, i)
                /\ Sampler(h, i)' <=> Sampler(h, i)
  BY DEF Sampled, Needs, Sampler
<1>3. (deals[1] = Deal0)' /\ \A g \in 1 .. pos'[Dealer] - 1 :
                                 HandledAs(g, deals[g], deals[g + 1], dealt[g])'
  BY <1>1 DEF History
<1>4. \A h \in 1 .. pos'[Dealer] : \A g \in 1 .. h : Grown(deals'[g], deals'[h])
  BY DEF History
<1>5. \A g \in 1 .. pos'[Dealer] : \A i \in Idx :
       /\ ~Sampled(g, i)' => deals'[g].perms[i] = NoQuad
       /\ Sampled(g, i)' => /\ deals'[g].perms[i] # NoQuad
                            /\ \E h \in 1 .. g - 1 : Sampler(h, i)'
  BY <1>2 DEF History
<1> QED
  BY <1>3, <1>4, <1>5 DEF History, Grown, Prefix

LEMMA DealsFacts ==
  ASSUME TInv
  PROVE  /\ pos[Dealer] \in Nat \ {0} /\ pos[Dealer] = Len(deals) /\ pos[Dealer] <= Len(circ) + 1
         /\ Len(circ) \in Nat \ {0}
         /\ \A g \in 1 .. pos[Dealer] : deals[g] \in Snapshot
<1>1. pos[Dealer] \in Nat \ {0} /\ pos[Dealer] = Len(deals) /\ deals \in Seq(Snapshot)
      /\ pos[Dealer] <= Len(circ) + 1 /\ Len(circ) \in Nat \ {0}
  BY TypeFacts, PartyFacts DEF TInv, TypeOK, Bounds
<1> QED
  BY <1>1

\* After gate g the dealer knows the permutations it knew and those of g.
LEMMA SampledNext ==
  ASSUME TInv, NEW g \in 1 .. Len(circ), NEW d \in Snapshot, NEW e \in Snapshot, NEW u,
         HandledAs(g, d, e, u), NEW i \in Idx
  PROVE  /\ Sampled(g + 1, i) <=> Sampled(g, i) \/ Needs(g, i)
         /\ Needs(g, i) => e.perms[i] # NoQuad
         /\ ~Needs(g, i) => e.perms[i] = d.perms[i]
<1>1. circ[g].type \in GateType /\ g \in Nat \ {0}
  BY GateAt
<1>2. Sampled(g + 1, i) <=> Sampled(g, i) \/ Needs(g, i)
  <2>1. \A h : h \in 1 .. (g + 1) - 1 <=> h \in 1 .. g - 1 \/ h = g
    BY <1>1
  <2> QED
    BY <2>1 DEF Sampled
<1>3. ASSUME Needs(g, i)
      PROVE  e.perms[i] # NoQuad
  <2>1. CASE d.perms[i] # NoQuad
    BY <1>3, <2>1 DEF HandledAs, Needs
  <2>2. CASE d.perms[i] = NoQuad
    <3>1. PermDealt(P0, g, d, e, u[P0])
      BY <1>3, PartyFacts DEF HandledAs, Needs
    <3>2. e.perms[i].out[P0].by \in {"perm", "send"}
      BY <1>3, <2>2, <3>1 DEF PermDealt, Needs, Made, Draw
    <3>3. NoQuad.out[P0].by = "none"
      BY PartyFacts DEF NoQuad, NoTokens, NoToken
    <3> QED
      BY <3>2, <3>3
  <2> QED
    BY <2>1, <2>2
<1>4. ASSUME ~Needs(g, i)
      PROVE  e.perms[i] = d.perms[i]
  BY <1>1, <1>4 DEF HandledAs, Needs, GateType, PermGate
<1> QED
  BY <1>2, <1>3, <1>4

LEMMA HistoryDeal ==
  ASSUME TInv, History, NEW types, NEW e \in Snapshot, NEW u, Dealing(types),
         DealAs(pos[Dealer], e, u),
         HandledAs(pos[Dealer], deals[pos[Dealer]], e, u)
  PROVE  History'
<1> DEFINE g == pos[Dealer]
<1>1. /\ g \in Nat \ {0} /\ g = Len(deals) /\ Len(circ) \in Nat \ {0} /\ g \in 1 .. Len(circ)
      /\ \A h \in 1 .. g : deals[h] \in Snapshot
      /\ deals \in Seq(Snapshot)
  BY DealsFacts DEF Dealing, TInv, TypeOK
<1>2. /\ circ' = circ /\ rep' = rep /\ deals' = Append(deals, e)
      /\ dealt' = [dealt EXCEPT ![g] = u] /\ pos'[Dealer] = g + 1
  <2>1. pos' = [pos EXCEPT ![Dealer] = g + 1] /\ pos \in [Server -> Nat \ {0}]
    BY TypeFacts DEF DealAs
  <2> QED
    BY <2>1, PartyFacts DEF Dealing, DealAs
<1>3. dealt \in [1 .. Len(circ) -> [Party -> Use]]
  BY CircuitFacts DEF TInv, TypeOK
<1>4. /\ \A h \in 1 .. g : deals'[h] = deals[h]
      /\ deals'[g + 1] = e
  BY <1>1, <1>2
<1>5. dealt'[g] = u /\ \A h \in 1 .. g - 1 : dealt'[h] = dealt[h]
  BY <1>1, <1>2, <1>3
<1> HIDE DEF g
<1>6. \A h, i : /\ Sampled(h, i)' <=> Sampled(h, i)
                /\ Needs(h, i)' <=> Needs(h, i)
  BY <1>2 DEF Sampled, Needs
<1>7. deals'[1] = Deal0
  BY <1>1, <1>4 DEF History
<1>8. ASSUME NEW h \in 1 .. pos'[Dealer] - 1
      PROVE  HandledAs(h, deals[h], deals[h + 1], dealt[h])'
  <2>1. h \in 1 .. g - 1 \/ h = g
    BY <1>1, <1>2
  <2>2. CASE h = g
    <3>1. HandledAs(h, deals'[h], deals'[h + 1], dealt'[h])
      BY <1>1, <1>4, <1>5, <2>2 DEF g
    <3> QED
      BY <1>2, <3>1, HandledSame
  <2>3. CASE h \in 1 .. g - 1
    <3>1. HandledAs(h, deals[h], deals[h + 1], dealt[h])
      BY <2>3 DEF History, g
    <3>2. deals'[h] = deals[h] /\ deals'[h + 1] = deals[h + 1] /\ dealt'[h] = dealt[h]
      BY <1>1, <1>4, <1>5, <2>3
    <3>3. HandledAs(h, deals'[h], deals'[h + 1], dealt'[h])
      BY <3>1, <3>2
    <3> QED
      BY <1>2, <3>3, HandledSame
  <2> QED
    BY <2>1, <2>2, <2>3
<1>9. Grown(deals[g], e)
  BY <1>1, HandledGrows DEF g
<1>10. ASSUME NEW h \in 1 .. pos'[Dealer], NEW k \in 1 .. h
       PROVE  Grown(deals'[k], deals'[h])
  <2>1. h \in 1 .. g \/ h = g + 1
    BY <1>1, <1>2
  <2>2. CASE h \in 1 .. g
    <3>1. k \in 1 .. g /\ Grown(deals[k], deals[h])
      BY <1>1, <2>2 DEF History, g
    <3> QED
      BY <1>4, <2>2, <3>1
  <2>3. CASE h = g + 1 /\ k \in 1 .. g
    <3>1. Grown(deals[k], deals[g])
      BY <1>1, <2>3 DEF History, g
    <3>2. deals[k] \in Snapshot /\ deals[g] \in Snapshot
      BY <1>1, <2>3
    <3> QED
      BY <1>4, <1>9, <2>3, <3>1, <3>2, GrownTrans
  <2>4. CASE h = g + 1 /\ k = g + 1
    BY <1>4, <2>4, GrownSame
  <2>5. h = g + 1 => k \in 1 .. g \/ k = g + 1
    BY <1>1
  <2> QED
    BY <2>1, <2>2, <2>3, <2>4, <2>5
<1>11. ASSUME NEW h \in 1 .. pos'[Dealer], NEW i \in Idx
       PROVE  /\ ~Sampled(h, i)' => deals'[h].perms[i] = NoQuad
              /\ Sampled(h, i)' => /\ deals'[h].perms[i] # NoQuad
                                   /\ \E k \in 1 .. h - 1 : Sampler(k, i)'
  <2>1. \A k \in 1 .. g : Sampler(k, i)' <=> Sampler(k, i)
    BY <1>4, <1>6 DEF Sampler
  <2>2. h \in 1 .. g \/ h = g + 1
    BY <1>1, <1>2
  <2>3. CASE h \in 1 .. g
    <3>1. /\ ~Sampled(h, i) => deals[h].perms[i] = NoQuad
          /\ Sampled(h, i) => /\ deals[h].perms[i] # NoQuad
                              /\ \E k \in 1 .. h - 1 : Sampler(k, i)
      BY <2>3 DEF History, g
    <3>2. \A k \in 1 .. h - 1 : k \in 1 .. g
      BY <1>1, <2>3
    <3> QED
      BY <1>4, <1>6, <2>1, <2>3, <3>1, <3>2
  <2>4. CASE h = g + 1
    <3>1. g \in 1 .. g /\ \A k \in 1 .. g - 1 : k \in 1 .. g
      BY <1>1
    <3>2. /\ ~Sampled(g, i) => deals[g].perms[i] = NoQuad
          /\ Sampled(g, i) => /\ deals[g].perms[i] # NoQuad
                              /\ \E k \in 1 .. g - 1 : Sampler(k, i)
      BY <3>1 DEF History, g
    <3>3. /\ Sampled(g + 1, i) <=> Sampled(g, i) \/ Needs(g, i)
          /\ Needs(g, i) => e.perms[i] # NoQuad
          /\ ~Needs(g, i) => e.perms[i] = deals[g].perms[i]
      <4>1. g \in 1 .. Len(circ) /\ deals[g] \in Snapshot /\ HandledAs(g, deals[g], e, u)
        BY <1>1 DEF g
      <4> QED
        BY <4>1, SampledNext
    <3>4. ASSUME Sampled(g + 1, i)
          PROVE  \E k \in 1 .. g : Sampler(k, i)
      <4>1. CASE Sampled(g, i)
        BY <3>1, <3>2, <4>1
      <4>2. CASE ~Sampled(g, i)
        <5>1. Sampler(g, i)
          BY <3>2, <3>3, <3>4, <4>2 DEF Sampler
        <5> QED
          BY <3>1, <5>1
      <4> QED
        BY <4>1, <4>2
    <3>5. (g + 1) - 1 = g
      BY <1>1
    <3>6. /\ ~Sampled(g + 1, i) => e.perms[i] = NoQuad
          /\ Sampled(g + 1, i) => e.perms[i] # NoQuad
      <4>1. CASE Needs(g, i)
        BY <3>3, <4>1
      <4>2. CASE ~Needs(g, i)
        BY <3>2, <3>3, <4>2
      <4> QED
        BY <4>1, <4>2
    <3> QED
      BY <1>4, <1>6, <2>1, <2>4, <3>4, <3>5, <3>6
  <2> QED
    BY <2>2, <2>3, <2>4
<1> QED
  BY <1>7, <1>8, <1>10, <1>11 DEF History, Grown, Prefix

LEMMA HistoryFresh == pos[Dealer] = 1 /\ deals = <<Deal0>> => History
<1> SUFFICES ASSUME pos[Dealer] = 1, deals = <<Deal0>> PROVE History
  OBVIOUS
<1>1. \A g \in 1 .. 1 : g = 1
  OBVIOUS
<1>2. Grown(Deal0, Deal0)
  BY GrownSame, Deal0Type
<1>3. \A i \in Idx : ~Sampled(1, i) /\ Deal0.perms[i] = NoQuad
  <2>1. \A h \in 1 .. 1 - 1 : FALSE
    OBVIOUS
  <2> QED
    BY <2>1 DEF Sampled, Deal0
<1>4. deals[1] = Deal0 /\ \A g \in 1 .. 1 - 1 : FALSE
  OBVIOUS
<1> HIDE DEF Deal0
<1>5. \A h \in 1 .. 1 : \A g \in 1 .. h : g = 1 /\ h = 1
  OBVIOUS
<1> QED
  BY <1>1, <1>2, <1>3, <1>4, <1>5 DEF History

\* What a party does on its own touches nothing of the others.
LocalSame(q) ==
  /\ phase'[q] = phase[q] /\ pos'[q] = pos[q] /\ spos'[q] = spos[q]
  /\ turn'[q] = turn[q] /\ cur'[q] = cur[q] /\ buf'[q] = buf[q] /\ readIdx'[q] = readIdx[q]
  /\ out'[q] = out[q] /\ back'[q] = back[q] /\ prepared'[q] = prepared[q] /\ used'[q] = used[q]

LEMMA PartyKeeps ==
  ASSUME TInv, NEW p \in Party, PrepStep(p) \/ EvalStep(p)
  PROVE  /\ circ' = circ /\ rep' = rep /\ deals' = deals /\ dealt' = dealt
         /\ pos'[Dealer] = pos[Dealer]
         /\ \A q \in Party : q # p => LocalSame(q)
<1>1. /\ pos \in [Server -> Nat \ {0}] /\ phase \in [Server -> Phases]
      /\ spos \in [Party -> Nat \ {0}]
      /\ turn \in [Party -> Party] /\ cur \in [Party -> [Stream -> Nat]]
      /\ buf \in [Party -> Seq(Token)] /\ readIdx \in [Party -> Nat]
      /\ out \in [Party -> [Idx -> Token]] /\ back \in [Party -> [Idx -> Token]]
      /\ prepared \in [Party -> [Idx -> BOOLEAN]]
      /\ used \in [Party -> [DOMAIN circ -> Use]]
  BY TypeFacts
<1>2. \A q \in Party : q \in Server /\ q # Dealer
  BY PartyFacts
<1>3. Dealer \in Server
  BY PartyFacts
<1>4. \A q \in Party : q # p => AfterRead(p)[q] = readIdx[q]
  BY <1>1 DEF AfterRead
<1>5. ASSUME NEW types, Preparing(p, types)
      PROVE  /\ circ' = circ /\ rep' = rep /\ deals' = deals /\ dealt' = dealt
             /\ pos'[Dealer] = pos[Dealer] /\ phase' = phase /\ spos' = spos /\ buf' = buf
             /\ \A q \in Party : q # p => pos'[q] = pos[q]
  BY <1>1, <1>2, <1>3, <1>5 DEF Preparing
<1>6. ASSUME NEW types, Sending(p, types)
      PROVE  /\ circ' = circ /\ rep' = rep /\ deals' = deals /\ dealt' = dealt /\ pos' = pos
             /\ phase' = phase /\ turn' = turn /\ buf' = buf /\ readIdx' = readIdx
             /\ back' = back /\ prepared' = prepared
             /\ \A q \in Party : q # p => spos'[q] = spos[q]
  BY <1>1, <1>6 DEF Sending
<1>7. ASSUME NEW types, Receiving(p, types)
      PROVE  /\ circ' = circ /\ rep' = rep /\ deals' = deals /\ dealt' = dealt
             /\ pos'[Dealer] = pos[Dealer] /\ phase' = phase /\ spos' = spos
             /\ turn' = turn /\ buf' = buf /\ out' = out /\ prepared' = prepared
             /\ \A q \in Party : q # p => pos'[q] = pos[q]
  BY <1>1, <1>2, <1>3, <1>7 DEF Receiving
<1>8. CASE ReceiveSeeds(p)
  BY <1>1, <1>2, <1>3, <1>8 DEF ReceiveSeeds, LocalSame
<1>9. CASE PrepShuffle(p)
  <2>1. Preparing(p, {"Shuffle"}) /\ cur' = cur /\ used' = used
    BY <1>9 DEF PrepShuffle
  <2>2. \A q \in Party : q # p => /\ turn'[q] = turn[q] /\ prepared'[q] = prepared[q]
                                  /\ readIdx'[q] = readIdx[q]
    BY <1>1, <1>4, <1>9 DEF PrepShuffle
  <2>3. \A q \in Party : q # p => out'[q] = out[q] /\ back'[q] = back[q]
    BY <1>1, <1>9 DEF PrepShuffle
  <2> QED
    BY <1>5, <2>1, <2>2, <2>3 DEF LocalSame
<1>10. CASE PrepMergedShuffle(p)
  <2>1. Preparing(p, {"MergedShuffle"}) /\ cur' = cur /\ used' = used /\ turn' = turn /\ back' = back
    BY <1>10 DEF PrepMergedShuffle
  <2>2. \A q \in Party : q # p => /\ prepared'[q] = prepared[q]
                                  /\ readIdx'[q] = readIdx[q] /\ out'[q] = out[q]
    BY <1>1, <1>4, <1>10 DEF PrepMergedShuffle
  <2> QED
    BY <1>5, <2>1, <2>2 DEF LocalSame
<1>11. CASE PrepTriple(p)
  <2>1. Preparing(p, {"MulSIMD"}) /\ out' = out /\ back' = back /\ prepared' = prepared
    BY <1>11 DEF PrepTriple
  <2>2. \A q \in Party : q # p => /\ turn'[q] = turn[q] /\ readIdx'[q] = readIdx[q]
    BY <1>1, <1>4, <1>11 DEF PrepTriple
  <2>3. \A q \in Party : q # p => /\ cur'[q] = cur[q] /\ used'[q] = used[q]
    BY <1>1, <1>11 DEF PrepTriple
  <2> QED
    BY <1>5, <2>1, <2>2, <2>3 DEF LocalSame
<1>12. CASE PrepNothing(p)
  BY <1>5, <1>12 DEF PrepNothing, LocalSame
<1>13. CASE PrepDone(p)
  BY <1>1, <1>2, <1>3, <1>13 DEF PrepDone, partyVars, LocalSame
<1>14. CASE SendShuffle(p)
  <2>1. Sending(p, PermGate)
    BY <1>14 DEF SendShuffle
  <2>2. \A q \in Party : q # p => cur'[q] = cur[q] /\ out'[q] = out[q] /\ used'[q] = used[q]
    BY <1>1, <1>14 DEF SendShuffle
  <2> QED
    BY <1>6, <2>1, <2>2 DEF LocalSame
<1>15. CASE SendUnshuffle(p)
  <2>1. Sending(p, {"Unshuffle"}) /\ out' = out
    BY <1>15 DEF SendUnshuffle
  <2>2. \A q \in Party : q # p => cur'[q] = cur[q] /\ used'[q] = used[q]
    BY <1>1, <1>15 DEF SendUnshuffle
  <2> QED
    BY <1>6, <2>1, <2>2 DEF LocalSame
<1>16. CASE SendOther(p)
  BY <1>6, <1>16 DEF SendOther, LocalSame
<1>17. CASE SendLevel(p)
  <2>1. \A q \in Party : q # p => phase'[q] = phase[q]
    BY <1>1, <1>2, <1>17 DEF SendLevel
  <2> QED
    BY <1>17, <2>1 DEF SendLevel, LocalSame
<1>18. CASE ReceiveLevel(p)
  BY <1>1, <1>2, <1>18 DEF ReceiveLevel, LocalSame
<1>19. CASE RecvShuffle(p)
  <2>1. Receiving(p, PermGate) /\ readIdx' = AfterRead(p)
    BY <1>19 DEF RecvShuffle
  <2>2. \A q \in Party : q # p => cur'[q] = cur[q] /\ back'[q] = back[q] /\ used'[q] = used[q]
    BY <1>1, <1>19 DEF RecvShuffle
  <2> QED
    BY <1>4, <1>7, <2>1, <2>2 DEF LocalSame
<1>20. CASE RecvUnshuffle(p)
  <2>1. Receiving(p, {"Unshuffle"}) /\ readIdx' = AfterRead(p) /\ cur' = cur /\ back' = back
    BY <1>20 DEF RecvUnshuffle
  <2>2. \A q \in Party : q # p => used'[q] = used[q]
    BY <1>1, <1>20 DEF RecvUnshuffle
  <2> QED
    BY <1>4, <1>7, <2>1, <2>2 DEF LocalSame
<1>21. CASE RecvSetConstVec(p)
  <2>1. Receiving(p, {"SetConstVecSIMD"}) /\ readIdx' = readIdx /\ back' = back
    BY <1>21 DEF RecvSetConstVec
  <2>2. \A q \in Party : q # p => cur'[q] = cur[q] /\ used'[q] = used[q]
    BY <1>1, <1>21 DEF RecvSetConstVec
  <2> QED
    BY <1>7, <2>1, <2>2 DEF LocalSame
<1>22. CASE RecvTriple(p)
  BY <1>7, <1>22 DEF RecvTriple, LocalSame
<1>23. CASE LayerDone(p)
  BY <1>1, <1>2, <1>23 DEF LayerDone, partyVars, LocalSame
<1> QED
  BY <1>8, <1>9, <1>10, <1>11, <1>12, <1>13, <1>14, <1>15, <1>16, <1>17, <1>18, <1>19, <1>20,
     <1>21, <1>22, <1>23 DEF PrepStep, EvalStep

LEMMA HistoryStep == TInv /\ History /\ [Next]_vars => History'
<1> SUFFICES ASSUME TInv, History, [Next]_vars PROVE History'
  OBVIOUS
<1>1. CASE DealerStep
  <2>1. ASSUME NEW p \in Party, DealerSends(p)
        PROVE  History'
    BY <2>1, HistorySame DEF DealerSends
  <2>2. CASE ~ (\E p \in Party : DealerSends(p))
    <3>1. PICK types, e, u : /\ Dealing(types) /\ DealAs(pos[Dealer], e, u)
                             /\ e \in Snapshot
                             /\ HandledAs(pos[Dealer], deals[pos[Dealer]], e, u)
      BY <1>1, <2>2, DealHandled
    <3> QED
      BY <3>1, HistoryDeal
  <2> QED
    BY <2>1, <2>2
<1>2. ASSUME NEW p \in Party, PrepStep(p) \/ EvalStep(p)
      PROVE  History'
  <2>1. /\ circ' = circ /\ rep' = rep /\ deals' = deals /\ dealt' = dealt
        /\ pos'[Dealer] = pos[Dealer]
    BY <1>2, PartyKeeps
  <2> QED
    BY <2>1, HistorySame
<1>3. ASSUME NEW s \in Server, Reset(s)
      PROVE  History'
  BY <1>3, HistorySame DEF Reset
<1>4. CASE StartOnline
  <2>1. pos'[Dealer] = pos[Dealer]
    BY <1>4, TypeFacts, PartyFacts DEF StartOnline
  <2> QED
    BY <1>4, <2>1, HistorySame DEF StartOnline
<1>5. CASE NextRep
  <2>1. pos'[Dealer] = 1 /\ deals' = <<Deal0>>
    BY <1>5, PartyFacts DEF NextRep
  <2>2. (pos[Dealer] = 1 /\ deals = <<Deal0>>)' => History'
    BY HistoryFresh, PTL
  <2> QED
    BY <2>1, <2>2
<1>6. CASE UNCHANGED vars
  BY <1>6, HistorySame DEF vars
<1> QED
  BY <1>1, <1>2, <1>3, <1>4, <1>5, <1>6 DEF Next, ServerStep, Terminated

LEMMA HistoryInit == Init => History
<1>1. Init => pos[Dealer] = 1 /\ deals = <<Deal0>>
  BY PartyFacts DEF Init
<1> QED
  BY <1>1, HistoryFresh

------------------------------------------------------------------------------
(* A party's place in the list and in the generators *)

\* What the dealer gave, and what of a table's entry came with the list; the
\* rest is drawn when it is first needed.
End == deals[Len(circ) + 1]
Known(t) == IF t.by = "perm" THEN t ELSE NoToken
Seen(final, now) == IF final.by = "perm" THEN final ELSE now

\* read_idx after k reads of a list of that length.
Wrapped(k, len) == IF k >= len THEN 0 ELSE k

\* The position in rng_01 before gate g.
Consts(g) == {h \in 1 .. g - 1 : circ[h].type = "SetConstVecSIMD"}
ConstAt(g) == VecSize * Cardinality(Consts(g))

IsIdle(p) ==
  phase[p] \in {"wait", "seeded", "reset"} =>
    /\ readIdx[p] = 0
    /\ \A i \in Idx : out[p][i] = NoToken /\ back[p][i] = NoToken /\ ~prepared[p][i]

GotList(p) == phase[p] \in Offline \cup Online => buf[p] = End.pre[p] \o End.B[p]

\* A party that prepares gate g has read and drawn what the dealer had given
\* and drawn before g.
Prepares(p) ==
  LET d == deals[pos[p]] IN
  phase[p] \in {"prep", "ready"} =>
    /\ cur[p]["send"] = 0 /\ cur[p]["recv"] = 0 /\ cur[p]["rng01"] = 0
    /\ cur[p]["prep"] = d.cur[p].prep
    /\ turn[p] = d.turn
    /\ readIdx[p] = Wrapped(Len(d.pre[p]), Len(buf[p]))
    /\ \A i \in Idx : /\ prepared[p][i] <=> d.perms[i] # NoQuad
                      /\ out[p][i] = Known(d.perms[i].out[p])
                      /\ back[p][i] = Known(d.perms[i].back[p])

\* One that evaluates follows the dealer with two walks through the circuit,
\* one for what it sends and one for what it receives.
Evaluates(p) ==
  LET s == deals[spos[p]]
      r == deals[pos[p]]
  IN
  phase[p] \in Online =>
    /\ cur[p]["send"] = s.cur[p].send
    /\ cur[p]["recv"] = r.cur[p].recv
    /\ cur[p]["rng01"] = ConstAt(pos[p])
    /\ readIdx[p] = Wrapped(Len(End.pre[p]) + Len(r.B[p]), Len(buf[p]))
    /\ \A i \in Idx : /\ out[p][i] = Seen(End.perms[i].out[p], s.perms[i].out[p])
                      /\ back[p][i] = Seen(End.perms[i].back[p], r.perms[i].back[p])

\* What it has used so far.
PreparedFor(p, g) == phase[p] \in {"ready"} \cup Over \/ (phase[p] = "prep" /\ g < pos[p])
SentFor(p, g) == phase[p] \in Over /\ g < spos[p]
Half(u) == [R |-> u.R, send |-> u.send, recv |-> NoToken, B |-> NoToken]
Mask(g) == [R |-> Draw(P0, "rng01", ConstAt(g), VecSize), send |-> NoToken,
            recv |-> NoToken, B |-> NoToken]

UsedFor(p, g) ==
  /\ circ[g].type = "MulSIMD" =>
       used[p][g] = IF PreparedFor(p, g) THEN dealt[g][p] ELSE NoUse
  /\ circ[g].type = "SetConstVecSIMD" =>
       used[p][g] = IF Evaluated(p, g) THEN Mask(g) ELSE NoUse
  /\ circ[g].type \in PermGate \cup {"Unshuffle"} =>
       used[p][g] = IF Evaluated(p, g) THEN dealt[g][p]
                    ELSE IF SentFor(p, g) THEN Half(dealt[g][p]) ELSE NoUse

UsedSoFar(p) == \A g \in 1 .. Len(circ) : UsedFor(p, g)

PartyInv(p) ==
  /\ IsIdle(p) /\ GotList(p) /\ Prepares(p) /\ Evaluates(p) /\ UsedSoFar(p)

Inv ==
  /\ ControlInv
  /\ History
  /\ \A p \in Party : PartyInv(p)

------------------------------------------------------------------------------
(* Reading the dealer's history *)

LEMMA EndFacts ==
  ASSUME ControlInv, History, NEW p \in Party, phase[p] \in Offline \cup Over
  PROVE  /\ pos[Dealer] = Len(circ) + 1 /\ Len(circ) \in Nat \ {0}
         /\ End \in Snapshot
         /\ \A g \in 1 .. Len(circ) + 1 : deals[g] \in Snapshot /\ Grown(deals[g], End)
         /\ \A g \in 1 .. Len(circ) : HandledAs(g, deals[g], deals[g + 1], dealt[g])
<1>1. pos[Dealer] = Len(circ) + 1
  <2>1. phase[p] # "wait"
    BY DEF Offline, Over, Online
  <2> QED
    BY <2>1 DEF ControlInv, Together
<1>2. Len(circ) \in Nat \ {0} /\ \A g \in 1 .. Len(circ) + 1 : deals[g] \in Snapshot
  BY <1>1, DealsFacts DEF ControlInv
<1>3. Len(circ) + 1 \in 1 .. Len(circ) + 1 /\ (Len(circ) + 1) - 1 = Len(circ)
  BY <1>2
<1> QED
  BY <1>1, <1>2, <1>3 DEF History, End

LEMMA GateSteps ==
  ASSUME ControlInv, History, NEW p \in Party, phase[p] \in Offline \cup Over,
         NEW g \in 1 .. Len(circ)
  PROVE  /\ g + 1 \in 1 .. Len(circ) + 1 /\ g \in 1 .. Len(circ) + 1
         /\ deals[g] \in Snapshot /\ deals[g + 1] \in Snapshot
         /\ HandledAs(g, deals[g], deals[g + 1], dealt[g])
         /\ Grown(deals[g], End) /\ Grown(deals[g + 1], End)
<1>1. g + 1 \in 1 .. Len(circ) + 1 /\ g \in 1 .. Len(circ) + 1
  BY EndFacts
<1> QED
  BY <1>1, EndFacts

\* Once sampled, both permutations of an id are there.
LEMMA Sampling ==
  ASSUME TInv, History, NEW p \in Party, NEW h \in 1 .. pos[Dealer] - 1, NEW i \in Idx,
         Sampler(h, i)
  PROVE  LET d == deals[h]
             q == deals[h + 1].perms[i]
         IN /\ d \in Snapshot /\ deals[h + 1] \in Snapshot
            /\ q.out[p] = IF MadeOut(p, h, d) THEN Made("perm", p, h, VecSize)
                          ELSE Draw(p, "send", d.cur[p].send + VecSize, VecSize)
            /\ q.back[p] = IF MadeBack(p, h, d) THEN Made("perm", p, h, VecSize)
                           ELSE Draw(p, "recv", d.cur[p].recv, VecSize)
            /\ deals[h + 1].cur[p].send = IF MadeOut(p, h, d) THEN d.cur[p].send + VecSize
                                          ELSE d.cur[p].send + VecSize + VecSize
            /\ deals[h + 1].cur[p].recv = IF MadeBack(p, h, d) THEN d.cur[p].recv
                                          ELSE d.cur[p].recv + VecSize
            /\ q # NoQuad
            /\ q.out[p].by \in {"perm", "send"} /\ q.back[p].by \in {"perm", "recv"}
<1>1. h \in 1 .. pos[Dealer] /\ h + 1 \in 1 .. pos[Dealer]
      /\ deals[h] \in Snapshot /\ deals[h + 1] \in Snapshot
  <2>1. pos[Dealer] \in Nat
    BY DealsFacts
  <2>2. h \in 1 .. pos[Dealer] /\ h + 1 \in 1 .. pos[Dealer]
    BY <2>1
  <2> QED
    BY <2>2, DealsFacts
<1>2. HandledAs(h, deals[h], deals[h + 1], dealt[h])
  BY DEF History
<1>3. circ[h].type \in PermGate /\ circ[h].idx = i /\ deals[h].perms[i] = NoQuad
  BY DEF Sampler, Needs
<1>4. PermDealt(p, h, deals[h], deals[h + 1], dealt[h][p])
  BY <1>2, <1>3 DEF HandledAs
<1> DEFINE d == deals[h]
           q == deals[h + 1].perms[i]
<1>5. /\ q.out[p] = IF MadeOut(p, h, d) THEN Made("perm", p, h, VecSize)
                    ELSE Draw(p, "send", d.cur[p].send + VecSize, VecSize)
      /\ q.back[p] = IF MadeBack(p, h, d) THEN Made("perm", p, h, VecSize)
                     ELSE Draw(p, "recv", d.cur[p].recv, VecSize)
      /\ deals[h + 1].cur[p].send = IF MadeOut(p, h, d) THEN d.cur[p].send + VecSize
                                    ELSE d.cur[p].send + VecSize + VecSize
      /\ deals[h + 1].cur[p].recv = IF MadeBack(p, h, d) THEN d.cur[p].recv
                                    ELSE d.cur[p].recv + VecSize
  BY <1>3, <1>4 DEF PermDealt
<1>6. q.out[p].by \in {"perm", "send"} /\ q.back[p].by \in {"perm", "recv"}
  BY <1>5 DEF Made, Draw
<1>7. NoQuad.out[p].by = "none"
  BY DEF NoQuad, NoTokens, NoToken
<1>8. q # NoQuad
  BY <1>6, <1>7
<1> QED
  BY <1>1, <1>5, <1>6, <1>8

LEMMA Quads ==
  ASSUME TInv, History, NEW p \in Party, NEW g \in 1 .. pos[Dealer], NEW i \in Idx
  PROVE  /\ ~Sampled(g, i) <=> deals[g].perms[i] = NoQuad
         /\ Sampled(g, i) =>
              /\ deals[g].perms[i].out[p].by \in {"perm", "send"}
              /\ deals[g].perms[i].back[p].by \in {"perm", "recv"}
         /\ NoQuad.out[p] = NoToken /\ NoQuad.back[p] = NoToken /\ NoToken.by = "none"
<1>1. ~Sampled(g, i) <=> deals[g].perms[i] = NoQuad
  BY DEF History
<1>2. ASSUME Sampled(g, i)
      PROVE  /\ deals[g].perms[i].out[p].by \in {"perm", "send"}
             /\ deals[g].perms[i].back[p].by \in {"perm", "recv"}
  <2>1. PICK h \in 1 .. g - 1 : Sampler(h, i)
    BY <1>2 DEF History
  <2>2. h \in 1 .. pos[Dealer] - 1 /\ h + 1 \in 1 .. g
    BY DealsFacts
  <2>3. Grown(deals[h + 1], deals[g])
    BY <2>2 DEF History
  <2>4. /\ deals[h + 1].perms[i] # NoQuad
        /\ deals[h + 1].perms[i].out[p].by \in {"perm", "send"}
        /\ deals[h + 1].perms[i].back[p].by \in {"perm", "recv"}
    BY <2>1, <2>2, Sampling
  <2> QED
    BY <2>3, <2>4 DEF Grown
<1>3. NoQuad.out[p] = NoToken /\ NoQuad.back[p] = NoToken /\ NoToken.by = "none"
  BY DEF NoQuad, NoTokens, NoToken
<1> QED
  BY <1>1, <1>2, <1>3

\* The permutations of a shuffle gate, before it, after it and in the end.
LEMMA PermGateFacts ==
  ASSUME ControlInv, History, NEW p \in Party, phase[p] \in Offline \cup Over,
         NEW g \in 1 .. Len(circ), circ[g].type \in PermGate
  PROVE  LET i == circ[g].idx
             d == deals[g]
             e == deals[g + 1]
         IN /\ i \in Idx /\ PermDealt(p, g, d, e, dealt[g][p])
            /\ \A j \in Idx : j # i => e.perms[j] = d.perms[j]
            /\ End.perms[i] = e.perms[i] /\ e.perms[i] # NoQuad
            /\ e.perms[i].out[p].by \in {"perm", "send"}
            /\ e.perms[i].back[p].by \in {"perm", "recv"}
            /\ d.perms[i] # NoQuad => e.perms[i] = d.perms[i]
<1> DEFINE i == circ[g].idx
           d == deals[g]
           e == deals[g + 1]
<1>1. /\ TInv /\ pos[Dealer] = Len(circ) + 1
      /\ g + 1 \in 1 .. Len(circ) + 1
      /\ HandledAs(g, d, e, dealt[g])
      /\ Grown(d, End) /\ Grown(e, End) /\ d \in Snapshot /\ e \in Snapshot
  BY EndFacts, GateSteps DEF ControlInv
<1>2. i \in Idx /\ Needs(g, i)
  BY <1>1, GateAt DEF Needs
<1>3. Sampled(g + 1, i)
  BY <1>1, <1>2, SampledNext
<1>4. PermDealt(p, g, d, e, dealt[g][p]) /\ \A j \in Idx : j # i \/ d.perms[j] # NoQuad => e.perms[j] = d.perms[j]
  BY <1>1 DEF HandledAs
<1>5. /\ e.perms[i] # NoQuad
      /\ e.perms[i].out[p].by \in {"perm", "send"}
      /\ e.perms[i].back[p].by \in {"perm", "recv"}
  BY <1>1, <1>2, <1>3, Quads
<1>6. End.perms[i] = e.perms[i]
  BY <1>1, <1>2, <1>5 DEF Grown
<1> QED
  BY <1>2, <1>4, <1>5, <1>6

\* An Unshuffle finds a pair of permutations that stays as it is.
LEMMA UnshuffleFacts ==
  ASSUME ControlInv, History, NEW p \in Party, phase[p] \in Offline \cup Over,
         NEW g \in 1 .. Len(circ), circ[g].type = "Unshuffle"
  PROVE  LET i == circ[g].idx IN
         /\ i \in Idx /\ UnshuffleDealt(p, g, deals[g], deals[g + 1], dealt[g][p])
         /\ deals[g + 1].perms = deals[g].perms
         /\ \A b \in 1 .. g : circ[b].level = circ[g].level =>
              /\ deals[b].perms[i] = End.perms[i]
              /\ deals[b].perms[i].out[p].by \in {"perm", "send"}
              /\ deals[b].perms[i].back[p].by \in {"perm", "recv"}
         /\ deals[g].perms[i] = End.perms[i]
         /\ deals[g].perms[i].out[p].by \in {"perm", "send"}
         /\ deals[g].perms[i].back[p].by \in {"perm", "recv"}
<1> DEFINE i == circ[g].idx
<1>1. /\ TInv /\ pos[Dealer] = Len(circ) + 1 /\ Len(circ) \in Nat
      /\ HandledAs(g, deals[g], deals[g + 1], dealt[g])
  BY EndFacts, GateSteps DEF ControlInv
<1>2. i \in Idx
  BY <1>1, GateAt
<1>3. /\ UnshuffleDealt(p, g, deals[g], deals[g + 1], dealt[g][p])
      /\ deals[g + 1].perms = deals[g].perms
  BY <1>1 DEF HandledAs
<1>4. PICK h \in 1 .. Len(circ) : /\ circ[h].level < circ[g].level
                                  /\ circ[h].type = "Shuffle" /\ circ[h].idx = i
  <2>1. Dealable(circ) /\ DOMAIN circ = 1 .. Len(circ)
    BY <1>1, CircuitFacts, CorrelationAssumption DEF WellFormed
  <2> QED
    BY <2>1 DEF Dealable
<1>5. ASSUME NEW b \in 1 .. g, h < b
      PROVE  /\ deals[b].perms[i] = End.perms[i]
             /\ deals[b].perms[i].out[p].by \in {"perm", "send"}
             /\ deals[b].perms[i].back[p].by \in {"perm", "recv"}
  <2>1. b \in 1 .. Len(circ) + 1 /\ h \in 1 .. b - 1
    BY <1>1, <1>5
  <2>2. Sampled(b, i)
    BY <1>4, <2>1 DEF Sampled, Needs, PermGate
  <2>3. Grown(deals[b], End)
    BY <2>1, EndFacts
  <2>4. /\ deals[b].perms[i] # NoQuad
        /\ deals[b].perms[i].out[p].by \in {"perm", "send"}
        /\ deals[b].perms[i].back[p].by \in {"perm", "recv"}
    BY <1>1, <1>2, <2>1, <2>2, Quads
  <2> QED
    BY <1>2, <2>3, <2>4 DEF Grown
<1>6. /\ circ[h].level \in Nat /\ circ[g].level \in Nat
      /\ \A k \in 1 .. Len(circ) : k <= h => circ[k].level <= circ[h].level
      /\ \A k \in 1 .. Len(circ) : circ[k].level \in Nat
  BY <1>1, CircuitFacts
<1>7. h < g
  <2> SUFFICES ASSUME g <= h PROVE FALSE
    BY <1>1
  <2> QED
    BY <1>4, <1>6
<1>8. ASSUME NEW b \in 1 .. g, circ[b].level = circ[g].level
      PROVE  h < b
  <2> SUFFICES ASSUME b <= h PROVE FALSE
    BY <1>1
  <2>1. b \in 1 .. Len(circ)
    BY <1>1
  <2> QED
    BY <1>4, <1>6, <1>7, <1>8, <2>1
<1>9. g \in 1 .. g
  BY <1>1
<1> QED
  BY <1>2, <1>3, <1>5, <1>7, <1>8, <1>9

------------------------------------------------------------------------------
(* Reading the list *)

LEMMA ItemAt ==
  ASSUME TInv, NEW p \in Party, NEW k \in Nat, k < Len(buf[p]),
         readIdx[p] = Wrapped(k, Len(buf[p]))
  PROVE  /\ HasItem(p) /\ Item(p) = buf[p][k + 1]
         /\ AfterRead(p)[p] = Wrapped(k + 1, Len(buf[p]))
<1>1. buf[p] \in Seq(Token) /\ Len(buf[p]) \in Nat /\ readIdx \in [Party -> Nat]
  BY TypeFacts
<1>2. readIdx[p] = k
  BY <1>1 DEF Wrapped
<1>3. AfterRead(p)[p] = IF readIdx[p] + 1 >= Len(buf[p]) THEN 0 ELSE readIdx[p] + 1
  BY <1>1 DEF AfterRead
<1> QED
  BY <1>2, <1>3 DEF HasItem, Item, Wrapped

\* The item that the dealer put in the first part of the list for a gate,
LEMMA ReadPre ==
  ASSUME ControlInv, NEW p \in Party, GotList(p), phase[p] \in Offline \cup Online,
         NEW d \in Snapshot, NEW e \in Snapshot, End \in Snapshot, Grown(e, End),
         NEW t \in Token, e.pre[p] = Append(d.pre[p], t),
         readIdx[p] = Wrapped(Len(d.pre[p]), Len(buf[p]))
  PROVE  HasItem(p) /\ Item(p) = t /\ AfterRead(p)[p] = Wrapped(Len(e.pre[p]), Len(buf[p]))
<1> DEFINE s == d.pre[p]
           m == Len(End.pre[p])
           k == Len(s)
<1>1. s \in Seq(Token) /\ End.pre[p] \in Seq(Token) /\ End.B[p] \in Seq(Token)
  BY SnapshotFacts
<1>2. k \in Nat /\ Len(e.pre[p]) = k + 1 /\ e.pre[p][k + 1] = t /\ m \in Nat
  BY <1>1
<1>3. Len(e.pre[p]) <= Len(End.pre[p]) /\ \A j \in 1 .. Len(e.pre[p]) : End.pre[p][j] = e.pre[p][j]
  BY DEF Grown, Prefix
<1> HIDE DEF k, s
<1>4. buf[p] = End.pre[p] \o End.B[p]
  BY DEF GotList
<1>5. k < Len(buf[p]) /\ buf[p][k + 1] = t
  <2>1. k + 1 \in 1 .. m /\ End.pre[p][k + 1] = t
    BY <1>2, <1>3
  <2>2. Len(buf[p]) = m + Len(End.B[p]) /\ Len(End.B[p]) \in Nat
    BY <1>1, <1>4
  <2>3. buf[p][k + 1] = End.pre[p][k + 1]
    BY <1>1, <1>4, <2>1
  <2>4. k \in Nat /\ m \in Nat
    BY <1>2
  <2> HIDE DEF m
  <2>5. k < Len(buf[p])
    BY <2>1, <2>2, <2>4
  <2> QED
    BY <2>1, <2>3, <2>5
<1>6. TInv /\ readIdx[p] = Wrapped(k, Len(buf[p]))
  BY DEF ControlInv, k, s
<1> QED
  BY <1>2, <1>5, <1>6, ItemAt

\* and in the second part.
LEMMA ReadB ==
  ASSUME ControlInv, NEW p \in Party, GotList(p), phase[p] \in Offline \cup Online,
         NEW d \in Snapshot, NEW e \in Snapshot, End \in Snapshot, Grown(e, End),
         NEW t \in Token, e.B[p] = Append(d.B[p], t),
         readIdx[p] = Wrapped(Len(End.pre[p]) + Len(d.B[p]), Len(buf[p]))
  PROVE  /\ HasItem(p) /\ Item(p) = t
         /\ AfterRead(p)[p] = Wrapped(Len(End.pre[p]) + Len(e.B[p]), Len(buf[p]))
<1> DEFINE s == d.B[p]
           m == Len(End.pre[p])
           k == Len(s)
<1>1. s \in Seq(Token) /\ End.pre[p] \in Seq(Token) /\ End.B[p] \in Seq(Token)
  BY SnapshotFacts
<1>2. k \in Nat /\ Len(e.B[p]) = k + 1 /\ e.B[p][k + 1] = t /\ m \in Nat
  BY <1>1
<1>3. Len(e.B[p]) <= Len(End.B[p]) /\ \A j \in 1 .. Len(e.B[p]) : End.B[p][j] = e.B[p][j]
  BY DEF Grown, Prefix
<1> HIDE DEF k, s
<1>4. buf[p] = End.pre[p] \o End.B[p]
  BY DEF GotList
<1>5. m + k < Len(buf[p]) /\ buf[p][m + k + 1] = t
  <2>1. k + 1 \in 1 .. Len(End.B[p]) /\ End.B[p][k + 1] = t
    <3>1. Len(End.B[p]) \in Nat
      BY <1>1
    <3> QED
      BY <1>2, <1>3, <3>1
  <2>2. Len(buf[p]) = m + Len(End.B[p]) /\ Len(End.B[p]) \in Nat
    BY <1>1, <1>4
  <2>3. buf[p][m + (k + 1)] = End.B[p][k + 1]
    <3> DEFINE S == End.pre[p]
               T == End.B[p]
               j == k + 1
    <3>1. S \in Seq(Token) /\ T \in Seq(Token) /\ j \in 1 .. Len(T) /\ buf[p] = S \o T
      BY <1>1, <1>4, <2>1
    <3> HIDE DEF S, T, j
    <3>2. (S \o T)[Len(S) + j] = T[j]
      BY <3>1
    <3> QED
      BY <3>1, <3>2 DEF S, T, j
  <2>4. m \in Nat /\ k \in Nat
    BY <1>2
  <2> HIDE DEF m
  <2>5. m + (k + 1) = m + k + 1
    BY <2>4
  <2>6. m + k < Len(buf[p])
    BY <2>1, <2>2, <2>4
  <2> QED
    BY <2>1, <2>3, <2>5, <2>6
<1>6. TInv /\ readIdx[p] = Wrapped(m + k, Len(buf[p]))
  BY DEF ControlInv, k, s
<1> HIDE DEF m
<1>7. m + k \in Nat /\ m + k + 1 = m + Len(e.B[p])
  BY <1>2
<1>8. HasItem(p) /\ Item(p) = buf[p][m + k + 1] /\ AfterRead(p)[p] = Wrapped(m + k + 1, Len(buf[p]))
  BY <1>5, <1>6, <1>7, ItemAt
<1> QED
  BY <1>5, <1>7, <1>8 DEF m

\* One constant more.
LEMMA ConstNext ==
  ASSUME TInv
  PROVE  /\ ConstAt(1) = 0
         /\ \A g \in 1 .. Len(circ) :
              /\ ConstAt(g) \in Nat
              /\ ConstAt(g + 1) = IF circ[g].type = "SetConstVecSIMD" THEN ConstAt(g) + VecSize
                                                                     ELSE ConstAt(g)
<1>1. VecSize \in Nat
  BY TypeFacts
<1>2. ConstAt(1) = 0
  <2>1. Consts(1) = {}
    BY DEF Consts
  <2>2. Cardinality({}) = 0
    BY FS_EmptySet
  <2> QED
    BY <1>1, <2>1, <2>2 DEF ConstAt
<1>3. ASSUME NEW g \in 1 .. Len(circ)
      PROVE  /\ ConstAt(g) \in Nat
             /\ ConstAt(g + 1) = IF circ[g].type = "SetConstVecSIMD" THEN ConstAt(g) + VecSize
                                                                    ELSE ConstAt(g)
  <2>1. g \in Nat \ {0}
    BY GateAt
  <2>2. IsFiniteSet(Consts(g))
    <3>1. IsFiniteSet(1 .. g - 1)
      BY <2>1, FS_Interval
    <3> QED
      BY <3>1, FS_Subset DEF Consts
  <2>3. Cardinality(Consts(g)) \in Nat
    BY <2>2, FS_CardinalityType
  <2>4. \A h : h \in 1 .. (g + 1) - 1 <=> h \in 1 .. g - 1 \/ h = g
    BY <2>1
  <2>5. CASE circ[g].type = "SetConstVecSIMD"
    <3>1. Consts(g + 1) = Consts(g) \cup {g}
      BY <2>4, <2>5 DEF Consts
    <3>2. g \notin Consts(g)
      BY <2>1 DEF Consts
    <3>3. Cardinality(Consts(g + 1)) = Cardinality(Consts(g)) + 1
      BY <2>2, <3>1, <3>2, FS_AddElement
    <3> DEFINE c == Cardinality(Consts(g))
    <3>4. c \in Nat /\ ConstAt(g + 1) = VecSize * (c + 1) /\ ConstAt(g) = VecSize * c
      BY <2>3, <3>3 DEF ConstAt
    <3> HIDE DEF c
    <3>5. VecSize * (c + 1) = VecSize * c + VecSize /\ VecSize * c \in Nat
      BY <1>1, <3>4
    <3> QED
      BY <2>5, <3>4, <3>5
  <2>6. CASE circ[g].type # "SetConstVecSIMD"
    <3>1. Consts(g + 1) = Consts(g)
      BY <2>4, <2>6 DEF Consts
    <3> DEFINE c == Cardinality(Consts(g))
    <3>2. c \in Nat /\ ConstAt(g + 1) = VecSize * c /\ ConstAt(g) = VecSize * c
      BY <2>3, <3>1 DEF ConstAt
    <3> HIDE DEF c
    <3>3. VecSize * c \in Nat
      BY <1>1, <3>2
    <3> QED
      BY <2>6, <3>2, <3>3
  <2> QED
    BY <2>5, <2>6
<1> QED
  BY <1>2, <1>3

------------------------------------------------------------------------------
(* What the steps of the others leave as it is *)

LEMMA PartySame ==
  ASSUME circ' = circ, rep' = rep, deals' = deals, dealt' = dealt, NEW q \in Party,
         LocalSame(q), PartyInv(q)
  PROVE  PartyInv(q)'
<1>1. /\ phase'[q] = phase[q] /\ pos'[q] = pos[q] /\ spos'[q] = spos[q]
      /\ turn'[q] = turn[q] /\ cur'[q] = cur[q] /\ buf'[q] = buf[q] /\ readIdx'[q] = readIdx[q]
      /\ out'[q] = out[q] /\ back'[q] = back[q] /\ prepared'[q] = prepared[q]
      /\ used'[q] = used[q]
  BY DEF LocalSame
<1>2. End' = End /\ \A g : ConstAt(g)' = ConstAt(g)
  BY DEF End, ConstAt, Consts
<1>3. IsIdle(q)'
  BY <1>1 DEF PartyInv, IsIdle
<1>4. GotList(q)'
  BY <1>1, <1>2 DEF PartyInv, GotList
<1>5. Prepares(q)'
  BY <1>1 DEF PartyInv, Prepares
<1>6. Evaluates(q)'
  BY <1>1, <1>2 DEF PartyInv, Evaluates
<1>7. UsedSoFar(q)'
  <2>1. \A g : /\ Mask(g)' = Mask(g) /\ (Evaluated(q, g)' <=> Evaluated(q, g))
               /\ (SentFor(q, g)' <=> SentFor(q, g)) /\ (PreparedFor(q, g)' <=> PreparedFor(q, g))
    BY <1>1, <1>2 DEF Mask, Draw, Evaluated, SentFor, PreparedFor
  <2> QED
    BY <1>1, <2>1 DEF PartyInv, UsedSoFar, UsedFor
<1> QED
  BY <1>3, <1>4, <1>5, <1>6, <1>7 DEF PartyInv

\* A party that waits for its seeds does not look at what the dealer does.
LEMMA WaitFacts ==
  ASSUME NEW q \in Party, phase[q] = "wait"
  PROVE  PartyInv(q) <=>
           /\ readIdx[q] = 0
           /\ \A i \in Idx : out[q][i] = NoToken /\ back[q][i] = NoToken /\ ~prepared[q][i]
           /\ \A g \in 1 .. Len(circ) :
                circ[g].type \in PermGate \cup {"Unshuffle", "MulSIMD", "SetConstVecSIMD"} =>
                  used[q][g] = NoUse
<1>1. /\ phase[q] \notin Offline \cup Online /\ phase[q] \notin {"prep", "ready"}
      /\ phase[q] \notin Online
      /\ \A g : ~Evaluated(q, g) /\ ~SentFor(q, g) /\ ~PreparedFor(q, g)
  BY DEF Offline, Online, Over, Evaluated, SentFor, PreparedFor
<1>2. GotList(q) /\ Prepares(q) /\ Evaluates(q)
  BY <1>1 DEF GotList, Prepares, Evaluates
<1>3. IsIdle(q) <=>
           /\ readIdx[q] = 0
           /\ \A i \in Idx : out[q][i] = NoToken /\ back[q][i] = NoToken /\ ~prepared[q][i]
  BY DEF IsIdle
<1>4. UsedSoFar(q) <=> \A g \in 1 .. Len(circ) :
                circ[g].type \in PermGate \cup {"Unshuffle", "MulSIMD", "SetConstVecSIMD"} =>
                  used[q][g] = NoUse
  BY <1>1 DEF UsedSoFar, UsedFor
<1> QED
  BY <1>2, <1>3, <1>4 DEF PartyInv
==============================================================================
