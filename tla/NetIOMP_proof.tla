---------------------------- MODULE NetIOMP_proof ----------------------------
(***************************************************************************)
(* NetIOMP::sync is a barrier, for every number of processes and syncs.    *)
(*                                                                         *)
(* The argument counts handshakes: on every connection the listener is at  *)
(* most one handshake ahead of the dialler and never behind it, and what   *)
(* one has sent and the other not read is in flight.                       *)
(***************************************************************************)
EXTENDS NetIOMP, TLAPS

\* Of the sync p is in, the handshake with q on s is done.
Past(p, q, s) ==
  main[p] = "in" /\ (q < syncAt[p].peer \/ (q = syncAt[p].peer /\ s < syncAt[p].sock))

\* All the handshakes of p with q on s, and the bytes a listener has sent.
Done(p, q, s) == left[p] + IF Past(p, q, s) THEN 1 ELSE 0
Opens(p, q, s) ==
  Done(p, q, s) + IF opened[p] /\ q = syncAt[p].peer /\ s = syncAt[p].sock THEN 1 ELSE 0

Where == \A p \in Proc :
           /\ main[p] = "in" => syncAt[p].peer \in Proc /\ syncAt[p].peer # p
           /\ entered[p] = left[p] + IF main[p] = "in" THEN 1 ELSE 0
           /\ opened[p] => AtListener(p)

Counts == \A p, q \in Proc : \A s \in Sock :
            p # q /\ Listens(p, q, s) =>
              /\ Opens(p, q, s) = Done(q, p, s) + wire[<<p, q, s>>]
              /\ Done(q, p, s) = Done(p, q, s) + wire[<<q, p, s>>]

NetInv == TypeOK /\ Where /\ Counts

LEMMA EntryType ==
  ASSUME NEW S, NEW T, NEW f \in [S -> T], NEW s, NEW v \in T
  PROVE  [f EXCEPT ![s] = v] \in [S -> T]
OBVIOUS

LEMMA FirstType ==
  ASSUME NEW p \in Proc
  PROVE  First(p) \in Position /\ First(p).peer \in Proc /\ First(p).peer # p
         /\ First(p).sock = 1 /\ \A q \in Proc : q < First(p).peer => q = p
BY NetAssumption DEF First, Position, Proc, Sock

LEMMA AfterType ==
  ASSUME NEW p \in Proc, NEW at \in Position, ~AtEnd(at)
  PROVE  /\ After(p, at) \in Position
         /\ at.peer # p /\ ~AtEnd(After(p, at)) =>
              After(p, at).peer \in Proc /\ After(p, at).peer # p
<1>1. at.peer \in Nat /\ at.peer < N /\ at.sock \in Sock /\ p \in Nat /\ p < N /\ N \in Nat
  BY NetAssumption DEF Position, AtEnd, Proc
<1>2. CASE at.sock = 1
  BY <1>1, <1>2 DEF After, Position, Sock, Proc, AtEnd
<1>3. CASE at.sock # 1
  BY <1>1, <1>3 DEF After, Position, Sock, Proc, AtEnd
<1> QED
  BY <1>2, <1>3

\* Which handshakes are behind After(p, at): those behind at, and at itself.
LEMMA AfterPast ==
  ASSUME NEW p \in Proc, NEW at \in Position, ~AtEnd(at), at.peer # p,
         NEW q \in Proc, q # p, NEW s \in Sock
  PROVE  LET nxt == After(p, at)
             was == q < at.peer \/ (q = at.peer /\ s < at.sock)
             is == q < nxt.peer \/ (q = nxt.peer /\ s < nxt.sock)
         IN  /\ is <=> was \/ (q = at.peer /\ s = at.sock)
             /\ ~(was /\ q = at.peer /\ s = at.sock)
             /\ AtEnd(nxt) => is
<1>1. /\ at.peer \in Nat /\ at.peer < N /\ at.sock \in {1, 2} /\ s \in {1, 2}
      /\ p \in Nat /\ q \in Nat /\ q < N /\ p < N /\ N \in Nat
  BY NetAssumption DEF Position, AtEnd, Proc, Sock
<1>2. CASE at.sock = 1
  BY <1>1, <1>2 DEF After, AtEnd
<1>3. CASE at.sock = 2
  BY <1>1, <1>3 DEF After, AtEnd
<1> QED
  BY <1>1, <1>2, <1>3

LEMMA InvInit == Init => NetInv
<1> SUFFICES ASSUME Init PROVE NetInv
  OBVIOUS
<1>1. TypeOK
  <2>1. \A p \in Proc : First(p) \in Position
    BY FirstType
  <2>2. 0 \in 0 .. Rounds
    BY NetAssumption
  <2> QED
    BY <2>1, <2>2 DEF Init, TypeOK
<1>2. Where
  BY DEF Init, Where
<1>3. Counts
  <2>1. ASSUME NEW p \in Proc, NEW q \in Proc, NEW s \in Sock
        PROVE  Done(p, q, s) = 0 /\ Opens(p, q, s) = 0 /\ wire[<<p, q, s>>] = 0
    BY DEF Init, Done, Opens, Past
  <2> QED
    BY <2>1 DEF Counts
<1> QED
  BY <1>1, <1>2, <1>3 DEF NetInv

\* The numbers in Counts are natural numbers.
LEMMA CountTypes ==
  ASSUME TypeOK, NEW p \in Proc, NEW q \in Proc, NEW s \in Sock
  PROVE  Done(p, q, s) \in Nat /\ Opens(p, q, s) \in Nat /\ wire[<<p, q, s>>] \in Nat
<1>1. left[p] \in Nat /\ wire[<<p, q, s>>] \in Nat
  BY DEF TypeOK
<1>2. Done(p, q, s) \in Nat
  BY <1>1 DEF Done
<1> QED
  BY <1>1, <1>2 DEF Opens

\* A process out of sync has done as many handshakes with everyone as it has
\* left syncs; one in sync is at most one ahead.
LEMMA Bounds ==
  ASSUME NetInv, NEW p \in Proc, NEW q \in Proc, NEW s \in Sock
  PROVE  /\ left[p] \in Nat /\ entered[p] \in Nat
         /\ Opens(p, q, s) <= entered[p] /\ Done(p, q, s) <= entered[p]
         /\ main[p] # "in" => Done(p, q, s) = left[p] /\ Opens(p, q, s) = left[p]
<1>1. left[p] \in Nat /\ entered[p] \in Nat /\ entered[p] = left[p] + IF main[p] = "in" THEN 1 ELSE 0
  BY DEF NetInv, TypeOK, Where
<1>2. opened[p] => main[p] = "in"
  BY DEF NetInv, Where, AtListener
<1>3. ~(Past(p, q, s) /\ q = syncAt[p].peer /\ s = syncAt[p].sock)
  <2>1. syncAt[p] \in Position
    BY DEF NetInv, TypeOK
  <2>2. syncAt[p].peer \in Nat /\ syncAt[p].sock \in Nat
    BY <2>1, NetAssumption DEF Position, Sock
  <2> QED
    BY <2>2 DEF Past
<1> QED
  BY <1>1, <1>2, <1>3 DEF Done, Opens, Past

\* The init thread and cv.wait leave the handshakes alone.
LEMMA InitThreadStep ==
  ASSUME NetInv, NEW p \in Proc, InitThread(p) \/ Wait(p)
  PROVE  /\ NetInv' /\ UNCHANGED <<entered, left, syncAt, opened, wire>>
<1>1. /\ UNCHANGED syncVars
      /\ \A q \in Proc : main[q] = "in" <=> main'[q] = "in"
      /\ main' \in [Proc -> {"out", "asleep", "in"}]
  BY DEF NetInv, TypeOK, InitThread, Wait, Listen, Dial, Accept, Dialled, Establish, Notify,
         Connecting, syncVars, initVars
<1>2. link' \in [Links -> {"down", "listening", "dialled", "up"}]
  BY DEF NetInv, TypeOK, InitThread, Wait, Listen, Dial, Accept, Dialled, Establish, Notify,
         Connecting, initVars
<1>3. initPc' \in [Proc -> {"connecting", "established", "finished"}]
  BY DEF NetInv, TypeOK, InitThread, Wait, Listen, Dial, Accept, Dialled, Establish, Notify,
         Connecting, initVars
<1>4. initAt' \in [Proc -> Position]
  <2>1. CASE Accept(p) \/ Dialled(p)
    <3>1. initAt' = [initAt EXCEPT ![p] = After(p, initAt[p])] /\ ~AtEnd(initAt[p])
      BY <2>1 DEF Accept, Dialled, Connecting
    <3>2. After(p, initAt[p]) \in Position
      BY <3>1, AfterType DEF NetInv, TypeOK
    <3> QED
      BY <3>1, <3>2 DEF NetInv, TypeOK
  <2>2. CASE ~(Accept(p) \/ Dialled(p))
    <3>1. UNCHANGED initAt
      BY <2>2 DEF InitThread, Wait, Listen, Dial, Establish, Notify, initVars
    <3> QED
      BY <3>1 DEF NetInv, TypeOK
  <2> QED
    BY <2>1, <2>2
<1>5. TypeOK'
  BY <1>1, <1>2, <1>3, <1>4 DEF NetInv, TypeOK, syncVars
<1>6. Where'
  BY <1>1 DEF NetInv, Where, AtListener, syncVars
<1>7. ASSUME NEW a \in Proc, NEW b \in Proc, NEW s \in Sock
      PROVE  Done(a, b, s)' = Done(a, b, s) /\ Opens(a, b, s)' = Opens(a, b, s)
  BY <1>1 DEF Done, Opens, Past, syncVars
<1>8. Counts'
  BY <1>1, <1>7 DEF NetInv, Counts, syncVars
<1> QED
  BY <1>1, <1>5, <1>6, <1>8 DEF NetInv, syncVars

LEMMA EnterStep ==
  ASSUME NetInv, NEW p \in Proc, EnterSync(p)
  PROVE  NetInv' /\ B!Enter(p)
<1>1. /\ main[p] = "out" /\ entered[p] < Rounds
      /\ main' = [main EXCEPT ![p] = "in"] /\ entered' = [entered EXCEPT ![p] = @ + 1]
      /\ syncAt' = [syncAt EXCEPT ![p] = First(p)]
      /\ UNCHANGED <<link, initAt, initPc, opened, wire, left>>
  BY DEF EnterSync, initVars
<1>2. TypeOK'
  <2>1. entered[p] + 1 \in 0 .. Rounds
    BY <1>1, NetAssumption DEF NetInv, TypeOK
  <2>2. entered' \in [Proc -> 0 .. Rounds] /\ syncAt' \in [Proc -> Position]
    BY <1>1, <2>1, FirstType DEF NetInv, TypeOK
  <2> QED
    BY <1>1, <2>2 DEF NetInv, TypeOK
<1>3. ~opened[p] /\ entered[p] = left[p]
  <2>1. entered[p] = left[p] + 0 /\ left[p] \in Nat
    BY <1>1 DEF NetInv, TypeOK, Where
  <2>2. ~opened[p]
    BY <1>1 DEF NetInv, Where, AtListener
  <2> QED
    BY <2>1, <2>2
<1>4. Where'
  <2>1. ASSUME NEW q \in Proc
        PROVE  /\ main'[q] = "in" => syncAt'[q].peer \in Proc /\ syncAt'[q].peer # q
               /\ entered'[q] = left'[q] + IF main'[q] = "in" THEN 1 ELSE 0
               /\ opened'[q] => AtListener(q)'
    <3>1. CASE q = p
      BY <1>1, <1>3, <3>1, FirstType DEF NetInv, TypeOK
    <3>2. CASE q # p
      BY <1>1, <3>2 DEF NetInv, TypeOK, Where, AtListener
    <3> QED
      BY <3>1, <3>2
  <2> QED
    BY <2>1 DEF Where
<1>5. ASSUME NEW a \in Proc, NEW b \in Proc, a # b, NEW s \in Sock
      PROVE  Done(a, b, s)' = Done(a, b, s) /\ Opens(a, b, s)' = Opens(a, b, s)
  <2>1. CASE a = p
    <3>1. ~Past(a, b, s) /\ ~Past(a, b, s)'
      <4>1. main[a] = "out" /\ syncAt'[a] = First(a)
        BY <1>1, <2>1 DEF NetInv, TypeOK
      <4>2. ~(b < First(a).peer) /\ First(a).sock = 1 /\ ~(s < 1)
        BY <1>5, FirstType DEF Sock
      <4> QED
        BY <4>1, <4>2 DEF Past
    <3> QED
      BY <1>1, <1>3, <2>1, <3>1 DEF Done, Opens
  <2>2. CASE a # p
    <3>1. main'[a] = main[a] /\ syncAt'[a] = syncAt[a]
      BY <1>1, <2>2 DEF NetInv, TypeOK
    <3> QED
      BY <1>1, <3>1 DEF Done, Opens, Past
  <2> QED
    BY <2>1, <2>2
<1>6. Counts'
  BY <1>1, <1>5 DEF NetInv, Counts
<1> QED
  BY <1>1, <1>2, <1>3, <1>4, <1>6 DEF NetInv, B!Enter

\* A process that goes on has done one more handshake, the one it is at.
LEMMA AdvanceDone ==
  ASSUME NetInv, NEW p \in Proc, main[p] = "in", Advance(p)
  PROVE  /\ \A q \in Proc, s \in Sock : q # p =>
              Done(p, q, s)' = Done(p, q, s)
                + IF q = syncAt[p].peer /\ s = syncAt[p].sock THEN 1 ELSE 0
         /\ \A a \in Proc : a # p => UNCHANGED <<main[a], syncAt[a], left[a]>>
<1>1. /\ syncAt' = [syncAt EXCEPT ![p] = After(p, syncAt[p])]
      /\ IF AtEnd(After(p, syncAt[p]))
         THEN main' = [main EXCEPT ![p] = "out"] /\ left' = [left EXCEPT ![p] = @ + 1]
         ELSE UNCHANGED <<main, left>>
  BY DEF Advance
<1>2. /\ syncAt[p] \in Position /\ syncAt[p].peer \in Proc /\ syncAt[p].peer # p
      /\ left[p] \in Nat /\ p \in DOMAIN syncAt /\ p \in DOMAIN main /\ p \in DOMAIN left
  BY DEF NetInv, TypeOK, Where
<1>3. ~AtEnd(syncAt[p])
  BY <1>2, NetAssumption DEF AtEnd, Proc
<1>4. ASSUME NEW q \in Proc, NEW s \in Sock, q # p
      PROVE  Done(p, q, s)' = Done(p, q, s)
                + IF q = syncAt[p].peer /\ s = syncAt[p].sock THEN 1 ELSE 0
  <2> DEFINE at == syncAt[p]
             nxt == After(p, at)
             was == q < at.peer \/ (q = at.peer /\ s < at.sock)
             is == q < nxt.peer \/ (q = nxt.peer /\ s < nxt.sock)
             here == q = at.peer /\ s = at.sock
  <2>1. /\ is <=> was \/ here
        /\ ~(was /\ here)
        /\ AtEnd(nxt) => is
    BY <1>2, <1>3, <1>4, AfterPast
  <2>2. Past(p, q, s) <=> was
    BY DEF Past
  <2>3. syncAt'[p] = nxt
    BY <1>1, <1>2
  <2>4. CASE AtEnd(nxt)
    <3>1. main'[p] = "out" /\ left'[p] = left[p] + 1
      BY <1>1, <1>2, <2>4
    <3> HIDE DEF nxt, was, is, here
    <3> QED
      BY <1>2, <2>1, <2>2, <2>4, <3>1 DEF Done, Past, here
  <2>5. CASE ~AtEnd(nxt)
    <3>1. main'[p] = "in" /\ left'[p] = left[p]
      BY <1>1, <2>5
    <3>2. Past(p, q, s)' <=> is
      BY <2>3, <3>1 DEF Past
    <3> HIDE DEF nxt, was, is
    <3> QED
      BY <1>2, <2>1, <2>2, <3>1, <3>2 DEF Done
  <2> QED
    BY <2>4, <2>5
<1>5. ASSUME NEW a \in Proc, a # p
      PROVE  UNCHANGED <<main[a], syncAt[a], left[a]>>
  BY <1>1, <1>5 DEF NetInv, TypeOK
<1> QED
  BY <1>4, <1>5

LEMMA AdvanceFrame ==
  ASSUME NetInv, NEW p \in Proc, main[p] = "in", Advance(p),
         opened' = [opened EXCEPT ![p] = FALSE],
         wire' \in [Proc \X Proc \X Sock -> Nat]
  PROVE  TypeOK' /\ Where'
<1>1. /\ syncAt' = [syncAt EXCEPT ![p] = After(p, syncAt[p])]
      /\ \/ /\ AtEnd(After(p, syncAt[p]))
            /\ main' = [main EXCEPT ![p] = "out"] /\ left' = [left EXCEPT ![p] = @ + 1]
         \/ /\ ~AtEnd(After(p, syncAt[p]))
            /\ UNCHANGED <<main, left>>
      /\ UNCHANGED <<link, initAt, initPc, entered>>
  BY DEF Advance, initVars
<1>2. /\ syncAt[p] \in Position /\ syncAt[p].peer \in Proc /\ syncAt[p].peer # p
      /\ syncAt \in [Proc -> Position] /\ main \in [Proc -> {"out", "asleep", "in"}]
      /\ left \in [Proc -> 0 .. Rounds] /\ opened \in [Proc -> BOOLEAN]
  BY DEF NetInv, TypeOK, Where
<1>3. ~AtEnd(syncAt[p])
  BY <1>2, NetAssumption DEF AtEnd, Proc
<1>4. After(p, syncAt[p]) \in Position
      /\ (~AtEnd(After(p, syncAt[p])) => After(p, syncAt[p]).peer \in Proc /\ After(p, syncAt[p]).peer # p)
  BY <1>2, <1>3, AfterType
<1>5. left[p] + 1 = entered[p] /\ left[p] + 1 \in 0 .. Rounds
  <2>1. entered[p] = left[p] + 1 /\ entered[p] \in 0 .. Rounds
    BY DEF NetInv, TypeOK, Where
  <2> QED
    BY <2>1
<1>6. TypeOK'
  <2>1. syncAt' \in [Proc -> Position]
    BY <1>1, <1>2, <1>4
  <2>2. left' \in [Proc -> 0 .. Rounds]
    BY <1>1, <1>2, <1>5
  <2>3. main' \in [Proc -> {"out", "asleep", "in"}] /\ opened' \in [Proc -> BOOLEAN]
    BY <1>1, <1>2
  <2> QED
    BY <1>1, <2>1, <2>2, <2>3 DEF NetInv, TypeOK
<1>7. Where'
  <2>1. ASSUME NEW q \in Proc
        PROVE  /\ main'[q] = "in" => syncAt'[q].peer \in Proc /\ syncAt'[q].peer # q
               /\ entered'[q] = left'[q] + IF main'[q] = "in" THEN 1 ELSE 0
               /\ opened'[q] => AtListener(q)'
    <3>1. CASE q = p
      <4>1. ~opened'[p] /\ syncAt'[p] = After(p, syncAt[p])
        BY <1>1, <1>2
      <4>2. CASE AtEnd(After(p, syncAt[p]))
        <5>1. main'[p] = "out" /\ left'[p] = left[p] + 1 /\ entered'[p] = entered[p]
          BY <1>1, <1>2, <4>2
        <5> QED
          BY <1>5, <3>1, <4>1, <5>1
      <4>3. CASE ~AtEnd(After(p, syncAt[p]))
        <5>1. main'[p] = "in" /\ left'[p] = left[p] /\ entered'[p] = entered[p]
          BY <1>1, <4>3
        <5> QED
          BY <1>4, <1>5, <3>1, <4>1, <4>3, <5>1
      <4> QED
        BY <4>2, <4>3
    <3>2. CASE q # p
      <4>1. /\ main'[q] = main[q] /\ left'[q] = left[q] /\ entered'[q] = entered[q]
            /\ syncAt'[q] = syncAt[q] /\ opened'[q] = opened[q]
        BY <1>1, <1>2, <3>2
      <4> QED
        BY <4>1 DEF NetInv, Where, AtListener
    <3> QED
      BY <3>1, <3>2
  <2> QED
    BY <2>1 DEF Where
<1> QED
  BY <1>6, <1>7

\* Nobody has returned from more syncs than everybody has called.
OutBehind == \A p, q \in Proc : main[p] # "in" => left[p] <= entered[q]

LEMMA OutBound == NetInv => OutBehind
<1> SUFFICES ASSUME NetInv, NEW p \in Proc, NEW q \in Proc, main[p] # "in"
             PROVE  left[p] <= entered[q]
  BY DEF OutBehind
<1>1. 1 \in Sock
  BY DEF Sock
<1>2. /\ Done(p, q, 1) = left[p] /\ Opens(p, q, 1) = left[p] /\ left[p] \in Nat
      /\ entered[p] \in Nat /\ left[p] <= entered[p]
  BY <1>1, Bounds
<1>3. /\ Done(q, p, 1) <= entered[q] /\ Opens(q, p, 1) <= entered[q] /\ entered[q] \in Nat
  BY <1>1, Bounds
<1>4. /\ Done(q, p, 1) \in Nat /\ Opens(q, p, 1) \in Nat
      /\ wire[<<p, q, 1>>] \in Nat /\ wire[<<q, p, 1>>] \in Nat
  BY <1>1, CountTypes DEF NetInv
<1>5. CASE p = q
  BY <1>2, <1>5
<1>6. CASE p # q /\ Listens(p, q, 1)
  <2>1. Done(q, p, 1) = Done(p, q, 1) + wire[<<q, p, 1>>]
    BY <1>1, <1>6 DEF NetInv, Counts
  <2> QED
    BY <1>2, <1>3, <1>4, <2>1
<1>7. CASE p # q /\ ~Listens(p, q, 1)
  <2>1. Listens(q, p, 1)
    BY <1>7, NetAssumption DEF Listens, Proc
  <2>2. Opens(q, p, 1) = Done(p, q, 1) + wire[<<q, p, 1>>]
    BY <1>1, <1>7, <2>1 DEF NetInv, Counts
  <2> QED
    BY <1>2, <1>3, <1>4, <2>2
<1> QED
  BY <1>5, <1>6, <1>7

LEMMA OutBoundNext == NetInv' => OutBehind'
BY OutBound, PTL

\* To the barrier, one more handshake is the return from a sync or nothing.
LEMMA AdvanceLeaves ==
  ASSUME NetInv, NetInv', NEW p \in Proc, main[p] = "in", Advance(p)
  PROVE  B!Leave(p) \/ UNCHANGED <<entered, left>>
<1>1. entered[p] = left[p] + 1 /\ left[p] \in Nat /\ main \in [Proc -> {"out", "asleep", "in"}]
      /\ left \in [Proc -> 0 .. Rounds] /\ UNCHANGED entered
  BY DEF NetInv, TypeOK, Where, Advance
<1>2. CASE AtEnd(After(p, syncAt[p]))
  <2>1. left' = [left EXCEPT ![p] = @ + 1] /\ main' = [main EXCEPT ![p] = "out"]
    BY <1>2 DEF Advance
  <2>2. left'[p] = left[p] + 1 /\ main'[p] = "out"
    BY <1>1, <2>1
  <2>3. \A q \in Proc : left'[p] <= entered'[q]
    BY <2>2, OutBoundNext DEF OutBehind
  <2>4. \A q \in Proc : entered[q] >= entered[p]
    BY <1>1, <2>2, <2>3 DEF NetInv, TypeOK
  <2> QED
    BY <1>1, <2>1, <2>4 DEF B!Leave
<1>3. CASE ~AtEnd(After(p, syncAt[p]))
  BY <1>1, <1>3 DEF Advance
<1> QED
  BY <1>2, <1>3

LEMMA OpenStep ==
  ASSUME NetInv, NEW p \in Proc, Open(p)
  PROVE  NetInv' /\ UNCHANGED <<entered, left>>
<1> DEFINE q == syncAt[p].peer
           s == syncAt[p].sock
<1>1. /\ main[p] = "in" /\ Listens(p, q, s) /\ ~opened[p]
      /\ opened' = [opened EXCEPT ![p] = TRUE]
      /\ wire' = [wire EXCEPT ![<<p, q, s>>] = @ + 1]
      /\ UNCHANGED <<link, initAt, initPc, main, syncAt, entered, left>>
  BY DEF Open, AtListener, Here, initVars
<1>2. q \in Proc /\ q # p /\ s \in Sock
  <2>1. syncAt[p] \in Position
    BY DEF NetInv, TypeOK
  <2> QED
    BY <1>1, <2>1 DEF NetInv, Where, Position
<1>3. wire \in [Proc \X Proc \X Sock -> Nat] /\ opened \in [Proc -> BOOLEAN]
  BY DEF NetInv, TypeOK
<1> HIDE DEF q, s
<1>4. TypeOK'
  <2>1. wire[<<p, q, s>>] + 1 \in Nat
    BY <1>2, <1>3
  <2>2. wire' \in [Proc \X Proc \X Sock -> Nat] /\ opened' \in [Proc -> BOOLEAN]
    BY <1>1, <1>3, <2>1, EntryType
  <2> QED
    BY <1>1, <2>2 DEF NetInv, TypeOK
<1>5. Where'
  <2>1. \A r \in Proc : opened'[r] => AtListener(r)'
    BY <1>1, <1>3 DEF NetInv, Where, AtListener, q, s
  <2> QED
    BY <1>1, <2>1 DEF NetInv, Where
<1>6. ASSUME NEW a \in Proc, NEW b \in Proc, NEW t \in Sock
      PROVE  /\ Done(a, b, t)' = Done(a, b, t)
             /\ Opens(a, b, t)' = Opens(a, b, t) + IF a = p /\ b = q /\ t = s THEN 1 ELSE 0
             /\ wire'[<<a, b, t>>] = wire[<<a, b, t>>] + IF a = p /\ b = q /\ t = s THEN 1 ELSE 0
  <2>1. Done(a, b, t)' = Done(a, b, t)
    BY <1>1 DEF Done, Past
  <2>2. Opens(a, b, t)' = Opens(a, b, t) + IF a = p /\ b = q /\ t = s THEN 1 ELSE 0
    <3>1. Done(a, b, t) \in Nat
      BY CountTypes DEF NetInv
    <3>2. CASE a = p
      <4>1. opened'[p] /\ ~opened[p] /\ syncAt'[p] = syncAt[p]
        BY <1>1, <1>3
      <4>2. Opens(p, b, t) = Done(p, b, t)
        BY <3>1, <3>2, <4>1 DEF Opens
      <4>3. Opens(p, b, t)' = Done(p, b, t) + IF b = q /\ t = s THEN 1 ELSE 0
        BY <2>1, <3>2, <4>1 DEF Opens, q, s
      <4> QED
        BY <3>2, <4>2, <4>3
    <3>3. CASE a # p
      <4>1. opened'[a] = opened[a] /\ syncAt'[a] = syncAt[a]
        BY <1>1, <1>3, <3>3
      <4>2. Opens(a, b, t)' = Opens(a, b, t) /\ Opens(a, b, t) \in Nat
        BY <2>1, <4>1, CountTypes DEF Opens, NetInv
      <4> QED
        BY <3>3, <4>2
    <3> QED
      BY <3>2, <3>3
  <2>3. wire'[<<a, b, t>>] = wire[<<a, b, t>>] + IF a = p /\ b = q /\ t = s THEN 1 ELSE 0
    BY <1>1, <1>2, <1>3
  <2> QED
    BY <2>1, <2>2, <2>3
<1>7. Counts'
  <2>1. ASSUME NEW a \in Proc, NEW b \in Proc, NEW t \in Sock, a # b, Listens(a, b, t)
        PROVE  /\ Opens(a, b, t)' = Done(b, a, t)' + wire'[<<a, b, t>>]
               /\ Done(b, a, t)' = Done(a, b, t)' + wire'[<<b, a, t>>]
    <3>1. /\ Opens(a, b, t) = Done(b, a, t) + wire[<<a, b, t>>]
          /\ Done(b, a, t) = Done(a, b, t) + wire[<<b, a, t>>]
      BY <2>1 DEF NetInv, Counts
    <3>2. ~(b = p /\ a = q /\ t = s)
      BY <1>1, <2>1 DEF Listens, Proc
    <3>3. /\ Opens(a, b, t) \in Nat /\ Done(a, b, t) \in Nat /\ Done(b, a, t) \in Nat
          /\ wire[<<a, b, t>>] \in Nat /\ wire[<<b, a, t>>] \in Nat
      BY CountTypes DEF NetInv
    <3> QED
      BY <1>6, <3>1, <3>2, <3>3
  <2> QED
    BY <2>1 DEF Counts
<1> QED
  BY <1>1, <1>4, <1>5, <1>7 DEF NetInv

LEMMA CloseStep ==
  ASSUME NetInv, NEW p \in Proc, Close(p)
  PROVE  NetInv' /\ (B!Leave(p) \/ UNCHANGED <<entered, left>>)
<1> DEFINE q == syncAt[p].peer
           s == syncAt[p].sock
<1>1. /\ main[p] = "in" /\ Listens(p, q, s) /\ opened[p] /\ wire[<<q, p, s>>] > 0
      /\ opened' = [opened EXCEPT ![p] = FALSE]
      /\ wire' = [wire EXCEPT ![<<q, p, s>>] = @ - 1]
      /\ Advance(p)
  BY DEF Close, AtListener, There
<1>2. q \in Proc /\ q # p /\ s \in Sock
  <2>1. syncAt[p] \in Position
    BY DEF NetInv, TypeOK
  <2> QED
    BY <1>1, <2>1 DEF NetInv, Where, Position
<1>3. wire \in [Proc \X Proc \X Sock -> Nat] /\ opened \in [Proc -> BOOLEAN]
  BY DEF NetInv, TypeOK
<1>4. \A t \in Sock, b \in Proc : b # p =>
        Done(p, b, t)' = Done(p, b, t) + IF b = q /\ t = s THEN 1 ELSE 0
  BY <1>1, AdvanceDone
<1>5. \A a \in Proc : a # p => UNCHANGED <<main[a], syncAt[a], left[a], opened[a]>>
  <2>1. \A a \in Proc : a # p => UNCHANGED <<main[a], syncAt[a], left[a]>>
    BY <1>1, AdvanceDone
  <2>2. \A a \in Proc : a # p => UNCHANGED opened[a]
    BY <1>1, <1>3
  <2> QED
    BY <2>1, <2>2
<1>6. \A b \in Proc, t \in Sock : b # p =>
        /\ Opens(p, b, t)' = Done(p, b, t)'
        /\ Opens(p, b, t) = Done(p, b, t) + IF b = q /\ t = s THEN 1 ELSE 0
  <2>1. ASSUME NEW b \in Proc, NEW t \in Sock, b # p
        PROVE  Opens(p, b, t)' = Done(p, b, t)'
    <3>1. Done(p, b, t)' \in Nat
      <4>1. Done(p, b, t) \in Nat
        BY CountTypes DEF NetInv
      <4>2. Done(p, b, t)' = Done(p, b, t) + IF b = q /\ t = s THEN 1 ELSE 0
        BY <1>4, <2>1
      <4> QED
        BY <4>1, <4>2
    <3>2. ~opened'[p]
      BY <1>1, <1>3
    <3> QED
      BY <3>1, <3>2 DEF Opens
  <2> QED
    BY <1>1, <2>1 DEF Opens
<1> HIDE DEF q, s
<1>7. TypeOK' /\ Where'
  <2>1. wire[<<q, p, s>>] - 1 \in Nat
    BY <1>1, <1>2, <1>3
  <2>2. wire' \in [Proc \X Proc \X Sock -> Nat]
    BY <1>1, <1>3, <2>1, EntryType
  <2> QED
    BY <1>1, <2>2, AdvanceFrame
<1>8. ASSUME NEW a \in Proc, NEW b \in Proc, NEW t \in Sock
      PROVE  wire'[<<a, b, t>>] = wire[<<a, b, t>>] - IF a = q /\ b = p /\ t = s THEN 1 ELSE 0
  BY <1>1, <1>2, <1>3
<1>9. ASSUME NEW a \in Proc, NEW b \in Proc, NEW t \in Sock, a # p
      PROVE  Done(a, b, t)' = Done(a, b, t) /\ Opens(a, b, t)' = Opens(a, b, t)
  BY <1>5, <1>9 DEF Done, Opens, Past
<1>10. Counts'
  <2>1. ASSUME NEW a \in Proc, NEW b \in Proc, NEW t \in Sock, a # b, Listens(a, b, t)
        PROVE  /\ Opens(a, b, t)' = Done(b, a, t)' + wire'[<<a, b, t>>]
               /\ Done(b, a, t)' = Done(a, b, t)' + wire'[<<b, a, t>>]
    <3>1. /\ Opens(a, b, t) = Done(b, a, t) + wire[<<a, b, t>>]
          /\ Done(b, a, t) = Done(a, b, t) + wire[<<b, a, t>>]
      BY <2>1 DEF NetInv, Counts
    <3>2. ~(b = p /\ a = q /\ t = s)
      BY <1>1, <2>1 DEF Listens, Proc
    <3>3. /\ Opens(a, b, t) \in Nat /\ Done(a, b, t) \in Nat /\ Done(b, a, t) \in Nat
          /\ wire[<<a, b, t>>] \in Nat /\ wire[<<b, a, t>>] \in Nat
      BY CountTypes DEF NetInv
    <3>4. CASE a = p
      <4>1. Done(b, a, t)' = Done(b, a, t)
        BY <1>9, <2>1, <3>4
      <4>2. Done(a, b, t)' = Done(a, b, t) + (IF b = q /\ t = s THEN 1 ELSE 0)
            /\ Opens(a, b, t)' = Done(a, b, t)'
            /\ Opens(a, b, t) = Done(a, b, t) + (IF b = q /\ t = s THEN 1 ELSE 0)
        BY <1>4, <1>6, <2>1, <3>4
      <4>3. wire'[<<a, b, t>>] = wire[<<a, b, t>>]
            /\ wire'[<<b, a, t>>] = wire[<<b, a, t>>] - (IF b = q /\ t = s THEN 1 ELSE 0)
        BY <1>8, <2>1, <3>3, <3>4
      <4> QED
        BY <3>1, <3>3, <4>1, <4>2, <4>3
    <3>5. CASE b = p
      <4>1. ~(a = q /\ t = s)
        BY <3>2, <3>5
      <4>2. Done(b, a, t)' = Done(b, a, t)
        BY <1>4, <2>1, <3>3, <3>5, <4>1
      <4>3. Done(a, b, t)' = Done(a, b, t) /\ Opens(a, b, t)' = Opens(a, b, t)
        BY <1>9, <2>1, <3>5
      <4>4. wire'[<<a, b, t>>] = wire[<<a, b, t>>] /\ wire'[<<b, a, t>>] = wire[<<b, a, t>>]
        BY <1>2, <1>8, <2>1, <3>3, <3>5, <4>1
      <4> QED
        BY <3>1, <4>2, <4>3, <4>4
    <3>6. CASE a # p /\ b # p
      BY <1>8, <1>9, <3>1, <3>3, <3>6
    <3> QED
      BY <3>4, <3>5, <3>6
  <2> QED
    BY <2>1 DEF Counts
<1>11. NetInv'
  BY <1>7, <1>10 DEF NetInv
<1> QED
  BY <1>1, <1>11, AdvanceLeaves

LEMMA AnswerStep ==
  ASSUME NetInv, NEW p \in Proc, Answer(p)
  PROVE  NetInv' /\ (B!Leave(p) \/ UNCHANGED <<entered, left>>)
<1> DEFINE q == syncAt[p].peer
           s == syncAt[p].sock
<1>1. /\ main[p] = "in" /\ ~Listens(p, q, s) /\ wire[<<q, p, s>>] > 0
      /\ wire' = [wire EXCEPT ![<<q, p, s>>] = @ - 1, ![<<p, q, s>>] = @ + 1]
      /\ UNCHANGED opened /\ Advance(p)
  BY DEF Answer, AtDialler, There, Here
<1>2. q \in Proc /\ q # p /\ s \in Sock
  <2>1. syncAt[p] \in Position
    BY DEF NetInv, TypeOK
  <2> QED
    BY <1>1, <2>1 DEF NetInv, Where, Position
<1>3. wire \in [Proc \X Proc \X Sock -> Nat] /\ opened \in [Proc -> BOOLEAN]
  BY DEF NetInv, TypeOK
<1>4. ~opened[p] /\ opened' = [opened EXCEPT ![p] = FALSE]
  <2>1. ~opened[p]
    BY <1>1 DEF NetInv, Where, AtListener
  <2> QED
    BY <1>1, <1>3, <2>1
<1>5. \A t \in Sock, b \in Proc : b # p =>
        Done(p, b, t)' = Done(p, b, t) + IF b = q /\ t = s THEN 1 ELSE 0
  BY <1>1, AdvanceDone
<1>6. \A a \in Proc : a # p => UNCHANGED <<main[a], syncAt[a], left[a]>>
  BY <1>1, AdvanceDone
<1>7. \A b \in Proc, t \in Sock : b # p =>
        Opens(p, b, t)' = Done(p, b, t)' /\ Opens(p, b, t) = Done(p, b, t)
  <2>1. ASSUME NEW b \in Proc, NEW t \in Sock, b # p
        PROVE  Opens(p, b, t)' = Done(p, b, t)' /\ Opens(p, b, t) = Done(p, b, t)
    <3>1. Done(p, b, t) \in Nat
      BY CountTypes DEF NetInv
    <3>2. Done(p, b, t)' = Done(p, b, t) + IF b = q /\ t = s THEN 1 ELSE 0
      BY <1>5, <2>1
    <3>3. Done(p, b, t)' \in Nat
      BY <3>1, <3>2
    <3>4. ~opened[p] /\ ~opened'[p]
      BY <1>1, <1>4
    <3> QED
      BY <3>1, <3>3, <3>4 DEF Opens
  <2> QED
    BY <2>1
<1> HIDE DEF q, s
<1>8. ASSUME NEW a \in Proc, NEW b \in Proc, NEW t \in Sock
      PROVE  wire'[<<a, b, t>>] = CASE a = q /\ b = p /\ t = s -> wire[<<a, b, t>>] - 1
                                    [] a = p /\ b = q /\ t = s -> wire[<<a, b, t>>] + 1
                                    [] OTHER -> wire[<<a, b, t>>]
  BY <1>1, <1>2, <1>3
<1>9. TypeOK' /\ Where'
  <2>1. wire[<<q, p, s>>] - 1 \in Nat /\ wire[<<p, q, s>>] + 1 \in Nat
    BY <1>1, <1>2, <1>3
  <2>2. [wire EXCEPT ![<<q, p, s>>] = wire[<<q, p, s>>] - 1] \in [Proc \X Proc \X Sock -> Nat]
    BY <1>3, <2>1, EntryType
  <2>3. wire' = [[wire EXCEPT ![<<q, p, s>>] = wire[<<q, p, s>>] - 1]
                   EXCEPT ![<<p, q, s>>] = wire[<<p, q, s>>] + 1]
    BY <1>1, <1>2
  <2>4. wire' \in [Proc \X Proc \X Sock -> Nat]
    BY <2>1, <2>2, <2>3, EntryType
  <2> QED
    BY <1>1, <1>4, <2>4, AdvanceFrame
<1>10. ASSUME NEW a \in Proc, NEW b \in Proc, NEW t \in Sock, a # p
       PROVE  Done(a, b, t)' = Done(a, b, t) /\ Opens(a, b, t)' = Opens(a, b, t)
  BY <1>1, <1>6, <1>10 DEF Done, Opens, Past
<1>11. Counts'
  <2>1. ASSUME NEW a \in Proc, NEW b \in Proc, NEW t \in Sock, a # b, Listens(a, b, t)
        PROVE  /\ Opens(a, b, t)' = Done(b, a, t)' + wire'[<<a, b, t>>]
               /\ Done(b, a, t)' = Done(a, b, t)' + wire'[<<b, a, t>>]
    <3>1. /\ Opens(a, b, t) = Done(b, a, t) + wire[<<a, b, t>>]
          /\ Done(b, a, t) = Done(a, b, t) + wire[<<b, a, t>>]
      BY <2>1 DEF NetInv, Counts
    <3>2. ~(a = p /\ b = q /\ t = s)
      BY <1>1, <2>1
    <3>3. /\ Opens(a, b, t) \in Nat /\ Done(a, b, t) \in Nat /\ Done(b, a, t) \in Nat
          /\ wire[<<a, b, t>>] \in Nat /\ wire[<<b, a, t>>] \in Nat
      BY CountTypes DEF NetInv
    <3>4. CASE a = p
      <4>1. Done(b, a, t)' = Done(b, a, t)
        BY <1>10, <2>1, <3>4
      <4>2. Done(a, b, t)' = Done(a, b, t) /\ Opens(a, b, t)' = Opens(a, b, t)
        BY <1>5, <1>7, <2>1, <3>2, <3>3, <3>4
      <4>3. wire'[<<a, b, t>>] = wire[<<a, b, t>>] /\ wire'[<<b, a, t>>] = wire[<<b, a, t>>]
        BY <1>2, <1>8, <2>1, <3>2, <3>4
      <4> QED
        BY <3>1, <4>1, <4>2, <4>3
    <3>5. CASE b = p /\ a = q /\ t = s
      <4>1. Done(b, a, t)' = Done(b, a, t) + 1
        BY <1>5, <2>1, <3>5
      <4>2. Done(a, b, t)' = Done(a, b, t) /\ Opens(a, b, t)' = Opens(a, b, t)
        BY <1>10, <2>1, <3>5
      <4>3. wire'[<<a, b, t>>] = wire[<<a, b, t>>] - 1 /\ wire'[<<b, a, t>>] = wire[<<b, a, t>>] + 1
        BY <1>2, <1>8, <2>1, <3>5
      <4> QED
        BY <3>1, <3>3, <4>1, <4>2, <4>3
    <3>6. CASE b = p /\ ~(a = q /\ t = s)
      <4>1. Done(b, a, t)' = Done(b, a, t)
        BY <1>5, <2>1, <3>3, <3>6
      <4>2. Done(a, b, t)' = Done(a, b, t) /\ Opens(a, b, t)' = Opens(a, b, t)
        BY <1>10, <2>1, <3>6
      <4>3. wire'[<<a, b, t>>] = wire[<<a, b, t>>] /\ wire'[<<b, a, t>>] = wire[<<b, a, t>>]
        BY <1>2, <1>8, <2>1, <3>6
      <4> QED
        BY <3>1, <4>1, <4>2, <4>3
    <3>7. CASE a # p /\ b # p
      BY <1>8, <1>10, <3>1, <3>3, <3>7
    <3> QED
      BY <3>4, <3>5, <3>6, <3>7
  <2> QED
    BY <2>1 DEF Counts
<1>12. NetInv'
  BY <1>9, <1>11 DEF NetInv
<1> QED
  BY <1>1, <1>12, AdvanceLeaves

LEMMA InvStep ==
  NetInv /\ [Next]_vars => NetInv' /\ [B!Next]_<<entered, left>>
<1> SUFFICES ASSUME NetInv, [Next]_vars
             PROVE  NetInv' /\ (B!Next \/ UNCHANGED <<entered, left>>)
  OBVIOUS
<1>1. CASE \E p \in Proc : InitThread(p) \/ Wait(p)
  BY <1>1, InitThreadStep
<1>2. ASSUME NEW p \in Proc, EnterSync(p)
      PROVE  NetInv' /\ B!Next
  BY <1>2, EnterStep DEF B!Next
<1>3. ASSUME NEW p \in Proc, Open(p) \/ Close(p) \/ Answer(p)
      PROVE  NetInv' /\ (B!Next \/ UNCHANGED <<entered, left>>)
  BY <1>3, OpenStep, CloseStep, AnswerStep DEF B!Next
<1>4. CASE UNCHANGED vars
  <2>1. UNCHANGED <<link, initAt, initPc, main, syncAt, opened, wire, entered, left>>
    BY <1>4 DEF vars, initVars, syncVars
  <2>2. TypeOK' /\ Where'
    BY <2>1 DEF NetInv, TypeOK, Where, AtListener
  <2>3. ASSUME NEW a \in Proc, NEW b \in Proc, NEW t \in Sock
        PROVE  Done(a, b, t)' = Done(a, b, t) /\ Opens(a, b, t)' = Opens(a, b, t)
    BY <2>1 DEF Done, Opens, Past
  <2>4. Counts'
    BY <2>1, <2>3 DEF NetInv, Counts
  <2> QED
    BY <2>1, <2>2, <2>4 DEF NetInv
<1> QED
  BY <1>1, <1>2, <1>3, <1>4 DEF Next, MainThread, Terminated

\* However many processes there are and however often they sync: a process
\* returns from NetIOMP::sync only after all others have called it as often.
THEOREM SyncIsBarrier == Spec => BarrierSpec
<1>1. Init => B!Init
  BY DEF Init, B!Init
<1> QED
  BY <1>1, InvInit, InvStep, PTL DEF Spec, BarrierSpec, B!Spec

\* The counters of init_network and sync stay inside the arrays of
\* connections, and nobody reads a sync byte that was not sent.
THEOREM NetTypeCorrect == Spec => []TypeOK
<1>1. NetInv => TypeOK
  BY DEF NetInv
<1> QED
  BY <1>1, InvInit, InvStep, PTL DEF Spec

\* A sync byte in front of a process that is not in sync belongs to a sync
\* that it has not called yet: it is behind all the payload of the peer.
THEOREM NoStrays == Spec => []NoStrayByte
<1>1. NetInv => NoStrayByte
  <2> SUFFICES ASSUME NetInv, NEW p \in Proc, NEW q \in Proc, NEW s \in Sock,
                      p # q, main[p] # "in", wire[<<q, p, s>>] > 0
               PROVE  entered[q] > left[p]
    BY DEF NoStrayByte
  <2>1. Done(p, q, s) = left[p] /\ Opens(p, q, s) = left[p] /\ left[p] \in Nat
    BY Bounds
  <2>2. Done(q, p, s) <= entered[q] /\ Opens(q, p, s) <= entered[q] /\ entered[q] \in Nat
    BY Bounds
  <2>3. Done(q, p, s) \in Nat /\ Opens(q, p, s) \in Nat /\ wire[<<q, p, s>>] \in Nat
    BY CountTypes DEF NetInv
  <2>4. CASE Listens(p, q, s)
    <3>1. Done(q, p, s) = Done(p, q, s) + wire[<<q, p, s>>]
      BY <2>4 DEF NetInv, Counts
    <3> QED
      BY <2>1, <2>2, <2>3, <3>1
  <2>5. CASE ~Listens(p, q, s)
    <3>1. Listens(q, p, s)
      BY <2>5, NetAssumption DEF Listens, Proc
    <3>2. Opens(q, p, s) = Done(p, q, s) + wire[<<q, p, s>>]
      BY <2>5, <3>1 DEF NetInv, Counts
    <3> QED
      BY <2>1, <2>2, <2>3, <3>2
  <2> QED
    BY <2>4, <2>5
<1> QED
  BY <1>1, InvInit, InvStep, PTL DEF Spec

------------------------------------------------------------------------------
(* Ports *)

LEMMA RowsApart ==
  ASSUME NEW i \in Nat, NEW k \in Nat, i < k, NEW j \in 0 .. N - 1, NEW l \in Nat
  PROVE  i * N + j < k * N + l
<1> DEFINE d == k - i - 1
<1>1. d \in Nat /\ k = i + 1 + d /\ N \in Nat
  BY NetAssumption
<1>2. d * N \in Nat /\ i * N \in Nat
  BY <1>1
<1> HIDE DEF d
<1>3. k * N = i * N + N + d * N
  BY <1>1
<1> QED
  BY <1>1, <1>2, <1>3

LEMMA PortInjective ==
  ASSUME NEW i \in Proc, NEW j \in Proc, NEW s \in Sock,
         NEW k \in Proc, NEW l \in Proc, NEW t \in Sock,
         Port(i, j, s) = Port(k, l, t)
  PROVE  i = k /\ j = l /\ s = t
<1>1. /\ i \in Nat /\ k \in Nat /\ j \in 0 .. N - 1 /\ l \in 0 .. N - 1 /\ N \in Nat
      /\ j \in Nat /\ l \in Nat
  BY NetAssumption DEF Proc
<1> DEFINE a == i * N + j
           b == k * N + l
<1>2. a \in Nat /\ b \in Nat
  BY <1>1
<1>3. 2 * a + (s - 1) = 2 * b + (t - 1) /\ s \in {1, 2} /\ t \in {1, 2}
  BY DEF Port, Sock
<1> HIDE DEF a, b
<1>4. a = b /\ s = t
  BY <1>2, <1>3
<1>5. ~(i < k) /\ ~(k < i)
  BY <1>1, <1>2, <1>4, RowsApart DEF a, b
<1>6. i = k
  BY <1>1, <1>5
<1>7. j = l
  <2>1. i * N \in Nat
    BY <1>1
  <2> QED
    BY <1>1, <1>4, <1>6, <2>1 DEF a, b
<1> QED
  BY <1>4, <1>6, <1>7

\* With any number of clients on one host, no two connections want a port.
THEOREM PortsApart == Spec => []PortsDistinct
<1>1. PortsDistinct
  <2>1. ASSUME NEW k \in Links, NEW l \in Links, PortOf(k) = PortOf(l)
        PROVE  k = l
    <3>1. /\ k = <<k[1], k[2], k[3]>> /\ l = <<l[1], l[2], l[3]>>
          /\ k[1] \in Proc /\ k[2] \in Proc /\ k[3] \in Sock /\ k[1] # k[2]
          /\ l[1] \in Proc /\ l[2] \in Proc /\ l[3] \in Sock /\ l[1] # l[2]
          /\ Listens(k[1], k[2], k[3]) /\ Listens(l[1], l[2], l[3])
      BY DEF Links
    <3>2. k[3] = l[3] /\ (k[1] < k[2] <=> l[1] < l[2])
      <4>1. k[3] = l[3]
        BY <2>1, <3>1, PortInjective DEF PortOf
      <4> QED
        BY <3>1, <4>1, NetAssumption DEF Listens, Proc
    <3>3. k[1] = l[1] /\ k[2] = l[2]
      BY <2>1, <3>1, <3>2, PortInjective DEF PortOf
    <3> QED
      BY <3>1, <3>2, <3>3
  <2> QED
    BY <2>1 DEF PortsDistinct
<1> QED
  BY <1>1, PTL

------------------------------------------------------------------------------
(* Connections *)

Visited(p, q, s) == q < initAt[p].peer \/ (q = initAt[p].peer /\ s < initAt[p].sock)

\* What the init thread is past is connected; its flag means it is past all.
Connected ==
  /\ \A p, q \in Proc : \A s \in Sock :
       p # q /\ Visited(p, q, s) => link[LinkOf(p, [peer |-> q, sock |-> s])] = "up"
  /\ \A p \in Proc :
       /\ ~AtEnd(initAt[p]) => initAt[p].peer # p
       /\ initPc[p] # "connecting" => AtEnd(initAt[p])
       /\ main[p] = "in" => initPc[p] # "connecting"

LEMMA ConnectedInit == Init => Connected
<1> SUFFICES ASSUME Init PROVE Connected
  OBVIOUS
<1>1. ASSUME NEW p \in Proc, NEW q \in Proc, NEW s \in Sock, p # q
      PROVE  ~Visited(p, q, s)
  BY <1>1, FirstType DEF Init, Visited, Sock
<1>2. \A p \in Proc : initAt[p].peer # p /\ initPc[p] = "connecting" /\ main[p] = "out"
  BY FirstType DEF Init
<1> QED
  BY <1>1, <1>2 DEF Connected

LEMMA ConnectedStep == NetInv /\ Connected /\ [Next]_vars => Connected'
<1> SUFFICES ASSUME NetInv, Connected, [Next]_vars PROVE Connected'
  OBVIOUS
<1>1. \A l \in Links : link[l] = "up" => link'[l] = "up"
  BY DEF NetInv, TypeOK, Next, InitThread, MainThread, Terminated, vars, initVars,
         Listen, Dial, Accept, Dialled, Establish, Notify, Connecting,
         Wait, EnterSync, Open, Close, Answer, Advance
<1>2. ASSUME NEW p \in Proc, NEW q \in Proc, p # q, NEW s \in Sock
      PROVE  LinkOf(p, [peer |-> q, sock |-> s]) \in Links
  BY <1>2, NetAssumption DEF LinkOf, Links, Listens, Proc
<1>3. \/ \E p \in Proc : Accept(p) \/ Dialled(p)
      \/ \E p \in Proc : Establish(p)
      \/ \E p \in Proc : EnterSync(p)
      \/ /\ UNCHANGED <<initAt>>
         /\ \A p \in Proc : /\ initPc'[p] = "connecting" <=> initPc[p] = "connecting"
                            /\ main'[p] = "in" => main[p] = "in"
  BY DEF NetInv, TypeOK, Next, InitThread, MainThread, Terminated, vars, initVars,
         Listen, Dial, Notify, Connecting, Wait, Open, Close, Answer, Advance
<1>4. CASE \E p \in Proc : Accept(p) \/ Dialled(p)
  <2>1. PICK p \in Proc : Accept(p) \/ Dialled(p)
    BY <1>4
  <2> DEFINE at == initAt[p]
  <2>2. /\ initPc[p] = "connecting" /\ ~AtEnd(at) /\ UNCHANGED <<initPc, main>>
        /\ initAt' = [initAt EXCEPT ![p] = After(p, at)]
        /\ link'[LinkOf(p, at)] = "up"
    <3>1. at \in Position /\ at.peer \in Proc /\ at.peer # p /\ at.sock \in Sock
      BY SMTT(20), <2>1, NetAssumption DEF NetInv, TypeOK, Connected, Accept, Dialled, Connecting,
                                 AtEnd, Position, Proc
    <3>2. LinkOf(p, at) \in Links
      BY <3>1, NetAssumption DEF LinkOf, Links, Listens, Proc
    <3> QED
      BY <2>1, <3>2 DEF NetInv, TypeOK, Accept, Dialled, Connecting
  <2>3. /\ at \in Position /\ at.peer # p /\ at.sock \in Sock
        /\ initAt \in [Proc -> Position]
    BY <2>2 DEF NetInv, TypeOK, Connected, Position
  <2>4. ASSUME NEW a \in Proc, NEW b \in Proc, NEW s \in Sock, a # b, Visited(a, b, s)'
        PROVE  link'[LinkOf(a, [peer |-> b, sock |-> s])] = "up"
    <3>1. CASE Visited(a, b, s)
      BY <1>1, <1>2, <2>4, <3>1 DEF Connected
    <3>2. CASE ~Visited(a, b, s)
      <4>1. a = p
        BY <2>2, <2>3, <2>4, <3>2 DEF Visited
      <4>2. b = at.peer /\ s = at.sock
        BY <2>2, <2>3, <2>4, <3>2, <4>1, AfterPast DEF Visited
      <4>3. LinkOf(a, [peer |-> b, sock |-> s]) = LinkOf(p, at)
        BY <4>1, <4>2 DEF LinkOf
      <4> QED
        BY <2>2, <4>3
    <3> QED
      BY <3>1, <3>2
  <2>5. ASSUME NEW a \in Proc
        PROVE  /\ ~AtEnd(initAt'[a]) => initAt'[a].peer # a
               /\ initPc'[a] # "connecting" => AtEnd(initAt'[a])
               /\ main'[a] = "in" => initPc'[a] # "connecting"
    <3>1. CASE a = p
      BY <2>2, <2>3, <3>1, AfterType DEF Connected
    <3>2. CASE a # p
      BY <2>2, <2>3, <3>2 DEF Connected
    <3> QED
      BY <3>1, <3>2
  <2> QED
    BY <2>4, <2>5 DEF Connected
<1>5. ASSUME UNCHANGED initAt
      PROVE  \A p, q \in Proc : \A s \in Sock :
               p # q /\ Visited(p, q, s)' => link'[LinkOf(p, [peer |-> q, sock |-> s])] = "up"
  BY <1>1, <1>2, <1>5 DEF Connected, Visited
<1>6. CASE \E p \in Proc : Establish(p)
  <2>1. PICK p \in Proc : Establish(p)
    BY <1>6
  <2>2. /\ UNCHANGED <<initAt, main>> /\ AtEnd(initAt[p])
        /\ initPc' = [initPc EXCEPT ![p] = "established"]
    BY <2>1 DEF Establish
  <2> QED
    BY <1>5, <2>2 DEF Connected, NetInv, TypeOK
<1>7. CASE \E p \in Proc : EnterSync(p)
  <2>1. PICK p \in Proc : EnterSync(p)
    BY <1>7
  <2>2. /\ UNCHANGED <<initAt, initPc>> /\ initPc[p] # "connecting"
        /\ main' = [main EXCEPT ![p] = "in"]
    BY <2>1 DEF EnterSync, initVars
  <2> QED
    BY <1>5, <2>2 DEF Connected, NetInv, TypeOK
<1>8. CASE /\ UNCHANGED <<initAt>>
           /\ \A p \in Proc : /\ initPc'[p] = "connecting" <=> initPc[p] = "connecting"
                              /\ main'[p] = "in" => main[p] = "in"
  BY <1>5, <1>8 DEF Connected
<1> QED
  BY <1>3, <1>4, <1>6, <1>7, <1>8

\* With any number of processes: the main thread finds every connection it
\* uses set up, because it waits for connection_established.
THEOREM EstablishedFirst == Spec => []UsesEstablished
<1>1. NetInv /\ Connected => UsesEstablished
  <2> SUFFICES ASSUME NetInv, Connected, NEW p \in Proc, main[p] = "in", ~AtEnd(syncAt[p])
               PROVE  link[LinkOf(p, syncAt[p])] = "up"
    BY DEF UsesEstablished
  <2> DEFINE q == syncAt[p].peer
             s == syncAt[p].sock
  <2>1. syncAt[p] \in Position /\ q \in Proc /\ q # p /\ s \in Sock
    <3>1. syncAt[p] \in Position
      BY DEF NetInv, TypeOK
    <3> QED
      BY <3>1 DEF NetInv, Where, Position
  <2>2. AtEnd(initAt[p]) /\ initAt[p] \in Position
    BY DEF NetInv, TypeOK, Connected
  <2>3. Visited(p, q, s)
    BY <2>1, <2>2, NetAssumption DEF Visited, AtEnd, Proc, Position
  <2>4. LinkOf(p, [peer |-> q, sock |-> s]) = LinkOf(p, syncAt[p])
    BY DEF LinkOf
  <2> QED
    BY <2>1, <2>3, <2>4 DEF Connected
<1> QED
  BY <1>1, InvInit, InvStep, ConnectedInit, ConnectedStep, PTL DEF Spec
==============================================================================
