--------------------------- MODULE Alignment_proof ---------------------------
(***************************************************************************)
(* Drawing and reading by position never slips: whatever circuit the three *)
(* servers of Correlation walk, and however often, a party uses for a gate *)
(* what the dealer correlated for it, and uses nothing twice.              *)
(***************************************************************************)
EXTENDS Correlation_proof

------------------------------------------------------------------------------
(* A step of a party: what it has used *)

UsedSame(p, h) ==
  /\ used'[p][h] = used[p][h]
  /\ Evaluated(p, h)' <=> Evaluated(p, h)
  /\ SentFor(p, h)' <=> SentFor(p, h)
  /\ PreparedFor(p, h)' <=> PreparedFor(p, h)

LEMMA UsedNext ==
  ASSUME circ' = circ, rep' = rep, dealt' = dealt, NEW p \in Party, UsedSoFar(p),
         \A h \in 1 .. Len(circ) : UsedFor(p, h)' \/ UsedSame(p, h)
  PROVE  UsedSoFar(p)'
<1> SUFFICES ASSUME NEW h \in 1 .. Len(circ) PROVE UsedFor(p, h)'
  BY DEF UsedSoFar
<1>1. Mask(h)' = Mask(h)
  BY DEF Mask, Draw, ConstAt, Consts
<1>2. UsedSame(p, h) => UsedFor(p, h)'
  BY <1>1 DEF UsedSoFar, UsedFor, UsedSame
<1> QED
  BY <1>2

------------------------------------------------------------------------------
(* Preprocessing *)

\* Where a party stands that has prepared the gates before which the dealer was in d.
PreparedUpTo(p, d) ==
  /\ cur[p]["send"] = 0 /\ cur[p]["recv"] = 0 /\ cur[p]["rng01"] = 0
  /\ cur[p]["prep"] = d.cur[p].prep
  /\ turn[p] = d.turn
  /\ readIdx[p] = Wrapped(Len(d.pre[p]), Len(buf[p]))
  /\ \A i \in Idx : /\ prepared[p][i] <=> d.perms[i] # NoQuad
                    /\ out[p][i] = Known(d.perms[i].out[p])
                    /\ back[p][i] = Known(d.perms[i].back[p])

LEMMA OfflineInv ==
  ASSUME NEW p \in Party, phase[p] \in {"prep", "ready"}
  PROVE  PartyInv(p) <=> /\ GotList(p) /\ UsedSoFar(p)
                         /\ PreparedUpTo(p, deals[pos[p]])
<1>1. IsIdle(p) /\ Evaluates(p)
  BY DEF IsIdle, Evaluates, Online
<1> QED
  BY <1>1 DEF PartyInv, Prepares, PreparedUpTo

LEMMA PrepNext ==
  ASSUME ControlInv, NEW p \in Party, PartyInv(p), NEW types, Preparing(p, types),
         NEW g, g = pos[p],
         \A h \in 1 .. Len(circ) : h # g => used'[p][h] = used[p][h],
         UsedFor(p, g)',
         PreparedUpTo(p, deals[g + 1])'
  PROVE  PartyInv(p)'
<1>1. /\ circ' = circ /\ rep' = rep /\ deals' = deals /\ dealt' = dealt /\ buf' = buf
      /\ phase' = phase /\ spos' = spos /\ phase[p] = "prep" /\ g \in Nat /\ pos'[p] = g + 1
  BY TypeFacts, ServerFacts DEF ControlInv, Preparing
<1>2. ASSUME NEW h \in 1 .. Len(circ)
      PROVE  UsedFor(p, h)' \/ UsedSame(p, h)
  <2>1. CASE h = g
    BY <2>1
  <2>2. CASE h # g
    <3>1. h < g + 1 <=> h < g
      BY <1>1, <2>2
    <3>2. /\ Evaluated(p, h)' <=> Evaluated(p, h)
          /\ SentFor(p, h)' <=> SentFor(p, h)
          /\ PreparedFor(p, h)' <=> PreparedFor(p, h)
      BY <1>1, <3>1 DEF Evaluated, SentFor, PreparedFor
    <3> QED
      BY <2>2, <3>2 DEF UsedSame
  <2> QED
    BY <2>1, <2>2
<1>3. UsedSoFar(p)'
  BY <1>1, <1>2, UsedNext DEF PartyInv
<1>4. GotList(p)'
  BY <1>1 DEF PartyInv, GotList, End
<1>5. PreparedUpTo(p, deals[pos[p]])'
  BY <1>1 DEF PreparedUpTo
<1>6. (phase[p] \in {"prep", "ready"})' => (PartyInv(p)' <=> /\ GotList(p)' /\ UsedSoFar(p)'
                         /\ PreparedUpTo(p, deals[pos[p]])')
  BY OfflineInv, PTL
<1> QED
  BY <1>1, <1>3, <1>4, <1>5, <1>6

\* What the gate that p prepares next is, and where p stands.
LEMMA PrepAt ==
  ASSUME ControlInv, History, NEW p \in Party, PartyInv(p), NEW types, Preparing(p, types),
         NEW g, g = pos[p]
  PROVE  /\ g \in 1 .. Len(circ) /\ circ[g].type \in types /\ phase[p] = "prep"
         /\ phase[p] \in Offline \cup Online /\ phase[p] \in Offline \cup Over
         /\ GotList(p) /\ PreparedUpTo(p, deals[g]) /\ UsedFor(p, g)
         /\ circ' = circ /\ rep' = rep /\ deals' = deals /\ dealt' = dealt /\ buf' = buf
         /\ TInv /\ End \in Snapshot
<1>1. g \in 1 .. Len(circ) /\ circ[g].type \in types /\ phase[p] = "prep"
  BY ServerFacts DEF Preparing
<1>2. phase[p] \in Offline \cup Online /\ phase[p] \in Offline \cup Over
  BY <1>1 DEF Offline
<1>3. GotList(p) /\ UsedSoFar(p) /\ PreparedUpTo(p, deals[pos[p]])
  BY <1>1, OfflineInv
<1>4. UsedFor(p, g)
  BY <1>1, <1>3 DEF UsedSoFar
<1>5. TInv /\ End \in Snapshot
  BY <1>2, EndFacts DEF ControlInv
<1> QED
  BY <1>1, <1>2, <1>3, <1>4, <1>5 DEF Preparing

\* A gate that is no multiplication leaves `used' alone.
LEMMA PrepUnused ==
  ASSUME ControlInv, History, NEW p \in Party, PartyInv(p), NEW types, Preparing(p, types),
         NEW g, g = pos[p], circ[g].type # "MulSIMD", used' = used
  PROVE  UsedFor(p, g)'
<1>1. /\ UsedFor(p, g) /\ circ' = circ /\ phase[p] = "prep" /\ phase' = phase
  BY PrepAt DEF Preparing
<1>2. /\ ~Evaluated(p, g) /\ ~SentFor(p, g) /\ ~Evaluated(p, g)' /\ ~SentFor(p, g)'
  BY <1>1 DEF Evaluated, SentFor, Over, Online
<1> QED
  BY <1>1, <1>2 DEF UsedFor

\* The dealer makes and ships a permutation for p at gate g.
FreshOut(p, g, d) == d.perms[circ[g].idx] = NoQuad /\ MadeOut(p, g, d)
FreshBack(p, g, d) == d.perms[circ[g].idx] = NoQuad /\ MadeBack(p, g, d)

LEMMA PrepPerms ==
  ASSUME ControlInv, History, NEW p \in Party, PartyInv(p), NEW types, Preparing(p, types),
         NEW g, g = pos[p], circ[g].type \in PermGate,
         NEW i, i = circ[g].idx, NEW d, d = deals[g], NEW e, e = deals[g + 1],
         cur' = cur, used' = used, turn'[p] = e.turn,
         prepared' = [prepared EXCEPT ![p][i] = TRUE],
         out'[p] = IF FreshOut(p, g, d) THEN [out[p] EXCEPT ![i] = Item(p)] ELSE out[p],
         back'[p] = IF FreshBack(p, g, d) THEN [back[p] EXCEPT ![i] = Item(p)] ELSE back[p],
         readIdx'[p] = IF FreshOut(p, g, d) \/ FreshBack(p, g, d) THEN AfterRead(p)[p] ELSE readIdx[p]
  PROVE  PartyInv(p)'
<1>1. /\ g \in 1 .. Len(circ) /\ phase[p] \in Offline \cup Over /\ phase[p] \in Offline \cup Online
      /\ GotList(p) /\ PreparedUpTo(p, d) /\ buf' = buf /\ TInv /\ End \in Snapshot
  BY PrepAt
<1>2. d \in Snapshot /\ e \in Snapshot /\ Grown(e, End) /\ rep \in Nat /\ VecSize \in Nat /\ g \in Nat
  BY <1>1, GateSteps, GateAt
<1>3. /\ i \in Idx /\ PermDealt(p, g, d, e, dealt[g][p])
      /\ \A j \in Idx : j # i => e.perms[j] = d.perms[j]
      /\ e.perms[i] # NoQuad
      /\ e.perms[i].out[p].by \in {"perm", "send"}
      /\ e.perms[i].back[p].by \in {"perm", "recv"}
      /\ d.perms[i] # NoQuad => e.perms[i] = d.perms[i]
  BY <1>1, PermGateFacts
<1> DEFINE new == d.perms[i] = NoQuad
           o == e.perms[i].out[p]
           b == e.perms[i].back[p]
<1>4. ~(FreshOut(p, g, d) /\ FreshBack(p, g, d))
  BY PartyFacts DEF FreshOut, FreshBack, MadeOut, MadeBack, P0, P1
<1>5. /\ new => o = IF MadeOut(p, g, d) THEN Made("perm", p, g, VecSize)
                    ELSE Draw(p, "send", d.cur[p].send + VecSize, VecSize)
      /\ new => b = IF MadeBack(p, g, d) THEN Made("perm", p, g, VecSize)
                    ELSE Draw(p, "recv", d.cur[p].recv, VecSize)
      /\ e.cur[p].prep = d.cur[p].prep
      /\ e.pre[p] = IF FreshOut(p, g, d) THEN Append(d.pre[p], o)
                    ELSE IF FreshBack(p, g, d) THEN Append(d.pre[p], b) ELSE d.pre[p]
  BY <1>3 DEF PermDealt, FreshOut, FreshBack
<1>6. NoQuad.out[p] = NoToken /\ NoQuad.back[p] = NoToken /\ NoToken.by = "none"
  BY DEF NoQuad, NoTokens, NoToken
<1>7. /\ FreshOut(p, g, d) => o.by = "perm" /\ o \in Token
      /\ FreshBack(p, g, d) => b.by = "perm" /\ b \in Token
      /\ new /\ ~FreshOut(p, g, d) => o.by = "send"
      /\ new /\ ~FreshBack(p, g, d) => b.by = "recv"
  <2>1. Made("perm", p, g, VecSize) \in Token
    BY <1>2, TokenTypes
  <2>2. /\ Made("perm", p, g, VecSize).by = "perm"
        /\ Draw(p, "send", d.cur[p].send + VecSize, VecSize).by = "send"
        /\ Draw(p, "recv", d.cur[p].recv, VecSize).by = "recv"
    BY DEF Made, Draw
  <2>3. /\ FreshOut(p, g, d) => new /\ MadeOut(p, g, d)
        /\ FreshBack(p, g, d) => new /\ MadeBack(p, g, d)
        /\ new /\ ~FreshOut(p, g, d) => ~MadeOut(p, g, d)
        /\ new /\ ~FreshBack(p, g, d) => ~MadeBack(p, g, d)
    BY DEF FreshOut, FreshBack
  <2> HIDE DEF new, o, b
  <2> QED
    BY <1>5, <2>1, <2>2, <2>3
<1> HIDE DEF new, o, b
<1>8. FreshOut(p, g, d) \/ FreshBack(p, g, d) =>
        /\ HasItem(p) /\ Item(p) = IF FreshOut(p, g, d) THEN o ELSE b
        /\ AfterRead(p)[p] = Wrapped(Len(e.pre[p]), Len(buf[p]))
  <2>1. readIdx[p] = Wrapped(Len(d.pre[p]), Len(buf[p]))
    BY <1>1 DEF PreparedUpTo
  <2>2. CASE FreshOut(p, g, d)
    <3>1. e.pre[p] = Append(d.pre[p], o) /\ o \in Token
      BY <1>5, <1>7, <2>2
    <3>2. HasItem(p) /\ Item(p) = o /\ AfterRead(p)[p] = Wrapped(Len(e.pre[p]), Len(buf[p]))
      BY <1>1, <1>2, <2>1, <3>1, ReadPre
    <3> QED
      BY <2>2, <3>2
  <2>3. CASE ~FreshOut(p, g, d) /\ FreshBack(p, g, d)
    <3>1. e.pre[p] = Append(d.pre[p], b) /\ b \in Token
      BY <1>5, <1>7, <2>3
    <3>2. HasItem(p) /\ Item(p) = b /\ AfterRead(p)[p] = Wrapped(Len(e.pre[p]), Len(buf[p]))
      BY <1>1, <1>2, <2>1, <3>1, ReadPre
    <3> QED
      BY <2>3, <3>2
  <2> QED
    BY <2>2, <2>3
<1>9. readIdx'[p] = Wrapped(Len(e.pre[p]), Len(buf[p]))
  <2>1. CASE FreshOut(p, g, d) \/ FreshBack(p, g, d)
    BY <1>8, <2>1
  <2>2. CASE ~(FreshOut(p, g, d) \/ FreshBack(p, g, d))
    BY <1>1, <1>5, <2>2 DEF PreparedUpTo
  <2> QED
    BY <2>1, <2>2
<1>10. ASSUME NEW j \in Idx
       PROVE  /\ prepared'[p][j] <=> e.perms[j] # NoQuad
              /\ out'[p][j] = Known(e.perms[j].out[p])
              /\ back'[p][j] = Known(e.perms[j].back[p])
  <2>1. /\ out[p] \in [Idx -> Token] /\ back[p] \in [Idx -> Token]
        /\ prepared \in [Party -> [Idx -> BOOLEAN]]
    BY <1>1, TypeFacts
  <2>2. /\ prepared[p][j] <=> d.perms[j] # NoQuad
        /\ out[p][j] = Known(d.perms[j].out[p])
        /\ back[p][j] = Known(d.perms[j].back[p])
    BY <1>1 DEF PreparedUpTo
  <2>3. prepared'[p][j] = IF j = i THEN TRUE ELSE prepared[p][j]
    BY <1>3, <2>1
  <2>4. prepared'[p][j] <=> e.perms[j] # NoQuad
    BY <1>3, <2>2, <2>3
  <2>5. CASE j # i
    <3>1. out'[p][j] = out[p][j] /\ back'[p][j] = back[p][j]
      BY <2>1, <2>5
    <3> QED
      BY <1>3, <2>2, <2>4, <2>5, <3>1
  <2>6. CASE j = i /\ ~new
    <3>1. ~FreshOut(p, g, d) /\ ~FreshBack(p, g, d)
      BY <2>6 DEF new, FreshOut, FreshBack
    <3> QED
      BY <1>3, <2>2, <2>4, <2>6, <3>1 DEF new
  <2>7. CASE j = i /\ new
    <3>1. Known(NoToken) = NoToken
      BY DEF Known
    <3>2. out[p][i] = NoToken /\ back[p][i] = NoToken
      BY <1>6, <2>2, <2>7, <3>1 DEF new
    <3>3. out'[p][i] = Known(o)
      <4>1. CASE FreshOut(p, g, d)
        BY <1>3, <1>7, <1>8, <2>1, <4>1 DEF Known
      <4>2. CASE ~FreshOut(p, g, d)
        BY <1>7, <2>7, <3>2, <4>2 DEF Known
      <4> QED
        BY <4>1, <4>2
    <3>4. back'[p][i] = Known(b)
      <4>1. CASE FreshBack(p, g, d)
        BY <1>3, <1>4, <1>7, <1>8, <2>1, <4>1 DEF Known
      <4>2. CASE ~FreshBack(p, g, d)
        BY <1>7, <2>7, <3>2, <4>2 DEF Known
      <4> QED
        BY <4>1, <4>2
    <3> QED
      BY <2>4, <2>7, <3>3, <3>4 DEF o, b
  <2> QED
    BY <2>5, <2>6, <2>7
<1>11. PreparedUpTo(p, deals[g + 1])'
  <2>1. deals' = deals
    BY PrepAt
  <2>2. \A t : Known(t)' = Known(t)
    BY DEF Known
  <2>3. /\ cur'[p]["send"] = 0 /\ cur'[p]["recv"] = 0 /\ cur'[p]["rng01"] = 0
        /\ cur'[p]["prep"] = e.cur[p].prep
    BY <1>1, <1>5 DEF PreparedUpTo
  <2> QED
    BY <1>1, <1>9, <1>10, <2>1, <2>3 DEF PreparedUpTo
<1>12. UsedFor(p, g)'
  <2>1. circ[g].type # "MulSIMD"
    BY DEF PermGate
  <2> QED
    BY <2>1, PrepUnused
<1> QED
  BY <1>11, <1>12, PrepNext

LEMMA PrepShuffleInv ==
  ASSUME ControlInv, History, NEW p \in Party, PartyInv(p), PrepShuffle(p)
  PROVE  PartyInv(p)'
<1> DEFINE g == pos[p]
           i == circ[g].idx
           d == deals[g]
           e == deals[g + 1]
<1>1. Preparing(p, {"Shuffle"})
  BY DEF PrepShuffle
<1>2. /\ g \in 1 .. Len(circ) /\ circ[g].type = "Shuffle" /\ phase[p] \in Offline \cup Over
      /\ PreparedUpTo(p, d) /\ TInv
  BY <1>1, PrepAt
<1>3. HandledAs(g, d, e, dealt[g]) /\ i \in Idx
  BY <1>2, GateSteps, GateAt
<1>4. e.turn = Other(d.turn)
  BY <1>2, <1>3 DEF HandledAs, PermGate
<1>5. turn[p] = d.turn /\ (prepared[p][i] <=> d.perms[i] # NoQuad)
  BY <1>2, <1>3 DEF PreparedUpTo
<1>6. /\ turn \in [Party -> Party] /\ out \in [Party -> [Idx -> Token]]
      /\ back \in [Party -> [Idx -> Token]] /\ readIdx \in [Party -> Nat]
  BY <1>2, TypeFacts
<1>7. /\ cur' = cur /\ used' = used /\ turn'[p] = e.turn
      /\ prepared' = [prepared EXCEPT ![p][i] = TRUE]
  BY <1>4, <1>5, <1>6 DEF PrepShuffle
<1>8. /\ FreshOut(p, g, d) <=> turn[p] = p /\ ~prepared[p][i] /\ p = P0
      /\ FreshBack(p, g, d) <=> turn[p] = p /\ ~prepared[p][i] /\ p = P1
  BY <1>2, <1>5 DEF FreshOut, FreshBack, MadeOut, MadeBack
<1>9. /\ out'[p] = IF FreshOut(p, g, d) THEN [out[p] EXCEPT ![i] = Item(p)] ELSE out[p]
      /\ back'[p] = IF FreshBack(p, g, d) THEN [back[p] EXCEPT ![i] = Item(p)] ELSE back[p]
      /\ readIdx'[p] = IF FreshOut(p, g, d) \/ FreshBack(p, g, d) THEN AfterRead(p)[p] ELSE readIdx[p]
  <2>1. CASE turn[p] = p /\ ~prepared[p][i]
    <3>1. /\ readIdx' = AfterRead(p)
          /\ out' = IF p = P0 THEN [out EXCEPT ![p][i] = Item(p)] ELSE out
          /\ back' = IF p = P1 THEN [back EXCEPT ![p][i] = Item(p)] ELSE back
      BY <2>1 DEF PrepShuffle
    <3>2. (p = P0 \/ p = P1) /\ P0 # P1
      BY ServerFacts
    <3> QED
      BY <1>6, <1>8, <2>1, <3>1, <3>2
  <2>2. CASE ~(turn[p] = p /\ ~prepared[p][i])
    <3>1. readIdx' = readIdx /\ out' = out /\ back' = back
      BY <2>2 DEF PrepShuffle
    <3> QED
      BY <1>8, <2>2, <3>1
  <2> QED
    BY <2>1, <2>2
<1>10. circ[g].type \in PermGate
  BY <1>2 DEF PermGate
<1> HIDE DEF g, i, d, e
<1>11. g = pos[p] /\ i = circ[g].idx /\ d = deals[g] /\ e = deals[g + 1]
  BY DEF g, i, d, e
<1> QED
  BY <1>1, <1>7, <1>9, <1>10, <1>11, PrepPerms

LEMMA PrepMergedInv ==
  ASSUME ControlInv, History, NEW p \in Party, PartyInv(p), PrepMergedShuffle(p)
  PROVE  PartyInv(p)'
<1> DEFINE g == pos[p]
           i == circ[g].idx
           d == deals[g]
           e == deals[g + 1]
<1>1. Preparing(p, {"MergedShuffle"})
  BY DEF PrepMergedShuffle
<1>2. /\ g \in 1 .. Len(circ) /\ circ[g].type = "MergedShuffle" /\ phase[p] \in Offline \cup Over
      /\ PreparedUpTo(p, d) /\ TInv
  BY <1>1, PrepAt
<1>3. HandledAs(g, d, e, dealt[g]) /\ i \in Idx
  BY <1>2, GateSteps, GateAt
<1>4. e.turn = d.turn
  BY <1>2, <1>3 DEF HandledAs, PermGate
<1>5. turn[p] = d.turn /\ (prepared[p][i] <=> d.perms[i] # NoQuad)
  BY <1>2, <1>3 DEF PreparedUpTo
<1>6. /\ turn \in [Party -> Party] /\ out \in [Party -> [Idx -> Token]]
      /\ back \in [Party -> [Idx -> Token]] /\ readIdx \in [Party -> Nat]
  BY <1>2, TypeFacts
<1>7. /\ cur' = cur /\ used' = used /\ turn'[p] = e.turn
      /\ prepared' = [prepared EXCEPT ![p][i] = TRUE]
  BY <1>4, <1>5, <1>6 DEF PrepMergedShuffle
<1>8. /\ FreshOut(p, g, d) <=> ~prepared[p][i]
      /\ ~FreshBack(p, g, d)
  BY <1>2, <1>5 DEF FreshOut, FreshBack, MadeOut, MadeBack
<1>9. /\ out'[p] = IF FreshOut(p, g, d) THEN [out[p] EXCEPT ![i] = Item(p)] ELSE out[p]
      /\ back'[p] = IF FreshBack(p, g, d) THEN [back[p] EXCEPT ![i] = Item(p)] ELSE back[p]
      /\ readIdx'[p] = IF FreshOut(p, g, d) \/ FreshBack(p, g, d) THEN AfterRead(p)[p] ELSE readIdx[p]
  <2>1. CASE ~prepared[p][i]
    <3>1. /\ readIdx' = AfterRead(p) /\ out' = [out EXCEPT ![p][i] = Item(p)] /\ back' = back
      BY <2>1 DEF PrepMergedShuffle
    <3> QED
      BY <1>6, <1>8, <2>1, <3>1
  <2>2. CASE prepared[p][i]
    <3>1. readIdx' = readIdx /\ out' = out /\ back' = back
      BY <2>2 DEF PrepMergedShuffle
    <3> QED
      BY <1>8, <2>2, <3>1
  <2> QED
    BY <2>1, <2>2
<1>10. circ[g].type \in PermGate
  BY <1>2 DEF PermGate
<1> HIDE DEF g, i, d, e
<1>11. g = pos[p] /\ i = circ[g].idx /\ d = deals[g] /\ e = deals[g + 1]
  BY DEF g, i, d, e
<1> QED
  BY <1>1, <1>7, <1>9, <1>10, <1>11, PrepPerms

LEMMA PrepTripleInv ==
  ASSUME ControlInv, History, NEW p \in Party, PartyInv(p), PrepTriple(p),
         NEW g, g = pos[p]
  PROVE  PartyInv(p)'
<1> DEFINE d == deals[g]
           e == deals[g + 1]
           n == circ[g].size
           c == Made("c", p, g, n)
           at == cur[p]["prep"]
<1>1. Preparing(p, {"MulSIMD"})
  BY DEF PrepTriple
<1>2. /\ g \in 1 .. Len(circ) /\ circ[g].type = "MulSIMD" /\ phase[p] \in Offline \cup Over
      /\ phase[p] \in Offline \cup Online /\ phase[p] = "prep" /\ GotList(p)
      /\ PreparedUpTo(p, d) /\ TInv /\ UsedFor(p, g) /\ circ' = circ /\ dealt' = dealt
      /\ deals' = deals /\ buf' = buf /\ End \in Snapshot /\ phase' = phase
  BY <1>1, PrepAt DEF Preparing
<1>3. /\ HandledAs(g, d, e, dealt[g]) /\ d \in Snapshot /\ e \in Snapshot /\ Grown(e, End)
      /\ n \in Nat /\ g \in Nat /\ rep \in Nat
  BY <1>2, GateSteps, GateAt
<1>4. /\ TripleDealt(p, g, d, e, dealt[g][p]) /\ e.turn = Other(d.turn) /\ e.perms = d.perms
  BY <1>2, <1>3 DEF HandledAs
<1>5. turn[p] = d.turn /\ at = d.cur[p].prep /\ readIdx[p] = Wrapped(Len(d.pre[p]), Len(buf[p]))
  BY <1>2 DEF PreparedUpTo
<1>6. /\ turn \in [Party -> Party] /\ cur \in [Party -> [Stream -> Nat]]
      /\ readIdx \in [Party -> Nat] /\ used \in [Party -> [1 .. Len(circ) -> Use]]
  BY <1>2, TypeFacts, CircuitFacts
<1>7. d.turn = p => /\ HasItem(p) /\ Item(p) = c
                    /\ AfterRead(p)[p] = Wrapped(Len(e.pre[p]), Len(buf[p]))
  <2>1. c \in Token
    BY <1>3, TokenTypes
  <2>2. d.turn = p => e.pre[p] = Append(d.pre[p], c)
    BY <1>4 DEF TripleDealt
  <2> HIDE DEF d, e, c
  <2> QED
    BY <1>2, <1>3, <1>5, <2>1, <2>2, ReadPre
<1>8. used'[p][g] = dealt[g][p] /\ \A h \in 1 .. Len(circ) : h # g => used'[p][h] = used[p][h]
  <2>1. dealt[g][p] = [a |-> Draw(p, "prep", at, n), b |-> Draw(p, "prep", at + n, n),
                       c |-> IF d.turn = p THEN c ELSE Draw(p, "prep", at + 2 * n, n)]
    BY <1>4, <1>5 DEF TripleDealt
  <2> DEFINE u == [a |-> Draw(p, "prep", at, n), b |-> Draw(p, "prep", at + n, n),
                   c |-> IF turn[p] = p THEN Item(p) ELSE Draw(p, "prep", at + 2 * n, n)]
  <2>2. used' = [used EXCEPT ![p][g] = u]
    BY DEF PrepTriple
  <2>3. u = dealt[g][p]
    BY <1>5, <1>7, <2>1
  <2> HIDE DEF u
  <2> QED
    BY <1>2, <1>6, <2>2, <2>3
<1>9. UsedFor(p, g)'
  <2>1. PreparedFor(p, g)'
    BY <1>1, <1>2, <1>3, TypeFacts, ServerFacts DEF Preparing, PreparedFor
  <2> QED
    BY <1>2, <1>8, <2>1 DEF UsedFor, PermGate
<1>10. /\ cur'[p]["prep"] = e.cur[p].prep
       /\ \A s \in {"send", "recv", "rng01"} : cur'[p][s] = cur[p][s]
  <2> DEFINE v == at + (IF turn[p] = p THEN 2 ELSE 3) * n
  <2>1. cur' = [cur EXCEPT ![p]["prep"] = v]
    BY DEF PrepTriple
  <2>2. e.cur[p].prep = v
    BY <1>4, <1>5 DEF TripleDealt
  <2> HIDE DEF v
  <2>3. "prep" \in Stream /\ \A s \in {"send", "recv", "rng01"} : s \in Stream /\ s # "prep"
    BY DEF Stream
  <2> QED
    BY <1>6, <2>1, <2>2, <2>3
<1>11. turn'[p] = e.turn
  BY <1>4, <1>5, <1>6 DEF PrepTriple
<1>12. readIdx'[p] = Wrapped(Len(e.pre[p]), Len(buf[p]))
  <2>1. CASE d.turn = p
    <3>1. readIdx' = AfterRead(p)
      BY <1>5, <2>1 DEF PrepTriple
    <3> QED
      BY <1>7, <2>1, <3>1
  <2>2. CASE d.turn # p
    <3>1. readIdx' = readIdx
      BY <1>5, <2>2 DEF PrepTriple
    <3>2. e.pre[p] = d.pre[p]
      BY <1>4, <2>2 DEF TripleDealt
    <3> QED
      BY <1>5, <3>1, <3>2
  <2> QED
    BY <2>1, <2>2
<1>13. out' = out /\ back' = back /\ prepared' = prepared
  BY DEF PrepTriple
<1>14. PreparedUpTo(p, deals[g + 1])'
  <2>1. deals'[g + 1] = e
    BY <1>2
  <2>2. \A i \in Idx : /\ prepared[p][i] <=> e.perms[i] # NoQuad
                       /\ out[p][i] = Known(e.perms[i].out[p])
                       /\ back[p][i] = Known(e.perms[i].back[p])
    BY <1>2, <1>4 DEF PreparedUpTo
  <2>3. cur[p]["send"] = 0 /\ cur[p]["recv"] = 0 /\ cur[p]["rng01"] = 0
    BY <1>2 DEF PreparedUpTo
  <2> HIDE DEF d, e
  <2> QED
    BY <1>2, <1>10, <1>11, <1>12, <1>13, <2>1, <2>2, <2>3 DEF PreparedUpTo
<1> QED
  BY <1>1, <1>8, <1>9, <1>14, PrepNext

LEMMA PrepNothingInv ==
  ASSUME ControlInv, History, NEW p \in Party, PartyInv(p), PrepNothing(p),
         NEW g, g = pos[p]
  PROVE  PartyInv(p)'
<1> DEFINE d == deals[g]
           e == deals[g + 1]
<1>1. Preparing(p, {"Unshuffle", "SetConstVecSIMD"})
  BY DEF PrepNothing
<1>2. /\ g \in 1 .. Len(circ) /\ circ[g].type \in {"Unshuffle", "SetConstVecSIMD"}
      /\ phase[p] \in Offline \cup Over
      /\ PreparedUpTo(p, d) /\ deals' = deals /\ buf' = buf
  BY <1>1, PrepAt
<1>3. HandledAs(g, d, e, dealt[g])
  BY <1>2, GateSteps
<1>4. e.turn = d.turn /\ e.perms = d.perms /\ e.pre[p] = d.pre[p] /\ e.cur[p].prep = d.cur[p].prep
  <2>1. CASE circ[g].type = "Unshuffle"
    <3>1. UnshuffleDealt(p, g, d, e, dealt[g][p]) /\ e.turn = d.turn /\ e.perms = d.perms
      BY <1>3, <2>1 DEF HandledAs
    <3> QED
      BY <3>1 DEF UnshuffleDealt
  <2>2. CASE circ[g].type = "SetConstVecSIMD"
    BY <1>3, <2>2 DEF HandledAs
  <2> QED
    BY <1>2, <2>1, <2>2
<1>5. UNCHANGED <<turn, cur, readIdx, out, back, prepared, used>>
  BY DEF PrepNothing
<1>6. PreparedUpTo(p, deals[g + 1])'
  BY <1>2, <1>4, <1>5 DEF PreparedUpTo
<1>7. UsedFor(p, g)'
  BY <1>1, <1>2, <1>5, PrepUnused
<1> QED
  BY <1>1, <1>5, <1>6, <1>7, PrepNext

LEMMA PrepDoneInv ==
  ASSUME ControlInv, History, NEW p \in Party, PartyInv(p), PrepDone(p)
  PROVE  PartyInv(p)'
<1>1. /\ phase[p] = "prep" /\ phase'[p] = "ready" /\ pos[p] = Len(circ) + 1 /\ Len(circ) \in Nat
      /\ UNCHANGED <<circ, rep, pos, spos, deals, dealt, turn, cur, buf, readIdx, out, back,
                     prepared, inbox, used>>
  <2>1. phase \in [Server -> Phases] /\ p \in Server
    BY TypeFacts, PartyFacts DEF ControlInv
  <2>2. pos[p] > Len(circ) /\ phase[p] = "prep" /\ phase'[p] = "ready"
    BY <2>1 DEF PrepDone
  <2>3. pos[p] <= Len(circ) + 1
    BY <2>2 DEF ControlInv, Placed
  <2> QED
    BY <2>2, <2>3, ServerFacts DEF PrepDone, partyVars
<1>2. GotList(p) /\ UsedSoFar(p) /\ PreparedUpTo(p, deals[pos[p]])
  BY <1>1, OfflineInv
<1>3. UsedSoFar(p)'
  <2>1. ASSUME NEW h \in 1 .. Len(circ)
        PROVE  UsedSame(p, h)
    <3>1. h < pos[p]
      BY <1>1
    <3> QED
      BY <1>1, <3>1 DEF UsedSame, Evaluated, SentFor, PreparedFor, Over, Online
  <2> QED
    BY <1>1, <1>2, <2>1, UsedNext
<1>4. GotList(p)'
  BY <1>1, <1>2 DEF GotList, End, Offline
<1>5. PreparedUpTo(p, deals[pos[p]])'
  BY <1>1, <1>2 DEF PreparedUpTo
<1>6. (phase[p] \in {"prep", "ready"})' => (PartyInv(p)' <=> /\ GotList(p)' /\ UsedSoFar(p)'
                         /\ PreparedUpTo(p, deals[pos[p]])')
  BY OfflineInv, PTL
<1> QED
  BY <1>1, <1>3, <1>4, <1>5, <1>6

LEMMA SeedsInv ==
  ASSUME ControlInv, History, NEW p \in Party, PartyInv(p), ReceiveSeeds(p)
  PROVE  PartyInv(p)'
<1>1. /\ phase[p] = "seeded" /\ phase'[p] = "prep" /\ pos[p] = 1
      /\ UNCHANGED <<circ, rep, pos, spos, deals, dealt, buf, readIdx, out, back,
                     prepared, inbox, used>>
      /\ turn'[p] = P0 /\ \A s \in Stream : cur'[p][s] = 0
  <2>1. phase \in [Server -> Phases] /\ p \in Server
    BY TypeFacts, PartyFacts DEF ControlInv
  <2>2. phase[p] = "seeded" /\ phase'[p] = "prep"
    BY <2>1 DEF ReceiveSeeds
  <2>3. pos[p] = 1
    BY <2>2 DEF ControlInv, Placed
  <2>4. turn \in [Party -> Party] /\ cur \in [Party -> [Stream -> Nat]]
    BY TypeFacts DEF ControlInv
  <2>5. turn'[p] = P0 /\ \A s \in Stream : cur'[p][s] = 0
    BY <2>4 DEF ReceiveSeeds
  <2> QED
    BY <2>2, <2>3, <2>5 DEF ReceiveSeeds
<1>2. /\ readIdx[p] = 0
      /\ \A i \in Idx : out[p][i] = NoToken /\ back[p][i] = NoToken /\ ~prepared[p][i]
      /\ GotList(p) /\ UsedSoFar(p)
  BY <1>1 DEF PartyInv, IsIdle
<1>3. UsedSoFar(p)'
  <2>1. ASSUME NEW h \in 1 .. Len(circ)
        PROVE  UsedSame(p, h)
    <3>1. ~(h < pos[p])
      BY <1>1
    <3> QED
      BY <1>1, <3>1 DEF UsedSame, Evaluated, SentFor, PreparedFor, Over, Online
  <2> QED
    BY <1>1, <1>2, <2>1, UsedNext
<1>4. GotList(p)'
  BY <1>1, <1>2 DEF GotList, End, Offline
<1>5. PreparedUpTo(p, deals[pos[p]])'
  <2>1. deals'[pos'[p]] = Deal0
    BY <1>1 DEF History
  <2>2. /\ Deal0.cur[p].prep = 0 /\ Deal0.turn = P0 /\ Deal0.pre[p] = <<>>
        /\ \A i \in Idx : Deal0.perms[i] = NoQuad
    BY DEF Deal0
  <2>3. /\ NoQuad.out[p] = NoToken /\ NoQuad.back[p] = NoToken /\ Known(NoToken) = NoToken
    BY DEF NoQuad, NoTokens, NoToken, Known
  <2>4. Len(<<>>) = 0 /\ \A n : Wrapped(0, n) = 0
    BY DEF Wrapped
  <2>5. {"prep", "send", "recv", "rng01"} = Stream
    BY DEF Stream
  <2> QED
    BY <1>1, <1>2, <2>1, <2>2, <2>3, <2>4, <2>5 DEF PreparedUpTo
<1>6. (phase[p] \in {"prep", "ready"})' => (PartyInv(p)' <=> /\ GotList(p)' /\ UsedSoFar(p)'
                         /\ PreparedUpTo(p, deals[pos[p]])')
  BY OfflineInv, PTL
<1> QED
  BY <1>1, <1>3, <1>4, <1>5, <1>6

LEMMA PrepInv ==
  ASSUME ControlInv, History, NEW p \in Party, PartyInv(p), PrepStep(p)
  PROVE  PartyInv(p)'
BY SeedsInv, PrepShuffleInv, PrepMergedInv, PrepTripleInv, PrepNothingInv, PrepDoneInv DEF PrepStep

------------------------------------------------------------------------------
(* Evaluation *)

\* Filling in the parts of a use, one after the other.
LEMMA FillSend ==
  ASSUME NEW r, NEW s
  PROVE  [NoUse EXCEPT !.R = r, !.send = s] = [R |-> r, send |-> s, recv |-> NoToken, B |-> NoToken]
<1> DEFINE n == NoToken
           x == [R |-> n, send |-> n, recv |-> n, B |-> n]
<1> HIDE DEF n
<1>1. [x EXCEPT !.R = r] = [R |-> r, send |-> n, recv |-> n, B |-> n]
  OBVIOUS
<1>2. [[R |-> r, send |-> n, recv |-> n, B |-> n] EXCEPT !.send = s]
        = [R |-> r, send |-> s, recv |-> n, B |-> n]
  OBVIOUS
<1>3. [x EXCEPT !.R = r, !.send = s] = [[x EXCEPT !.R = r] EXCEPT !.send = s]
  OBVIOUS
<1>4. NoUse = x
  BY DEF NoUse, n
<1> HIDE DEF x
<1> QED
  BY <1>1, <1>2, <1>3, <1>4 DEF n

LEMMA FillRest ==
  ASSUME NEW r, NEW s, NEW v, NEW w, NEW x, NEW y,
         x = [R |-> r, send |-> s, recv |-> NoToken, B |-> NoToken],
         y = [x EXCEPT !.recv = v, !.B = w]
  PROVE  y = [R |-> r, send |-> s, recv |-> v, B |-> w]
<1> DEFINE n == NoToken
<1> HIDE DEF n
<1>1. [x EXCEPT !.recv = v] = [R |-> r, send |-> s, recv |-> v, B |-> n]
  BY DEF n
<1>2. [[R |-> r, send |-> s, recv |-> v, B |-> n] EXCEPT !.B = w]
        = [R |-> r, send |-> s, recv |-> v, B |-> w]
  OBVIOUS
<1>3. [x EXCEPT !.recv = v, !.B = w] = [[x EXCEPT !.recv = v] EXCEPT !.B = w]
  OBVIOUS
<1> QED
  BY <1>1, <1>2, <1>3

LEMMA FillMask ==
  ASSUME NEW r
  PROVE  [NoUse EXCEPT !.R = r] = [R |-> r, send |-> NoToken, recv |-> NoToken, B |-> NoToken]
<1> DEFINE n == NoToken
<1>1. NoUse = [R |-> n, send |-> n, recv |-> n, B |-> n]
  BY DEF NoUse
<1> HIDE DEF n
<1>2. [[R |-> n, send |-> n, recv |-> n, B |-> n] EXCEPT !.R = r]
        = [R |-> r, send |-> n, recv |-> n, B |-> n]
  OBVIOUS
<1> QED
  BY <1>1, <1>2 DEF n

\* Where a party stands that has sent what the dealer had dealt with in state
\* s and received what it had dealt with in r.
Walked(p, s, r, c) ==
  /\ cur[p]["send"] = s.cur[p].send
  /\ cur[p]["recv"] = r.cur[p].recv
  /\ cur[p]["rng01"] = c
  /\ readIdx[p] = Wrapped(Len(End.pre[p]) + Len(r.B[p]), Len(buf[p]))
  /\ \A i \in Idx : /\ out[p][i] = Seen(End.perms[i].out[p], s.perms[i].out[p])
                    /\ back[p][i] = Seen(End.perms[i].back[p], r.perms[i].back[p])

LEMMA OnlineInv ==
  ASSUME NEW p \in Party, phase[p] \in Online
  PROVE  PartyInv(p) <=> /\ GotList(p) /\ UsedSoFar(p)
                         /\ Walked(p, deals[spos[p]], deals[pos[p]], ConstAt(pos[p]))
<1>1. IsIdle(p) /\ Prepares(p)
  BY DEF IsIdle, Prepares, Online
<1> QED
  BY <1>1 DEF PartyInv, Evaluates, Walked

LEMMA SendAt ==
  ASSUME ControlInv, History, NEW p \in Party, PartyInv(p), NEW types, Sending(p, types),
         NEW g, g = spos[p], NEW b, b = pos[p]
  PROVE  /\ g \in 1 .. Len(circ) /\ b \in 1 .. g /\ circ[g].type \in types
         /\ circ[g].level = circ[b].level /\ phase[p] = "send" /\ spos'[p] = g + 1
         /\ phase[p] \in Offline \cup Over /\ phase[p] \in Online
         /\ GotList(p) /\ UsedFor(p, g) /\ Walked(p, deals[g], deals[b], ConstAt(b))
         /\ TInv /\ UNCHANGED <<circ, rep, phase, pos, deals, dealt, buf, readIdx, back>>
<1>1. /\ g \in Nat \ {0} /\ g <= Len(circ) /\ b \in Nat \ {0} /\ phase[p] = "send"
      /\ circ[g].level = circ[b].level /\ circ[g].type \in types /\ Len(circ) \in Nat
      /\ spos \in [Party -> Nat \ {0}]
  BY ServerFacts, TypeFacts DEF ControlInv, Sending, LayerSent, Level
<1>2. b <= g
  BY <1>1 DEF ControlInv, Placed, Over, Online
<1>3. phase[p] \in Offline \cup Over /\ phase[p] \in Online
  BY <1>1 DEF Over, Online
<1>4. GotList(p) /\ UsedSoFar(p) /\ Walked(p, deals[g], deals[b], ConstAt(b))
  BY <1>3, OnlineInv
<1>5. UsedFor(p, g)
  BY <1>1, <1>4 DEF UsedSoFar
<1>6. spos'[p] = g + 1
  BY <1>1 DEF Sending
<1> QED
  BY <1>1, <1>2, <1>3, <1>4, <1>5, <1>6 DEF Sending, ControlInv

LEMMA SendNext ==
  ASSUME ControlInv, History, NEW p \in Party, PartyInv(p), NEW types, Sending(p, types),
         NEW g, g = spos[p], NEW b, b = pos[p],
         \A h \in 1 .. Len(circ) : h # g => used'[p][h] = used[p][h],
         UsedFor(p, g)',
         Walked(p, deals[g + 1], deals[b], ConstAt(b))'
  PROVE  PartyInv(p)'
<1>1. /\ g \in 1 .. Len(circ) /\ b \in 1 .. g /\ phase[p] = "send" /\ spos'[p] = g + 1
      /\ GotList(p) /\ phase[p] \in Online
      /\ UNCHANGED <<circ, rep, phase, pos, deals, dealt, buf, readIdx, back>>
  BY SendAt
<1>2. UsedSoFar(p)
  BY DEF PartyInv
<1>3. ASSUME NEW h \in 1 .. Len(circ)
      PROVE  UsedFor(p, h)' \/ UsedSame(p, h)
  <2>1. CASE h = g
    BY <2>1
  <2>2. CASE h # g
    <3>1. h < g + 1 <=> h < g
      BY <1>1, <2>2
    <3>2. /\ Evaluated(p, h)' <=> Evaluated(p, h)
          /\ SentFor(p, h)' <=> SentFor(p, h)
          /\ PreparedFor(p, h)' <=> PreparedFor(p, h)
      BY <1>1, <3>1 DEF Evaluated, SentFor, PreparedFor
    <3> QED
      BY <2>2, <3>2 DEF UsedSame
  <2> QED
    BY <2>1, <2>2
<1>4. UsedSoFar(p)'
  BY <1>1, <1>2, <1>3, UsedNext
<1>5. GotList(p)'
  BY <1>1 DEF GotList, End
<1>6. Walked(p, deals[spos[p]], deals[pos[p]], ConstAt(pos[p]))'
  BY <1>1 DEF Walked, ConstAt, Consts
<1>7. (phase[p] \in Online)' => (PartyInv(p)' <=> /\ GotList(p)' /\ UsedSoFar(p)'
                         /\ Walked(p, deals[spos[p]], deals[pos[p]], ConstAt(pos[p]))')
  BY OnlineInv, PTL
<1>8. (phase[p] \in Online)'
  BY <1>1 DEF Online
<1> QED
  BY <1>4, <1>5, <1>6, <1>7, <1>8

LEMMA SendShuffleInv ==
  ASSUME ControlInv, History, NEW p \in Party, PartyInv(p), SendShuffle(p),
         NEW g, g = spos[p], NEW b, b = pos[p]
  PROVE  PartyInv(p)'
<1> DEFINE i == circ[g].idx
           s == deals[g]
           e == deals[g + 1]
           at == cur[p]["send"]
           fin == End.perms[i].out[p]
           new == out[p][i] = NoToken
           perm == IF new THEN Draw(p, "send", at + VecSize, VecSize) ELSE out[p][i]
           m == at + (IF new THEN 2 ELSE 1) * VecSize
           u == [NoUse EXCEPT !.R = Draw(p, "send", at, VecSize), !.send = perm]
<1>1. /\ Sending(p, PermGate)
      /\ cur' = [cur EXCEPT ![p]["send"] = m] /\ out' = [out EXCEPT ![p][i] = perm]
      /\ used' = [used EXCEPT ![p][g] = u]
  BY DEF SendShuffle
<1>2. /\ g \in 1 .. Len(circ) /\ b \in 1 .. g /\ circ[g].type \in PermGate
      /\ phase[p] = "send" /\ spos'[p] = g + 1 /\ phase[p] \in Offline \cup Over
      /\ UsedFor(p, g) /\ Walked(p, deals[g], deals[b], ConstAt(b)) /\ TInv
      /\ UNCHANGED <<circ, rep, phase, pos, deals, dealt, buf, readIdx, back>>
  BY <1>1, SendAt
<1>3. /\ i \in Idx /\ PermDealt(p, g, s, e, dealt[g][p])
      /\ \A j \in Idx : j # i => e.perms[j] = s.perms[j]
      /\ End.perms[i] = e.perms[i] /\ e.perms[i] # NoQuad
      /\ fin.by \in {"perm", "send"}
      /\ s.perms[i] # NoQuad => e.perms[i] = s.perms[i]
  BY <1>2, PermGateFacts
<1>4. /\ at = s.cur[p].send /\ out[p][i] = Seen(fin, s.perms[i].out[p])
  BY <1>2, <1>3 DEF Walked
<1>5. /\ cur \in [Party -> [Stream -> Nat]] /\ out \in [Party -> [Idx -> Token]]
      /\ used \in [Party -> [1 .. Len(circ) -> Use]] /\ at \in Nat /\ VecSize \in Nat
  BY <1>2, TypeFacts, CircuitFacts DEF Stream
<1>6. NoQuad.out[p] = NoToken /\ NoToken.by = "none"
  BY DEF NoQuad, NoTokens, NoToken
<1>7. new <=> s.perms[i] = NoQuad /\ ~MadeOut(p, g, s)
  <2>1. CASE s.perms[i] # NoQuad
    <3>1. out[p][i] = fin
      BY <1>3, <1>4, <2>1 DEF Seen
    <3> HIDE DEF fin
    <3>2. ~new
      BY <1>3, <1>6, <3>1
    <3> QED
      BY <2>1, <3>2
  <2>2. CASE s.perms[i] = NoQuad
    <3>1. fin = IF MadeOut(p, g, s) THEN Made("perm", p, g, VecSize)
                ELSE Draw(p, "send", s.cur[p].send + VecSize, VecSize)
      BY <1>3, <2>2 DEF PermDealt
    <3>2. /\ Made("perm", p, g, VecSize).by = "perm"
          /\ Draw(p, "send", s.cur[p].send + VecSize, VecSize).by = "send"
      BY DEF Made, Draw
    <3>3. s.perms[i].out[p] = NoToken
      BY <1>6, <2>2
    <3> HIDE DEF fin
    <3>4. CASE MadeOut(p, g, s)
      <4>1. fin.by = "perm"
        BY <3>1, <3>2, <3>4
      <4>2. out[p][i] = fin
        BY <1>4, <4>1 DEF Seen
      <4> QED
        BY <1>6, <3>4, <4>1, <4>2
    <3>5. CASE ~MadeOut(p, g, s)
      <4>1. fin.by = "send"
        BY <3>1, <3>2, <3>5
      <4>2. out[p][i] = NoToken
        BY <1>4, <3>3, <4>1 DEF Seen
      <4> QED
        BY <2>2, <3>5, <4>2
    <3> QED
      BY <3>4, <3>5
  <2> QED
    BY <2>1, <2>2
<1>8. perm = fin
  <2>1. CASE new
    BY <1>3, <1>4, <1>7, <2>1 DEF PermDealt
  <2>2. CASE ~new
    <3>1. Seen(fin, s.perms[i].out[p]) = fin
      <4>1. CASE s.perms[i] = NoQuad
        <5>1. fin = Made("perm", p, g, VecSize)
          BY <1>3, <1>7, <2>2, <4>1 DEF PermDealt
        <5>2. Made("perm", p, g, VecSize).by = "perm"
          BY DEF Made
        <5> HIDE DEF fin
        <5> QED
          BY <5>1, <5>2 DEF Seen
      <4>2. CASE s.perms[i] # NoQuad
        BY <1>3, <4>2 DEF Seen
      <4> QED
        BY <4>1, <4>2
    <3> QED
      BY <1>4, <2>2, <3>1
  <2> QED
    BY <2>1, <2>2
<1>9. m = e.cur[p].send
  <2>1. (1 * VecSize = VecSize) /\ 2 * VecSize = VecSize + VecSize
    BY <1>5
  <2>2. e.cur[p].send = IF new THEN s.cur[p].send + VecSize + VecSize ELSE s.cur[p].send + VecSize
    BY <1>3, <1>7 DEF PermDealt
  <2> HIDE DEF new, e, s, at
  <2>3. at + (VecSize + VecSize) = at + VecSize + VecSize
    BY <1>5
  <2> QED
    BY <1>4, <2>1, <2>2, <2>3
<1>10. u = Half(dealt[g][p])
  <2>1. dealt[g][p] = [R |-> Draw(p, "send", at, VecSize), send |-> fin,
                       recv |-> e.perms[i].back[p], B |-> Made("B", p, g, VecSize)]
    BY <1>3, <1>4 DEF PermDealt
  <2>2. u = [R |-> Draw(p, "send", at, VecSize), send |-> perm, recv |-> NoToken, B |-> NoToken]
    BY FillSend
  <2> HIDE DEF u, perm, fin, at
  <2> QED
    BY <1>8, <2>1, <2>2 DEF Half
<1>11. used'[p][g] = u /\ \A h \in 1 .. Len(circ) : h # g => used'[p][h] = used[p][h]
  <2> HIDE DEF u
  <2> QED
    BY <1>1, <1>2, <1>5
<1>12. UsedFor(p, g)'
  <2>1. ~Evaluated(p, g)' /\ SentFor(p, g)'
    BY <1>2 DEF Evaluated, SentFor, Over, Online
  <2>2. circ[g].type # "MulSIMD" /\ circ[g].type # "SetConstVecSIMD"
    BY <1>2 DEF PermGate
  <2>3. Half(dealt[g][p])' = Half(dealt[g][p])
    BY <1>2 DEF Half
  <2>4. used'[p][g] = Half(dealt[g][p])
    BY <1>10, <1>11
  <2> QED
    BY <1>2, <2>1, <2>2, <2>3, <2>4 DEF UsedFor
<1>13. /\ cur'[p]["send"] = e.cur[p].send
       /\ \A x \in {"recv", "rng01"} : cur'[p][x] = cur[p][x]
  <2> HIDE DEF m
  <2>1. "send" \in Stream /\ \A x \in {"recv", "rng01"} : x \in Stream /\ x # "send"
    BY DEF Stream
  <2> QED
    BY <1>1, <1>5, <1>9, <2>1
<1>14. \A j \in Idx : out'[p][j] = Seen(End.perms[j].out[p], e.perms[j].out[p])
  <2> TAKE j \in Idx
  <2>1. CASE j = i
    <3>1. out'[p][i] = perm
      <4> HIDE DEF perm, i
      <4> QED
        BY <1>1, <1>3, <1>5
    <3>2. Seen(fin, fin) = fin
      BY DEF Seen
    <3> HIDE DEF perm
    <3> QED
      BY <1>3, <1>8, <2>1, <3>1, <3>2
  <2>2. CASE j # i
    <3>1. out'[p][j] = out[p][j]
      <4> HIDE DEF perm, i
      <4> QED
        BY <1>1, <1>3, <1>5, <2>2
    <3>2. out[p][j] = Seen(End.perms[j].out[p], s.perms[j].out[p])
      BY <1>2 DEF Walked
    <3> QED
      BY <1>3, <2>2, <3>1, <3>2
  <2> QED
    BY <2>1, <2>2
<1>15. Walked(p, deals[g + 1], deals[b], ConstAt(b))'
  <2>1. ConstAt(b)' = ConstAt(b) /\ End' = End
    BY <1>2 DEF ConstAt, Consts, End
  <2> QED
    BY <1>2, <1>13, <1>14, <2>1 DEF Walked, Seen
<1> QED
  BY <1>1, <1>11, <1>12, <1>15, SendNext

LEMMA SendUnshuffleInv ==
  ASSUME ControlInv, History, NEW p \in Party, PartyInv(p), SendUnshuffle(p),
         NEW g, g = spos[p], NEW b, b = pos[p]
  PROVE  PartyInv(p)'
<1> DEFINE i == circ[g].idx
           s == deals[g]
           e == deals[g + 1]
           at == cur[p]["send"]
           m == at + VecSize
           u == [NoUse EXCEPT !.R = Draw(p, "send", at, VecSize), !.send = back[p][i]]
<1>1. /\ Sending(p, {"Unshuffle"}) /\ out' = out
      /\ cur' = [cur EXCEPT ![p]["send"] = m] /\ used' = [used EXCEPT ![p][g] = u]
  BY DEF SendUnshuffle
<1>2. /\ g \in 1 .. Len(circ) /\ b \in 1 .. g /\ circ[g].type = "Unshuffle"
      /\ circ[b].level = circ[g].level
      /\ phase[p] = "send" /\ spos'[p] = g + 1 /\ phase[p] \in Offline \cup Over
      /\ UsedFor(p, g) /\ Walked(p, deals[g], deals[b], ConstAt(b)) /\ TInv
      /\ UNCHANGED <<circ, rep, phase, pos, deals, dealt, buf, readIdx, back>>
  BY <1>1, SendAt
<1>3. /\ i \in Idx /\ UnshuffleDealt(p, g, s, e, dealt[g][p])
      /\ e.perms = s.perms
      /\ deals[b].perms[i] = End.perms[i] /\ s.perms[i] = End.perms[i]
  BY <1>2, UnshuffleFacts
<1>4. at = s.cur[p].send /\ back[p][i] = End.perms[i].back[p]
  BY <1>2, <1>3 DEF Walked, Seen
<1>5. /\ cur \in [Party -> [Stream -> Nat]]
      /\ used \in [Party -> [1 .. Len(circ) -> Use]]
  BY <1>2, TypeFacts, CircuitFacts
<1>6. m = e.cur[p].send
  BY <1>3, <1>4 DEF UnshuffleDealt
<1>7. u = Half(dealt[g][p])
  <2>1. dealt[g][p] = [R |-> Draw(p, "send", at, VecSize), send |-> back[p][i],
                       recv |-> s.perms[i].out[p], B |-> Made("B", p, g, VecSize)]
    BY <1>3, <1>4 DEF UnshuffleDealt
  <2>2. u = [R |-> Draw(p, "send", at, VecSize), send |-> back[p][i], recv |-> NoToken, B |-> NoToken]
    BY FillSend
  <2> HIDE DEF u, i, at
  <2> QED
    BY <2>1, <2>2 DEF Half
<1>8. used'[p][g] = u /\ \A h \in 1 .. Len(circ) : h # g => used'[p][h] = used[p][h]
  <2> HIDE DEF u
  <2> QED
    BY <1>1, <1>2, <1>5
<1>9. UsedFor(p, g)'
  <2>1. ~Evaluated(p, g)' /\ SentFor(p, g)'
    BY <1>2 DEF Evaluated, SentFor, Over, Online
  <2>2. Half(dealt[g][p])' = Half(dealt[g][p])
    BY <1>2 DEF Half
  <2>3. used'[p][g] = Half(dealt[g][p])
    BY <1>7, <1>8
  <2> QED
    BY <1>2, <2>1, <2>2, <2>3 DEF UsedFor
<1>10. /\ cur'[p]["send"] = e.cur[p].send
       /\ \A x \in {"recv", "rng01"} : cur'[p][x] = cur[p][x]
  <2> HIDE DEF m
  <2>1. "send" \in Stream /\ \A x \in {"recv", "rng01"} : x \in Stream /\ x # "send"
    BY DEF Stream
  <2> QED
    BY <1>1, <1>5, <1>6, <2>1
<1>11. Walked(p, deals[g + 1], deals[b], ConstAt(b))'
  <2>1. ConstAt(b)' = ConstAt(b) /\ End' = End
    BY <1>2 DEF ConstAt, Consts, End
  <2> QED
    BY <1>1, <1>2, <1>3, <1>10, <2>1 DEF Walked, Seen
<1> QED
  BY <1>1, <1>8, <1>9, <1>11, SendNext

LEMMA SendOtherInv ==
  ASSUME ControlInv, History, NEW p \in Party, PartyInv(p), SendOther(p),
         NEW g, g = spos[p], NEW b, b = pos[p]
  PROVE  PartyInv(p)'
<1>1. Sending(p, {"MulSIMD", "SetConstVecSIMD"}) /\ UNCHANGED <<cur, out, used>>
  BY DEF SendOther
<1>2. /\ g \in 1 .. Len(circ) /\ b \in 1 .. g /\ circ[g].type \in {"MulSIMD", "SetConstVecSIMD"}
      /\ phase[p] = "send" /\ phase[p] \in Offline \cup Over
      /\ UsedFor(p, g) /\ Walked(p, deals[g], deals[b], ConstAt(b))
      /\ UNCHANGED <<circ, rep, phase, pos, deals, dealt, buf, readIdx, back>>
  BY <1>1, SendAt
<1>3. /\ deals[g + 1].perms = deals[g].perms
      /\ deals[g + 1].cur[p].send = deals[g].cur[p].send
  <2>1. HandledAs(g, deals[g], deals[g + 1], dealt[g])
    BY <1>2, GateSteps
  <2>2. CASE circ[g].type = "MulSIMD"
    <3>1. deals[g + 1].perms = deals[g].perms /\ TripleDealt(p, g, deals[g], deals[g + 1], dealt[g][p])
      BY <2>1, <2>2 DEF HandledAs
    <3> QED
      BY <3>1 DEF TripleDealt
  <2>3. CASE circ[g].type = "SetConstVecSIMD"
    BY <2>1, <2>3 DEF HandledAs
  <2> QED
    BY <1>2, <2>2, <2>3
<1>4. UsedFor(p, g)'
  <2>1. /\ Evaluated(p, g)' <=> Evaluated(p, g)
        /\ PreparedFor(p, g)' <=> PreparedFor(p, g)
        /\ Mask(g)' = Mask(g)
    <3>1. PreparedFor(p, g) /\ PreparedFor(p, g)'
      BY <1>2 DEF PreparedFor, Over, Online
    <3> QED
      BY <1>2, <3>1 DEF Evaluated, Mask, Draw, ConstAt, Consts
  <2> QED
    BY <1>1, <1>2, <2>1 DEF UsedFor, PermGate
<1>5. Walked(p, deals[g + 1], deals[b], ConstAt(b))'
  <2>1. ConstAt(b)' = ConstAt(b) /\ End' = End
    BY <1>2 DEF ConstAt, Consts, End
  <2> QED
    BY <1>1, <1>2, <1>3, <2>1 DEF Walked, Seen
<1> QED
  BY <1>1, <1>4, <1>5, SendNext

\* Between two walks only the phase changes.
LEMMA PhaseNext ==
  ASSUME ControlInv, NEW p \in Party, PartyInv(p), phase[p] \in Online, phase'[p] \in Online,
         UNCHANGED <<circ, rep, pos, spos, deals, dealt, cur, buf, readIdx, out, back, used>>
  PROVE  PartyInv(p)'
<1>1. GotList(p) /\ UsedSoFar(p) /\ Walked(p, deals[spos[p]], deals[pos[p]], ConstAt(pos[p]))
  BY OnlineInv
<1>2. ASSUME NEW h \in 1 .. Len(circ)
      PROVE  UsedSame(p, h)
  BY DEF UsedSame, Evaluated, SentFor, PreparedFor, Over, Online
<1>3. UsedSoFar(p)'
  BY <1>1, <1>2, UsedNext
<1>4. GotList(p)'
  BY <1>1 DEF GotList, End
<1>5. Walked(p, deals[spos[p]], deals[pos[p]], ConstAt(pos[p]))'
  BY <1>1 DEF Walked, ConstAt, Consts, End, Seen
<1>6. (phase[p] \in Online)' => (PartyInv(p)' <=> /\ GotList(p)' /\ UsedSoFar(p)'
                         /\ Walked(p, deals[spos[p]], deals[pos[p]], ConstAt(pos[p]))')
  BY OnlineInv, PTL
<1>7. (phase[p] \in Online)'
  BY DEF Online
<1> QED
  BY <1>3, <1>4, <1>5, <1>6, <1>7

LEMMA RecvAt ==
  ASSUME ControlInv, History, NEW p \in Party, PartyInv(p), NEW types, Receiving(p, types),
         NEW g, g = pos[p], NEW f, f = spos[p]
  PROVE  /\ g \in 1 .. Len(circ) /\ f \in Nat /\ g < f /\ circ[g].type \in types
         /\ phase[p] = "receive" /\ pos'[p] = g + 1 /\ f \in 1 .. Len(circ) + 1
         /\ phase[p] \in Offline \cup Over /\ phase[p] \in Online /\ phase[p] \in Offline \cup Online
         /\ GotList(p) /\ UsedFor(p, g) /\ Walked(p, deals[f], deals[g], ConstAt(g))
         /\ TInv /\ UNCHANGED <<circ, rep, phase, spos, deals, dealt, buf, out>>
<1>1. /\ g \in Nat \ {0} /\ g < f /\ f \in Nat \ {0} /\ f <= Len(circ) + 1 /\ phase[p] = "receive"
      /\ circ[g].type \in types /\ Len(circ) \in Nat
      /\ pos \in [Server -> Nat \ {0}]
  BY ServerFacts, TypeFacts DEF ControlInv, Receiving
<1>2. phase[p] \in Offline \cup Over /\ phase[p] \in Online /\ phase[p] \in Offline \cup Online
  BY <1>1 DEF Over, Online
<1>3. GotList(p) /\ UsedSoFar(p) /\ Walked(p, deals[f], deals[g], ConstAt(g))
  BY <1>2, OnlineInv
<1>4. UsedFor(p, g)
  BY <1>1, <1>3 DEF UsedSoFar
<1>5. pos'[p] = g + 1
  BY <1>1, PartyFacts DEF Receiving
<1> QED
  BY <1>1, <1>2, <1>3, <1>4, <1>5 DEF Receiving, ControlInv

LEMMA UsedAt ==
  ASSUME TInv, NEW p \in Party, NEW g \in 1 .. Len(circ), NEW y,
         used' = [used EXCEPT ![p][g] = y]
  PROVE  used'[p][g] = y /\ \A h \in 1 .. Len(circ) : h # g => used'[p][h] = used[p][h]
<1>1. used \in [Party -> [1 .. Len(circ) -> Use]]
  BY TypeFacts, CircuitFacts
<1> QED
  BY <1>1

LEMMA RecvNext ==
  ASSUME ControlInv, History, NEW p \in Party, PartyInv(p), NEW types, Receiving(p, types),
         NEW g, g = pos[p], NEW f, f = spos[p],
         \A h \in 1 .. Len(circ) : h # g => used'[p][h] = used[p][h],
         UsedFor(p, g)',
         Walked(p, deals[f], deals[g + 1], ConstAt(g + 1))'
  PROVE  PartyInv(p)'
<1>1. /\ g \in 1 .. Len(circ) /\ phase[p] = "receive" /\ pos'[p] = g + 1
      /\ GotList(p) /\ phase[p] \in Online
      /\ UNCHANGED <<circ, rep, phase, spos, deals, dealt, buf, out>>
  BY RecvAt
<1>2. UsedSoFar(p)
  BY DEF PartyInv
<1>3. ASSUME NEW h \in 1 .. Len(circ)
      PROVE  UsedFor(p, h)' \/ UsedSame(p, h)
  <2>1. CASE h = g
    BY <2>1
  <2>2. CASE h # g
    <3>1. h < g + 1 <=> h < g
      BY <1>1, <2>2
    <3>2. /\ Evaluated(p, h)' <=> Evaluated(p, h)
          /\ SentFor(p, h)' <=> SentFor(p, h)
          /\ PreparedFor(p, h)' <=> PreparedFor(p, h)
      BY <1>1, <3>1 DEF Evaluated, SentFor, PreparedFor
    <3> QED
      BY <2>2, <3>2 DEF UsedSame
  <2> QED
    BY <2>1, <2>2
<1>4. UsedSoFar(p)'
  BY <1>1, <1>2, <1>3, UsedNext
<1>5. GotList(p)'
  BY <1>1 DEF GotList, End
<1>6. Walked(p, deals[spos[p]], deals[pos[p]], ConstAt(pos[p]))'
  BY <1>1 DEF Walked, ConstAt, Consts
<1>7. (phase[p] \in Online)' => (PartyInv(p)' <=> /\ GotList(p)' /\ UsedSoFar(p)'
                         /\ Walked(p, deals[spos[p]], deals[pos[p]], ConstAt(pos[p]))')
  BY OnlineInv, PTL
<1>8. (phase[p] \in Online)'
  BY <1>1 DEF Online
<1> QED
  BY <1>4, <1>5, <1>6, <1>7, <1>8

\* Reading the correction vector of a gate completes what was used for it.
Completes(p, g, v) == used' = [used EXCEPT ![p][g].recv = v, ![p][g].B = Item(p)]
Correlated(p, g, v) ==
  /\ \E r, s : dealt[g][p] = [R |-> r, send |-> s, recv |-> v, B |-> Made("B", p, g, VecSize)]
  /\ deals[g + 1].B[p] = Append(deals[g].B[p], Made("B", p, g, VecSize))

LEMMA RecvRest ==
  ASSUME ControlInv, History, NEW p \in Party, PartyInv(p), NEW types, Receiving(p, types),
         NEW g, g = pos[p],
         circ[g].type \in PermGate \cup {"Unshuffle"},
         NEW v, Correlated(p, g, v), Completes(p, g, v)
  PROVE  /\ AfterRead(p)[p] = Wrapped(Len(End.pre[p]) + Len(deals[g + 1].B[p]), Len(buf[p]))
         /\ UsedFor(p, g)'
<1>0. PICK r, s : dealt[g][p] = [R |-> r, send |-> s, recv |-> v, B |-> Made("B", p, g, VecSize)]
  BY DEF Correlated
<1> DEFINE f == spos[p]
           w == Made("B", p, g, VecSize)
           x == [R |-> r, send |-> s, recv |-> NoToken, B |-> NoToken]
           y == [used[p][g] EXCEPT !.recv = v, !.B = Item(p)]
<1>1. /\ g \in 1 .. Len(circ) /\ g < f /\ f \in Nat /\ phase[p] = "receive" /\ pos'[p] = g + 1
      /\ phase[p] \in Offline \cup Over /\ phase[p] \in Offline \cup Online
      /\ GotList(p) /\ UsedFor(p, g) /\ Walked(p, deals[f], deals[g], ConstAt(g))
      /\ TInv /\ circ' = circ /\ dealt' = dealt /\ phase' = phase /\ pos[p] = g /\ spos[p] = f
  BY RecvAt
<1>2. /\ deals[g] \in Snapshot /\ deals[g + 1] \in Snapshot /\ Grown(deals[g + 1], End)
      /\ End \in Snapshot /\ g \in Nat /\ rep \in Nat /\ VecSize \in Nat
  BY <1>1, GateSteps, GateAt, EndFacts
<1>3. w \in Token
  BY <1>2, TokenTypes
<1>4. Item(p) = w /\ AfterRead(p)[p] = Wrapped(Len(End.pre[p]) + Len(deals[g + 1].B[p]), Len(buf[p]))
  <2>1. readIdx[p] = Wrapped(Len(End.pre[p]) + Len(deals[g].B[p]), Len(buf[p]))
    BY <1>1 DEF Walked
  <2> HIDE DEF w
  <2>2. deals[g + 1].B[p] = Append(deals[g].B[p], w)
    BY DEF w, Correlated
  <2> QED
    BY <1>1, <1>2, <1>3, <2>1, <2>2, ReadB
<1>5. used[p][g] = x
  <2>1. ~Evaluated(p, g) /\ SentFor(p, g)
    BY <1>1 DEF Evaluated, SentFor, Over, Online
  <2>2. used[p][g] = Half(dealt[g][p])
    BY <1>1, <2>1 DEF UsedFor
  <2>3. Half([R |-> r, send |-> s, recv |-> v, B |-> w]) = x
    BY DEF Half
  <2> HIDE DEF x, w
  <2>4. dealt[g][p] = [R |-> r, send |-> s, recv |-> v, B |-> w]
    BY <1>0 DEF w
  <2> QED
    BY <2>2, <2>3, <2>4
<1>6. used \in [Party -> [1 .. Len(circ) -> Use]]
  BY <1>1, TypeFacts, CircuitFacts
<1>7. used' = [used EXCEPT ![p][g] = y]
  BY <1>1, <1>6 DEF Completes
<1>8. y = dealt[g][p]
  <2> DEFINE z == used[p][g]
             t == Item(p)
  <2>1. z = [R |-> r, send |-> s, recv |-> NoToken, B |-> NoToken]
    BY <1>5
  <2>2. y = [z EXCEPT !.recv = v, !.B = t]
    OBVIOUS
  <2>3. t = w
    BY <1>4
  <2>4. dealt[g][p] = [R |-> r, send |-> s, recv |-> v, B |-> w]
    BY <1>0
  <2> HIDE DEF w, x, y, z, t
  <2>5. y = [R |-> r, send |-> s, recv |-> v, B |-> t]
    BY <2>1, <2>2, FillRest
  <2> QED
    BY <2>3, <2>4, <2>5
<1> HIDE DEF y
<1>9. used'[p][g] = dealt[g][p] /\ \A h \in 1 .. Len(circ) : h # g => used'[p][h] = used[p][h]
  <2>1. used'[p][g] = y /\ \A h \in 1 .. Len(circ) : h # g => used'[p][h] = used[p][h]
    BY <1>1, <1>7, UsedAt
  <2> QED
    BY <1>8, <2>1
<1>10. UsedFor(p, g)'
  <2>1. Evaluated(p, g)'
    <3>1. g < g + 1
      BY <1>2
    <3> QED
      BY <1>1, <3>1 DEF Evaluated
  <2>2. circ[g].type # "MulSIMD" /\ circ[g].type # "SetConstVecSIMD"
    BY DEF PermGate
  <2> QED
    BY <1>1, <1>9, <2>1, <2>2 DEF UsedFor
<1> QED
  BY <1>4, <1>10

LEMMA RecvOthers ==
  ASSUME TInv, NEW p \in Party, NEW g \in 1 .. Len(circ), NEW v, Completes(p, g, v)
  PROVE  \A h \in 1 .. Len(circ) : h # g => used'[p][h] = used[p][h]
<1> DEFINE y == [used[p][g] EXCEPT !.recv = v, !.B = Item(p)]
<1>1. used \in [Party -> [1 .. Len(circ) -> Use]]
  BY TypeFacts, CircuitFacts
<1>2. used' = [used EXCEPT ![p][g] = y]
  BY <1>1 DEF Completes
<1> HIDE DEF y
<1> QED
  BY <1>2, UsedAt

LEMMA RecvShuffleInv ==
  ASSUME ControlInv, History, NEW p \in Party, PartyInv(p), RecvShuffle(p),
         NEW g, g = pos[p], NEW f, f = spos[p]
  PROVE  PartyInv(p)'
<1> DEFINE i == circ[g].idx
           r == deals[g]
           e == deals[g + 1]
           at == cur[p]["recv"]
           fin == End.perms[i].back[p]
           new == back[p][i] = NoToken
           perm == IF new THEN Draw(p, "recv", at, VecSize) ELSE back[p][i]
           m == at + (IF new THEN VecSize ELSE 0)
<1>1. /\ Receiving(p, PermGate) /\ readIdx' = AfterRead(p)
      /\ cur' = [cur EXCEPT ![p]["recv"] = m] /\ back' = [back EXCEPT ![p][i] = perm]
      /\ Completes(p, g, perm)
  BY DEF RecvShuffle, Completes
<1>2. /\ g \in 1 .. Len(circ) /\ circ[g].type \in PermGate
      /\ pos'[p] = g + 1 /\ phase[p] \in Offline \cup Over
      /\ UsedFor(p, g) /\ Walked(p, deals[f], deals[g], ConstAt(g)) /\ TInv
      /\ UNCHANGED <<circ, rep, phase, spos, deals, dealt, buf, out>>
  BY <1>1, RecvAt
<1>3. /\ i \in Idx /\ PermDealt(p, g, r, e, dealt[g][p])
      /\ \A j \in Idx : j # i => e.perms[j] = r.perms[j]
      /\ End.perms[i] = e.perms[i] /\ e.perms[i] # NoQuad
      /\ fin.by \in {"perm", "recv"}
      /\ r.perms[i] # NoQuad => e.perms[i] = r.perms[i]
  BY <1>2, PermGateFacts
<1>4. /\ at = r.cur[p].recv /\ back[p][i] = Seen(fin, r.perms[i].back[p])
  BY <1>2, <1>3 DEF Walked
<1>5. /\ cur \in [Party -> [Stream -> Nat]] /\ back \in [Party -> [Idx -> Token]]
      /\ readIdx \in [Party -> Nat] /\ at \in Nat /\ VecSize \in Nat
  BY <1>2, TypeFacts, CircuitFacts DEF Stream
<1>6. NoQuad.back[p] = NoToken /\ NoToken.by = "none"
  BY DEF NoQuad, NoTokens, NoToken
<1>7. new <=> r.perms[i] = NoQuad /\ ~MadeBack(p, g, r)
  <2>1. CASE r.perms[i] # NoQuad
    <3>1. back[p][i] = fin
      BY <1>3, <1>4, <2>1 DEF Seen
    <3> HIDE DEF fin
    <3>2. ~new
      BY <1>3, <1>6, <3>1
    <3> QED
      BY <2>1, <3>2
  <2>2. CASE r.perms[i] = NoQuad
    <3>1. fin = IF MadeBack(p, g, r) THEN Made("perm", p, g, VecSize)
                ELSE Draw(p, "recv", r.cur[p].recv, VecSize)
      BY <1>3, <2>2 DEF PermDealt
    <3>2. /\ Made("perm", p, g, VecSize).by = "perm"
          /\ Draw(p, "recv", r.cur[p].recv, VecSize).by = "recv"
      BY DEF Made, Draw
    <3>3. r.perms[i].back[p] = NoToken
      BY <1>6, <2>2
    <3> HIDE DEF fin
    <3>4. CASE MadeBack(p, g, r)
      <4>1. fin.by = "perm"
        BY <3>1, <3>2, <3>4
      <4>2. back[p][i] = fin
        BY <1>4, <4>1 DEF Seen
      <4> QED
        BY <1>6, <3>4, <4>1, <4>2
    <3>5. CASE ~MadeBack(p, g, r)
      <4>1. fin.by = "recv"
        BY <3>1, <3>2, <3>5
      <4>2. back[p][i] = NoToken
        BY <1>4, <3>3, <4>1 DEF Seen
      <4> QED
        BY <2>2, <3>5, <4>2
    <3> QED
      BY <3>4, <3>5
  <2> QED
    BY <2>1, <2>2
<1>8. perm = fin
  <2>1. CASE new
    BY <1>3, <1>4, <1>7, <2>1 DEF PermDealt
  <2>2. CASE ~new
    <3>1. Seen(fin, r.perms[i].back[p]) = fin
      <4>1. CASE r.perms[i] = NoQuad
        <5>1. fin = Made("perm", p, g, VecSize)
          BY <1>3, <1>7, <2>2, <4>1 DEF PermDealt
        <5>2. Made("perm", p, g, VecSize).by = "perm"
          BY DEF Made
        <5> HIDE DEF fin
        <5> QED
          BY <5>1, <5>2 DEF Seen
      <4>2. CASE r.perms[i] # NoQuad
        BY <1>3, <4>2 DEF Seen
      <4> QED
        BY <4>1, <4>2
    <3> QED
      BY <1>4, <2>2, <3>1
  <2> QED
    BY <2>1, <2>2
<1>9. m = e.cur[p].recv
  <2>1. e.cur[p].recv = IF new THEN r.cur[p].recv + VecSize ELSE r.cur[p].recv
    BY <1>3, <1>7 DEF PermDealt
  <2> HIDE DEF new, e, r, at
  <2> QED
    BY <1>4, <1>5, <2>1
<1>10. /\ dealt[g][p] = [R |-> Draw(p, "send", r.cur[p].send, VecSize),
                         send |-> e.perms[i].out[p], recv |-> fin,
                         B |-> Made("B", p, g, VecSize)]
       /\ e.B[p] = Append(r.B[p], Made("B", p, g, VecSize))
  BY <1>3 DEF PermDealt
<1>11. /\ AfterRead(p)[p] = Wrapped(Len(End.pre[p]) + Len(e.B[p]), Len(buf[p]))
       /\ UsedFor(p, g)'
       /\ \A h \in 1 .. Len(circ) : h # g => used'[p][h] = used[p][h]
  <2>1. PICK v : v = fin
    OBVIOUS
  <2>2. Correlated(p, g, v)
    BY <1>10, <2>1 DEF Correlated
  <2>3. perm = v
    BY <1>8, <2>1
  <2>4. Completes(p, g, v) /\ circ[g].type \in PermGate \cup {"Unshuffle"}
    <3> HIDE DEF perm, fin
    <3> QED
      BY <1>1, <1>2, <2>3 DEF Completes
  <2> HIDE DEF fin
  <2> QED
    BY <1>1, <1>2, <2>2, <2>4, RecvRest, RecvOthers
<1>12. /\ cur'[p]["recv"] = e.cur[p].recv
       /\ \A x \in {"send", "rng01"} : cur'[p][x] = cur[p][x]
  <2> HIDE DEF m
  <2>1. "recv" \in Stream /\ \A x \in {"send", "rng01"} : x \in Stream /\ x # "recv"
    BY DEF Stream
  <2> QED
    BY <1>1, <1>5, <1>9, <2>1
<1>13. \A j \in Idx : back'[p][j] = Seen(End.perms[j].back[p], e.perms[j].back[p])
  <2> TAKE j \in Idx
  <2>1. CASE j = i
    <3>1. back'[p][i] = perm
      <4> HIDE DEF perm, i
      <4> QED
        BY <1>1, <1>3, <1>5
    <3>2. Seen(fin, fin) = fin
      BY DEF Seen
    <3> HIDE DEF perm
    <3> QED
      BY <1>3, <1>8, <2>1, <3>1, <3>2
  <2>2. CASE j # i
    <3>1. back'[p][j] = back[p][j]
      <4> HIDE DEF perm, i
      <4> QED
        BY <1>1, <1>3, <1>5, <2>2
    <3>2. back[p][j] = Seen(End.perms[j].back[p], r.perms[j].back[p])
      BY <1>2 DEF Walked
    <3> QED
      BY <1>3, <2>2, <3>1, <3>2
  <2> QED
    BY <2>1, <2>2
<1>14. Walked(p, deals[f], deals[g + 1], ConstAt(g + 1))'
  <2>1. ConstAt(g + 1)' = ConstAt(g) /\ End' = End
    <3>1. ConstAt(g + 1)' = ConstAt(g + 1) /\ End' = End
      BY <1>2 DEF ConstAt, Consts, End
    <3>2. circ[g].type # "SetConstVecSIMD"
      BY <1>2 DEF PermGate
    <3> QED
      BY <1>2, <3>1, <3>2, ConstNext
  <2>2. readIdx'[p] = Wrapped(Len(End.pre[p]) + Len(e.B[p]), Len(buf[p]))
    BY <1>1, <1>11
  <2> QED
    BY <1>2, <1>12, <1>13, <2>1, <2>2 DEF Walked, Seen
<1> QED
  BY <1>1, <1>11, <1>14, RecvNext

LEMMA RecvUnshuffleInv ==
  ASSUME ControlInv, History, NEW p \in Party, PartyInv(p), RecvUnshuffle(p),
         NEW g, g = pos[p], NEW f, f = spos[p]
  PROVE  PartyInv(p)'
<1> DEFINE i == circ[g].idx
           r == deals[g]
           e == deals[g + 1]
           perm == out[p][i]
<1>1. /\ Receiving(p, {"Unshuffle"}) /\ readIdx' = AfterRead(p)
      /\ cur' = cur /\ back' = back /\ Completes(p, g, perm)
  BY DEF RecvUnshuffle, Completes
<1>2. /\ g \in 1 .. Len(circ) /\ circ[g].type = "Unshuffle" /\ f \in 1 .. Len(circ) + 1 /\ g < f
      /\ pos'[p] = g + 1 /\ phase[p] \in Offline \cup Over
      /\ UsedFor(p, g) /\ Walked(p, deals[f], deals[g], ConstAt(g)) /\ TInv
      /\ UNCHANGED <<circ, rep, phase, spos, deals, dealt, buf, out>>
  BY <1>1, RecvAt
<1>3. /\ i \in Idx /\ UnshuffleDealt(p, g, r, e, dealt[g][p])
      /\ e.perms = r.perms /\ r.perms[i] = End.perms[i]
      /\ r.perms[i].out[p].by \in {"perm", "send"}
  BY <1>2, UnshuffleFacts
<1>4. perm = r.perms[i].out[p]
  <2>1. deals[f].perms[i] = r.perms[i]
    <3>1. pos[Dealer] = Len(circ) + 1 /\ Len(circ) \in Nat
      BY <1>2, EndFacts
    <3>2. f \in 1 .. pos[Dealer] /\ g \in 1 .. f
      BY <1>2, <3>1
    <3>3. Grown(r, deals[f])
      BY <3>2 DEF History
    <3>4. r.perms[i] # NoQuad
      <4>1. NoQuad.out[p].by = "none"
        BY DEF NoQuad, NoTokens, NoToken
      <4> HIDE DEF r, i
      <4> QED
        BY <1>3, <4>1
    <3> QED
      BY <1>3, <3>3, <3>4 DEF Grown
  <2>2. perm = Seen(End.perms[i].out[p], deals[f].perms[i].out[p])
    BY <1>2, <1>3 DEF Walked
  <2> QED
    BY <1>3, <2>1, <2>2 DEF Seen
<1>5. /\ dealt[g][p] = [R |-> Draw(p, "send", r.cur[p].send, VecSize),
                        send |-> r.perms[i].back[p], recv |-> perm,
                        B |-> Made("B", p, g, VecSize)]
      /\ e.B[p] = Append(r.B[p], Made("B", p, g, VecSize))
      /\ e.cur[p].recv = r.cur[p].recv
  BY <1>3, <1>4 DEF UnshuffleDealt
<1>6. /\ AfterRead(p)[p] = Wrapped(Len(End.pre[p]) + Len(e.B[p]), Len(buf[p]))
      /\ UsedFor(p, g)'
      /\ \A h \in 1 .. Len(circ) : h # g => used'[p][h] = used[p][h]
  <2>1. PICK v : v = perm
    OBVIOUS
  <2>2. Correlated(p, g, v)
    BY <1>5, <2>1 DEF Correlated
  <2>3. Completes(p, g, v) /\ circ[g].type \in PermGate \cup {"Unshuffle"}
    <3> HIDE DEF perm
    <3> QED
      BY <1>1, <1>2, <2>1 DEF Completes
  <2> HIDE DEF perm
  <2> QED
    BY <1>1, <1>2, <2>2, <2>3, RecvRest, RecvOthers
<1>7. Walked(p, deals[f], deals[g + 1], ConstAt(g + 1))'
  <2>1. ConstAt(g + 1)' = ConstAt(g) /\ End' = End
    <3>1. ConstAt(g + 1)' = ConstAt(g + 1) /\ End' = End
      BY <1>2 DEF ConstAt, Consts, End
    <3> QED
      BY <1>2, <3>1, ConstNext
  <2>2. readIdx'[p] = Wrapped(Len(End.pre[p]) + Len(e.B[p]), Len(buf[p]))
    <3> readIdx \in [Party -> Nat]
      BY <1>2, TypeFacts
    <3> QED
      BY <1>1, <1>6
  <2> QED
    BY <1>1, <1>2, <1>3, <1>5, <2>1, <2>2 DEF Walked, Seen
<1> QED
  BY <1>1, <1>6, <1>7, RecvNext

LEMMA RecvConstInv ==
  ASSUME ControlInv, History, NEW p \in Party, PartyInv(p), RecvSetConstVec(p),
         NEW g, g = pos[p], NEW f, f = spos[p]
  PROVE  PartyInv(p)'
<1> DEFINE at == cur[p]["rng01"]
           m == at + VecSize
           t == Draw(P0, "rng01", at, VecSize)
           y == [used[p][g] EXCEPT !.R = t]
<1>1. /\ Receiving(p, {"SetConstVecSIMD"}) /\ readIdx' = readIdx /\ back' = back
      /\ cur' = [cur EXCEPT ![p]["rng01"] = m] /\ used' = [used EXCEPT ![p][g].R = t]
  BY DEF RecvSetConstVec
<1>2. /\ g \in 1 .. Len(circ) /\ circ[g].type = "SetConstVecSIMD"
      /\ pos'[p] = g + 1 /\ phase[p] \in Offline \cup Over /\ phase[p] = "receive"
      /\ UsedFor(p, g) /\ Walked(p, deals[f], deals[g], ConstAt(g)) /\ TInv
      /\ UNCHANGED <<circ, rep, phase, spos, deals, dealt, buf, out>>
  BY <1>1, RecvAt
<1>3. deals[g + 1] = deals[g] /\ g \in Nat
  <2>1. HandledAs(g, deals[g], deals[g + 1], dealt[g])
    BY <1>2, GateSteps
  <2> QED
    BY <1>2, <2>1, GateAt DEF HandledAs
<1>4. /\ cur \in [Party -> [Stream -> Nat]] /\ used \in [Party -> [1 .. Len(circ) -> Use]]
  BY <1>2, TypeFacts, CircuitFacts
<1>5. at = ConstAt(g) /\ ConstAt(g + 1) = ConstAt(g) + VecSize
  BY <1>2, ConstNext DEF Walked
<1>6. y = Mask(g)
  <2>1. used[p][g] = NoUse
    <3>1. ~Evaluated(p, g)
      BY <1>2 DEF Evaluated
    <3> QED
      BY <1>2, <3>1 DEF UsedFor
  <2>2. [NoUse EXCEPT !.R = t] = [R |-> t, send |-> NoToken, recv |-> NoToken, B |-> NoToken]
    <3> HIDE DEF t
    <3> QED
      BY FillMask
  <2>3. y = [NoUse EXCEPT !.R = t]
    <3> HIDE DEF t
    <3> QED
      BY <2>1
  <2>4. t = Draw(P0, "rng01", ConstAt(g), VecSize)
    BY <1>5
  <2> HIDE DEF t, y
  <2> QED
    BY <2>2, <2>3, <2>4 DEF Mask
<1>7. used' = [used EXCEPT ![p][g] = y]
  <2> HIDE DEF t
  <2> QED
    BY <1>1, <1>2, <1>4
<1>8. used'[p][g] = y /\ \A h \in 1 .. Len(circ) : h # g => used'[p][h] = used[p][h]
  <2> HIDE DEF y
  <2> QED
    BY <1>2, <1>7, UsedAt
<1>9. UsedFor(p, g)'
  <2>1. Evaluated(p, g)'
    <3>1. g < g + 1
      BY <1>3
    <3> QED
      BY <1>2, <3>1 DEF Evaluated
  <2>2. Mask(g)' = Mask(g)
    BY <1>2 DEF Mask, Draw, ConstAt, Consts
  <2>3. used'[p][g] = Mask(g)
    BY <1>6, <1>8
  <2> QED
    BY <1>2, <2>1, <2>2, <2>3 DEF UsedFor, PermGate
<1>10. /\ cur'[p]["rng01"] = ConstAt(g + 1)
       /\ \A x \in {"send", "recv"} : cur'[p][x] = cur[p][x]
  <2>1. m = ConstAt(g + 1)
    BY <1>5
  <2> HIDE DEF m
  <2>2. "rng01" \in Stream /\ \A x \in {"send", "recv"} : x \in Stream /\ x # "rng01"
    BY DEF Stream
  <2> QED
    BY <1>1, <1>4, <2>1, <2>2
<1>11. Walked(p, deals[f], deals[g + 1], ConstAt(g + 1))'
  <2>1. ConstAt(g + 1)' = ConstAt(g + 1) /\ End' = End
    BY <1>2 DEF ConstAt, Consts, End
  <2> QED
    BY <1>1, <1>2, <1>3, <1>10, <2>1 DEF Walked, Seen
<1> QED
  BY <1>1, <1>8, <1>9, <1>11, RecvNext

LEMMA RecvTripleInv ==
  ASSUME ControlInv, History, NEW p \in Party, PartyInv(p), RecvTriple(p),
         NEW g, g = pos[p], NEW f, f = spos[p]
  PROVE  PartyInv(p)'
<1>1. Receiving(p, {"MulSIMD"}) /\ UNCHANGED <<cur, readIdx, back, used>>
  BY DEF RecvTriple
<1>2. /\ g \in 1 .. Len(circ) /\ circ[g].type = "MulSIMD"
      /\ phase[p] \in Offline \cup Over /\ phase[p] = "receive"
      /\ UsedFor(p, g) /\ Walked(p, deals[f], deals[g], ConstAt(g)) /\ TInv
      /\ UNCHANGED <<circ, rep, phase, spos, deals, dealt, buf, out>>
  BY <1>1, RecvAt
<1>3. /\ deals[g + 1].perms = deals[g].perms /\ deals[g + 1].B[p] = deals[g].B[p]
      /\ deals[g + 1].cur[p].recv = deals[g].cur[p].recv
  <2>1. HandledAs(g, deals[g], deals[g + 1], dealt[g])
    BY <1>2, GateSteps
  <2>2. /\ deals[g + 1].perms = deals[g].perms
        /\ TripleDealt(p, g, deals[g], deals[g + 1], dealt[g][p])
    BY <1>2, <2>1 DEF HandledAs
  <2> QED
    BY <2>2 DEF TripleDealt
<1>4. UsedFor(p, g)'
  <2>1. PreparedFor(p, g) /\ PreparedFor(p, g)'
    BY <1>2 DEF PreparedFor, Over, Online
  <2> QED
    BY <1>1, <1>2, <2>1 DEF UsedFor, PermGate
<1>5. Walked(p, deals[f], deals[g + 1], ConstAt(g + 1))'
  <2>1. ConstAt(g + 1)' = ConstAt(g) /\ End' = End
    <3>1. ConstAt(g + 1)' = ConstAt(g + 1) /\ End' = End
      BY <1>2 DEF ConstAt, Consts, End
    <3> QED
      BY <1>2, <3>1, ConstNext
  <2> QED
    BY <1>1, <1>2, <1>3, <2>1 DEF Walked, Seen
<1> QED
  BY <1>1, <1>4, <1>5, RecvNext

LEMMA EvalInv ==
  ASSUME ControlInv, History, NEW p \in Party, PartyInv(p), EvalStep(p)
  PROVE  PartyInv(p)'
<1>0. phase \in [Server -> Phases] /\ p \in Server
  BY TypeFacts, PartyFacts DEF ControlInv
<1>1. CASE SendLevel(p)
  <2>1. phase[p] \in Online /\ phase'[p] \in Online
    BY <1>0, <1>1 DEF SendLevel, Online
  <2> QED
    BY <1>1, <2>1, PhaseNext DEF SendLevel
<1>2. CASE ReceiveLevel(p)
  <2>1. phase[p] \in Online /\ phase'[p] \in Online
    BY <1>0, <1>2 DEF ReceiveLevel, Online
  <2> QED
    BY <1>2, <2>1, PhaseNext DEF ReceiveLevel
<1>3. CASE LayerDone(p)
  <2>1. phase[p] \in Online /\ phase'[p] \in Online
    BY <1>0, <1>3 DEF LayerDone, Online
  <2> QED
    BY <1>3, <2>1, PhaseNext DEF LayerDone, partyVars
<1> QED
  BY <1>1, <1>2, <1>3, SendShuffleInv, SendUnshuffleInv, SendOtherInv, RecvShuffleInv,
     RecvUnshuffleInv, RecvConstInv, RecvTripleInv DEF EvalStep

------------------------------------------------------------------------------
(* The dealer, the syncs and the repetitions *)

\* Nothing of what q has changes while it waits for its seeds.
LEMMA WaitSame ==
  ASSUME NEW q \in Party, PartyInv(q), phase[q] = "wait", phase'[q] = "wait", circ' = circ,
         UNCHANGED <<readIdx, out, back, prepared, used>>
  PROVE  PartyInv(q)'
<1>1. (phase[q] = "wait")' => (PartyInv(q)' <=>
           (/\ readIdx[q] = 0
            /\ \A i \in Idx : out[q][i] = NoToken /\ back[q][i] = NoToken /\ ~prepared[q][i]
            /\ \A g \in 1 .. Len(circ) :
                 circ[g].type \in PermGate \cup {"Unshuffle", "MulSIMD", "SetConstVecSIMD"} =>
                   used[q][g] = NoUse)')
  BY WaitFacts, PTL
<1> QED
  BY <1>1, WaitFacts

LEMMA DealInv ==
  ASSUME ControlInv, \A q \in Party : PartyInv(q), DealerStep,
         ~ (\E p \in Party : DealerSends(p))
  PROVE  \A q \in Party : PartyInv(q)'
<1>1. PICK types : Dealing(types)
  BY DEF DealerStep, DealShuffle, DealMergedShuffle, DealUnshuffle, DealTriple, DealNothing
<1>2. phase[Dealer] = "deal" /\ UNCHANGED <<circ, phase, partyVars>>
  BY <1>1 DEF Dealing
<1>3. \A q \in Party : phase[q] = "wait"
  BY <1>2 DEF ControlInv, Together
<1> QED
  BY <1>2, <1>3, WaitSame DEF partyVars

LEMMA SendsInv ==
  ASSUME ControlInv, \A q \in Party : PartyInv(q), NEW p \in Party, DealerSends(p)
  PROVE  \A q \in Party : PartyInv(q)'
<1>1. /\ UNCHANGED <<circ, rep, pos, spos, deals, dealt, turn, cur, readIdx, out, back,
                     prepared, inbox, used>>
      /\ phase[Dealer] = IF p = P0 THEN "deal" ELSE "give"
  BY DEF DealerSends
<1>2. /\ phase'[p] = "seeded" /\ \A q \in Party : q # p => phase'[q] = phase[q]
      /\ buf'[p] = End.pre[p] \o End.B[p] /\ \A q \in Party : q # p => buf'[q] = buf[q]
  <2>1. /\ phase \in [Server -> Phases] /\ buf \in [Party -> Seq(Token)]
    BY TypeFacts DEF ControlInv
  <2>2. \A q \in Party : q \in Server /\ q # Dealer
    BY PartyFacts
  <2> QED
    BY <2>1, <2>2 DEF DealerSends, End
<1>3. phase[p] = "wait"
  <2>1. p = P0 \/ p = P1
    BY ServerFacts
  <2> QED
    BY <1>1, <2>1, ServerFacts DEF ControlInv, Together
<1>4. /\ readIdx[p] = 0
      /\ \A i \in Idx : out[p][i] = NoToken /\ back[p][i] = NoToken /\ ~prepared[p][i]
  BY <1>3 DEF PartyInv, IsIdle
<1>5. PartyInv(p)'
  <2>1. IsIdle(p)'
    BY <1>1, <1>4 DEF IsIdle
  <2>2. GotList(p)'
    BY <1>1, <1>2 DEF GotList, End
  <2>3. Prepares(p)' /\ Evaluates(p)'
    BY <1>2 DEF Prepares, Evaluates, Online
  <2>4. UsedSoFar(p)'
    <3>1. ASSUME NEW h \in 1 .. Len(circ)
          PROVE  UsedSame(p, h)
      BY <1>1, <1>2, <1>3 DEF UsedSame, Evaluated, SentFor, PreparedFor, Over, Online
    <3> QED
      BY <1>1, <3>1, UsedNext DEF PartyInv
  <2> QED
    BY <2>1, <2>2, <2>3, <2>4 DEF PartyInv
<1>6. ASSUME NEW q \in Party, q # p
      PROVE  PartyInv(q)'
  <2>1. LocalSame(q)
    BY <1>1, <1>2, <1>6 DEF LocalSame
  <2> QED
    BY <1>1, <2>1, PartySame
<1> QED
  BY <1>5, <1>6

LEMMA StartInv ==
  ASSUME ControlInv, History, \A q \in Party : PartyInv(q), StartOnline
  PROVE  \A q \in Party : PartyInv(q)'
<1> SUFFICES ASSUME NEW p \in Party PROVE PartyInv(p)'
  OBVIOUS
<1>1. /\ phase[p] = "ready" /\ phase'[p] = "send" /\ pos'[p] = 1 /\ spos'[p] = 1
      /\ UNCHANGED <<circ, rep, deals, dealt, turn, cur, buf, readIdx, out, back, prepared,
                     inbox, used>>
  <2>1. pos \in [Server -> Nat \ {0}] /\ p \in Server /\ p # Dealer /\ (p = P0 \/ p = P1)
    BY TypeFacts, ServerFacts, PartyFacts DEF ControlInv
  <2>2. pos'[p] = 1
    BY <2>1, ServerFacts DEF StartOnline
  <2> QED
    BY <2>1, <2>2 DEF StartOnline, partyVars
<1>2. pos[p] = Len(circ) + 1 /\ Len(circ) \in Nat
  BY <1>1, ServerFacts DEF ControlInv, Placed
<1>3. GotList(p) /\ UsedSoFar(p) /\ PreparedUpTo(p, End)
  BY <1>1, <1>2, OfflineInv DEF End
<1>4. UsedSoFar(p)'
  <2>1. ASSUME NEW h \in 1 .. Len(circ)
        PROVE  UsedSame(p, h)
    <3>1. ~(h < 1)
      OBVIOUS
    <3> QED
      BY <1>1, <3>1 DEF UsedSame, Evaluated, SentFor, PreparedFor, Over, Online
  <2> QED
    BY <1>1, <1>3, <2>1, UsedNext
<1>5. GotList(p)'
  BY <1>1, <1>3 DEF GotList, End, Offline
<1>6. Walked(p, deals[spos[p]], deals[pos[p]], ConstAt(pos[p]))'
  <2>1. deals'[1] = Deal0
    BY <1>1 DEF History
  <2>2. /\ Deal0.cur[p].send = 0 /\ Deal0.cur[p].recv = 0 /\ Deal0.B[p] = <<>>
        /\ \A i \in Idx : Deal0.perms[i] = NoQuad
    BY DEF Deal0
  <2>3. /\ NoQuad.out[p] = NoToken /\ NoQuad.back[p] = NoToken
        /\ \A t : Known(t) = Seen(t, NoToken)
    BY DEF NoQuad, NoTokens, Known, Seen
  <2>4. Len(End.pre[p]) + Len(<<>>) = Len(End.pre[p])
    <3>1. End \in Snapshot
      <4>1. phase[p] \in Offline \cup Over
        BY <1>1 DEF Offline
      <4> QED
        BY <4>1, EndFacts
    <3>2. End.pre[p] \in Seq(Token)
      BY <3>1, SnapshotFacts
    <3> QED
      BY <3>2
  <2>5. (ConstAt(pos[p]))' = 0 /\ End' = End
    <3>1. ConstAt(1) = 0
      BY ConstNext DEF ControlInv
    <3> QED
      BY <1>1, <3>1 DEF ConstAt, Consts, End
  <2> QED
    BY <1>1, <1>3, <2>1, <2>2, <2>3, <2>4, <2>5 DEF Walked, PreparedUpTo, Seen
<1>7. (phase[p] \in Online)' => (PartyInv(p)' <=> /\ GotList(p)' /\ UsedSoFar(p)'
                         /\ Walked(p, deals[spos[p]], deals[pos[p]], ConstAt(pos[p]))')
  BY OnlineInv, PTL
<1>8. (phase[p] \in Online)'
  BY <1>1 DEF Online
<1> QED
  BY <1>4, <1>5, <1>6, <1>7, <1>8

\* At the end of its evaluation a party has read its whole list.
LEMMA AllRead ==
  ASSUME ControlInv, History, NEW p \in Party, PartyInv(p), phase[p] = "evaluated"
  PROVE  readIdx[p] = 0
<1>1. pos[p] = Len(circ) + 1
  BY DEF ControlInv, Placed
<1>2. phase[p] \in Offline \cup Over /\ phase[p] \in Online
  BY DEF Over, Online
<1>3. GotList(p) /\ Walked(p, deals[spos[p]], End, ConstAt(pos[p]))
  BY <1>1, <1>2, OnlineInv DEF End
<1>4. End.pre[p] \in Seq(Token) /\ End.B[p] \in Seq(Token)
  BY <1>2, EndFacts, SnapshotFacts
<1>5. buf[p] = End.pre[p] \o End.B[p]
  BY <1>2, <1>3 DEF GotList
<1>6. Len(buf[p]) = Len(End.pre[p]) + Len(End.B[p]) /\ Len(buf[p]) \in Nat
  <2> DEFINE S == End.pre[p]
             T == End.B[p]
  <2>1. S \in Seq(Token) /\ T \in Seq(Token) /\ buf[p] = S \o T
    BY <1>4, <1>5
  <2> HIDE DEF S, T
  <2>2. Len(S \o T) = Len(S) + Len(T) /\ Len(S) \in Nat /\ Len(T) \in Nat
    BY <2>1
  <2>3. Len(buf[p]) = Len(S) + Len(T) /\ Len(buf[p]) \in Nat
    BY <2>1, <2>2
  <2> QED
    BY <2>3 DEF S, T
<1> QED
  BY <1>3, <1>6 DEF Walked, Wrapped

LEMMA ResetInv ==
  ASSUME ControlInv, History, \A q \in Party : PartyInv(q), NEW s \in Server, Reset(s)
  PROVE  \A q \in Party : PartyInv(q)'
<1>1. /\ phase[s] = "evaluated" /\ phase' = [phase EXCEPT ![s] = "reset"]
      /\ UNCHANGED <<circ, rep, pos, spos, deals, dealt, turn, cur, readIdx, inbox, used>>
  BY DEF Reset
<1>2. /\ phase \in [Server -> Phases] /\ buf \in [Party -> Seq(Token)]
      /\ out \in [Party -> [Idx -> Token]] /\ back \in [Party -> [Idx -> Token]]
      /\ prepared \in [Party -> [Idx -> BOOLEAN]] /\ \A q \in Party : q \in Server
  BY TypeFacts, PartyFacts DEF ControlInv
<1>3. ASSUME NEW q \in Party, q # s
      PROVE  PartyInv(q)'
  <2>1. buf'[q] = buf[q] /\ out'[q] = out[q] /\ back'[q] = back[q] /\ prepared'[q] = prepared[q]
    BY <1>2, <1>3 DEF Reset
  <2>2. LocalSame(q)
    BY <1>1, <1>2, <1>3, <2>1 DEF LocalSame
  <2> QED
    BY <1>1, <2>2, PartySame
<1>4. ASSUME s \in Party
      PROVE  PartyInv(s)'
  <2>1. /\ phase'[s] = "reset" /\ readIdx[s] = 0
        /\ \A i \in Idx : out'[s][i] = NoToken /\ back'[s][i] = NoToken /\ ~prepared'[s][i]
    <3>1. s # Dealer
      BY <1>4, PartyFacts
    <3> QED
      BY <1>1, <1>2, <1>4, <3>1, AllRead DEF Reset
  <2>2. IsIdle(s)'
    BY <1>1, <2>1 DEF IsIdle
  <2>3. GotList(s)' /\ Prepares(s)' /\ Evaluates(s)'
    BY <2>1 DEF GotList, Prepares, Evaluates, Offline, Online
  <2>4. UsedSoFar(s)'
    <3>1. ASSUME NEW h \in 1 .. Len(circ)
          PROVE  UsedSame(s, h)
      BY <1>1, <2>1 DEF UsedSame, Evaluated, SentFor, PreparedFor, Over, Online
    <3> QED
      BY <1>1, <1>4, <3>1, UsedNext DEF PartyInv
  <2> QED
    BY <2>2, <2>3, <2>4 DEF PartyInv
<1> QED
  BY <1>3, <1>4

\* A party that may wait for the next repetition is as it was in the first.
LEMMA FreshWait ==
  ASSUME NEW q \in Party, phase[q] = "wait", readIdx[q] = 0,
         \A i \in Idx : out[q][i] = NoToken /\ back[q][i] = NoToken /\ ~prepared[q][i],
         \A g \in 1 .. Len(circ) : used[q][g] = NoUse
  PROVE  PartyInv(q)
BY WaitFacts

LEMMA NextRepInv ==
  ASSUME ControlInv, \A q \in Party : PartyInv(q), NextRep
  PROVE  \A q \in Party : PartyInv(q)'
<1> SUFFICES ASSUME NEW q \in Party PROVE PartyInv(q)'
  OBVIOUS
<1>1. /\ phase[q] = "reset" /\ phase'[q] = "wait"
      /\ UNCHANGED <<circ, readIdx, out, back, prepared>>
      /\ used'[q] = Unused(circ)
  BY PartyFacts DEF NextRep
<1>2. /\ readIdx[q] = 0
      /\ \A i \in Idx : out[q][i] = NoToken /\ back[q][i] = NoToken /\ ~prepared[q][i]
  BY <1>1 DEF PartyInv, IsIdle
<1>3. \A g \in 1 .. Len(circ) : used'[q][g] = NoUse
  <2>1. DOMAIN circ = 1 .. Len(circ)
    BY CircuitFacts DEF ControlInv
  <2> QED
    BY <1>1, <2>1 DEF Unused
<1>4. (/\ phase[q] = "wait" /\ readIdx[q] = 0
       /\ \A i \in Idx : out[q][i] = NoToken /\ back[q][i] = NoToken /\ ~prepared[q][i]
       /\ \A g \in 1 .. Len(circ) : used[q][g] = NoUse)' => PartyInv(q)'
  BY FreshWait, PTL
<1> QED
  BY <1>1, <1>2, <1>3, <1>4

------------------------------------------------------------------------------
(* The inductive invariant *)

LEMMA InvInit == Init => Inv
<1> SUFFICES ASSUME Init PROVE Inv
  OBVIOUS
<1>1. ControlInv /\ History
  BY ControlInit, HistoryInit
<1>2. ASSUME NEW q \in Party
      PROVE  PartyInv(q)
  <2>1. /\ phase[q] = "wait" /\ readIdx[q] = 0
        /\ \A i \in Idx : out[q][i] = NoToken /\ back[q][i] = NoToken /\ ~prepared[q][i]
        /\ used[q] = Unused(circ)
    BY PartyFacts DEF Init
  <2>2. \A g \in 1 .. Len(circ) : used[q][g] = NoUse
    <3>1. DOMAIN circ = 1 .. Len(circ)
      BY <1>1, CircuitFacts DEF ControlInv
    <3> QED
      BY <2>1, <3>1 DEF Unused
  <2> QED
    BY <2>1, <2>2, FreshWait
<1> QED
  BY <1>1, <1>2 DEF Inv

LEMMA InvStep == Inv /\ [Next]_vars => Inv'
<1> SUFFICES ASSUME Inv, [Next]_vars PROVE Inv'
  OBVIOUS
<1>1. ControlInv /\ TInv /\ History /\ \A q \in Party : PartyInv(q)
  BY DEF Inv, ControlInv
<1>2. ControlInv' /\ History'
  BY <1>1, ControlStep, HistoryStep
<1>3. CASE DealerStep
  <2>1. ASSUME NEW p \in Party, DealerSends(p)
        PROVE  \A q \in Party : PartyInv(q)'
    BY <1>1, <2>1, SendsInv
  <2>2. ASSUME ~ (\E p \in Party : DealerSends(p))
        PROVE  \A q \in Party : PartyInv(q)'
    BY <1>1, <1>3, <2>2, DealInv
  <2>3. \A q \in Party : PartyInv(q)'
    BY <2>1, <2>2
  <2> QED
    BY <1>2, <2>3 DEF Inv
<1>4. ASSUME NEW p \in Party, PrepStep(p) \/ EvalStep(p)
      PROVE  \A q \in Party : PartyInv(q)'
  <2>1. PartyInv(p)'
    BY <1>1, <1>4, PrepInv, EvalInv
  <2>2. ASSUME NEW q \in Party, q # p
        PROVE  PartyInv(q)'
    <3>1. circ' = circ /\ rep' = rep /\ deals' = deals /\ dealt' = dealt /\ LocalSame(q)
      BY <1>1, <1>4, <2>2, PartyKeeps
    <3> QED
      BY <1>1, <3>1, PartySame
  <2> QED
    BY <2>1, <2>2
<1>5. ASSUME NEW s \in Server, Reset(s)
      PROVE  \A q \in Party : PartyInv(q)'
  BY <1>1, <1>5, ResetInv
<1>6. CASE StartOnline
  <2>1. \A q \in Party : PartyInv(q)'
    BY <1>1, <1>6, StartInv
  <2> QED
    BY <1>2, <2>1 DEF Inv
<1>7. CASE NextRep
  <2>1. \A q \in Party : PartyInv(q)'
    BY <1>1, <1>7, NextRepInv
  <2> QED
    BY <1>2, <2>1 DEF Inv
<1>8. CASE UNCHANGED vars
  <2>1. /\ circ' = circ /\ rep' = rep /\ deals' = deals /\ dealt' = dealt
        /\ \A q \in Party : LocalSame(q)
    BY <1>8 DEF vars, partyVars, LocalSame
  <2>2. \A q \in Party : PartyInv(q)'
    BY <1>1, <2>1, PartySame
  <2> QED
    BY <1>2, <2>2 DEF Inv
<1>9. CASE \E s \in Server : Reset(s)
  <2>1. \A q \in Party : PartyInv(q)'
    BY <1>5, <1>9
  <2> QED
    BY <1>2, <2>1 DEF Inv
<1>10. CASE \E p \in Party : PrepStep(p) \/ EvalStep(p)
  <2>1. \A q \in Party : PartyInv(q)'
    BY <1>4, <1>10
  <2> QED
    BY <1>2, <2>1 DEF Inv
<1> QED
  BY <1>3, <1>6, <1>7, <1>8, <1>9, <1>10 DEF Next, ServerStep, Terminated

------------------------------------------------------------------------------
(* What the invariant says of a gate a party is through with *)

LEMMA UsedWhole ==
  ASSUME Inv, NEW p \in Party, NEW g \in DOMAIN circ, Evaluated(p, g)
  PROVE  /\ g \in 1 .. Len(circ) /\ circ[g].type \in GateType
         /\ phase[p] \in Offline \cup Over /\ ControlInv /\ History
         /\ used[p][g] = IF circ[g].type = "SetConstVecSIMD" THEN Mask(g) ELSE dealt[g][p]
<1>1. ControlInv /\ TInv /\ History /\ UsedSoFar(p)
  BY DEF Inv, ControlInv, PartyInv
<1>2. g \in 1 .. Len(circ)
  BY <1>1, CircuitFacts
<1>3. UsedFor(p, g) /\ circ[g].type \in GateType
  BY <1>1, <1>2, GateAt DEF UsedSoFar
<1>4. phase[p] \in Offline \cup Over /\ PreparedFor(p, g)
  BY DEF Evaluated, Over, Online, PreparedFor
<1>5. \/ circ[g].type \in PermGate \cup {"Unshuffle"} /\ circ[g].type # "SetConstVecSIMD"
      \/ circ[g].type = "MulSIMD" \/ circ[g].type = "SetConstVecSIMD"
  BY <1>3 DEF GateType, PermGate
<1> QED
  BY <1>1, <1>2, <1>3, <1>4, <1>5 DEF UsedFor

\* Nothing on the wire says which gate an item of the dealer's list or a
\* draw from a shared generator is for.  Still, in any circuit and any
\* repetition, the mask, the permutations, the correction and the triple
\* that evaluate_send, evaluate_recv and preprocess take for a gate are the
\* ones that the dealer correlated for it.
THEOREM AlignedAlways == Spec => []Aligned
<1>1. Inv => Aligned
  BY UsedWhole DEF Aligned
<1> QED
  BY <1>1, InvInit, InvStep, PTL DEF Spec

\* No party shuffles with a permutation that was never sampled, although
\* Unshuffle samples none itself and takes what lies in the table; and when
\* the dealer merges two shuffles it has sampled both.
THEOREM PermsKnownAlways == Spec => []PermsKnown
<1>1. ASSUME Inv, NEW p \in Party, NEW g \in DOMAIN circ, Evaluated(p, g),
             circ[g].type \in PermGate \cup {"Unshuffle"}
      PROVE  used[p][g].send # NoToken /\ used[p][g].recv # NoToken
  <2>1. /\ g \in 1 .. Len(circ) /\ phase[p] \in Offline \cup Over /\ ControlInv /\ History
        /\ used[p][g] = dealt[g][p]
    BY <1>1, UsedWhole DEF PermGate
  <2>2. NoToken.by = "none"
    BY DEF NoToken
  <2>3. CASE circ[g].type \in PermGate
    <3>1. /\ PermDealt(p, g, deals[g], deals[g + 1], dealt[g][p])
          /\ deals[g + 1].perms[circ[g].idx].out[p].by \in {"perm", "send"}
          /\ deals[g + 1].perms[circ[g].idx].back[p].by \in {"perm", "recv"}
      BY <2>1, <2>3, PermGateFacts
    <3>2. /\ dealt[g][p].send = deals[g + 1].perms[circ[g].idx].out[p]
          /\ dealt[g][p].recv = deals[g + 1].perms[circ[g].idx].back[p]
      BY <3>1 DEF PermDealt
    <3> QED
      BY <2>1, <2>2, <3>1, <3>2
  <2>4. CASE circ[g].type = "Unshuffle"
    <3>1. /\ UnshuffleDealt(p, g, deals[g], deals[g + 1], dealt[g][p])
          /\ deals[g].perms[circ[g].idx].out[p].by \in {"perm", "send"}
          /\ deals[g].perms[circ[g].idx].back[p].by \in {"perm", "recv"}
      BY <2>1, <2>4, UnshuffleFacts
    <3>2. /\ dealt[g][p].send = deals[g].perms[circ[g].idx].back[p]
          /\ dealt[g][p].recv = deals[g].perms[circ[g].idx].out[p]
      BY <3>1 DEF UnshuffleDealt
    <3> QED
      BY <2>1, <2>2, <3>1, <3>2
  <2> QED
    BY <1>1, <2>3, <2>4
<1>2. ASSUME Inv, NEW g \in DOMAIN circ, g < pos[Dealer], circ[g].type = "MergedShuffle",
             NEW i \in {circ[g].pi, circ[g].omega}
      PROVE  deals[g].perms[i] # NoQuad
  <2>1. TInv /\ History
    BY <1>2 DEF Inv, ControlInv
  <2>2. /\ circ \in Circuits /\ DOMAIN circ = 1 .. Len(circ)
        /\ Len(circ) \in Nat /\ pos[Dealer] \in Nat
    BY <2>1, CircuitFacts, DealsFacts
  <2>3. Dealable(circ) /\ i \in Idx
    <3>1. circ[g] \in Gate
      BY <1>2, <2>2, GateFacts
    <3> QED
      BY <1>2, <2>2, <3>1, CorrelationAssumption DEF WellFormed, Gate
  <2>4. PICK h \in DOMAIN circ : h < g /\ circ[h].type = "Shuffle" /\ circ[h].idx = i
    BY <1>2, <2>3 DEF Dealable
  <2>5. h \in 1 .. g - 1 /\ g \in 1 .. pos[Dealer]
    BY <1>2, <2>2, <2>4
  <2>6. Sampled(g, i)
    BY <2>4, <2>5 DEF Sampled, Needs, PermGate
  <2> QED
    BY <2>1, <2>3, <2>5, <2>6 DEF History
<1>3. Inv => PermsKnown
  BY <1>1, <1>2 DEF PermsKnown
<1> QED
  BY <1>3, InvInit, InvStep, PTL DEF Spec

\* Both parties mask the constant of setConstVec with the same part of
\* rng_01, for each has drawn one vector per such gate before, whatever
\* levels those gates are in.
THEOREM SharedMaskAlways == Spec => []SharedMask
<1>1. ASSUME Inv, NEW g \in DOMAIN circ, circ[g].type = "SetConstVecSIMD",
             \A p \in Party : Evaluated(p, g)
      PROVE  used[P0][g] = used[P1][g] /\ used[P0][g].R # NoToken
  <2>1. used[P0][g] = Mask(g) /\ used[P1][g] = Mask(g)
    BY <1>1, UsedWhole, PartyFacts
  <2>2. Mask(g).R.by = "rng01" /\ NoToken.by = "none"
    BY DEF Mask, Draw, NoToken
  <2> QED
    BY <2>1, <2>2
<1>2. Inv => SharedMask
  BY <1>1 DEF SharedMask
<1> QED
  BY <1>2, InvInit, InvStep, PTL DEF Spec

\* Storage::reset does not touch read_idx.  It need not: a party that has
\* evaluated its circuit has read the whole list, and the cursor is back at
\* 0 for the list of the next repetition.
THEOREM ConsumedAlways == Spec => []Consumed
<1>1. ASSUME Inv, NEW p \in Party, phase[p] \in {"evaluated", "reset", "wait"}
      PROVE  readIdx[p] = 0
  <2>1. ControlInv /\ History /\ PartyInv(p) /\ IsIdle(p)
    BY <1>1 DEF Inv, PartyInv
  <2>2. CASE phase[p] = "evaluated"
    BY <2>1, <2>2, AllRead
  <2>3. CASE phase[p] # "evaluated"
    BY <1>1, <2>1, <2>3 DEF IsIdle
  <2> QED
    BY <2>2, <2>3
<1>2. Inv => Consumed
  BY <1>1 DEF Consumed
<1> QED
  BY <1>2, InvInit, InvStep, PTL DEF Spec

------------------------------------------------------------------------------
(* What is drawn from a generator is drawn once *)

\* All that gate g draws comes in pieces of the same size; piece k of a
\* generator starts k pieces after the place where g finds it.
Size(g) == IF circ[g].type = "MulSIMD" THEN circ[g].size ELSE VecSize
Start(p, s, g) == IF s = "rng01" THEN ConstAt(g) ELSE deals[g].cur[p][s]
Offset(k, n) == IF k = 0 THEN 0 ELSE IF k = 1 THEN n ELSE n + n
Piece(p, s, g, k) == Draw(IF s = "rng01" THEN P0 ELSE p, s,
                          Start(p, s, g) + Offset(k, Size(g)), Size(g))

\* t is one of the pieces that gate g draws.
Home(p, g, t) ==
  /\ t.by \in Stream
  /\ \E k \in 0 .. 2 : /\ t = Piece(p, t.by, g, k)
                       /\ Start(p, t.by, g) + Offset(k, Size(g)) + Size(g)
                            <= Start(p, t.by, g + 1)

LEMMA ConstsGrow ==
  ASSUME TInv, NEW g \in 1 .. Len(circ) + 1, NEW h \in 1 .. Len(circ) + 1, g <= h
  PROVE  ConstAt(g) \in Nat /\ ConstAt(h) \in Nat /\ ConstAt(g) <= ConstAt(h)
<1>1. VecSize \in Nat /\ Len(circ) \in Nat
  BY TypeFacts, CircuitFacts
<1>2. IsFiniteSet(Consts(h))
  <2>1. IsFiniteSet(1 .. h - 1)
    BY <1>1, FS_Interval
  <2> QED
    BY <2>1, FS_Subset DEF Consts
<1>3. Consts(g) \subseteq Consts(h)
  <2>1. 1 .. g - 1 \subseteq 1 .. h - 1
    BY <1>1
  <2> QED
    BY <2>1 DEF Consts
<1> DEFINE c == Cardinality(Consts(g))
           d == Cardinality(Consts(h))
<1>4. c \in Nat /\ d \in Nat /\ c <= d
  BY <1>2, <1>3, FS_Subset, FS_CardinalityType
<1>5. ConstAt(g) = VecSize * c /\ ConstAt(h) = VecSize * d
  BY DEF ConstAt
<1> HIDE DEF c, d
<1>6. VecSize * d = VecSize * c + VecSize * (d - c) /\ d - c \in Nat
  BY <1>1, <1>4
<1>7. VecSize * c \in Nat /\ VecSize * d \in Nat /\ VecSize * (d - c) \in Nat
  BY <1>1, <1>4, <1>6
<1> QED
  BY <1>5, <1>6, <1>7

LEMMA StartFacts ==
  ASSUME ControlInv, History, NEW p \in Party, phase[p] \in Offline \cup Over,
         NEW s \in Stream, NEW g \in 1 .. Len(circ) + 1, NEW h \in 1 .. Len(circ) + 1, g <= h
  PROVE  Start(p, s, g) \in Nat /\ Start(p, s, h) \in Nat /\ Start(p, s, g) <= Start(p, s, h)
<1>1. CASE s = "rng01"
  BY <1>1, ConstsGrow DEF Start, ControlInv
<1>2. CASE s # "rng01"
  <2>1. s \in {"prep", "send", "recv"}
    BY <1>2 DEF Stream
  <2>2. deals[g] \in Snapshot /\ deals[h] \in Snapshot
    BY EndFacts
  <2>3. /\ deals[g].cur[p].prep \in Nat /\ deals[g].cur[p].send \in Nat /\ deals[g].cur[p].recv \in Nat
        /\ deals[h].cur[p].prep \in Nat /\ deals[h].cur[p].send \in Nat /\ deals[h].cur[p].recv \in Nat
    BY <2>2, SnapshotFacts
  <2>4. Grown(deals[g], deals[h])
    <3>1. h \in 1 .. pos[Dealer] /\ g \in 1 .. h
      BY EndFacts
    <3> QED
      BY <3>1 DEF History
  <2> QED
    BY <1>2, <2>1, <2>3, <2>4 DEF Grown, Start
<1> QED
  BY <1>1, <1>2

LEMMA SizeFacts ==
  ASSUME TInv, NEW g \in 1 .. Len(circ), NEW k
  PROVE  /\ Size(g) \in Nat \ {0} /\ Offset(k, Size(g)) \in Nat
         /\ \A j : j \in 0 .. 2 /\ k \in 0 .. 2 /\ j < k =>
              Offset(j, Size(g)) + Size(g) <= Offset(k, Size(g))
<1>1. Size(g) \in Nat \ {0}
  BY GateAt DEF Size
<1> QED
  BY <1>1 DEF Offset

\* Two pieces are the same or have nothing in common.
LEMMA HomesApart ==
  ASSUME ControlInv, History, NEW p \in Party, phase[p] \in Offline \cup Over,
         NEW g \in 1 .. Len(circ), NEW h \in 1 .. Len(circ), g <= h,
         NEW t, NEW u, Home(p, g, t), Home(p, h, u), t.by = u.by
  PROVE  /\ t # u => Disjoint(t, u)
         /\ g # h => t # u
<1>1. PICK s : s = t.by /\ s = u.by /\ s \in Stream
  BY DEF Home
<1>2. PICK j \in 0 .. 2 : /\ t = Piece(p, s, g, j)
                          /\ Start(p, s, g) + Offset(j, Size(g)) + Size(g) <= Start(p, s, g + 1)
  BY <1>1 DEF Home
<1>3. PICK k \in 0 .. 2 : /\ u = Piece(p, s, h, k)
                          /\ Start(p, s, h) + Offset(k, Size(h)) + Size(h) <= Start(p, s, h + 1)
  BY <1>1 DEF Home
<1>4. /\ t.at = Start(p, s, g) + Offset(j, Size(g)) /\ t.n = Size(g)
      /\ u.at = Start(p, s, h) + Offset(k, Size(h)) /\ u.n = Size(h)
  BY <1>2, <1>3 DEF Piece, Draw
<1>5. TInv /\ Len(circ) \in Nat
  BY EndFacts DEF ControlInv
<1>6. /\ Size(g) \in Nat \ {0} /\ Size(h) \in Nat \ {0}
      /\ Offset(j, Size(g)) \in Nat /\ Offset(k, Size(h)) \in Nat
  BY <1>5, SizeFacts
<1>7. /\ g \in 1 .. Len(circ) + 1 /\ h \in 1 .. Len(circ) + 1
      /\ g + 1 \in 1 .. Len(circ) + 1 /\ h + 1 \in 1 .. Len(circ) + 1
  BY <1>5
<1>8. /\ Start(p, s, g) \in Nat /\ Start(p, s, g + 1) \in Nat /\ Start(p, s, h) \in Nat
  BY <1>1, <1>7, StartFacts
<1>9. CASE g < h
  <2>1. g + 1 <= h
    BY <1>9
  <2>2. Start(p, s, g + 1) <= Start(p, s, h)
    BY <1>1, <1>7, <2>1, StartFacts
  <2>3. t.at + t.n <= u.at /\ t.n > 0 /\ t.at \in Nat /\ t.n \in Nat
    BY <1>2, <1>4, <1>6, <1>8, <2>2
  <2>4. t.at # u.at
    BY <1>4, <1>6, <1>8, <2>3
  <2> QED
    BY <2>3, <2>4 DEF Disjoint
<1>10. CASE g = h
  <2>1. j = k => t = u
    BY <1>2, <1>3, <1>10
  <2>2. j < k => t.at + t.n <= u.at
    <3>1. j < k => Offset(j, Size(g)) + Size(g) <= Offset(k, Size(g))
      BY <1>5, SizeFacts
    <3> QED
      BY <1>4, <1>6, <1>8, <1>10, <3>1
  <2>3. k < j => u.at + u.n <= t.at
    <3>1. k < j => Offset(k, Size(g)) + Size(g) <= Offset(j, Size(g))
      BY <1>5, SizeFacts
    <3> QED
      BY <1>4, <1>6, <1>8, <1>10, <3>1
  <2>4. j = k \/ j < k \/ k < j
    OBVIOUS
  <2> QED
    BY <1>10, <2>1, <2>2, <2>3, <2>4 DEF Disjoint
<1> QED
  BY <1>9, <1>10

\* A permutation in the tables is shipped, or was drawn at the gate that had
\* it sampled.
LEMMA QuadHomes ==
  ASSUME ControlInv, History, NEW p \in Party, phase[p] \in Offline \cup Over,
         NEW b \in 1 .. Len(circ) + 1, NEW i \in Idx,
         NEW t \in {deals[b].perms[i].out[p], deals[b].perms[i].back[p]}, t.by \in Stream
  PROVE  \E h \in 1 .. Len(circ) : Home(p, h, t)
<1>1. TInv /\ pos[Dealer] = Len(circ) + 1 /\ Len(circ) \in Nat
  BY EndFacts DEF ControlInv
<1>2. Sampled(b, i)
  <2> SUFFICES ASSUME ~Sampled(b, i) PROVE FALSE
    OBVIOUS
  <2>1. deals[b].perms[i] = NoQuad
    BY <1>1 DEF History
  <2>2. t = NoToken /\ NoToken.by = "none"
    BY <2>1 DEF NoQuad, NoTokens, NoToken
  <2> QED
    BY <2>2 DEF Stream
<1>3. PICK h \in 1 .. b - 1 : Sampler(h, i)
  BY <1>1, <1>2 DEF History
<1>4. h \in 1 .. Len(circ) /\ h + 1 \in 1 .. b /\ h \in 1 .. pos[Dealer] - 1 /\ b \in 1 .. pos[Dealer]
  BY <1>1
<1> DEFINE d == deals[h]
           q == deals[h + 1].perms[i]
<1>5. /\ d \in Snapshot /\ q # NoQuad
      /\ q.out[p] = IF MadeOut(p, h, d) THEN Made("perm", p, h, VecSize)
                    ELSE Draw(p, "send", d.cur[p].send + VecSize, VecSize)
      /\ q.back[p] = IF MadeBack(p, h, d) THEN Made("perm", p, h, VecSize)
                     ELSE Draw(p, "recv", d.cur[p].recv, VecSize)
      /\ deals[h + 1].cur[p].send = IF MadeOut(p, h, d) THEN d.cur[p].send + VecSize
                                    ELSE d.cur[p].send + VecSize + VecSize
      /\ deals[h + 1].cur[p].recv = IF MadeBack(p, h, d) THEN d.cur[p].recv
                                    ELSE d.cur[p].recv + VecSize
  BY <1>1, <1>3, <1>4, Sampling
<1>6. deals[b].perms[i] = q
  BY <1>4, <1>5 DEF History, Grown
<1>7. Size(h) = VecSize /\ VecSize \in Nat
  BY <1>1, <1>3, <1>4, GateAt DEF Sampler, Needs, PermGate, Size
<1>8. d.cur[p].send \in Nat /\ d.cur[p].recv \in Nat
  BY <1>5, SnapshotFacts
<1>9. CASE t = q.out[p]
  <2>1. t = Draw(p, "send", d.cur[p].send + VecSize, VecSize) /\ ~MadeOut(p, h, d)
    BY <1>5, <1>9 DEF Made, Stream
  <2>2. t.by = "send"
    BY <2>1 DEF Draw
  <2>3. Start(p, "send", h) = d.cur[p].send /\ Offset(1, Size(h)) = VecSize
        /\ Start(p, "send", h + 1) = d.cur[p].send + VecSize + VecSize
    BY <1>5, <1>7, <2>1 DEF Start, Offset
  <2>4. t = Piece(p, "send", h, 1)
    BY <1>7, <2>1, <2>3 DEF Piece
  <2>5. 1 \in 0 .. 2 /\ Start(p, "send", h) + Offset(1, Size(h)) + Size(h) <= Start(p, "send", h + 1)
    BY <1>7, <1>8, <2>3
  <2>6. Home(p, h, t)
    BY <2>2, <2>4, <2>5 DEF Home
  <2> QED
    BY <1>4, <2>6
<1>10. CASE t = q.back[p]
  <2>1. t = Draw(p, "recv", d.cur[p].recv, VecSize) /\ ~MadeBack(p, h, d)
    BY <1>5, <1>10 DEF Made, Stream
  <2>2. t.by = "recv"
    BY <2>1 DEF Draw
  <2>3. Start(p, "recv", h) = d.cur[p].recv /\ Offset(0, Size(h)) = 0
        /\ Start(p, "recv", h + 1) = d.cur[p].recv + VecSize
    BY <1>5, <1>7, <2>1 DEF Start, Offset
  <2>4. t = Piece(p, "recv", h, 0)
    BY <1>7, <1>8, <2>1, <2>3 DEF Piece
  <2>5. 0 \in 0 .. 2 /\ Start(p, "recv", h) + Offset(0, Size(h)) + Size(h) <= Start(p, "recv", h + 1)
    BY <1>7, <1>8, <2>3
  <2>6. Home(p, h, t)
    BY <2>2, <2>4, <2>5 DEF Home
  <2> QED
    BY <1>4, <2>6
<1> QED
  BY <1>6, <1>9, <1>10

\* The masks, corrections and triples of a gate are its own: drawn there, or
\* made for it by the dealer.
Own(p, g, t) == t = NoToken \/ (t.by \in {"B", "c"} /\ t.at = g) \/ Home(p, g, t)

MaskRecord(r, o, b, m) == [R |-> r, send |-> o, recv |-> b, B |-> m]
MaskParts(u, r, m) == u.R = r /\ u.B = m /\ DOMAIN u = {"R", "send", "recv", "B"}
MaskPerms(u, o, b) == \A f \in {"send", "recv"} : u[f] \in {o, b}

LEMMA MaskFields ==
  ASSUME NEW r, NEW o, NEW b, NEW m
  PROVE  MaskParts(MaskRecord(r, o, b, m), r, m) /\ MaskPerms(MaskRecord(r, o, b, m), o, b)
BY DEF MaskRecord, MaskParts, MaskPerms

LEMMA MaskHome ==
  ASSUME ControlInv, History, NEW p \in Party, phase[p] \in Offline \cup Over,
         NEW g \in 1 .. Len(circ), circ[g].type \in PermGate \cup {"Unshuffle"}
  PROVE  /\ DOMAIN dealt[g][p] = {"R", "send", "recv", "B"}
         /\ Home(p, g, dealt[g][p].R) /\ Own(p, g, dealt[g][p].B)
<1> DEFINE d == deals[g]
           e == deals[g + 1]
           r == Draw(p, "send", d.cur[p].send, VecSize)
<1>1. /\ TInv /\ d \in Snapshot /\ HandledAs(g, d, e, dealt[g])
  BY GateSteps DEF ControlInv
<1>2. /\ d.cur[p].send \in Nat /\ VecSize \in Nat
  BY <1>1, SnapshotFacts, GateAt
<1>3. Size(g) = VecSize
  BY DEF Size, PermGate
<1>4. /\ dealt[g][p].R = r /\ dealt[g][p].B = Made("B", p, g, VecSize)
      /\ DOMAIN dealt[g][p] = {"R", "send", "recv", "B"}
      /\ e.cur[p].send >= d.cur[p].send + VecSize
  <2>1. CASE circ[g].type \in PermGate
    <3>1. PermDealt(p, g, d, e, dealt[g][p])
      BY <1>1, <2>1 DEF HandledAs
    <3>2. e.cur[p].send >= d.cur[p].send + VecSize
      <4>1. \/ e.cur[p].send = d.cur[p].send + VecSize + VecSize
            \/ e.cur[p].send = d.cur[p].send + VecSize
        BY <3>1 DEF PermDealt
      <4> QED
        BY <1>2, <4>1
    <3>3. PICK o, b : dealt[g][p] = MaskRecord(r, o, b, Made("B", p, g, VecSize))
      BY <3>1, Zenon DEF PermDealt, MaskRecord
    <3>4. MaskParts(dealt[g][p], r, Made("B", p, g, VecSize))
      BY ONLY <3>3, MaskFields, Zenon
    <3> QED
      BY ONLY <3>2, <3>4, Zenon DEF MaskParts
  <2>2. CASE circ[g].type = "Unshuffle"
    <3>1. UnshuffleDealt(p, g, d, e, dealt[g][p])
      BY <1>1, <2>2 DEF HandledAs
    <3>2. e.cur[p].send = d.cur[p].send + VecSize
      BY <3>1 DEF UnshuffleDealt
    <3>3. PICK o, b : dealt[g][p] = MaskRecord(r, o, b, Made("B", p, g, VecSize))
      BY <3>1, Zenon DEF UnshuffleDealt, MaskRecord
    <3>4. e.cur[p].send >= d.cur[p].send + VecSize
      BY <1>2, <3>2
    <3>5. MaskParts(dealt[g][p], r, Made("B", p, g, VecSize))
      BY ONLY <3>3, MaskFields, Zenon
    <3> QED
      BY ONLY <3>4, <3>5, Zenon DEF MaskParts
  <2> QED
    BY <2>1, <2>2
<1>5. r.by = "send" /\ "send" \in Stream
  BY DEF Draw, Stream
<1>6. Start(p, "send", g) = d.cur[p].send /\ Start(p, "send", g + 1) = e.cur[p].send
      /\ Offset(0, Size(g)) = 0
  BY DEF Start, Offset
<1>7. r = Piece(p, "send", g, 0)
  BY <1>2, <1>3, <1>6 DEF Piece
<1>8. /\ 0 \in 0 .. 2
      /\ Start(p, "send", g) + Offset(0, Size(g)) + Size(g) <= Start(p, "send", g + 1)
  <2>1. e.cur[p].send \in Nat
    BY GateSteps, SnapshotFacts
  <2> QED
    BY <1>2, <1>3, <1>4, <1>6, <2>1
<1>9. Home(p, g, r)
  BY <1>5, <1>7, <1>8 DEF Home
<1>10. Own(p, g, Made("B", p, g, VecSize))
  BY DEF Own, Made
<1> QED
  BY <1>4, <1>9, <1>10

LEMMA TripleHome ==
  ASSUME ControlInv, History, NEW p \in Party, phase[p] \in Offline \cup Over,
         NEW g \in 1 .. Len(circ), circ[g].type = "MulSIMD"
  PROVE  /\ DOMAIN dealt[g][p] = {"a", "b", "c"}
         /\ Own(p, g, dealt[g][p].a) /\ Own(p, g, dealt[g][p].b) /\ Own(p, g, dealt[g][p].c)
<1> DEFINE d == deals[g]
           e == deals[g + 1]
           n == circ[g].size
           at == d.cur[p].prep
<1>1. TInv /\ d \in Snapshot /\ e \in Snapshot /\ HandledAs(g, d, e, dealt[g])
  BY GateSteps DEF ControlInv
<1>2. at \in Nat /\ n \in Nat \ {0} /\ Size(g) = n
  BY <1>1, SnapshotFacts, GateAt DEF Size
<1>3. TripleDealt(p, g, d, e, dealt[g][p])
  BY <1>1 DEF HandledAs
<1>4. /\ DOMAIN dealt[g][p] = {"a", "b", "c"}
      /\ dealt[g][p].a = Draw(p, "prep", at, n)
      /\ dealt[g][p].b = Draw(p, "prep", at + n, n)
      /\ dealt[g][p].c = IF d.turn = p THEN Made("c", p, g, n) ELSE Draw(p, "prep", at + 2 * n, n)
      /\ e.cur[p].prep = at + (IF d.turn = p THEN 2 ELSE 3) * n
  BY <1>3 DEF TripleDealt
<1>5. Start(p, "prep", g) = at /\ Start(p, "prep", g + 1) = e.cur[p].prep
  BY DEF Start
<1> HIDE DEF at, n
<1>6. ASSUME NEW k \in 0 .. 2, Offset(k, n) + n <= (IF d.turn = p THEN 2 ELSE 3) * n
      PROVE  Home(p, g, Draw(p, "prep", at + Offset(k, n), n))
  <2>1. Draw(p, "prep", at + Offset(k, n), n).by = "prep" /\ "prep" \in Stream
    BY DEF Draw, Stream
  <2>2. Draw(p, "prep", at + Offset(k, n), n) = Piece(p, "prep", g, k)
    BY <1>2, <1>5 DEF Piece
  <2>3. Start(p, "prep", g) + Offset(k, Size(g)) + Size(g) <= Start(p, "prep", g + 1)
    <3>1. Offset(k, n) \in Nat
      BY <1>2 DEF Offset
    <3> DEFINE m == (IF d.turn = p THEN 2 ELSE 3) * n
    <3>2. m \in Nat /\ Offset(k, n) + n <= m /\ e.cur[p].prep = at + m
      BY <1>2, <1>4, <1>6
    <3> HIDE DEF m
    <3>3. at + Offset(k, n) + n <= at + m
      BY <1>2, <3>1, <3>2
    <3> QED
      BY <1>2, <1>5, <3>2, <3>3
  <2> QED
    BY <2>1, <2>2, <2>3 DEF Home
<1>7. /\ Offset(0, n) = 0 /\ Offset(1, n) = n /\ Offset(2, n) = 2 * n
      /\ 0 + n <= 2 * n /\ 0 + n <= 3 * n /\ n + n <= 2 * n /\ n + n <= 3 * n
      /\ 2 * n + n <= 3 * n
  BY <1>2 DEF Offset
<1>8. Home(p, g, dealt[g][p].a)
  <2>1. Home(p, g, Draw(p, "prep", at + Offset(0, n), n))
    BY <1>6, <1>7
  <2>2. at + Offset(0, n) = at
    BY <1>2, <1>7
  <2> QED
    BY <1>4, <2>1, <2>2
<1>9. Home(p, g, dealt[g][p].b)
  <2>1. Home(p, g, Draw(p, "prep", at + Offset(1, n), n))
    BY <1>6, <1>7
  <2> QED
    BY <1>4, <1>7, <2>1
<1>10. CASE d.turn = p
  <2>1. dealt[g][p].c.by = "c" /\ dealt[g][p].c.at = g
    BY <1>4, <1>10 DEF Made
  <2> QED
    BY <1>4, <1>8, <1>9, <2>1 DEF Own
<1>11. CASE d.turn # p
  <2>1. Home(p, g, Draw(p, "prep", at + Offset(2, n), n))
    BY <1>6, <1>7, <1>11
  <2>2. Home(p, g, dealt[g][p].c)
    BY <1>4, <1>7, <1>11, <2>1
  <2> QED
    BY <1>4, <1>8, <1>9, <2>2 DEF Own
<1> QED
  BY <1>10, <1>11

LEMMA ConstHome ==
  ASSUME TInv, NEW p \in Party, NEW g \in 1 .. Len(circ), circ[g].type = "SetConstVecSIMD"
  PROVE  /\ DOMAIN Mask(g) = {"R", "send", "recv", "B"}
         /\ Home(p, g, Mask(g).R)
         /\ Mask(g).send = NoToken /\ Mask(g).recv = NoToken /\ Mask(g).B = NoToken
<1>1. /\ DOMAIN Mask(g) = {"R", "send", "recv", "B"}
      /\ Mask(g).R = Draw(P0, "rng01", ConstAt(g), VecSize)
      /\ Mask(g).send = NoToken /\ Mask(g).recv = NoToken /\ Mask(g).B = NoToken
  BY DEF Mask
<1>2. /\ ConstAt(g) \in Nat /\ VecSize \in Nat /\ Size(g) = VecSize
      /\ ConstAt(g + 1) = ConstAt(g) + VecSize
  BY ConstNext, GateAt DEF Size
<1>3. Start(p, "rng01", g) = ConstAt(g) /\ Start(p, "rng01", g + 1) = ConstAt(g) + VecSize
      /\ Offset(0, Size(g)) = 0
  BY <1>2 DEF Start, Offset
<1>4. Mask(g).R = Piece(p, "rng01", g, 0)
  BY <1>1, <1>2, <1>3 DEF Piece
<1>5. Mask(g).R.by = "rng01" /\ "rng01" \in Stream
  BY <1>1 DEF Draw, Stream
<1>6. 0 \in 0 .. 2 /\ Start(p, "rng01", g) + Offset(0, Size(g)) + Size(g) <= Start(p, "rng01", g + 1)
  BY <1>2, <1>3
<1> QED
  BY <1>1, <1>4, <1>5, <1>6 DEF Home

LEMMA NoTokenBy == NoToken.by = "none" /\ "none" \notin Stream /\ "B" \notin Stream /\ "c" \notin Stream
BY DEF NoToken, Stream

LEMMA OwnParts ==
  ASSUME Inv, NEW p \in Party, NEW g \in DOMAIN circ, Evaluated(p, g),
         NEW f \in DOMAIN used[p][g] \cap {"R", "B", "a", "b", "c"}
  PROVE  Own(p, g, used[p][g][f])
<1>1. /\ g \in 1 .. Len(circ) /\ circ[g].type \in GateType
      /\ phase[p] \in Offline \cup Over /\ ControlInv /\ History /\ TInv
      /\ used[p][g] = IF circ[g].type = "SetConstVecSIMD" THEN Mask(g) ELSE dealt[g][p]
  BY UsedWhole DEF ControlInv
<1>2. CASE circ[g].type \in PermGate \cup {"Unshuffle"}
  <2>1. used[p][g] = dealt[g][p]
    BY <1>1, <1>2 DEF PermGate
  <2>2. f \in {"R", "B"}
    BY <1>1, <1>2, <2>1, MaskHome
  <2> QED
    BY <1>1, <1>2, <2>1, <2>2, MaskHome DEF Own
<1>3. CASE circ[g].type = "MulSIMD"
  <2>1. used[p][g] = dealt[g][p]
    BY <1>1, <1>3
  <2>2. f \in {"a", "b", "c"}
    BY <1>1, <1>3, <2>1, TripleHome
  <2> QED
    BY <1>1, <1>3, <2>1, <2>2, TripleHome
<1>4. CASE circ[g].type = "SetConstVecSIMD"
  <2>1. used[p][g] = Mask(g)
    BY <1>1, <1>4
  <2>2. f \in {"R", "B"}
    BY <1>1, <1>4, <2>1, ConstHome
  <2> QED
    BY <1>1, <1>4, <2>1, <2>2, ConstHome DEF Own
<1> QED
  BY <1>1, <1>2, <1>3, <1>4 DEF GateType, PermGate

LEMMA PartHomes ==
  ASSUME Inv, NEW p \in Party, NEW g \in DOMAIN circ, Evaluated(p, g),
         NEW f \in DOMAIN used[p][g], used[p][g][f].by \in Stream
  PROVE  \E h \in 1 .. Len(circ) : Home(p, h, used[p][g][f])
<1>1. /\ g \in 1 .. Len(circ) /\ circ[g].type \in GateType
      /\ phase[p] \in Offline \cup Over /\ ControlInv /\ History /\ TInv
      /\ used[p][g] = IF circ[g].type = "SetConstVecSIMD" THEN Mask(g) ELSE dealt[g][p]
  BY UsedWhole DEF ControlInv
<1>2. CASE f \in {"R", "B", "a", "b", "c"}
  <2>1. Own(p, g, used[p][g][f])
    BY <1>2, OwnParts
  <2> QED
    BY <1>1, <2>1, NoTokenBy DEF Own
<1>3. CASE f \notin {"R", "B", "a", "b", "c"}
  <2>1. CASE circ[g].type \in PermGate
    <3>1. used[p][g] = dealt[g][p] /\ f \in {"send", "recv"}
      BY <1>1, <1>3, <2>1, MaskHome DEF PermGate
    <3>2. /\ circ[g].idx \in Idx /\ g + 1 \in 1 .. Len(circ) + 1
          /\ PermDealt(p, g, deals[g], deals[g + 1], dealt[g][p])
      BY <1>1, <2>1, PermGateFacts, GateSteps
    <3>3. used[p][g][f] \in {deals[g + 1].perms[circ[g].idx].out[p],
                             deals[g + 1].perms[circ[g].idx].back[p]}
      <4>1. PICK r, m : dealt[g][p] = MaskRecord(r, deals[g + 1].perms[circ[g].idx].out[p],
                                               deals[g + 1].perms[circ[g].idx].back[p], m)
        BY <3>2, Zenon DEF PermDealt, MaskRecord
      <4>2. MaskPerms(dealt[g][p], deals[g + 1].perms[circ[g].idx].out[p],
                                   deals[g + 1].perms[circ[g].idx].back[p])
        BY ONLY <4>1, MaskFields, Zenon
      <4> QED
        BY <3>1, <4>2, Zenon DEF MaskPerms
    <3> QED
      BY <1>1, <3>2, <3>3, QuadHomes
  <2>2. CASE circ[g].type = "Unshuffle"
    <3>1. used[p][g] = dealt[g][p] /\ f \in {"send", "recv"}
      BY <1>1, <1>3, <2>2, MaskHome
    <3>2. /\ circ[g].idx \in Idx /\ g \in 1 .. Len(circ) + 1
          /\ UnshuffleDealt(p, g, deals[g], deals[g + 1], dealt[g][p])
      BY <1>1, <2>2, UnshuffleFacts, GateSteps
    <3>3. used[p][g][f] \in {deals[g].perms[circ[g].idx].out[p],
                             deals[g].perms[circ[g].idx].back[p]}
      <4>1. PICK r, m : dealt[g][p] = MaskRecord(r, deals[g].perms[circ[g].idx].back[p],
                                               deals[g].perms[circ[g].idx].out[p], m)
        BY <3>2, Zenon DEF UnshuffleDealt, MaskRecord
      <4>2. MaskPerms(dealt[g][p], deals[g].perms[circ[g].idx].back[p],
                                   deals[g].perms[circ[g].idx].out[p])
        BY ONLY <4>1, MaskFields, Zenon
      <4> QED
        BY <3>1, <4>2, Zenon DEF MaskPerms
    <3> QED
      BY <1>1, <3>2, <3>3, QuadHomes
  <2>3. CASE circ[g].type = "MulSIMD"
    BY <1>1, <1>3, <2>3, TripleHome
  <2>4. CASE circ[g].type = "SetConstVecSIMD"
    <3>1. f \in {"send", "recv"} /\ used[p][g] = Mask(g)
      BY <1>1, <1>3, <2>4, ConstHome
    <3>2. used[p][g][f] = NoToken
      BY <1>1, <2>4, <3>1, ConstHome
    <3> QED
      BY <3>2, NoTokenBy
  <2> QED
    BY <1>1, <2>1, <2>2, <2>3, <2>4 DEF GateType
<1> QED
  BY <1>2, <1>3

\* No part of a shared generator serves twice: what a party draws as a mask,
\* a factor or a permutation is never drawn again for another purpose, and
\* two gates share no mask, correction or triple.  Where an Unshuffle uses
\* the permutations of its Shuffle, they are the same token.
THEOREM NoReuseAlways == Spec => []NoReuse
<1>1. ASSUME Inv, NEW p \in Party, NEW t \in Tokens(p), NEW u \in Tokens(p),
             t.by = u.by, t.by \in Stream, t # u
      PROVE  Disjoint(t, u)
  <2>1. PICK g \in DOMAIN circ : Evaluated(p, g) /\ \E f \in DOMAIN used[p][g] : t = used[p][g][f]
    BY DEF Tokens
  <2>2. PICK h \in DOMAIN circ : Evaluated(p, h) /\ \E f \in DOMAIN used[p][h] : u = used[p][h][f]
    BY DEF Tokens
  <2>3. PICK j \in 1 .. Len(circ) : Home(p, j, t)
    BY <1>1, <2>1, PartHomes
  <2>4. PICK k \in 1 .. Len(circ) : Home(p, k, u)
    BY <1>1, <2>2, PartHomes
  <2>5. ControlInv /\ History /\ phase[p] \in Offline \cup Over
    BY <1>1, <2>1, UsedWhole
  <2>6. CASE j <= k
    BY <1>1, <2>3, <2>4, <2>5, <2>6, HomesApart
  <2>7. CASE k <= j
    <3>1. Disjoint(u, t)
      BY <1>1, <2>3, <2>4, <2>5, <2>7, HomesApart
    <3> QED
      BY <3>1 DEF Disjoint
  <2> QED
    BY <2>6, <2>7
<1>2. ASSUME Inv, NEW p \in Party, NEW g \in DOMAIN circ, NEW h \in DOMAIN circ,
             Evaluated(p, g), Evaluated(p, h), g # h,
             NEW f \in DOMAIN used[p][g] \cap {"R", "B", "a", "b", "c"} \cap DOMAIN used[p][h]
      PROVE  used[p][g][f] = NoToken \/ used[p][g][f] # used[p][h][f]
  <2> SUFFICES ASSUME used[p][g][f] # NoToken, used[p][g][f] = used[p][h][f] PROVE FALSE
    OBVIOUS
  <2>1. PICK t : t = used[p][g][f] /\ t # NoToken
    OBVIOUS
  <2>2. Own(p, g, t) /\ Own(p, h, t)
    BY <1>2, <2>1, OwnParts
  <2>3. /\ ControlInv /\ History /\ phase[p] \in Offline \cup Over
        /\ g \in 1 .. Len(circ) /\ h \in 1 .. Len(circ)
    BY <1>2, UsedWhole
  <2>4. Home(p, g, t) /\ Home(p, h, t)
    <3>1. t.by \in Stream => t.by # "B" /\ t.by # "c"
      BY NoTokenBy
    <3> QED
      BY <1>2, <2>1, <2>2, <3>1 DEF Own, Home
  <2>5. g <= h \/ h <= g
    BY <2>3
  <2> QED
    BY <1>2, <2>3, <2>4, <2>5, HomesApart
<1>3. Inv => NoReuse
  BY <1>1, <1>2 DEF NoReuse
<1> QED
  BY <1>3, InvInit, InvStep, PTL DEF Spec
==============================================================================
