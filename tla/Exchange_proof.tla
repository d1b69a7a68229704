---------------------------- MODULE Exchange_proof ----------------------------
(***************************************************************************)
(* Proofs about Exchange, for every block size, every capacity of at least *)
(* a block, all circuits and whatever the reads of a broken connection     *)
(* return: the types, that the two streams of values stay aligned, and     *)
(* that the parties never block each other.                                *)
(***************************************************************************)
EXTENDS Exchange, SequenceTheorems, TLAPS

\* There are two parties, each the partner of the other.
LEMMA PartyFacts ==
  /\ \A p \in Party : Partner(p) \in Party /\ Partner(p) # p /\ Partner(Partner(p)) = p
  /\ \A p, q \in Party : p # q => q = Partner(p)
BY DEF Party, Partner

\* A party's vector for a kind of gate is a sequence of as many values.
LEMMA ValuesType ==
  ASSUME NEW p \in Party, NEW l \in Nat \ {0}, NEW level \in [Kind -> Nat], NEW kind \in Kind
  PROVE  /\ Values(p, l, level, kind) \in Seq(Value)
         /\ Len(Values(p, l, level, kind)) = level[kind]
<1>1. \A i \in 1 .. level[kind] : <<p, l, kind, i>> \in Value
  BY DEF Value
<1>2. level[kind] \in Nat
  OBVIOUS
<1> QED
  BY <1>1, <1>2 DEF Values

\* Four sequences behind each other.
LEMMA ConcatFour ==
  ASSUME NEW S, NEW a \in Seq(S), NEW b \in Seq(S), NEW c \in Seq(S), NEW d \in Seq(S)
  PROVE  /\ a \o b \o c \o d \in Seq(S)
         /\ Len(a \o b \o c \o d) = Len(a) + Len(b) + Len(c) + Len(d)
<1>1. a \o b \in Seq(S) /\ Len(a \o b) = Len(a) + Len(b)
  BY ConcatProperties
<1>2. (a \o b) \o c \in Seq(S) /\ Len((a \o b) \o c) = Len(a \o b) + Len(c)
  BY <1>1, ConcatProperties
<1>3. ((a \o b) \o c) \o d \in Seq(S) /\ Len(((a \o b) \o c) \o d) = Len((a \o b) \o c) + Len(d)
  BY <1>2, ConcatProperties
<1> QED
  BY <1>1, <1>2, <1>3

\* What is sent has the length of what is expected.
LEMMA DataSendType ==
  ASSUME NEW p \in Party, NEW l \in Nat \ {0}, NEW level \in [Kind -> Nat]
  PROVE  /\ DataSend(p, l, level) \in Seq(Value)
         /\ Len(DataSend(p, l, level)) = NComm(level)
         /\ NComm(level) \in Nat
<1>1. /\ Values(p, l, level, "mul") \in Seq(Value)
      /\ Len(Values(p, l, level, "mul")) = level["mul"]
  BY ValuesType DEF Kind
<1>2. /\ Values(p, l, level, "and") \in Seq(Value)
      /\ Len(Values(p, l, level, "and")) = level["and"]
  BY ValuesType DEF Kind
<1>3. /\ Values(p, l, level, "shuffle") \in Seq(Value)
      /\ Len(Values(p, l, level, "shuffle")) = level["shuffle"]
  BY ValuesType DEF Kind
<1>4. /\ Values(p, l, level, "reveal") \in Seq(Value)
      /\ Len(Values(p, l, level, "reveal")) = level["reveal"]
  BY ValuesType DEF Kind
<1>5. \A a, b, c, d \in Seq(Value) :
        /\ a \o b \o c \o d \in Seq(Value)
        /\ Len(a \o b \o c \o d) = Len(a) + Len(b) + Len(c) + Len(d)
  BY ConcatFour
<1>6. /\ DataSend(p, l, level) \in Seq(Value)
      /\ Len(DataSend(p, l, level)) =
           Len(Values(p, l, level, "mul")) + Len(Values(p, l, level, "and"))
             + Len(Values(p, l, level, "shuffle")) + Len(Values(p, l, level, "reveal"))
  BY <1>1, <1>2, <1>3, <1>4, <1>5 DEF DataSend
<1>7. NComm(level) \in Nat
  BY DEF NComm, Kind
<1> QED
  BY <1>1, <1>2, <1>3, <1>4, <1>6, <1>7 DEF NComm

\* The four vectors after a level that has received all its values.
LEMMA CombinedType ==
  ASSUME NEW p \in Party, NEW l \in Nat \ {0}, NEW level \in [Kind -> Nat],
         NEW data \in Seq(Got), Len(data) = NComm(level)
  PROVE  Combined(p, l, level, data) \in Outcome
<1> DEFINE own(kind) == Values(p, l, level, kind)
           from(skipped, kind) == [i \in 1 .. level[kind] |-> data[skipped + i]]
           both(op, s, t) == [i \in DOMAIN s |-> <<op, s[i], t[i]>>]
<1>1. /\ level["mul"] \in Nat /\ level["and"] \in Nat
      /\ level["shuffle"] \in Nat /\ level["reveal"] \in Nat
  BY DEF Kind
<1>2. ASSUME NEW skipped \in Nat, NEW kind \in Kind, skipped + level[kind] <= NComm(level)
      PROVE  /\ from(skipped, kind) \in Seq(Got)
             /\ DOMAIN from(skipped, kind) = 1 .. level[kind]
  <2>1. level[kind] \in Nat
    OBVIOUS
  <2>2. \A i \in 1 .. level[kind] : skipped + i \in 1 .. Len(data)
    BY <1>2, <2>1
  <2>3. \A i \in 1 .. level[kind] : data[skipped + i] \in Got
    BY <2>2
  <2> QED
    BY <2>1, <2>3
<1>3. ASSUME NEW skipped \in Nat, NEW kind \in Kind, skipped + level[kind] <= NComm(level),
             NEW op
      PROVE  both(op, own(kind), from(skipped, kind)) \in Seq({op} \X Value \X Got)
  <2>1. own(kind) \in Seq(Value) /\ Len(own(kind)) = level[kind]
    BY ValuesType
  <2> HIDE DEF own
  <2>2. from(skipped, kind) \in Seq(Got) /\ DOMAIN from(skipped, kind) = 1 .. level[kind]
    BY <1>2, <1>3
  <2> HIDE DEF from
  <2>3. level[kind] \in Nat
    OBVIOUS
  <2>4. DOMAIN own(kind) = 1 .. level[kind]
    BY <2>1
  <2>5. \A i \in 1 .. level[kind] : own(kind)[i] \in Value /\ from(skipped, kind)[i] \in Got
    BY <2>1, <2>2, <2>3
  <2>6. \A i \in 1 .. level[kind] :
          <<op, own(kind)[i], from(skipped, kind)[i]>> \in {op} \X Value \X Got
    BY <2>5
  <2> QED
    BY <2>3, <2>4, <2>6
<1> HIDE DEF own, from, both
<1>4. both("+", own("mul"), from(0, "mul")) \in Seq({"+"} \X Value \X Got)
  <2>1. 0 \in Nat /\ "mul" \in Kind /\ 0 + level["mul"] <= NComm(level)
    BY <1>1 DEF Kind, NComm
  <2> QED
    BY <2>1, <1>3
<1>5. both("^", own("and"), from(level["mul"], "and")) \in Seq({"^"} \X Value \X Got)
  BY <1>1, <1>3 DEF Kind, NComm
<1>6. from(level["mul"] + level["and"], "shuffle") \in Seq(Got)
  BY <1>1, <1>2 DEF Kind, NComm
<1>7. both("+", own("reveal"), from(level["mul"] + level["and"] + level["shuffle"], "reveal"))
        \in Seq({"+"} \X Value \X Got)
  BY <1>1, <1>3 DEF Kind, NComm
<1>8. Combined(p, l, level, data) =
        [mul     |-> both("+", own("mul"), from(0, "mul")),
         and     |-> both("^", own("and"), from(level["mul"], "and")),
         shuffle |-> from(level["mul"] + level["and"], "shuffle"),
         reveal  |-> both("+", own("reveal"),
                          from(level["mul"] + level["and"] + level["shuffle"], "reveal"))]
  BY Zenon DEF Combined, own, from, both
<1> QED
  BY <1>4, <1>5, <1>6, <1>7, <1>8 DEF Outcome


------------------------------------------------------------------------------
(* Types *)

\* The level a party is at, and the block of it.
LEMMA BlockFacts ==
  ASSUME TypeOK, NEW p \in Party, ~Finished(p), off[p] <= NComm(Level(p))
  PROVE  /\ lev[p] \in 1 .. Len(circ)
         /\ Level(p) \in [Kind -> Nat]
         /\ NComm(Level(p)) \in Nat
         /\ BlockLen(p) \in 0 .. BLOCK_SIZE
         /\ off[p] + BlockLen(p) <= NComm(Level(p))
         /\ BlockFollows(p) => BlockLen(p) = BLOCK_SIZE
         /\ ~BlockFollows(p) => off[p] + BlockLen(p) = NComm(Level(p))
<1>1. circ \in Seq([Kind -> Nat])
  BY CircuitAssumption DEF TypeOK
<1>2. lev[p] \in 1 .. Len(circ)
  BY <1>1 DEF TypeOK, Finished
<1>3. Level(p) \in [Kind -> Nat]
  BY <1>1, <1>2 DEF Level
<1>4. NComm(Level(p)) \in Nat
  BY <1>3 DEF NComm, Kind
<1>5. off[p] \in Nat
  BY DEF TypeOK
<1> QED
  BY <1>2, <1>3, <1>4, <1>5, BlockAssumption DEF BlockFollows, BlockLen

\* Going on to the next level keeps the types.
LEMMA NextLevelType ==
  ASSUME TypeOK, NEW p \in Party, ~Finished(p), NEW data \in Seq(Got),
         Len(data) = NComm(Level(p)), NextLevel(p, data), done' = [done EXCEPT ![p] = 0],
         UNCHANGED <<circ, alive, wire>>
  PROVE  TypeOK'
<1>1. circ \in Seq([Kind -> Nat])
  BY CircuitAssumption DEF TypeOK
<1>2. lev[p] \in 1 .. Len(circ)
  BY <1>1 DEF TypeOK, Finished
<1>3. Level(p) \in [Kind -> Nat]
  BY <1>1, <1>2 DEF Level
<1>4. Combined(p, lev[p], Level(p), data) \in Outcome
  BY <1>2, <1>3, CombinedType
<1>5. /\ opened' \in [Party -> Seq(Outcome)]
      /\ Len(opened'[p]) = Len(opened[p]) + 1
      /\ \A q \in Party \ {p} : opened'[q] = opened[q]
  BY <1>4 DEF TypeOK, NextLevel
<1>6. /\ lev' \in [Party -> Nat \ {0}] /\ lev'[p] = lev[p] + 1
      /\ \A q \in Party \ {p} : lev'[q] = lev[q]
  BY DEF TypeOK, NextLevel
<1>7. /\ pc' \in [Party -> {"compute", "send", "recv"}] /\ pc'[p] = "compute"
      /\ \A q \in Party \ {p} : pc'[q] = pc[q]
  BY DEF TypeOK, NextLevel
<1>8. /\ off' \in [Party -> Nat] /\ off'[p] = 0
      /\ done' \in [Party -> 0 .. Word - 1] /\ done'[p] = 0
      /\ \A q \in Party \ {p} : off'[q] = off[q] /\ done'[q] = done[q]
  BY BlockAssumption DEF TypeOK, NextLevel
<1>9. /\ data_recv' \in [Party -> Seq(Got)]
      /\ \A q \in Party \ {p} : data_recv'[q] = data_recv[q]
  BY DEF TypeOK, NextLevel
<1>10. ASSUME NEW q \in Party
       PROVE  /\ lev'[q] <= Len(circ') + 1
              /\ Len(opened'[q]) = lev'[q] - 1
              /\ IF pc'[q] = "compute"
                 THEN off'[q] = 0 /\ done'[q] = 0
                 ELSE /\ ~(lev'[q] > Len(circ')) /\ off'[q] <= NComm(circ'[lev'[q]])
                      /\ Len(data_recv'[q]) = NComm(circ'[lev'[q]])
  <2>1. CASE q = p
    BY <2>1, <1>1, <1>2, <1>5, <1>6, <1>7, <1>8 DEF TypeOK
  <2>2. CASE q # p
    BY <2>2, <1>5, <1>6, <1>7, <1>8, <1>9 DEF TypeOK, Finished, Level
  <2> QED
    BY <2>1, <2>2
<1> QED
  BY <1>5, <1>6, <1>7, <1>8, <1>9, <1>10 DEF TypeOK, Finished, Level

LEMMA TypeInit == Init => TypeOK
<1> SUFFICES ASSUME Init PROVE TypeOK
  OBVIOUS
<1>1. circ \in Seq([Kind -> Nat])
  BY CircuitAssumption DEF Init
<1>2. \A S : <<>> \in Seq(S) /\ Len(<<>>) = 0
  OBVIOUS
<1> QED
  BY <1>1, <1>2, BlockAssumption DEF Init, TypeOK


\* The size of the vectors and the place in them, party by party.
Sizes(q) ==
  /\ lev[q] <= Len(circ) + 1
  /\ Len(opened[q]) = lev[q] - 1
  /\ IF pc[q] = "compute"
     THEN off[q] = 0 /\ done[q] = 0
     ELSE ~Finished(q) /\ off[q] <= NComm(Level(q)) /\ Len(data_recv[q]) = NComm(Level(q))

LEMMA TypeStep == TypeOK /\ [Next]_vars => TypeOK'
<1> SUFFICES ASSUME TypeOK, [Next]_vars PROVE TypeOK'
  OBVIOUS
<1>0. circ \in Seq([Kind -> Nat]) /\ Len(circ) \in Nat
  BY CircuitAssumption DEF TypeOK
<1>s. \A q \in Party : Sizes(q)
  BY DEF TypeOK, Sizes
<1>t. ASSUME NEW p \in Party, alive' \in [Party -> BOOLEAN], done' \in [Party -> 0 .. Word - 1],
             pc[p] # "compute", UNCHANGED <<circ, pc, lev, off, wire, data_recv, opened>>,
             \A q \in Party \ {p} : done'[q] = done[q]
      PROVE  TypeOK'
  <2>1. \A q \in Party : Sizes(q)'
    BY <1>s, <1>t DEF Sizes, Finished, Level
  <2> QED
    BY <2>1, <1>t DEF TypeOK, Sizes
<1>1. ASSUME NEW p \in Party, SkipLevel(p) PROVE TypeOK'
  <2>1. done[p] = 0 /\ ~Finished(p) /\ NComm(Level(p)) = 0
    BY <1>1, <1>s DEF SkipLevel, At, Sizes
  <2>2. done' = [done EXCEPT ![p] = 0]
    BY <1>1, <2>1 DEF SkipLevel, TypeOK
  <2>3. <<>> \in Seq(Got) /\ Len(<<>>) = 0
    OBVIOUS
  <2> QED
    BY <1>1, <2>1, <2>2, <2>3, NextLevelType DEF SkipLevel
<1>2. ASSUME NEW p \in Party, Begin(p) PROVE TypeOK'
  <2>1. ~Finished(p) /\ off[p] = 0 /\ done[p] = 0 /\ Level(p) \in [Kind -> Nat]
    BY <1>2, <1>0, <1>s DEF Begin, At, Sizes, Finished, Level, TypeOK
  <2>2. NComm(Level(p)) \in Nat
    BY <2>1 DEF NComm, Kind
  <2> DEFINE zeros == [k \in 1 .. NComm(Level(p)) |-> Nothing]
  <2>3. zeros \in Seq(Got) /\ Len(zeros) = NComm(Level(p))
    BY <2>2 DEF Got
  <2> HIDE DEF zeros
  <2>4. /\ data_recv' \in [Party -> Seq(Got)] /\ data_recv'[p] = zeros
        /\ \A q \in Party \ {p} : data_recv'[q] = data_recv[q]
    BY <1>2, <2>3 DEF Begin, TypeOK, zeros
  <2>5. /\ pc' \in [Party -> {"compute", "send", "recv"}] /\ pc'[p] = "send"
        /\ \A q \in Party \ {p} : pc'[q] = pc[q]
    BY <1>2 DEF Begin, TypeOK
  <2>6. \A q \in Party : Sizes(q)'
    BY <1>2, <1>s, <2>1, <2>2, <2>3, <2>4, <2>5 DEF Begin, Sizes, Finished, Level
  <2> QED
    BY <1>2, <2>4, <2>5, <2>6 DEF Begin, TypeOK, Sizes
<1>3. ASSUME NEW p \in Party, Sent(p) PROVE TypeOK'
  <2>1. /\ pc' \in [Party -> {"compute", "send", "recv"}] /\ pc'[p] = "recv" /\ pc[p] = "send"
        /\ \A q \in Party \ {p} : pc'[q] = pc[q]
    BY <1>3 DEF Sent, At, TypeOK
  <2>2. /\ done' \in [Party -> 0 .. Word - 1]
        /\ \A q \in Party \ {p} : done'[q] = done[q]
    BY <1>3, BlockAssumption DEF Sent, TypeOK
  <2>3. \A q \in Party : Sizes(q)'
    BY <1>3, <1>s, <2>1, <2>2 DEF Sent, Sizes, Finished, Level
  <2> QED
    BY <1>3, <2>1, <2>2, <2>3 DEF Sent, TypeOK, Sizes
<1>4. ASSUME NEW p \in Party, Received(p) PROVE TypeOK'
  <2>1. /\ pc[p] = "recv" /\ ~Finished(p) /\ off[p] <= NComm(Level(p))
        /\ Len(data_recv[p]) = NComm(Level(p)) /\ data_recv[p] \in Seq(Got)
    BY <1>4, <1>s DEF Received, At, Sizes, TypeOK
  <2>2. CASE BlockFollows(p)
    <3>1. /\ pc' \in [Party -> {"compute", "send", "recv"}] /\ pc'[p] = "send"
          /\ \A q \in Party \ {p} : pc'[q] = pc[q]
      <4>1. pc \in [Party -> {"compute", "send", "recv"}]
        BY DEF TypeOK
      <4>2. pc' = [pc EXCEPT ![p] = "send"]
        BY <1>4, <2>2 DEF Received
      <4> QED
        BY <4>1, <4>2
    <3>2. /\ off' \in [Party -> Nat] /\ off'[p] = off[p] + BLOCK_SIZE
          /\ \A q \in Party \ {p} : off'[q] = off[q]
      BY SMTT(20), <1>4, <2>2, BlockAssumption DEF Received, TypeOK
    <3>3. /\ done' \in [Party -> 0 .. Word - 1]
          /\ \A q \in Party \ {p} : done'[q] = done[q]
      BY <1>4, BlockAssumption DEF Received, TypeOK
    <3>4. \A q \in Party : Sizes(q)'
      BY <1>4, <1>s, <2>1, <2>2, <3>1, <3>2, <3>3
         DEF Received, Sizes, Finished, Level, BlockFollows
    <3> QED
      BY <1>4, <2>2, <3>1, <3>2, <3>3, <3>4 DEF Received, TypeOK, Sizes
  <2>3. CASE ~BlockFollows(p)
    BY <1>4, <2>1, <2>3, NextLevelType DEF Received
  <2> QED
    BY <2>2, <2>3
<1>5. ASSUME NEW p \in Party, Write(p) PROVE TypeOK'
  <2>1. /\ pc[p] = "send" /\ ~Finished(p) /\ off[p] <= NComm(Level(p))
        /\ done[p] < BlockLen(p)
    BY <1>5, <1>s DEF Write, Writing, At, Sizes
  <2>a. /\ Level(p) \in [Kind -> Nat] /\ NComm(Level(p)) \in Nat
        /\ BlockLen(p) \in 0 .. BLOCK_SIZE /\ off[p] + BlockLen(p) <= NComm(Level(p))
    BY <2>1, BlockFacts
  <2>b. off[p] \in Nat /\ done[p] \in Nat /\ lev[p] \in Nat \ {0}
    BY DEF TypeOK
  <2>2. /\ Level(p) \in [Kind -> Nat] /\ lev[p] \in Nat \ {0}
        /\ off[p] + done[p] + 1 \in 1 .. NComm(Level(p))
        /\ done[p] + 1 \in 0 .. Word - 1
    BY <2>1, <2>a, <2>b, BlockAssumption
  <2> DEFINE value == DataSend(p, lev[p], Level(p))[off[p] + done[p] + 1]
  <2>3. value \in Value
    BY <2>2, DataSendType
  <2> HIDE DEF value
  <2>4. wire' \in [Party -> Seq(Value)]
    BY <1>5, <2>3, PartyFacts DEF Write, TypeOK, value
  <2>5. /\ done' \in [Party -> 0 .. Word - 1]
        /\ \A q \in Party \ {p} : done'[q] = done[q]
    BY <1>5, <2>2 DEF Write, TypeOK
  <2>6. \A q \in Party : Sizes(q)'
    BY <1>5, <1>s, <2>1, <2>5 DEF Write, Sizes, Finished, Level
  <2> QED
    BY <1>5, <2>4, <2>5, <2>6 DEF Write, TypeOK, Sizes
<1>6. ASSUME NEW p \in Party, WriteLost(p) PROVE TypeOK'
  <2>1. pc[p] = "send" /\ ~Finished(p) /\ off[p] <= NComm(Level(p))
    BY <1>6, <1>s DEF WriteLost, Writing, At, Sizes
  <2>2. BlockLen(p) \in 0 .. Word - 1
    BY <2>1, BlockFacts, BlockAssumption
  <2> QED
    BY <1>6, <1>t, <2>1, <2>2 DEF WriteLost, TypeOK
<1>7. ASSUME NEW p \in Party, WriteKilled(p) PROVE TypeOK'
  <2>1. pc[p] = "send"
    BY <1>7 DEF WriteKilled, Writing, At
  <2> QED
    BY <1>7, <1>t, <2>1 DEF WriteKilled, TypeOK
<1>8. ASSUME NEW p \in Party, Read(p) PROVE TypeOK'
  <2>1. /\ pc[p] = "recv" /\ ~Finished(p) /\ off[p] <= NComm(Level(p))
        /\ done[p] < BlockLen(p) /\ Len(data_recv[p]) = NComm(Level(p))
    BY <1>8, <1>s DEF Read, Reading, At, Sizes
  <2>a. /\ NComm(Level(p)) \in Nat
        /\ BlockLen(p) \in 0 .. BLOCK_SIZE /\ off[p] + BlockLen(p) <= NComm(Level(p))
    BY <2>1, BlockFacts
  <2>b. off[p] \in Nat /\ done[p] \in Nat
    BY DEF TypeOK
  <2>2. /\ off[p] + done[p] + 1 \in 1 .. NComm(Level(p))
        /\ done[p] + 1 \in 0 .. Word - 1
    BY <2>1, <2>a, <2>b, BlockAssumption
  <2>3. wire[p] \in Seq(Value) /\ Head(wire[p]) \in Got /\ Tail(wire[p]) \in Seq(Value)
    BY <1>8 DEF Read, TypeOK, Got
  <2>4. wire' \in [Party -> Seq(Value)]
    BY <1>8, <2>3 DEF Read, TypeOK
  <2> DEFINE new == [data_recv[p] EXCEPT ![off[p] + done[p] + 1] = Head(wire[p])]
  <2>5. new \in Seq(Got) /\ Len(new) = Len(data_recv[p])
    BY <2>1, <2>2, <2>3, ExceptSeq DEF TypeOK
  <2> HIDE DEF new
  <2>6. /\ data_recv' \in [Party -> Seq(Got)] /\ data_recv'[p] = new
        /\ \A q \in Party \ {p} : data_recv'[q] = data_recv[q]
    BY <1>8, <2>5 DEF Read, TypeOK, new
  <2>7. /\ done' \in [Party -> 0 .. Word - 1]
        /\ \A q \in Party \ {p} : done'[q] = done[q]
    BY <1>8, <2>2 DEF Read, TypeOK
  <2>8. \A q \in Party : Sizes(q)'
    BY <1>8, <1>s, <2>1, <2>5, <2>6, <2>7 DEF Read, Sizes, Finished, Level
  <2> QED
    BY <1>8, <2>4, <2>6, <2>7, <2>8 DEF Read, TypeOK, Sizes
<1>9. ASSUME NEW p \in Party, ReadBroken(p) PROVE TypeOK'
  <2>1. pc[p] = "recv"
    BY <1>9 DEF ReadBroken, Reading, At
  <2>2. alive' \in [Party -> BOOLEAN]
    BY <1>9 DEF ReadBroken, TypeOK
  <2>3. \A res \in {0, -1} : (done[p] + (res % Word)) % Word \in 0 .. Word - 1
    BY BlockAssumption DEF TypeOK
  <2>4. /\ done' \in [Party -> 0 .. Word - 1]
        /\ \A q \in Party \ {p} : done'[q] = done[q]
    <3>1. PICK res \in Broken :
            \/ done' = [done EXCEPT ![p] = (@ + (res % Word)) % Word]
            \/ done' = done
      BY <1>9 DEF ReadBroken
    <3>2. (done[p] + (res % Word)) % Word \in 0 .. Word - 1
      BY <2>3, BrokenAssumption
    <3> QED
      BY <3>1, <3>2 DEF TypeOK
  <2> QED
    BY <1>9, <1>t, <2>1, <2>2, <2>4 DEF ReadBroken
<1>10. ASSUME NEW p \in Party, Stop(p) PROVE TypeOK'
  <2>1. \A q \in Party : Sizes(q)'
    BY <1>10, <1>s DEF Stop, Sizes, Finished, Level
  <2> QED
    BY <1>10, <2>1 DEF Stop, TypeOK, Sizes
<1>11. CASE UNCHANGED vars
  <2>1. \A q \in Party : Sizes(q)'
    BY <1>11, <1>s DEF vars, Sizes, Finished, Level
  <2> QED
    BY <1>11, <2>1 DEF vars, TypeOK, Sizes
<1> QED
  BY <1>1, <1>2, <1>3, <1>4, <1>5, <1>6, <1>7, <1>8, <1>9, <1>10, <1>11
     DEF Next, Evaluator, Terminated

\* The variables of the exchange stay within their types, whatever the reads
\* of a broken connection return.
THEOREM TypeCorrect == Spec => []TypeOK
BY TypeInit, TypeStep, PTL DEF Spec


------------------------------------------------------------------------------
(* The streams *)

\* While both processes run no loop counts past its block.
InBlock ==
  (\A p \in Party : alive[p]) =>
     \A p \in Party : pc[p] # "compute" => done[p] <= BlockLen(p)

\* The inductive invariant.
IInv == TypeOK /\ InBlock /\ Conserved

\* The prefix sums at the level of a party.
LEMMA BeforeFacts ==
  ASSUME TypeOK, NEW p \in Party
  PROVE  /\ Before[circ][lev[p]] \in Nat
         /\ ~Finished(p) =>
              /\ Before[circ][lev[p] + 1] \in Nat
              /\ Before[circ][lev[p] + 1] = Before[circ][lev[p]] + NComm(Level(p))
              /\ Before[circ][lev[p]] + NComm(Level(p)) <= Before[circ][Len(circ) + 1]
<1>1. Len(circ) \in Nat /\ lev[p] \in 1 .. Len(circ) + 1
  BY CircuitAssumption DEF TypeOK
<1>2. /\ Before[circ] \in [1 .. Len(circ) + 1 -> Nat]
      /\ \A l \in 1 .. Len(circ) :
           /\ Before[circ][l + 1] = Before[circ][l] + NComm(circ[l])
           /\ \A m \in l .. Len(circ) :
                Before[circ][l] + NComm(circ[l]) <= Before[circ][m + 1]
  BY BeforeAssumption DEF TypeOK
<1>3. Before[circ][lev[p]] \in Nat
  BY <1>1, <1>2
<1>4. ASSUME ~Finished(p)
      PROVE  /\ lev[p] \in 1 .. Len(circ) /\ lev[p] + 1 \in 1 .. Len(circ) + 1
             /\ Len(circ) \in lev[p] .. Len(circ)
  BY <1>1, <1>4 DEF Finished
<1> QED
  BY <1>1, <1>2, <1>3, <1>4 DEF Level

\* A party that does not move has sent and received what it had.
LEMMA Unmoved ==
  ASSUME NEW q \in Party, circ' = circ, pc'[q] = pc[q], lev'[q] = lev[q], off'[q] = off[q],
         done'[q] = done[q]
  PROVE  /\ SentBy(q)' = SentBy(q) /\ ReceivedBy(q)' = ReceivedBy(q)
         /\ BlockLen(q)' = BlockLen(q)
BY DEF SentBy, ReceivedBy, BlockLen, BlockFollows, Level

\* What a party has sent and received, by what it is doing.
LEMMA Counts ==
  ASSUME TypeOK, NEW p \in Party
  PROVE  /\ pc[p] = "compute" => /\ SentBy(p) = Before[circ][lev[p]]
                                 /\ ReceivedBy(p) = Before[circ][lev[p]]
         /\ pc[p] = "send" => /\ SentBy(p) = Before[circ][lev[p]] + off[p] + done[p]
                              /\ ReceivedBy(p) = Before[circ][lev[p]] + off[p]
         /\ pc[p] = "recv" => /\ SentBy(p) = Before[circ][lev[p]] + off[p] + BlockLen(p)
                              /\ ReceivedBy(p) = Before[circ][lev[p]] + off[p] + done[p]
<1>1. Before[circ][lev[p]] \in Nat
  BY BeforeFacts
<1>2. off[p] \in Nat /\ done[p] \in Nat
  <2>1. off \in [Party -> Nat] /\ done \in [Party -> 0 .. Word - 1]
    BY DEF TypeOK
  <2> QED
    BY <2>1
<1>3. pc[p] = "compute" => off[p] = 0
  BY DEF TypeOK
<1> QED
  BY <1>1, <1>2, <1>3 DEF SentBy, ReceivedBy

\* The block of a party that communicates.
LEMMA InLevel ==
  ASSUME TypeOK, NEW p \in Party, pc[p] # "compute"
  PROVE  /\ ~Finished(p)
         /\ off[p] \in Nat /\ done[p] \in Nat /\ NComm(Level(p)) \in Nat
         /\ BlockLen(p) \in 0 .. BLOCK_SIZE
         /\ off[p] + BlockLen(p) <= NComm(Level(p))
         /\ BlockFollows(p) => BlockLen(p) = BLOCK_SIZE
         /\ ~BlockFollows(p) => off[p] + BlockLen(p) = NComm(Level(p))
<1>1. ~Finished(p) /\ off[p] <= NComm(Level(p)) /\ off[p] \in Nat /\ done[p] \in Nat
  BY DEF TypeOK
<1> QED
  BY <1>1, BlockFacts

\* Going on to the next level, all sent and received, changes no count.
LEMMA NextLevelCounts ==
  ASSUME TypeOK, TypeOK', NEW p \in Party, ~Finished(p), NEW data, NextLevel(p, data),
         circ' = circ,
         SentBy(p) = Before[circ][lev[p]] + NComm(Level(p)),
         ReceivedBy(p) = Before[circ][lev[p]] + NComm(Level(p))
  PROVE  SentBy(p)' = SentBy(p) /\ ReceivedBy(p)' = ReceivedBy(p) /\ pc'[p] = "compute"
<1>1. pc'[p] = "compute" /\ off'[p] = 0 /\ lev'[p] = lev[p] + 1
  BY DEF NextLevel, TypeOK
<1>2. Before[circ][lev[p] + 1] \in Nat
  BY BeforeFacts, <1>1
<1>3. SentBy(p)' = Before[circ][lev[p] + 1] /\ ReceivedBy(p)' = Before[circ][lev[p] + 1]
  BY <1>1, <1>2 DEF SentBy, ReceivedBy
<1> QED
  BY <1>1, <1>3, BeforeFacts

\* A step that changes no count and no connection keeps the invariant.
LEMMA Steady ==
  ASSUME IInv, NEW p \in Party, UNCHANGED <<circ, alive, wire>>,
         \A q \in Party \ {p} : /\ pc'[q] = pc[q] /\ lev'[q] = lev[q]
                                /\ off'[q] = off[q] /\ done'[q] = done[q],
         SentBy(p)' = SentBy(p), ReceivedBy(p)' = ReceivedBy(p),
         pc'[p] # "compute" => done'[p] <= BlockLen(p)'
  PROVE  InBlock' /\ Conserved'
<1>1. \A q \in Party \ {p} : /\ SentBy(q)' = SentBy(q) /\ ReceivedBy(q)' = ReceivedBy(q)
                             /\ BlockLen(q)' = BlockLen(q)
  BY Unmoved
<1>2. \A q \in Party : SentBy(q)' = SentBy(q) /\ ReceivedBy(q)' = ReceivedBy(q)
  BY <1>1
<1>3. Conserved'
  BY <1>2 DEF IInv, Conserved
<1>4. InBlock'
  BY <1>1 DEF IInv, InBlock
<1> QED
  BY <1>3, <1>4

\* Numbers of values, and of those on the way.
LEMMA CountTypes ==
  ASSUME TypeOK, NEW p \in Party
  PROVE  SentBy(p) \in Nat /\ ReceivedBy(p) \in Nat /\ Len(wire[p]) \in Nat
<1>1. Before[circ][lev[p]] \in Nat /\ off[p] \in Nat /\ done[p] \in Nat /\ Len(wire[p]) \in Nat
  BY BeforeFacts DEF TypeOK
<1>2. pc[p] = "recv" => BlockLen(p) \in Nat
  BY InLevel
<1>3. pc[p] \in {"compute", "send", "recv"}
  BY DEF TypeOK
<1> QED
  BY <1>1, <1>2, <1>3, Counts

\* A step that moves one value into or out of a connection keeps the
\* invariant.
LEMMA Moving ==
  ASSUME TypeOK, NEW p \in Party,
         \A q \in Party : pc[q] # "compute" => done[q] <= BlockLen(q),
         \A r, q \in Party : q = Partner(r) => SentBy(r) = ReceivedBy(q) + Len(wire[q]),
         circ' = circ, pc'[p] = pc[p], done'[p] = done[p] + 1, done[p] \in Nat,
         BlockLen(p) \in Nat, done[p] < BlockLen(p), BlockLen(p)' = BlockLen(p),
         \A q \in Party \ {p} : /\ pc'[q] = pc[q] /\ lev'[q] = lev[q]
                                /\ off'[q] = off[q] /\ done'[q] = done[q],
         \/ /\ SentBy(p)' = SentBy(p) + 1 /\ ReceivedBy(p)' = ReceivedBy(p)
            /\ Len(wire'[Partner(p)]) = Len(wire[Partner(p)]) + 1 /\ wire'[p] = wire[p]
         \/ /\ SentBy(p)' = SentBy(p) /\ ReceivedBy(p)' = ReceivedBy(p) + 1
            /\ Len(wire'[p]) = Len(wire[p]) - 1 /\ wire'[Partner(p)] = wire[Partner(p)]
  PROVE  InBlock' /\ Conserved'
<1>1. \A q \in Party \ {p} : /\ SentBy(q)' = SentBy(q) /\ ReceivedBy(q)' = ReceivedBy(q)
                             /\ BlockLen(q)' = BlockLen(q)
  BY Unmoved
<1>2. InBlock'
  BY <1>1 DEF InBlock
<1>3. ASSUME NEW r \in Party, NEW q \in Party, q = Partner(r)
      PROVE  SentBy(r)' = ReceivedBy(q)' + Len(wire'[q])
  <2>1. /\ SentBy(r) \in Nat /\ ReceivedBy(r) \in Nat /\ Len(wire[r]) \in Nat
        /\ SentBy(q) \in Nat /\ ReceivedBy(q) \in Nat /\ Len(wire[q]) \in Nat
        /\ SentBy(r) = ReceivedBy(q) + Len(wire[q])
    BY <1>3, CountTypes
  <2>2. r # q /\ r = Partner(q) /\ (p = r \/ p = q)
    BY <1>3, PartyFacts
  <2>3. CASE p = r
    <3>1. SentBy(q)' = SentBy(q) /\ ReceivedBy(q)' = ReceivedBy(q)
      BY <1>1, <2>2, <2>3
    <3> QED
      BY <1>3, <2>1, <2>3, <3>1
  <2>4. CASE p = q
    <3>1. SentBy(r)' = SentBy(r) /\ ReceivedBy(r)' = ReceivedBy(r)
      BY <1>1, <2>2, <2>4
    <3>2. CASE ReceivedBy(q)' = ReceivedBy(q) /\ wire'[q] = wire[q]
      BY <2>1, <3>1, <3>2
    <3>3. CASE ReceivedBy(q)' = ReceivedBy(q) + 1 /\ Len(wire'[q]) = Len(wire[q]) - 1
      BY <2>1, <3>1, <3>3
    <3> QED
      BY <2>4, <3>2, <3>3
  <2> QED
    BY <2>2, <2>3, <2>4
<1>4. Conserved'
  BY <1>3 DEF Conserved
<1> QED
  BY <1>2, <1>4

LEMMA StreamInit == Init => InBlock /\ Conserved
<1> SUFFICES ASSUME Init PROVE InBlock /\ Conserved
  OBVIOUS
<1>1. TypeOK
  BY TypeInit
<1>2. InBlock
  BY DEF Init, InBlock
<1>3. \A p \in Party : SentBy(p) = Before[circ][1] /\ ReceivedBy(p) = Before[circ][1]
  BY <1>1, Counts DEF Init
<1>4. Before[circ][1] \in Nat /\ \A p \in Party : lev[p] = 1 /\ Len(wire[p]) = 0
  <2>1. Len(<<>>) = 0
    OBVIOUS
  <2>2. 0 \in Party /\ Len(circ) \in Nat
    BY CircuitAssumption DEF Party, Init
  <2> QED
    BY <1>1, <2>1, <2>2, BeforeFacts DEF Init
<1>5. Conserved
  BY <1>3, <1>4, PartyFacts DEF Conserved
<1> QED
  BY <1>2, <1>5


\* A step between the loops changes no count.
LEMMA SteadyCounts ==
  ASSUME TypeOK, TypeOK', NEW p \in Party, pc[p] # "compute" => done[p] <= BlockLen(p),
         SkipLevel(p) \/ Begin(p) \/ Sent(p) \/ Received(p)
  PROVE  /\ SentBy(p)' = SentBy(p) /\ ReceivedBy(p)' = ReceivedBy(p)
         /\ pc'[p] # "compute" => done'[p] <= BlockLen(p)'
         /\ \A q \in Party \ {p} : /\ pc'[q] = pc[q] /\ lev'[q] = lev[q]
                                   /\ off'[q] = off[q] /\ done'[q] = done[q]
         /\ UNCHANGED <<circ, alive, wire>>
<1>1. CASE SkipLevel(p)
  <2>1. pc[p] = "compute" /\ ~Finished(p) /\ NComm(Level(p)) = 0 /\ done'[p] = done[p]
    BY <1>1 DEF SkipLevel, At
  <2>2. Before[circ][lev[p]] \in Nat
    BY BeforeFacts
  <2>3. /\ SentBy(p) = Before[circ][lev[p]] + NComm(Level(p))
        /\ ReceivedBy(p) = Before[circ][lev[p]] + NComm(Level(p))
    BY <2>1, <2>2, Counts
  <2>4. SentBy(p)' = SentBy(p) /\ ReceivedBy(p)' = ReceivedBy(p) /\ pc'[p] = "compute"
    BY <1>1, <2>1, <2>3, NextLevelCounts DEF SkipLevel
  <2>5. \A q \in Party \ {p} : /\ pc'[q] = pc[q] /\ lev'[q] = lev[q]
                               /\ off'[q] = off[q] /\ done'[q] = done[q]
    BY <1>1 DEF SkipLevel, NextLevel, TypeOK
  <2> QED
    BY <1>1, <2>4, <2>5 DEF SkipLevel
<1>2. CASE Begin(p)
  <2>1. /\ pc[p] = "compute" /\ pc'[p] = "send" /\ lev'[p] = lev[p] /\ off'[p] = off[p]
        /\ done'[p] = 0 /\ off[p] = 0 /\ circ' = circ /\ ~Finished(p)
    BY <1>2 DEF Begin, At, TypeOK
  <2>2. /\ SentBy(p)' = Before[circ][lev[p]] + off[p] + 0
        /\ ReceivedBy(p)' = Before[circ][lev[p]] + off[p] + 0
    BY <2>1 DEF SentBy, ReceivedBy
  <2>3. SentBy(p)' = SentBy(p) /\ ReceivedBy(p)' = ReceivedBy(p)
    BY <2>1, <2>2, Counts, BeforeFacts
  <2>4. done'[p] <= BlockLen(p)'
    <3>1. NComm(Level(p)) \in Nat /\ off[p] <= NComm(Level(p))
      <4>1. circ \in Seq([Kind -> Nat]) /\ lev[p] \in Nat \ {0} /\ ~(lev[p] > Len(circ))
        BY <2>1, CircuitAssumption DEF Finished, TypeOK
      <4>2. Level(p) \in [Kind -> Nat]
        BY <4>1 DEF Level
      <4> QED
        BY <2>1, <4>2 DEF NComm, Kind
    <3>2. BlockLen(p)' = BlockLen(p)
      BY <2>1 DEF BlockLen, BlockFollows, Level
    <3> QED
      BY <2>1, <3>1, <3>2, BlockFacts
  <2>5. \A q \in Party \ {p} : /\ pc'[q] = pc[q] /\ lev'[q] = lev[q]
                               /\ off'[q] = off[q] /\ done'[q] = done[q]
    BY <1>2 DEF Begin, TypeOK
  <2> QED
    BY <1>2, <2>3, <2>4, <2>5 DEF Begin
<1>3. CASE Sent(p)
  <2>1. /\ pc[p] = "send" /\ pc'[p] = "recv" /\ lev'[p] = lev[p] /\ off'[p] = off[p]
        /\ done'[p] = 0 /\ circ' = circ /\ done[p] >= BlockLen(p)
    BY <1>3 DEF Sent, At, TypeOK
  <2>2. BlockLen(p)' = BlockLen(p)
    BY <2>1 DEF BlockLen, BlockFollows, Level
  <2>3. /\ BlockLen(p) \in Nat /\ done[p] = BlockLen(p)
        /\ off[p] \in Nat /\ Before[circ][lev[p]] \in Nat
    BY <2>1, InLevel, BeforeFacts
  <2>4. /\ SentBy(p)' = Before[circ][lev[p]] + off[p] + BlockLen(p)
        /\ ReceivedBy(p)' = Before[circ][lev[p]] + off[p] + 0
    BY <2>1, <2>2 DEF SentBy, ReceivedBy
  <2>5. SentBy(p)' = SentBy(p) /\ ReceivedBy(p)' = ReceivedBy(p)
    BY <2>1, <2>3, <2>4, Counts
  <2>6. \A q \in Party \ {p} : /\ pc'[q] = pc[q] /\ lev'[q] = lev[q]
                               /\ off'[q] = off[q] /\ done'[q] = done[q]
    BY <1>3 DEF Sent, TypeOK
  <2> QED
    BY <1>3, <2>1, <2>2, <2>3, <2>5, <2>6 DEF Sent
<1>4. CASE Received(p)
  <2>1. pc[p] = "recv" /\ done[p] >= BlockLen(p) /\ circ' = circ /\ done'[p] = 0
    BY <1>4 DEF Received, At, TypeOK
  <2>2. /\ BlockLen(p) \in Nat /\ done[p] = BlockLen(p) /\ ~Finished(p)
        /\ off[p] \in Nat /\ Before[circ][lev[p]] \in Nat /\ NComm(Level(p)) \in Nat
        /\ BlockFollows(p) => BlockLen(p) = BLOCK_SIZE
        /\ ~BlockFollows(p) => off[p] + BlockLen(p) = NComm(Level(p))
    BY <2>1, InLevel, BeforeFacts
  <2>3. /\ SentBy(p) = Before[circ][lev[p]] + off[p] + BlockLen(p)
        /\ ReceivedBy(p) = Before[circ][lev[p]] + off[p] + BlockLen(p)
    BY <2>1, <2>2, Counts
  <2>4. \A q \in Party \ {p} : /\ pc'[q] = pc[q] /\ lev'[q] = lev[q]
                               /\ off'[q] = off[q] /\ done'[q] = done[q]
    <3>1. CASE BlockFollows(p)
      BY <1>4, <3>1 DEF Received, TypeOK
    <3>2. CASE ~BlockFollows(p)
      BY <1>4, <3>2 DEF Received, NextLevel, TypeOK
    <3> QED
      BY <3>1, <3>2
  <2>5. CASE BlockFollows(p)
    <3>1. /\ pc'[p] = "send" /\ lev'[p] = lev[p] /\ off'[p] = off[p] + BLOCK_SIZE
      BY <1>4, <2>5 DEF Received, TypeOK
    <3>2. /\ SentBy(p)' = Before[circ][lev[p]] + (off[p] + BLOCK_SIZE) + 0
          /\ ReceivedBy(p)' = Before[circ][lev[p]] + (off[p] + BLOCK_SIZE) + 0
      BY <2>1, <3>1 DEF SentBy, ReceivedBy
    <3>3. SentBy(p)' = SentBy(p) /\ ReceivedBy(p)' = ReceivedBy(p)
      BY <2>2, <2>3, <2>5, <3>2
    <3>4. BlockLen(p)' >= 0
      <4>1. Level(p)' = Level(p) /\ off[p] + BLOCK_SIZE <= NComm(Level(p))
        BY <2>1, <2>5, <3>1 DEF Level, BlockFollows
      <4> QED
        BY <2>2, <3>1, <4>1, BlockAssumption DEF BlockLen, BlockFollows
    <3> QED
      BY <1>4, <2>1, <2>4, <3>3, <3>4 DEF Received
  <2>6. CASE ~BlockFollows(p)
    <3>1. /\ SentBy(p) = Before[circ][lev[p]] + NComm(Level(p))
          /\ ReceivedBy(p) = Before[circ][lev[p]] + NComm(Level(p))
      BY <2>2, <2>3, <2>6
    <3>2. NextLevel(p, data_recv[p])
      BY <1>4, <2>6 DEF Received
    <3>3. SentBy(p)' = SentBy(p) /\ ReceivedBy(p)' = ReceivedBy(p) /\ pc'[p] = "compute"
      BY <2>1, <2>2, <3>1, <3>2, NextLevelCounts
    <3> QED
      BY <1>4, <2>4, <3>3 DEF Received
  <2> QED
    BY <2>5, <2>6
<1> QED
  BY <1>1, <1>2, <1>3, <1>4

\* A value written is one more sent and one more on the way.
LEMMA WriteCounts ==
  ASSUME TypeOK, NEW p \in Party, Write(p)
  PROVE  /\ circ' = circ /\ pc[p] = "send" /\ pc'[p] = pc[p] /\ done'[p] = done[p] + 1
         /\ done[p] \in Nat /\ BlockLen(p) \in Nat
         /\ done[p] < BlockLen(p) /\ BlockLen(p)' = BlockLen(p)
         /\ SentBy(p)' = SentBy(p) + 1 /\ ReceivedBy(p)' = ReceivedBy(p)
         /\ SentBy(p) = Before[circ][lev[p]] + off[p] + done[p]
         /\ Len(wire'[Partner(p)]) = Len(wire[Partner(p)]) + 1 /\ wire'[p] = wire[p]
         /\ \A q \in Party \ {p} : /\ pc'[q] = pc[q] /\ lev'[q] = lev[q]
                                   /\ off'[q] = off[q] /\ done'[q] = done[q]
<1>1. /\ pc[p] = "send" /\ pc'[p] = "send" /\ lev'[p] = lev[p] /\ off'[p] = off[p]
      /\ done'[p] = done[p] + 1 /\ circ' = circ /\ done[p] < BlockLen(p)
  BY DEF Write, Writing, At, TypeOK
<1>2. BlockLen(p)' = BlockLen(p)
  BY <1>1 DEF BlockLen, BlockFollows, Level
<1>3. /\ BlockLen(p) \in Nat /\ done[p] \in Nat
      /\ off[p] \in Nat /\ Before[circ][lev[p]] \in Nat
  BY <1>1, InLevel, BeforeFacts
<1>4. /\ SentBy(p)' = Before[circ][lev[p]] + off[p] + (done[p] + 1)
      /\ ReceivedBy(p)' = Before[circ][lev[p]] + off[p] + 0
  BY <1>1 DEF SentBy, ReceivedBy
<1>5. SentBy(p)' = SentBy(p) + 1 /\ ReceivedBy(p)' = ReceivedBy(p)
  BY <1>1, <1>3, <1>4, Counts
<1>6. /\ Len(wire'[Partner(p)]) = Len(wire[Partner(p)]) + 1
      /\ wire'[p] = wire[p]
  BY PartyFacts DEF Write, TypeOK
<1>7. \A q \in Party \ {p} : /\ pc'[q] = pc[q] /\ lev'[q] = lev[q]
                             /\ off'[q] = off[q] /\ done'[q] = done[q]
  BY DEF Write, TypeOK
<1> QED
  BY <1>1, <1>2, <1>3, <1>5, <1>6, <1>7, Counts

\* A value read is one more received and one less on the way.
LEMMA ReadCounts ==
  ASSUME TypeOK, NEW p \in Party, Read(p)
  PROVE  /\ circ' = circ /\ pc[p] = "recv" /\ pc'[p] = pc[p] /\ done'[p] = done[p] + 1
         /\ done[p] \in Nat /\ BlockLen(p) \in Nat
         /\ done[p] < BlockLen(p) /\ BlockLen(p)' = BlockLen(p)
         /\ SentBy(p)' = SentBy(p) /\ ReceivedBy(p)' = ReceivedBy(p) + 1
         /\ ReceivedBy(p) = Before[circ][lev[p]] + off[p] + done[p]
         /\ Len(wire'[p]) = Len(wire[p]) - 1 /\ wire'[Partner(p)] = wire[Partner(p)]
         /\ \A q \in Party \ {p} : /\ pc'[q] = pc[q] /\ lev'[q] = lev[q]
                                   /\ off'[q] = off[q] /\ done'[q] = done[q]
<1>1. /\ pc[p] = "recv" /\ pc'[p] = "recv" /\ lev'[p] = lev[p] /\ off'[p] = off[p]
      /\ done'[p] = done[p] + 1 /\ circ' = circ /\ done[p] < BlockLen(p)
      /\ wire[p] # <<>>
  BY DEF Read, Reading, At, TypeOK
<1>2. BlockLen(p)' = BlockLen(p)
  BY <1>1 DEF BlockLen, BlockFollows, Level
<1>3. /\ BlockLen(p) \in Nat /\ done[p] \in Nat
      /\ off[p] \in Nat /\ Before[circ][lev[p]] \in Nat
  BY <1>1, InLevel, BeforeFacts
<1>4. /\ SentBy(p)' = Before[circ][lev[p]] + off[p] + BlockLen(p)
      /\ ReceivedBy(p)' = Before[circ][lev[p]] + off[p] + (done[p] + 1)
  BY <1>1, <1>2 DEF SentBy, ReceivedBy
<1>5. SentBy(p)' = SentBy(p) /\ ReceivedBy(p)' = ReceivedBy(p) + 1
  BY SMTT(20), <1>1, <1>3, <1>4, Counts
<1>6. /\ Len(wire'[p]) = Len(wire[p]) - 1
      /\ wire'[Partner(p)] = wire[Partner(p)]
  <2>1. wire \in [Party -> Seq(Value)] /\ wire[p] # <<>>
        /\ wire' = [wire EXCEPT ![p] = Tail(@)]
    BY DEF Read, TypeOK
  <2>2. wire[p] \in Seq(Value)
    BY <2>1
  <2> QED
    BY <2>1, <2>2, PartyFacts
<1>7. \A q \in Party \ {p} : /\ pc'[q] = pc[q] /\ lev'[q] = lev[q]
                             /\ off'[q] = off[q] /\ done'[q] = done[q]
  BY DEF Read, TypeOK
<1> QED
  BY <1>1, <1>2, <1>3, <1>5, <1>6, <1>7, Counts

LEMMA StreamStep == IInv /\ TypeOK' /\ [Next]_vars => InBlock' /\ Conserved'
<1> SUFFICES ASSUME IInv, TypeOK', [Next]_vars PROVE InBlock' /\ Conserved'
  OBVIOUS
<1>0. TypeOK
  BY DEF IInv
<1>a. CASE ~(\A p \in Party : alive'[p])
  BY <1>a DEF InBlock, Conserved
<1>b. CASE \A p \in Party : alive'[p]
  <2>1. CASE UNCHANGED vars
    <3>1. \A q \in Party : /\ SentBy(q)' = SentBy(q) /\ ReceivedBy(q)' = ReceivedBy(q)
                           /\ BlockLen(q)' = BlockLen(q)
      BY <2>1, Unmoved DEF vars
    <3> QED
      BY <2>1, <3>1 DEF vars, IInv, InBlock, Conserved
  <2>2. ASSUME NEW p \in Party, Stop(p) PROVE FALSE
    BY <2>2, <1>b, <1>0 DEF Stop, TypeOK
  <2>3. ASSUME NEW p \in Party, Evaluator(p) PROVE InBlock' /\ Conserved'
    <3>a. \A q \in Party : alive[q]
      BY <1>b, <2>3, <1>0
         DEF Evaluator, TypeOK, SkipLevel, Begin, Sent, Received, Write, WriteLost, WriteKilled,
             Read, ReadBroken
    <3>b. /\ \A q \in Party : pc[q] # "compute" => done[q] <= BlockLen(q)
          /\ \A r, q \in Party : q = Partner(r) => SentBy(r) = ReceivedBy(q) + Len(wire[q])
      BY <3>a DEF IInv, InBlock, Conserved
    <3>1. CASE SkipLevel(p) \/ Begin(p) \/ Sent(p) \/ Received(p)
      BY <1>0, <3>b, <3>1, SteadyCounts, Steady
    <3>2. CASE Write(p)
      BY <1>0, <3>b, <3>2, WriteCounts, Moving
    <3>3. CASE Read(p)
      BY <1>0, <3>b, <3>3, ReadCounts, Moving
    <3>4. ~WriteLost(p) /\ ~WriteKilled(p) /\ ~ReadBroken(p)
      BY <3>a, PartyFacts DEF WriteLost, WriteKilled, ReadBroken
    <3> QED
      BY <2>3, <3>1, <3>2, <3>3, <3>4 DEF Evaluator
  <2> QED
    BY <2>1, <2>2, <2>3 DEF Next, Terminated
<1> QED
  BY <1>a, <1>b


\* What one party has sent and the other not received is on the way, in every
\* reachable state in which both run.
THEOREM StreamsAligned == Spec => []Conserved
<1>1. Init => IInv
  BY TypeInit, StreamInit DEF IInv
<1>2. IInv /\ [Next]_vars => IInv'
  BY TypeStep, StreamStep DEF IInv
<1>3. IInv => Conserved
  BY DEF IInv
<1> QED
  BY <1>1, <1>2, <1>3, PTL DEF Spec

------------------------------------------------------------------------------
(* Nobody is stuck *)

\* What a blocked party has sent more than received, and that this is no more
\* than a block and all but nothing.
LEMMA Waiting ==
  ASSUME IInv, \A q \in Party : alive[q], NEW p \in Party, Busy(p), Blocked(p)
  PROVE  /\ SentBy(p) < Before[circ][Len(circ) + 1] \/ Len(wire[p]) = 0
         /\ ReceivedBy(p) < Before[circ][Len(circ) + 1]
         /\ \/ /\ Len(wire[Partner(p)]) >= Capacity
               /\ SentBy(p) < Before[circ][Len(circ) + 1]
               /\ SentBy(p) - ReceivedBy(p) < BLOCK_SIZE
            \/ /\ Len(wire[p]) = 0
               /\ SentBy(p) - ReceivedBy(p) > 0
               /\ SentBy(p) - ReceivedBy(p) <= BLOCK_SIZE
<1>1. TypeOK
  BY DEF IInv
<1>2. (Writing(p) /\ ~Room(p)) \/ (Reading(p) /\ wire[p] = <<>>)
  BY DEF Blocked
<1>3. pc[p] \in {"send", "recv"} /\ done[p] < BlockLen(p) /\ ~Finished(p)
  BY <1>2 DEF Writing, Reading, At
<1>4. /\ off[p] \in Nat /\ done[p] \in Nat /\ NComm(Level(p)) \in Nat
      /\ BlockLen(p) \in 0 .. BLOCK_SIZE
      /\ off[p] + BlockLen(p) <= NComm(Level(p))
  BY <1>1, <1>3, InLevel
<1>5. /\ Before[circ][lev[p]] \in Nat
      /\ Before[circ][lev[p]] + NComm(Level(p)) <= Before[circ][Len(circ) + 1]
  BY <1>1, <1>3, BeforeFacts
<1>6. Before[circ][Len(circ) + 1] \in Nat
  <2>1. Len(circ) \in Nat
    BY <1>1, CircuitAssumption DEF TypeOK
  <2>2. circ \in Circuits
    BY <1>1 DEF TypeOK
  <2>3. Before[circ] \in [1 .. Len(circ) + 1 -> Nat]
    BY <2>2, BeforeAssumption
  <2> QED
    BY <2>1, <2>3
<1>7. CASE Writing(p) /\ ~Room(p)
  <2>1. pc[p] = "send" /\ Len(wire[Partner(p)]) \in Nat /\ ~(Len(wire[Partner(p)]) < Capacity)
    BY <1>1, <1>7, CountTypes, PartyFacts DEF Writing, Room, At
  <2>2. /\ SentBy(p) = Before[circ][lev[p]] + off[p] + done[p]
        /\ ReceivedBy(p) = Before[circ][lev[p]] + off[p]
    BY <1>1, <2>1, Counts
  <2>3. Len(wire[Partner(p)]) >= Capacity
    BY <2>1, CapacityAssumption
  <2>4. SentBy(p) < Before[circ][Len(circ) + 1] /\ ReceivedBy(p) < Before[circ][Len(circ) + 1]
    BY SMTT(20), <1>3, <1>4, <1>5, <1>6, <2>2, BlockAssumption
  <2>5. SentBy(p) - ReceivedBy(p) < BLOCK_SIZE
    BY <1>3, <1>4, <1>5, <2>2, BlockAssumption
  <2> QED
    BY <2>3, <2>4, <2>5
<1>8. CASE Reading(p) /\ wire[p] = <<>>
  <2>1. pc[p] = "recv" /\ Len(wire[p]) = 0
    BY <1>8 DEF Reading, At
  <2>2. /\ SentBy(p) = Before[circ][lev[p]] + off[p] + BlockLen(p)
        /\ ReceivedBy(p) = Before[circ][lev[p]] + off[p] + done[p]
    BY <1>1, <2>1, Counts
  <2>3. ReceivedBy(p) < Before[circ][Len(circ) + 1]
    BY SMTT(20), <1>3, <1>4, <1>5, <1>6, <2>2, BlockAssumption
  <2>4. SentBy(p) - ReceivedBy(p) > 0 /\ SentBy(p) - ReceivedBy(p) <= BLOCK_SIZE
    BY <1>3, <1>4, <1>5, <2>2, BlockAssumption
  <2> QED
    BY <2>1, <2>3, <2>4
<1> QED
  BY <1>2, <1>7, <1>8

LEMMA NeverStuckFromInv == IInv => NeverStuck
<1> SUFFICES ASSUME IInv, NEW p \in Party, Busy(p),
                    \A q \in Party : Busy(q) => Blocked(q)
             PROVE  FALSE
  BY DEF NeverStuck
<1> DEFINE q == Partner(p)
<1>1. TypeOK
  BY DEF IInv
<1>2. q \in Party /\ q # p /\ Partner(q) = p /\ \A r \in Party : r = p \/ r = q
  BY PartyFacts
<1>3. alive[p] /\ alive[q] /\ Blocked(p)
  BY DEF Busy, Blocked
<1>4. \A r \in Party : alive[r]
  BY <1>2, <1>3
<1>5. /\ SentBy(p) \in Nat /\ ReceivedBy(p) \in Nat /\ Len(wire[p]) \in Nat
      /\ SentBy(q) \in Nat /\ ReceivedBy(q) \in Nat /\ Len(wire[q]) \in Nat
  BY <1>1, <1>2, CountTypes
<1>6. SentBy(p) = ReceivedBy(q) + Len(wire[q]) /\ SentBy(q) = ReceivedBy(p) + Len(wire[p])
  BY <1>2, <1>4 DEF IInv, Conserved
<1> DEFINE total == Before[circ][Len(circ) + 1]
<1>7. /\ SentBy(p) < total \/ Len(wire[p]) = 0
      /\ ReceivedBy(p) < total
      /\ \/ /\ Len(wire[q]) >= Capacity
            /\ SentBy(p) < total
            /\ SentBy(p) - ReceivedBy(p) < BLOCK_SIZE
         \/ /\ Len(wire[p]) = 0
            /\ SentBy(p) - ReceivedBy(p) > 0
            /\ SentBy(p) - ReceivedBy(p) <= BLOCK_SIZE
  BY <1>3, <1>4, Waiting
<1>8. CASE Finished(q)
  <2>1. pc[q] = "compute" /\ lev[q] = Len(circ) + 1
    <3>1. Len(circ) \in Nat
      BY <1>1, CircuitAssumption DEF TypeOK
    <3> QED
      BY <1>1, <1>2, <1>8, <3>1 DEF TypeOK, Finished
  <2>2. SentBy(q) = total /\ ReceivedBy(q) = total
    BY <1>1, <1>2, <2>1, Counts
  <2> QED
    BY SMTT(20), <1>5, <1>6, <1>7, <2>2
<1>9. CASE ~Finished(q)
  <2>1. Busy(q) /\ Blocked(q)
    BY <1>2, <1>3, <1>9 DEF Busy
  <2>2. \/ /\ Len(wire[p]) >= Capacity
           /\ SentBy(q) - ReceivedBy(q) < BLOCK_SIZE
        \/ /\ Len(wire[q]) = 0
           /\ SentBy(q) - ReceivedBy(q) > 0
           /\ SentBy(q) - ReceivedBy(q) <= BLOCK_SIZE
    BY <1>2, <1>4, <2>1, Waiting
  <2> HIDE DEF q, total
  <2>3. CASE Len(wire[p]) >= Capacity /\ SentBy(q) - ReceivedBy(q) < BLOCK_SIZE
    BY SMTT(20), <1>5, <1>6, <1>7, <2>3, CapacityAssumption, BlockAssumption
  <2>4. CASE /\ Len(wire[q]) = 0
             /\ SentBy(q) - ReceivedBy(q) > 0
             /\ SentBy(q) - ReceivedBy(q) <= BLOCK_SIZE
    BY <1>5, <1>6, <1>7, <2>4, CapacityAssumption, BlockAssumption
  <2> QED
    BY <2>2, <2>3, <2>4
<1> QED
  BY <1>8, <1>9

\* However values are torn apart on their way, two parties that both send a
\* block before they receive one never wait for each other for good, if a
\* connection holds a block.
THEOREM NoDeadlock == Spec => []NeverStuck
<1>1. Init => IInv
  BY TypeInit, StreamInit DEF IInv
<1>2. IInv /\ [Next]_vars => IInv'
  BY TypeStep, StreamStep DEF IInv
<1> QED
  BY <1>1, <1>2, NeverStuckFromInv, PTL DEF Spec

------------------------------------------------------------------------------
(* Exchange implements the abstract rounds of OpenRounds, if the read of a *)
(* broken connection returns 0: for every block size, every capacity of at *)
(* least a block and all circuits.  The run silent_failure shows that the  *)
(* condition is needed.                                                    *)

\* A connection that broke is at its end.
CleanEnd == Broken = {0}

------------------------------------------------------------------------------
(* What is where in the data of a level *)

\* s is made up of four parts behind each other.
Parts(s, a, b, c, d) ==
  /\ \A i \in 1 .. Len(a) : s[i] = a[i]
  /\ \A i \in 1 .. Len(b) : s[Len(a) + i] = b[i]
  /\ \A i \in 1 .. Len(c) : s[Len(a) + Len(b) + i] = c[i]
  /\ \A i \in 1 .. Len(d) : s[Len(a) + Len(b) + Len(c) + i] = d[i]

\* Four sequences behind each other are the parts of the whole.
LEMMA ConcatElements ==
  ASSUME NEW S, NEW a \in Seq(S), NEW b \in Seq(S), NEW c \in Seq(S), NEW d \in Seq(S)
  PROVE  Parts(a \o b \o c \o d, a, b, c, d)
<1>1. \A s, t \in Seq(S) : /\ s \o t \in Seq(S) /\ Len(s \o t) = Len(s) + Len(t)
                           /\ \A i \in 1 .. Len(s) : (s \o t)[i] = s[i]
                           /\ \A i \in 1 .. Len(t) : (s \o t)[Len(s) + i] = t[i]
  OBVIOUS
<1> DEFINE ab == a \o b
           abc == ab \o c
<1>2. ab \in Seq(S) /\ Len(ab) = Len(a) + Len(b)
  BY <1>1
<1>3. abc \in Seq(S) /\ Len(abc) = Len(a) + Len(b) + Len(c)
  <2> HIDE DEF ab
  <2> QED
    BY <1>1, <1>2
<1>4. Len(a) \in Nat /\ Len(b) \in Nat /\ Len(c) \in Nat /\ Len(d) \in Nat
  OBVIOUS
<1>5. /\ \A i \in 1 .. Len(a) : ab[i] = a[i]
      /\ \A i \in 1 .. Len(b) : ab[Len(a) + i] = b[i]
  BY <1>1
<1>6. /\ \A i \in 1 .. Len(ab) : abc[i] = ab[i]
      /\ \A i \in 1 .. Len(c) : abc[Len(ab) + i] = c[i]
  <2> HIDE DEF ab
  <2> QED
    BY <1>1, <1>2
<1>7. /\ \A i \in 1 .. Len(abc) : (abc \o d)[i] = abc[i]
      /\ \A i \in 1 .. Len(d) : (abc \o d)[Len(abc) + i] = d[i]
  <2> HIDE DEF abc
  <2> QED
    BY <1>1, <1>3
<1> HIDE DEF ab, abc
<1>8. \A i \in 1 .. Len(a) : (abc \o d)[i] = a[i]
  BY <1>2, <1>3, <1>4, <1>5, <1>6, <1>7
<1>9. \A i \in 1 .. Len(b) : (abc \o d)[Len(a) + i] = b[i]
  BY <1>2, <1>3, <1>4, <1>5, <1>6, <1>7
<1>10. \A i \in 1 .. Len(c) : (abc \o d)[Len(a) + Len(b) + i] = c[i]
  BY <1>2, <1>3, <1>4, <1>6, <1>7
<1>11. \A i \in 1 .. Len(d) : (abc \o d)[Len(a) + Len(b) + Len(c) + i] = d[i]
  BY <1>3, <1>7
<1> QED
  BY <1>8, <1>9, <1>10, <1>11 DEF ab, abc, Parts

\* A kind's values begin behind those of the kinds before it.
LEMMA DataSendElements ==
  ASSUME NEW p \in Party, NEW l \in Nat \ {0}, NEW level \in [Kind -> Nat]
  PROVE  /\ \A i \in 1 .. level["mul"] : DataSend(p, l, level)[i] = <<p, l, "mul", i>>
         /\ \A i \in 1 .. level["and"] :
              DataSend(p, l, level)[level["mul"] + i] = <<p, l, "and", i>>
         /\ \A i \in 1 .. level["shuffle"] :
              DataSend(p, l, level)[level["mul"] + level["and"] + i] = <<p, l, "shuffle", i>>
         /\ \A i \in 1 .. level["reveal"] :
              DataSend(p, l, level)[level["mul"] + level["and"] + level["shuffle"] + i]
                = <<p, l, "reveal", i>>
<1> DEFINE v(kind) == Values(p, l, level, kind)
<1>1. \A kind \in Kind : /\ v(kind) \in Seq(Value) /\ Len(v(kind)) = level[kind]
                         /\ \A i \in 1 .. level[kind] : v(kind)[i] = <<p, l, kind, i>>
  <2>1. \A kind \in Kind : v(kind) \in Seq(Value) /\ Len(v(kind)) = level[kind]
    BY ValuesType
  <2>2. \A kind \in Kind : \A i \in 1 .. level[kind] : v(kind)[i] = <<p, l, kind, i>>
    BY DEF Values
  <2> QED
    BY <2>1, <2>2
<1>2. DataSend(p, l, level) = v("mul") \o v("and") \o v("shuffle") \o v("reveal")
  BY DEF DataSend
<1> HIDE DEF v
<1>3. /\ "mul" \in Kind /\ "and" \in Kind /\ "shuffle" \in Kind /\ "reveal" \in Kind
  BY DEF Kind
<1>4. /\ v("mul") \in Seq(Value) /\ Len(v("mul")) = level["mul"]
      /\ v("and") \in Seq(Value) /\ Len(v("and")) = level["and"]
      /\ v("shuffle") \in Seq(Value) /\ Len(v("shuffle")) = level["shuffle"]
      /\ v("reveal") \in Seq(Value) /\ Len(v("reveal")) = level["reveal"]
  BY <1>1, <1>3
<1> DEFINE all == DataSend(p, l, level)
<1>5. \A a, b, c, d \in Seq(Value) : Parts(a \o b \o c \o d, a, b, c, d)
  BY ConcatElements
<1>6. Parts(all, v("mul"), v("and"), v("shuffle"), v("reveal"))
  BY <1>2, <1>4, <1>5
<1> HIDE DEF all
<1>7. /\ \A i \in 1 .. level["mul"] : all[i] = v("mul")[i]
      /\ \A i \in 1 .. level["and"] : all[level["mul"] + i] = v("and")[i]
      /\ \A i \in 1 .. level["shuffle"] :
           all[level["mul"] + level["and"] + i] = v("shuffle")[i]
      /\ \A i \in 1 .. level["reveal"] :
           all[level["mul"] + level["and"] + level["shuffle"] + i] = v("reveal")[i]
  BY <1>4, <1>6 DEF Parts
<1>8. /\ \A i \in 1 .. level["mul"] : v("mul")[i] = <<p, l, "mul", i>>
      /\ \A i \in 1 .. level["and"] : v("and")[i] = <<p, l, "and", i>>
      /\ \A i \in 1 .. level["shuffle"] : v("shuffle")[i] = <<p, l, "shuffle", i>>
      /\ \A i \in 1 .. level["reveal"] : v("reveal")[i] = <<p, l, "reveal", i>>
  BY <1>1, <1>3
<1> QED
  BY <1>7, <1>8 DEF all

\* A party that has received the data its partner sent combines it to the
\* result of the round.
LEMMA CombinedResult ==
  ASSUME NEW p \in Party, NEW l \in Nat \ {0}, circ[l] \in [Kind -> Nat], NEW data,
         \A i \in 1 .. NComm(circ[l]) : data[i] = DataSend(Partner(p), l, circ[l])[i]
  PROVE  Combined(p, l, circ[l], data) = Rounds!Result(p, l)
<1> DEFINE level == circ[l]
           q == Partner(p)
           own(kind) == Values(p, l, level, kind)
           from(skipped, kind) == [i \in 1 .. level[kind] |-> data[skipped + i]]
           both(op, s, t) == [i \in DOMAIN s |-> <<op, s[i], t[i]>>]
<1>1. /\ level["mul"] \in Nat /\ level["and"] \in Nat
      /\ level["shuffle"] \in Nat /\ level["reveal"] \in Nat
      /\ NComm(level) = level["mul"] + level["and"] + level["shuffle"] + level["reveal"]
  BY DEF Kind, NComm
<1>2. q \in Party
  BY PartyFacts
<1>3. level \in [Kind -> Nat] /\ \A i \in 1 .. NComm(level) : data[i] = DataSend(q, l, level)[i]
  OBVIOUS
<1>4. /\ \A i \in 1 .. level["mul"] : DataSend(q, l, level)[i] = <<q, l, "mul", i>>
      /\ \A i \in 1 .. level["and"] :
           DataSend(q, l, level)[level["mul"] + i] = <<q, l, "and", i>>
      /\ \A i \in 1 .. level["shuffle"] :
           DataSend(q, l, level)[level["mul"] + level["and"] + i] = <<q, l, "shuffle", i>>
      /\ \A i \in 1 .. level["reveal"] :
           DataSend(q, l, level)[level["mul"] + level["and"] + level["shuffle"] + i]
             = <<q, l, "reveal", i>>
  BY <1>2, <1>3, DataSendElements
<1>5. Combined(p, l, level, data) =
        [mul     |-> both("+", own("mul"), from(0, "mul")),
         and     |-> both("^", own("and"), from(level["mul"], "and")),
         shuffle |-> from(level["mul"] + level["and"], "shuffle"),
         reveal  |-> both("+", own("reveal"),
                          from(level["mul"] + level["and"] + level["shuffle"], "reveal"))]
  BY Zenon DEF Combined, own, from, both
<1>6. Rounds!Result(p, l) =
        [mul     |-> both("+", own("mul"), Values(q, l, level, "mul")),
         and     |-> both("^", own("and"), Values(q, l, level, "and")),
         shuffle |-> Values(q, l, level, "shuffle"),
         reveal  |-> both("+", own("reveal"), Values(q, l, level, "reveal"))]
  BY Zenon DEF Rounds!Result, Rounds!Both, Rounds!Values, Rounds!Partner, Values, Partner
<1>7. from(0, "mul") = Values(q, l, level, "mul")
  <2>1. \A i \in 1 .. level["mul"] : data[0 + i] = <<q, l, "mul", i>>
    <3> HIDE DEF level, q
    <3> QED
      BY <1>1, <1>3, <1>4
  <2> QED
    BY <2>1 DEF Values
<1>8. from(level["mul"], "and") = Values(q, l, level, "and")
  <2>1. \A i \in 1 .. level["and"] : data[level["mul"] + i] = <<q, l, "and", i>>
    <3> HIDE DEF level, q
    <3>1. \A i \in 1 .. level["and"] : level["mul"] + i \in 1 .. NComm(level)
      BY <1>1
    <3> QED
      BY <1>3, <1>4, <3>1
  <2> QED
    BY <2>1 DEF Values
<1>9. from(level["mul"] + level["and"], "shuffle") = Values(q, l, level, "shuffle")
  <2>1. \A i \in 1 .. level["shuffle"] :
          data[level["mul"] + level["and"] + i] = <<q, l, "shuffle", i>>
    <3> HIDE DEF level, q
    <3> QED
      BY <1>1, <1>3, <1>4
  <2> QED
    BY <2>1 DEF Values
<1>10. from(level["mul"] + level["and"] + level["shuffle"], "reveal")
         = Values(q, l, level, "reveal")
  <2>1. \A i \in 1 .. level["reveal"] :
          data[level["mul"] + level["and"] + level["shuffle"] + i] = <<q, l, "reveal", i>>
    <3> HIDE DEF level, q
    <3> QED
      BY <1>1, <1>3, <1>4
  <2> QED
    BY <2>1 DEF Values
<1> HIDE DEF level, q, own, from, both
<1>11. Combined(p, l, level, data) = Rounds!Result(p, l)
  BY <1>5, <1>6, <1>7, <1>8, <1>9, <1>10
<1> QED
  BY <1>11 DEF level

------------------------------------------------------------------------------
(* The invariant *)

\* No loop counts past its block, even after the end of the partner.
Fits == \A p \in Party : pc[p] # "compute" => done[p] <= BlockLen(p)

\* What a running party has not received is on the way to it.
Balanced == \A p \in Party : alive[p] => SentBy(Partner(p)) = ReceivedBy(p) + Len(wire[p])

\* A value on the way is the one that belongs to its place in the stream.
OnTheWay(p) ==
  \A k \in 1 .. Len(wire[p]), l \in 1 .. Len(circ) : \A i \in 1 .. NComm(circ[l]) :
    ReceivedBy(p) + k = Before[circ][l] + i
      => wire[p][k] = DataSend(Partner(p), l, circ[l])[i]

\* So are the values received for the level.
Taken(p) ==
  pc[p] # "compute" =>
    \A i \in 1 .. NComm(Level(p)) :
      Before[circ][lev[p]] + i <= ReceivedBy(p)
        => data_recv[p][i] = DataSend(Partner(p), lev[p], Level(p))[i]

InStep == Fits /\ Balanced /\ \A p \in Party : alive[p] => OnTheWay(p) /\ Taken(p)

\* A place in the stream belongs to one level.
LEMMA PlaceOfValue ==
  ASSUME TypeOK, NEW l \in 1 .. Len(circ), NEW m \in 1 .. Len(circ), NEW i \in 1 .. NComm(circ[l]),
         NEW j \in 1 .. NComm(circ[m]), Before[circ][l] + i = Before[circ][m] + j
  PROVE  l = m /\ i = j
<1>1. /\ Before[circ] \in [1 .. Len(circ) + 1 -> Nat]
      /\ \A h \in 1 .. Len(circ) : \A k \in h .. Len(circ) :
           Before[circ][h] + NComm(circ[h]) <= Before[circ][k + 1]
  BY BeforeAssumption DEF TypeOK
<1>2. circ \in Seq([Kind -> Nat]) /\ Len(circ) \in Nat
  BY CircuitAssumption DEF TypeOK
<1>3. ASSUME NEW h \in 1 .. Len(circ)
      PROVE  NComm(circ[h]) \in Nat /\ Before[circ][h] \in Nat
  <2>1. circ[h] \in [Kind -> Nat]
    BY <1>2
  <2>2. \A level \in [Kind -> Nat] : NComm(level) \in Nat
    BY DEF NComm, Kind
  <2>3. NComm(circ[h]) \in Nat
    BY <2>1, <2>2
  <2>4. h \in 1 .. Len(circ) + 1
    BY <1>2
  <2>5. Before[circ][h] \in Nat
    BY <1>1, <2>4, Zenon
  <2> QED
    BY <2>3, <2>5
<1>4. ASSUME NEW h \in 1 .. Len(circ), NEW k \in 1 .. Len(circ), h < k
      PROVE  Before[circ][h] + NComm(circ[h]) <= Before[circ][k]
  <2>1. k - 1 \in h .. Len(circ) /\ (k - 1) + 1 = k
    BY <1>2, <1>4
  <2>2. Before[circ][h] + NComm(circ[h]) <= Before[circ][(k - 1) + 1]
    BY <1>1, <2>1
  <2> QED
    BY <2>1, <2>2
<1>5. l = m
  <2>1. CASE l < m
    <3>1. Before[circ][l] + NComm(circ[l]) <= Before[circ][m]
      BY <1>4, <2>1
    <3> QED
      BY <1>3, <3>1
  <2>2. CASE m < l
    <3>1. Before[circ][m] + NComm(circ[m]) <= Before[circ][l]
      BY <1>4, <2>2
    <3> QED
      BY <1>3, <3>1
  <2> QED
    BY <1>2, <2>1, <2>2
<1> QED
  BY <1>3, <1>5

\* The place of a value a party sends or receives next.
LEMMA NextPlace ==
  ASSUME TypeOK, NEW p \in Party, pc[p] # "compute", done[p] < BlockLen(p)
  PROVE  /\ lev[p] \in 1 .. Len(circ)
         /\ off[p] + done[p] + 1 \in 1 .. NComm(Level(p))
         /\ Level(p) = circ[lev[p]]
         /\ Before[circ][lev[p]] \in Nat
<1>1. /\ ~Finished(p) /\ off[p] \in Nat /\ done[p] \in Nat /\ NComm(Level(p)) \in Nat
      /\ BlockLen(p) \in 0 .. BLOCK_SIZE /\ off[p] + BlockLen(p) <= NComm(Level(p))
  BY InLevel
<1>2. lev[p] \in 1 .. Len(circ)
  BY <1>1, CircuitAssumption DEF TypeOK, Finished
<1> QED
  BY <1>1, <1>2, BeforeFacts, BlockAssumption DEF Level

\* Nothing changes for a party whose connection and counts do not.
LEMMA Undisturbed ==
  ASSUME NEW p \in Party, circ' = circ, ReceivedBy(p)' = ReceivedBy(p), wire'[p] = wire[p],
         pc'[p] # "compute" =>
           /\ lev'[p] = lev[p] /\ data_recv'[p] = data_recv[p] /\ pc[p] # "compute",
         OnTheWay(p), Taken(p)
  PROVE  OnTheWay(p)' /\ Taken(p)'
<1>1. OnTheWay(p)'
  BY DEF OnTheWay
<1>2. Taken(p)'
  BY DEF Taken, Level
<1> QED
  BY <1>1, <1>2

LEMMA InStepInit == Init => InStep
<1> SUFFICES ASSUME Init PROVE InStep
  OBVIOUS
<1>1. TypeOK
  BY TypeInit
<1>2. Conserved /\ \A p \in Party : alive[p] /\ pc[p] = "compute" /\ wire[p] = <<>>
  BY StreamInit DEF Init
<1>3. Fits /\ \A p \in Party : Taken(p)
  BY <1>2 DEF Fits, Taken
<1>4. Balanced
  BY <1>2, PartyFacts DEF Balanced, Conserved
<1>5. \A p \in Party : OnTheWay(p)
  <2>1. Len(<<>>) = 0
    OBVIOUS
  <2>2. \A p \in Party : Len(wire[p]) = 0
    BY <1>2, <2>1
  <2> QED
    BY <2>2 DEF OnTheWay
<1> QED
  BY <1>3, <1>4, <1>5 DEF InStep

\* A value written is put in its place.
LEMMA WriteInStep ==
  ASSUME TypeOK, InStep, NEW p \in Party, Write(p)
  PROVE  InStep'
<1> DEFINE q == Partner(p)
<1>1. /\ circ' = circ /\ pc[p] = "send" /\ pc'[p] = pc[p] /\ done'[p] = done[p] + 1
      /\ done[p] \in Nat /\ BlockLen(p) \in Nat
      /\ done[p] < BlockLen(p) /\ BlockLen(p)' = BlockLen(p)
      /\ SentBy(p)' = SentBy(p) + 1 /\ ReceivedBy(p)' = ReceivedBy(p)
      /\ SentBy(p) = Before[circ][lev[p]] + off[p] + done[p]
      /\ Len(wire'[q]) = Len(wire[q]) + 1 /\ wire'[p] = wire[p]
      /\ \A r \in Party \ {p} : /\ pc'[r] = pc[r] /\ lev'[r] = lev[r]
                                /\ off'[r] = off[r] /\ done'[r] = done[r]
  BY WriteCounts
<1>2. /\ q \in Party /\ q # p /\ Partner(q) = p
      /\ \A r \in Party : r = p \/ r = q
  BY PartyFacts
<1>3. /\ alive' = alive /\ data_recv' = data_recv /\ lev' = lev
      /\ wire' = [wire EXCEPT ![q] = Append(@, DataSend(p, lev[p], Level(p))[off[p] + done[p] + 1])]
  BY DEF Write
<1>4. SentBy(q)' = SentBy(q) /\ ReceivedBy(q)' = ReceivedBy(q) /\ BlockLen(q)' = BlockLen(q)
  BY <1>1, <1>2, Unmoved
<1> HIDE DEF q
<1>5. Fits'
  BY <1>1, <1>2, <1>4 DEF InStep, Fits
<1>6. Balanced'
  <2>1. alive[p] => SentBy(q)' = ReceivedBy(p)' + Len(wire'[p])
    BY <1>1, <1>4 DEF InStep, Balanced, q
  <2>2. alive[q] => SentBy(p)' = ReceivedBy(q)' + Len(wire'[q])
    <3>1. ReceivedBy(q) \in Nat /\ Len(wire[q]) \in Nat
      BY <1>2, CountTypes
    <3>2. alive[q] => SentBy(p) = ReceivedBy(q) + Len(wire[q])
      BY <1>2 DEF InStep, Balanced
    <3> QED
      BY <1>1, <1>4, <3>1, <3>2
  <2> QED
    BY <1>2, <1>3, <2>1, <2>2 DEF Balanced, q
<1>7. alive[p] => OnTheWay(p)' /\ Taken(p)'
  BY <1>1, <1>3, Undisturbed DEF InStep
<1>8. ASSUME alive[q] PROVE OnTheWay(q)'
  <2>1. SentBy(p) = ReceivedBy(q) + Len(wire[q]) /\ OnTheWay(q)
    BY <1>2, <1>8 DEF InStep, Balanced
  <2>2. /\ lev[p] \in 1 .. Len(circ) /\ off[p] + done[p] + 1 \in 1 .. NComm(Level(p))
        /\ Level(p) = circ[lev[p]] /\ Before[circ][lev[p]] \in Nat
    BY <1>1, NextPlace
  <2>3. /\ wire[q] \in Seq(Value) /\ ReceivedBy(q) \in Nat /\ Len(wire[q]) \in Nat
        /\ off[p] \in Nat /\ done[p] \in Nat
    <3>1. ReceivedBy(q) \in Nat /\ Len(wire[q]) \in Nat
      BY <1>2, CountTypes
    <3> QED
      BY <1>2, <3>1 DEF TypeOK
  <2>4. /\ wire'[q] = Append(wire[q], DataSend(p, lev[p], Level(p))[off[p] + done[p] + 1])
        /\ \A k \in 1 .. Len(wire[q]) : wire'[q][k] = wire[q][k]
        /\ wire'[q][Len(wire[q]) + 1] = DataSend(p, lev[p], Level(p))[off[p] + done[p] + 1]
    BY <1>2, <1>3, <2>3 DEF TypeOK
  <2>5. ASSUME NEW k \in 1 .. Len(wire'[q]), NEW l \in 1 .. Len(circ),
               NEW i \in 1 .. NComm(circ[l]), ReceivedBy(q) + k = Before[circ][l] + i
        PROVE  wire'[q][k] = DataSend(p, l, circ[l])[i]
    <3>1. CASE k \in 1 .. Len(wire[q])
      BY <1>2, <2>1, <2>4, <2>5, <3>1 DEF OnTheWay
    <3>2. CASE k = Len(wire[q]) + 1
      <4>1. Before[circ][l] + i = Before[circ][lev[p]] + (off[p] + done[p] + 1)
        <5>1. SentBy(p) = Before[circ][lev[p]] + off[p] + done[p]
          BY <1>1
        <5>2. ReceivedBy(q) + (Len(wire[q]) + 1) = Before[circ][l] + i
          BY <2>5, <3>2
        <5>3. ReceivedBy(q) + (Len(wire[q]) + 1)
                = Before[circ][lev[p]] + (off[p] + done[p] + 1)
          <6>2. SentBy(p) \in Nat
            BY CountTypes
          <6> QED
            <7> DEFINE r == ReceivedBy(q)
                       w == Len(wire[q])
                       b == Before[circ][lev[p]]
                       o == off[p]
                       d == done[p]
                       s == SentBy(p)
            <7>1. /\ r \in Nat /\ w \in Nat /\ b \in Nat /\ o \in Nat /\ d \in Nat /\ s \in Nat
                  /\ s = b + o + d /\ s = r + w
              BY <2>1, <2>2, <2>3, <5>1, <6>2
            <7> HIDE DEF r, w, b, o, d, s
            <7>2. r + (w + 1) = b + (o + d + 1)
              BY <7>1
            <7> QED
              BY <7>2 DEF r, w, b, o, d
        <5> QED
          BY <5>2, <5>3
      <4>2. l = lev[p] /\ i = off[p] + done[p] + 1
        BY <2>2, <4>1, PlaceOfValue
      <4> QED
        BY <2>2, <2>4, <3>2, <4>2
    <3> QED
      BY <1>1, <2>3, <3>1, <3>2
  <2> QED
    BY <1>1, <1>2, <1>4, <2>5 DEF OnTheWay
<1>9. ASSUME alive[q] PROVE Taken(q)'
  BY <1>1, <1>2, <1>3, <1>4, <1>9 DEF InStep, Taken, Level
<1> QED
  BY <1>2, <1>3, <1>5, <1>6, <1>7, <1>8, <1>9 DEF InStep

\* A value read is put where it belongs.
LEMMA ReadInStep ==
  ASSUME TypeOK, InStep, NEW p \in Party, Read(p)
  PROVE  InStep'
<1> DEFINE q == Partner(p)
<1>1. /\ circ' = circ /\ pc[p] = "recv" /\ pc'[p] = pc[p] /\ done'[p] = done[p] + 1
      /\ done[p] \in Nat /\ BlockLen(p) \in Nat
      /\ done[p] < BlockLen(p) /\ BlockLen(p)' = BlockLen(p)
      /\ SentBy(p)' = SentBy(p) /\ ReceivedBy(p)' = ReceivedBy(p) + 1
      /\ ReceivedBy(p) = Before[circ][lev[p]] + off[p] + done[p]
      /\ Len(wire'[p]) = Len(wire[p]) - 1 /\ wire'[q] = wire[q]
      /\ \A r \in Party \ {p} : /\ pc'[r] = pc[r] /\ lev'[r] = lev[r]
                                /\ off'[r] = off[r] /\ done'[r] = done[r]
  BY ReadCounts
<1>2. /\ q \in Party /\ q # p /\ Partner(q) = p
      /\ \A r \in Party : r = p \/ r = q
  BY PartyFacts
<1>3. /\ alive' = alive /\ lev' = lev /\ alive[p] /\ wire[p] # <<>>
      /\ wire' = [wire EXCEPT ![p] = Tail(@)]
      /\ data_recv' = [data_recv EXCEPT ![p][off[p] + done[p] + 1] = Head(wire[p])]
  BY DEF Read, Reading, At
<1>4. SentBy(q)' = SentBy(q) /\ ReceivedBy(q)' = ReceivedBy(q) /\ BlockLen(q)' = BlockLen(q)
  BY <1>1, <1>2, Unmoved
<1>5. /\ lev[p] \in 1 .. Len(circ) /\ off[p] + done[p] + 1 \in 1 .. NComm(Level(p))
      /\ Level(p) = circ[lev[p]] /\ Before[circ][lev[p]] \in Nat
  BY <1>1, NextPlace
<1>6. ReceivedBy(p) \in Nat /\ Len(wire[p]) \in Nat
  BY CountTypes
<1>7. off[p] \in Nat /\ NComm(Level(p)) \in Nat
  BY <1>1, InLevel
<1>8. /\ wire'[p] = Tail(wire[p]) /\ Len(wire[p]) > 0 /\ Head(wire[p]) = wire[p][1]
      /\ \A k \in 1 .. Len(wire'[p]) : wire'[p][k] = wire[p][k + 1]
  <2>1. wire[p] \in Seq(Value) /\ wire'[p] = Tail(wire[p])
    BY <1>3 DEF TypeOK
  <2>2. \A s \in Seq(Value) : s # <<>> =>
          /\ Len(s) > 0 /\ Head(s) = s[1]
          /\ \A k \in 1 .. Len(Tail(s)) : Tail(s)[k] = s[k + 1]
    BY HeadTailProperties
  <2> QED
    BY <1>3, <2>1, <2>2, Zenon
<1>9. /\ data_recv'[q] = data_recv[q]
      /\ data_recv'[p] = [data_recv[p] EXCEPT ![off[p] + done[p] + 1] = Head(wire[p])]
      /\ data_recv[p] \in Seq(Got) /\ Len(data_recv[p]) = NComm(Level(p))
  BY <1>1, <1>2, <1>3 DEF TypeOK
<1> HIDE DEF q
<1>10. Fits'
  BY <1>1, <1>2, <1>4 DEF InStep, Fits
<1>11. Balanced'
  <2>1. SentBy(q)' = ReceivedBy(p)' + Len(wire'[p])
    <3>1. SentBy(q) = ReceivedBy(p) + Len(wire[p])
      BY <1>3 DEF InStep, Balanced, q
    <3> QED
      BY <1>1, <1>4, <1>6, <1>8, <3>1
  <2>2. alive[q] => SentBy(p)' = ReceivedBy(q)' + Len(wire'[q])
    BY <1>1, <1>2, <1>4 DEF InStep, Balanced
  <2> QED
    BY <1>2, <1>3, <2>1, <2>2 DEF Balanced, q
<1>12. alive[q] => OnTheWay(q)' /\ Taken(q)'
  BY <1>1, <1>2, <1>3, <1>4, <1>9, Undisturbed DEF InStep
<1>13. OnTheWay(p) /\ Taken(p)
  BY <1>3 DEF InStep
<1>14. OnTheWay(p)'
  <2>1. ASSUME NEW k \in 1 .. Len(wire'[p]), NEW l \in 1 .. Len(circ),
               NEW i \in 1 .. NComm(circ[l]), ReceivedBy(p)' + k = Before[circ][l] + i
        PROVE  wire'[p][k] = DataSend(Partner(p), l, circ[l])[i]
    <3>1. k + 1 \in 1 .. Len(wire[p])
      BY <1>1, <1>6, <1>8
    <3>2. ReceivedBy(p) + (k + 1) = Before[circ][l] + i
      <4>1. ReceivedBy(p) + (k + 1) = (ReceivedBy(p) + 1) + k
        BY <1>6
      <4> QED
        BY <1>1, <2>1, <4>1
    <3> QED
      BY <1>8, <1>13, <3>1, <3>2 DEF OnTheWay
  <2> QED
    BY <1>1, <2>1 DEF OnTheWay
<1>15. Taken(p)'
  <2> DEFINE n == off[p] + done[p] + 1
             b == Before[circ][lev[p]]
             r == ReceivedBy(p)
  <2>0. b \in Nat /\ r \in Nat /\ n \in Nat /\ r + 1 = b + n
    <3> DEFINE o == off[p]
               d == done[p]
    <3>1. b \in Nat /\ r \in Nat /\ o \in Nat /\ d \in Nat /\ r = b + o + d /\ n = o + d + 1
      BY <1>1, <1>5, <1>6, <1>7
    <3> HIDE DEF b, r, n, o, d
    <3> QED
      BY <3>1
  <2>1. wire[p][1] = DataSend(Partner(p), lev[p], Level(p))[n]
    <3>1. ReceivedBy(p) + 1 = Before[circ][lev[p]] + n
      BY <2>0, Zenon
    <3>2. 1 \in 1 .. Len(wire[p])
      BY <1>6, <1>8
    <3> HIDE DEF n
    <3> QED
      BY <1>5, <1>13, <3>1, <3>2 DEF OnTheWay, n
  <2>2. /\ data_recv'[p][n] = wire[p][1]
        /\ \A i \in 1 .. NComm(Level(p)) : i # n => data_recv'[p][i] = data_recv[p][i]
    BY <1>5, <1>8, <1>9
  <2>3. ASSUME NEW i \in 1 .. NComm(Level(p)), Before[circ][lev[p]] + i <= ReceivedBy(p) + 1, i # n
        PROVE  Before[circ][lev[p]] + i <= ReceivedBy(p)
    <3>1. b + i <= r + 1 /\ i # n /\ i \in Nat
      BY <1>7, <2>3
    <3> HIDE DEF b, r, n
    <3>2. b + i <= r
      BY <2>0, <3>1
    <3> QED
      BY <3>2 DEF b, r
  <2> HIDE DEF n
  <2>4. ASSUME NEW i \in 1 .. NComm(Level(p)), Before[circ][lev[p]] + i <= ReceivedBy(p)'
        PROVE  data_recv'[p][i] = DataSend(Partner(p), lev[p], Level(p))[i]
    <3>1. CASE i = n
      BY <2>1, <2>2, <3>1
    <3>2. CASE i # n
      <4>1. Before[circ][lev[p]] + i <= ReceivedBy(p)
        BY <1>1, <2>3, <2>4, <3>2
      <4> QED
        BY <1>1, <1>13, <2>2, <3>2, <4>1 DEF Taken
    <3> QED
      BY <3>1, <3>2
  <2> QED
    BY <1>1, <1>3, <2>4 DEF Taken, Level
<1> QED
  BY <1>2, <1>3, <1>10, <1>11, <1>12, <1>14, <1>15 DEF InStep

\* A step between the loops leaves all values where they are.
LEMMA SteadyInStep ==
  ASSUME TypeOK, TypeOK', InStep, NEW p \in Party,
         SkipLevel(p) \/ Begin(p) \/ Sent(p) \/ Received(p)
  PROVE  InStep'
<1> DEFINE q == Partner(p)
<1>1. /\ SentBy(p)' = SentBy(p) /\ ReceivedBy(p)' = ReceivedBy(p)
      /\ pc'[p] # "compute" => done'[p] <= BlockLen(p)'
      /\ \A r \in Party \ {p} : /\ pc'[r] = pc[r] /\ lev'[r] = lev[r]
                                /\ off'[r] = off[r] /\ done'[r] = done[r]
      /\ circ' = circ /\ alive' = alive /\ wire' = wire
  BY SteadyCounts DEF InStep, Fits
<1>2. /\ q \in Party /\ q # p /\ Partner(q) = p
      /\ \A r \in Party : r = p \/ r = q
  BY PartyFacts
<1>3. SentBy(q)' = SentBy(q) /\ ReceivedBy(q)' = ReceivedBy(q) /\ BlockLen(q)' = BlockLen(q)
  BY <1>1, <1>2, Unmoved
<1>4. data_recv'[q] = data_recv[q]
  <2>0. data_recv \in [Party -> Seq(Got)]
    BY DEF TypeOK
  <2>1. \A data : NextLevel(p, data) => data_recv'[q] = data_recv[q]
    BY <1>2, <2>0 DEF NextLevel
  <2> HIDE DEF q
  <2>2. CASE SkipLevel(p)
    BY <2>1, <2>2 DEF SkipLevel
  <2>3. CASE Begin(p)
    BY <1>2, <2>0, <2>3 DEF Begin
  <2>4. CASE Sent(p)
    BY <2>4 DEF Sent
  <2>5. CASE Received(p)
    BY <2>1, <2>5 DEF Received
  <2> QED
    BY <2>2, <2>3, <2>4, <2>5
<1> HIDE DEF q
<1>5. Fits'
  BY <1>1, <1>2, <1>3 DEF InStep, Fits
<1>6. Balanced'
  BY <1>1, <1>2, <1>3 DEF InStep, Balanced, q
<1>7. alive[q] => OnTheWay(q)' /\ Taken(q)'
  BY <1>1, <1>2, <1>3, <1>4, Undisturbed DEF InStep
<1>8. alive[p] => OnTheWay(p)'
  BY <1>1 DEF InStep, OnTheWay
<1>9. ASSUME alive[p] PROVE Taken(p)'
  <2>1. Taken(p)
    BY <1>9 DEF InStep
  <2>2. CASE pc'[p] = "compute"
    BY <2>2 DEF Taken
  <2>3. CASE Begin(p)
    <3>1. /\ pc[p] = "compute" /\ lev' = lev
      BY <2>3 DEF Begin, At
    <3>2. ReceivedBy(p) = Before[circ][lev[p]] /\ Before[circ][lev[p]] \in Nat
      BY <3>1, Counts, BeforeFacts
    <3>3. \A i \in 1 .. NComm(Level(p)) : ~(Before[circ][lev[p]] + i <= ReceivedBy(p))
      BY <3>2
    <3> QED
      BY <1>1, <3>1, <3>3 DEF Taken, Level
  <2>4. CASE pc'[p] # "compute" /\ (Sent(p) \/ Received(p))
    <3>1. pc[p] # "compute" /\ lev'[p] = lev[p] /\ data_recv'[p] = data_recv[p]
      BY <2>4 DEF Sent, Received, NextLevel, At, TypeOK
    <3> QED
      BY <1>1, <2>1, <3>1 DEF Taken, Level
  <2>5. SkipLevel(p) => pc'[p] = "compute"
    BY DEF SkipLevel, NextLevel, TypeOK
  <2> QED
    BY <2>2, <2>3, <2>4, <2>5
<1> QED
  BY <1>1, <1>2, <1>5, <1>6, <1>7, <1>8, <1>9 DEF InStep

\* The end of a process, and what the other one still writes to it, disturb
\* nobody who runs.
LEMMA EndInStep ==
  ASSUME TypeOK, CleanEnd, InStep, NEW p \in Party,
         WriteLost(p) \/ WriteKilled(p) \/ ReadBroken(p) \/ Stop(p)
  PROVE  InStep'
<1> DEFINE q == Partner(p)
<1>1. /\ q \in Party /\ q # p /\ Partner(q) = p
      /\ \A r \in Party : r = p \/ r = q
  BY PartyFacts
<1>2. CASE WriteLost(p)
  <2>1. /\ ~alive[q] /\ pc[p] = "send" /\ pc' = pc /\ lev' = lev /\ off' = off /\ circ' = circ
        /\ wire' = wire /\ alive' = alive /\ data_recv' = data_recv
        /\ done'[p] = BlockLen(p) /\ done'[q] = done[q]
    BY <1>1, <1>2 DEF WriteLost, Writing, At, TypeOK
  <2>2. BlockLen(p)' = BlockLen(p) /\ BlockLen(q)' = BlockLen(q) /\ BlockLen(p) \in Nat
    <3>1. BlockLen(p) \in Nat
      BY <2>1, InLevel
    <3> QED
      BY <2>1, <3>1 DEF BlockLen, BlockFollows, Level
  <2>3. ReceivedBy(p)' = ReceivedBy(p) /\ SentBy(q)' = SentBy(q)
    <3>1. SentBy(q)' = SentBy(q)
      BY <1>1, <2>1, Unmoved
    <3>2. ReceivedBy(p)' = ReceivedBy(p)
      BY <2>1 DEF ReceivedBy
    <3> QED
      BY <3>1, <3>2
  <2> HIDE DEF q
  <2>4. Fits'
    BY <1>1, <2>1, <2>2 DEF InStep, Fits
  <2>5. Balanced'
    BY <1>1, <2>1, <2>3 DEF InStep, Balanced, q
  <2>6. alive[p] => OnTheWay(p)' /\ Taken(p)'
    BY <2>1, <2>3, Undisturbed DEF InStep
  <2> QED
    BY <1>1, <2>1, <2>4, <2>5, <2>6 DEF InStep
<1>3. CASE ~WriteLost(p)
  <2>1. /\ \A r \in Party : alive'[r] => alive[r]
        /\ UNCHANGED <<circ, pc, lev, off, done, wire, data_recv>>
    <3>1. CASE WriteKilled(p)
      BY <3>1 DEF WriteKilled, TypeOK
    <3>2. CASE ReadBroken(p)
      <4>1. 0 % Word = 0
        BY BlockAssumption
      <4>2. alive' = [alive EXCEPT ![p] = FALSE] /\ UNCHANGED done
        BY <3>2, <4>1 DEF ReadBroken, CleanEnd
      <4> QED
        BY <3>2, <4>2 DEF ReadBroken, TypeOK
    <3>3. CASE Stop(p)
      BY <3>3 DEF Stop, TypeOK
    <3> QED
      BY <1>3, <3>1, <3>2, <3>3
  <2>2. \A r \in Party : /\ SentBy(r)' = SentBy(r) /\ ReceivedBy(r)' = ReceivedBy(r)
                         /\ BlockLen(r)' = BlockLen(r)
    BY <2>1, Unmoved
  <2> HIDE DEF q
  <2>3. Fits'
    BY <2>1, <2>2 DEF InStep, Fits
  <2>4. Balanced'
    BY <2>1, <2>2, PartyFacts DEF InStep, Balanced
  <2>5. \A r \in Party : alive[r] => OnTheWay(r)' /\ Taken(r)'
    BY <2>1, <2>2, Undisturbed DEF InStep
  <2> QED
    BY <2>1, <2>3, <2>4, <2>5 DEF InStep
<1> QED
  BY <1>2, <1>3

LEMMA InStepStep ==
  ASSUME CleanEnd, TypeOK, TypeOK', InStep, [Next]_vars
  PROVE  InStep'
<1>1. CASE UNCHANGED vars
  <2>1. \A r \in Party : /\ SentBy(r)' = SentBy(r) /\ ReceivedBy(r)' = ReceivedBy(r)
                         /\ BlockLen(r)' = BlockLen(r)
    BY <1>1, Unmoved DEF vars
  <2>2. \A r \in Party : alive[r] => OnTheWay(r)' /\ Taken(r)'
    BY <1>1, <2>1, Undisturbed DEF InStep, vars
  <2>3. Fits' /\ Balanced'
    BY <1>1, <2>1, PartyFacts DEF InStep, Fits, Balanced, vars
  <2> QED
    BY <1>1, <2>2, <2>3 DEF InStep, vars
<1>2. ASSUME NEW p \in Party, Evaluator(p) \/ Stop(p)
      PROVE  InStep'
  <2>1. CASE SkipLevel(p) \/ Begin(p) \/ Sent(p) \/ Received(p)
    BY <2>1, SteadyInStep
  <2>2. CASE Write(p)
    BY <2>2, WriteInStep
  <2>3. CASE Read(p)
    BY <2>3, ReadInStep
  <2>4. CASE WriteLost(p) \/ WriteKilled(p) \/ ReadBroken(p) \/ Stop(p)
    BY <2>4, EndInStep
  <2> QED
    BY <1>2, <2>1, <2>2, <2>3, <2>4 DEF Evaluator
<1> QED
  BY <1>1, <1>2 DEF Next, Terminated

------------------------------------------------------------------------------
(* The rounds *)

\* What OpenRounds sees of a party.
Inside == [p \in Party |-> pc[p] # "compute"]
Ended == [p \in Party |-> ~alive[p]]

\* Its names for the parties and the size of a level are those of Exchange.
LEMMA SameNames ==
  /\ Rounds!Party = Party
  /\ \A p \in Party : Rounds!Partner(p) = Partner(p)
  /\ \A p \in Party : Rounds!Silent(p) <=> NComm(Level(p)) = 0
  /\ \A p \in Party : Rounds!Running(p) <=> alive[p] /\ lev[p] <= Len(circ)
<1>1. \A p \in Party : Rounds!Silent(p) <=> NComm(Level(p)) = 0
  BY DEF Rounds!Silent, Rounds!NComm, NComm, Level
<1> QED
  BY <1>1 DEF Rounds!Party, Party, Rounds!Partner, Partner, Rounds!Running

\* Where a party is in the circuit, and the level there.
LEMMA Place ==
  ASSUME TypeOK, NEW p \in Party
  PROVE  /\ Len(circ) \in Nat /\ lev[p] \in 1 .. Len(circ) + 1
         /\ lev[p] \in 1 .. Len(circ) =>
              /\ circ[lev[p]] \in [Kind -> Nat]
              /\ NComm(Level(p)) \in Nat
         /\ ~Finished(p) => lev[p] \in 1 .. Len(circ)
<1>1. circ \in Seq([Kind -> Nat])
  BY CircuitAssumption DEF TypeOK
<1>2. Len(circ) \in Nat
  BY <1>1
<1>3. lev[p] \in Nat \ {0} /\ lev[p] <= Len(circ) + 1
  BY DEF TypeOK
<1>4. lev[p] \in 1 .. Len(circ) + 1
  BY <1>2, <1>3
<1>5. ~Finished(p) => lev[p] \in 1 .. Len(circ)
  BY <1>2, <1>3 DEF Finished
<1>6. ASSUME lev[p] \in 1 .. Len(circ)
      PROVE  circ[lev[p]] \in [Kind -> Nat] /\ NComm(Level(p)) \in Nat
  <2>1. circ[lev[p]] \in [Kind -> Nat]
    BY <1>1, <1>6
  <2>2. \A level \in [Kind -> Nat] : NComm(level) \in Nat
    BY DEF NComm, Kind
  <2> QED
    BY <2>1, <2>2 DEF Level
<1> QED
  BY <1>2, <1>4, <1>5, <1>6

\* Nobody has received a level before the partner is in it.
LEMMA PartnerIsIn ==
  ASSUME TypeOK, InStep, NEW p \in Party, alive[p], pc[p] = "recv",
         done[p] = BlockLen(p), ~BlockFollows(p), NComm(Level(p)) > 0
  PROVE  \/ lev[Partner(p)] > lev[p]
         \/ lev[Partner(p)] = lev[p] /\ pc[Partner(p)] # "compute"
<1> DEFINE q == Partner(p)
<1>1. q \in Party
  BY PartyFacts
<1>2. /\ ~Finished(p) /\ NComm(Level(p)) \in Nat /\ off[p] \in Nat /\ done[p] \in Nat
      /\ off[p] + BlockLen(p) = NComm(Level(p)) /\ BlockLen(p) \in Nat
  BY InLevel
<1>3. Before[circ][lev[p]] \in Nat /\ Before[circ][lev[q]] \in Nat
  BY <1>1, BeforeFacts
<1>4. ReceivedBy(p) = Before[circ][lev[p]] + NComm(Level(p))
  <2>1. ReceivedBy(p) = Before[circ][lev[p]] + off[p] + done[p]
    BY Counts
  <2> QED
    BY <1>2, <1>3, <2>1
<1>5. SentBy(q) > Before[circ][lev[p]]
  <2>1. SentBy(q) = ReceivedBy(p) + Len(wire[p])
    BY DEF InStep, Balanced
  <2>2. Len(wire[p]) \in Nat /\ ReceivedBy(p) \in Nat /\ SentBy(q) \in Nat
    BY <1>1, CountTypes
  <2> HIDE DEF q
  <2> QED
    BY <1>2, <1>3, <1>4, <2>1, <2>2
<1>6. Len(circ) \in Nat /\ lev[p] \in 1 .. Len(circ) /\ lev[q] \in 1 .. Len(circ) + 1
  BY <1>1, <1>2, Place
<1>7. CASE lev[q] < lev[p]
  <2>1. ~Finished(q)
    BY <1>6, <1>7 DEF Finished
  <2>2. Before[circ][lev[q]] + NComm(Level(q)) <= Before[circ][lev[p]]
    <3>1. lev[q] \in 1 .. Len(circ) /\ lev[p] - 1 \in lev[q] .. Len(circ) /\ (lev[p] - 1) + 1 = lev[p]
      BY <1>6, <1>7
    <3>2. Before[circ][lev[q]] + NComm(circ[lev[q]]) <= Before[circ][(lev[p] - 1) + 1]
      BY <3>1, BeforeAssumption DEF TypeOK
    <3> QED
      BY <3>1, <3>2 DEF Level
  <2>3. SentBy(q) <= Before[circ][lev[q]] + NComm(Level(q))
    <3> HIDE DEF q
    <3>1. NComm(Level(q)) \in Nat
      <4>1. lev[q] \in 1 .. Len(circ)
        BY <1>6, <1>7
      <4> QED
        BY <1>1, <4>1, Place
    <3>2. CASE pc[q] = "compute"
      BY <1>1, <1>3, <3>1, <3>2, Counts
    <3>3. CASE pc[q] # "compute"
      <4>1. /\ off[q] \in Nat /\ done[q] \in Nat /\ BlockLen(q) \in Nat /\ done[q] <= BlockLen(q)
            /\ off[q] + BlockLen(q) <= NComm(Level(q))
        <5>1. done[q] <= BlockLen(q)
          BY <1>1, <3>3 DEF InStep, Fits
        <5> QED
          BY <1>1, <3>3, <5>1, InLevel
      <4>2. \/ SentBy(q) = Before[circ][lev[q]] + off[q] + done[q]
            \/ SentBy(q) = Before[circ][lev[q]] + off[q] + BlockLen(q)
        <5>1. pc[q] \in {"send", "recv"}
          BY <1>1, <3>3 DEF TypeOK
        <5> QED
          BY <1>1, <5>1, Counts
      <4> QED
        BY <1>3, <3>1, <4>1, <4>2
    <3> QED
      BY <3>2, <3>3
  <2> QED
    <3>1. SentBy(q) \in Nat /\ NComm(Level(q)) \in Nat
      <4>1. SentBy(q) \in Nat
        BY <1>1, CountTypes
      <4>2. lev[q] \in 1 .. Len(circ)
        BY <1>6, <1>7
      <4> QED
        BY <1>1, <4>1, <4>2, Place
    <3> HIDE DEF q
    <3> QED
      BY <1>3, <1>5, <2>2, <2>3, <3>1
<1>8. CASE lev[q] = lev[p] /\ pc[q] = "compute"
  <2>1. SentBy(q) = Before[circ][lev[p]]
    BY <1>1, <1>8, Counts
  <2> HIDE DEF q
  <2> QED
    BY <1>3, <1>5, <2>1
<1> HIDE DEF q
<1>9. lev[q] > lev[p] \/ lev[q] = lev[p] \/ lev[q] < lev[p]
  BY <1>6
<1> QED
  BY <1>7, <1>8, <1>9 DEF q

\* Going on to the next level is leaving the round.
LEMMA LeaveRound ==
  ASSUME TypeOK, TypeOK', NEW p \in Party, alive[p], ~Finished(p), NEW data, NextLevel(p, data),
         \A i \in 1 .. NComm(Level(p)) : data[i] = DataSend(Partner(p), lev[p], Level(p))[i],
         UNCHANGED <<circ, alive>>,
         \/ NComm(Level(p)) = 0
         \/ /\ pc[p] # "compute"
            /\ \/ lev[Partner(p)] > lev[p]
               \/ lev[Partner(p)] = lev[p] /\ pc[Partner(p)] # "compute"
  PROVE  Rounds!Leave(p)
<1>1. Len(circ) \in Nat /\ lev[p] \in 1 .. Len(circ) /\ Level(p) \in [Kind -> Nat]
  BY Place DEF Level
<1>2. Combined(p, lev[p], Level(p), data) = Rounds!Result(p, lev[p])
  <2>1. lev[p] \in Nat \ {0} /\ circ[lev[p]] \in [Kind -> Nat]
    BY <1>1 DEF Level
  <2>2. \A i \in 1 .. NComm(circ[lev[p]]) :
          data[i] = DataSend(Partner(p), lev[p], circ[lev[p]])[i]
    BY DEF Level
  <2>3. Combined(p, lev[p], circ[lev[p]], data) = Rounds!Result(p, lev[p])
    BY <2>1, <2>2, CombinedResult
  <2> QED
    BY <2>3 DEF Level
<1>3. Rounds!Running(p)
  BY <1>1, SameNames
<1>4. Rounds!MayLeave(p, Rounds!Partner(p))
  <2>1. Rounds!Partner(p) = Partner(p) /\ Partner(p) \in Party
    BY SameNames, PartyFacts
  <2>2. Rounds!MayLeave(p, Partner(p))
    BY <2>1, SameNames DEF Rounds!MayLeave
  <2> QED
    BY <2>1, <2>2
<1>5. opened' = [opened EXCEPT ![p] = Append(@, Rounds!Result(p, lev[p]))]
  BY <1>2 DEF NextLevel
<1>6. lev' = [lev EXCEPT ![p] = @ + 1]
  BY DEF NextLevel
<1>7. Inside' = [Inside EXCEPT ![p] = FALSE]
  BY DEF Inside, NextLevel, TypeOK
<1>8. Ended' = Ended
  BY DEF Ended
<1> QED
  BY <1>3, <1>4, <1>5, <1>6, <1>7, <1>8 DEF Rounds!Leave, Inside, Ended

\* The end of a process ends its part in the rounds.
LEMMA EndRound ==
  ASSUME TypeOK, NEW p \in Party, alive[p], ~Finished(p), alive' = [alive EXCEPT ![p] = FALSE],
         UNCHANGED <<circ, pc, lev, opened>>
  PROVE  Rounds!End(p)
<1>1. Rounds!Running(p)
  <2>1. lev[p] <= Len(circ)
    BY CircuitAssumption DEF TypeOK, Finished
  <2> QED
    BY <2>1, SameNames
<1>2. Ended' = [Ended EXCEPT ![p] = TRUE]
  BY DEF Ended, TypeOK
<1>3. Inside' = Inside
  BY DEF Inside
<1> QED
  BY <1>1, <1>2, <1>3 DEF Rounds!End, Inside, Ended

\* Every step of the exchange enters, leaves or ends a round, or is none of
\* the rounds' concern.
LEMMA RoundStep ==
  ASSUME CleanEnd, TypeOK, TypeOK', InStep, [Next]_vars
  PROVE  [Rounds!Next]_(Rounds!vars)
<1>1. ASSUME UNCHANGED <<circ, alive, lev, opened>>, Inside' = Inside
      PROVE  UNCHANGED Rounds!vars
  <2>1. Ended' = Ended
    BY <1>1 DEF Ended
  <2> QED
    BY <1>1, <2>1 DEF Rounds!vars, Inside, Ended
<1>2. CASE UNCHANGED vars
  BY <1>1, <1>2 DEF vars, Inside
<1>3. ASSUME NEW p \in Party, Evaluator(p) \/ Stop(p)
      PROVE  (\E r \in Party : Rounds!Enter(r) \/ Rounds!Leave(r) \/ Rounds!End(r))
               \/ UNCHANGED Rounds!vars
  <2>1. CASE SkipLevel(p)
    <3>1. /\ alive[p] /\ ~Finished(p) /\ NComm(Level(p)) = 0 /\ NextLevel(p, <<>>)
          /\ UNCHANGED <<circ, alive>>
      BY <2>1 DEF SkipLevel, At
    <3>2. \A i \in 1 .. NComm(Level(p)) : <<>>[i] = DataSend(Partner(p), lev[p], Level(p))[i]
      BY <3>1
    <3> QED
      BY <3>1, <3>2, LeaveRound
  <2>2. CASE Begin(p)
    <3>1. /\ alive[p] /\ ~Finished(p) /\ pc[p] = "compute" /\ NComm(Level(p)) > 0
          /\ pc' = [pc EXCEPT ![p] = "send"] /\ UNCHANGED <<circ, alive, lev, opened>>
      BY <2>2 DEF Begin, At
    <3>2. Rounds!Running(p) /\ ~Rounds!Silent(p)
      <4>1. lev[p] <= Len(circ)
        BY <3>1, CircuitAssumption DEF TypeOK, Finished
      <4>2. ~(NComm(Level(p)) = 0)
        BY <3>1
      <4> QED
        BY <3>1, <4>1, <4>2, SameNames
    <3>3. Inside' = [Inside EXCEPT ![p] = TRUE] /\ ~Inside[p]
      BY <3>1 DEF Inside, TypeOK
    <3>4. Ended' = Ended
      BY <3>1 DEF Ended
    <3>5. Rounds!Enter(p)
      BY <3>1, <3>2, <3>3, <3>4 DEF Rounds!Enter, Inside, Ended
    <3> QED
      BY <3>5
  <2>3. CASE Sent(p) \/ (Received(p) /\ BlockFollows(p))
    <3>1. /\ pc[p] \in {"send", "recv"} /\ UNCHANGED <<circ, alive, lev, opened>>
          /\ pc' = [pc EXCEPT ![p] = "recv"] \/ pc' = [pc EXCEPT ![p] = "send"]
      BY <2>3 DEF Sent, Received, At
    <3>2. Inside' = Inside
      BY <3>1 DEF Inside, TypeOK
    <3> QED
      BY <1>1, <3>1, <3>2
  <2>4. CASE Received(p) /\ ~BlockFollows(p)
    <3>1. /\ alive[p] /\ ~Finished(p) /\ pc[p] = "recv" /\ done[p] >= BlockLen(p)
          /\ NextLevel(p, data_recv[p]) /\ UNCHANGED <<circ, alive>>
      BY <2>4 DEF Received, At
    <3>2. /\ NComm(Level(p)) \in Nat /\ off[p] \in Nat /\ done[p] \in Nat /\ BlockLen(p) \in Nat
          /\ off[p] + BlockLen(p) = NComm(Level(p)) /\ done[p] = BlockLen(p)
      <4>1. done[p] <= BlockLen(p)
        BY <3>1 DEF InStep, Fits
      <4> QED
        BY <2>4, <3>1, <4>1, InLevel
    <3>3. \A i \in 1 .. NComm(Level(p)) : Before[circ][lev[p]] + i <= ReceivedBy(p)
      <4>1. ReceivedBy(p) = Before[circ][lev[p]] + off[p] + done[p] /\ Before[circ][lev[p]] \in Nat
        BY <3>1, Counts, BeforeFacts
      <4>2. ReceivedBy(p) = Before[circ][lev[p]] + NComm(Level(p))
        BY <3>2, <4>1
      <4> QED
        BY <3>2, <4>1, <4>2
    <3>4. \A i \in 1 .. NComm(Level(p)) :
            data_recv[p][i] = DataSend(Partner(p), lev[p], Level(p))[i]
      BY <3>1, <3>3 DEF InStep, Taken
    <3>5. \/ NComm(Level(p)) = 0
          \/ lev[Partner(p)] > lev[p]
          \/ lev[Partner(p)] = lev[p] /\ pc[Partner(p)] # "compute"
      <4>1. NComm(Level(p)) = 0 \/ NComm(Level(p)) > 0
        BY <3>2
      <4> QED
        BY <2>4, <3>1, <3>2, <4>1, PartnerIsIn
    <3>6. pc[p] # "compute"
      BY <3>1
    <3> QED
      BY <3>1, <3>4, <3>5, <3>6, LeaveRound
  <2>5. CASE Write(p) \/ Read(p) \/ WriteLost(p)
    <3>1. UNCHANGED <<circ, alive, pc, lev, opened>>
      BY <2>5 DEF Write, Read, WriteLost
    <3> QED
      BY <1>1, <3>1 DEF Inside
  <2>6. CASE WriteKilled(p) \/ ReadBroken(p)
    <3>1. /\ alive[p] /\ ~Finished(p) /\ UNCHANGED <<circ, pc, lev, opened>>
          /\ alive' = [alive EXCEPT ![p] = FALSE]
      <4>1. 0 % Word = 0
        BY BlockAssumption
      <4> QED
        BY <2>6, <4>1 DEF WriteKilled, ReadBroken, Writing, Reading, At, CleanEnd
    <3> QED
      BY <3>1, EndRound
  <2>7. CASE Stop(p)
    BY <2>7, EndRound DEF Stop
  <2> QED
    BY <1>3, <2>1, <2>2, <2>3, <2>4, <2>5, <2>6, <2>7 DEF Evaluator
<1>4. ASSUME NEW p \in Party, Evaluator(p) \/ Stop(p)
      PROVE  [Rounds!Next]_(Rounds!vars)
  <2>1. (\E r \in Party : Rounds!Enter(r) \/ Rounds!Leave(r) \/ Rounds!End(r)) => Rounds!Next
    BY DEF Rounds!Next, Rounds!Party, Party
  <2>2. Rounds!Next \/ UNCHANGED Rounds!vars
    BY <1>3, <1>4, <2>1, Zenon
  <2> QED
    BY <2>2, Zenon
<1> QED
  BY <1>2, <1>4, <1>1 DEF Next, Terminated, vars, Inside

------------------------------------------------------------------------------

\* The exchange of a level in blocks implements a round: a party leaves with
\* every value combined with the partner's of the same gate, and not before
\* the partner is in the round; whoever stops in between.
THEOREM RoundsImplemented == CleanEnd => (Spec => ImplementsRounds)
<1> SUFFICES ASSUME CleanEnd PROVE Spec => ImplementsRounds
  OBVIOUS
<1>1. Init => Rounds!Init
  BY SameNames DEF Init, Rounds!Init, Inside, Ended
<1>2. Init => TypeOK /\ InStep
  BY TypeInit, InStepInit
<1>3. TypeOK /\ InStep /\ [Next]_vars => (TypeOK /\ InStep)'
  BY TypeStep, InStepStep
<1>4. TypeOK /\ TypeOK' /\ InStep /\ [Next]_vars => [Rounds!Next]_(Rounds!vars)
  BY RoundStep
<1> QED
  BY <1>1, <1>2, <1>3, <1>4, PTL DEF Spec, ImplementsRounds, Rounds!Spec

\* Leaving a round adds its result, and nothing else touches the vectors.
LEMMA WholeStep ==
  ASSUME TypeOK, Whole, [Rounds!Next]_(Rounds!vars)
  PROVE  Whole'
<1>1. CASE circ' = circ /\ opened' = opened
  BY <1>1 DEF Whole, Rounds!Result
<1>2. ASSUME NEW p \in Party, Rounds!Leave(p) PROVE Whole'
  <2>1. /\ circ' = circ /\ opened \in [Party -> Seq(Outcome)] /\ Len(opened[p]) = lev[p] - 1
        /\ opened' = [opened EXCEPT ![p] = Append(@, Rounds!Result(p, lev[p]))]
        /\ lev[p] \in Nat
    BY <1>2 DEF Rounds!Leave, TypeOK
  <2>2. \A q \in Party : \A l : Rounds!Result(q, l)' = Rounds!Result(q, l)
    BY <2>1 DEF Rounds!Result
  <2>3. ASSUME NEW q \in Party, NEW l \in 1 .. Len(opened'[q])
        PROVE  opened'[q][l] = Rounds!Result(q, l)
    <3>1. CASE q # p
      BY <2>1, <2>3, <3>1 DEF Whole
    <3>2. CASE q = p
      <4> DEFINE new == Rounds!Result(p, lev[p])
      <4>1. opened'[p] = Append(opened[p], new) /\ opened[p] \in Seq(Outcome)
        BY <2>1
      <4> HIDE DEF new
      <4>2. /\ Len(opened'[p]) = lev[p] /\ opened'[p][lev[p]] = new
            /\ \A k \in 1 .. lev[p] - 1 : opened'[p][k] = opened[p][k]
        BY <2>1, <4>1
      <4>3. CASE l = lev[p]
        BY <3>2, <4>2, <4>3 DEF new
      <4>4. CASE l \in 1 .. lev[p] - 1
        BY <2>1, <3>2, <4>2, <4>4 DEF Whole
      <4> QED
        BY <2>1, <2>3, <3>2, <4>2, <4>3, <4>4
    <3> QED
      BY <3>1, <3>2
  <2> QED
    BY <2>2, <2>3 DEF Whole
<1>3. ASSUME NEW p \in Party, Rounds!Enter(p) \/ Rounds!End(p)
      PROVE  circ' = circ /\ opened' = opened
  BY <1>3 DEF Rounds!Enter, Rounds!End
<1>4. CASE Rounds!Next
  <2>1. \E p \in Party : Rounds!Enter(p) \/ Rounds!Leave(p) \/ Rounds!End(p)
    BY <1>4 DEF Rounds!Next, Rounds!Party, Party
  <2> QED
    BY <1>1, <1>2, <1>3, <2>1
<1>5. CASE UNCHANGED Rounds!vars
  BY <1>1, <1>5 DEF Rounds!vars
<1> QED
  BY <1>4, <1>5

\* Nobody ever goes on with a value it has not received, or combines it with
\* that of another gate.
THEOREM NothingInvented == CleanEnd => (Spec => []Whole)
<1> SUFFICES ASSUME CleanEnd PROVE Spec => []Whole
  OBVIOUS
<1>1. Init => Whole
  <2>1. Len(<<>>) = 0
    OBVIOUS
  <2> QED
    BY <2>1 DEF Init, Whole
<1>2. Init => TypeOK /\ InStep
  BY TypeInit, InStepInit
<1>3. TypeOK /\ InStep /\ [Next]_vars => (TypeOK /\ InStep)'
  BY TypeStep, InStepStep
<1>4. TypeOK /\ TypeOK' /\ InStep /\ Whole /\ [Next]_vars => Whole'
  BY RoundStep, WholeStep
<1> QED
  BY <1>1, <1>2, <1>3, <1>4, PTL DEF Spec

==============================================================================
