------------------------------- MODULE Exchange -------------------------------
(***************************************************************************)
(* The communication of the online phase: Evaluator::online_communication  *)
(* at both parties, down to the loops of TLSNetIO that write and read a    *)
(* connection of bounded capacity.                                         *)
(*                                                                         *)
(* After evaluate_send of a level, each party cuts what it has to open     *)
(* into blocks and alternates between sending one and receiving one; both  *)
(* send first.  A connection takes what there is room for, and gives what  *)
(* has arrived, so that blocks are torn apart anywhere: the model moves    *)
(* one value at a time.  A process may stop (one of the two); the other    *)
(* sees its connections break.                                             *)
(*                                                                         *)
(* Sources: src/core/evaluator.cpp, src/core/io/netmp.h,                   *)
(* src/core/io/tls_net_io_channel.h.                                       *)
(***************************************************************************)
EXTENDS Levels, Integers

CONSTANTS
  BLOCK_SIZE,  \* values per block, an option of the program
  Capacity,    \* values a connection holds that its reader has not taken
  Circuits,    \* sequences of levels
  Before,      \* Before[c][l]: values in the levels of c before l
  Word,        \* the number of values of a size_t
  Broken       \* what BIO_read may return on a connection that broke

ASSUME BlockAssumption ==
  /\ BLOCK_SIZE \in Nat \ {0}
  /\ Word \in Nat /\ Word > BLOCK_SIZE

\* A connection holds a block: what nothing in the code enforces.
ASSUME CapacityAssumption == Capacity \in Nat /\ Capacity >= BLOCK_SIZE

ASSUME CircuitAssumption == Circuits \subseteq Seq([Kind -> Nat])

ASSUME BeforeAssumption ==
  \A c \in Circuits :
    /\ Before[c] \in [1 .. Len(c) + 1 -> Nat]
    /\ \A l \in 1 .. Len(c) :
         /\ Before[c][l + 1] = Before[c][l] + NComm(c[l])
         /\ \A m \in l .. Len(c) : Before[c][l] + NComm(c[l]) <= Before[c][m + 1]

ASSUME BrokenAssumption == Broken \subseteq {0, -1} /\ 0 \in Broken

VARIABLES
  circ,       \* the circuit
  alive,      \* the process runs
  pc,         \* "compute": not communicating, or sending or receiving a block
  lev,        \* the level
  off,        \* i * BLOCK_SIZE, where the block begins
  done,       \* sent, the local of both loops: how much of the block is through
  wire,       \* values on the way to each party
  data_recv,  \* what has arrived for this level
  opened      \* the four vectors after each level

vars == <<circ, alive, pc, lev, off, done, wire, data_recv, opened>>

------------------------------------------------------------------------------

Level(p) == circ[lev[p]]
Nothing == <<>>   \* a vector's initial 0

DataSend(p, l, level) ==
  Values(p, l, level, "mul") \o Values(p, l, level, "and")
    \o Values(p, l, level, "shuffle") \o Values(p, l, level, "reveal")

Finished(p) == lev[p] > Len(circ)
At(p, here) == alive[p] /\ ~Finished(p) /\ pc[p] = here

\* i < n_msgs: the block is a full one, and another one follows.
BlockFollows(p) == off[p] + BLOCK_SIZE <= NComm(Level(p))

\* n_msgs full blocks, then last_msg values, possibly none.
BlockLen(p) == IF BlockFollows(p) THEN BLOCK_SIZE ELSE NComm(Level(p)) - off[p]

\* A slip: the values of ANDs are looked for where those of products are.
Slip_Combined(p, l, level, data) ==
  LET own(kind) == Values(p, l, level, kind)
      from(skipped, kind) == [i \in 1 .. level[kind] |-> data[skipped + i]]
      both(op, s, t) == [i \in DOMAIN s |-> <<op, s[i], t[i]>>]
      mul == level["mul"]  and == level["and"]  shuffle == level["shuffle"]
  IN [mul     |-> both("+", own("mul"), from(0, "mul")),
      and     |-> both("^", own("and"), from(0, "and")),
      shuffle |-> from(mul + and, "shuffle"),
      reveal  |-> both("+", own("reveal"), from(mul + and + shuffle, "reveal"))]

\* What the four vectors hold afterwards.
Combined(p, l, level, data) ==
  LET own(kind) == Values(p, l, level, kind)
      from(skipped, kind) == [i \in 1 .. level[kind] |-> data[skipped + i]]
      both(op, s, t) == [i \in DOMAIN s |-> <<op, s[i], t[i]>>]
      mul == level["mul"]  and == level["and"]  shuffle == level["shuffle"]
  IN [mul     |-> both("+", own("mul"), from(0, "mul")),
      and     |-> both("^", own("and"), from(mul, "and")),
      shuffle |-> from(mul + and, "shuffle"),
      reveal  |-> both("+", own("reveal"), from(mul + and + shuffle, "reveal"))]

------------------------------------------------------------------------------
(* Evaluator::online_communication *)

NextLevel(p, data) ==
  /\ opened' = [opened EXCEPT ![p] = Append(@, Combined(p, lev[p], Level(p), data))]
  /\ lev' = [lev EXCEPT ![p] = @ + 1]
  /\ pc' = [pc EXCEPT ![p] = "compute"]
  /\ off' = [off EXCEPT ![p] = 0]
  /\ data_recv' = [data_recv EXCEPT ![p] = <<>>]

\* Nothing to open: the party goes on by itself.
SkipLevel(p) ==
  /\ At(p, "compute")
  /\ NComm(Level(p)) = 0
  /\ NextLevel(p, <<>>)
  /\ UNCHANGED <<circ, alive, done, wire>>

\* A slip: both receive before they send.
Slip_Begin(p) ==
  /\ At(p, "compute")
  /\ NComm(Level(p)) > 0
  /\ pc' = [pc EXCEPT ![p] = "recv"]
  /\ data_recv' = [data_recv EXCEPT ![p] = [k \in 1 .. NComm(Level(p)) |-> Nothing]]
  /\ UNCHANGED <<circ, alive, lev, off, done, wire, opened>>

Begin(p) ==
  /\ At(p, "compute")
  /\ NComm(Level(p)) > 0
  /\ pc' = [pc EXCEPT ![p] = "send"]
  /\ data_recv' = [data_recv EXCEPT ![p] = [k \in 1 .. NComm(Level(p)) |-> Nothing]]
  /\ UNCHANGED <<circ, alive, lev, off, done, wire, opened>>

\* A slip: the receiving loop goes on with the count of the sending one.
Slip_Sent(p) ==
  /\ At(p, "send")
  /\ done[p] >= BlockLen(p)
  /\ pc' = [pc EXCEPT ![p] = "recv"]
  /\ UNCHANGED <<circ, alive, lev, off, done, wire, data_recv, opened>>

Sent(p) ==
  /\ At(p, "send")
  /\ done[p] >= BlockLen(p)
  /\ pc' = [pc EXCEPT ![p] = "recv"]
  /\ done' = [done EXCEPT ![p] = 0]
  /\ UNCHANGED <<circ, alive, lev, off, wire, data_recv, opened>>

\* A slip: the next loop goes on with the count of this one.
Slip_Received(p) ==
  /\ At(p, "recv")
  /\ done[p] >= BlockLen(p)
  /\ IF BlockFollows(p)
     THEN /\ off' = [off EXCEPT ![p] = @ + BLOCK_SIZE]
          /\ pc' = [pc EXCEPT ![p] = "send"]
          /\ UNCHANGED <<lev, data_recv, opened>>
     ELSE NextLevel(p, data_recv[p])
  /\ UNCHANGED <<circ, alive, done, wire>>

Received(p) ==
  /\ At(p, "recv")
  /\ done[p] >= BlockLen(p)
  /\ done' = [done EXCEPT ![p] = 0]
  /\ IF BlockFollows(p)
     THEN /\ off' = [off EXCEPT ![p] = @ + BLOCK_SIZE]
          /\ pc' = [pc EXCEPT ![p] = "send"]
          /\ UNCHANGED <<lev, data_recv, opened>>
     ELSE NextLevel(p, data_recv[p])
  /\ UNCHANGED <<circ, alive, wire>>

------------------------------------------------------------------------------
(* TLSNetIO::send_data_internal, with the flush behind it *)

Writing(p) == At(p, "send") /\ done[p] < BlockLen(p)

\* A slip: the writer waits for room for a whole block.
Slip_Room(p) == Len(wire[Partner(p)]) + BLOCK_SIZE <= Capacity

Room(p) == Len(wire[Partner(p)]) < Capacity

Write(p) ==
  /\ Writing(p)
  /\ Room(p)
  /\ wire' = [wire EXCEPT ![Partner(p)] =
                Append(@, DataSend(p, lev[p], Level(p))[off[p] + done[p] + 1])]
  /\ done' = [done EXCEPT ![p] = @ + 1]
  /\ UNCHANGED <<circ, alive, pc, lev, off, data_recv, opened>>

\* The partner is gone.  Its BIO holds a whole block, so it is the flush that
\* fails, whose result nobody looks at ...
WriteLost(p) ==
  /\ Writing(p)
  /\ ~alive[Partner(p)]
  /\ done' = [done EXCEPT ![p] = BlockLen(p)]
  /\ UNCHANGED <<circ, alive, pc, lev, off, wire, data_recv, opened>>

\* ... or SIGPIPE ends the process.
WriteKilled(p) ==
  /\ Writing(p)
  /\ ~alive[Partner(p)]
  /\ alive' = [alive EXCEPT ![p] = FALSE]
  /\ UNCHANGED <<circ, pc, lev, off, done, wire, data_recv, opened>>

------------------------------------------------------------------------------
(* TLSNetIO::recv_data_internal *)

Reading(p) == At(p, "recv") /\ done[p] < BlockLen(p)

Read(p) ==
  /\ Reading(p)
  /\ wire[p] # <<>>
  /\ data_recv' = [data_recv EXCEPT ![p][off[p] + done[p] + 1] = Head(wire[p])]
  /\ wire' = [wire EXCEPT ![p] = Tail(@)]
  /\ done' = [done EXCEPT ![p] = @ + 1]
  /\ UNCHANGED <<circ, alive, pc, lev, off, opened>>

\* A slip: the end of a connection is no error.
Slip_ReadBroken(p) ==
  /\ Reading(p)
  /\ ~alive[Partner(p)]
  /\ \E res \in Broken :
       /\ res = 0 => wire[p] = <<>>
       /\ IF res % Word >= 0
          THEN done' = [done EXCEPT ![p] = BlockLen(p)] /\ UNCHANGED alive
          ELSE alive' = [alive EXCEPT ![p] = FALSE] /\ UNCHANGED done
  /\ UNCHANGED <<circ, pc, lev, off, wire, data_recv, opened>>

\* The connection broke: 0 at its end, or -1, which may overtake what has
\* arrived.  res is a size_t: if it is not 0 it counts as bytes read, else
\* error() exits.
ReadBroken(p) ==
  /\ Reading(p)
  /\ ~alive[Partner(p)]
  /\ \E res \in Broken :
       /\ res = 0 => wire[p] = <<>>
       /\ IF res % Word > 0
          THEN done' = [done EXCEPT ![p] = (@ + (res % Word)) % Word] /\ UNCHANGED alive
          ELSE alive' = [alive EXCEPT ![p] = FALSE] /\ UNCHANGED done
  /\ UNCHANGED <<circ, pc, lev, off, wire, data_recv, opened>>

------------------------------------------------------------------------------

\* One of the two processes stops, for whatever reason.
Stop(p) ==
  /\ ~Finished(p)
  /\ \A q \in Party : alive[q]
  /\ alive' = [alive EXCEPT ![p] = FALSE]
  /\ UNCHANGED <<circ, pc, lev, off, done, wire, data_recv, opened>>

Init ==
  /\ circ \in Circuits
  /\ alive = [p \in Party |-> TRUE]
  /\ pc = [p \in Party |-> "compute"]
  /\ lev = [p \in Party |-> 1]
  /\ off = [p \in Party |-> 0]
  /\ done = [p \in Party |-> 0]
  /\ wire = [p \in Party |-> <<>>]
  /\ data_recv = [p \in Party |-> <<>>]
  /\ opened = [p \in Party |-> <<>>]

Evaluator(p) ==
  \/ SkipLevel(p) \/ Begin(p) \/ Sent(p) \/ Received(p)
  \/ Write(p) \/ WriteLost(p) \/ WriteKilled(p)
  \/ Read(p) \/ ReadBroken(p)

Over == \A p \in Party : Finished(p) \/ ~alive[p]
Terminated == Over /\ UNCHANGED vars

Next == (\E p \in Party : Evaluator(p) \/ Stop(p)) \/ Terminated

Spec == Init /\ [][Next]_vars

\* One thread per party, running until it blocks.
FairSpec == Spec /\ \A p \in Party : WF_vars(Evaluator(p))

------------------------------------------------------------------------------
(* Properties *)

Value == Party \X (Nat \ {0}) \X Kind \X (Nat \ {0})
Got == Value \cup {Nothing}
Outcome == [mul : Seq({"+"} \X Value \X Got), and : Seq({"^"} \X Value \X Got),
            shuffle : Seq(Got), reveal : Seq({"+"} \X Value \X Got)]

\* The variables hold what they are declared to hold, and every party has
\* its vectors in the size of its level while it communicates.
TypeOK ==
  /\ circ \in Circuits
  /\ alive \in [Party -> BOOLEAN]
  /\ pc \in [Party -> {"compute", "send", "recv"}]
  /\ lev \in [Party -> Nat \ {0}]
  /\ off \in [Party -> Nat]
  /\ done \in [Party -> 0 .. Word - 1]
  /\ wire \in [Party -> Seq(Value)]
  /\ data_recv \in [Party -> Seq(Got)]
  /\ opened \in [Party -> Seq(Outcome)]
  /\ \A p \in Party :
       /\ lev[p] <= Len(circ) + 1
       /\ Len(opened[p]) = lev[p] - 1
       /\ IF pc[p] = "compute"
          THEN off[p] = 0 /\ done[p] = 0
          ELSE ~Finished(p) /\ off[p] <= NComm(Level(p)) /\ Len(data_recv[p]) = NComm(Level(p))

\* What p has sent to and received from its partner since the beginning.
SentBy(p) == Before[circ][lev[p]] + off[p]
               + (CASE pc[p] = "compute" -> 0 [] pc[p] = "send" -> done[p]
                    [] pc[p] = "recv" -> BlockLen(p))
ReceivedBy(p) == Before[circ][lev[p]] + off[p] + (IF pc[p] = "recv" THEN done[p] ELSE 0)

\* Both parties cut their data into the same stream: what one has sent and
\* the other has not received is on the way, over all blocks, levels and
\* skipped levels.
Conserved ==
  (\A p \in Party : alive[p]) =>
     \A p, q \in Party : q = Partner(p) => SentBy(p) = ReceivedBy(q) + Len(wire[q])

\* Sending before receiving at both ends blocks nobody, however small the
\* steps of a connection are, if it holds one block; nor does the end of one
\* process leave the other waiting.
Blocked(p) ==
  /\ alive[Partner(p)]
  /\ \/ Writing(p) /\ ~Room(p)
     \/ Reading(p) /\ wire[p] = <<>>
Busy(p) == alive[p] /\ ~Finished(p)
NeverStuck == (\E p \in Party : Busy(p)) => \E p \in Party : Busy(p) /\ ~Blocked(p)

\* The four vectors hold the own values combined with the partner's of the
\* same gates; a party never goes on with anything it has not received.
Rounds == INSTANCE OpenRounds WITH
            inside <- [p \in Party |-> pc[p] # "compute"],
            ended <- [p \in Party |-> ~alive[p]]
Whole == \A p \in Party : \A l \in 1 .. Len(opened[p]) : opened[p][l] = Rounds!Result(p, l)

\* online_communication implements the rounds that the evaluation relies on.
ImplementsRounds == Rounds!Spec

\* Both parties come through all levels unless a process stops; then the
\* other one ends as well, or has got all it needs.
Completes == <>Over

==============================================================================
