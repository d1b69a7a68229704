----------------------------- MODULE InputSharing -----------------------------
(***************************************************************************)
(* Clients share slices of a graph among the servers and get the outputs   *)
(* of their slices back (InputClient, InputServer, and the mains of        *)
(* run_client.cpp and run_server.cpp around them).                         *)
(*                                                                         *)
(* Connections carry streams of size_t's and ring elements.  A ring        *)
(* element is named by what it is a share of: <<c, i, f>> is field f of    *)
(* entry i of the slice of client c; the shares of a value that P0 and P1  *)
(* hold are one element.  The output of an entry stands for itself, for    *)
(* what is computed on the joined graph is the matter of GraphAlgorithm.   *)
(* The three syncs are those of Barrier, which NetIOMP implements.         *)
(*                                                                         *)
(* Sources: src/data_interface/input-sharing/, src/core/io/netmp.h,        *)
(* src/utils/graph.h, run_server.cpp, run_client.cpp.                      *)
(***************************************************************************)
EXTENDS Naturals, Sequences, SequencesExt, FiniteSetsExt

CONSTANTS NClients, \* the clients are numbered 0, 1, ...
          Bits,     \* bits of a node id
          Word,     \* how many values a size_t has (2^64)
          Slices,   \* functions from clients to [start, size, nodes]
          Asserts   \* whether assert is compiled in (not in a Release build)

Client == 0 .. NClients - 1
SliceType == [start : 0 .. Word - 1, size : 0 .. Word - 1, nodes : 0 .. Word - 1]

ASSUME InputAssumption == /\ NClients \in Nat \ {0}
                          /\ Bits \in Nat \ {0}
                          /\ Word \in Nat \ {0}
                          /\ Slices \subseteq [Client -> SliceType]
                          /\ Asserts \in BOOLEAN

P0 == 0
P1 == 1
D  == 2
NParties == 3
Server  == {P0, P1, D}
Sharer  == {P0, P1}
ClientId(c) == c + NParties
Process == Server \cup {ClientId(c) : c \in Client}

VARIABLES
  slice,
  phase,    \* where every process is
  step,     \* sends done by a client; the client a server is at
  inbox,    \* the stream from a client to a server
  outbox,   \* the stream from a server to a client
  nodes,    \* Graph::nodes at a server
  size,     \* Graph::size at a server
  pkts,     \* packets received
  graph,    \* the joined list: position -> field -> element
  startIdx, \* NetIOMP::start_idx and end_idx
  endIdx,
  shares,   \* results received by a client, per sharer
  entered, left

data == <<slice, nodes, size, pkts, graph, startIdx, endIdx>>
vars == <<data, phase, step, inbox, outbox, shares, entered, left>>

Syncs == 3
Sync == INSTANCE Barrier WITH Proc <- Process, Rounds <- Syncs

------------------------------------------------------------------------------
(* Packets *)

\* src, dst, isV and data, then the bits of src and those of dst.
Field == 0 .. 3 + 2 * Bits
Length(n) == (4 + 2 * Bits) * n

\* Graph::serialize: four fields entry by entry, then the bits column by column.
Serialize(c, n) ==
  [k \in 1 .. Length(n) |->
     IF k <= 4 * n THEN <<c, (k - 1) \div 4, (k - 1) % 4>>
                   ELSE <<c, (k - 1) % n, 3 + (k - 1 - 4 * n) \div n + 1>>]

\* A slip: the bits are read entry by entry.
Slip_PositionOf(f, i, n) == IF f < 4 THEN 4 * i + f + 1 ELSE 4 * n + 2 * Bits * i + f - 3
\* Where recv_graph has its cursor for field f of entry i of n.
PositionOf(f, i, n) == IF f < 4 THEN 4 * i + f + 1 ELSE 4 * n + (f - 4) * n + i + 1

\* The cells of the list that a packet is for.
Cells(pkt) == pkt.start .. pkt.start + pkt.size - 1
\* What a loop over n clients or packets adds up: f[1] + ... + f[n].
Upto(f, n) == LET s[k \in Nat] == IF k = 0 THEN 0 ELSE s[k - 1] + f[k] IN s[n]
TotalSize(ps) == Upto([k \in 1 .. Len(ps) |-> ps[k].size], Len(ps))

\* A slip: a cell may be written again.
Slip_Refused(ps) == \E k \in DOMAIN ps : ps[k].start + ps[k].size > TotalSize(ps)
\* recv_graph throws: a packet ends behind the list, two write the same cell,
\* or a cell is missing.
Refused(ps) ==
  \/ \E k \in DOMAIN ps : ps[k].start + ps[k].size > TotalSize(ps)
  \/ \E j, k \in DOMAIN ps : j # k /\ Cells(ps[j]) \cap Cells(ps[k]) # {}
  \/ UNION {Cells(ps[k]) : k \in DOMAIN ps} # 0 .. TotalSize(ps) - 1
Aborted(ps) == Asserts /\ \E k \in DOMAIN ps : ps[k].size = 0

\* The vectors start out as zeros; the packets write their cells.
Unpacked(ps) ==
  [x \in 0 .. TotalSize(ps) - 1 |-> [f \in Field |->
     LET writers == {k \in DOMAIN ps : x \in Cells(ps[k])}
     IN  IF writers = {} THEN <<>>
         ELSE LET pkt == ps[Max(writers)]
              IN  pkt.entries[PositionOf(f, x - pkt.start, pkt.size)]]]

------------------------------------------------------------------------------
(* Clients *)

\* send_graph: what is sent to whom, in order.
Script(c) ==
  LET s == slice[c]
      share == Serialize(c, s.size)
      packet(p) == <<[to |-> p, words |-> <<s.nodes>>],
                     [to |-> p, words |-> <<s.start, (s.start + s.size) % Word>>],
                     [to |-> p, words |-> share]>>
  IN  packet(P0) \o packet(P1)
      \o <<[to |-> D, words |-> <<s.nodes>>], [to |-> D, words |-> <<s.size>>]>>

ClientSend(c) ==
  LET me == ClientId(c) IN
  /\ phase[me] = "send"
  /\ LET msg == Script(c)[step[me]]
     IN  inbox' = [inbox EXCEPT ![msg.to][c] = @ \o msg.words]
  /\ IF step[me] < Len(Script(c))
     THEN step' = [step EXCEPT ![me] = @ + 1] /\ UNCHANGED phase
     ELSE phase' = [phase EXCEPT ![me] = "sync"] /\ UNCHANGED step
  /\ UNCHANGED <<data, outbox, shares, entered, left>>

\* recv_result: as many elements as the client's own graph has entries,
\* first from P0 and then from P1.
ClientRecv(c, p) ==
  LET me == ClientId(c)
      n  == slice[c].size
  IN
  /\ phase[me] = (IF p = P0 THEN "share0" ELSE "share1")
  /\ Len(outbox[p][c]) >= n
  /\ shares' = [shares EXCEPT ![c][p] = SubSeq(outbox[p][c], 1, n)]
  /\ outbox' = [outbox EXCEPT ![p][c] = SubSeq(@, n + 1, Len(@))]
  /\ phase' = [phase EXCEPT ![me] = IF p = P0 THEN "share1" ELSE "done"]
  /\ UNCHANGED <<data, step, inbox, entered, left>>

------------------------------------------------------------------------------
(* Servers: input *)

Halt(p, how) == phase' = [phase EXCEPT ![p] = how]

\* The stream from the client that server p is at has k words, which it takes.
Take(p, k) ==
  /\ Len(inbox[p][step[p]]) >= k
  /\ inbox' = [inbox EXCEPT ![p][step[p]] = SubSeq(@, k + 1, Len(@))]
Taken(p, k) == inbox[p][step[p]][k]

\* A slip: the loop does not start over.
Slip_Visit(p, then) ==
  /\ step' = [step EXCEPT ![p] = @ + 1]
  /\ phase' = [phase EXCEPT ![p] = IF step[p] = NClients - 1 THEN then ELSE @]
\* The loops over the clients: the next one, or on to phase `then'.
Visit(p, then) ==
  IF step[p] < NClients - 1
  THEN step' = [step EXCEPT ![p] = @ + 1] /\ UNCHANGED phase
  ELSE step' = [step EXCEPT ![p] = 0] /\ phase' = [phase EXCEPT ![p] = then]

RecvNodes(p) ==
  /\ phase[p] = "nodes"
  /\ Take(p, 1)
  /\ nodes' = [nodes EXCEPT ![p] = @ + Taken(p, 1)]
  /\ Visit(p, IF p = D THEN "size" ELSE "header")
  /\ UNCHANGED <<slice, size, pkts, graph, startIdx, endIdx, outbox, shares, entered, left>>

\* A slip: the size is that of the last client.
Slip_AddSize(total, n) == n
AddSize(total, n) == total + n

RecvSize ==
  /\ phase[D] = "size"
  /\ Take(D, 1)
  /\ size' = [size EXCEPT ![D] = AddSize(@, Taken(D, 1))]
  /\ Visit(D, "sync")
  /\ UNCHANGED <<slice, nodes, pkts, graph, startIdx, endIdx, outbox, shares, entered, left>>

RecvHeader(p) ==
  /\ phase[p] = "header"
  /\ Take(p, 2)
  /\ Taken(p, 1) <= Taken(p, 2)
  /\ pkts' = [pkts EXCEPT ![p] = Append(@, [start |-> Taken(p, 1),
                                            size |-> Taken(p, 2) - Taken(p, 1),
                                            entries |-> <<>>])]
  /\ phase' = [phase EXCEPT ![p] = "entries"]
  /\ UNCHANGED <<slice, step, nodes, size, graph, startIdx, endIdx, outbox, shares, entered, left>>

\* A slice that ends before it starts: recv_graph catches the exception and
\* returns an empty graph, with which the server goes on.  The next sync would
\* read what is left in the streams; the model ends here.
RecvInvalid(p) ==
  /\ phase[p] = "header"
  /\ Take(p, 2)
  /\ Taken(p, 2) < Taken(p, 1)
  /\ nodes' = [nodes EXCEPT ![p] = 0]
  /\ phase' = [phase EXCEPT ![p] = "adrift"]
  /\ UNCHANGED <<slice, step, size, pkts, graph, startIdx, endIdx, outbox, shares, entered, left>>

\* A slip: the start of a slice is not kept.
Slip_StartOf(pkt) == 0
StartOf(pkt) == pkt.start

\* The rest of recv_packet, and the loop in recv_packets.  start_idx has a
\* place for every client, end_idx one for every party.
RecvEntries(p) ==
  /\ phase[p] = "entries"
  /\ LET pkt == Last(pkts[p])
         n   == Length(pkt.size)
         c   == step[p]
     IN  /\ Take(p, n)
         /\ IF c < NParties
            THEN /\ pkts' = [pkts EXCEPT ![p][Len(pkts[p])].entries = SubSeq(inbox[p][c], 1, n)]
                 /\ startIdx' = [startIdx EXCEPT ![p][c] = StartOf(pkt)]
                 /\ endIdx' = [endIdx EXCEPT ![p][c] = pkt.start + pkt.size]
                 /\ IF c < NClients - 1
                    THEN /\ step' = [step EXCEPT ![p] = @ + 1]
                         /\ phase' = [phase EXCEPT ![p] = "header"]
                    ELSE /\ step' = [step EXCEPT ![p] = 0]
                         /\ phase' = [phase EXCEPT ![p] = "merge"]
            ELSE Halt(p, "undefined") /\ UNCHANGED <<pkts, startIdx, endIdx, step>>
  /\ UNCHANGED <<slice, nodes, size, graph, outbox, shares, entered, left>>

\* recv_graph puts the packets together; an exception ends the process, and
\* with it the connections that everybody else needs for the next sync.
Merge(p) ==
  /\ phase[p] = "merge"
  /\ IF Aborted(pkts[p]) \/ Refused(pkts[p])
     THEN Halt(p, "stopped") /\ UNCHANGED <<size, graph>>
     ELSE /\ size' = [size EXCEPT ![p] = TotalSize(pkts[p])]
          /\ graph' = [graph EXCEPT ![p] = Unpacked(pkts[p])]
          /\ phase' = [phase EXCEPT ![p] = "sync"]
  /\ UNCHANGED <<slice, nodes, pkts, startIdx, endIdx, step, inbox, outbox, shares, entered, left>>

------------------------------------------------------------------------------
(* Preprocessing and evaluation happen between the syncs *)

EnterSync(x) ==
  /\ phase[x] = "sync"
  /\ Sync!Enter(x)
  /\ UNCHANGED <<data, phase, step, inbox, outbox, shares>>

\* A slip: a client forgets the third sync.
Slip_SyncsOf(x) == IF x \in Server THEN Syncs ELSE Syncs - 1
SyncsOf(x) == Syncs

LeaveSync(x) ==
  /\ phase[x] = "sync"
  /\ Sync!Leave(x)
  /\ phase' = IF left[x] + 1 < SyncsOf(x) THEN phase
              ELSE [phase EXCEPT ![x] = IF x \in Server THEN "results" ELSE "share0"]
  /\ UNCHANGED <<data, step, inbox, outbox, shares>>

------------------------------------------------------------------------------
(* Servers: results *)

\* The outputs are in the order of the list; the dealer has none, and its
\* indices are those of the constructor.
Outputs(p) == [x \in DOMAIN graph[p] |-> graph[p][x][0]]

\* send_result
SendResult(p) ==
  /\ phase[p] = "results"
  /\ LET c == step[p] IN
       IF c < NParties
       THEN /\ LET from == startIdx[p][c]
                   part == [k \in 1 .. endIdx[p][c] - from |-> Outputs(p)[from + k - 1]]
               IN  outbox' = [outbox EXCEPT ![p][c] = @ \o part]
            /\ Visit(p, "done")
       ELSE Halt(p, "undefined") /\ UNCHANGED <<outbox, step>>
  /\ UNCHANGED <<data, inbox, shares, entered, left>>

------------------------------------------------------------------------------

Ended == {"done", "stopped", "adrift", "undefined"}
\* Once a server has stopped, nobody gets past the next sync: in the code the
\* others end with an error when the connection is closed.
Terminated ==
  /\ \/ \A x \in Process : phase[x] \in Ended
     \/ \E p \in Server : phase[p] \in Ended \ {"done"}
  /\ UNCHANGED vars

Init ==
  /\ slice \in Slices
  /\ phase = [x \in Process |-> IF x \in Server THEN "nodes" ELSE "send"]
  /\ step = [x \in Process |-> IF x \in Server THEN 0 ELSE 1]
  /\ inbox = [p \in Server |-> [c \in Client |-> <<>>]]
  /\ outbox = [p \in Server |-> [c \in Client |-> <<>>]]
  /\ nodes = [p \in Server |-> 0]
  /\ size = [p \in Server |-> 0]
  /\ pkts = [p \in Sharer |-> <<>>]
  /\ graph = [p \in Server |-> <<>>]
  /\ startIdx = [p \in Server |-> [c \in Client |-> 0]]
  /\ endIdx = [p \in Server |-> [i \in 0 .. NParties - 1 |-> 0]]
  /\ shares = [c \in Client |-> [p \in Sharer |-> <<>>]]
  /\ Sync!Init

ClientStep(c) == ClientSend(c) \/ \E p \in Sharer : ClientRecv(c, p)
SharerStep(p) == RecvHeader(p) \/ RecvInvalid(p) \/ RecvEntries(p) \/ Merge(p)
ServerStep(p) == RecvNodes(p) \/ SendResult(p)

Next ==
  \/ \E c \in Client : ClientStep(c)
  \/ \E p \in Server : ServerStep(p)
  \/ \E p \in Sharer : SharerStep(p)
  \/ RecvSize
  \/ \E x \in Process : EnterSync(x) \/ LeaveSync(x)
  \/ Terminated

Spec == Init /\ [][Next]_vars

\* Every process is a thread that runs until it waits for a message.
Fairness ==
  /\ \A c \in Client : WF_vars(ClientStep(c))
  /\ \A p \in Server : WF_vars(ServerStep(p))
  /\ \A p \in Sharer : WF_vars(SharerStep(p))
  /\ WF_vars(RecvSize)
  /\ \A x \in Process : WF_vars(EnterSync(x) \/ LeaveSync(x))

FairSpec == Spec /\ Fairness

------------------------------------------------------------------------------
(* Properties *)

SliceCells(c) == Cells(slice[c])
SizesOf == [k \in 1 .. NClients |-> slice[k - 1].size]
NodesOf == [k \in 1 .. NClients |-> slice[k - 1].nodes]
Whole == Upto(SizesOf, NClients)
\* Every cell of the list comes from one client.
Acceptable ==
  /\ \A x \in 0 .. Whole - 1 : Cardinality({c \in Client : x \in SliceCells(c)}) = 1
  /\ \A c \in Client : slice[c].start + slice[c].size <= Whole
  /\ Asserts => \A c \in Client : slice[c].size > 0

HasInput(p) == phase[p] \in {"sync", "results", "done"}

\* The variables hold what they are declared to hold; every loop over the
\* clients stays among them.
TypeOK ==
  /\ slice \in [Client -> SliceType]
  /\ \A c \in Client :
       /\ phase[ClientId(c)] \in {"send", "sync", "share0", "share1", "done"}
       /\ step[ClientId(c)] \in 1 .. 8
       /\ \A p \in Sharer : Len(shares[c][p]) \in {0, slice[c].size}
  /\ \A p \in Server :
       /\ phase[p] \in {"nodes", "size", "header", "entries", "merge", "sync", "results"} \cup Ended
       /\ step[p] \in Client
       /\ nodes[p] \in Nat /\ size[p] \in Nat
  /\ \A p \in Sharer : Len(pkts[p]) <= NClients

\* What recv_graph returns is the list that the slices make up, field by
\* field: all of it, and only if the slices leave no gap and do not overlap.
Joined ==
  \A p \in Sharer : HasInput(p) =>
    /\ Acceptable
    /\ nodes[p] = Upto(NodesOf, NClients)
    /\ DOMAIN graph[p] = 0 .. Whole - 1
    /\ \A c \in Client : \A x \in SliceCells(c) : \A f \in Field :
         graph[p][x][f] = <<c, x - slice[c].start, f>>

\* The dealer prepares for a graph of the dimensions that P0 and P1 have.
SameDimensions ==
  \A p, q \in Server : HasInput(p) /\ HasInput(q) => size[p] = size[q] /\ nodes[p] = nodes[q]

\* A client ends up with both shares of the outputs of its own entries.
OwnResults ==
  \A c \in Client : phase[ClientId(c)] = "done" =>
    \A p \in Sharer : shares[c][p] = [i \in 1 .. slice[c].size |-> <<c, i - 1, 0>>]

\* If the slices do not fit nobody, the dealer included, gets past the first
\* sync: nothing is preprocessed, computed or sent back.
NobodyServed == ~Acceptable => \A x \in Process : left[x] = 0

\* If they fit everybody gets through.
Complete == Acceptable ~> \A x \in Process : phase[x] = "done"

\* The servers stay inside start_idx and end_idx.
NoUndefined == \A p \in Server : phase[p] # "undefined"

==============================================================================
