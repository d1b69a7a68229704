---------------------------- MODULE GraphSharing ----------------------------
(***************************************************************************)
(* How the two computing parties share the benchmark graph: each builds    *)
(* one half of the list, shares it with the other by masks both draw from  *)
(* rng_01, and appends P1's half to P0's (Graph::benchmark_graph,          *)
(* secret_share_parties, operator+); and how they open a shared graph      *)
(* (Graph::reveal).                                                        *)
(*                                                                         *)
(* Nothing but the dimensions of a half is sent: who draws which mask for  *)
(* which value follows from the order of the calls at either party.  A     *)
(* share is a value and the signed number of the mask in it, 0 for none.   *)
(* The other way to a graph, slices shared by clients, is InputSharing.    *)
(*                                                                         *)
(* Sources: src/utils/graph.h, sharing.cpp, netmp.h (send_vec, recv_vec),  *)
(* src/setup/cmdline.cpp (setupProtocol).                                  *)
(***************************************************************************)
EXTENDS Integers, Sequences, FiniteSets

CONSTANT Confs   \* the [nodes, entries] the servers may be started with

ASSUME ConfAssumption ==
  \A c \in Confs : c.nodes \in Nat \ {0} /\ c.entries \in Nat /\ c.entries >= c.nodes

Half == {0, 1}      \* P0 and P1, and the half each contributes
Opposite(p) == 1 - p

VARIABLES
  conf,
  at,        \* how far each party is: stage, half and vector
  rng01,     \* values each has drawn from rng_01
  dims,      \* dimensions of each half as a party knows them
  parts,     \* the vectors of shares of each half, in the order drawn
  joined,    \* the shared graph
  toward,    \* the stream toward each party
  revealed   \* the vectors opened

sharingVars == <<conf, at, rng01, dims, parts, joined, toward, revealed>>

------------------------------------------------------------------------------
(* setupProtocol and benchmark_graph *)

Power[i \in Nat] == IF i = 0 THEN 1 ELSE 2 * Power[i - 1]   \* of two

\* ceil(log2(nodes + 2)): ids are 1..nodes.
NBits(c) == CHOOSE b \in 0 .. c.nodes + 2 :
              Power[b] >= c.nodes + 2 /\ \A a \in 0 .. b - 1 : Power[a] < c.nodes + 2

Node(v) == [src |-> v, dst |-> v, isV |-> 1, data |-> 0]
BenchmarkEdge == [src |-> 1, dst |-> 2, isV |-> 0, data |-> 0]

\* A slip: P1 takes as many as P0.
Slip_From(p, n) == [first |-> p * (n \div 2), behind |-> (p + 1) * (n \div 2)]
\* P0 contributes the smaller half of n, P1 the rest.
From(p, n) == [first |-> IF p = 0 THEN 0 ELSE n \div 2,
               behind |-> IF p = 0 THEN n \div 2 ELSE n]
Count(r) == r.behind - r.first

Contribution(p) ==
  LET v == From(p, conf.nodes)
      e == From(p, conf.entries - conf.nodes)
  IN  [i \in 1 .. Count(v) |-> Node(v.first + i)] \o [i \in 1 .. Count(e) |-> BenchmarkEdge]

------------------------------------------------------------------------------
(* secret_share_parties *)

\* The vectors of a half in the order they are shared: the lowest bit of src
\* and of dst, the next one of each, then the four fields.
Columns(c) == 2 * NBits(c) + 4
BitColumn(c, k) == k <= 2 * NBits(c)
SrcColumn(k) == k % 2 = 1
FieldNames == <<"src", "dst", "isV", "data">>

BitOf(v, i) == (v \div Power[i]) % 2
ColumnOf(c, k, entry) ==
  IF BitColumn(c, k)
  THEN BitOf(IF SrcColumn(k) THEN entry.src ELSE entry.dst, (k - 1) \div 2)
  ELSE entry[FieldNames[k - 2 * NBits(c)]]

Joining == <<"join", 0, 0>>
InHalf(p, h) == at[p] = <<"share", h, 0>>
Sharing(p, h) == \E k \in 1 .. Columns(conf) : at[p] = <<"share", h, k>>

\* The owner sends its size and nodes.
SendDims(p) ==
  /\ InHalf(p, p)
  /\ LET mine == [entries |-> Len(Contribution(p)), nodes |-> Count(From(p, conf.nodes))] IN
       /\ toward' = [toward EXCEPT ![Opposite(p)] = @ \o <<mine.entries, mine.nodes>>]
       /\ dims' = [dims EXCEPT ![p][p] = mine]
  /\ at' = [at EXCEPT ![p] = <<"share", p, 1>>]
  /\ UNCHANGED <<conf, rng01, parts, joined, revealed>>

RecvDims(p) ==
  /\ InHalf(p, Opposite(p))
  /\ Len(toward[p]) >= 2
  /\ dims' = [dims EXCEPT ![p][Opposite(p)] = [entries |-> toward[p][1], nodes |-> toward[p][2]]]
  /\ toward' = [toward EXCEPT ![p] = SubSeq(@, 3, Len(@))]
  /\ at' = [at EXCEPT ![p] = <<"share", Opposite(p), 1>>]
  /\ UNCHANGED <<conf, rng01, parts, joined, revealed>>

\* random_share_secret_vec_2P: the sender keeps secret - mask, the other
\* party the mask.
ShareOf(p, h, k, i) ==
  LET mask == rng01[p] + i IN
    IF p = h THEN <<ColumnOf(conf, k, Contribution(h)[i]), -mask>> ELSE <<0, mask>>

\* P0's half is shared first; after P1's, the halves are joined.
AfterColumn(h, k) ==
  IF k < Columns(conf) THEN <<"share", h, k + 1>>
  ELSE IF h = 0 THEN <<"share", 1, 0>> ELSE Joining

ShareColumn(p, h) ==
  /\ Sharing(p, h)
  /\ LET k == at[p][3]
         size == dims[p][h].entries
     IN  /\ parts' = [parts EXCEPT ![p][h] = Append(@, [i \in 1 .. size |-> ShareOf(p, h, k, i)])]
         /\ rng01' = [rng01 EXCEPT ![p] = @ + size]
         /\ at' = [at EXCEPT ![p] = AfterColumn(h, k)]
  /\ UNCHANGED <<conf, dims, joined, toward, revealed>>

------------------------------------------------------------------------------
(* operator+ *)

OpenAt(f) == <<"open", 0, f>>
WaitAt(f) == <<"wait", 0, f>>
Final == <<"done", 0, 0>>

NoGraph == [entries |-> 0, nodes |-> 0, columns |-> <<>>]

\* An empty left operand gives the right one, an empty right one an empty
\* graph.
JoinHalves(p) ==
  /\ at[p] = Joining
  /\ LET d == dims[p]
         whole == [entries |-> d[0].entries + d[1].entries, nodes |-> d[0].nodes + d[1].nodes,
                   columns |-> [k \in DOMAIN parts[p][0] |-> parts[p][0][k] \o parts[p][1][k]]]
         right == [entries |-> d[1].entries, nodes |-> d[1].nodes, columns |-> parts[p][1]]
     IN  joined' = [joined EXCEPT ![p] = IF d[1].entries = 0 THEN NoGraph
                                         ELSE IF d[0].entries = 0 THEN right ELSE whole]
  /\ at' = [at EXCEPT ![p] = OpenAt(1)]
  /\ UNCHANGED <<conf, rng01, dims, parts, toward, revealed>>

------------------------------------------------------------------------------
(* Graph::reveal: reveal_vec for each of the four fields *)

Opening(p) == \E f \in 1 .. 4 : at[p] = OpenAt(f)
Waiting(p) == \E f \in 1 .. 4 : at[p] = WaitAt(f)

\* A slip: the vectors of bits come first.
Slip_FieldVector(p, f) == IF joined[p].entries = 0 THEN <<>> ELSE joined[p].columns[f]
FieldVector(p, f) ==
  IF joined[p].entries = 0 THEN <<>> ELSE joined[p].columns[2 * NBits(conf) + f]

OpenShares(s, t) == <<s[1] + t[1], s[2] + t[2]>>

\* recv_vec: as many values as the own share has.
Arrived(p, f) == Len(toward[p]) >= Len(FieldVector(p, f))
OpenField(p, f) ==
  LET mine == FieldVector(p, f) IN
  /\ revealed' = [revealed EXCEPT ![p] = Append(@, [i \in DOMAIN mine |-> OpenShares(mine[i], toward[p][i])])]
  /\ at' = [at EXCEPT ![p] = IF f < 4 THEN OpenAt(f + 1) ELSE Final]

\* P0 sends its share first ...
RevealSend(p) ==
  /\ p = 0
  /\ Opening(p)
  /\ LET f == at[p][3] IN
       /\ toward' = [toward EXCEPT ![1] = @ \o FieldVector(p, f)]
       /\ at' = [at EXCEPT ![p] = WaitAt(f)]
  /\ UNCHANGED <<conf, rng01, dims, parts, joined, revealed>>

\* ... and takes P1's, which answers when it has P0's.
RevealRecv(p) ==
  /\ p = 0
  /\ Waiting(p)
  /\ LET f == at[p][3] IN
       /\ Arrived(p, f)
       /\ OpenField(p, f)
       /\ toward' = [toward EXCEPT ![p] = SubSeq(@, Len(FieldVector(p, f)) + 1, Len(@))]
  /\ UNCHANGED <<conf, rng01, dims, parts, joined>>

RevealAnswer(p) ==
  /\ p = 1
  /\ Opening(p)
  /\ LET f == at[p][3] IN
       /\ Arrived(p, f)
       /\ OpenField(p, f)
       /\ toward' = [toward EXCEPT ![p] = SubSeq(@, Len(FieldVector(p, f)) + 1, Len(@)),
                                   ![0] = @ \o FieldVector(p, f)]
  /\ UNCHANGED <<conf, rng01, dims, parts, joined>>

------------------------------------------------------------------------------

NoDims == [entries |-> 0, nodes |-> 0]

SharingInit ==
  /\ conf \in Confs
  /\ at = [p \in Half |-> <<"share", 0, 0>>]
  /\ rng01 = [p \in Half |-> 0]
  /\ dims = [p \in Half |-> [h \in Half |-> NoDims]]
  /\ parts = [p \in Half |-> [h \in Half |-> <<>>]]
  /\ joined = [p \in Half |-> NoGraph]
  /\ toward = [p \in Half |-> <<>>]
  /\ revealed = [p \in Half |-> <<>>]

SharingStep(p) ==
  \/ SendDims(p) \/ RecvDims(p)
  \/ \E h \in Half : ShareColumn(p, h)
  \/ JoinHalves(p)
  \/ RevealSend(p) \/ RevealRecv(p) \/ RevealAnswer(p)

SharingNext == \E p \in Half : SharingStep(p)

SharingSpec == SharingInit /\ [][SharingNext]_sharingVars

SharingDone == \A p \in Half : at[p] = Final

------------------------------------------------------------------------------
(* Properties *)

HasGraph(p) == Opening(p) \/ Waiting(p) \/ at[p] = Final
Columnwise(k) ==
  [i \in DOMAIN joined[0].columns[k] |-> OpenShares(joined[0].columns[k][i], joined[1].columns[k][i])]

\* Once both parties have the shared graph, it has conf's dimensions at both,
\* its masks cancel, it has every node once and the edges for the rest, and
\* the shared bits of an entry are those of its ids (graph.h 239-303,
\* 320-368, 392-406).
SharedGraph ==
  (\A p \in Half : HasGraph(p)) =>
    LET size == conf.entries
        b == NBits(conf)
        value(k, i) == Columnwise(k)[i][1]
        field(f, i) == value(2 * b + f, i)
        bits(first, i) == [j \in 0 .. b - 1 |-> value(2 * j + first, i)]
    IN  /\ \A p \in Half : joined[p].entries = size /\ joined[p].nodes = conf.nodes
        /\ \A k \in 1 .. Columns(conf) :
             /\ Len(joined[0].columns[k]) = size /\ Len(joined[1].columns[k]) = size
             /\ \A i \in 1 .. size : Columnwise(k)[i][2] = 0
        /\ \A v \in 1 .. conf.nodes :
             Cardinality({i \in 1 .. size : field(3, i) = 1 /\ field(1, i) = v /\ field(2, i) = v}) = 1
        /\ Cardinality({i \in 1 .. size : field(3, i) = 0 /\ field(1, i) = 1 /\ field(2, i) = 2})
             = size - conf.nodes
        /\ \A i \in 1 .. size, j \in 0 .. b - 1 :
             /\ bits(1, i)[j] = BitOf(field(1, i), j)
             /\ bits(2, i)[j] = BitOf(field(2, i), j)
        /\ \A i \in 1 .. size : field(1, i) < Power[b] /\ field(2, i) < Power[b]

\* Both parties open the same values, and those of the halves that were
\* shared, although P1 answers in the order of its own calls (sharing.cpp
\* 70-99).
SameOpened ==
  SharingDone =>
    LET list == Contribution(0) \o Contribution(1) IN
      \A p \in Half : \A f \in 1 .. 4 :
        revealed[p][f] = [i \in DOMAIN list |-> <<list[i][FieldNames[f]], 0>>]

==============================================================================
