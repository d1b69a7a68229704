------------------------------- MODULE NetIOMP -------------------------------
(***************************************************************************)
(* The network object of a server or client: how the n_total processes     *)
(* connect to each other in a thread of their own, and how the main        *)
(* threads synchronise over the connections.                               *)
(*                                                                         *)
(* Every pair of processes shares two TLS connections, ios and ios2, which *)
(* the two set up in opposite roles.  init_network and sync both visit the *)
(* peers in increasing order (what the loops over all pairs amount to for  *)
(* one process), ios before ios2, and block on each; whether that order    *)
(* can block everyone is the question.                                     *)
(*                                                                         *)
(* Sources: src/core/io/netmp.h, src/core/io/tls_net_io_channel.h.         *)
(***************************************************************************)
EXTENDS Naturals

CONSTANTS N,         \* n_total = n_parties + n_clients
          Rounds,    \* how often the program syncs
          Localhost  \* all processes are on one host

\* Three servers, and the clients.
ASSUME NetAssumption == N \in Nat /\ N >= 3 /\ Rounds \in Nat /\ Localhost \in BOOLEAN

VARIABLES
  link,    \* state of every connection
  initAt,  \* where the init thread of each process is
  initPc,  \* "connecting", "established" (flag set), "finished" (notified)
  main,    \* main thread: "out" of sync, "asleep" in cv.wait, "in" sync
  syncAt,  \* where in sync the main thread is
  opened,  \* it has sent its byte on the connection it is at
  wire,    \* sync bytes in flight, per sender, receiver and connection
  entered, \* syncs called
  left     \* syncs returned from

initVars == <<link, initAt, initPc>>
syncVars == <<syncAt, opened, wire, entered, left>>
vars == <<initVars, main, syncVars>>

------------------------------------------------------------------------------
(* Peers and connections *)

Proc == 0 .. N - 1
Sock == {1, 2}   \* 1 is ios, 2 is ios2

\* Of a pair the higher numbered listens on ios, the lower on ios2.
Listens(p, q, s) == (p > q) = (s = 1)

\* A connection is named by its listener, its dialler and the array.
Links == {l \in Proc \X Proc \X Sock : l[1] # l[2] /\ Listens(l[1], l[2], l[3])}
LinkOf(p, at) == IF Listens(p, at.peer, at.sock) THEN <<p, at.peer, at.sock>>
                                                 ELSE <<at.peer, p, at.sock>>

\* A slip: one port per pair, so that ios2 takes the port of the next pair.
Slip_Port(i, j, s) == i * N + j + (s - 1)

\* The offset from the base port on which the pair i < j sets up s.
Port(i, j, s) == 2 * (i * N + j) + (s - 1)
PortOf(l) == IF l[1] < l[2] THEN Port(l[1], l[2], l[3]) ELSE Port(l[2], l[1], l[3])

\* The loops over all pairs, as process p sees them.
First(p) == [peer |-> IF p = 0 THEN 1 ELSE 0, sock |-> 1]
After(p, at) == IF at.sock = 1
                THEN [peer |-> at.peer, sock |-> 2]
                ELSE [peer |-> IF at.peer + 1 = p THEN at.peer + 2 ELSE at.peer + 1,
                      sock |-> 1]
\* A slip: the last process is left out.
Slip_AtEnd(at) == at.peer >= N - 1
AtEnd(at) == at.peer >= N

\* conf.IP: the entries of the network file that setupNetwork keeps.
Addressed == 0 .. 2

------------------------------------------------------------------------------
(* The init thread: NetIOMP::init_network and the constructors of TLSNetIO *)

Connecting(p, listens) ==
  /\ initPc[p] = "connecting"
  /\ ~AtEnd(initAt[p])
  /\ Listens(p, initAt[p].peer, initAt[p].sock) = listens
  /\ UNCHANGED <<initPc, main, syncVars>>

\* The listener binds and listens ...
Listen(p) ==
  /\ Connecting(p, TRUE)
  /\ link[LinkOf(p, initAt[p])] = "down"
  /\ link' = [link EXCEPT ![LinkOf(p, initAt[p])] = "listening"]
  /\ UNCHANGED initAt

\* ... the dialler, which retries until somebody listens, connects ...
Dial(p) ==
  /\ Connecting(p, FALSE)
  /\ link[LinkOf(p, initAt[p])] = "listening"
  /\ link' = [link EXCEPT ![LinkOf(p, initAt[p])] = "dialled"]
  /\ UNCHANGED initAt

\* ... the listener accepts, both do the TLS handshake, and each goes on.
Accept(p) ==
  /\ Connecting(p, TRUE)
  /\ link[LinkOf(p, initAt[p])] = "dialled"
  /\ link' = [link EXCEPT ![LinkOf(p, initAt[p])] = "up"]
  /\ initAt' = [initAt EXCEPT ![p] = After(p, @)]

Dialled(p) ==
  /\ Connecting(p, FALSE)
  /\ link[LinkOf(p, initAt[p])] = "up"
  /\ initAt' = [initAt EXCEPT ![p] = After(p, @)]
  /\ UNCHANGED link

\* connection_established is set under the mutex ...
Establish(p) ==
  /\ initPc[p] = "connecting"
  /\ AtEnd(initAt[p])
  /\ initPc' = [initPc EXCEPT ![p] = "established"]
  /\ UNCHANGED <<link, initAt, main, syncVars>>

\* A slip: nobody is notified.
Slip_Notify(p) ==
  /\ initPc[p] = "established"
  /\ initPc' = [initPc EXCEPT ![p] = "finished"]
  /\ UNCHANGED <<link, initAt, main, syncVars>>

\* ... and the main thread is notified.
Notify(p) ==
  /\ initPc[p] = "established"
  /\ initPc' = [initPc EXCEPT ![p] = "finished"]
  /\ main' = [main EXCEPT ![p] = IF @ = "asleep" THEN "out" ELSE @]
  /\ UNCHANGED <<link, initAt, syncVars>>

------------------------------------------------------------------------------
(* The main thread: NetIOMP::sync and TLSNetIO::sync *)

\* cv.wait: the flag is read under the mutex; the call sleeps if it is not set.
Wait(p) ==
  /\ main[p] = "out"
  /\ entered[p] < Rounds
  /\ initPc[p] = "connecting"
  /\ main' = [main EXCEPT ![p] = "asleep"]
  /\ UNCHANGED <<initVars, syncVars>>

\* A slip: sync does not wait for the connections.
Slip_EnterSync(p) ==
  /\ main[p] = "out"
  /\ entered[p] < Rounds
  /\ main' = [main EXCEPT ![p] = "in"]
  /\ entered' = [entered EXCEPT ![p] = @ + 1]
  /\ syncAt' = [syncAt EXCEPT ![p] = First(p)]
  /\ UNCHANGED <<initVars, opened, wire, left>>

EnterSync(p) ==
  /\ main[p] = "out"
  /\ entered[p] < Rounds
  /\ initPc[p] # "connecting"
  /\ main' = [main EXCEPT ![p] = "in"]
  /\ entered' = [entered EXCEPT ![p] = @ + 1]
  /\ syncAt' = [syncAt EXCEPT ![p] = First(p)]
  /\ UNCHANGED <<initVars, opened, wire, left>>

\* Handshakes with the last peer done, sync returns.
Advance(p) ==
  /\ syncAt' = [syncAt EXCEPT ![p] = After(p, @)]
  /\ IF AtEnd(After(p, syncAt[p]))
     THEN main' = [main EXCEPT ![p] = "out"] /\ left' = [left EXCEPT ![p] = @ + 1]
     ELSE UNCHANGED <<main, left>>
  /\ UNCHANGED <<initVars, entered>>

Here(p) == <<p, syncAt[p].peer, syncAt[p].sock>>   \* from p to its peer
There(p) == <<syncAt[p].peer, p, syncAt[p].sock>>  \* from its peer to p
AtListener(p) == main[p] = "in" /\ Listens(p, syncAt[p].peer, syncAt[p].sock)
AtDialler(p) == main[p] = "in" /\ ~Listens(p, syncAt[p].peer, syncAt[p].sock)

\* is_server: write the byte; the read that follows flushes it ...
Open(p) ==
  /\ AtListener(p)
  /\ ~opened[p]
  /\ opened' = [opened EXCEPT ![p] = TRUE]
  /\ wire' = [wire EXCEPT ![Here(p)] = @ + 1]
  /\ UNCHANGED <<initVars, main, syncAt, entered, left>>

\* A slip: the listener does not wait for the answer.
Slip_Close(p) ==
  /\ AtListener(p)
  /\ opened[p]
  /\ opened' = [opened EXCEPT ![p] = FALSE]
  /\ UNCHANGED wire
  /\ Advance(p)

\* ... and waits for the peer's.
Close(p) ==
  /\ AtListener(p)
  /\ opened[p]
  /\ wire[There(p)] > 0
  /\ opened' = [opened EXCEPT ![p] = FALSE]
  /\ wire' = [wire EXCEPT ![There(p)] = @ - 1]
  /\ Advance(p)

\* A slip: the read returns although nothing has arrived.
Slip_Answer(p) ==
  /\ AtDialler(p)
  /\ wire' = [wire EXCEPT ![There(p)] = @ - 1, ![Here(p)] = @ + 1]
  /\ UNCHANGED opened
  /\ Advance(p)

\* Otherwise: read the byte of the peer, write and flush one.
Answer(p) ==
  /\ AtDialler(p)
  /\ wire[There(p)] > 0
  /\ wire' = [wire EXCEPT ![There(p)] = @ - 1, ![Here(p)] = @ + 1]
  /\ UNCHANGED opened
  /\ Advance(p)

------------------------------------------------------------------------------

Init ==
  /\ link = [l \in Links |-> "down"]
  /\ initAt = [p \in Proc |-> First(p)]
  /\ initPc = [p \in Proc |-> "connecting"]
  /\ main = [p \in Proc |-> "out"]
  /\ syncAt = [p \in Proc |-> First(p)]
  /\ opened = [p \in Proc |-> FALSE]
  /\ wire = [c \in Proc \X Proc \X Sock |-> 0]
  /\ entered = [p \in Proc |-> 0]
  /\ left = [p \in Proc |-> 0]

InitThread(p) ==
  \/ Listen(p) \/ Dial(p) \/ Accept(p) \/ Dialled(p) \/ Establish(p) \/ Notify(p)

MainThread(p) == Wait(p) \/ EnterSync(p) \/ Open(p) \/ Close(p) \/ Answer(p)

AllSynced == \A p \in Proc : left[p] = Rounds /\ initPc[p] = "finished"

Terminated == AllSynced /\ UNCHANGED vars

Next == (\E p \in Proc : InitThread(p) \/ MainThread(p)) \/ Terminated

Spec == Init /\ [][Next]_vars

\* Two threads per process, each running until it blocks.
FairSpec == Spec /\ \A p \in Proc : WF_vars(InitThread(p)) /\ WF_vars(MainThread(p))

------------------------------------------------------------------------------
(* Properties *)

Position == [peer : 0 .. N, sock : Sock]

\* The variables hold what they are declared to hold.
TypeOK ==
  /\ link \in [Links -> {"down", "listening", "dialled", "up"}]
  /\ initAt \in [Proc -> Position]
  /\ initPc \in [Proc -> {"connecting", "established", "finished"}]
  /\ main \in [Proc -> {"out", "asleep", "in"}]
  /\ syncAt \in [Proc -> Position]
  /\ opened \in [Proc -> BOOLEAN]
  /\ wire \in [Proc \X Proc \X Sock -> Nat]
  /\ entered \in [Proc -> 0 .. Rounds]
  /\ left \in [Proc -> 0 .. Rounds]

\* All processes may run on one host (--localhost): no two connections are
\* set up on the same port.
PortsDistinct ==
  \A k, l \in Links : k # l /\ link[k] # "down" /\ link[l] # "down" => PortOf(k) # PortOf(l)

\* Whom a process dials is in its list of addresses; else conf.IP[j] is read
\* behind the end of the vector.
PeersAddressed ==
  \A p \in Proc :
    initPc[p] = "connecting" /\ ~AtEnd(initAt[p]) /\ ~Listens(p, initAt[p].peer, initAt[p].sock)
      => Localhost \/ initAt[p].peer \in Addressed

\* The main thread uses no connection that its init thread has not set up.
UsesEstablished ==
  \A p \in Proc : main[p] = "in" /\ ~AtEnd(syncAt[p]) => link[LinkOf(p, syncAt[p])] = "up"

\* sync shares the connections with the payload.  A process out of sync finds
\* a sync byte of a peer in front of it only when the peer is in a later sync,
\* that is, behind all the payload the peer sends before.
NoStrayByte ==
  \A p, q \in Proc : \A s \in Sock :
    p # q /\ main[p] # "in" /\ wire[<<q, p, s>>] > 0 => entered[q] > left[p]

\* NetIOMP::sync is a barrier.
B == INSTANCE Barrier
BarrierSpec == B!Spec

\* Connecting and synchronising in this order blocks nobody.
Termination == <>AllSynced

==============================================================================
