# graph-mpc in TLA+

graph-mpc (PPGA) evaluates message-passing graph algorithms on secret-shared graphs. Three servers take
part: the computing parties P0 and P1, which hold additive shares of everything, and the dealer D, which
knows no data but prepares correlated randomness. Clients hand in slices of the graph and get their
slice of the result back.

This directory holds TLA+ modules translated from the sources, TLC configurations for small instances,
and proofs checked by TLAPS. All paths below are relative to the root of the repository; line numbers are
those of the commit modelled. `PROJECT.json` maps every definition to its lines.

## 1. Inventory

| Part | Sources | State | Operations |
|---|---|---|---|
| Preprocessor | `src/core/preprocessor.cpp` | `recv` flag (whose turn), reference to Storage | `run`: seeds, lists, walk over the levels; `preprocess`: one branch per gate type, for D and for the parties |
| Storage, FileWriter | `src/core/storage.cpp`, `io/disk.h` | permutation tables `pi_0`, `pi_0_p`, `pi_1`, `pi_1_p`, lists `preproc` and `B`, cursor `read_idx`, `triples`; vectors, or files with `--ssd` | `read_preproc`, `store_*`, `load_triples`, `reset` |
| RandomGenerators, `share::` | `src/utils/random_generators.h`, `sharing.cpp` | seven generators, three per pair of dealer and party and one of P0 and P1 | seeding, drawing, sharing a vector, opening it |
| Permutation | `src/utils/permutation.h` | a vector of positions | sampling, inverse, composition, application |
| Circuit, Gate | `src/core/circuit.cpp`, `gate.cpp`, `algorithms/*.h` | list of gates, wire counter, `shuffle_idx`, orders of the list | `build` and the builders, the library for algorithms; `level_order` |
| Evaluator | `src/core/evaluator.cpp`, `evaluator.h` | wires, readers left per wire, four vectors of opened values with cursors | `evaluate_send`, `online_communication`, `evaluate_recv` |
| NetIOMP, TLSNetIO | `src/core/io/*.h` | two connections per pair of processes, flag and condition variable, init thread, the connections' contents | `init_network`, `sync`, `send`, `recv`, `send_vec`, `recv_vec` |
| Input sharing | `src/data_interface/input-sharing/*.h` | slices of the clients | `send_graph`, `recv_graph`, `send_result`, `recv_result` |
| Graph | `src/utils/graph.h` | shared list of entries and its dimensions | `benchmark_graph`, `secret_share_parties`, `operator+`, `reveal` |
| Programs | `run_server.cpp`, `run_client.cpp`, `benchmarks/benchmark.h` | one run, or repetitions over one Storage | connect, receive graph, build, preprocess, sync, evaluate, sync, return result |
| Options, statistics, tests | `src/setup`, `src/utils/stats.*`, `tests` | none that the protocol uses, except the address list and the bits of a node id | |

How they interact. A server builds its circuit from public sizes only, so all three build the same one.
The preprocessor walks it level by level: the dealer draws from generators it shares with each party and
ships what a party cannot draw; the parties receive one list each and make the same walk. The evaluator
of a party walks the levels again, sends one message per level to its partner, and takes randomness from
generators, tables, lists and triples by position. The two share no other state. `sync` separates
the phases. Nothing that is sent carries a name or a number.

What is hard, and what makes each part right:

* *Three walks in step.* No value says which gate it is for. Randomness is used for the gate it was
  prepared for, by both parties, never twice, and the lists are used up, or the next repetition starts in
  the middle of one.
* *Permutations in halves.* A shuffle's four permutations agree; a merged shuffle undoes one and
  applies another; only one order is revealed per shuffle.
* *Shares.* The shares that two parties compute from different messages and masks belong to the same value.
* *Rounds and wires.* Gates are evaluated after their operands are open, wires freed after the
  last reader, an in-place update touches nothing that is still read.
* *Orders.* Four orders of one list, switched in shuffled form, with corrected prefix sums, compute message passing.
* *Input and results.* Slices join to one list or everybody stops; all servers agree on its
  dimensions; each client gets its own part back.
* *Processes.* n processes connect in blocking steps, two threads each; a pairwise handshake is a barrier.
* *Blocks.* A level is opened in blocks over a connection that tears them apart, fills up or breaks;
  both parties send before they receive. The dealer's lists are shipped in blocks and read in chunks of other sizes.

`PROJECT.json` lists the hazards line by line, with the properties that cover them.

## 2. Modules

| Module | What it models |
|---|---|
| `Permutations` | `Permutation`: inverse, composition, the two applications, the sampling |
| `GateProtocol` | one interactive gate, evaluated by P0 and P1 on shares with the dealer's masks, over any ring |
| `Correlation` | dealer, two preprocessors, two evaluators and the repetition loop, following every draw and read |
| `GateOrder` | what the preprocessing needs of the order of the gates; assumed by `Correlation`, checked in `GraphAlgorithm` |
| `WordGates` | the gates that look into the bits of a word: the EQZ layers, their conjunction, Bit2A, Insert, Compaction |
| `GraphSharing` | how P0 and P1 build, share, join and open the benchmark graph |
| `Storage` | lists and triples in vectors or files, shipped in blocks, with cursors and resets |
| `Levels`, `OpenRounds` | the values a party opens per level; abstract rounds, one per level |
| `Exchange` | `online_communication` over bounded connections that may break; implements `OpenRounds` |
| `NetIOMP` | init threads and main threads of all processes, connections, condition variable, `sync` |
| `Barrier` | the abstract barrier that `NetIOMP::sync` implements |
| `InputSharing` | clients and servers from the first slice sent to the last result received, synchronising as in `Barrier` |
| `Gates` | the gates, the primitives that append them, the library for algorithms |
| `Circuit` | `Circuit::build` as a function from an algorithm's configuration to a list of gates |
| `Evaluation` | `level_order` and `Evaluator::run` on the values that the two parties share |
| `GraphAlgorithm` | message passing computed directly on the graph, and the properties of an evaluation |
| `*_proof` | theorems and proofs about the module of that name (`Evaluation_proof` about `Evaluation` through `GraphAlgorithm`, `Exchange_proof` also about `OpenRounds`, `GateProtocol_proof` also about `Permutations`, `InputSharing_proof` also about `GraphSharing`; `Alignment_proof` about `Correlation`, on top of `Correlation_proof`) |
| `MC*` | instances for TLC |

The evaluator is seen several times, each time with the data that the question needs: in `Correlation` a
value is its provenance (generator and position, or list entry), in `GateProtocol` and `WordGates` a pair of shares,
in `Exchange` its place in a level, in `Evaluation` the shared value of every wire. `Evaluation` takes from `GateProtocol`
and `WordGates` that the shares of a result add up to the gate's function, from `Correlation` that both parties use the
same randomness, and from `Exchange` that both have opened a level when it is left; `Correlation` takes from `Storage`
that the lists are queues, whether they lie in memory or on disk.

**Correlation.** `deals` is the dealer's state before every gate (it does not depend on the parties),
`dealt` what it prepared; `turn`, `cur`, `buf`, `readIdx`, `out`, `back`, `prepared` are a party's
`recv` flag, generator positions, list, `read_idx`, tables and triples. `DealShuffle` ...
`DealTriple` are the branches of `preprocess` for D, `Prep*` those for a party, `Send*` and `Recv*` those of
`evaluate_send` and `evaluate_recv`; `NextRep` is an iteration of `Benchmark::run`, `Reset` is `Storage::reset`.
`MulSIMD` stands for the four types that consume a triple, `SetConstVecSIMD` is the one local gate
that draws.

**GateProtocol.** A gate of every interactive type with all masks the dealer can draw: `Quad`,
`MergedQuad`, `Corrections` and `TripleCorr` are what D computes, `Message` what a party sends, `Result` what it
makes of the partner's message. Ring and operations are parameters; the proof is for all of them.

**WordGates.** The chain that deduplication builds, on shares of both differences of neighbouring entries. A party's step is
`SendWords` (what `evaluate_send` opens for a level) or `ReceiveWords` (what `evaluate_recv` makes of the partner's words).
`Halves` and `Masked` are the folding of an EQZ layer; `Folded`, `Inserted`, `OnesUpTo` and `ZerosUpTo` turn its bits into
positions. Here the arithmetic is the machine's: words modulo 2^w, bitwise and, xor and shifts.

**GraphSharing.** `Contribution` is the half that `benchmark_graph` gives a party. A party goes through `SendDims`/`RecvDims`,
`ShareColumn` for both halves, `JoinHalves` (`operator+`) and `RevealSend`, `RevealRecv`, `RevealAnswer` per
field. A share is a value and the number of the mask in it, so that a mask drawn for another value does not cancel.

**Storage.** `DealGate` fills the dealer's lists, `ShipList` sends them, `TakeCount` and `TakeBlock` are
`recv_vec`; `PrepareGate`, `EvaluateSend` and `EvaluateRecv` are the three walks of the party, each reading its chunk (`Chunk`,
`Behind`) or loading a triple (`LoadTriples`). `ResetParty` and `NextRepetition` are the end of a benchmark iteration.

**Exchange.** One value at a time goes through `Write` and `Read`, the two loops of TLSNetIO. `Begin`, `Sent`, `Received`
and `SkipLevel` are the loop over blocks in `online_communication`. `Stop` ends a process; its partner then writes into
nothing (`WriteLost`), is killed by SIGPIPE, which nobody ignores (`WriteKilled`), or reads the rest
and then the end (`ReadBroken`, where `error` of emp-tool exits). The buffer in front of a connection
holds a block, so only its flush meets the network.

**NetIOMP.** `Listen`, `Dial`, `Accept`, `Dialled` are the blocking steps of the constructors of TLSNetIO in the
order of `init_network`, to the addresses of the configuration (`Addressed`); `Establish` and `Notify` set the flag and wake the main thread; `Wait`, `EnterSync`, `Open`,
`Close`, `Answer` are the condition variable and the handshakes of `sync`.

**InputSharing.** `inbox` and `outbox` are the streams between a client and a server, `step` the position in the
loop a process is in. `Script` is what `send_graph` sends in order; `RecvNodes`, `RecvHeader`,
`RecvEntries`, `Merge` are `recv_graph` on P0 and P1, `RecvNodes` and `RecvSize` all that the dealer reads; `SendResult` and
`ClientRecv` are the way back. A ring element is named by client, entry and field, and the output of an
entry stands for itself. An exception that leaves `main` ends the server ("stopped"); the one that
`recv_graph` catches sets it "adrift", with an empty graph; what it would read after that is not
modelled. The syncs are steps of `Barrier`, which is sound because `NetIOMP` implements it.

**Gates, Circuit and Evaluation.** A builder returns the gates it appends, and wire w is driven by gate
w + 1, as `n_wires` and `gates.size()` advance together. The stages of `build` (`PreMp`, `SortSrc`, ...,
`OutputData`) are given the circuit so far, a record of its gates and the wires that later stages use. `AssignLevel` and `PlaceOutputs` are
`level_order`; `SendGate` handles one gate of `evaluate_send`, `Recv*` one of `evaluate_recv`, `Release` is the counting of
readers. A vector that was never written or was freed is empty, reading beyond the end of a vector leads to
the phase "undefined". The five EQZ layers are modelled by what `WordGates` shows them to compute together: the
value passes the first four and the last compares it with the complement of zero.

## 3. Runs

| Run | Instance | Question |
|---|---|---|
| `correlation` | all well-formed circuits of up to three gates from a menu of ten, two longer ones; vectors of length 2, two repetitions | do the three walks stay in step? |
| `gate` | three kinds of behaviours. Gates: vectors of length 3 over Z/4, all masks and permutations. Words: four bits, two EQZ layers, every pair of shares of the first difference. Graphs: one to four nodes, none to three edges | do the shares of a result add up? |
| `netiomp` | three servers and a client, three syncs | does everybody connect, is `sync` a barrier? |
| `graph` | ten configurations (BFS, BFS in input order with deduplication, BFS on three columns, PiM, PiK, PiR, depth 0, doubled updates, `apply` that returns what is fresh, `apply` that returns the change) on up to forty graphs of three nodes and two edges, modulus 16 | does the circuit compute message passing? |
| `exchange` | two kinds of behaviours. Levels: seven circuits of up to three levels in blocks of two, connections of two values, either party stopping anywhere. Lists: all plans of up to three gates, vectors of three in blocks of two, vectors or files at either server, two repetitions | does what travels in blocks arrive in place? |
| `input` | two clients with slices that fit in either order, overlap, leave a gap, are empty or wrap around | does the list arrive whole or not at all, and do the results return? |
| `silent_failure` | as the levels of `exchange`, reads may return -1 | finding, see below |
| `client_address`, `four_clients` | remote hosts; a fourth client | findings, see below |
| `clip_first`, `column_apart`, `self_loop` | one algorithm or input each | findings, see below |

The behaviours of a run with several kinds do not interact: the initial state chooses one kind, the variables of
the others stand still. Each kind answers the run's question for a part of the code.

Properties:

* `Aligned`: for every gate evaluated, the tokens a party used are those the dealer prepared for that
  gate and party. `PermsKnown`: no party reads a table entry nobody filled. `SharedMask`: both
  parties mask a constant vector with the same draw. `NoReuse`: no token serves two gates. `Consumed`: the
  list is used up when a repetition ends. `LevelsMatch`: the message a party takes is of the level it is in.
  `Termination`: all repetitions end.
* `Reconstructed`: the gate's function applied to the combined inputs is what the results combine to.
* `Ranked`: the positions that come out of comparison, conjunction and compaction are those of a stable sort. `SharedGraph`: the
  two halves become shares of one graph with the dimensions and the id bits it should have. `SameOpened`: both parties open it to the same fields.
* `Conserved`: what one party has sent and the other has not received is on the way, over all blocks and levels. `NeverStuck`:
  never are both parties blocked. `Whole`: the opened values are own and partner's value of the same gate.
  `ImplementsRounds` (refinement of `OpenRounds`), `Completes`.
* `ChunksInOrder`: each chunk a party reads is the one stored for that gate in that repetition. `TriplesKept`: so is
  each triple, at both loads.
* `PortsDistinct`, `UsesEstablished`, `NoStrayByte` (a sync byte never overtakes payload), `BarrierSpec`
  (refinement of `Barrier`), `Termination`.
* `Correct` (the output is message passing on the graph), `NoUndefined` (no read outside the life
  of a wire or beyond a vector), `HeldUntilRead` (no wire is freed while a gate is still to read it), `InPlaceExclusive` (EQZ overwrites only what nobody else reads),
  `LevelsSound`, `DealerCanServe` (the built circuit meets the assumption of `Correlation`), `RevealedOnce` (one public
  order per shuffle id).
* `Joined` (what `recv_graph` returns is the list that the slices make up, field by field),
  `SameDimensions` (of all servers that go on), `OwnResults`, `NobodyServed` (if the slices do not fit
  nobody passes the first sync), `Complete` (if they fit everybody is done in the end).
* One `TypeOK` per component.

*Slips.* Definitions named `Slip_...`, next to the definition they vary, are plausible mistakes in the
code: a missing guard, a cursor that does not wrap, one id for two things. With its slip in place of the
definition, each property above is violated in its run; `PROJECT.json` (`mutants`) says which slip belongs to which property.

*Bounds and why they suffice.* Hazards of the walks involve pairs of gates with one id, a merge
of two ids, and the alternation of turns: three gates reach every pair and every merge with its two
shuffles, the longer circuits add a second turn of each kind; the second repetition is where stale
cursors and tables show, a third starts from the same state. In `gate`, three is the shortest
vector whose permutations do not commute, Z/4 the smallest ring with a zero divisor; four bits have a layer that is first and one that is last, and differences with a
single bit in every place; one set of triples serves all levels, since
reuse is the subject of `NoReuse`; graphs give halves of equal and different size, an empty one, and ids of two and three bits. In `netiomp`, four processes are the least
in which two of them are neither first nor last, and a third sync can only overlap with the second. In `graph`,
two edges are enough for equal edges, paths, cycles, fans and (in one list) a self-loop; the lists mix the orders of nodes
and edges, ids leave gaps, and two rounds apply every switch to a state that differs from the input. Modulus 16 exceeds all
positions; sums wrap in it as they do modulo 2^32. Neighbouring shuffle ids have different permutations. In
`exchange`, levels of up to five values are empty, less than a block, a block, one or two with a rest; a connection that holds
just one block is the worst case that can work, since both parties send a block before either receives. The program's documentation asks for
such a connection (`src/README.md` 325-327: values sent at once are "to remain below TCP buffer sizes"). Three elements
in blocks of two put chunks across blocks and blocks across chunks; the second repetition meets files and cursors left by the first. In `input`,
two slices of up to two entries meet in every way: apart, touching, overlapping, one inside
the other, ending behind the list; two bits per id make a column differ from a row. Larger sizes are
where the proofs take over.

*Fairness.* In `Correlation` every server is weakly fair: each is one thread that runs until it waits
for a message; so is the sync that all leave together (`StartOnline \/ NextRep`). The same holds for
every process of `InputSharing`. In `NetIOMP` both threads of a process are weakly fair, and a dialler retries until
somebody listens. In `Exchange` each party's evaluator is weakly fair: one thread, which runs until a connection is full or empty;
`Stop` is not fair, nobody has to fail. Messages are not lost unless a process ends: the connections are TCP. `Evaluation`, `Storage`, `GateProtocol`,
`WordGates` and `GraphSharing` state no liveness; that they do not get stuck is TLC's deadlock check.

## 4. Findings

Each is a run that TLC ends with a counterexample; `PROJECT.json` quotes the documentation.

* `clip_first`: the first EQZ layer overwrites its operand in place, so `prepare` returning `clip(state)` corrupts the state
  that `apply` gets.
* `column_apart`: `ColumnSumsToNodes` reads all columns but is levelled behind the last one only; columns with different computations
  are summed before they are there.
* `self_loop`: with deduplication, a node next to a self-loop on it counts as its duplicate.
* `four_clients`: `end_idx` has a place per server, not per client; the fourth client's is behind its end.
* `silent_failure`: a failed read (-1) is kept in a `size_t`, so the party goes on as if everything had arrived.
* `client_address`: the address list is cut to the three servers, yet servers dial clients by their index.

Also seen, without a run of their own: `clip` sets the entries of edges to 1, and an algorithm that clips inside message passing passes these
ones on; a slice without entries is provided for when it is read and asserted away when it is joined (`NobodyServed` covers that nobody goes on);
an offset such as -1 makes P0 and P1 stop with an empty graph while the dealer has the sum of the sizes; `operator+` drops the left graph if the right
one is empty, which only a benchmark of two empty halves can meet.

The algorithms shipped in `algorithms/` meet neither of the first two: they clip in `post_mp` only and treat
all columns alike.

## 5. Proofs

All for every value of the constants.

* `GateProtocol_proof`, `Reconstruction`. Assumed of the ring: plus is a commutative group, times
  distributes over it and is commutative, with zero and one (`RingAssumption` in the module). The invariant ties every
  mask the dealer sent to those it drew; the message of a party is its share plus a
  mask, so in the result the masks cancel (`MasksCancel`, `TripleCancels`), and the positions agree because the
  dealer's four permutations do (`QuadAgrees`, `MergedAgrees`). They rest on the laws of `Permutations`: a permutation and its
  inverse cancel on either side, composition acts as applying one after the other, a merge undoes one and applies the other, and
  the two applications undo each other.
* `NetIOMP_proof`, `SyncIsBarrier`. The invariant counts handshakes: on each connection the listener has
  opened as many as the dialler has answered plus the bytes in flight to it, and likewise back. A process can only be in its
  k-th handshake with a peer that has entered k syncs, which is the guard of `Barrier!Leave`. `NoStrays` follows from the
  same counts; `PortsApart` is arithmetic on the pair's number; `EstablishedFirst` needs
  that a process behind its init thread has all connections up.
* `Exchange_proof`, `TypeCorrect`, `StreamsAligned`, `NoDeadlock`. Assumed: a connection holds at least a block
  (`CapacityAssumption`), and `Before` is the prefix sum of a circuit's levels. The invariant is `TypeOK /\ InBlock /\ Conserved`: the
  position of a party in the stream is what the levels before hold, plus its offset, plus what of the block is through. A
  party that cannot write has sent less than a block more than it received, one that has nothing to read has sent more than
  it received. By `Conserved` both differences together are what is on the way, which is two blocks at least if both write and
  nothing if both read; and if one of each waits, the same connection is full and empty.
* `Exchange_proof`, `RoundsImplemented` and `NothingInvented`. Assumed besides: a read of a broken connection returns
  0 (`CleanEnd`); `silent_failure` shows what happens otherwise. The invariant `InStep` says of every running party, also after its partner's end,
  that what it has not received is on the way (`Balanced`), and that each value on the way or received is the one of its place in the
  stream (`OnTheWay`, `Taken`); a place belongs to one level only (`PlaceOfValue`). So a party that has received its level has received what its
  partner sent for it, and the partner is in that level or beyond (`PartnerIsIn`): the guard of `OpenRounds!Leave`.
* `Correlation_proof`, `TypeCorrect` and `LevelsAgree`. `TypeOK` alone is not inductive: that the gate a server is at exists needs
  `Bounds`, which puts the dealer one behind its last snapshot and keeps the parties inside the circuit (`TInv`). For the levels `CInv`
  follows the phases of a party, and the counts: what a party received lies behind what its partner sent, and the levels on the way are
  those between.
* `Correlation_proof`, second part: the dealer alone. `History` gives, for every snapshot, what the gate before it did to the one before that; nothing that was
  dealt changes afterwards, and every permutation id is sampled once. On it stands where a party is (`PlaceInv`).
* `Alignment_proof`, `AlignedAlways`, `PermsKnownAlways`, `SharedMaskAlways`, `ConsumedAlways`, `NoReuseAlways`: for every circuit that is well
  formed, every number of repetitions and both storage modes. The invariant `PartyInv` says that at the gate it is at,
  a party's generator cursors, its tables and its place in the list are those of the dealer's snapshot for that gate; in the evaluation there
  are two such places, one for what it sends and one for what it receives. A step of a party for a gate then does to its cursors what the
  dealer's did to the snapshot (`History`), whichever of the branches it is. `NoReuse` has an invariant of its own: every draw has a gate
  it was made for, and lies in the interval of the generator that belongs to this gate; the intervals do not overlap, for the cursors only grow.
* `Evaluation_proof`, `LevelOrder`. While levels are assigned, the operands of the gates done are done and
  in time, and all levels are at most `depth`; moving the outputs to `depth` moves nothing that is read
  (`WellWired`).
* `Evaluation_proof`, second part: `HeldAlways`, `InPlaceAlways`, `UndefinedReads`, `BookkeepingAlways`. Assumed of the circuit: it is well wired
  (`ProgramsAssumption`) and the sizes of a gate's operands are those it reads (`FittingAssumption`); TLC evaluates both for the circuits of the run.
  The invariant `EvalInv` says of every wire that its count is at least the number of reads to come (`Still`), which lets `update_wire` free it
  behind the last of them only, and that a wire which is written and still to be read has as many entries as it should (`Keeps`). The opened vectors
  hold the values of the gates of the level, each at the place that the sizes of those before it add up to (`Spread`), so a cursor meets what is its
  gate's, stays inside, and is back at 0 when the level ends, although nothing resets it. `Alone`, that the operand of a comparison has a count of 1,
  needs that nothing else reads it: `InPlaceAlways` has this (`EqzAlone`) as its hypothesis, TLC checks it for the circuits of the run
  (`ComparedAlone`), and `clip_first` shows one that lacks it. `UndefinedReads` names the two reads that no count protects: those of
  `ColumnSumsToNodes` (`column_apart`), and a gather or scatter by values that are no positions. That the values are positions is what `Correct` and
  `NoUndefined` add for the circuits of the run.
* `Evaluation_proof`, third part: `TypesAlways`, the type invariant of the evaluation. It rests on `EvalInv`: only because a wire that is still to be
  read is held does every gate compute from ring elements. The strengthening `DataInv` gives each wire the cells that its gate writes (`Room`: the vector of
  an `Insert` is one longer), the opened vectors and the output ring elements, and the graph and permutations to the values that were given.
  What each gate type computes stays in the ring (`MessageType`, `ResultType`, `UnaryType`, `BinaryType`); prefix sums, a recursive function over the data, are
  reasoned about by their smallest counterexample (`AddsExist`, `AddsType`). Assumed: the graphs hold ring elements
  (`GraphsAssumption`), each shuffle id has a permutation (`SecretsAssumption`), and of the circuit, in `FittingAssumption`, that no vector is extended twice and
  columns are wires created before; TLC evaluates all of them for the run.
* `InputSharing_proof`, `InputTypes`, `JoinedAlways`, `SameDimensionsAlways`, `OwnResultsAlways`, `NobodyServedAlways`: for any number of
  clients, any width of a node id and all slices whose numbers fit a `size_t` (`InputAssumption`). The invariant `IInv` follows the data once
  around. `Streams`: what is on the way from a client to a server are the words of its `Script` between those taken and those sent, so that a
  server which reads by position gets what the client meant (`ReadWords`), and an end that wrapped around is seen to lie before the start
  (`WrapOnce`). `Counted` and `Packed`: the sums and the packets are those of the clients visited so far. `Merged`: `recv_graph` found nothing to
  refuse, so each cell has one writer, and `PositionOf` finds in its packet the word that `Serialize` put there (`ReadBack`, `FitTogether`).
  `Returned`: a result is on its way, or at the client, or not sent yet. `Barred`: nobody leaves a sync that P0 has not entered, and P0 enters
  with a list that fits. What a loop adds up (`Upto`) is a recursive function; induction on it is by its smallest counterexample (`Smallest`).
  With a fourth client P0 and P1 end up behind `end_idx` (`four_clients`): the theorems then speak of what happens until there.

* `Storage_proof`, `ReadsWhatWasStored` and `LoadsWhatWasStored`: for any plan of gates, block size and number of repetitions, whichever of
  dealer and party keeps files. Assumed: blocks are not empty, and a gate without a triple stores a whole vector (`StorageAssumption`). A list is
  `Laid` out in chunks, each at a place of its own: the dealer's two lists are while they grow (`LaidNext`), their concatenation is (`LaidJoin`), and
  what has come followed by what is under way is, however the blocks fall (`FirstBlock`). The invariant `StorageInv` says that the cursor of the
  party is at the place of the chunk that its walk comes to, the preparation walking over the first half of the list and the online
  phase over the second, so that what lies behind it is that chunk (`ReadChunk`); and that the triples of the gates behind the walk
  are stored in this repetition, as three vectors or one file.

* `InputSharing_proof`, second part: `SharedGraphAlways` and `SameOpenedAlways`, about `GraphSharing`, for graphs of any number of nodes and
  edges (`ConfAssumption`: a node at least, and an entry per node). The invariant `SharingInv` is one of places: all that a party has follows from where
  it is (`InPlace`), what is on the way from where both are (`Toward0`, `Toward1`), and the two places fit (`Together`). A mask has as its number what
  was drawn before its column (`DrawnBefore`), which owner and receiver of a half count alike as soon as the receiver knows the half's
  dimensions; so the two shares of a column open without a mask (`ColumnOpens`). The rest is about the list: the halves have all nodes and edges between
  them (`HalfCounts`, `ListHasAll`), the second is never empty, which is what `operator+` needs, and there are enough bits for
  every id (`EnoughBits`, from the powers of two as a recursive function).

Only model-checked: liveness (fairness is beyond these proofs), hence `Complete`, `Completes` and both `Termination`s; `Ranked` (the bitwise
operations are recursive definitions, out of the prover's reach); and of `GraphAlgorithm` `Correct`, `NoUndefined` as such,
and what `Circuit::build` makes of its ids (`DealerCanServe`, `RevealedOnce`): these speak of builders and folds over the data, which TLC
evaluates for the configurations of the run. Of the recursive functions over the data only the sums of `InputSharing`, the powers of two and the range
of prefix sums are proved about; message passing is evaluated.

## 6. Not modelled

* The parsing of graph files, and the masks that a client subtracts from its own slice (`secret_share`): pure functions of the input.
* The parsing of options and the construction of objects, statistics, formatting, the TLS handshake and the traffic counters:
  nothing that is computed depends on them.
* A restart: a process that fails is gone, the code neither saves a state to resume from nor reconnects. Failures of a process are
  modelled where the code meets them with a decision, in `Exchange` and in `InputSharing`; the files of Storage are removed at the end and never read by
  another run.
* The sharing variants that only tests use (`random_share_secret_vec_2P_bin`, sharing of permutations) and the scalar gate types that no circuit creates.
* Secrecy, except for `RevealedOnce` and `NoReuse`, which are properties of runs. The sums of a BFS over 2^32 paths: `Correct`
  compares with a reference that wraps around as well.

## 7. Plan

Done, in this order: `Correlation` (the core: everything else is wrong if it is), `Permutations` and
`GateProtocol`, `NetIOMP` over `Barrier`, `Gates` and `Circuit`, `Evaluation`, `GraphAlgorithm`, `InputSharing`, `Exchange` over
`OpenRounds`, `WordGates`, `GraphSharing`, `Storage`, and the proofs of section 5.

Next:

1. Proofs: that the check for missing entries in `recv_graph` never fires (slices in bounds that do not overlap and have the
   list's size in total leave no gap); that the positions of a sort are positions, which would turn `UndefinedReads` into `NoUndefined`.
2. The joined graph of `InputSharing` as the input of `Evaluation`: a system whose clients get the results of message passing.
