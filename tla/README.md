# Verification of secure-msf

secure-msf computes a minimum spanning forest of a graph whose edges are split
between two parties, who learn no more about each other's edges than the
protocol opens. The program is `src/examples/msf`, on top of a fork of the ABY
framework for two-party computation (`src/abycore`) with a new mode that reads
precomputed multiplication triples from a file.

This directory holds TLA+ specifications of its core, the instances TLC checks,
and proofs that TLAPS checks.

## 1. The system and what can go wrong in it

| Component | State | Operations | Talks to |
|---|---|---|---|
| MSF phase 1 (`msf.cpp`) | `par`, `component`, `adj`, `needRecomputing`, `weightVertices`, `needReconnecting`, `subgraphs` | `recomputeWeights`, `reconnect`, `merge`, the round loop of `msf` | both parties run it on equal public state and private `adj`; calls the circuits |
| Connectivity circuit (`msf.cpp`) | bits `matrix`, the read-out's `done`, `res` | `populateConnectivityData`, `CreateConnectivityCircuit`, `FinishConnectivity` | called by `reconnect`, its result decides what is merged |
| Spanning-tree circuit (`msf.cpp`) | shares `u`, `a`, `s`, per round `g`, `r` | `CreateRandIntCircuit`, `CreatePrefixSumCircuit`, `CreateSubgraphCircuit`, `findSubgraphMSFs` | phase 2, on the subgraphs phase 1 kept |
| ABYParty (`abyparty.cpp`) | `m_nWorkingThreads`, `m_evt`, workers' `m_evt`, `m_eJob`, `m_nDepth` | `ExecCircuit`, `EvaluateCircuit`, `PerformInteraction`, `WakeupWorkerThreads`, `WaitWorkerThreads`, `ThreadNotifyTaskDone`, `ThreadMain`, `Cleanup` | two workers of its own, the peer's through one channel |
| ABYSetup (`abysetup.cpp`) | OT task queues, send and receive task, share of triples, `m_nWorkingThreads`, jobs | base OTs, OT extension, homomorphic triples, transfer of garbled circuits, `Reset` | sharings add tasks, ABYParty's main thread runs them on `2 * numOTThreads` threads |
| Triple file (`boolsharing.cpp`) | file, remaining bytes, three positions, decision to revert | `storeTriplesToFile`, `readFileMetadata`, `PreComputationPhase` | genots processes write, later processes read |
| Circuits (`circuit/`) | gates with depth, use counts, queues per layer, counts of ANDs, tables, conversions and inputs | gate constructors, and the arithmetic, comparison and selection circuits built from them | read by the sharings |
| BoolSharing | triples, tables, openings and shares of a layer | setup, local, SIMD and interactive gates, layers, `Reset` | ABYParty, layer by layer; reads gates of Yao |
| ArithSharing | triples, queues of conversions | the same on numbers, and bits into numbers over two layers | reads gates of Boolean and Yao |
| YaoServerSharing, YaoClientSharing | wire keys, permutation bits, garbled tables, key and choice counters | garbling in the setup phase; key transfer, evaluation, outputs | two objects, in one of which roles are switched; read gates of all sharings |
| SetupLUT (`splut.cpp`) | OT masks and choices, tables of a layer, stash | tables shared by 1-out-of-N OT, the parties taking turns | as BoolSharing |
| Timers, PSI and other examples, tests | | | not part of the program |

The `msf` program itself evaluates in `S_BOOL` only; the other sharings are part of
the framework and of the same layers.

What is hard in it, and where (the full list with lines is in `PROJECT.json`,
"hazards"):

* **Stale state in phase 1.** Clusters are looked at only when something about
  them changed: a weight is asked for only after the cluster's own merge,
  connectivity is tested only for weights whose set of clusters grew, several
  components opened by one circuit are merged one after the other, and at the
  end of `reconnect` further weights are merged with no circuit at all. Each of
  these is right only because of a global argument about the other clusters.
* **Bit-level algorithms in circuits.** Reachability is closed in one pass per
  node; the random spanning tree is drawn by prefix sums in arrays rewritten in
  place, with a rejection sampler that may fail.
* **Threads.** A counter set without the lock that guards it, one event used for
  two purposes, an event raised after the lock is released, a party that may be
  a layer ahead on the same channel; in the setup phase one send task that the
  main thread refills, task queues whose roles are swapped at one party, and two
  garbled circuits that cross on one channel.
* **Layers and uses.** Gates are evaluated in layers that two parties walk
  through by themselves, with only bytes between them. Triples, tables, keys and
  openings are found by running indices that skip to bytes and start over, a gate
  is freed when a counter of its uses says so, and Reset must leave nothing behind.
* **Exchanges longer than a layer.** Conversions and keys are asked for in one
  layer and answered in the next, while that layer's own questions are under way;
  what SPLUT may not send in a layer is stashed for the next one. The garbler makes
  keys again, from counters, long after it garbled with them.
* **Circuits at odd widths.** Adders, comparisons and shifts are built as trees and
  by tables, with levels and groups that are cut off where a width is no power of
  two.
* **Two parties that decide alone.** Each decides by its own triple file whether
  to read or to run an OT that takes both; files are appended to, and a process
  may die while it stores.

Correctness of each component: phase 1 ends with a forest that is a minimum
spanning forest, its bookkeeping never stale, never stuck; the circuits compute
connectivity and a spanning tree, edges drawn evenly; the threads lose no
wake-up, share no buffer, mix no layers and no transfers, and end; the sharings
compute what the circuit says, give each party its outputs and free nothing too
early; the builders' circuits compute their function; both parties evaluate on
matching triples and use none twice.

## 2. Modules

| Module | Models | Extends / instantiates |
|---|---|---|
| `MsfContraction` | abstract specification of phases 1 and 2: contract closed, lightest-connected sets of clusters; draw a tree of each | |
| `Closure` | connected components as least closed sets | |
| `Msf` | phase 1 in full, phase 2 by its result | `Closure`; `Contraction == INSTANCE MsfContraction WITH ...` |
| `MsfInvariant` | the inductive invariants of `Msf`: of the bookkeeping, and of the subgraphs that wait and the edges drawn, why the result is a minimum spanning forest | `Msf` |
| `MsfProofs` | the proofs of both invariants, and that `Msf` takes no step that `MsfContraction` does not allow | `MsfInvariant` |
| `ConnectivityCircuit` | the circuit and the read-out that `Msf!IsolatedComponents` abstracts | `Closure` |
| `ConnectivityProofs` | proofs for every number of clusters | `ConnectivityCircuit` |
| `SubgraphMsf` | the circuit that `Msf!SpanningTrees` abstracts | |
| `SubgraphInvariant` | its inductive invariant | `SubgraphMsf` |
| `SubgraphProofs` | proofs for every number of clusters and tries | `SubgraphInvariant` |
| `PartyThreads` | main, worker and sending threads of both parties in the online phase | |
| `PartyThreadsProofs` | its proof | `PartyThreads` |
| `SetupThreads` | the same in the setup phase: jobs, OT tasks, homomorphic triples, transfers | |
| `SetupInvariant` | its inductive invariant | `SetupThreads` |
| `SetupProofs` | proofs for every number of threads, every kind of triples and all circuits | `SetupInvariant` |
| `TriplePool` | triple file, store, read, revert, across processes and crashes | |
| `TriplePoolInvariant` | its inductive invariant | `TriplePool` |
| `TriplePoolProofs` | its proof | `TriplePoolInvariant` |
| `GateValues` | what gates do to bits; loops as folds | |
| `AbyCircuit` | a circuit, and what setup is to prepare for it | `GateValues` |
| `CircuitBuilder` | the constructors of the gates of all sharings: depths, queues, use counts | `AbyCircuit` |
| `CircuitShape` | what holds of every circuit that is made with them | `AbyCircuit` |
| `GateStore` | the gates of a circuit under evaluation: values, uses, release | `AbyCircuit` |
| `ClearValues` | what a circuit computes in the clear, and its inputs | `GateStore` |
| `BoolSharing`, `ArithSharing`, `SetupLUT` | one sharing at one party | `GateStore` |
| `YaoSharing`, `YaoServerSharing`, `YaoClientSharing` | keys; the garbler; the evaluator | `GateStore`; `YaoSharing` |
| `AbyLayers` | both parties through setup, layers, Reset and the next circuit, with all five sharings on one channel | `ClearValues`, `CircuitShape`; an instance of every sharing; `Ideal == INSTANCE IdealCircuit WITH ...` |
| `AbyInvariant` | its inductive invariant | `AbyLayers` |
| `Folding` | induction over the loops of the sharings | |
| `AbyProofs` | proofs for every workload of circuits | `AbyInvariant`; an instance of `Folding` for each loop |
| `IdealCircuit` | abstract specification of the evaluation of circuits: a trusted party | |
| `LutTables` | the tables of `ABYconstants.h` | |
| `BooleanBuilders` | the circuits of `booleancircuits.cpp` for arithmetic, comparison and selection | `GateValues`, `LutTables` |
| `BuilderChecks` | each of them against arithmetic | `BooleanBuilders` |
| `MC...` | instances for TLC | the module of the name |

### How the modules follow the code

**Msf.** The globals of `msf.cpp` that are computed from opened values are the
same at both parties and appear once; `adj` and the entries of subgraphs are per
party. `weightVertices` is a function on all weights, an absent key being `{}`;
`subgraphs`, a map by size in the code, is a sequence in order of merging. One
action is one step of the control: `RecomputeWeights` (the whole of
`recomputeWeights`), `Reconnect` (filter, circuit, opening), `MergeIsolated` (one
turn of the merge loop, `merge` included), `AllMerged`, `MergeChain` (one turn of
the last loop), `ChainDone`, `FindSubgraphMSFs`, `ReadSubgraph`, `Finish`. Sets of
edges are ordered by `Edge::operator<` where the code looks at the front of a
`std::set`. Equal edges of the two parties are different edges of the graph with
the same ends and weight. Not modelled: loops `u = u` in the input (the generator
makes none), SIMD lanes, and the leak of memory when subgraphs are rebuilt.

**ConnectivityCircuit.** `AddNode` is one turn of the outer loop with both inner
ones; `matrix[a]` is the set of nodes whose bit with `a` is set, so that
`matrix[max][min]` is looked up from either side. The read-out is a step per node.
`IsolatedComponents` of `Msf` is what `ComponentsRight` says of it.

**SubgraphMsf.** `Draw` is one of the k-1 rounds: the prefix sums, the random
number (`MuxTree`, `Padded`, `RandInt`), the slot it falls on (`Falls`), and the
update of labels, counts and selected indices. Additions are modulo `Modulus`, 2 to
the `edgecount_bitlen`. The loops that halve a list of wires and that add up counts
are recursive functions over lists and slots, so that they can be proved about.
`TreeComplete` and `LabelsAreComponents` are what `SpanningTrees` of `Msf` takes
from it.

**PartyThreads.** A program counter per thread, cut where another thread can see
the difference: the unlocked write of the counter, each `PutJob`, each locked
read, the wait, the job's buffers, the locked decrement, and the event raised
after it. `CEvent`, the sending thread and the channel are not in `src/` (empty
submodules); they are modelled from their use and marked external.

**TriplePool.** A file is a sequence of cells, a byte of shares or one of the two
numbers in front of a batch. `GenOTs` is a genots process of both parties (the
driver `run_msf.py` removes the dump on its own machine, or not), each party's
store ends whole or after any prefix. A later process reads the metadata, decides
circuit by circuit, reads three regions or runs the OT with its peer, and
evaluates. Only one AND size is modelled, the only one that the read mode accepts.

**SetupThreads.** A main thread has the list of what it has yet to call in this
`ExecCircuit` (`calls`): at first the base OTs; `PrepareSharings` begins the next
circuit with what the sharings' `PerformSetupPhase` and `FinishSetupPhase` lead to,
the wake-ups and waits of `AddSendTask` and `AddReceiveTask` included. `Garble` is
one turn of garbling, an AND gate or the end, and puts the transfer of a full window
before what is left. Behind the AND tables come, each as a transfer
of its own, the tables of the UNIV gates and the output bits, as far as there are any; a
sharing whose circuit has no layer has no task at all. Each call is an action, cut as in `PartyThreads`. OTs and the exchange of ciphertexts take a thread of each party
and are one step of both; `IKNPOTs` takes the next task of each, whoever added it.
The channel is a stream, of which `ReceiveData` takes as much as its task says;
its elements name the table or output they are, for the properties alone. Left
out: the KK-OT jobs (not compiled) and pipelined garbling.

**AbyCircuit, CircuitBuilder.** A circuit is a record: the gates of `m_vGates`, of every sharing the
local and interactive queues by layer and the greatest depth, `m_vANDs`, and
`m_vTTlens` as the list of tables with their layers. The Put operators are the
constructors, `InitNonLinGate`, `MarkGateAsUsed` and the rest included.
`WellFormed` of `CircuitShape` says what the evaluation relies on: parents before
their gates, every gate once in the queue of its layer, in the order of ids, and the
counts of ANDs those of the gates. `WorkloadsAssumption` of `AbyLayers` asks it of
every circuit, and, as `UsesConversions`, that a number made of bits is used by a
gate of some later layer or followed by one: a circuit that ends with such a
conversion is left before its second round, which the assertion in `Reset` would
report. TLC evaluates the assumption on all circuits of the runs.

**GateStore, the sharings and AbyLayers.** A party's record `share` has what it
keeps in the gates (`val`, `nused`, `instantiated` as `live`) and a member for each
sharing (`bool`, `arith`, `yao`, `lut`) with the fields of the class. The
operators of a sharing's module on that record are the methods of the same names.
`AbyLayers` runs them as `ABYParty` does: `PerformSetupPhase`; in each layer
`Evaluate` (all sharings in the order of `m_vSharings`, local gates before
interactive ones), `ThreadSendValues`, `ThreadReceiveValues`, `FinishCircuitLayer`;
then `Synchronize` and `Reset`. The threads' protocol is that of `PartyThreads`,
and here only the two jobs. The wire is a stream of packets, one for each
sharing that has bytes to send; the receiver takes as many as it awaits, and a
packet that is not of the awaited sharing and sizes leaves it stuck. The number
of the layer in a packet is for `BuffersAgree` alone. When a gate is freed the
record keeps its value, and `stale` says that it was read again.

The loops over gates, inputs, tables and sharings are `Through` of `GateValues`, a
fold whose steps TLC evaluates once each and about which `Folding` proves an
induction. `GateValues` defines the three operators it needs of the community
modules itself, as every module of proofs would otherwise take in all of them
with each instance of a sharing.

Cryptography is its algebra. Random bits come from the constant `Flip`, a fixed
table without visible pattern, for two seeds; the properties are identities in
them. OTs give the receiver one of the sender's strings. In Yao a key is a few
bits, the hash `EncryptWire` is some function of key and index, tables are half
gates, and what the evaluator holds must be one of the wire's two keys. An
arithmetic share has two bits. Left out: bits that byte-wise operations carry
beyond a gate's own, repeaters of several bits (the code says "only meant for
single bit values"), callbacks, PRINT and ASSERT gates, gates from files, shared
inputs and structurised combiners in Yao (the code asserts or ignores them), and
the triples of the KK extension (not compiled).

**BooleanBuilders.** A wire is the sequence of its values, a number the sequence
of its wires. Every operator is the builder of the same name with its loops,
splits and paddings, put together from gates that compute on the clear values; how
gates are evaluated on shares is the other modules' question. The switch on the
sharing (fewest gates for Yao, fewest layers for Boolean, tables for SPLUT) is
`context`.

## 3. What is checked

| Run | Question | Bounds |
|---|---|---|
| `complete4` | is the bookkeeping of phase 1 right in every state? (types, `PartitionOK`, `AdjOK`, `WeightsCurrent`, `ClustersAccounted`, `OpenedStillIsolated`, `EveryRoundMerges`, `SubgraphsSound`, `NothingDropped`), and is the result a minimum spanning forest, with no edge at both parties (`ResultIsMsf`)? | all graphs on 4 vertices, 2 weights, either owner for each edge, at most one edge at both |
| `cycle7` | does the protocol end, and is every step a legal contraction? (`Termination`, `ImplementsContraction`) | a cycle of 7 under two splits, 3 weights on six of its edges, the middle one on the last |
| `connectivity3` | `MatrixIsConnectivity`, `ComponentsRight` | 3 clusters and the outside node, every set of links at either or both parties |
| `subgraph3` | `IndicesValid`, `LabelsAreComponents`, `TreeComplete`, `DrawsEveryEdgeOnce`, `RandIntFair` | 3 clusters, up to 2 parallel edges per party and pair, all random inputs, 2 tries |
| `threads2` | `BuffersNotShared`, `CounterExact`, `WokenBySendOnly`, `ReceivesOwnLayer`, `BothFinish` | 2 layers, five patterns of messages, a wire for one |
| `setup` | do jobs, OT tasks and transfers of the setup phase meet, and does it end? (`TasksNotShared`, `OTsPaired`, `ReceivesItsData`, `TriplesDivided`, `SetupEnds`) | 2 threads per party, a circuit with every kind of work and 5 multiplications, one with a part of it (its reversed Yao sharing has UNIV tables alone); a window of 2 tables |
| `pool` | `TriplesMatch`, `NoTripleTwice`, `ProcessesEnd` | 2 genots processes of 2 bytes, a crash after any cell, dumps removed or not, then 2 circuits of needs 1+1, 0+2, 3+1, 1+2 |
| `poolcount` | `TriplesAlwaysMatch` (violated) | 1 batch, no crash |
| `builders` | does every circuit compute its function? (`BuildersCompute`) | 23 builders in the sharings they are for; thirteen of them in all three sharings on all inputs up to width 4, sums with carry, differences and comparisons on six chosen operands each up to width 24, the others on the widths in `MCBuilderChecks` |
| `evaluation` | does the evaluation implement a trusted party, with nothing freed early, mixed up or missing? (`TypeOK`, `SharesOpen`, `NoUseAfterFree`, `PreparedSuffices`, `BuffersAgree`, `ConversionsAreThrough`, `ImplementsIdeal`) | eight processes of one to three circuits of up to 14 gates, all inputs, 2 seeds |
| `evaluationreset` | `ResetAllowsNextCircuit` (violated) | a circuit with tables, then one without |
| `evaluationoutputs` | `OutputsAreClear` (violated) | one garbled circuit with two outputs |

Why the bounds are enough to be interesting. Four vertices with two weights give
components of two and three clusters, several in one circuit, and edges that
become internal through another's merge; of most of these graphs there are many
spanning trees, of which those of least weight have to be told from the others
across every split between the parties, and an edge that both have may be selected
at one of them only. A cycle of seven has room for one run of the circuit to open
two components and for the chain loop to run after it, which four vertices have
not; its vertex numbers are scrambled, and which edge the result leaves out
depends on the weighting. Equal weights make ties, and the graphs of four vertices
without an edge between some have forests of several trees. Three clusters
and the outside node are the least where the order in which nodes join matters to reachability. Three clusters
give two rounds of the tree circuit, so labels, counts and indices of a first
round are used by a second, and two tries leave room for both to fail. Two layers
let one party be ahead by one; being ahead by two needs the peer's message. In
`setup`, four tables of uneven gates fill the window once and leave a rest, the
multiplications are odd, the tasks of both roles are in both queues, and the
second circuit meets whatever the first leaves. The
pool has a batch that can be exactly used up, overrun, and cut at any place. The
circuits of `evaluation` have every kind of gate of every sharing; two layers of
ANDs so that an index has skipped to a byte, a gate that is both inputs of another,
vectors of two sizes, a table put late for an early layer, a layer in which one
party awaits nothing and runs ahead; conversions of bits to numbers in two
successive layers, so that an answer and a question cross; every conversion
between sharings; keys asked for in one layer and used in the next; tables of SPLUT
in layers of either sender with outputs between them; and processes of several
circuits. The builders' widths include those that are no power of two, and chosen
operands have the longest carries.

Fairness. `Msf` and `MsfContraction` have weak fairness of the next-state
relation: a sequential program that both parties run to its end. `PartyThreads`
and `SetupThreads` have it for every thread: the code never sleeps with an enabled
step, and the operating system schedules every thread. `TriplePool` has it for each
party's steps and for those that both take together. `AbyLayers` states no
fairness: its only step that can repeat forever is `Exit`, which needs every
circuit to be through, so that the check for deadlock shows that every process
comes to its end.

Deadlock is checked except where the system stops: in `setup` when all circuits are
through (that nothing stops before is `SetupEnds`), in `builders` when a circuit is
built, in `evaluationreset` (a crash) and `evaluationoutputs`, and in the pool runs:
parties whose dumps begin with different batches may wait for each other, which is
what `ProcessesEnd` excludes for equal beginnings.

Every property is also checked to fail under a plausible bug: a mutant operator
stands next to the definition it changes ("Mutant: ..."), and `PROJECT.json`
lists which property notices it.

### Findings

`poolcount`: `m_remainingAndBytes` is the size of the stored batch, compared with
each circuit's need (`boolsharing.cpp:1813`) and called "unconsumed bytes
remaining" in the message (`:1814`), but nothing decreases it when triples are
read. A process whose circuits each fit, but not together, reads on into the
regions of B and C and evaluates later circuits on bytes that are no triples,
without falling back. `msf` runs many circuits per process. The `pool` run shows
what is right nevertheless: up to the size of the batch, triples match.

`evaluationreset`: `BoolSharing::Reset` deletes the data of the tables but not the
keys of `m_vOPLUTGates`; the first layer of the next circuit goes through all keys
(`boolsharing.cpp:1138`) and, if that circuit has no table of a kind, dereferences
the null pointer that `operator[]` of `m_vOP_LUT_data` has just inserted. What is
read is used only if the layer has tables, so that an optimiser may drop the read;
the model has both outcomes. `sharing.h:62` describes circuits run in a loop with
Reset. The `msf` program has no tables and is not affected; circuits with the same
kinds of tables are not, either, as `evaluation` shows.

`evaluationoutputs`: the garbler sends the permutation bits of the evaluator's
outputs in the order in which the outputs were put (`yaoserversharing.cpp:790`),
the evaluator takes them in the order in which it evaluates them, layer by layer
(`yaoclientsharing.cpp:436`). If an output of an earlier layer is put after one
of a later layer, each is opened with the other's bits. The circuits of
`evaluation` put their outputs in the order of their layers.

A stale comment: `booleancircuits.cpp:998` says of `PutDepthOptimizedAddGate` "there is a
bug when adding 3 and 1 as two 2-bit numbers and expecting a carry". `builders` has
this sum ("add carry" in BOOL and "add vector", width 2, all operands), and it is
right: bit 1 has carry `c1 XOR (p1 AND c0) = 1` with `c0 = 1` and `p1 = 1`, so that the
sum is 4. So are the sums with carry of all other widths checked; the comment
describes an earlier version of the circuit, of which `:1034` keeps a line. Only the
adder by tables is wrong for two bits (below), and that is another function.

Seen while modelling, and left out of the runs that pass, because the code does
something else there than its callers mean:

* `splut.cpp:1287`: the bytes of SPLUT's stash come after those of other sharings,
  and the receiver takes them in the other order. With ANDs in BOOL and tables in
  SPLUT on the same layers `BuffersAgree` is violated.
* `yaoserversharing.cpp:307`, `:456`, `:519`: `m_vServerInputKeys` is indexed by a
  counter that conversions advance, too.
* `sharing.cpp:206`: outputs of `S_YAO_REV` are asked for by the switched role;
  `booleancircuits.cpp`: conversions to Yao are always put into `S_YAO`, and
  BoolSharing's conversion asserts `S_YAO` although `PutA2BGate` takes `S_YAO_REV`.
* `PutYSwitchRolesGate` of an input gate overwrites the permutation bits of its
  parent; the Yao sharings ignore PERM and STRUCT_COMBINE gates; the counter of
  client input keys and the queue of received keys survive Reset.
* `booleancircuits.cpp:1658`: a comparison by tables whose last group holds one
  pair (17 to 20 bits) reads before the first row; `ABYconstants.h:413`: the row
  for two-bit additions is of another operation; `:3172`: right shifts for widths
  that are no power of two; `:3023`: the conversion to
  floating point (read, not modelled), which counts one bit; `:1535`: a
  comparison in `S_YAO_REV` takes the circuit of no sharing.
* `booleancircuits.cpp:3164`: the shifter cuts the vector of the shift amount to
  `n_size` wires (`:3150`) and then begins with the wire at index `n_size`, past its
  end. The read is undefined. If the caller gave more wires, what stands there is in
  practice the next of them, which gives the shift asked for; if not, it is whatever
  follows in memory, possibly no wire at all. `builders` lets it be any wire and shows
  that the shift is by the low bits of the amount plus that wire as the highest bit;
  it does not show that this is the amount asked for.
* SPLUT's combiner does not count as a use of its inputs, which are then never
  freed.

## 4. What is proved

TLAPS checks these for every value of the constants under the modules' named
assumptions (`MsfAssumption`, `ConnectivityAssumption`, `SubgraphAssumption`,
`ThreadsAssumption`, `SetupAssumption`, `PoolAssumption`, `WorkloadsAssumption`: sizes are naturals, inputs have the types of
the code's inputs; the inputs of a spanning-tree circuit are connected, which is
`SubgraphsSound` of `Msf`, and their sum does not overflow; a Yao sharing whose
circuit has no layers has no gates; the circuits of a
workload are as their constructors make them).

* **MsfProofs**: `IInv` of `MsfInvariant` is an invariant, and with it `TypeOK`,
  `PartitionOK`, `AdjOK`, `WeightsCurrent`, `ClustersAccounted`,
  `OpenedStillIsolated` and `EveryRoundMerges`.
  The properties are not inductive. `WeightsCurrent` needs to know that a merged
  set has no outgoing edge up to its weight, hence `OpenedOK`; that a component
  is still isolated when its turn comes needs that the others of its batch are
  disjoint from it and closed too; that every round merges something needs
  `ClosedSetsKnown`: a closed set of clusters of one weight can only exist while
  that weight waits to be tested or a component inside waits to be merged. A
  cluster of least weight then always has such a set around it. For the chain
  loop, `MergedOK` says that of all the clusters merged in this `reconnect` only
  the last one can have an outgoing edge up to `secondMerged`.
* **MsfProofs**, the result: `RInv` of `MsfInvariant`, and with it `SubgraphsSound`,
  `NothingDropped` and, for every choice of spanning trees, `ResultIsMsf`.
  The clusters that a subgraph joins are merged on long before its tree is drawn,
  so that the invariant must keep of them what the drawing needs: every division
  of them extends to one of the vertices that no edge lighter than the subgraph's
  crosses, and no edge drawn before (`CutsRemain`); of the edges drawn, each is
  the only one of them, and a lightest of the graph, across some cut
  (`EachNeeded`); and every set of vertices that divides a cluster is crossed by
  an edge drawn or divides a subgraph that waits (`Spanned`). No step needs paths
  or induction over them. A tree of `n - 1` edges falls apart in two when one is
  taken out because `n - 1` edges are needed to join `n` clusters (`EdgesNeeded`,
  by a least counterexample and contraction); where a new edge crosses the cut of
  an older one, the symmetric difference with its own cut is one for the older
  (`AddNeeded`).
* **MsfProofs**, the refinement: the safety part of `ImplementsContraction`: `msf()`
  starts as `MsfContraction` does and each of its steps is one of that module's
  or a stutter, with `RInv` for what is drawn.
* **ConnectivityProofs**: after every node the matrix is the reachability among
  the nodes added (`MatrixIsConnectivity`), and the read-out returns exactly the
  isolated components in order (`ComponentsRight`), for every number of clusters.
  Reachability is stated by closed sets and so needs no induction over paths; the
  step adds one node and shows that the closed sets of the larger graph are those
  the one-pass update describes.
* **SubgraphProofs**: `SInv` of `SubgraphInvariant`, and with it `TypeOK`,
  `IndicesValid`, `LabelsAreComponents`, `TreeComplete`, `DrawsEveryEdgeOnce` and
  `RandIntFair`, for any number of clusters and tries and any inputs whose sum
  does not overflow. What a draw does rests on three lemmas about the circuit's
  parts: the sums grow, so that a number below the total falls on exactly one
  slot, and on one that is not empty; a tree of multiplexers, of any number of
  leaves, returns the first value whose flag is set, and the last one if there is
  none; a number's offset in its slot is below the slot's count. As
  counts are cleared inside components (`CountsOK`), the slot drawn joins two
  components, which keeps the selection a forest (`CycleFree`, by the cut
  between the two and symmetric differences of cuts, as above) and its components
  the labels (`LabelsLinked`). A draw that missed still relabels, which is why
  these parts are stated with and without `missed`. Each draw takes
  one label (`Counted`), so that after K-1 of them there is one left, and before
  there is always an edge to draw (`EdgeAlwaysLeft`). `DrawsEveryEdgeOnce` is a
  bijection between the numbers below the total and the edges left;
  `RandIntFair` another one, between the candidate lists that give `r` and those
  that give 0: exchange `r` and 0 in each. That the recursive functions exist is
  itself proved, by a least argument at which no function does what the recursion
  says.
* **PartyThreadsProofs**: `PInv`, and with it all the safety properties, for any
  number of layers, any traffic, any wire. The counter is written without a lock
  and may only be written when it is zero; that rests on its being, at every
  place, the number of workers to be woken, woken or busy. `ReceivesOwnLayer` has
  an invariant of its own about what is handled, on the wire and queued.
* **SetupProofs**: `TInv`, `QInv`, `MInv` and `RInv` of `SetupInvariant`, and with
  them `TypeOK`, `TasksNotShared`, `OTsPaired`, `TriplesDivided` and
  `ReceivesItsData`, all the safety properties of the run, for any number of threads,
  any kind of triples, any window and any circuits. The counter argument of
  `PartyThreadsProofs` does not carry over as it is: a job has one, two or all
  threads, an event left raised by one job may wake the wait of another, garbling
  goes on between a wake-up and its wait, and the event of a worker tells a new job
  or the end of a transfer. `OrderOK` says what may follow a call, which has to be
  shown of the lists that `ExecCircuit` and `Garble` put together; `CounterOK` counts
  the threads at a job and still to be woken; `JobsOK` says which of the two an event
  means. For the OTs the parties' queues are compared (`QueuesAgree`): equal but for
  who sends, while both are at the same circuit; while one is ahead, the other's are
  empty, and so were those of all circuits in between. A queue holds tasks only until
  the thread that is to run them is through (`TasksOK`), so that `Reset` and the next
  circuit find it empty. The triples made are those of the threads that are through
  (`MadeOK`); that they are all, each once, is arithmetic: the recursive sum of the
  threads' numbers has a closed form, whose value after the last thread is the number
  of triples, rounded up to an even one. For the transfers (`StreamOK`), what a party
  sends for all circuits is one stream, and two of its beginnings are compared: up to
  the circuit the party has begun, which is what it has sent, what is on the way,
  queued, loaded for a job or still to be called for; and up to the one its peer has
  begun, which is what the peer has received, what it has asked for and what its
  calls will ask for. What has been received is the same in both, so what is asked
  for next is what comes next. A step moves data from one place to the next of the
  same beginning (`SendFlows`, `TransmitFlows`), takes the same from both
  (`TakenStream`), or lengthens one (`PrepareStreams`); wherever the windows end,
  garbling sends no more and no less (`GarblingMoves`), and the sender's calls for a
  circuit send what the receiver's receive (`ExecCircuitMoves`).
* **TriplePoolProofs**: `TInv` of `TriplePoolInvariant`, and with it `TriplesMatch`
  and `NoTripleTwice`, for any batches, circuits, processes and crashes. The
  parties decide alone and at different times, so equality of their positions is
  not inductive: `Together` compares what each will have read when the current
  circuit is set up, whether it has decided or not (`UpTo`), and takes two
  positions beyond the stored batch as equal, as from there on nothing is
  promised. That no byte is given twice needs that a process reads its dump
  onwards (`OnwardsOK`) and that no two cells of a dump are alike (`DumpsOK`),
  also where a crash has left part of a batch and another was appended.
* **AbyProofs**: `Inv` of `AbyInvariant`, and with it `TypeOK`,
  `ConversionsAreThrough` and `TriplesSuffice`, the part of `PreparedSuffices` about
  triples of bits and of numbers and the OTs of conversions, for any workload of
  circuits, any inputs, and all interleavings of the parties' layers and threads.
  What is prepared is a sum over all gates of a circuit, made when it is built; what
  is taken is a running index that a layer's gates advance one by one, in five
  sharings and three places. The two meet in `BeforeLayer`, the sum over the gates
  of the layers before: between two layers each index is that sum
  (`BetweenLayers`), and in a layer, from the end of `Evaluate` to
  `FinishCircuitLayer`, the next one (`InLayer`). As a queue holds the gates of its
  layer once (`HasLayers`), what a loop over it takes is what the layer weighs
  (`QueueWeighs`), although the code never sums anything by layers. ANDs are not
  that exact: a layer may leave up to seven triples of its last byte, so that
  `TriplesBegin` bounds the index by the sum and eight for each layer, which is what
  `NumMTs` allows for. A conversion takes two rounds: the numbers of bits asked for
  in a layer and awaited from the layer before are different, and swapped between
  client and server (`ConversionsBegin`); at the end, as every conversion lies two
  layers before the end, both are through. The invariant also has to carry that
  every list of a sharing holds gates of the circuit and that a value has the
  gate's length, since a loop that goes wrong there would touch another sharing's
  record; of the garbled sharings and SPLUT this is all it says. Each loop of the code
  is a fold; `ThroughInvariant` of `Folding`, that a fold preserves what its step
  preserves, is proved for an unspecified operator and instantiated for each
  (`ArithLocal`, `GarbleAll`, `Receiving`, ...). `Reset` and `Build` show that the
  next circuit starts from there, whatever circuit came before.

Model-checked only: all liveness (`Termination`, `BothFinish`, `SetupEnds`,
`ProcessesEnd`, and the fairness in `ImplementsContraction`; out of the prover's
reach); `BooleanBuilders` and `BuilderChecks`, which are RECURSIVE where the code is,
so that the prover cannot use them; and of the evaluation the refinement
`ImplementsIdeal`, `SharesOpen` and `BuffersAgree`, which relate two parties' records
gate by gate, `NoUseAfterFree`, what `PreparedSuffices` says of tables, keys and
the OTs of SPLUT, and that the constructors of `CircuitBuilder` make circuits as
`WorkloadsAssumption` has them, of which TLC sees those of the runs.

## 5. What is not modelled, and why

* **Cryptography.** OT extension, garbling, encryption and the number theory of DJN
  and DGK are model values or sums modulo a small number: what they compute is
  given by their use (external), that they hide anything is no property of a
  state machine, and TLC cannot enumerate it. For the same reason nothing is said
  about what the openings reveal.
* **The transport.** Channels are modelled from their use: in order, without loss,
  as TCP gives them, and closed when a party ends.
* **Timers, statistics, `PRINT`, `ASSERT` and callback gates, circuit files, command
  lines, input generation.** They change no state that a gate's value, the result
  or the order of messages depends on.
* **Pipelined garbling**, `RAM` modes of triples other than the ones of `TriplePool`,
  circuits with `BOOL` and `SPLUT` gates on the same layer (the byte order bug above
  shows at once and would hide everything else), SIMD in arithmetic conversions.
* **Arithmetic builders and share wrappers.** They put single gates.
* **Floating point.** Its circuits are read from files.
* **Programs that do not take part**: PSI and the other examples and benchmarks, and
  `msf_lowdepthconnectivity.cpp`, which is not compiled.
