# DynamicGraphStorage in TLA+

DynamicGraphStorage (DGS) is a C++ test bed for in-memory dynamic graph
stores: vertex indexes and edge indexes are combined into a *container*, a
transaction layer makes the container safe for many threads, and a driver runs
workloads and graph algorithms over it. This directory holds a TLA+ model of
both of its stores (two-phase locking with versions, and copy-on-write), of the
edge indexes and of the parallel graph algorithms, the TLC runs that check them
on small instances, and proofs of the main theorems for every instance.

## 1. The system

| Component | State | Operations | Hard part |
|---|---|---|---|
| 2PL transactions `transaction/transaction_2pl.hpp` | `global_timestamp`; per transaction: locks, vertices and edges to insert | `insert_vertex`, `insert_edge`, `commit`, `abort`; reads `has_edge`, `edges`, `get_degree`, `begin`, `edge_count`, `intersect`, ... | locks, timestamp and insertions are separate steps of many threads; early returns and exceptions |
| version manager and collector (same file; `gc_all` in `container_2pl.hpp`) | registered read timestamps, `min_timestamp`, `stopped`, a thread | begin/end read transaction, `update_min_version`, `gc_all` | a background thread against commits, snapshots, construction and destruction |
| 2PL container `container/container_2pl.hpp` | `m_vertex_count` and a vertex index | lock calls, insertions, reads | `edge_count` locks vertex by vertex |
| vector vertex index `vertex_index/vector.hpp` | vector of `VertexEntry`, one lock for the index | `lock`, `unlock`, `insert_vertex`, `get_entry` | `push_back` moves entries that others are using |
| hash map vertex index `vertex_index/hashmap.hpp` | map id to `VertexEntry` | the same | no index lock at all |
| version lists `utils/types/vertex_types.hpp`, `edge_types.hpp` | degree list per vertex, version chain per edge | push, search by timestamp, collect | which node a snapshot needs |
| spin lock `utils/rwlock.hpp` | one atomic word | `lock`, `lock_shared`, `unlock`, `unlock_shared`, `tryUpgrade` | compare-and-swap interleavings |
| sorted array, log block, skip list, PMA, adaptive entry `edge_index/` | the neighbours of one vertex | `insert_edge`, batch, `has_edge`, `edges`, iterator | splits, thresholds, boundary cases |
| wrapper and snapshots `apps/base_2pl.h` | the transaction manager; `Snapshot` objects | single and batch updates, snapshot copies | exceptions; life of the snapshots |
| copy-on-write store `transaction_pam.hpp`, `transaction_cow.hpp`, `container_pam.hpp`, `container_cow.hpp`, `apps/avl2pam_cow`, `base_cow.h` | persistent trees, `is_writing` | single writer, snapshots by root | publication of the root, exceptions |
| driver `src/driver/driver.h` | operation streams | loads, partitions, runs threads | chunk boundaries, shared counters |
| graph algorithms `src/driver/algorithms` | shared arrays | WCC, BFS, PR, SSSP, TC | unsynchronised updates |
| generator, micro-benchmarks, wrappers of other systems, vendored code | - | - | not concurrent, or not this project's |

How they interact: the driver's threads call the wrapper; each update of the
wrapper is one write transaction (both directions of an edge when the graph is
undirected), each `Snapshot` one read transaction. A transaction calls the
container, which calls the vertex index for locks and entries and the edge
index of an entry for its neighbours. Locks and timestamps are the only things
threads share besides the data; the collector thread shares all of them.

A component is correct when:

- **transactions**: every read of a snapshot returns what the transactions with
  a timestamp up to the snapshot's inserted, all of them and none of a later
  one; every call returns; no call keeps a lock;
- **lock**: exclusive holders are alone; the word always equals its holders;
- **version lists**: newest first; degree lists agree with edge chains;
- **collector**: nothing a present or future snapshot needs disappears; it
  runs; it stops;
- **edge indexes**: each behaves as a set of destinations with versions;
- **copy-on-write store**: one writer; a snapshot is one committed state;
  counters agree with the index; no node is freed that somebody reaches;
- **graph algorithms**: whatever the threads overwrite, the result is that of
  one thread, and every loop ends.

`PROJECT.json` lists every component with its status and every hazard at the
line where it bites, with the properties that watch it.

## 2. Modules

Four groups, each an executable model of its own:

| Group | Module | What it models |
|---|---|---|
| 2PL store | `VersionChain` | version chains and degree lists as pure operators: push, search, collect |
| | `SnapshotStore` | the abstract specification: a log of transactions and snapshots that answer from a prefix of it |
| | `TwoPhaseTx` | write and read transactions over the container, the vector index and the sorted array, with locks, timestamps, exceptions and early returns |
| | `RWLock` | the abstract reader-writer lock |
| | `RWSpinLock` | the atomic word of `rwlock.hpp`, one load, swap, store or decrement at a time |
| | `VersionGC` | registrations, collector thread, `Snapshot` objects, construction and destruction, against commits |
| copy-on-write store | `PamBlocks` | the record of a vertex as pure operators: blocks, heads, splits, unions of batches |
| | `CowTx` | writing calls of the wrapper, the flag, the counters, exceptions, snapshots as values |
| | `CowHeap` | the trees node by node, with reference counts, in place or copied |
| edge indexes | `SortedEntries` | sorted vectors of versioned entries |
| | `SkipList`, `Pma`, `LogBlock` | the three indexes as pure operators |
| | `EdgeIndexes` | a `NeighborEntry` over one of them, insertions at growing timestamps |
| algorithms | `Workload` | snapshot, threads and chunks |
| | `Wcc`, `Bfs`, `Sssp` | `wcc()`, `bfs()`, `sssp()` with every shared access a step |
| instances | `MC...` | values for TLC |
| proofs | `VertexEntryProofs`, `VersionChainProofs`, `TwoPhaseTxProofs`, `VersionGCProofs`, `CowProofs`, `CowHeapProofs`, `CowStoreProofs`, `AlgorithmProofs` | theorems, see section 5 |

`VersionChain` is extended by `TwoPhaseTx`, `VersionGC` and `SortedEntries`: all
three work on the same chains. `TwoPhaseTx` uses locks as `RWLock` describes
them, and `RWSpinLock` is shown to implement `RWLock`: the two modules meet there.
`TwoPhaseTx` and `CowHeap` both implement `SnapshotStore`. `CowTx` takes for
granted that a copied index stays as it was, which is what `CowHeap` shows;
`CowHeap` has one writer, which is what `CowTx` shows. `TwoPhaseTx` has the
edges of a vertex as a set of destinations with chains; `EdgeIndexes` shows that
the other indexes behave as that set.

### TwoPhaseTx

One build is modelled: `ENABLE_TIMESTAMP` and `ENABLE_LOCK` with the vector
vertex index and the sorted array (`vector2sorted_array` of
`container/CMakeLists.txt`).

- *Writers.* `BeginWrite` is a call of the wrapper with the transaction it
  builds. `AcquireLock` takes the locks one by one, lowest number first;
  `AcquireThrows` is "Lock not found" of `vector.hpp`, the wrapper's `catch` and the
  empty `abort()`. `TakeTimestamp` is the `fetch_add`. `InsertVertex` and
  `InsertEdges` are single calls of the container (one edge at a time for at most
  two edges, one source at a time for more). `Applied` reaches the end of
  `commit()`, or its early return, and decides by `LocksReleased` what is given
  back; `ReleaseLock` and `EndWrite` give it back and return.
- *Readers.* `BeginRead` and `EndRead` are the read transaction; `StartRead` a
  call; `AcquireShared` and `ReleaseShared` single lock calls; `Read`,
  `ReadUnversioned` and the `Scan...` actions (of `edge_count`) look at the data;
  the `...Throws` actions end a read in an exception, with its locks.
- *Abstractions.* A source's entries are the destinations with a non-empty
  version chain: the order of the sorted array, which no read returns, is
  left out. Weights, which no 2PL store keeps, are left out. `get_neighbor` is
  left out: the `NeighborEntry` of this build has no such member, so it cannot be
  called. A batch names each of its destinations once (a set): naming it
  twice would push the same timestamp twice, which no search tells apart. The
  order in which threads wait for a spin lock is arbitrary, as it is in the
  code. The registration of a snapshot is in `VersionGC`.
- *History.* `log` records the transactions at their timestamps. No guard reads it.

### RWSpinLock

An actor is one acquisition; a thread that holds the lock twice is two actors,
as it is for the word. `before` is the local variable of `try_lock_shared`. A
release has two steps: the assertion, then the write. `tryUpgrade` has no
caller in the repository and is modelled because it is part of the lock;
`forceUnlock` and `init` have none either and are left out.

### VersionGC

The collector thread is the pair of the loop of `garbage_collector` and
`gc_all`: it loads the global timestamp, computes `min_timestamp`, takes the
index lock and cuts one vertex per step. A `Snapshot` handle goes through
"loaded" (timestamp read) and registration to "live"; `Kinds` says which ways of
making one are allowed: "shared" (`get_shared_snapshot`), "unique"
(`get_unique_snapshot`, which returns a copy of a local object that is then
destroyed), "clone", and "failed" (a read of the wrapper that throws before
`commit()`). A commit is two steps, the `fetch_add` and all the insertions,
and its sources are locked in between: what happens inside is the business of
`TwoPhaseTx`. `prev_timestamp` is never assigned in the code, so `gc_all`
compares with 0. `Indexes` are the vertex indexes a store may be built with, which
matter only for the index lock: the load leaves that of the vector locked. The sleep of the collector is the time other steps take
while it is at "check". The load is one step: that the hash map is resized
under the collector's feet is not modelled.

### CowHeap

The tree of vertices is loaded; each node has a key, a record, children and a
count. `Enter`, `Descend`, `Build` and `Join` are the steps of `update_j`
(`map_ops.h`): the one read of the count that decides `copy`, the increments of
the children that are kept, `copy_if`, and `node_join`. `Look` and `Put` change
the record of the source, whose own tree is one node here, its block. `Drop` is
one decrement of `decrement_recursive`; the last one frees and adds what the node
held to the list of what the thread still gives back. Readers take the root and
count it in two steps (`TakeRoot`, `CountRoot`), copy a record (`FindRecord`),
answer and close. `Quiet` says that snapshots are taken while nobody writes,
which is what the driver does (`driver.h` takes its snapshot before it starts the
writers; reader threads clone that one); see section 4 for what happens otherwise.
Readers are `edges()` and `has_edge()`, which go through the root of their snapshot. `has_vertex()`,
`degree()`, `begin()` and `intersect()` of a snapshot walk the live tree without counting anything
(`avl2pam_cow.cpp:350`, `356`, `387`, `403`) and are not in the module (section 4).
Inserting a vertex rotates and is left out; inserting edges does not. `HeapAssumption` asks that
the loaded tree is a search tree; it is the only assumption on the shape.

### PamBlocks and CowTx

A block is a function from destinations to how often it holds them, because a
batch that names a destination twice stores it twice. `SplitTree` stands for the
insertion of heads, `MergedTree` for `map_union` with `set_union` on common keys,
`UnionSum` for what the code takes to be the number of new edges. A writing call
is `Acquire` (the loop on `is_writing`), the vertices, the edges or the sources of a
batch one by one, each followed by the counter, and `Release`; `Throw` is "insert
edge failed" and leaves the writer at "threw" for ever with the flag set. With
`Parlay` a batch replaces the index at once. Weights and `ENABLE_FLAT_SNAPSHOT`
are left out.

### Edge indexes

Insertions into one `NeighborEntry` are serialised by the lock of its vertex
(`TwoPhaseTx`), so the indexes are pure operators and `EdgeIndexes` applies them in
every order. `heights` are drawn in advance, because `get_height` is random; a block beyond the
sequence that was drawn gets the lowest height, so a long enough draw is any behaviour.
Loops (the walk on a level, the replay of a vector, a scan, the doubling of the array) are
recursive functions over the number of passes, so that they can be proved about.
In `vector2skiplist` the entry is adaptive: a sorted vector that is replayed into
the index when it is full (`InsertAndSwitch`). The skip list and the array make
room for an edge before they look whether it is there; the model keeps that
order. The Bloom filter is the set of what was added: a false positive sends
`has_edge` to a scan that answers the same. `before` pointers, which are
written and never read, `intersect` and the iterators are left out.

### Algorithms

Each of the three has a main program ("off", a phase, "done") and threads that it
starts and joins; `MCAlgorithms` runs one of them per behaviour. Plain reads and
writes of shared arrays by different threads are races in C++; they are modelled
as single reads and writes in any order, which is what the compiled loads and
stores of aligned words do. `openMP` chooses the two builds of `gapbs.h`: atomic
built-ins, or "serial fallbacks" that read and write in two steps. In this
repository no target is compiled with `-fopenmp` (the CMake files only link
`OpenMP_CXX_LIBRARIES`), so the fallbacks are what runs and the pragmas are inert:
that is why the path-shortening loop of `wcc()` is sequential. Distances of `sssp()` are
whole numbers because the code adds 1 per edge; `Infinity` is the number of
vertices, more than any path. The bitmaps of `bfs()` are sets of vertices with
words of `WordBits`.

## 3. What TLC checks

| Run | Expect | Question |
|---|---|---|
| `TxSnapshot` | pass | Are snapshot reads, refinement, lists and termination right while edges are inserted and read after a load? |
| `TxFaults` | pass | Does the store stay consistent with the log, which reads throw and which locks are left behind, when vertices are loaded by other threads and lock calls throw? |
| `RWSpinLock` | pass | Is the atomic word a reader-writer lock that is granted to whoever asks? |
| `GcCollects` | pass | What survives every collection, and does the collector stop? |
| `CowSnapshots` | pass | Do copies, in-place updates and reference counts keep snapshots unchanged and memory safe? |
| `CowTx` | pass | Do single edges, batches and failed commits keep blocks, counters and the flag right? |
| `EdgeIndexes` | pass | Does every edge index behave as a set of versioned destinations, and what does the array keep when it does not? |
| `Algorithms` | pass | Do racing threads compute components and distances exactly, what is left of distances when a store is lost, and do they return? |
| `TxIterator` | violation | Does the iterator return what its snapshot owes? |
| `GcLosesEdge` | violation | Does a round spare the snapshots its `min_timestamp` was computed for? |
| `BfsLosesBuffers` | violation | Are the distances of BFS exact in the build the repository makes? |
| `CowBatchDegree` | violation | Is the degree the number of neighbours when no batch has a duplicate? |

Each passing property is paired in `PROJECT.json` with a mutant: a changed
definition, in the same module, under which TLC finds the property violated.

**Properties of the 2PL store.** `SnapshotReads` compares every answer with the
log; `ImplementsStore` says the same of whole behaviours. `ChainsMatchLog`,
`DegreesMatchEdges` and `NewestFirst` relate the lists to the log, to each
other and to time. `NoLockLeft` says that a call that returns leaves a lock behind in three ways and
in no other: the index lock after a commit without edges (the loader's too), the locks in front
of one that a commit did not find, and an even number of holds after `intersect()`; `TxFaults` has all three. `OnlyNewVerticesThrow` says for which vertices `get_degree` may refuse a
snapshot. `CommitsReturn` and `ReadsReturn` exclude deadlock and lost
releases. `ReadsReturn` names the one wait that never ends, `WaitsForLoader`: `get_vertices` and
`get_neighbor_ptr` after a load, both of which `TxSnapshot` asks for. `DestructorReturns` names the
same lock (`WaitsForLoad`); with the hash map it does not occur. `LatestSurvives` and `OnceInsertedSurvives` say what no collection
takes away; `CutsSpareSnapshots` is the stronger promise that does not hold, restricted to the snapshots
that `min_timestamp` takes into account.

**Of the copy-on-write store.** `SnapshotKept` (of `CowHeap`): the edges under the
root of a snapshot never change. `NothingDangling` and `CountsExact`: nothing
the writer, or a reader through the root of its snapshot, still walks to is freed, and every count is the number of references, so nothing stays
for ever. Not everything below a node of the stack is still walked to: `copy_if` "needs to go after
last use of t or t's children" (`gc.h:82`), and from then until `join()` the link down the path may
dangle in trees of more than two levels; `HeldTrees` leaves that link out and keeps the others. `TreesImplementStore`: the refinement. `RecordsHold`: every destination is in
the one block where `has_edge` looks. `CountersExact`: `vertex_count` and `edge_count` agree
with the index whenever no writer is between the two, also after a failed commit.
`NothingLost`: the live index, which `degree()` and `has_vertex()` of a snapshot
ask, has all a snapshot has. `FlagHeld`: one writer at a time, and the flag stays set only
after a commit that threw.

**Of the edge indexes.** `ReadsFind`, `ScansYieldOnce` and `DegreeCounts` compare
look-ups, scans and the count of new edges with the history of insertions, at every
timestamp. They name the exceptions the code makes. `TwoLogs`: the first log of a log block, entered twice.
`GoesAstray`: the array has an empty segment before an occupied one, and look-ups may miss (`ReadsFind`
says nothing from then on). `strayed`: something was inserted into such an array; from then on an edge
may be there twice and out of order, and only the set of what scans yield is promised. `StructureHolds` is what the searches rely on.

**Of the algorithms.** `ComponentsFound`, `BfsExact` and `SsspExact` are the results. `BfsExact` is about the searches in which no
racing store dropped what another thread had stored (`lost`: the sum of the serial `fetch_and_add`, or the
word of `set_bit`), in both builds; `BfsSound` is about all: a distance is the length of a walk,
so losses make distances too large or leave vertices out, and nothing else.
`PathsDescend` is why path shortening ends; `QueueFits` bounds the queue;
`AlgorithmsReturn` is termination.

**Bounds.** `NumVertices`, `Loaded`, `MaxTxs`, `MaxReads`, `MaxCalls`, `MaxTimestamp`
and `MaxActive` are constants of the 2PL modules and appear in guards. Two
writers and three vertices are the least that make crossing lock orders; one
reader is enough because readers do not disturb each other (each reads only
what writers write, and shared holds only delay writers). Two reads let
an answer be followed by one of a later snapshot. Three actors of the spin
lock give a writer and two readers, the least for a lost decrement; `Excl` has to exceed the
number of actors, and `HoldLimit` is 2, so that the assertion of `rwlock.hpp:30` does fail in the run. The collector needs
three timestamps (load, edge, the edge again) for a chain to be cut with a
snapshot in between, and two handles for a copy; `GcLosesEdge` has four, for the snapshot to be
younger than the version it reads.

`CowSnapshots` has a root with two children, so that an update goes left, right or
nowhere, two committed transactions (`MaxWrites`: one that copies, one that then
finds counts of 1) and two readers that may share a root; `NumNodes` and `NumBlocks` are
enough never to be met. `CowTx` has five vertices and blocks of two: heads 0, 2 and 4, so that a
block is split at its end, in its middle and not at all; its `Programs` are all pairs of
two single edges against two batches out of five edges. `EdgeIndexes` bounds insertions,
repeated ones and late ones per index (`MaxInserts`, `MaxRepeats`, `MaxLate`): six split the
blocks of a skip list of three levels, with each of the 32 draws of heights; 31 double an array with segments of four four
times and rebalance it, nine in any order and then in descending order (`Descending`): the first gap comes with the 28th, and
up to three more are inserted into it; `VectorSize` 3 makes the switch happen in the
middle; two timestamps put a read between two versions. `Algorithms` runs three threads
over six graphs of six vertices, chosen so that two threads claim one vertex, hook
one component, share a bin, or meet in a word; `Alphas` and `Beta` make BFS turn both ways;
chunks are two vertices and words four bits (`WordBits`), so two threads share a word.
All searches are exhaustive within these bounds.

**Fairness.** `TwoPhaseTx` assumes weak fairness of a thread inside a call and
of nothing else: the scheduler runs it, but nobody has to call. Weak fairness is
enough although locks are spin locks, because the numbers of transactions and
reads are bounded: a lock that is contended for ever by ever new readers,
under which a writer starves, is excluded by `MaxReads`. That starvation is
possible in the code. The same holds for `LockIsGranted` and `MaxCalls`; there
a holder is also assumed to release, which is what `TwoPhaseTx` shows for
edge transactions. `VersionGC` assumes weak fairness of the collector thread, of
construction, load and join, and of a commit that has its timestamp. The algorithms
assume weak fairness of the main program and of each thread it started: the operating
system runs every thread and `join` returns.

**Deadlock** is not checked (`CHECK_DEADLOCK FALSE`) where work is bounded and all
threads finish; where they do not, the temporal properties say so. It is checked in
`CowTx`, where `Over` is the one state without a step (everybody returned, or waits for
the flag of a failed commit), and in `CowSnapshots`.

## 4. What the runs found

1. *The iterator's first edge is not checked* (`TxIterator`).
2. *The collector cuts versions that registered snapshots need* (`GcLosesEdge`):
   a version is kept if it is not older than the oldest snapshot, but the one
   that snapshot reads is the newest that *is* not newer. In the run an edge is inserted at 2, a snapshot is
   taken at 3, the edge is inserted again at 4, and the round with `min_timestamp` 3 cuts the version of 2.
3. *BFS loses vertices* (`BfsLosesBuffers`): without `-fopenmp` `fetch_and_add` is
   "x += inc", two threads reserve the same room in the queue, and one overwrites what the
   other queued.
4. *A batch miscounts the degree* (`CowBatchDegree`): when the batch is shorter than the
   degree the operands of the union are swapped, and the destinations that were there
   are counted as new (`pam_tree_cow.hpp:294-300`).

Also seen while modelling, without a run of its own:

- `commit()` of a transaction without edges returns at `transaction_2pl.hpp:307`, before
  `release_locks`: after a load of vertices the index lock stays exclusive, so
  `get_vertices`, `get_neighbor_ptr`, further vertex insertions and the collector (hence the
  destructor, which joins it) spin for ever. `TxFaults` has such loads.
- `abort()` is empty: a commit whose lock call throws keeps the locks it has.
- `push_back` of the vertex vector moves entries while other threads hold locks in them.
- `get_unique_snapshot()` of `base_2pl.h` returns a snapshot that is not registered.
- The collector thread may read `stopped` before the constructor clears it, and then never runs.
- `intersect()` acquires its locks a second time where it should release them
  (`transaction_2pl.hpp:152-155`), and `NeighborEntry::intersect` always returns 0.
- A copy-on-write commit that throws leaves `is_writing` set: no later write returns.
- Inserting a vertex that is there replaces its record, edges included, and counts it again
  (`avltree_cow.hpp:65`).
- With `Quiet = FALSE` TLC violates `SnapshotKept` of `CowHeap` in nine steps: the writer
  reads a count of 1, a reader takes and counts the root, the writer changes the node in place.
- `set_bit` (`BFS.h:208`) loses the bit of another thread when two chunks meet in a word, also with OpenMP:
  in `Algorithms` such searches return too large distances or none (`lost`).
- A snapshot's timestamp is loaded before it is registered (`transaction_2pl.hpp:92-94`); a round that takes its
  minimum in between may go past it, and the snapshot then loses versions whatever `gc()` spares.
- `VertexEntry::gc` (`vertex_types.hpp:77-79`) erases the first degree older than `min_timestamp` behind the head,
  which may be the one a registered snapshot reads: after one more insertion at the vertex `get_degree` of that
  snapshot throws, or answers an older degree.
- `has_vertex()`, `degree()`, `begin()` and `intersect()` of a copy-on-write snapshot walk the live tree of
  vertices without counting a node (`avl2pam_cow.cpp:350`, `356`, `387`, `403`), and `driver.h:554-556` runs
  `has_vertex` beside the writers: nothing keeps the node the walk is at from being freed.
- The first log of a log block is never closed (`log_block.hpp:71`): `TwoLogs`.
- The packed memory array can come to have an empty segment before an occupied one,
  because rebalancing deals out rounded-up shares. Its search takes an empty
  segment for one whose entries are greater, and then misses edges; an edge inserted again is entered a
  second time and counted as new, and others go out of order. In `EdgeIndexes` (segments of four) the gap
  comes with the 28th of descending insertions; with the real 256 it takes about 112,600.

## 5. What is proved

All theorems hold for any number of threads, vertices, transactions and
reads. The assumptions on constants are `LockAssumption`, `ThreadAssumption`,
`WorkAssumption`, `CollectorAssumption`, `BlocksAssumption`, `CowAssumption`, `HeapAssumption`,
`ProgramsAssumption`, `WorkloadAssumption`, `SsspAssumption`, `BfsAssumption`,
`SkipListAssumption`, `LogAssumption` and `IndexesAssumption`, which TLC evaluates in the runs. Where a theorem has a hypothesis on the inputs
(`ReadsFit`, `TxsFit`, `FreshVertices`, `Quiet`, `BothWays`) the code really needs it, as said below, and the constants of a
passing run satisfy it.

| Module | Theorems | State for every instance |
|---|---|---|
| `VertexEntryProofs` | `TypeCorrect`, `WordIsTheCount`, `ExclusionHolds`, `AssertionsFailOnlyOfHolders`, `LockRefines` | the spin lock is a reader-writer lock |
| | `IndexReached`, `IndexReadsFind`, `IndexScansYieldOnce`, `IndexDegreeCounts`, `IndexStructureHolds` | what vectors, skip lists and log blocks hold, find, scan and count |
| `TwoPhaseTxProofs` | `LockInvariant`, `TypeCorrect`, `NothingIsLeftLocked`, `ThrowsForNewVerticesOnly` | who holds which lock, which reads throw |
| | `ChainsHoldTheLog`, `DegreesAreCounts`, `VersionsAreOrdered`, `SnapshotsAreRead`, `TransactionsImplementStore` | what the store holds and what reads return |
| `VersionGCProofs` | `CollectorTypes`, `CollectionKeepsTheLatest`, `CollectionKeepsTheOnlyVersion` | what no collection takes away |
| `CowProofs` | `OneWriter`, `BlocksAlwaysHold`, `CountersStayExact`, `CommitsLoseNothing` | the writer's flag, the blocks of a record, the counters, what no commit takes away |
| `CowHeapProofs` | `HeapInvHolds`, `SnapshotStaysAsTaken`, `NothingWalkedIsFreed`, `CountsExactAtRest` | reference counts, what a snapshot keeps |
| `CowStoreProofs` | `TreesHoldTheLog`, `TreesAreAStore` | what the trees hold and what reads of them return |
| `AlgorithmProofs` | `ChunksPartition`, `WccTypeCorrect`, `PathsAlwaysDescend`, `ComponentsAreFound`, `SsspIsExact`, `QueueAlwaysFits`, `BfsIsExact` | results of the algorithms |

`VersionChainProofs` holds lemmas only. A leaf that takes a prover more than a second or two names
it and allows it more time (`SMTT(40)`, `ZenonT(40)`), so that the proofs do not depend on the speed of
the machine: all but a few leaves are found in an eighth of the time they are given.

**RWSpinLock.** `LockInv` = types, `WordCountsHolders`, `MutualExclusion` and
`ExpectsCounts` (what an acquisition has loaded and is about to swap is never that of a locked
word). None is inductive alone: the swap of a reader is safe because
its expected value is below the exclusive bit, which is safe because the loaded value is masked and
a count is below the exclusive bit. `AssertionsFailOnlyOfHolders` follows: whoever releases finds the word as the
assertions of `rwlock.hpp:45` and `49` ask, and the assertion of line 30 (`before < 100`) fails only while that many
acquisitions really share the lock, which nothing in the code prevents. An assertion that fails does
not stop the model.
`LockRefines` maps the holders to the abstract lock: swaps acquire, the store
of 0 and the decrement release, everything else stutters. Assumed: fewer
actors than the exclusive bit; the limit may be any number.

**TwoPhaseTx.** Three invariants, each inductive relative to those before it:

1. `LockInv` (`TwoPhaseTxProofs`): a writer past acquisition owns the locks of
   all its sources, the holds of a reader are those it has acquired and not
   released, holders exclude each other, the global timestamp is the length of
   the log and nothing stored is newer than it, and a writer with a timestamp is
   the transaction logged at it, with no newer list under its locks. Type correctness needs it: a release never drives a count below 0, and
   `get_degree` finds a node under a writer's lock. Theorems `LockInvariant`,
   `TypeCorrect`.
2. `StoreInv`: every version chain holds the timestamps of
   exactly the logged transactions that insert the edge, except those whose
   writer still has the edge to insert; degree lists count the visible chains of
   every vertex, a writer at work included; the log fits the clock. Theorems
   `ChainsHoldTheLog`, `DegreesAreCounts`, `VersionsAreOrdered`.
3. `ReadInv`: the answers are owed, and so is the partial sum of
   `edge_count` over the vertices passed. A prefix of the log at or below a
   snapshot is stable, so what was owed stays owed. Theorems `SnapshotsAreRead`,
   `TransactionsImplementStore`.

The last two have two hypotheses. `ReadsFit`: nobody asks for "iterate", for
which the theorem is false (`TxIterator`). `TxsFit`: a transaction inserts
both directions of an edge, as the wrapper does for undirected graphs. It is
needed because `has_edge` says no for a destination that is not a vertex,
and a transaction gets the locks of its sources only: with both directions, the
ends of a committed edge exist.

Two more invariants of `TwoPhaseTxProofs` stand on `LockInv`:

4. `ExactLocks` is its converse: a writer owns no lock but those its program counter
   says, a reader has each lock of its call once and no other. `LockInv` says
   that nobody lacks a lock, `ExactLocks` that nobody has one too many, so a thread
   outside a call has none but those the code leaves it (`NothingIsLeftLocked`, without hypotheses). The exceptions
   are part of the invariant: a commit that inserts vertices and no edges returns before `release_locks`; one
   whose lock call throws keeps what it had, and `abort()` gives nothing back; `intersect()`
   locks again where it should unlock, so its holds come in pairs.
5. `VertexInv`: the vertex count is the sum of what the log inserts, less what
   the one writer that is inserting vertices still has to insert, and no
   transaction logged after its own inserts any (`CountFollowsLog`: the index lock is
   exclusive). So a vertex that the log has at a timestamp and that can be locked has
   a degree at that timestamp (`DegreesReach`), and `get_degree` throws only
   for vertices the snapshot should not know (`ThrowsForNewVerticesOnly`, without hypotheses).

`VersionChainProofs` has the lemmas about the lists: a push adds one timestamp
and keeps the order, a search stops at the first match, a degree pushed
later does not change what older snapshots read.

**VersionGC.** `GCInv` (`VersionGCProofs`) = types; a commit at work is logged and its
sources are its own (`WorkLogged`); nothing happens before the store is loaded
(`LoadedFirst`); a chain has logged versions only, and is non-empty once a commit of
its edge is through (`ChainsLogged`); the head of a degree list is the number of
non-empty chains (`HeadsCount`) and no newer than the log, or than the commit that
owns the vertex (`DegreesInTime`); and only handles made by `get_read_transaction`
are unregistered (`HandlesFit`). The collector never cuts the head of a list, and
that is all it keeps in general: `CutsSpareSnapshots`, which asks for more, is false
(`GcLosesEdge`). It is enough for a snapshot taken now (`CollectionKeepsTheLatest`),
and for any snapshot and an edge inserted once, whose chain is only a head
(`CollectionKeepsTheOnlyVersion`). `min_timestamp` does not occur in the invariant: the two
theorems hold whatever the collector takes for the oldest snapshot.

**Edge indexes.** `IndexInv` (`VertexEntryProofs`) says that the structure in use holds exactly the
version chains of the history `inserted`, whatever the sizes of a vector and a block, the number of levels,
the heights that are drawn and the insertions. TLC checked it as an invariant of the run
before it was proved. Its parts:

- `VectorHolds`: the vector is sorted, each entry has the chain of its destination, and no destination that
  was inserted is missing.
- `ListHolds` = `Shape`, `Stored` and `Holding`. `Shape` says of every level that the link of a
  block leads to the next greater one of the blocks that were drawn so high, and that the head is the
  least and on all levels. So the walk on a level ends at the greatest block below the destination
  (but never at the last one), in fewer steps than there are blocks, and `find_block` ends
  at the one block in which the destination is or belongs (`Stored`: the ranges of the blocks do not overlap).
  A split keeps this on every level, because the block that precedes the new one there is the one that
  is split, when it is linked so high, and the end of the walk otherwise. This is where
  the mutant `LinkFrom_Path` fails. `SkipListAssumption` asks for an even block size, as
  the builds have: `split` moves the `size / 2` entries after the first `size / 2`, so an odd block would lose its last.
- `LogHolds`: some log of a destination is visible at a timestamp exactly when its chain has a version by then; at
  most one log after the first is open; and two logs of one edge are visible together only for the
  first log of the block, which `insert_edge` never closes. `LogAssumption` keeps the greatest timestamp
  for logs that are open.
- `Counted`: `added` is the number of destinations inserted, plus one when the edge of the first log came again.

The switch from a vector is an induction over its entries (`FirstOf`: what the first `n` entries
hold) and, within an entry, over its versions, the oldest first. The loops are unfolded by one
lemma about recursive functions over an interval (`LoopExists`), and `LoopInduction` is the induction
over the passes, stated about a set of numbers where the library's has an operator.

The theorems say nothing of the packed memory array (`kind # "pma"`): what its rebalancing keeps depends on
the rounding of its shares, no bound on the insertions excludes a gap, and no invariant was found that says when the
first one comes. What TLC checks is all that is known of it.

**Algorithms.** `ChunksPartition` (`AlgorithmProofs`): for every size and number of threads
the chunks are disjoint and cover the range, also when `start` is past the end. The proof
about `wcc()` has an invariant in three parts: types; `comp[v] <= v` and every local pair of components
comes from one component of the graph (`PathsAlwaysDescend`); and, while a round has set no
flag, what the threads have passed is known to have equal components. After a round
in which nobody hooked, `comp` has not changed since the paths were shortened, so every
edge that some thread has looked at, which is every edge because the chunks cover
the vertices, has one name at both ends (`ComponentsAreFound`).

`sssp()`: delta-stepping with weights 1 goes level by level, and the invariant
(`SsspInv`) says so. At iteration `k` every distance up to `k + 1` is right, the frontier is the
vertices at distance `k` (with repetitions), and every vertex at `k + 1` is in a bin, always
the bin of the next level, or in the hands of a thread that is about to put it there.
Two threads that race on one vertex store the same number: this is why the
compare-and-swap of the serial fallback does no harm. In the end the vertices
with distance up to `n` are those `n` edges around the start. That none is missed because its
distance would reach `Infinity`, the number of vertices, is a pigeonhole: the distances
on a path are all different. No hypothesis is needed, and both builds are covered.

`bfs()`: `QueueInv` bounds the queue in both builds. `shared_in` is at most the end of
the window plus the vertices in buffers that were added; a vertex is in one
buffer, once, because one compare-and-swap turned its distance; so `shared_in` is at most
the number of visited vertices (`QueueAlwaysFits`). The serial fallback can lose an
addition but not add twice. The entries below `shared_in` are written or in the place of a buffer
about to be copied, so a turn reads no entry that was never stored to.
`ExactInv` holds as long as nothing is lost, in both builds: `Turn(k)` says that the search is at
distance `k`, everything nearer is done (`Layers`), the window is the level `k`, and in a turn
over the queue, that the places of the buffers partition what was added
(`Placed`), that each vertex at `k + 1` is in a buffer, and that thread 0, whose
chunk begins the window and who walks to its end, has left no neighbour behind (`Walked`);
in a turn over the bitmap, that each vertex at `k + 1` has its bit or a thread about to set
it. `lost` is set by the two stores that drop another's, and by nothing else, so this says that
`bfs()` has no other way to go wrong, whatever the width of a word. An empty window means nothing
lies further, and a pigeonhole again bounds the distances (`BfsIsExact`). The one hypothesis is
`BothWays`: a turn over the bitmap looks from an unvisited vertex for a neighbour in
front, against the direction of the search. Without `~lost` the statement is false (`BfsLosesBuffers`).

**Copy-on-write store.** `CowInv` (`CowProofs`) = a writer that is to count still has at
hand what it counts, every record keeps its blocks in order, and `FlagHeld`. The flag is
set exactly while one writer is inside or after it threw (`OneWriter`), because
`exchange` lets in only who found it clear. `BlocksAlwaysHold` is by the operators: a
look-up goes to the largest key not above the destination, which exists and is unique;
an insertion that splits a block moves each destination to what is then its home;
and a union leaves the cuts between the blocks where they were. It holds
for any sizes of blocks, in both builds, and also when commits throw half way.

`CounterInv` (`CowProofs`) adds the counters. `Tally` says at each program counter
by how much each of them is behind the index: one vertex after an insertion, one edge
after a new destination, the sum of `UnionSum` after a batch, and nothing when the writer
has counted; a throw comes before the index changes, so nothing is owed for it.
Degrees are summed over all vertices with the fold of the community modules, about
which there is one lemma, that changing one term changes the sum by the
difference; its proof goes over smallest counterexamples among finite sets. The
hypothesis `FreshVertices` is that the calls insert each vertex once and none that was
loaded, as the driver does: inserting one that is there replaces its record and
counts it again, which makes both theorems false. The invariant keeps it true of the calls that are
left (`Waiting`, `Distinct`). `CountersStayExact` holds also where a batch has
got a degree wrong (`CowBatchDegree`): the counter and the degree are wrong by the same.

**The trees of the copy-on-write store.** `HeapInv` (`CowHeapProofs`) is what reference counting
rests on. Every reference lives in a *place* (`Places`): a link or the record of a node that is
alive, the root, a snapshot, a record in a reader's hands, a position of what a thread has
still to give back, and the references the writer holds between two steps of `update_j`: the
node it is called on or has made, the children `inc_if` counted for a copy that does not exist
yet. `Pointer` says what each place refers to, and the parts of the invariant are:

- `Tally`: a count is the number of places that refer to the node or block. Each action moves,
  adds or removes a few places, and one lemma about finite sets does the counting for all of them.
  A place counted from the end of a list does not move when its head is taken.
- `Shape`: a node that is alive has a record and, for children, nodes of the vertices its own
  vertex was loaded with. The links the writer has gone through are left out (`StaleLeft`,
  `StaleRight`): between `copy_if` and `join()` they may refer to a freed node. So a path of nodes
  is never longer than the tree that was loaded.
- `Path`: the frames of the writer are the search for its vertex from the root, one level each;
  a frame that is not copied is a node with one reference, and below a copied frame every frame is
  copied, so what is changed in place is reached from the root through nodes with one
  reference only. Without it neither the counts nor the shape is inductive.
- `Snapshots`: readers hold roots of whole trees, and nobody writes while one is taken.

`SnapshotStaysAsTaken`: what the writer changes is `Opened`, its one reference is the root's, the
writer's or one in an opened node, so nothing that a snapshot reaches is opened. A tree of unopened
nodes (`Still`) has the same edges after every step. `NothingWalkedIsFreed`: below the frames whose link
is given up, every tree is whole (`Deep`). `CountsExactAtRest`: when no thread is on its way, the only
places left are the root, the snapshots and the links, and they correspond one to one to
what `CountsExact` counts; a node that is counted hangs in the tree of a root, by going up the tree.

Proved for every search tree (`HeapAssumption`), any number of readers, writes and nodes. The one hypothesis is
`Quiet`: snapshots are taken while no write runs, which is what the driver does. Otherwise a root can
be read before and counted after the writer has found that it is its own, and the
theorems are false (section 4). The first attempt at `NothingDangling` failed for a good reason: it
asked that all below a frame be alive, which TLC could not refute in a tree of two levels
and which is false in deeper ones (see section 3); the definition of `HeldTrees` is
the one that holds for every tree.

`TreesAreAStore` (`CowStoreProofs`, under the same `Quiet`) is the refinement: the trees are a
`SnapshotStore`. `StoreInv` stands on `HeapInv` and says what edges the trees hold. A set of nodes that is
closed under links and in which every vertex of a tree has a node with given edges (`Holds`) is a tree's
content without a recursion. With it: under the root, between two writes, are the edges of the log;
during a write, what the writer has not gone through still holds the edges from before the insertion
(`Now`) and what it has made holds those after it (`Then`), level by level along its frames; the root of
a reader holds the prefix of the log at its snapshot (`TreesHoldTheLog`). That the last `join()` puts a
root in place under which everything is `Then` makes the final `SetRoot` the commit; taking
a count of the root is `Begin`, an answer is `Answer`, giving the root back is `End`, and every
other step of a copy, a count or a release stutters. `HeapInv` is what makes the
steps of the writer harmless to the sets of the readers. TLC checked `StoreInv`
as an invariant of `CowSnapshots` before it was proved.

Only model-checked: the packed memory array; `BfsSound`, what is left of the distances when a store is lost; and all liveness, which is outside the prover's reach.

## 6. Not modelled, and the plan

Not modelled, in the order in which they would be added:

1. Vertex insertion into the tree of `CowHeap`, with PAM's rotations, and the parallel
   bulk operations of PAM (`multi_update_sorted`, `map_union`), values in `CowTx`.
2. The reads of a copy-on-write snapshot that walk the live tree uncounted.
3. `intersect` with its answer, the life of `UnifiedIterator`, the iterators of the
   edge indexes, the bulk initialisation of the array (used by a micro-benchmark), the
   hash map index under concurrent loads.

Not planned: PageRank (sums of floating-point numbers, each thread in entries of its own)
and triangle counting (one thread, reads only); `transaction_cow.hpp`, `container_cow.hpp` and
`base_cow.h`, which nothing includes; the rest of the PAM library and the other vendored
code; the bloom filter's hashing; the workload generator, data processing and
micro-benchmark harnesses (timing around the modelled operations); the wrapped external
systems, whose sources are not in this repository; deletion, which every 2PL wrapper
refuses (`base_2pl.h:110-116`). `clear()` is documented as not thread-safe and nobody
calls it on a live store.
