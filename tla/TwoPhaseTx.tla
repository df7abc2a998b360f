----------------------------- MODULE TwoPhaseTx -----------------------------
(***************************************************************************)
(* The fine-grained store: transactions of transaction_2pl.hpp running     *)
(* over container_2pl.hpp with the vector vertex index and a timestamped   *)
(* edge index (the sorted array), built with ENABLE_LOCK and               *)
(* ENABLE_TIMESTAMP.                                                       *)
(*                                                                         *)
(* A write transaction collects its insertions; its commit takes exclusive *)
(* locks in ascending order, draws a timestamp, applies the insertions and *)
(* releases the locks.  A read transaction is a timestamp; each of its     *)
(* reads takes the shared locks it needs and gives them back.  Every lock  *)
(* call, insertion and read is a step of its own, so the steps of all      *)
(* threads interleave between them.                                        *)
(*                                                                         *)
(* Locks are those RWSpinLock implements (module RWSpinLock): one          *)
(* exclusive owner, or any number of shared holds, with no memory of who   *)
(* waits.  The id of a vertex is the number of its lock; IndexLock stands  *)
(* for VERTEX_INDEX_LOCK_IDX, greater than every id.                       *)
(***************************************************************************)
EXTENDS Integers, Sequences, FiniteSets, VersionChain

CONSTANTS
    Writers,      \* threads that run write transactions
    Readers,      \* threads that hold snapshots and read
    Loader,       \* the main thread, which loaded the first vertices
    Nobody,       \* a lock without exclusive owner
    NoAnswer,     \* a reader that was not answered yet
    Txs,          \* the write transactions that may be run
    ReadOps,      \* the reads that may be asked
    NumVertices,  \* bound on the vertices
    Loaded,       \* vertices loaded before the threads start
    MaxTxs,       \* bound on the transactions of one writer
    MaxReads      \* bound on the reads of one reader

Vertices  == 0..NumVertices - 1
IndexLock == NumVertices
Locks     == 0..NumVertices

\* A write transaction: how many vertices, and which directed edges, it inserts.
TxRecord == [verts : Nat, edges : Seq(Vertices \X Vertices)]

\* The reads whose answer depends on the snapshot, and the others.
VersionedKinds   == {"has_edge", "edges", "degree", "iterate", "edge_count"}
UnversionedKinds == {"has_vertex", "get_neighbor_ptr", "get_vertices", "intersect"}
OpRecord == [kind : VersionedKinds \cup UnversionedKinds, u : Vertices, v : Vertices]

ASSUME ThreadAssumption ==
    /\ Writers \cap Readers = {}
    /\ Nobody \notin Writers
    /\ Loader \notin Writers \cup {Nobody}
ASSUME WorkAssumption ==
    /\ NumVertices \in Nat \ {0} /\ Loaded \in 0..NumVertices
    /\ Txs \subseteq TxRecord /\ ReadOps \subseteq OpRecord
    /\ MaxTxs \in Nat /\ MaxReads \in Nat

NoSnapshot == -1

VARIABLES
    global_timestamp,  \* TransactionManager::global_timestamp
    m_vertex_count,    \* entries of the vertex vector
    versions,          \* versions[u][v]: version chain of the entry u -> v
    degree,            \* degree[u]: degree list of u
    excl,              \* excl[l]: the exclusive owner of lock l
    shared,            \* shared[l][r]: shared holds of reader r on lock l
    wpc,               \* where a writer is in commit()
    wtx,               \* its transaction
    wneed,             \* locks it still has to acquire, or to release
    wts,               \* its timestamp, 0 before it draws one
    wverts,            \* vertices it still has to insert
    wtodo,             \* indices of the edges it still has to insert
    wcount,            \* transactions it began
    rpc,               \* where a reader is in a read
    rop,               \* the read
    rneed,             \* locks it still has to acquire, or to release
    rscan,             \* edge_count: next vertex and sum so far
    rcount,            \* reads it began
    snapshot,          \* timestamp of its read transaction
    answer,            \* its last answer
    log                \* history: committed transactions in timestamp order

storeVars  == <<global_timestamp, m_vertex_count, versions, degree>>
writerVars == <<wpc, wtx, wneed, wts, wverts, wtodo, wcount>>
readerVars == <<rpc, rop, rneed, rscan, rcount, snapshot, answer>>
vars == <<storeVars, excl, shared, writerVars, readerVars, log>>

-----------------------------------------------------------------------------
(* Locks *)

LockExists(l) == l = IndexLock \/ l < m_vertex_count

\* RWSpinLock::lock and lock_shared can succeed.
CanLock(l) == excl[l] = Nobody /\ \A r \in Readers : shared[l][r] = 0

\* Mutant: a read that does not wait for the writer of its vertex.
CanLockShared_Unlocked(l) == TRUE
CanLockShared(l) == excl[l] = Nobody

\* The first of a set of locks in the order of their ids.
Lowest(S) == {l \in S : \A m \in S : l <= m}

-----------------------------------------------------------------------------
(* Write transactions *)

EdgesOf(tx) == {tx.edges[i] : i \in DOMAIN tx.edges}

\* locks_required: one per edge source, and the index lock for any vertex.
\* The commit drops duplicates, so they form a set.
LocksRequired(tx) ==
    {e[1] : e \in EdgesOf(tx)} \cup (IF tx.verts > 0 THEN {IndexLock} ELSE {})

BeginWrite(w, tx) ==
    /\ wpc[w] = "idle" /\ wcount[w] < MaxTxs
    /\ wpc'    = [wpc EXCEPT ![w] = "acquire"]
    /\ wtx'    = [wtx EXCEPT ![w] = tx]
    /\ wneed'  = [wneed EXCEPT ![w] = LocksRequired(tx)]
    /\ wcount' = [wcount EXCEPT ![w] = @ + 1]
    /\ UNCHANGED <<storeVars, excl, shared, wts, wverts, wtodo, readerVars, log>>

\* Mutant: the locks are asked for in the order the edges were added.
NextLocks_Unsorted(w) ==
    IF wpc[w] # "acquire" THEN Lowest(wneed[w])
    ELSE LET edges == wtx[w].edges
             left  == {i \in DOMAIN edges : edges[i][1] \in wneed[w]}
         IN  {edges[i][1] : i \in Lowest(left)}

\* The locks acquire_locks may ask for next.
NextLocks(w) == Lowest(wneed[w])

AcquireLock(w) ==
    /\ wpc[w] = "acquire"
    /\ \E l \in NextLocks(w) :
        /\ LockExists(l) /\ CanLock(l)
        /\ excl'  = [excl EXCEPT ![l] = w]
        /\ wneed' = [wneed EXCEPT ![w] = @ \ {l}]
    /\ UNCHANGED <<storeVars, shared, wpc, wtx, wts, wverts, wtodo, wcount,
                   readerVars, log>>

\* The lock of a vertex that does not exist: "Lock not found" is thrown, the
\* wrapper catches it and calls abort(), which does nothing.
AcquireThrows(w) ==
    /\ wpc[w] = "acquire"
    /\ \E l \in NextLocks(w) : ~LockExists(l)
    /\ wpc'   = [wpc EXCEPT ![w] = "idle"]
    /\ wneed' = [wneed EXCEPT ![w] = {}]
    /\ UNCHANGED <<storeVars, excl, shared, wtx, wts, wverts, wtodo, wcount,
                   readerVars, log>>

\* Mutant: the timestamp is drawn before the locks are held.
AllAcquired_Early(w) == TRUE

\* acquire_locks has returned.
AllAcquired(w) == wneed[w] = {}

\* timestamp = global_timestamp.fetch_add(1) + 1
TakeTimestamp(w) ==
    /\ wpc[w] = "acquire" /\ AllAcquired(w)
    /\ global_timestamp' = global_timestamp + 1
    /\ wts'    = [wts EXCEPT ![w] = global_timestamp + 1]
    /\ wverts' = [wverts EXCEPT ![w] = wtx[w].verts]
    /\ wtodo'  = [wtodo EXCEPT ![w] = DOMAIN wtx[w].edges]
    /\ wpc'    = [wpc EXCEPT ![w] = "apply"]
    /\ log'    = Append(log, wtx[w])
    /\ UNCHANGED <<m_vertex_count, versions, degree, excl, shared, wtx, wneed,
                   wcount, readerVars>>

\* VectorVertexIndex::insert_vertex: the id asked for is ignored, the entry is
\* pushed at the back with degree 0 at the transaction's timestamp.
InsertVertex(w) ==
    /\ wpc[w] = "apply" /\ wverts[w] > 0
    /\ m_vertex_count < NumVertices
    /\ m_vertex_count' = m_vertex_count + 1
    /\ degree' = [degree EXCEPT ![m_vertex_count] = UpdateDegree(<<>>, 0, wts[w])]
    /\ wverts' = [wverts EXCEPT ![w] = @ - 1]
    /\ UNCHANGED <<global_timestamp, versions, excl, shared, wpc, wtx, wneed, wts,
                   wtodo, wcount, readerVars, log>>

\* The edges inserted by the next call: with at most two edges one at a time in
\* the order they were added, otherwise insert_edge_batch of the lowest source.
NextEdges(w) ==
    LET edges == wtx[w].edges IN
    IF Len(edges) <= 2
    THEN {i \in wtodo[w] : \A j \in wtodo[w] : i <= j}
    ELSE {i \in wtodo[w] : \A j \in wtodo[w] : edges[i][1] <= edges[j][1]}

\* Mutant: an insertion of an edge that is there already raises the degree too.
NewDests_All(u, dests) == dests

\* The destinations that get an entry of their own and so raise the degree.
NewDests(u, dests) == {v \in dests : versions[u][v] = <<>>}

\* Container::insert_edge and insert_edge_batch: an edge that is there gets a
\* version, an edge that is not an entry; then the degree.  A destination named
\* twice in one batch gets its timestamp once: no read tells the difference.
InsertEdges(w) ==
    /\ wpc[w] = "apply" /\ wverts[w] = 0
    /\ \E u \in Vertices :
        LET dests == {wtx[w].edges[i][2] : i \in NextEdges(w)}
            new   == NewDests(u, dests)
        IN  /\ NextEdges(w) # {}
            /\ \A i \in NextEdges(w) : wtx[w].edges[i][1] = u
            /\ versions' = [versions EXCEPT ![u] = [v \in Vertices |->
                    IF v \in dests THEN PushVersion(versions[u][v], wts[w])
                                   ELSE versions[u][v]]]
            /\ degree' = IF new = {} THEN degree ELSE
                [degree EXCEPT ![u] =
                    UpdateDegree(@, GetDegree(@, wts[w]) + Cardinality(new), wts[w])]
    /\ wtodo' = [wtodo EXCEPT ![w] = @ \ NextEdges(w)]
    /\ UNCHANGED <<global_timestamp, m_vertex_count, excl, shared, wpc, wtx, wneed,
                   wts, wverts, wcount, readerVars, log>>

\* Mutant: the path of at most two edges returns early as well.
LocksReleased_Batch(tx) == IF Len(tx.edges) <= 2 THEN {} ELSE LocksRequired(tx)

\* What commit() releases: nothing when it returns early for want of edges.
LocksReleased(tx) == IF tx.edges = <<>> THEN {} ELSE LocksRequired(tx)

Applied(w) ==
    /\ wpc[w] = "apply" /\ wverts[w] = 0 /\ wtodo[w] = {}
    /\ wpc'   = [wpc EXCEPT ![w] = "release"]
    /\ wneed' = [wneed EXCEPT ![w] = LocksReleased(wtx[w])]
    /\ UNCHANGED <<storeVars, excl, shared, wtx, wts, wverts, wtodo, wcount,
                   readerVars, log>>

ReleaseLock(w) ==
    /\ wpc[w] = "release"
    /\ \E l \in NextLocks(w) :
        /\ excl'  = [excl EXCEPT ![l] = Nobody]
        /\ wneed' = [wneed EXCEPT ![w] = @ \ {l}]
    /\ UNCHANGED <<storeVars, shared, wpc, wtx, wts, wverts, wtodo, wcount,
                   readerVars, log>>

EndWrite(w) ==
    /\ wpc[w] = "release" /\ wneed[w] = {}
    /\ wpc' = [wpc EXCEPT ![w] = "idle"]
    /\ UNCHANGED <<storeVars, excl, shared, wtx, wneed, wts, wverts, wtodo, wcount,
                   readerVars, log>>

-----------------------------------------------------------------------------
(* Read transactions *)

\* get_read_transaction: the timestamp of the snapshot.
BeginRead(r) ==
    /\ rpc[r] = "idle" /\ snapshot[r] = NoSnapshot /\ rcount[r] < MaxReads
    /\ snapshot' = [snapshot EXCEPT ![r] = global_timestamp]
    /\ UNCHANGED <<storeVars, excl, shared, writerVars, rpc, rop, rneed, rscan,
                   rcount, answer, log>>

\* The shared locks of a read, in the order it asks for them.
SharedLocks(op) ==
    CASE op.kind = "get_vertices"     -> <<IndexLock>>
      [] op.kind = "get_neighbor_ptr" -> <<IndexLock, op.u>>
      [] op.kind = "intersect"        -> <<op.u, op.v>>
      [] op.kind = "edge_count"       -> <<>>
      [] OTHER                        -> <<op.u>>

\* A read is called; edge_count locks the vertices one by one on its way.
StartRead(r, op) ==
    /\ rpc[r] = "idle" /\ snapshot[r] # NoSnapshot /\ rcount[r] < MaxReads
    /\ rpc'    = [rpc EXCEPT ![r] = IF op.kind = "edge_count" THEN "scan" ELSE "acquire"]
    /\ rop'    = [rop EXCEPT ![r] = op]
    /\ rneed'  = [rneed EXCEPT ![r] = SharedLocks(op)]
    /\ rscan'  = [rscan EXCEPT ![r] = [pos |-> 0, sum |-> 0]]
    /\ rcount' = [rcount EXCEPT ![r] = @ + 1]
    /\ UNCHANGED <<storeVars, excl, shared, writerVars, snapshot, answer, log>>

AcquireShared(r) ==
    /\ rpc[r] \in {"acquire", "reacquire"} /\ rneed[r] # <<>>
    /\ LET l == Head(rneed[r]) IN
        /\ LockExists(l) /\ CanLockShared(l)
        /\ shared' = [shared EXCEPT ![l][r] = @ + 1]
    /\ rneed' = [rneed EXCEPT ![r] = Tail(@)]
    /\ UNCHANGED <<storeVars, excl, writerVars, rpc, rop, rscan, rcount, snapshot,
                   answer, log>>

\* "Lock not found" leaves the read with the locks it has; nobody catches it.
AcquireSharedThrows(r) ==
    /\ rpc[r] \in {"acquire", "reacquire"} /\ rneed[r] # <<>>
    /\ ~LockExists(Head(rneed[r]))
    /\ rpc' = [rpc EXCEPT ![r] = "failed"]
    /\ UNCHANGED <<storeVars, excl, shared, writerVars, rop, rneed, rscan, rcount,
                   snapshot, answer, log>>

\* The vertex whose lists the read looks at.
ReadVertex(r) == IF rop[r].kind = "edge_count" THEN rscan[r].pos ELSE rop[r].u

\* Container::edges: the entries with a version the snapshot may see.
VisibleDests(u, ts) == {v \in Vertices : CheckVersion(versions[u][v], ts)}

\* begin(), then ++ to the end: ++ skips what the snapshot may not see, begin()
\* stands on the first entry whatever its version is.
IteratedDests(u, ts) ==
    LET entries == {v \in Vertices : versions[u][v] # <<>>}
    IN  Lowest(entries) \cup VisibleDests(u, ts)

\* What the container returns for a read of vertex u at ts, under the locks.
ReadValue(op, u, ts) ==
    CASE op.kind = "has_edge" -> op.v < m_vertex_count /\ CheckVersion(versions[u][op.v], ts)
      [] op.kind = "edges"    -> VisibleDests(u, ts)
      [] op.kind = "iterate"  -> IteratedDests(u, ts)
      [] op.kind = "degree"   -> GetDegree(degree[u], ts)

AllAcquiredShared(r) == rpc[r] = "acquire" /\ rneed[r] = <<>>

Read(r) ==
    /\ AllAcquiredShared(r)
    /\ rop[r].kind \in VersionedKinds \ {"edge_count"}
    /\ rop[r].kind = "degree" => HasDegree(degree[rop[r].u], snapshot[r])
    /\ answer' = [answer EXCEPT ![r] =
            [op |-> rop[r], ts |-> snapshot[r],
             value |-> ReadValue(rop[r], rop[r].u, snapshot[r])]]
    /\ rpc'   = [rpc EXCEPT ![r] = "release"]
    /\ rneed' = [rneed EXCEPT ![r] = SharedLocks(rop[r])]
    /\ UNCHANGED <<storeVars, excl, shared, writerVars, rop, rscan, rcount, snapshot, log>>

\* A read without a timestamp.  intersect() then calls acquire_lock_shared once
\* more where the other reads call release_lock_shared.
ReadUnversioned(r) ==
    /\ AllAcquiredShared(r)
    /\ rop[r].kind \in UnversionedKinds
    /\ rpc'   = [rpc EXCEPT ![r] =
                    IF rop[r].kind = "intersect" THEN "reacquire" ELSE "release"]
    /\ rneed' = [rneed EXCEPT ![r] = SharedLocks(rop[r])]
    /\ UNCHANGED <<storeVars, excl, shared, writerVars, rop, rscan, rcount, snapshot,
                   answer, log>>

\* get_degree finds no node old enough and throws, with the lock held.
ReadThrows(r) ==
    /\ AllAcquiredShared(r)
    /\ rop[r].kind \in {"degree", "edge_count"}
    /\ ~HasDegree(degree[ReadVertex(r)], snapshot[r])
    /\ rpc' = [rpc EXCEPT ![r] = "failed"]
    /\ UNCHANGED <<storeVars, excl, shared, writerVars, rop, rneed, rscan, rcount,
                   snapshot, answer, log>>

\* edge_count: the next vertex up to the current vertex count.
ScanVertex(r) ==
    /\ rpc[r] = "scan" /\ rscan[r].pos < m_vertex_count
    /\ rpc'   = [rpc EXCEPT ![r] = "acquire"]
    /\ rneed' = [rneed EXCEPT ![r] = <<rscan[r].pos>>]
    /\ UNCHANGED <<storeVars, excl, shared, writerVars, rop, rscan, rcount, snapshot,
                   answer, log>>

ScanDegree(r) ==
    /\ AllAcquiredShared(r)
    /\ rop[r].kind = "edge_count"
    /\ HasDegree(degree[rscan[r].pos], snapshot[r])
    /\ rscan' = [rscan EXCEPT ![r] =
                    [pos |-> @.pos + 1, sum |-> @.sum + GetDegree(degree[@.pos], snapshot[r])]]
    /\ rpc'   = [rpc EXCEPT ![r] = "release"]
    /\ rneed' = [rneed EXCEPT ![r] = <<rscan[r].pos>>]
    /\ UNCHANGED <<storeVars, excl, shared, writerVars, rop, rcount, snapshot, answer, log>>

ScanEnds(r) ==
    /\ rpc[r] = "scan" /\ rscan[r].pos >= m_vertex_count
    /\ answer' = [answer EXCEPT ![r] =
                    [op |-> rop[r], ts |-> snapshot[r], value |-> rscan[r].sum]]
    /\ rpc' = [rpc EXCEPT ![r] = "idle"]
    /\ UNCHANGED <<storeVars, excl, shared, writerVars, rop, rneed, rscan, rcount,
                   snapshot, log>>

\* Mutant: the lock is given back a second time.
ReleaseShared_Twice(r) ==
    /\ rpc[r] = "release" /\ rneed[r] # <<>>
    /\ shared' = [shared EXCEPT ![Head(rneed[r])][r] = @ - 2]
    /\ rneed'  = [rneed EXCEPT ![r] = Tail(@)]
    /\ UNCHANGED <<storeVars, excl, writerVars, rpc, rop, rscan, rcount, snapshot,
                   answer, log>>

ReleaseShared(r) ==
    /\ rpc[r] = "release" /\ rneed[r] # <<>>
    /\ shared' = [shared EXCEPT ![Head(rneed[r])][r] = @ - 1]
    /\ rneed'  = [rneed EXCEPT ![r] = Tail(@)]
    /\ UNCHANGED <<storeVars, excl, writerVars, rpc, rop, rscan, rcount, snapshot,
                   answer, log>>

\* The call returns, or edge_count goes on to its next vertex.
ReadReturns(r) ==
    /\ rpc[r] \in {"release", "reacquire"} /\ rneed[r] = <<>>
    /\ rpc' = [rpc EXCEPT ![r] = IF rop[r].kind = "edge_count" THEN "scan" ELSE "idle"]
    /\ UNCHANGED <<storeVars, excl, shared, writerVars, rop, rneed, rscan, rcount,
                   snapshot, answer, log>>

\* commit() of the read transaction: the next one takes a new timestamp.
EndRead(r) ==
    /\ rpc[r] = "idle" /\ snapshot[r] # NoSnapshot
    /\ snapshot' = [snapshot EXCEPT ![r] = NoSnapshot]
    /\ UNCHANGED <<storeVars, excl, shared, writerVars, rpc, rop, rneed, rscan,
                   rcount, answer, log>>

-----------------------------------------------------------------------------
(* The specification *)

NoTx == [verts |-> 0, edges |-> <<>>]
NoOp == [kind |-> "get_vertices", u |-> 0, v |-> 0]

\* The transaction the driver loads the vertices with, before it starts threads.
LoadTx == [verts |-> Loaded, edges |-> <<>>]
Preloaded == IF Loaded = 0 THEN <<>> ELSE <<LoadTx>>

\* After the load: its commit returned early and the loader still has the locks
\* LocksReleased leaves it.
Init ==
    /\ global_timestamp = Len(Preloaded)
    /\ m_vertex_count = Loaded
    /\ versions = [u \in Vertices |-> [v \in Vertices |-> <<>>]]
    /\ degree = [u \in Vertices |-> IF u < Loaded THEN UpdateDegree(<<>>, 0, 1) ELSE <<>>]
    /\ excl = [l \in Locks |-> IF l \in LocksRequired(LoadTx) \ LocksReleased(LoadTx)
                               THEN Loader ELSE Nobody]
    /\ shared = [l \in Locks |-> [r \in Readers |-> 0]]
    /\ wpc = [w \in Writers |-> "idle"]
    /\ wtx = [w \in Writers |-> NoTx]
    /\ wneed = [w \in Writers |-> {}]
    /\ wts = [w \in Writers |-> 0]
    /\ wverts = [w \in Writers |-> 0]
    /\ wtodo = [w \in Writers |-> {}]
    /\ wcount = [w \in Writers |-> 0]
    /\ rpc = [r \in Readers |-> "idle"]
    /\ rop = [r \in Readers |-> NoOp]
    /\ rneed = [r \in Readers |-> <<>>]
    /\ rscan = [r \in Readers |-> [pos |-> 0, sum |-> 0]]
    /\ rcount = [r \in Readers |-> 0]
    /\ snapshot = [r \in Readers |-> NoSnapshot]
    /\ answer = [r \in Readers |-> NoAnswer]
    /\ log = Preloaded

\* What a writer does once it has called commit(), and a reader in a read.
CommitStep(w) ==
    \/ AcquireLock(w) \/ AcquireThrows(w) \/ TakeTimestamp(w)
    \/ InsertVertex(w) \/ InsertEdges(w) \/ Applied(w)
    \/ ReleaseLock(w) \/ EndWrite(w)

ReadStep(r) ==
    \/ AcquireShared(r) \/ AcquireSharedThrows(r)
    \/ Read(r) \/ ReadUnversioned(r) \/ ReadThrows(r)
    \/ ScanVertex(r) \/ ScanDegree(r) \/ ScanEnds(r)
    \/ ReleaseShared(r) \/ ReadReturns(r)

Next ==
    \/ \E w \in Writers, tx \in Txs : BeginWrite(w, tx)
    \/ \E w \in Writers : CommitStep(w)
    \/ \E r \in Readers : BeginRead(r) \/ EndRead(r)
    \/ \E r \in Readers, op \in ReadOps : StartRead(r, op)
    \/ \E r \in Readers : ReadStep(r)

Spec == Init /\ [][Next]_vars

\* A thread inside a call keeps running: the scheduler is fair to every thread,
\* and nothing makes it call again.
Fairness ==
    /\ \A w \in Writers : WF_vars(CommitStep(w))
    /\ \A r \in Readers : WF_vars(ReadStep(r))

FairSpec == Spec /\ Fairness
-----------------------------------------------------------------------------
(* Properties *)

\* Types; above all the counts of shared holds, of which release_lock_shared gives
\* back none that was not taken.
TypeOK ==
    /\ global_timestamp \in Nat
    /\ m_vertex_count \in 0..NumVertices
    /\ versions \in [Vertices -> [Vertices -> Seq(Nat)]]
    /\ degree \in [Vertices -> Seq(DegreeNode)]
    /\ excl \in [Locks -> Writers \cup {Loader, Nobody}]
    /\ shared \in [Locks -> [Readers -> Nat]]
    /\ wpc \in [Writers -> {"idle", "acquire", "apply", "release"}]
    /\ wtx \in [Writers -> TxRecord]
    /\ wneed \in [Writers -> SUBSET Locks]
    /\ wts \in [Writers -> Nat]
    /\ wverts \in [Writers -> Nat]
    /\ wtodo \in [Writers -> SUBSET Nat]
    /\ wcount \in [Writers -> Nat]
    /\ rpc \in [Readers -> {"idle", "acquire", "reacquire", "scan", "release", "failed"}]
    /\ rop \in [Readers -> OpRecord]
    /\ rneed \in [Readers -> Seq(Locks)]
    /\ rscan \in [Readers -> [pos : Nat, sum : Nat]]
    /\ rcount \in [Readers -> Nat]
    /\ snapshot \in [Readers -> Nat \cup {NoSnapshot}]
    /\ DOMAIN answer = Readers
    /\ \A r \in Readers : answer[r] # NoAnswer => answer[r].op \in OpRecord /\ answer[r].ts \in Nat
    /\ log \in Seq(TxRecord)

\* The abstract store: the log is the history, a snapshot its timestamp; it is asked
\* what depends on the snapshot.
Store == INSTANCE SnapshotStore WITH
    Clients <- Readers, Updates <- Txs,
    ReadOps <- {op \in ReadOps : op.kind \in VersionedKinds}

\* Every answer a read gave is the one its snapshot owes: the edges of exactly
\* the transactions with a timestamp up to the snapshot's, whatever was being
\* committed while the read waited for its locks or, in edge_count, went from
\* vertex to vertex.
SnapshotReads ==
    \A r \in Readers : answer[r] # NoAnswer =>
        answer[r].value = Store!Owed(log, answer[r].op, answer[r].ts)

\* Each commit, snapshot and answer is a step of the abstract store, the commit
\* at the fetch_add: between it and the release no reader sees half of it.
ImplementsStore == Store!Spec

\* The edges a writer has a timestamp for and did not insert yet.
Pending(w) == {wtx[w].edges[i] : i \in wtodo[w]}

\* The version chain of an edge holds the timestamps of exactly the logged
\* transactions that insert it, but for those still at work on it; and whoever
\* is at work on an edge owns the lock of its source.
ChainsMatchLog ==
    \A u, v \in Vertices :
        LET logged == {t \in DOMAIN log : <<u, v>> \in EdgesOf(log[t])}
            open   == {wts[w] : w \in {x \in Writers : <<u, v>> \in Pending(x)}}
        IN  /\ ToSet(versions[u][v]) \subseteq logged
            /\ logged \ open \subseteq ToSet(versions[u][v])
            /\ open # {} => excl[u] \in Writers

\* Whenever nobody holds a vertex exclusively its degree list agrees with its
\* version chains, at every timestamp a snapshot may have.
DegreesMatchEdges ==
    \A u \in Vertices : excl[u] = Nobody =>
        \A ts \in 0..global_timestamp : HasDegree(degree[u], ts) =>
            GetDegree(degree[u], ts) = Cardinality(VisibleDests(u, ts))

\* Versions are newest first, so the first match of a degree list and the head
\* of a chain are the newest: writers of a vertex insert in timestamp order.
NewestFirst ==
    \A u \in Vertices :
        /\ \A i, j \in DOMAIN degree[u] : i < j => degree[u][i].ts >= degree[u][j].ts
        /\ \A v \in Vertices : \A i, j \in DOMAIN versions[u][v] :
                i < j => versions[u][v][i] >= versions[u][v][j]

\* A commit that stops at the lock of a vertex which was not loaded has taken l before.
StopsAfter(tx, l) ==
    \E e, f \in EdgesOf(tx) : e[1] = l /\ l < f[1] /\ Loaded <= f[1]

\* A call that returns leaves a lock behind in three ways and in no other: the index
\* lock, of a commit that inserted vertices and returned early for want of edges
\* (of the loader: of its load); the locks in front of the one a commit did not
\* find, abort() giving nothing back; and those of an intersect(), taken twice each.
\* (A read that throws does not return: nobody catches it, and it keeps its locks.)
NoLockLeft ==
    /\ \A w \in Writers, l \in Locks : wpc[w] = "idle" /\ excl[l] = w =>
        \/ l = IndexLock /\ \E t \in DOMAIN log : log[t].verts > 0 /\ log[t].edges = <<>>
        \/ \E tx \in Txs : StopsAfter(tx, l)
    /\ \A l \in Locks : excl[l] = Loader => l = IndexLock /\ Loaded > 0
    /\ \A r \in Readers, l \in Locks : rpc[r] = "idle" /\ shared[l][r] > 0 =>
        /\ shared[l][r] % 2 = 0
        /\ \E op \in ReadOps : op.kind = "intersect" /\ l \in {op.u, op.v}

\* How many vertices the first t of some transactions insert, for each t.
Inserted(txs) ==
    LET ids[t \in 0..Len(txs)] == IF t = 0 THEN 0 ELSE ids[t-1] + txs[t].verts IN ids

\* The vertices the first ts transactions of the log insert have the ids below.
VerticesAt(ts) == Inserted(log)[ts]

\* get_degree refuses a snapshot ("Invalid timestamp") only for a vertex that
\* was inserted after the snapshot was taken: update_degree never pushes out the
\* node an older snapshot needs.
OnlyNewVerticesThrow ==
    \A r \in Readers : rpc[r] = "failed" /\ rneed[r] = <<>> =>
        ReadVertex(r) >= VerticesAt(snapshot[r])

\* Every commit returns: sorted acquisition leaves no cycle of waiting threads.
CommitsReturn == \A w \in Writers : (wpc[w] # "idle") ~> (wpc[w] = "idle")

\* A read at the index lock the loader has: its commit returned early.
WaitsForLoader(r) ==
    rpc[r] = "acquire" /\ rneed[r] # <<>> /\ excl[Head(rneed[r])] = Loader

\* Every read returns, the locks it waits for being given back by commits and reads
\* that return, unless it asks for the index lock after a load of vertices: then it
\* spins for ever, in get_vertices and get_neighbor_ptr.
ReadsReturn ==
    \A r \in Readers : (rpc[r] # "idle") ~> (rpc[r] = "idle" \/ WaitsForLoader(r))
=============================================================================
