------------------------------ MODULE VersionGC ------------------------------
(***************************************************************************)
(* Version collection (ENABLE_GC): the registrations of the snapshots in   *)
(* ActiveVersionManager, the thread of TransactionManager that computes    *)
(* the oldest timestamp in use and cuts the version lists, and the life of *)
(* the Snapshot objects of base_2pl.h, against commits that go on.         *)
(*                                                                         *)
(* Module TwoPhaseTx has the steps of a commit and of a read; here a       *)
(* commit is its fetch_add and its insertions, both under the locks of its *)
(* sources, and a read is what a snapshot would see of a vertex that no    *)
(* writer owns.  The collector takes one vertex lock at a time, so a       *)
(* vertex is cut in one step.                                              *)
(***************************************************************************)
EXTENDS Integers, Sequences, FiniteSets, VersionChain

CONSTANTS
    Writers,      \* threads that commit
    Handles,      \* Snapshot objects
    Kinds,        \* how they are made: "shared", "unique", "clone", "failed"
    EdgeSets,     \* the edges a commit may insert
    NumVertices,  \* vertices the main thread loads
    MaxTimestamp, \* bound on the timestamps
    MaxActive,    \* bound on the registrations of one timestamp
    Indexes       \* vertex indexes the store may be built with: "vector", "hashmap"

Vertices == 0..NumVertices - 1
NoWork   == [ts |-> 0, edges |-> {}]

ASSUME CollectorAssumption ==
    /\ NumVertices \in Nat \ {0} /\ MaxTimestamp \in Nat \ {0} /\ MaxActive \in Nat
    /\ EdgeSets \subseteq SUBSET (Vertices \X Vertices)
    /\ Kinds \subseteq {"shared", "unique", "clone", "failed"}
    /\ Indexes \subseteq {"vector", "hashmap"}

VARIABLES
    main,              \* where the owner of the TransactionManager is
    stopped,           \* TransactionManager::stopped
    indexLeaked,       \* the index lock is held by a commit that has returned
    global_timestamp,
    min_timestamp,     \* ActiveVersionManager::min_timestamp
    active,            \* active[ts]: registrations in active_read_transactions
    m_vertex_count, versions, degree,
    work,              \* work[w]: timestamp and edges of a commit under its locks
    hpc, hkind, hts,   \* a Snapshot: where it is, how it was made, its timestamp
    gcpc,              \* where the collector is
    gcload,            \* the global timestamp it read, 0 once it was used
    gcpos,             \* the vertex it cuts next
    log                \* history: the edges of the commits, by timestamp

mainVars   == <<main, stopped>>
storeVars  == <<global_timestamp, m_vertex_count, versions, degree>>
handleVars == <<hpc, hkind, hts>>
gcVars     == <<gcpc, gcload, gcpos>>
vars == <<mainVars, indexLeaked, storeVars, min_timestamp, active, work, handleVars,
          gcVars, log>>

Timestamps == 0..MaxTimestamp
Owned(u)   == \E w \in Writers : u \in {e[1] : e \in work[w].edges}

-----------------------------------------------------------------------------
(* The owner: constructor, load, destructor *)

\* The collector thread was started before: it is the first member initialised.
Construct ==
    /\ main = "constructing"
    /\ main' = "loading" /\ stopped' = FALSE
    /\ UNCHANGED <<indexLeaked, storeVars, min_timestamp, active, work, handleVars, gcVars, log>>

\* run_batch_vertex_update: one commit that returns early; the vector index has a
\* lock to leak, lock() of the hash map does nothing for the index.
Load ==
    /\ main = "loading"
    /\ main' = "running"
    /\ global_timestamp' = 1 /\ log' = <<{}>>
    /\ m_vertex_count' = NumVertices
    /\ degree' = [u \in Vertices |-> UpdateDegree(<<>>, 0, 1)]
    /\ \E index \in Indexes : indexLeaked' = (index = "vector")
    /\ UNCHANGED <<stopped, versions, min_timestamp, active, work, handleVars, gcVars>>

\* ~TransactionManager, when nobody uses the store any more, and its join.
Stop ==
    /\ main = "running"
    /\ \A h \in Handles : hpc[h] = "none"
    /\ \A w \in Writers : work[w] = NoWork
    /\ main' = "stopping" /\ stopped' = TRUE
    /\ UNCHANGED <<indexLeaked, storeVars, min_timestamp, active, work, handleVars, gcVars, log>>

Join ==
    /\ main = "stopping" /\ gcpc = "exit"
    /\ main' = "joined"
    /\ UNCHANGED <<stopped, indexLeaked, storeVars, min_timestamp, active, work, handleVars,
                   gcVars, log>>

-----------------------------------------------------------------------------
(* Commits *)

TakeTimestamp(w, edges) ==
    /\ main = "running" /\ work[w] = NoWork /\ global_timestamp < MaxTimestamp
    /\ edges # {} /\ \A e \in edges : ~ Owned(e[1])
    /\ global_timestamp' = global_timestamp + 1
    /\ work' = [work EXCEPT ![w] = [ts |-> global_timestamp + 1, edges |-> edges]]
    /\ log'  = Append(log, edges)
    /\ UNCHANGED <<mainVars, indexLeaked, m_vertex_count, versions, degree, min_timestamp,
                   active, handleVars, gcVars>>

Insert(w) ==
    LET ts == work[w].ts
        added(u) == {v \in Vertices : <<u, v>> \in work[w].edges}
        new(u)   == {v \in added(u) : versions[u][v] = <<>>}
    IN  /\ work[w] # NoWork
        /\ versions' = [u \in Vertices |-> [v \in Vertices |->
                IF v \in added(u) THEN PushVersion(versions[u][v], ts) ELSE versions[u][v]]]
        /\ degree' = [u \in Vertices |->
                IF new(u) = {} THEN degree[u]
                ELSE UpdateDegree(degree[u], GetDegree(degree[u], ts) + Cardinality(new(u)), ts)]
        /\ work' = [work EXCEPT ![w] = NoWork]
        /\ UNCHANGED <<mainVars, indexLeaked, global_timestamp, m_vertex_count, min_timestamp,
                       active, handleVars, gcVars, log>>

-----------------------------------------------------------------------------
(* Snapshots *)

\* begin_read_transaction
Registered(ts) == [active EXCEPT ![ts] = @ + 1]

\* Mutant: the registration is ended without find() being asked.
Unregistered_Blind(ts) == [active EXCEPT ![ts] = @ - 1]

\* end_read_transaction erases one registration of ts, if there is any.
Unregistered(ts) == [active EXCEPT ![ts] = IF @ > 0 THEN @ - 1 ELSE 0]

\* get_read_transaction: the timestamp is loaded first and registered later.
LoadTimestamp(h, kind) ==
    /\ main = "running" /\ hpc[h] = "none" /\ kind \in Kinds \ {"clone"}
    /\ hpc'   = [hpc EXCEPT ![h] = "loaded"]
    /\ hkind' = [hkind EXCEPT ![h] = kind]
    /\ hts'   = [hts EXCEPT ![h] = global_timestamp]
    /\ UNCHANGED <<mainVars, indexLeaked, storeVars, min_timestamp, active, work, gcVars, log>>

Register(h) ==
    /\ hpc[h] = "loaded" /\ active[hts[h]] < MaxActive
    /\ active' = Registered(hts[h])
    /\ hpc' = [hpc EXCEPT ![h] = IF hkind[h] = "shared" THEN "live" ELSE hkind[h]]
    /\ UNCHANGED <<mainVars, indexLeaked, storeVars, min_timestamp, work, hkind, hts, gcVars, log>>

\* get_unique_snapshot: the Snapshot returned is a copy of a local one, whose
\* destructor ends the read transaction both of them are of.
DropTemporary(h) ==
    /\ hpc[h] = "unique"
    /\ active' = Unregistered(hts[h])
    /\ hpc' = [hpc EXCEPT ![h] = "live"]
    /\ UNCHANGED <<mainVars, indexLeaked, storeVars, min_timestamp, work, hkind, hts, gcVars, log>>

\* The object and its members are gone.
Gone(h) ==
    /\ hpc'   = [hpc EXCEPT ![h] = "none"]
    /\ hkind' = [hkind EXCEPT ![h] = "shared"]
    /\ hts'   = [hts EXCEPT ![h] = 0]

\* A read of the wrapper that throws: its transaction is never ended.
ReadThrows(h) ==
    /\ hpc[h] = "failed"
    /\ Gone(h)
    /\ UNCHANGED <<mainVars, indexLeaked, storeVars, min_timestamp, active, work, gcVars, log>>

\* Snapshot::clone: the copy has the timestamp and no registration of its own.
Clone(h, g) ==
    /\ "clone" \in Kinds /\ hpc[g] = "live" /\ hpc[h] = "none"
    /\ hpc'   = [hpc EXCEPT ![h] = "live"]
    /\ hkind' = [hkind EXCEPT ![h] = "clone"]
    /\ hts'   = [hts EXCEPT ![h] = hts[g]]
    /\ UNCHANGED <<mainVars, indexLeaked, storeVars, min_timestamp, active, work, gcVars, log>>

\* ~Snapshot
Close(h) ==
    /\ hpc[h] = "live"
    /\ active' = Unregistered(hts[h])
    /\ Gone(h)
    /\ UNCHANGED <<mainVars, indexLeaked, storeVars, min_timestamp, work, gcVars, log>>

-----------------------------------------------------------------------------
(* The collector *)

\* Mutant: a round that is over starts the next one without asking.
Leaves_Never == FALSE

\* while (!stopped.load())
Leaves == stopped

CheckStopped ==
    /\ gcpc = "check"
    /\ gcpc' = IF Leaves THEN "exit" ELSE "load"
    /\ UNCHANGED <<mainVars, indexLeaked, storeVars, min_timestamp, active, work, handleVars,
                   gcload, gcpos, log>>

LoadGlobal ==
    /\ gcpc = "load"
    /\ gcload' = global_timestamp
    /\ gcpc' = "update"
    /\ UNCHANGED <<mainVars, indexLeaked, storeVars, min_timestamp, active, work, handleVars,
                   gcpos, log>>

UpdateMinVersion ==
    LET registered == {ts \in Timestamps : active[ts] > 0} IN
    /\ gcpc = "update"
    /\ min_timestamp' = IF registered = {} THEN gcload
                        ELSE CHOOSE ts \in registered : \A t \in registered : ts <= t
    /\ gcpc' = "collect" /\ gcload' = 0
    /\ UNCHANGED <<mainVars, indexLeaked, storeVars, active, work, handleVars, gcpos, log>>

\* gc_all compares with prev_timestamp, which stays 0, and asks for the index lock.
BeginCollect ==
    /\ gcpc = "collect" /\ (min_timestamp = 0 \/ ~ indexLeaked)
    /\ gcpc'  = IF min_timestamp = 0 THEN "check" ELSE "scan"
    /\ gcpos' = 0
    /\ UNCHANGED <<mainVars, indexLeaked, storeVars, min_timestamp, active, work, handleVars,
                   gcload, log>>

\* Mutant: the degree of the head goes as well when it is old.
CutDegree_Head(u) == SelectSeq(degree[u], LAMBDA n : n.ts >= min_timestamp)
CutDegree(u) == GcDegree(degree[u], min_timestamp)

\* The entries its iterator passes: the first one, then those with a version
\* visible at min_timestamp.
Passed(u) ==
    LET entries == {v \in Vertices : versions[u][v] # <<>>}
    IN  {v \in entries : (\A x \in entries : v <= x) \/ CheckVersion(versions[u][v], min_timestamp)}

\* Mutant: the head goes as well when it is old.
CutChain_Head(chain) == SelectSeq(chain, LAMBDA ts : ts >= min_timestamp)
CutChain(chain) == GcChain(chain, min_timestamp)

CutVertex ==
    /\ gcpc = "scan" /\ gcpos < m_vertex_count /\ ~ Owned(gcpos)
    /\ degree'   = [degree EXCEPT ![gcpos] = CutDegree(gcpos)]
    /\ versions' = [versions EXCEPT ![gcpos] = [v \in Vertices |->
            IF v \in Passed(gcpos) THEN CutChain(@[v]) ELSE @[v]]]
    /\ gcpos' = gcpos + 1
    /\ UNCHANGED <<mainVars, indexLeaked, global_timestamp, m_vertex_count, min_timestamp,
                   active, work, handleVars, gcpc, gcload, log>>

\* The end of a round, and the sleep before the next one.
EndCollect ==
    /\ gcpc = "scan" /\ gcpos = m_vertex_count
    /\ gcpc' = "check" /\ gcpos' = 0
    /\ UNCHANGED <<mainVars, indexLeaked, storeVars, min_timestamp, active, work, handleVars,
                   gcload, log>>

-----------------------------------------------------------------------------
Init ==
    /\ main = "constructing" /\ stopped = TRUE /\ indexLeaked = FALSE
    /\ global_timestamp = 0 /\ min_timestamp = 0
    /\ active = [ts \in Timestamps |-> 0]
    /\ m_vertex_count = 0
    /\ versions = [u \in Vertices |-> [v \in Vertices |-> <<>>]]
    /\ degree = [u \in Vertices |-> <<>>]
    /\ work = [w \in Writers |-> NoWork]
    /\ hpc = [h \in Handles |-> "none"]
    /\ hkind = [h \in Handles |-> "shared"]
    /\ hts = [h \in Handles |-> 0]
    /\ gcpc = "check" /\ gcload = 0 /\ gcpos = 0
    /\ log = <<>>

Owner     == Construct \/ Load \/ Stop \/ Join
Collector == CheckStopped \/ LoadGlobal \/ UpdateMinVersion \/ BeginCollect \/ CutVertex \/ EndCollect
Snapshot(h) ==
    \/ \E kind \in Kinds : LoadTimestamp(h, kind)
    \/ Register(h) \/ DropTemporary(h) \/ ReadThrows(h) \/ Close(h)
    \/ \E g \in Handles : Clone(h, g)

Next ==
    \/ Owner \/ Collector
    \/ \E w \in Writers : Insert(w) \/ \E edges \in EdgeSets : TakeTimestamp(w, edges)
    \/ \E h \in Handles : Snapshot(h)

Spec == Init /\ [][Next]_vars

\* The scheduler runs the collector, the constructor, a join and a commit that has
\* its timestamp; nobody has to commit, to take a snapshot or to stop.
FairSpec ==
    /\ Spec
    /\ WF_vars(Collector) /\ WF_vars(Construct \/ Load \/ Join)
    /\ \A w \in Writers : WF_vars(Insert(w))

-----------------------------------------------------------------------------
(* Properties *)

\* Types; a snapshot has a timestamp that was drawn, and no registration is ended
\* that was not made.
TypeOK ==
    /\ main \in {"constructing", "loading", "running", "stopping", "joined"}
    /\ stopped \in BOOLEAN /\ indexLeaked \in BOOLEAN
    /\ global_timestamp \in Timestamps /\ min_timestamp \in Timestamps
    /\ active \in [Timestamps -> Nat]
    /\ m_vertex_count \in 0..NumVertices
    /\ versions \in [Vertices -> [Vertices -> Seq(Timestamps)]]
    /\ degree \in [Vertices -> Seq(DegreeNode)]
    /\ work \in [Writers -> [ts : Timestamps, edges : SUBSET (Vertices \X Vertices)]]
    /\ hpc \in [Handles -> {"none", "loaded", "unique", "failed", "live"}]
    /\ hkind \in [Handles -> Kinds \cup {"shared"}]
    /\ hts \in [Handles -> 0..global_timestamp]
    /\ gcpc \in {"check", "load", "update", "collect", "scan", "exit"}
    /\ gcload \in 0..global_timestamp /\ gcpos \in 0..NumVertices
    /\ log \in Seq(SUBSET (Vertices \X Vertices))

Logged(u, v) == {t \in DOMAIN log : <<u, v>> \in log[t]}
NeighborsAt(u, ts)  == {v \in Vertices : \E t \in Logged(u, v) : t <= ts}
VisibleDests(u, ts) == {v \in Vertices : CheckVersion(versions[u][v], ts)}

\* The vertices a reader can lock.
Readable == {u \in Vertices : u < m_vertex_count /\ ~ Owned(u)}

\* Whatever was collected, a snapshot taken now sees every committed edge and the
\* right degree: collection keeps the newest version of everything.
LatestSurvives ==
    \A u \in Readable :
        /\ VisibleDests(u, global_timestamp) = NeighborsAt(u, global_timestamp)
        /\ HasDegree(degree[u], global_timestamp)
        /\ GetDegree(degree[u], global_timestamp) = Cardinality(NeighborsAt(u, global_timestamp))

\* No snapshot, however old, sees an edge before it was committed, and of an edge
\* inserted once none loses sight.
OnceInsertedSurvives ==
    \A h \in Handles, u \in Readable, v \in Vertices :
        /\ hpc[h] = "live" /\ v \in VisibleDests(u, hts[h]) => v \in NeighborsAt(u, hts[h])
        /\ hpc[h] = "live" /\ v \in NeighborsAt(u, hts[h]) /\ Cardinality(Logged(u, v)) = 1 =>
                v \in VisibleDests(u, hts[h])

\* A round spares the snapshots it was computed for: while min_timestamp is not above
\* the timestamp of a snapshot in use, cutting a vertex takes no edge out of its sight.
CutsSpareSnapshots ==
    [][CutVertex => \A h \in Handles, v \in Vertices :
            /\ hpc[h] = "live" /\ min_timestamp <= hts[h]
            /\ v \in VisibleDests(gcpos, hts[h])
            => CheckVersion(versions'[gcpos][v], hts[h])]_vars

\* The collector at the index lock that the early return of the load's commit left.
WaitsForLoad == indexLeaked /\ gcpc = "collect" /\ min_timestamp # 0

\* The collector ends when it is told to, so the destructor's join returns, unless
\* the vertex index is the vector and the collector is at its lock: after a load
\* nobody releases that, and gc_all spins for ever.
DestructorReturns == (main = "stopping") ~> (main = "joined" \/ WaitsForLoad)
=============================================================================
