-------------------------- MODULE TwoPhaseTxProofs --------------------------
(***************************************************************************)
(* Safety of the transactions for every number of threads, vertices,       *)
(* transactions and reads.                                                 *)
(*                                                                         *)
(* The argument has three layers.  The first, LockInv, says who holds      *)
(* which lock at each program counter and that nothing a writer finds      *)
(* under its locks is newer than its timestamp; types need it, since a     *)
(* release decrements a count and an insertion reads a degree.  The        *)
(* second, StoreInv, says what the store contains: the logged edges, but   *)
(* for those of the writers that own their source.  The third, ReadInv,    *)
(* says what the readers were told.                                        *)
(***************************************************************************)
EXTENDS TwoPhaseTx, VersionChainProofs, FiniteSetTheorems

-----------------------------------------------------------------------------
(* The first layer *)

\* The locks a writer owns at its program counter.
Held(w) ==
    {l \in LocksRequired(wtx[w]) :
        \/ wpc[w] = "acquire" /\ l \notin wneed[w]
        \/ wpc[w] = "apply"
        \/ wpc[w] = "release" /\ l \in wneed[w]}

OwnsLocks(w) ==
    /\ \A l \in Held(w) : excl[l] = w /\ LockExists(l)
    /\ wneed[w] \subseteq LocksRequired(wtx[w])
    /\ wpc[w] \in {"idle", "apply"} => wneed[w] = {}
    /\ wpc[w] # "apply" => wtodo[w] = {}
    /\ wtodo[w] \subseteq DOMAIN wtx[w].edges

\* The locks of the current call of a reader; edge_count has one vertex at a time.
CallLocks(r) == IF rop[r].kind = "edge_count" THEN <<rscan[r].pos>> ELSE SharedLocks(rop[r])

HoldsShared(r) ==
    /\ rpc[r] # "idle" => snapshot[r] # NoSnapshot
    /\ rpc[r] = "scan" => rop[r].kind = "edge_count"
    /\ rpc[r] = "acquire" /\ rop[r].kind = "edge_count" => rscan[r].pos \in Vertices
    /\ rpc[r] = "acquire" =>
        \A l \in ToSet(CallLocks(r)) : l \in ToSet(rneed[r]) \/ shared[l][r] > 0
    /\ rpc[r] = "release" =>
        /\ \A l \in ToSet(rneed[r]) : shared[l][r] > 0
        /\ \A i, j \in DOMAIN rneed[r] : rneed[r][i] = rneed[r][j] => i = j

LocksExclude ==
    \A l \in Locks, r \in Readers : shared[l][r] > 0 => excl[l] = Nobody

\* No timestamp of a vertex's lists is newer than ts.
NotNewer(u, ts) ==
    /\ \A i \in DOMAIN degree[u] : degree[u][i].ts <= ts
    /\ \A v \in Vertices : \A t \in ToSet(versions[u][v]) : t <= ts

\* A writer with a timestamp is the transaction logged at it, and the lists
\* under its locks were written before it.
Stamped(w) ==
    wpc[w] = "apply" =>
        /\ wts[w] \in DOMAIN log /\ log[wts[w]] = wtx[w]
        /\ \A u \in Vertices \cap LocksRequired(wtx[w]) : NotNewer(u, wts[w])

StoreInTime ==
    /\ global_timestamp = Len(log)
    /\ \A u \in Vertices : NotNewer(u, Len(log))
    /\ \A u \in Vertices : u < m_vertex_count => degree[u] # <<>>
    /\ \A u \in Vertices : u >= m_vertex_count =>
        degree[u] = <<>> /\ \A v \in Vertices : versions[u][v] = <<>>

LockInv ==
    /\ TypeOK
    /\ \A w \in Writers : OwnsLocks(w)
    /\ \A r \in Readers : HoldsShared(r)
    /\ LocksExclude
    /\ StoreInTime
    /\ \A w \in Writers : Stamped(w)

-----------------------------------------------------------------------------
(* Facts about the helpers *)

\* The id of a vertex is the number of its lock; the index has one of its own.
LEMMA VerticesAreLocks ==
    /\ NumVertices \in Nat \ {0} /\ Loaded \in 0..NumVertices
    /\ Vertices \subseteq Nat /\ Locks \subseteq Nat
    /\ Vertices \subseteq Locks /\ IndexLock \in Locks /\ IndexLock \notin Vertices
BY WorkAssumption DEF WorkAssumption, Vertices, Locks, IndexLock

\* The fields of a transaction and the locks it requires and releases.
LEMMA TxTypes ==
    ASSUME NEW tx \in TxRecord
    PROVE  /\ tx.verts \in Nat
           /\ tx.edges \in Seq(Vertices \X Vertices)
           /\ DOMAIN tx.edges \subseteq Nat
           /\ \A i \in DOMAIN tx.edges :
                /\ tx.edges[i] \in Vertices \X Vertices
                /\ tx.edges[i][1] \in Vertices /\ tx.edges[i][2] \in Vertices
                /\ tx.edges[i] = <<tx.edges[i][1], tx.edges[i][2]>>
                /\ tx.edges[i][1] \in LocksRequired(tx)
           /\ LocksRequired(tx) \subseteq Locks
           /\ LocksReleased(tx) \subseteq LocksRequired(tx)
<1>1. tx.verts \in Nat /\ tx.edges \in Seq(Vertices \X Vertices)
  BY DEF TxRecord
<1>2. /\ DOMAIN tx.edges \subseteq Nat
      /\ \A i \in DOMAIN tx.edges : tx.edges[i] \in Vertices \X Vertices
  BY <1>1, LenProperties, ElementOfSeq
<1>3. \A i \in DOMAIN tx.edges :
        /\ tx.edges[i][1] \in Vertices /\ tx.edges[i][2] \in Vertices
        /\ tx.edges[i] = <<tx.edges[i][1], tx.edges[i][2]>>
  BY <1>2
<1>4. \A i \in DOMAIN tx.edges : tx.edges[i][1] \in LocksRequired(tx)
  BY DEF LocksRequired, EdgesOf
<1>5. LocksRequired(tx) \subseteq Locks
  BY <1>3, VerticesAreLocks DEF LocksRequired, EdgesOf
<1>6. LocksReleased(tx) \subseteq LocksRequired(tx)
  BY DEF LocksReleased
<1> QED
  BY <1>1, <1>2, <1>3, <1>4, <1>5, <1>6

\* The fields of a read and the locks it takes, each once but for intersect.
LEMMA OpTypes ==
    ASSUME NEW op \in OpRecord
    PROVE  /\ op.u \in Vertices /\ op.v \in Vertices
           /\ op.kind \in VersionedKinds \cup UnversionedKinds
           /\ SharedLocks(op) \in Seq(Locks)
           /\ op.kind # "intersect" =>
                \A i, j \in DOMAIN SharedLocks(op) : SharedLocks(op)[i] = SharedLocks(op)[j] => i = j
<1>1. op.u \in Vertices /\ op.v \in Vertices /\ op.kind \in VersionedKinds \cup UnversionedKinds
  BY DEF OpRecord
<1>2. op.u \in Locks /\ op.v \in Locks /\ op.u # IndexLock /\ IndexLock \in Locks
  BY <1>1, VerticesAreLocks
<1>3. SharedLocks(op) \in Seq(Locks)
  BY <1>1, <1>2 DEF SharedLocks
<1>4. ASSUME op.kind # "intersect", NEW i \in DOMAIN SharedLocks(op), NEW j \in DOMAIN SharedLocks(op),
             SharedLocks(op)[i] = SharedLocks(op)[j]
      PROVE  i = j
  <2>1. CASE op.kind = "get_neighbor_ptr"
    <3>1. SharedLocks(op) = <<IndexLock, op.u>>
      BY <2>1 DEF SharedLocks
    <3> QED
      BY <3>1, <1>2, <1>4
  <2>2. CASE op.kind # "get_neighbor_ptr"
    <3>1. SharedLocks(op) \in {<<IndexLock>>, <<op.u>>, <<>>}
      BY <2>2, <1>4 DEF SharedLocks
    <3> QED
      BY <3>1, <1>4
  <2> QED
    BY <2>1, <2>2
<1> QED
  BY <1>1, <1>3, <1>4

\* The shortest-first sequence operators AcquireShared and ReleaseShared use.
LEMMA HeadAndTail ==
    ASSUME NEW s \in Seq(Locks), s # <<>>
    PROVE  /\ Head(s) \in Locks /\ Head(s) \in ToSet(s)
           /\ Tail(s) \in Seq(Locks)
           /\ ToSet(s) = {Head(s)} \cup ToSet(Tail(s))
           /\ (\A i, j \in DOMAIN s : s[i] = s[j] => i = j) =>
                /\ Head(s) \notin ToSet(Tail(s))
                /\ \A i, j \in DOMAIN Tail(s) : Tail(s)[i] = Tail(s)[j] => i = j
<1>1. /\ Len(s) \in Nat \ {0} /\ DOMAIN s = 1..Len(s)
      /\ Head(s) = s[1] /\ s[1] \in Locks
      /\ Tail(s) \in Seq(Locks) /\ Len(Tail(s)) = Len(s) - 1
      /\ \A i \in 1..Len(Tail(s)) : Tail(s)[i] = s[i + 1]
  BY LenProperties, EmptySeq, HeadTailProperties
<1>2. DOMAIN Tail(s) = 1 .. Len(s) - 1
  BY <1>1, LenProperties
<1>3. \A i \in DOMAIN s : i = 1 \/ (i - 1 \in DOMAIN Tail(s) /\ s[i] = Tail(s)[i - 1])
  BY <1>1, <1>2
<1>4. \A i \in DOMAIN Tail(s) : i \in Int /\ i + 1 # 1 /\ i + 1 \in DOMAIN s /\ Tail(s)[i] = s[i + 1]
  BY <1>1, <1>2
<1>5. 1 \in DOMAIN s
  BY <1>1
<1>6. ToSet(s) = {Head(s)} \cup ToSet(Tail(s))
  <2>1. \A l \in ToSet(s) : l = Head(s) \/ l \in ToSet(Tail(s))
    <3> SUFFICES ASSUME NEW i \in DOMAIN s PROVE s[i] = Head(s) \/ s[i] \in ToSet(Tail(s))
      BY DEF ToSet
    <3>1. CASE i = 1
      BY <1>1, <3>1
    <3>2. CASE i # 1
      <4>1. i - 1 \in DOMAIN Tail(s) /\ s[i] = Tail(s)[i - 1]
        BY <1>3, <3>2
      <4> QED
        BY <4>1 DEF ToSet
    <3> QED
      BY <3>1, <3>2
  <2>2. Head(s) \in ToSet(s)
    BY <1>1, <1>5 DEF ToSet
  <2>3. \A l \in ToSet(Tail(s)) : l \in ToSet(s)
    BY <1>4 DEF ToSet
  <2> QED
    BY <2>1, <2>2, <2>3
<1>7. ASSUME \A i, j \in DOMAIN s : s[i] = s[j] => i = j
      PROVE  /\ Head(s) \notin ToSet(Tail(s))
             /\ \A i, j \in DOMAIN Tail(s) : Tail(s)[i] = Tail(s)[j] => i = j
  <2>1. \A i \in DOMAIN Tail(s) : Head(s) # Tail(s)[i]
    BY <1>1, <1>4, <1>5, <1>7
  <2>2. \A i, j \in DOMAIN Tail(s) : Tail(s)[i] = Tail(s)[j] => i = j
    <3> SUFFICES ASSUME NEW i \in DOMAIN Tail(s), NEW j \in DOMAIN Tail(s), Tail(s)[i] = Tail(s)[j]
                 PROVE  i = j
      OBVIOUS
    <3>1. i + 1 = j + 1
      BY <1>4, <1>7
    <3> QED
      BY <1>4, <3>1
  <2> QED
    BY <2>1, <2>2 DEF ToSet
<1> QED
  BY <1>1, <1>6, <1>7

-----------------------------------------------------------------------------
(* What a step of one thread leaves to the others *)

\* A writer's claims survive what does not take its locks away.
LEMMA OthersOwn ==
    ASSUME TypeOK, NEW x \in Writers, OwnsLocks(x),
           wpc'[x] = wpc[x], wtx'[x] = wtx[x], wneed'[x] = wneed[x], wtodo'[x] = wtodo[x],
           m_vertex_count' \in Nat, m_vertex_count <= m_vertex_count',
           \A l \in Locks : excl[l] = x => excl'[l] = x
    PROVE  OwnsLocks(x)'
<1>1. wtx[x] \in TxRecord /\ m_vertex_count \in Nat
  BY DEF TypeOK
<1>2. Held(x) \subseteq Locks
  BY <1>1, TxTypes DEF Held
<1>3. Held(x)' = Held(x)
  BY DEF Held
<1>4. \A l \in Locks : LockExists(l) => LockExists(l)'
  <2>1. \A l \in Locks : l \in Nat
    BY VerticesAreLocks
  <2> QED
    BY <1>1, <2>1 DEF LockExists
<1>5. \A l \in Held(x)' : excl'[l] = x /\ LockExists(l)'
  BY <1>2, <1>3, <1>4 DEF OwnsLocks
<1> QED
  BY <1>5 DEF OwnsLocks

\* The same when no vertex is inserted.
LEMMA OthersOwnStill ==
    ASSUME LockInv, NEW x \in Writers, UNCHANGED m_vertex_count,
           wpc'[x] = wpc[x], wtx'[x] = wtx[x], wneed'[x] = wneed[x], wtodo'[x] = wtodo[x],
           \A l \in Locks : excl[l] = x => excl'[l] = x
    PROVE  OwnsLocks(x)'
<1>1. m_vertex_count' \in Nat /\ m_vertex_count <= m_vertex_count'
  BY DEF LockInv, TypeOK
<1>2. TypeOK /\ OwnsLocks(x)
  BY DEF LockInv
<1> QED
  BY <1>1, <1>2, OthersOwn

\* The steps of readers leave the writers' side alone, and the other way round.
LEMMA ReaderFrame ==
    ASSUME LockInv, UNCHANGED <<storeVars, excl, writerVars, log>>
    PROVE  /\ \A w \in Writers : OwnsLocks(w)'
           /\ StoreInTime'
           /\ \A w \in Writers : Stamped(w)'
<1> USE DEF storeVars, writerVars
<1>1. \A w \in Writers : OwnsLocks(w)'
  BY DEF LockInv, OwnsLocks, Held, LockExists
<1>2. \A u, ts : NotNewer(u, ts)' <=> NotNewer(u, ts)
  BY DEF NotNewer
<1>3. StoreInTime'
  BY <1>2 DEF LockInv, StoreInTime, NotNewer
<1>4. \A w \in Writers : Stamped(w)'
  BY <1>2 DEF LockInv, Stamped, NotNewer
<1> QED
  BY <1>1, <1>3, <1>4

\* What writers do leaves the holds of the readers as they are.
LEMMA WriterFrame ==
    ASSUME LockInv, UNCHANGED <<shared, readerVars>>
    PROVE  \A r \in Readers : HoldsShared(r)'
BY DEF LockInv, HoldsShared, CallLocks, readerVars

\* A writer that writes nothing leaves the store and the timestamps.
LEMMA StoreFrame ==
    ASSUME LockInv, NEW w \in Writers, UNCHANGED <<storeVars, log>>,
           wpc'[w] # "apply",
           \A x \in Writers \ {w} : wpc'[x] = wpc[x] /\ wtx'[x] = wtx[x] /\ wts'[x] = wts[x]
    PROVE  StoreInTime' /\ \A x \in Writers : Stamped(x)'
<1> USE DEF storeVars
<1>1. StoreInTime'
  BY DEF LockInv, StoreInTime, NotNewer
<1>2. ASSUME NEW x \in Writers \ {w} PROVE Stamped(x)'
  BY <1>2 DEF LockInv, Stamped, NotNewer
<1>3. Stamped(w)'
  BY DEF Stamped
<1> QED
  BY <1>1, <1>2, <1>3

\* The locks one reader moves do not touch the other readers' claims.
LEMMA OthersHold ==
    ASSUME NEW q \in Readers, HoldsShared(q),
           rpc'[q] = rpc[q], rop'[q] = rop[q], rneed'[q] = rneed[q], rscan'[q] = rscan[q],
           snapshot'[q] = snapshot[q],
           \A l : shared[l][q] > 0 => shared'[l][q] > 0
    PROVE  HoldsShared(q)'
<1>1. CallLocks(q)' = CallLocks(q)
  BY DEF CallLocks
<1> QED
  BY <1>1 DEF HoldsShared

-----------------------------------------------------------------------------
(* The steps of writers *)

\* A transaction begins with every lock still to be acquired.
LEMMA BeginWriteKeeps ==
    ASSUME LockInv, NEW w \in Writers, NEW tx \in Txs, BeginWrite(w, tx)
    PROVE  LockInv'
<1>0. TypeOK /\ tx \in TxRecord /\ OwnsLocks(w)
  BY WorkAssumption DEF LockInv, WorkAssumption
<1>1. TypeOK'
  BY <1>0, TxTypes DEF BeginWrite, TypeOK, storeVars, readerVars
<1>2. wpc'[w] = "acquire" /\ wtx'[w] = tx /\ wneed'[w] = LocksRequired(tx) /\ wtodo'[w] = {}
  BY <1>0 DEF BeginWrite, TypeOK, OwnsLocks
<1>3. OwnsLocks(w)'
  BY <1>2 DEF OwnsLocks, Held
<1>4. ASSUME NEW x \in Writers \ {w} PROVE OwnsLocks(x)'
  <2>1. wpc'[x] = wpc[x] /\ wtx'[x] = wtx[x] /\ wneed'[x] = wneed[x]
    BY <1>0, <1>4 DEF BeginWrite, TypeOK
  <2> QED
    BY <1>4, <2>1, OthersOwnStill DEF BeginWrite, storeVars
<1>5. \A r \in Readers : HoldsShared(r)'
  BY WriterFrame DEF BeginWrite
<1>6. LocksExclude'
  BY DEF LockInv, LocksExclude, BeginWrite
<1>7. StoreInTime' /\ \A x \in Writers : Stamped(x)'
  BY <1>0, <1>2, StoreFrame DEF BeginWrite, TypeOK
<1> QED
  BY <1>1, <1>3, <1>4, <1>5, <1>6, <1>7 DEF LockInv

\* acquire_locks adds one lock to those the writer owns.
LEMMA AcquireLockKeeps ==
    ASSUME LockInv, NEW w \in Writers, AcquireLock(w)
    PROVE  LockInv'
<1>0. TypeOK /\ OwnsLocks(w)
  BY DEF LockInv
<1>1. PICK l \in NextLocks(w) :
        /\ LockExists(l) /\ CanLock(l)
        /\ excl'  = [excl EXCEPT ![l] = w]
        /\ wneed' = [wneed EXCEPT ![w] = @ \ {l}]
  BY DEF AcquireLock
<1>2. l \in wneed[w] /\ l \in Locks /\ wtx[w] \in TxRecord
  BY <1>0, <1>1 DEF NextLocks, Lowest, TypeOK
<1>3. wpc[w] = "acquire" /\ UNCHANGED <<storeVars, shared, wpc, wtx, wts, wverts, wtodo, wcount,
                   readerVars, log>>
  BY DEF AcquireLock
<1>4. TypeOK'
  BY <1>0, <1>1, <1>2, <1>3 DEF TypeOK, storeVars, readerVars
<1>5. /\ wneed'[w] = wneed[w] \ {l}
      /\ excl'[l] = w /\ \A k \in Locks \ {l} : excl'[k] = excl[k]
      /\ excl[l] = Nobody /\ \A r \in Readers : shared[l][r] = 0
  BY <1>0, <1>1, <1>2 DEF TypeOK, CanLock
<1>6. OwnsLocks(w)'
  <2>1. Held(w)' \subseteq Held(w) \cup {l}
    BY <1>3, <1>5 DEF Held
  <2>2. Held(w) \subseteq Locks
    BY <1>2, TxTypes DEF Held
  <2>3. \A k \in Held(w)' : excl'[k] = w /\ LockExists(k)'
    BY <1>0, <1>1, <1>3, <1>5, <2>1, <2>2 DEF OwnsLocks, LockExists, storeVars
  <2> QED
    BY <1>0, <1>3, <1>5, <2>3 DEF OwnsLocks
<1>7. ASSUME NEW x \in Writers \ {w} PROVE OwnsLocks(x)'
  <2>1. \A k \in Locks : excl[k] = x => excl'[k] = x
    BY <1>5, ThreadAssumption DEF ThreadAssumption
  <2>2. wneed'[x] = wneed[x]
    BY <1>0, <1>1, <1>7 DEF TypeOK
  <2> QED
    BY <1>3, <1>7, <2>1, <2>2, OthersOwnStill DEF storeVars
<1>8. \A r \in Readers : HoldsShared(r)'
  BY <1>3, WriterFrame
<1>9. LocksExclude'
  BY <1>3, <1>5 DEF LockInv, LocksExclude
<1>10. StoreInTime' /\ \A x \in Writers : Stamped(x)'
  BY <1>3, StoreFrame
<1> QED
  BY <1>4, <1>6, <1>7, <1>8, <1>9, <1>10 DEF LockInv

\* A commit that throws is over, with whatever it owns.
LEMMA AcquireThrowsKeeps ==
    ASSUME LockInv, NEW w \in Writers, AcquireThrows(w)
    PROVE  LockInv'
<1>0. TypeOK /\ OwnsLocks(w)
  BY DEF LockInv
<1>1. TypeOK'
  BY <1>0 DEF AcquireThrows, TypeOK, storeVars, readerVars
<1>2. wpc'[w] = "idle" /\ wneed'[w] = {} /\ wtodo'[w] = {}
  BY <1>0 DEF AcquireThrows, TypeOK, OwnsLocks
<1>3. OwnsLocks(w)'
  BY <1>2 DEF OwnsLocks, Held
<1>4. ASSUME NEW x \in Writers \ {w} PROVE OwnsLocks(x)'
  <2>1. wpc'[x] = wpc[x] /\ wneed'[x] = wneed[x]
    BY <1>0, <1>4 DEF AcquireThrows, TypeOK
  <2> QED
    BY <1>4, <2>1, OthersOwnStill DEF AcquireThrows, storeVars
<1>5. \A r \in Readers : HoldsShared(r)'
  BY WriterFrame DEF AcquireThrows
<1>6. LocksExclude'
  BY DEF LockInv, LocksExclude, AcquireThrows
<1>7. StoreInTime' /\ \A x \in Writers : Stamped(x)'
  BY <1>0, <1>2, StoreFrame DEF AcquireThrows, TypeOK
<1> QED
  BY <1>1, <1>3, <1>4, <1>5, <1>6, <1>7 DEF LockInv

\* The lists hold naturals, and what is not newer than ts is not newer later.
LEMMA ListTypes ==
    ASSUME TypeOK, NEW u \in Vertices
    PROVE  /\ degree[u] \in Seq(DegreeNode)
           /\ \A i \in DOMAIN degree[u] : degree[u][i].ts \in Nat /\ degree[u][i].deg \in Nat
           /\ \A v \in Vertices : versions[u][v] \in Seq(Nat) /\ ToSet(versions[u][v]) \subseteq Nat
<1>1. degree[u] \in Seq(DegreeNode) /\ \A v \in Vertices : versions[u][v] \in Seq(Nat)
  BY DEF TypeOK
<1>2. \A c \in Seq(Nat) : ToSet(c) \subseteq Nat
  BY LenProperties, ElementOfSeq DEF ToSet
<1> QED
  BY <1>1, <1>2, NodeTypes

\* Entries not newer than a timestamp are not newer than a later one.
LEMMA NotNewerLater ==
    ASSUME TypeOK, NEW u \in Vertices, NEW s \in Int, NEW t \in Int, s <= t, NotNewer(u, s)
    PROVE  NotNewer(u, t)
<1>1. ASSUME NEW i \in DOMAIN degree[u] PROVE degree[u][i].ts <= t
  BY ListTypes DEF NotNewer
<1>2. ASSUME NEW v \in Vertices, NEW k \in ToSet(versions[u][v]) PROVE k <= t
  <2>1. k \in Nat /\ k <= s
    BY ListTypes DEF NotNewer
  <2> QED
    BY <2>1
<1> QED
  BY <1>1, <1>2 DEF NotNewer

\* The new timestamp is above all that was inserted under the locks.
LEMMA TakeTimestampKeeps ==
    ASSUME LockInv, NEW w \in Writers, TakeTimestamp(w)
    PROVE  LockInv'
<1>0. TypeOK /\ OwnsLocks(w) /\ wtx[w] \in TxRecord /\ log \in Seq(TxRecord)
  BY DEF LockInv, TypeOK
<1>1. /\ Len(log) \in Nat /\ DOMAIN log = 1..Len(log) /\ global_timestamp = Len(log)
      /\ log' \in Seq(TxRecord) /\ Len(log') = Len(log) + 1 /\ DOMAIN log' = 1 .. Len(log) + 1
      /\ log'[Len(log) + 1] = wtx[w] /\ \A t \in DOMAIN log : log'[t] = log[t]
  BY <1>0, LenProperties, AppendProperties DEF TakeTimestamp, LockInv, StoreInTime
<1>2. TypeOK'
  <2>1. global_timestamp' \in Nat /\ wts' \in [Writers -> Nat] /\ wpc' \in [Writers -> {"idle", "acquire", "apply", "release"}]
    BY <1>0 DEF TakeTimestamp, TypeOK
  <2>2. wverts' \in [Writers -> Nat] /\ wtodo' \in [Writers -> SUBSET Nat]
    BY <1>0, TxTypes DEF TakeTimestamp, TypeOK
  <2>3. UNCHANGED <<m_vertex_count, versions, degree, excl, shared, wtx, wneed, wcount, readerVars>>
    BY DEF TakeTimestamp
  <2> QED
    BY <1>0, <1>1, <2>1, <2>2, <2>3 DEF TypeOK, readerVars
<1>3. /\ wpc[w] = "acquire" /\ wneed[w] = {} /\ wneed' = wneed /\ wtx' = wtx
      /\ UNCHANGED <<m_vertex_count, versions, degree, excl, shared, readerVars>>
      /\ wpc'[w] = "apply" /\ wts'[w] = Len(log) + 1 /\ wtodo'[w] = DOMAIN wtx[w].edges
      /\ \A x \in Writers \ {w} : wpc'[x] = wpc[x] /\ wts'[x] = wts[x] /\ wtodo'[x] = wtodo[x]
  BY <1>0, <1>1 DEF TakeTimestamp, TypeOK, AllAcquired
<1>4. OwnsLocks(w)'
  <2>1. Held(w)' = Held(w)
    BY <1>3 DEF Held
  <2>2. \A k \in Held(w)' : excl'[k] = w /\ LockExists(k)'
    BY <1>0, <1>3, <2>1 DEF OwnsLocks, LockExists
  <2> QED
    BY <1>3, <2>2 DEF OwnsLocks
<1>5. ASSUME NEW x \in Writers \ {w} PROVE OwnsLocks(x)'
  BY <1>3, <1>5, OthersOwnStill
<1>6. \A r \in Readers : HoldsShared(r)'
  BY <1>3, WriterFrame
<1>7. LocksExclude'
  BY <1>3 DEF LockInv, LocksExclude
<1>8. ASSUME NEW u \in Vertices, NEW ts \in Int, NotNewer(u, ts) PROVE NotNewer(u, ts)'
  BY <1>3, <1>8 DEF NotNewer
<1>9. \A u \in Vertices : NotNewer(u, Len(log) + 1)
  BY <1>0, <1>1, NotNewerLater DEF LockInv, StoreInTime
<1>10. StoreInTime'
  <2>1. global_timestamp' = Len(log')
    BY <1>1 DEF TakeTimestamp
  <2>2. \A u \in Vertices : NotNewer(u, Len(log))'
    BY <1>1, <1>3, <1>9 DEF NotNewer
  <2> QED
    BY <1>3, <2>1, <2>2 DEF LockInv, StoreInTime
<1>11. ASSUME NEW x \in Writers PROVE Stamped(x)'
  <2>1. CASE x = w
    <3>1. \A u \in Vertices : NotNewer(u, wts[w])'
      BY <1>1, <1>3, <1>9 DEF NotNewer
    <3> QED
      BY <1>1, <1>3, <2>1, <3>1 DEF Stamped
  <2>2. CASE x # w
    BY <1>1, <1>3, <2>2 DEF LockInv, Stamped, NotNewer
  <2> QED
    BY <2>1, <2>2
<1> QED
  BY <1>2, <1>4, <1>5, <1>6, <1>7, <1>10, <1>11 DEF LockInv

\* insert_vertex appends under the index lock.
LEMMA InsertVertexKeeps ==
    ASSUME LockInv, NEW w \in Writers, InsertVertex(w)
    PROVE  LockInv'
<1>a. m_vertex_count \in 0..NumVertices /\ m_vertex_count < NumVertices
  BY DEF LockInv, TypeOK, InsertVertex
<1>b. m_vertex_count \in Vertices
  BY <1>a, VerticesAreLocks DEF Vertices
<1>c. PICK m \in Vertices : m = m_vertex_count
  BY <1>b
<1>0. TypeOK /\ OwnsLocks(w) /\ m = m_vertex_count /\ m \in Nat /\ m < NumVertices
  BY <1>a, <1>c DEF LockInv
<1>1. wpc[w] = "apply" /\ wts[w] \in Nat /\ wts[w] \in DOMAIN log /\ log[wts[w]] = wtx[w]
  BY DEF LockInv, TypeOK, InsertVertex, Stamped
<1>2. Len(log) \in Nat /\ DOMAIN log = 1..Len(log) /\ wts[w] <= Len(log)
  BY <1>1, LenProperties DEF LockInv, TypeOK
<1> DEFINE one == UpdateDegree(<<>>, 0, wts[w])
<1>3. one \in Seq(DegreeNode) /\ one # <<>> /\ \A i \in DOMAIN one : one[i].ts = wts[w]
  <2>1. one \in Seq(DegreeNode)
    BY <1>1, EmptySeq, UpdateDegreeReads
  <2>2. one = <<[deg |-> 0, ts |-> wts[w]]>>
    BY DEF UpdateDegree
  <2> QED
    BY <2>1, <2>2, SMTT(40)
<1>4. /\ m_vertex_count' = m + 1 /\ wverts' = [wverts EXCEPT ![w] = @ - 1] /\ wverts[w] > 0
      /\ degree'[m] = one /\ \A u \in Vertices \ {m} : degree'[u] = degree[u]
      /\ degree' = [degree EXCEPT ![m] = one]
      /\ UNCHANGED <<global_timestamp, versions, excl, shared, wpc, wtx, wneed, wts,
                   wtodo, wcount, readerVars, log>>
  BY <1>0, <1>c DEF InsertVertex, TypeOK
<1> HIDE DEF one
<1>5. TypeOK'
  <2>1. degree' \in [Vertices -> Seq(DegreeNode)]
    BY <1>0, <1>3, <1>4 DEF TypeOK
  <2>2. m_vertex_count' \in 0..NumVertices /\ wverts' \in [Writers -> Nat]
    BY <1>0, <1>4, VerticesAreLocks DEF TypeOK
  <2> QED
    BY <1>0, <1>4, <2>1, <2>2 DEF TypeOK, readerVars
<1>6. ASSUME NEW x \in Writers PROVE OwnsLocks(x)'
  <2>1. m_vertex_count' \in Nat /\ m_vertex_count <= m_vertex_count'
    BY <1>0, <1>4
  <2> QED
    BY <1>0, <1>4, <2>1, OthersOwn DEF LockInv
<1>7. \A r \in Readers : HoldsShared(r)'
  BY <1>4, WriterFrame
<1>8. LocksExclude'
  BY <1>4 DEF LockInv, LocksExclude
<1>10. StoreInTime'
  <2>1. \A u \in Vertices : NotNewer(u, Len(log))'
    <3>1. \A u \in Vertices \ {m} : NotNewer(u, Len(log))'
      BY <1>4 DEF LockInv, StoreInTime, NotNewer
    <3>2. NotNewer(m, Len(log))'
      BY <1>0, <1>2, <1>3, <1>4 DEF LockInv, StoreInTime, NotNewer
    <3> QED
      BY <1>0, <3>1, <3>2
  <2>0. \A u \in Vertices : u \in Nat
    BY VerticesAreLocks
  <2>2. \A u \in Vertices : u < m + 1 => degree'[u] # <<>>
    <3>1. \A u \in Vertices : u < m + 1 => u = m \/ u < m_vertex_count
      BY <1>0, <2>0
    <3>2. \A u \in Vertices : u < m_vertex_count => degree[u] # <<>>
      BY DEF LockInv, StoreInTime
    <3>3. \A u \in Vertices : u = m \/ degree'[u] = degree[u]
      BY <1>4
    <3> QED
      BY <1>3, <1>4, <3>1, <3>2, <3>3
  <2>3. \A u \in Vertices : u >= m + 1 =>
            degree'[u] = <<>> /\ \A v \in Vertices : versions'[u][v] = <<>>
    BY <1>0, <1>4, <2>0 DEF LockInv, StoreInTime
  <2> QED
    BY <1>4, <2>1, <2>2, <2>3 DEF LockInv, StoreInTime
<1>11. ASSUME NEW x \in Writers PROVE Stamped(x)'
  <2> SUFFICES ASSUME wpc[x] = "apply", NEW u \in Vertices \cap LocksRequired(wtx[x])
               PROVE  NotNewer(u, wts[x])'
    BY <1>4 DEF LockInv, Stamped
  <2>1. u < m
    <3>1. LockExists(u)
      BY DEF LockInv, OwnsLocks, Held
    <3> QED
      BY <1>0, <3>1, VerticesAreLocks DEF LockExists
  <2>2. NotNewer(u, wts[x])
    BY DEF LockInv, Stamped
  <2>3. u # m
    BY <1>0, <2>1, VerticesAreLocks
  <2> QED
    BY <1>4, <2>2, <2>3 DEF NotNewer
<1> QED
  BY <1>5, <1>6, <1>7, <1>8, <1>10, <1>11 DEF LockInv

\* The insertion of w's edges from u to the vertices d, with what holds before it.
InsertsAt(w, u, d) ==
    /\ wpc[w] = "apply" /\ u \in LocksRequired(wtx[w])
    /\ excl[u] = w /\ u < m_vertex_count
    /\ NextEdges(w) # {} /\ NextEdges(w) \subseteq wtodo[w]
    /\ d = {wtx[w].edges[i][2] : i \in NextEdges(w)}
    /\ \A i \in NextEdges(w) : wtx[w].edges[i][1] = u
    /\ NewDests(u, d) \subseteq Vertices /\ Cardinality(NewDests(u, d)) \in Nat
    /\ GetDegree(degree[u], wts[w]) \in Nat /\ HasDegree(degree[u], wts[w])
    /\ \A x \in Vertices \ {u} : versions'[x] = versions[x] /\ degree'[x] = degree[x]
    /\ versions' = [versions EXCEPT ![u] = [v \in Vertices |->
            IF v \in d THEN PushVersion(versions[u][v], wts[w]) ELSE versions[u][v]]]
    /\ \A v \in Vertices : versions'[u][v] =
            IF v \in d THEN PushVersion(versions[u][v], wts[w]) ELSE versions[u][v]
    /\ DOMAIN degree' = Vertices
    /\ degree'[u] = IF NewDests(u, d) = {} THEN degree[u] ELSE
            UpdateDegree(degree[u],
                GetDegree(degree[u], wts[w]) + Cardinality(NewDests(u, d)), wts[w])
    /\ wtodo' = [wtodo EXCEPT ![w] = @ \ NextEdges(w)]
    /\ UNCHANGED <<global_timestamp, m_vertex_count, excl, shared, wpc, wtx, wneed,
                   wts, wverts, wcount, readerVars, log>>

\* What one insert_edge or insert_edge_batch does, for one source the writer owns.
LEMMA InsertEdgesFacts ==
    ASSUME LockInv, NEW w \in Writers, InsertEdges(w)
    PROVE  \E u \in Vertices, d \in SUBSET Vertices : InsertsAt(w, u, d)
<1> DEFINE d == {wtx[w].edges[i][2] : i \in NextEdges(w)}
<1>0. TypeOK /\ OwnsLocks(w) /\ wpc[w] = "apply" /\ wtx[w] \in TxRecord /\ wts[w] \in Nat
  BY DEF LockInv, TypeOK, InsertEdges
<1>1. PICK u \in Vertices :
        /\ NextEdges(w) # {}
        /\ \A i \in NextEdges(w) : wtx[w].edges[i][1] = u
        /\ versions' = [versions EXCEPT ![u] = [v \in Vertices |->
                IF v \in d THEN PushVersion(versions[u][v], wts[w]) ELSE versions[u][v]]]
        /\ degree' = IF NewDests(u, d) = {} THEN degree ELSE
                [degree EXCEPT ![u] = UpdateDegree(@,
                    GetDegree(@, wts[w]) + Cardinality(NewDests(u, d)), wts[w])]
  BY DEF InsertEdges
<1>2. NextEdges(w) \subseteq wtodo[w] /\ wtodo[w] \subseteq DOMAIN wtx[w].edges
  BY <1>0 DEF NextEdges, OwnsLocks
<1>3. d \in SUBSET Vertices
  BY <1>0, <1>2, TxTypes
<1>4. u \in LocksRequired(wtx[w])
  BY <1>0, <1>1, <1>2, TxTypes
<1>5. excl[u] = w /\ u < m_vertex_count
  <2>1. u \in Held(w)
    BY <1>0, <1>4 DEF Held
  <2>2. excl[u] = w /\ LockExists(u)
    BY <1>0, <2>1 DEF OwnsLocks
  <2> QED
    BY <2>2, VerticesAreLocks DEF LockExists
<1>6. HasDegree(degree[u], wts[w])
  <2>1. degree[u] # <<>> /\ NotNewer(u, wts[w])
    BY <1>0, <1>4, <1>5 DEF LockInv, StoreInTime, Stamped
  <2>2. degree[u] \in Seq(DegreeNode)
    BY <1>0 DEF TypeOK
  <2>3. 1 \in DOMAIN degree[u]
    BY <2>1, <2>2, LenProperties, EmptySeq
  <2> QED
    BY <2>1, <2>3 DEF HasDegree, NotNewer
<1>7. GetDegree(degree[u], wts[w]) \in Nat
  BY <1>0, <1>6, ListTypes, GetDegreeType
<1> HIDE DEF d
<1>8. NewDests(u, d) \subseteq Vertices /\ Cardinality(NewDests(u, d)) \in Nat
  <2>1. NewDests(u, d) \in SUBSET Vertices
    BY <1>3 DEF NewDests
  <2>2. IsFiniteSet(Vertices)
    BY FS_Interval, WorkAssumption DEF WorkAssumption, Vertices
  <2> QED
    BY <2>1, <2>2, FS_Subset, FS_CardinalityType
<1>9. /\ \A x \in Vertices \ {u} : versions'[x] = versions[x] /\ degree'[x] = degree[x]
      /\ \A v \in Vertices : versions'[u][v] =
            IF v \in d THEN PushVersion(versions[u][v], wts[w]) ELSE versions[u][v]
  BY <1>0, <1>1 DEF TypeOK
<1>10. /\ DOMAIN degree' = Vertices
       /\ degree'[u] = IF NewDests(u, d) = {} THEN degree[u] ELSE
            UpdateDegree(degree[u],
                GetDegree(degree[u], wts[w]) + Cardinality(NewDests(u, d)), wts[w])
  BY <1>0, <1>1 DEF TypeOK
<1>11. InsertsAt(w, u, d)
  BY <1>0, <1>1, <1>2, <1>4, <1>5, <1>6, <1>7, <1>8, <1>9, <1>10 DEF InsertsAt, InsertEdges, d
<1> QED
  BY <1>3, <1>11

\* Insertions stay at or below the writer's timestamp.
LEMMA InsertEdgesKeeps ==
    ASSUME LockInv, NEW w \in Writers, InsertEdges(w)
    PROVE  LockInv'
<1>0. TypeOK /\ OwnsLocks(w) /\ wpc[w] = "apply" /\ wtx[w] \in TxRecord /\ wts[w] \in Nat
  BY DEF LockInv, TypeOK, InsertEdges
<1>1. PICK u \in Vertices, d \in SUBSET Vertices : InsertsAt(w, u, d)
  BY InsertEdgesFacts
<1>2. wts[w] <= Len(log) /\ Len(log) \in Nat /\ NotNewer(u, wts[w])
  BY <1>0, <1>1, LenProperties DEF InsertsAt, LockInv, Stamped, TypeOK
<1>3. ASSUME NEW v \in Vertices
      PROVE  versions'[u][v] \in Seq(Nat) /\ \A t \in ToSet(versions'[u][v]) : t <= wts[w]
  <2>1. versions[u][v] \in Seq(Nat)
    BY <1>0 DEF TypeOK
  <2>2. \A t \in ToSet(versions[u][v]) : t <= wts[w]
    BY <1>2 DEF NotNewer
  <2>3. versions'[u][v] = IF v \in d THEN PushVersion(versions[u][v], wts[w]) ELSE versions[u][v]
    BY <1>1 DEF InsertsAt
  <2>4. wts[w] <= wts[w]
    BY <1>0
  <2> QED
    BY <1>0, <2>1, <2>2, <2>3, <2>4, PushVersionAdds
<1>4. degree'[u] \in Seq(DegreeNode) /\ \A i \in DOMAIN degree'[u] : degree'[u][i].ts <= wts[w]
  <2>1. CASE NewDests(u, d) = {}
    BY <1>0, <1>1, <1>2, <2>1 DEF InsertsAt, NotNewer, TypeOK
  <2>2. CASE NewDests(u, d) # {}
    <3> DEFINE sum == GetDegree(degree[u], wts[w]) + Cardinality(NewDests(u, d))
               new == UpdateDegree(degree[u], sum, wts[w])
    <3>1. sum \in Nat /\ degree'[u] = new /\ degree[u] \in Seq(DegreeNode)
      <4>1. sum \in Nat
        BY <1>1 DEF InsertsAt
      <4>2. degree'[u] = new
        BY <1>1, <2>2 DEF InsertsAt
      <4> QED
        BY <1>0, <4>1, <4>2, ListTypes
    <3> HIDE DEF sum
    <3>2. new \in Seq(DegreeNode)
      BY <1>0, <3>1, UpdateDegreeReads
    <3>3. \A i \in DOMAIN new : new[i].ts <= wts[w]
      <4>1. \A i \in DOMAIN degree[u] : degree[u][i].ts <= wts[w]
        BY <1>2 DEF NotNewer
      <4> HIDE DEF new
      <4>2. wts[w] \in Int /\ wts[w] <= wts[w]
        BY <1>0
      <4> QED
        BY <1>0, <3>1, <4>1, <4>2, UpdateDegreeNodes DEF new
    <3> QED
      BY <3>1, <3>2, <3>3
  <2> QED
    BY <2>1, <2>2
<1>5. degree'[u] # <<>>
  <2>1. CASE NewDests(u, d) = {}
    BY <1>1, <2>1 DEF InsertsAt, LockInv, StoreInTime
  <2>2. CASE NewDests(u, d) # {}
    <3> DEFINE sum == GetDegree(degree[u], wts[w]) + Cardinality(NewDests(u, d))
    <3>1. sum \in Nat /\ degree'[u] = UpdateDegree(degree[u], sum, wts[w])
      BY <1>1, <2>2 DEF InsertsAt
    <3>2. degree[u] \in Seq(DegreeNode)
      BY <1>0, ListTypes
    <3> HIDE DEF sum
    <3> QED
      BY <1>0, <3>1, <3>2, UpdateDegreeNodes
  <2> QED
    BY <2>1, <2>2
<1>6. TypeOK'
  <2>1. versions' \in [Vertices -> [Vertices -> Seq(Nat)]]
    <3>1. \A x \in Vertices : versions'[x] \in [Vertices -> Seq(Nat)]
      <4>1. versions'[u] = [v \in Vertices |->
                IF v \in d THEN PushVersion(versions[u][v], wts[w]) ELSE versions[u][v]]
        BY <1>0, <1>1 DEF InsertsAt, TypeOK
      <4>2. versions'[u] = [v \in Vertices |-> versions'[u][v]]
        BY <4>1
      <4>3. versions'[u] \in [Vertices -> Seq(Nat)]
        BY <1>3, <4>2
      <4> QED
        BY <1>0, <1>1, <4>3 DEF InsertsAt, TypeOK
    <3> QED
      BY <1>0, <1>1, <3>1 DEF InsertsAt, TypeOK
  <2>2. degree' \in [Vertices -> Seq(DegreeNode)]
    <3>1. \A x \in Vertices : degree'[x] \in Seq(DegreeNode)
      BY <1>0, <1>1, <1>4 DEF InsertsAt, TypeOK
    <3>2. degree' = [x \in Vertices |-> degree'[x]]
      BY <1>0, <1>1 DEF InsertEdges, TypeOK
    <3> QED
      BY <3>1, <3>2
  <2> QED
    BY <1>0, <1>1, <2>1, <2>2 DEF InsertsAt, TypeOK, readerVars
<1>7. OwnsLocks(w)'
  <2>1. Held(w)' = Held(w) /\ wtodo'[w] \subseteq wtodo[w]
    BY <1>0, <1>1 DEF InsertsAt, Held, TypeOK
  <2> QED
    BY <1>0, <1>1, <2>1 DEF InsertsAt, OwnsLocks, LockExists
<1>8. ASSUME NEW x \in Writers \ {w} PROVE OwnsLocks(x)'
  <2>1. m_vertex_count' = m_vertex_count /\ m_vertex_count \in Nat /\ m_vertex_count <= m_vertex_count
    BY <1>0, <1>1 DEF InsertsAt, TypeOK
  <2>2. OwnsLocks(x) /\ wtodo'[x] = wtodo[x]
    BY <1>0, <1>1, <1>8 DEF LockInv, InsertsAt, TypeOK
  <2> QED
    BY <1>0, <1>1, <1>8, <2>1, <2>2, OthersOwn DEF InsertsAt
<1>9. \A r \in Readers : HoldsShared(r)'
  BY <1>1, WriterFrame DEF InsertsAt
<1>10. LocksExclude'
  BY <1>1 DEF InsertsAt, LockInv, LocksExclude
<1>12. StoreInTime'
  <2>1. \A x \in Vertices : NotNewer(x, Len(log))'
    <3>1. \A x \in Vertices \ {u} : NotNewer(x, Len(log))'
      BY <1>1 DEF InsertsAt, LockInv, StoreInTime, NotNewer
    <3>2. ASSUME NEW v \in Vertices, NEW t \in ToSet(versions'[u][v]) PROVE t <= Len(log)
      <4>1. t \in Nat /\ t <= wts[w]
        BY <1>3, LenProperties, ElementOfSeq DEF ToSet
      <4> QED
        BY <1>0, <1>2, <4>1
    <3>3. NotNewer(u, Len(log))'
      <4>1. \A i \in DOMAIN degree'[u] : degree'[u][i].ts \in Nat /\ degree'[u][i].ts <= wts[w]
        BY <1>4, NodeTypes
      <4>2. \A i \in DOMAIN degree'[u] : degree'[u][i].ts <= Len(log)
        BY <1>0, <1>2, <4>1
      <4> QED
        BY <1>1, <3>2, <4>2 DEF InsertsAt, NotNewer
    <3> QED
      BY <3>1, <3>3
  <2> QED
    BY <1>1, <1>5, <2>1 DEF InsertsAt, LockInv, StoreInTime
<1>13. ASSUME NEW x \in Writers PROVE Stamped(x)'
  <2> SUFFICES ASSUME wpc[x] = "apply", NEW y \in Vertices \cap LocksRequired(wtx[x])
               PROVE  NotNewer(y, wts[x])'
    BY <1>1 DEF LockInv, Stamped, InsertsAt
  <2>1. NotNewer(y, wts[x])
    BY DEF LockInv, Stamped
  <2>2. CASE y # u
    BY <1>1, <2>1, <2>2 DEF InsertsAt, NotNewer
  <2>3. CASE y = u
    <3>1. excl[u] = x
      BY <2>3 DEF LockInv, OwnsLocks, Held
    <3>2. x = w
      BY <1>1, <3>1 DEF InsertsAt
    <3> QED
      BY <1>1, <1>3, <1>4, <2>3, <3>2 DEF InsertsAt, NotNewer
  <2> QED
    BY <2>2, <2>3
<1> QED
  BY <1>6, <1>7, <1>8, <1>9, <1>10, <1>12, <1>13 DEF LockInv

\* When all is inserted the locks to release are owned.
LEMMA AppliedKeeps ==
    ASSUME LockInv, NEW w \in Writers, Applied(w)
    PROVE  LockInv'
<1>0. TypeOK /\ OwnsLocks(w) /\ wtx[w] \in TxRecord
  BY DEF LockInv, TypeOK
<1>1. LocksReleased(wtx[w]) \subseteq LocksRequired(wtx[w]) /\ LocksRequired(wtx[w]) \subseteq Locks
  BY <1>0, TxTypes
<1>2. TypeOK'
  BY <1>0, <1>1 DEF Applied, TypeOK, storeVars, readerVars
<1>3. /\ wpc[w] = "apply" /\ wtodo[w] = {} /\ wpc'[w] = "release"
      /\ wneed'[w] = LocksReleased(wtx[w]) /\ wtx' = wtx /\ wtodo' = wtodo
      /\ UNCHANGED <<excl, storeVars>>
  BY <1>0 DEF Applied, TypeOK
<1>4. OwnsLocks(w)'
  <2>1. Held(w)' \subseteq Held(w)
    BY <1>3 DEF Held
  <2>2. \A k \in Held(w)' : excl'[k] = w /\ LockExists(k)'
    BY <1>0, <1>3, <2>1 DEF OwnsLocks, LockExists, storeVars
  <2> QED
    BY <1>1, <1>3, <2>2 DEF OwnsLocks
<1>5. ASSUME NEW x \in Writers \ {w} PROVE OwnsLocks(x)'
  <2>1. m_vertex_count' = m_vertex_count /\ m_vertex_count \in Nat /\ m_vertex_count <= m_vertex_count
    BY <1>0 DEF Applied, TypeOK, storeVars
  <2>2. OwnsLocks(x) /\ wpc'[x] = wpc[x] /\ wneed'[x] = wneed[x]
    BY <1>0, <1>5 DEF LockInv, Applied, TypeOK
  <2> QED
    BY <1>0, <1>3, <1>5, <2>1, <2>2, OthersOwn
<1>6. \A r \in Readers : HoldsShared(r)'
  BY WriterFrame DEF Applied
<1>7. LocksExclude'
  BY DEF LockInv, LocksExclude, Applied
<1>8. StoreInTime' /\ \A x \in Writers : Stamped(x)'
  BY <1>0, <1>3, StoreFrame DEF Applied, TypeOK
<1> QED
  BY <1>2, <1>4, <1>5, <1>6, <1>7, <1>8 DEF LockInv

\* release_locks gives back locks the writer owns.
LEMMA ReleaseLockKeeps ==
    ASSUME LockInv, NEW w \in Writers, ReleaseLock(w)
    PROVE  LockInv'
<1>0. TypeOK /\ OwnsLocks(w) /\ wpc[w] = "release"
  BY DEF LockInv, ReleaseLock
<1>1. PICK l \in NextLocks(w) :
        /\ excl'  = [excl EXCEPT ![l] = Nobody]
        /\ wneed' = [wneed EXCEPT ![w] = @ \ {l}]
  BY DEF ReleaseLock
<1>2. l \in wneed[w] /\ l \in Locks /\ wtx[w] \in TxRecord
  BY <1>0, <1>1 DEF NextLocks, Lowest, TypeOK
<1>3. UNCHANGED <<storeVars, shared, wpc, wtx, wts, wverts, wtodo, wcount, readerVars, log>>
  BY DEF ReleaseLock
<1>4. excl[l] = w
  BY <1>0, <1>2 DEF OwnsLocks, Held
<1>5. TypeOK'
  BY <1>0, <1>1, <1>2, <1>3 DEF TypeOK, storeVars, readerVars
<1>6. /\ wneed'[w] = wneed[w] \ {l}
      /\ excl'[l] = Nobody /\ \A k \in Locks \ {l} : excl'[k] = excl[k]
  BY <1>0, <1>1, <1>2 DEF TypeOK
<1>7. OwnsLocks(w)'
  <2>1. Held(w)' \subseteq Held(w) \ {l}
    BY <1>0, <1>3, <1>6 DEF Held
  <2>2. Held(w) \subseteq Locks
    BY <1>2, TxTypes DEF Held
  <2>3. \A k \in Held(w)' : excl'[k] = w /\ LockExists(k)'
    BY <1>0, <1>3, <1>6, <2>1, <2>2 DEF OwnsLocks, LockExists, storeVars
  <2> QED
    BY <1>0, <1>3, <1>6, <2>3 DEF OwnsLocks
<1>8. ASSUME NEW x \in Writers \ {w} PROVE OwnsLocks(x)'
  <2>1. \A k \in Locks : excl[k] = x => excl'[k] = x
    BY <1>4, <1>6, <1>8
  <2>2. wneed'[x] = wneed[x]
    BY <1>0, <1>1, <1>8 DEF TypeOK
  <2> QED
    BY <1>3, <1>8, <2>1, <2>2, OthersOwnStill DEF storeVars
<1>9. \A r \in Readers : HoldsShared(r)'
  BY <1>3, WriterFrame
<1>10. LocksExclude'
  BY <1>3, <1>6 DEF LockInv, LocksExclude
<1>11. StoreInTime' /\ \A x \in Writers : Stamped(x)'
  BY <1>0, <1>3, StoreFrame
<1> QED
  BY <1>5, <1>7, <1>8, <1>9, <1>10, <1>11 DEF LockInv

\* commit() returns.
LEMMA EndWriteKeeps ==
    ASSUME LockInv, NEW w \in Writers, EndWrite(w)
    PROVE  LockInv'
<1>0. TypeOK /\ OwnsLocks(w)
  BY DEF LockInv
<1>1. TypeOK'
  BY <1>0 DEF EndWrite, TypeOK, storeVars, readerVars
<1>2. wpc'[w] = "idle" /\ wneed'[w] = {} /\ wtodo'[w] = {}
  BY <1>0 DEF EndWrite, TypeOK, OwnsLocks
<1>3. OwnsLocks(w)'
  BY <1>2 DEF OwnsLocks, Held
<1>4. ASSUME NEW x \in Writers \ {w} PROVE OwnsLocks(x)'
  <2>1. wpc'[x] = wpc[x]
    BY <1>0, <1>4 DEF EndWrite, TypeOK
  <2> QED
    BY <1>4, <2>1, OthersOwnStill DEF EndWrite, storeVars
<1>5. \A r \in Readers : HoldsShared(r)'
  BY WriterFrame DEF EndWrite
<1>6. LocksExclude'
  BY DEF LockInv, LocksExclude, EndWrite
<1>7. StoreInTime' /\ \A x \in Writers : Stamped(x)'
  BY <1>0, <1>2, StoreFrame DEF EndWrite, TypeOK
<1> QED
  BY <1>1, <1>3, <1>4, <1>5, <1>6, <1>7 DEF LockInv

-----------------------------------------------------------------------------
(* The steps of readers *)

\* A reader's step keeps the invariant when it keeps the types, the reader's own
\* claims, and takes no shared lock of another reader or of an exclusive owner.
LEMMA ReaderStep ==
    ASSUME LockInv, TypeOK', NEW r \in Readers, HoldsShared(r)', LocksExclude',
           UNCHANGED <<storeVars, excl, writerVars, log>>,
           \A q \in Readers \ {r} :
                /\ rpc'[q] = rpc[q] /\ rop'[q] = rop[q] /\ rneed'[q] = rneed[q]
                /\ rscan'[q] = rscan[q] /\ snapshot'[q] = snapshot[q]
                /\ \A l : shared[l][q] > 0 => shared'[l][q] > 0
    PROVE  LockInv'
<1>1. ASSUME NEW q \in Readers \ {r} PROVE HoldsShared(q)'
  BY <1>1, OthersHold DEF LockInv
<1> QED
  BY <1>1, ReaderFrame DEF LockInv

\* A snapshot takes the timestamp and no lock.
LEMMA BeginReadKeeps ==
    ASSUME LockInv, NEW r \in Readers, BeginRead(r)
    PROVE  LockInv'
<1>0. TypeOK
  BY DEF LockInv
<1>1. TypeOK'
  BY <1>0 DEF BeginRead, TypeOK, storeVars, writerVars
<1>2. HoldsShared(r)'
  BY <1>0 DEF BeginRead, HoldsShared, TypeOK
<1>3. LocksExclude'
  BY DEF LockInv, LocksExclude, BeginRead
<1> QED
  BY <1>0, <1>1, <1>2, <1>3, ReaderStep DEF BeginRead, TypeOK

\* A snapshot ends between two reads.
LEMMA EndReadKeeps ==
    ASSUME LockInv, NEW r \in Readers, EndRead(r)
    PROVE  LockInv'
<1>0. TypeOK
  BY DEF LockInv
<1>1. TypeOK'
  BY <1>0 DEF EndRead, TypeOK, storeVars, writerVars
<1>2. HoldsShared(r)'
  BY <1>0 DEF EndRead, HoldsShared, TypeOK
<1>3. LocksExclude'
  BY DEF LockInv, LocksExclude, EndRead
<1> QED
  BY <1>0, <1>1, <1>2, <1>3, ReaderStep DEF EndRead, TypeOK

\* A read begins with every shared lock still to be acquired.
LEMMA StartReadKeeps ==
    ASSUME LockInv, NEW r \in Readers, NEW op \in ReadOps, StartRead(r, op)
    PROVE  LockInv'
<1>0. TypeOK /\ op \in OpRecord
  BY WorkAssumption DEF LockInv, WorkAssumption
<1>1. SharedLocks(op) \in Seq(Locks)
  BY <1>0, OpTypes
<1>2. TypeOK'
  <2>1. /\ rop' \in [Readers -> OpRecord] /\ rneed' \in [Readers -> Seq(Locks)]
        /\ rcount' \in [Readers -> Nat] /\ rscan' \in [Readers -> [pos : Nat, sum : Nat]]
    BY <1>0, <1>1 DEF StartRead, TypeOK
  <2>2. rpc' \in [Readers -> {"idle", "acquire", "reacquire", "scan", "release", "failed"}]
    BY <1>0 DEF StartRead, TypeOK
  <2>3. UNCHANGED <<storeVars, excl, shared, writerVars, snapshot, answer, log>>
    BY DEF StartRead
  <2> QED
    BY <1>0, <2>1, <2>2, <2>3 DEF TypeOK, storeVars, writerVars
<1>3. /\ rpc'[r] = IF op.kind = "edge_count" THEN "scan" ELSE "acquire"
      /\ rop'[r] = op /\ rneed'[r] = SharedLocks(op) /\ snapshot' = snapshot
      /\ snapshot[r] # NoSnapshot
  BY <1>0 DEF StartRead, TypeOK
<1>4. HoldsShared(r)'
  BY <1>3 DEF HoldsShared, CallLocks
<1>5. LocksExclude'
  BY DEF LockInv, LocksExclude, StartRead
<1> QED
  BY <1>0, <1>2, <1>4, <1>5, ReaderStep DEF StartRead, TypeOK

\* acquire_lock_shared adds one hold.
LEMMA AcquireSharedKeeps ==
    ASSUME LockInv, NEW r \in Readers, AcquireShared(r)
    PROVE  LockInv'
<1> DEFINE l == Head(rneed[r])
<1>0. TypeOK /\ HoldsShared(r) /\ rneed[r] \in Seq(Locks) /\ rneed[r] # <<>>
  BY DEF LockInv, TypeOK, AcquireShared
<1>1. /\ l \in Locks /\ Tail(rneed[r]) \in Seq(Locks)
      /\ ToSet(rneed[r]) = {l} \cup ToSet(Tail(rneed[r]))
  BY <1>0, HeadAndTail
<1>2. TypeOK'
  <2>1. shared' \in [Locks -> [Readers -> Nat]]
    BY <1>0, <1>1 DEF AcquireShared, TypeOK
  <2>2. rneed' \in [Readers -> Seq(Locks)]
    BY <1>0, <1>1 DEF AcquireShared, TypeOK
  <2>3. UNCHANGED <<storeVars, excl, writerVars, rpc, rop, rscan, rcount, snapshot, answer, log>>
    BY DEF AcquireShared
  <2> QED
    BY <1>0, <2>1, <2>2, <2>3 DEF TypeOK, storeVars, writerVars
<1>3. /\ rpc[r] \in {"acquire", "reacquire"} /\ rpc' = rpc /\ rneed'[r] = Tail(rneed[r])
      /\ excl[l] = Nobody /\ excl' = excl /\ CallLocks(r)' = CallLocks(r)
      /\ rop' = rop /\ rscan' = rscan /\ snapshot' = snapshot
  BY <1>0 DEF AcquireShared, TypeOK, CanLockShared, CallLocks
<1>4. /\ shared[l][r] \in Nat /\ shared'[l][r] = shared[l][r] + 1
      /\ \A k \in Locks, q \in Readers : k # l \/ q # r => shared'[k][q] = shared[k][q]
  BY <1>0, <1>1 DEF AcquireShared, TypeOK
<1> HIDE DEF l
<1>5. HoldsShared(r)'
  <2>1. CASE rpc[r] = "acquire"
    <3>1. ASSUME NEW k \in ToSet(CallLocks(r)), k \notin ToSet(Tail(rneed[r]))
          PROVE  shared'[k][r] > 0
      <4>1. CASE k = l
        BY <1>4, <4>1
      <4>2. CASE k # l
        BY <1>0, <1>1, <2>1, <3>1, <4>2 DEF HoldsShared, AcquireShared, TypeOK, l
      <4> QED
        BY <4>1, <4>2
    <3> QED
      BY <1>0, <1>3, <2>1, <3>1 DEF HoldsShared
  <2>2. CASE rpc[r] = "reacquire"
    BY <1>0, <1>3, <2>2 DEF HoldsShared
  <2> QED
    BY <1>3, <2>1, <2>2
<1>6. LocksExclude'
  BY <1>3, <1>4 DEF LockInv, LocksExclude
<1>7. ASSUME NEW q \in Readers \ {r}
      PROVE  /\ rneed'[q] = rneed[q]
             /\ \A k : shared[k][q] > 0 => shared'[k][q] > 0
  <2>1. shared' = [shared EXCEPT ![l][r] = @ + 1] /\ rneed' = [rneed EXCEPT ![r] = Tail(@)]
    BY DEF AcquireShared, l
  <2>2. shared \in [Locks -> [Readers -> Nat]] /\ rneed \in [Readers -> Seq(Locks)]
    BY <1>0 DEF TypeOK
  <2>3. \A k : shared'[k][q] = shared[k][q]
    BY <1>1, <1>7, <2>1, <2>2
  <2> QED
    BY <1>7, <2>1, <2>2, <2>3
<1> QED
  BY <1>2, <1>3, <1>5, <1>6, <1>7, ReaderStep DEF AcquireShared

\* A read that throws keeps its holds.
LEMMA AcquireSharedThrowsKeeps ==
    ASSUME LockInv, NEW r \in Readers, AcquireSharedThrows(r)
    PROVE  LockInv'
<1>0. TypeOK /\ HoldsShared(r)
  BY DEF LockInv
<1>1. TypeOK'
  BY <1>0 DEF AcquireSharedThrows, TypeOK, storeVars, writerVars
<1>2. HoldsShared(r)'
  BY <1>0 DEF AcquireSharedThrows, HoldsShared, TypeOK
<1>3. LocksExclude'
  BY DEF LockInv, LocksExclude, AcquireSharedThrows
<1> QED
  BY <1>0, <1>1, <1>2, <1>3, ReaderStep DEF AcquireSharedThrows, TypeOK

\* With all its locks acquired a reader holds the lock of the vertex it reads, so
\* no writer owns it.
LEMMA AcquiredLocks ==
    ASSUME LockInv, NEW r \in Readers, AllAcquiredShared(r)
    PROVE  \A l \in ToSet(CallLocks(r)) : shared[l][r] > 0
<1>1. ToSet(<<>>) = {}
  BY DEF ToSet
<1>2. rpc[r] = "acquire" /\ rneed[r] = <<>> /\ HoldsShared(r)
  BY DEF AllAcquiredShared, LockInv
<1> QED
  BY <1>1, <1>2 DEF HoldsShared

\* A read that ends with the release of its locks.
LEMMA ReleaseFollows ==
    ASSUME LockInv, NEW r \in Readers, AllAcquiredShared(r),
           rop[r].kind # "edge_count", rop[r].kind # "intersect",
           shared' = shared, snapshot' = snapshot,
           rpc'[r] = "release", rneed'[r] = SharedLocks(rop[r])
    PROVE  HoldsShared(r)'
<1>1. CallLocks(r) = SharedLocks(rop[r]) /\ rop[r] \in OpRecord
  BY DEF CallLocks, LockInv, TypeOK
<1>2. snapshot[r] # NoSnapshot
  BY DEF LockInv, HoldsShared, AllAcquiredShared
<1>3. \A i, j \in DOMAIN SharedLocks(rop[r]) : SharedLocks(rop[r])[i] = SharedLocks(rop[r])[j] => i = j
  BY <1>1, OpTypes
<1>4. \A l \in ToSet(rneed'[r]) : shared'[l][r] > 0
  BY <1>1, AcquiredLocks
<1> QED
  BY <1>2, <1>3, <1>4 DEF HoldsShared

\* A read changes no lock.
LEMMA ReadKeeps ==
    ASSUME LockInv, NEW r \in Readers, Read(r)
    PROVE  LockInv'
<1>0. TypeOK /\ HoldsShared(r) /\ rop[r] \in OpRecord
  BY DEF LockInv, TypeOK
<1>1. SharedLocks(rop[r]) \in Seq(Locks) /\ rop[r].kind # "intersect" /\ rop[r].kind # "edge_count"
  BY <1>0, OpTypes DEF Read, VersionedKinds
<1>2. snapshot[r] \in Nat
  BY <1>0 DEF Read, AllAcquiredShared, HoldsShared, TypeOK
<1>3. TypeOK'
  <2>1. DOMAIN answer' = Readers
    BY <1>0 DEF Read, TypeOK
  <2>2. ASSUME NEW q \in Readers, answer'[q] # NoAnswer
        PROVE  answer'[q].op \in OpRecord /\ answer'[q].ts \in Nat
    <3>1. CASE q = r
      BY <1>0, <1>2, <3>1 DEF Read, TypeOK
    <3>2. CASE q # r
      BY <1>0, <2>2, <3>2 DEF Read, TypeOK
    <3> QED
      BY <3>1, <3>2
  <2> QED
    BY <1>0, <1>1, <2>1, <2>2 DEF Read, TypeOK, storeVars, writerVars
<1>4. HoldsShared(r)'
  BY <1>0, <1>1, ReleaseFollows DEF Read, TypeOK
<1>5. LocksExclude'
  BY DEF LockInv, LocksExclude, Read
<1> QED
  BY <1>0, <1>3, <1>4, <1>5, ReaderStep DEF Read, TypeOK

\* A read without a timestamp changes no lock.
LEMMA ReadUnversionedKeeps ==
    ASSUME LockInv, NEW r \in Readers, ReadUnversioned(r)
    PROVE  LockInv'
<1>0. TypeOK /\ HoldsShared(r) /\ rop[r] \in OpRecord
  BY DEF LockInv, TypeOK
<1>1. SharedLocks(rop[r]) \in Seq(Locks) /\ rop[r].kind # "edge_count"
  BY <1>0, OpTypes DEF ReadUnversioned, UnversionedKinds
<1>2. TypeOK'
  BY <1>0, <1>1 DEF ReadUnversioned, TypeOK, storeVars, writerVars
<1>3. HoldsShared(r)'
  <2>1. CASE rop[r].kind = "intersect"
    BY <1>0, <2>1 DEF ReadUnversioned, AllAcquiredShared, HoldsShared, TypeOK
  <2>2. CASE rop[r].kind # "intersect"
    BY <1>0, <1>1, <2>2, ReleaseFollows DEF ReadUnversioned, TypeOK
  <2> QED
    BY <2>1, <2>2
<1>4. LocksExclude'
  BY DEF LockInv, LocksExclude, ReadUnversioned
<1> QED
  BY <1>0, <1>2, <1>3, <1>4, ReaderStep DEF ReadUnversioned, TypeOK

\* get_degree throws and changes no lock.
LEMMA ReadThrowsKeeps ==
    ASSUME LockInv, NEW r \in Readers, ReadThrows(r)
    PROVE  LockInv'
<1>0. TypeOK /\ HoldsShared(r)
  BY DEF LockInv
<1>1. TypeOK'
  BY <1>0 DEF ReadThrows, TypeOK, storeVars, writerVars
<1>2. HoldsShared(r)'
  BY <1>0 DEF ReadThrows, AllAcquiredShared, HoldsShared, TypeOK
<1>3. LocksExclude'
  BY DEF LockInv, LocksExclude, ReadThrows
<1> QED
  BY <1>0, <1>1, <1>2, <1>3, ReaderStep DEF ReadThrows, TypeOK

\* edge_count asks for the lock of its next vertex.
LEMMA ScanVertexKeeps ==
    ASSUME LockInv, NEW r \in Readers, ScanVertex(r)
    PROVE  LockInv'
<1>0. TypeOK /\ HoldsShared(r) /\ rscan[r].pos \in Nat /\ m_vertex_count \in 0..NumVertices
  BY DEF LockInv, TypeOK
<1>1. rscan[r].pos \in Vertices /\ rscan[r].pos \in Locks
  BY <1>0, WorkAssumption DEF WorkAssumption, ScanVertex, Locks, Vertices
<1>2. TypeOK'
  BY <1>0, <1>1 DEF ScanVertex, TypeOK, storeVars, writerVars
<1>3. HoldsShared(r)'
  <2>1. /\ rpc'[r] = "acquire" /\ rneed'[r] = <<rscan[r].pos>> /\ rop' = rop /\ rscan' = rscan
        /\ snapshot' = snapshot /\ snapshot[r] # NoSnapshot /\ rop[r].kind = "edge_count"
    BY <1>0 DEF ScanVertex, HoldsShared, TypeOK
  <2> QED
    BY <1>1, <2>1 DEF HoldsShared, CallLocks
<1>4. LocksExclude'
  BY DEF LockInv, LocksExclude, ScanVertex
<1> QED
  BY <1>0, <1>2, <1>3, <1>4, ReaderStep DEF ScanVertex, TypeOK

\* edge_count answers without a lock.
LEMMA ScanEndsKeeps ==
    ASSUME LockInv, NEW r \in Readers, ScanEnds(r)
    PROVE  LockInv'
<1>0. TypeOK /\ HoldsShared(r) /\ snapshot[r] \in Nat /\ rop[r] \in OpRecord
  BY DEF LockInv, TypeOK, ScanEnds, HoldsShared
<1>1. TypeOK'
  <2>1. DOMAIN answer' = Readers
    BY <1>0 DEF ScanEnds, TypeOK
  <2>2. ASSUME NEW q \in Readers, answer'[q] # NoAnswer
        PROVE  answer'[q].op \in OpRecord /\ answer'[q].ts \in Nat
    <3>1. CASE q = r
      BY <1>0, <3>1 DEF ScanEnds, TypeOK
    <3>2. CASE q # r
      BY <1>0, <2>2, <3>2 DEF ScanEnds, TypeOK
    <3> QED
      BY <3>1, <3>2
  <2> QED
    BY <1>0, <2>1, <2>2 DEF ScanEnds, TypeOK, storeVars, writerVars
<1>2. HoldsShared(r)'
  BY <1>0 DEF ScanEnds, HoldsShared, TypeOK
<1>3. LocksExclude'
  BY DEF LockInv, LocksExclude, ScanEnds
<1> QED
  BY <1>0, <1>1, <1>2, <1>3, ReaderStep DEF ScanEnds, TypeOK

\* edge_count adds a degree and has the lock to give back.
LEMMA ScanDegreeKeeps ==
    ASSUME LockInv, NEW r \in Readers, ScanDegree(r)
    PROVE  LockInv'
<1> DEFINE p == rscan[r].pos
<1>0. /\ TypeOK /\ HoldsShared(r) /\ snapshot[r] \in Nat
      /\ rscan[r] \in [pos : Nat, sum : Nat] /\ rop[r].kind = "edge_count"
  BY DEF LockInv, TypeOK, ScanDegree, AllAcquiredShared, HoldsShared
<1>1. p \in Vertices /\ p \in Locks /\ p \in Nat
  BY <1>0, VerticesAreLocks DEF ScanDegree, AllAcquiredShared, HoldsShared
<1>2. GetDegree(degree[p], snapshot[r]) \in Nat
  <2>1. HasDegree(degree[p], snapshot[r])
    BY DEF ScanDegree
  <2> QED
    BY <1>0, <1>1, <2>1, ListTypes, GetDegreeType
<1>3. [pos |-> p + 1, sum |-> rscan[r].sum + GetDegree(degree[p], snapshot[r])]
        \in [pos : Nat, sum : Nat]
  BY <1>0, <1>1, <1>2
<1>4. TypeOK'
  <2>1. rscan' \in [Readers -> [pos : Nat, sum : Nat]]
    BY <1>0, <1>3 DEF ScanDegree, TypeOK
  <2>2. <<p>> \in Seq(Locks) /\ rneed' = [rneed EXCEPT ![r] = <<p>>]
    BY <1>1 DEF ScanDegree
  <2> HIDE DEF p
  <2>3. rneed' \in [Readers -> Seq(Locks)]
    BY <1>0, <2>2 DEF TypeOK
  <2> QED
    BY <1>0, <2>1, <2>3 DEF ScanDegree, TypeOK, storeVars, writerVars
<1>5. HoldsShared(r)'
  <2>1. /\ rpc'[r] = "release" /\ rneed'[r] = <<p>> /\ shared' = shared
        /\ snapshot' = snapshot /\ snapshot[r] # NoSnapshot
    BY <1>0 DEF ScanDegree, AllAcquiredShared, HoldsShared, TypeOK
  <2>2. CallLocks(r) = <<p>>
    BY <1>0 DEF CallLocks
  <2>3. \A l \in ToSet(<<p>>) : shared[l][r] > 0
    BY <2>2, AcquiredLocks DEF ScanDegree
  <2>4. \A i, j \in DOMAIN <<p>> : i = j
    OBVIOUS
  <2> QED
    BY <2>1, <2>3, <2>4 DEF HoldsShared
<1>6. LocksExclude'
  BY DEF LockInv, LocksExclude, ScanDegree
<1> QED
  BY <1>0, <1>4, <1>5, <1>6, ReaderStep DEF ScanDegree, TypeOK

\* release_lock_shared gives back a hold that was taken.
LEMMA ReleaseSharedKeeps ==
    ASSUME LockInv, NEW r \in Readers, ReleaseShared(r)
    PROVE  LockInv'
<1> DEFINE l == Head(rneed[r])
<1>0. TypeOK /\ HoldsShared(r) /\ rneed[r] \in Seq(Locks) /\ rneed[r] # <<>> /\ rpc[r] = "release"
  BY DEF LockInv, TypeOK, ReleaseShared
<1>1. /\ l \in Locks /\ Tail(rneed[r]) \in Seq(Locks) /\ l \in ToSet(rneed[r])
      /\ ToSet(rneed[r]) = {l} \cup ToSet(Tail(rneed[r]))
      /\ l \notin ToSet(Tail(rneed[r]))
      /\ \A i, j \in DOMAIN Tail(rneed[r]) : Tail(rneed[r])[i] = Tail(rneed[r])[j] => i = j
  BY <1>0, HeadAndTail DEF HoldsShared
<1>2. shared[l][r] \in Nat /\ shared[l][r] > 0
  BY <1>0, <1>1 DEF HoldsShared, TypeOK
<1>3. /\ shared' = [shared EXCEPT ![l][r] = @ - 1] /\ rneed' = [rneed EXCEPT ![r] = Tail(@)]
      /\ UNCHANGED <<storeVars, excl, writerVars, rpc, rop, rscan, rcount, snapshot, answer, log>>
  BY DEF ReleaseShared
<1>4. /\ shared'[l][r] = shared[l][r] - 1
      /\ \A k \in Locks, q \in Readers : k # l \/ q # r => shared'[k][q] = shared[k][q]
      /\ ToSet(rneed[r]) \subseteq Locks
  <2>1. ToSet(rneed[r]) \subseteq Locks
    BY <1>0, LenProperties, ElementOfSeq DEF ToSet
  <2> QED
    BY <1>0, <1>1, <1>3, <2>1 DEF TypeOK
<1>5. TypeOK'
  BY <1>0, <1>1, <1>2, <1>3 DEF TypeOK, storeVars, writerVars
<1>6. ASSUME NEW q \in Readers \ {r}
      PROVE  /\ rneed'[q] = rneed[q]
             /\ \A k : shared[k][q] > 0 => shared'[k][q] > 0
  <2>1. shared \in [Locks -> [Readers -> Nat]] /\ rneed \in [Readers -> Seq(Locks)]
    BY <1>0 DEF TypeOK
  <2>2. \A k : shared'[k][q] = shared[k][q]
    BY <1>1, <1>3, <1>6, <2>1
  <2> QED
    BY <1>3, <1>6, <2>1, <2>2
<1>7. rneed'[r] = Tail(rneed[r])
  BY <1>0, <1>3 DEF TypeOK
<1> HIDE DEF l
<1>8. HoldsShared(r)'
  <2>1. \A k \in ToSet(rneed'[r]) : shared'[k][r] > 0
    BY <1>0, <1>1, <1>4, <1>7 DEF HoldsShared
  <2> QED
    BY <1>0, <1>1, <1>3, <1>7, <2>1 DEF HoldsShared
<1>9. LocksExclude'
  <2> SUFFICES ASSUME NEW k \in Locks, NEW q \in Readers, shared'[k][q] > 0
               PROVE  excl[k] = Nobody
    BY <1>3 DEF LocksExclude
  <2>1. shared[k][q] > 0
    BY <1>2, <1>4
  <2> QED
    BY <2>1 DEF LockInv, LocksExclude
<1> QED
  BY <1>3, <1>5, <1>6, <1>8, <1>9, ReaderStep

\* A read returns, or edge_count goes on.
LEMMA ReadReturnsKeeps ==
    ASSUME LockInv, NEW r \in Readers, ReadReturns(r)
    PROVE  LockInv'
<1>0. TypeOK /\ HoldsShared(r)
  BY DEF LockInv
<1>1. TypeOK'
  BY <1>0 DEF ReadReturns, TypeOK, storeVars, writerVars
<1>2. HoldsShared(r)'
  BY <1>0 DEF ReadReturns, HoldsShared, TypeOK
<1>3. LocksExclude'
  BY DEF LockInv, LocksExclude, ReadReturns
<1> QED
  BY <1>0, <1>1, <1>2, <1>3, ReaderStep DEF ReadReturns, TypeOK

-----------------------------------------------------------------------------
(* The first layer is an invariant *)

\* At the start only the loader may own a lock.
LEMMA LockInvInit == Init => LockInv
<1> SUFFICES ASSUME Init PROVE LockInv
  OBVIOUS
<1>0. NumVertices \in Nat \ {0} /\ Loaded \in 0..NumVertices
  BY VerticesAreLocks
<1>1. NoTx \in TxRecord /\ LoadTx \in TxRecord
  BY <1>0, EmptySeq DEF NoTx, LoadTx, TxRecord
<1>2. NoOp \in OpRecord
  BY <1>0 DEF NoOp, OpRecord, UnversionedKinds, Vertices
<1>3. Preloaded \in Seq(TxRecord) /\ Len(Preloaded) = IF Loaded = 0 THEN 0 ELSE 1
  BY <1>1 DEF Preloaded
<1> DEFINE one == UpdateDegree(<<>>, 0, 1)
<1>4. one \in Seq(DegreeNode) /\ one # <<>> /\ \A i \in DOMAIN one : one[i].ts = 1
  <2>1. one \in Seq(DegreeNode)
    BY EmptySeq, UpdateDegreeReads
  <2>2. one = <<[deg |-> 0, ts |-> 1]>>
    BY DEF UpdateDegree
  <2> HIDE DEF one
  <2>3. one # <<>> /\ \A i \in DOMAIN one : one[i] = [deg |-> 0, ts |-> 1]
    BY <2>2
  <2> QED
    BY <2>1, <2>3
<1> HIDE DEF one
<1>5. TypeOK
  <2>1. versions \in [Vertices -> [Vertices -> Seq(Nat)]] /\ degree \in [Vertices -> Seq(DegreeNode)]
    BY <1>4, EmptySeq DEF Init, one
  <2>2. excl \in [Locks -> Writers \cup {Loader, Nobody}] /\ shared \in [Locks -> [Readers -> Nat]]
    BY DEF Init
  <2>3. rneed \in [Readers -> Seq(Locks)]
    BY DEF Init
  <2> QED
    BY <1>0, <1>1, <1>2, <1>3, <2>1, <2>2, <2>3 DEF Init, TypeOK
<1>6. \A w \in Writers : OwnsLocks(w)
  BY DEF Init, OwnsLocks, Held
<1>7. \A r \in Readers : HoldsShared(r)
  BY DEF Init, HoldsShared
<1>8. LocksExclude
  BY DEF Init, LocksExclude
<1>9. StoreInTime
  <2>1. \A u \in Vertices : u \in Nat
    BY VerticesAreLocks
  <2>2. ASSUME NEW u \in Vertices PROVE NotNewer(u, Len(log))
    <3>1. ToSet(<<>>) = {}
      BY DEF ToSet
    <3>2. CASE u < Loaded
      BY <1>0, <1>3, <1>4, <2>1, <3>1, <3>2 DEF Init, NotNewer, one
    <3>3. CASE ~ (u < Loaded)
      BY <3>1, <3>3 DEF Init, NotNewer
    <3> QED
      BY <3>2, <3>3
  <2>3. \A u \in Vertices : u < m_vertex_count => degree[u] # <<>>
    BY <1>4 DEF Init, one
  <2>4. \A u \in Vertices : u >= m_vertex_count =>
            degree[u] = <<>> /\ \A v \in Vertices : versions[u][v] = <<>>
    BY <1>0, <2>1 DEF Init
  <2> QED
    BY <2>2, <2>3, <2>4 DEF Init, StoreInTime
<1>10. \A w \in Writers : Stamped(w)
  BY DEF Init, Stamped
<1> QED
  BY <1>5, <1>6, <1>7, <1>8, <1>9, <1>10 DEF LockInv

\* Every step keeps the lock invariant.
LEMMA LockInvStep == LockInv /\ [Next]_vars => LockInv'
<1> SUFFICES ASSUME LockInv, [Next]_vars PROVE LockInv'
  OBVIOUS
<1>1. CASE \E w \in Writers, tx \in Txs : BeginWrite(w, tx)
  BY <1>1, BeginWriteKeeps
<1>2. ASSUME NEW w \in Writers, CommitStep(w) PROVE LockInv'
  BY <1>2, AcquireLockKeeps, AcquireThrowsKeeps, TakeTimestampKeeps, InsertVertexKeeps,
     InsertEdgesKeeps, AppliedKeeps, ReleaseLockKeeps, EndWriteKeeps DEF CommitStep
<1>3. CASE \E r \in Readers : BeginRead(r) \/ EndRead(r)
  BY <1>3, BeginReadKeeps, EndReadKeeps
<1>4. CASE \E r \in Readers, op \in ReadOps : StartRead(r, op)
  BY <1>4, StartReadKeeps
<1>5. ASSUME NEW r \in Readers, ReadStep(r) PROVE LockInv'
  BY <1>5, AcquireSharedKeeps, AcquireSharedThrowsKeeps, ReadKeeps, ReadUnversionedKeeps,
     ReadThrowsKeeps, ScanVertexKeeps, ScanDegreeKeeps, ScanEndsKeeps, ReleaseSharedKeeps,
     ReadReturnsKeeps DEF ReadStep
<1>6. CASE UNCHANGED vars
  <2>1. UNCHANGED <<storeVars, excl, writerVars, log>> /\ UNCHANGED <<shared, readerVars>>
    BY <1>6 DEF vars
  <2>2. TypeOK' /\ LocksExclude'
    BY <2>1 DEF LockInv, TypeOK, LocksExclude, storeVars, writerVars, readerVars
  <2> QED
    BY <2>1, <2>2, ReaderFrame, WriterFrame DEF LockInv
<1> QED
  BY <1>1, <1>2, <1>3, <1>4, <1>5, <1>6 DEF Next

\* A writer that draws a timestamp, inserts or releases owns the locks of the
\* sources of its edges, and readers and writers exclude each other.
THEOREM LockInvariant == Spec => []LockInv
<1>1. LockInv /\ [Next]_vars => LockInv'
  BY LockInvStep
<1> QED
  BY <1>1, LockInvInit, PTL DEF Spec

\* Every variable keeps its type: a release never drives a count of shared holds
\* below 0 and get_degree never misses under a writer's lock.
THEOREM TypeCorrect == Spec => []TypeOK
BY LockInvariant, PTL DEF LockInv

-----------------------------------------------------------------------------
(* Which locks are left *)

\* The two ways in which a commit leaves a lock behind, and that of a read.
LeftByWriter(l) ==
    \/ l = IndexLock /\ \E t \in DOMAIN log : log[t].verts > 0 /\ log[t].edges = <<>>
    \/ \E tx \in Txs : StopsAfter(tx, l)
LeftByReader(l) == \E op \in ReadOps : op.kind = "intersect" /\ l \in {op.u, op.v}

\* A writer owns nothing but what Held says and what it left: the converse of
\* OwnsLocks.  It takes its locks in ascending order.
OwnsNoMore(w) ==
    /\ wpc[w] # "idle" => wtx[w] \in Txs
    /\ wpc[w] = "acquire" => \A k \in Held(w), l \in wneed[w] : k < l
    /\ \A l \in Locks : excl[l] = w => l \in Held(w) \/ LeftByWriter(l)

\* How often a list of at most two locks names one.
Times(s, l) ==
    (IF 1 \in DOMAIN s /\ s[1] = l THEN 1 ELSE 0) + (IF 2 \in DOMAIN s /\ s[2] = l THEN 1 ELSE 0)

\* The shared holds the call of a reader has on a lock at its program counter.
HoldsNow(r, l) ==
    CASE rpc[r] = "acquire"   -> Times(CallLocks(r), l) - Times(rneed[r], l)
      [] rpc[r] = "reacquire" -> 2 * Times(CallLocks(r), l) - Times(rneed[r], l)
      [] rpc[r] = "release"   -> Times(rneed[r], l)
      [] OTHER                -> 0

\* The holds of a reader that did not throw are those of its call, and pairs of
\* those it left.
KeepsPairs(r) ==
    \A l \in Locks : \E k \in Nat :
        shared[l][r] = 2 * k + HoldsNow(r, l) /\ (k > 0 => LeftByReader(l))

SharesNoMore(r) ==
    rpc[r] # "failed" =>
        /\ rpc[r] # "idle" => rop[r] \in ReadOps
        /\ rpc[r] = "reacquire" => rop[r].kind = "intersect"
        /\ Len(rneed[r]) <= 2
        /\ KeepsPairs(r)

LoadedLock == \A l \in Locks : excl[l] = Loader => l = IndexLock /\ Loaded > 0

ExactLocks ==
    /\ Loaded <= m_vertex_count
    /\ LoadedLock
    /\ \A w \in Writers : OwnsNoMore(w)
    /\ \A r \in Readers : SharesNoMore(r)

\* What Held and HoldsNow say of a thread in no call.
LEMMA ExactLocksSuffice == ExactLocks => NoLockLeft
<1>1. ASSUME NEW w \in Writers, NEW l \in Locks, OwnsNoMore(w), wpc[w] = "idle", excl[l] = w
      PROVE  LeftByWriter(l)
  BY <1>1 DEF OwnsNoMore, Held
<1>2. ASSUME NEW r \in Readers, NEW l \in Locks, SharesNoMore(r), rpc[r] = "idle", shared[l][r] > 0
      PROVE  shared[l][r] % 2 = 0 /\ LeftByReader(l)
  <2>1. PICK k \in Nat : shared[l][r] = 2 * k + HoldsNow(r, l) /\ (k > 0 => LeftByReader(l))
    BY <1>2 DEF SharesNoMore, KeepsPairs
  <2>2. HoldsNow(r, l) = 0
    BY <1>2 DEF HoldsNow
  <2>3. shared[l][r] = 2 * k
    BY <2>1, <2>2
  <2> QED
    BY <1>2, <2>1, <2>3
<1> QED
  BY <1>1, <1>2 DEF ExactLocks, LoadedLock, NoLockLeft, LeftByWriter, LeftByReader

\* What a writer left stays accounted for: the log only grows.
LEMMA LeftStays ==
    ASSUME TypeOK, NEW l, LeftByWriter(l), log' = log \/ \E tx \in TxRecord : log' = Append(log, tx)
    PROVE  LeftByWriter(l)'
<1>1. \A t \in DOMAIN log : t \in DOMAIN log' /\ log'[t] = log[t]
  <2>1. CASE log' = log
    BY <2>1
  <2>2. CASE \E tx \in TxRecord : log' = Append(log, tx)
    BY <2>2, AppendProperties DEF TypeOK
  <2> QED
    BY <2>1, <2>2
<1> QED
  BY <1>1 DEF LeftByWriter, StopsAfter

\* A commit without edges requires the index lock alone, and keeps it; any other
\* releases what it requires.
LEMMA ReleasedLocks ==
    ASSUME NEW tx \in TxRecord
    PROVE  /\ tx.edges # <<>> => LocksReleased(tx) = LocksRequired(tx)
           /\ tx.edges = <<>> => \A l \in LocksRequired(tx) : l = IndexLock /\ tx.verts > 0
<1>1. tx.edges = <<>> => EdgesOf(tx) = {}
  BY DEF EdgesOf
<1> QED
  BY <1>1 DEF LocksReleased, LocksRequired

\* A writer that moves no lock owns no more when what it holds does not shrink.
LEMMA OwnsFrame ==
    ASSUME NEW x \in Writers, OwnsNoMore(x), wtx'[x] = wtx[x], excl' = excl,
           wpc[x] = "idle" => wpc'[x] = "idle", wpc'[x] # "acquire",
           Held(x) \subseteq Held(x)',
           \A l \in Locks : LeftByWriter(l) => LeftByWriter(l)'
    PROVE  OwnsNoMore(x)'
BY DEF OwnsNoMore

\* The other writers, when a step moves the locks of one.
LEMMA OthersOwnNoMore ==
    ASSUME NEW x \in Writers, OwnsNoMore(x),
           wpc'[x] = wpc[x], wtx'[x] = wtx[x], wneed'[x] = wneed[x],
           \A l \in Locks : excl'[l] = x => excl[l] = x,
           \A l \in Locks : LeftByWriter(l) => LeftByWriter(l)'
    PROVE  OwnsNoMore(x)'
<1>1. Held(x)' = Held(x)
  BY DEF Held
<1> QED
  BY <1>1 DEF OwnsNoMore

\* The steps of writers keep their exclusive locks exact.
LEMMA WriterOwnsNoMore ==
    ASSUME LockInv, ExactLocks, NEW w \in Writers,
           CommitStep(w) \/ \E tx \in Txs : BeginWrite(w, tx)
    PROVE  LoadedLock' /\ \A x \in Writers : OwnsNoMore(x)'
<1>0. TypeOK /\ OwnsLocks(w) /\ OwnsNoMore(w) /\ Loaded <= m_vertex_count /\ LoadedLock
  BY DEF LockInv, ExactLocks
<1> DEFINE Others == \A x \in Writers \ {w} :
                        /\ wpc'[x] = wpc[x] /\ wtx'[x] = wtx[x] /\ wneed'[x] = wneed[x]
                        /\ \A l \in Locks : excl'[l] = x => excl[l] = x
           Loaders == \A l \in Locks : excl'[l] = Loader => excl[l] = Loader
           Stays == \A l \in Locks : LeftByWriter(l) => LeftByWriter(l)'
<1>1. log' = log \/ \E tx \in TxRecord : log' = Append(log, tx)
  <2>1. TakeTimestamp(w) => \E tx \in TxRecord : log' = Append(log, tx)
    BY <1>0 DEF TakeTimestamp, TypeOK
  <2>2. ~ TakeTimestamp(w) => log' = log
    BY DEF CommitStep, BeginWrite, AcquireLock, AcquireThrows, InsertVertex, InsertEdges, Applied,
       ReleaseLock, EndWrite
  <2> QED
    BY <2>1, <2>2
<1>2. Stays
  BY <1>0, <1>1, LeftStays
<1>3. Others => \A x \in Writers \ {w} : OwnsNoMore(x)'
  BY <1>2, OthersOwnNoMore DEF ExactLocks
<1>4. Loaders => LoadedLock'
  BY <1>0 DEF LoadedLock
<1> SUFFICES OwnsNoMore(w)' /\ Others /\ Loaders
  BY <1>3, <1>4
<1> HIDE DEF Stays
<1>5. ASSUME NEW tx \in Txs, BeginWrite(w, tx) PROVE OwnsNoMore(w)' /\ Others /\ Loaders
  <2>1. /\ wpc[w] = "idle" /\ wpc'[w] = "acquire" /\ wtx'[w] = tx /\ excl' = excl
        /\ wneed'[w] = LocksRequired(tx)
    BY <1>0, <1>5 DEF BeginWrite, TypeOK
  <2>2. \A l \in Locks : excl[l] = w => LeftByWriter(l)
    BY <1>0, <2>1 DEF OwnsNoMore, Held
  <2>3. Held(w)' = {}
    BY <2>1 DEF Held
  <2>4. OwnsNoMore(w)'
    BY <1>2, <2>1, <2>2, <2>3 DEF OwnsNoMore, Stays
  <2>5. Others
    BY <1>0, <1>5 DEF BeginWrite, TypeOK
  <2> QED
    BY <2>1, <2>4, <2>5
<1>6. ASSUME AcquireLock(w) PROVE OwnsNoMore(w)' /\ Others /\ Loaders
  <2>1. PICK l \in NextLocks(w) :
        /\ LockExists(l) /\ CanLock(l)
        /\ excl'  = [excl EXCEPT ![l] = w]
        /\ wneed' = [wneed EXCEPT ![w] = @ \ {l}]
    BY <1>6 DEF AcquireLock
  <2>2. l \in wneed[w] /\ l \in Locks /\ l \in LocksRequired(wtx[w])
    BY <1>0, <2>1 DEF NextLocks, Lowest, TypeOK, OwnsLocks
  <2>3. wpc[w] = "acquire" /\ UNCHANGED <<wpc, wtx>>
    BY <1>6 DEF AcquireLock
  <2>4. wneed'[w] = wneed[w] \ {l} /\ \A k \in Locks \ {l} : excl'[k] = excl[k]
    BY <1>0, <2>1, <2>2 DEF TypeOK
  <2>5. Held(w)' = Held(w) \cup {l}
    BY <2>2, <2>3, <2>4 DEF Held
  <2>6. \A k \in Held(w)', m \in wneed'[w] : k < m
    <3>1. \A m \in wneed[w] \ {l} : l < m
      <4>1. wneed[w] \subseteq Nat
        BY <1>0, VerticesAreLocks DEF TypeOK
      <4>2. \A m \in wneed[w] : l <= m
        BY <2>1 DEF NextLocks, Lowest
      <4> QED
        BY <2>2, <4>1, <4>2
    <3>2. \A k \in Held(w), m \in wneed[w] : k < m
      BY <1>0, <2>3 DEF OwnsNoMore
    <3> QED
      BY <2>4, <2>5, <3>1, <3>2
  <2>7. \A k \in Locks : excl'[k] = w => k \in Held(w)' \/ LeftByWriter(k)'
    BY <1>0, <1>2, <2>4, <2>5 DEF OwnsNoMore, Stays
  <2>8. OwnsNoMore(w)'
    BY <1>0, <2>3, <2>6, <2>7 DEF OwnsNoMore
  <2>9. Others /\ Loaders
    BY <1>0, <2>1, <2>2, <2>3, ThreadAssumption DEF TypeOK, ThreadAssumption
  <2> QED
    BY <2>8, <2>9
<1>7. ASSUME AcquireThrows(w) PROVE OwnsNoMore(w)' /\ Others /\ Loaders
  <2>1. PICK l \in NextLocks(w) : ~ LockExists(l)
    BY <1>7 DEF AcquireThrows
  <2>2. /\ wpc[w] = "acquire" /\ wpc'[w] = "idle" /\ excl' = excl /\ wtx' = wtx
        /\ l \in wneed[w] /\ l \in LocksRequired(wtx[w]) /\ l \in Locks
    BY <1>0, <1>7, <2>1 DEF AcquireThrows, NextLocks, Lowest, OwnsLocks, TypeOK
  <2>3. Loaded \in Nat /\ m_vertex_count \in Nat /\ l \in 0..NumVertices /\ Locks \subseteq Nat
    BY <1>0, <2>2, VerticesAreLocks DEF TypeOK, Locks
  <2>4. l # IndexLock /\ Loaded <= l
    BY <1>0, <2>1, <2>3 DEF LockExists
  <2>5. PICK f \in EdgesOf(wtx[w]) : f[1] = l
    BY <2>2, <2>4 DEF LocksRequired
  <2>6. ASSUME NEW k \in Held(w) PROVE StopsAfter(wtx[w], k)
    <3>1. k < l /\ k \in LocksRequired(wtx[w])
      BY <1>0, <2>2, <2>6 DEF OwnsNoMore, Held
    <3>2. wtx[w] \in TxRecord
      BY <1>0 DEF TypeOK
    <3>3. k # IndexLock
      BY <2>3, <3>1, VerticesAreLocks DEF IndexLock
    <3>4. PICK e \in EdgesOf(wtx[w]) : e[1] = k
      BY <3>1, <3>3 DEF LocksRequired
    <3> QED
      BY <2>4, <2>5, <3>1, <3>4 DEF StopsAfter
  <2>7. wtx[w] \in Txs
    BY <1>0, <2>2 DEF OwnsNoMore
  <2>8. \A k \in Locks : excl[k] = w => LeftByWriter(k)
    BY <1>0, <2>6, <2>7 DEF OwnsNoMore, LeftByWriter
  <2>9. OwnsNoMore(w)'
    BY <1>2, <2>2, <2>8 DEF OwnsNoMore, Stays
  <2>10. Others
    BY <1>0, <1>7 DEF AcquireThrows, TypeOK
  <2> QED
    BY <2>2, <2>9, <2>10
<1>8. ASSUME TakeTimestamp(w) PROVE OwnsNoMore(w)' /\ Others /\ Loaders
  <2>1. wpc[w] = "acquire" /\ wpc'[w] = "apply" /\ wtx' = wtx /\ excl' = excl /\ wneed' = wneed
    BY <1>0, <1>8 DEF TakeTimestamp, TypeOK
  <2>2. Held(w) \subseteq Held(w)'
    BY <2>1 DEF Held
  <2>3. Others
    BY <1>0, <1>8 DEF TakeTimestamp, TypeOK
  <2> QED
    BY <1>0, <1>2, <2>1, <2>2, <2>3, OwnsFrame DEF Stays
<1>9. ASSUME InsertVertex(w) \/ InsertEdges(w) PROVE OwnsNoMore(w)' /\ Others /\ Loaders
  <2>1. UNCHANGED <<wpc, wtx, wneed, excl>>
    BY <1>9 DEF InsertVertex, InsertEdges
  <2> QED
    BY <1>0, <1>2, <2>1, OthersOwnNoMore DEF Stays
<1>10. ASSUME Applied(w) PROVE OwnsNoMore(w)' /\ Others /\ Loaders
  <2>1. /\ wpc[w] = "apply" /\ wpc'[w] = "release" /\ wtx' = wtx /\ excl' = excl
        /\ wneed'[w] = LocksReleased(wtx[w])
    BY <1>0, <1>10 DEF Applied, TypeOK
  <2>2. wtx[w] \in TxRecord /\ Held(w) = LocksRequired(wtx[w])
    BY <1>0, <2>1 DEF TypeOK, Held
  <2>3. Others
    BY <1>0, <1>10 DEF Applied, TypeOK
  <2>4. CASE wtx[w].edges # <<>>
    <3>1. Held(w) \subseteq Held(w)'
      BY <2>1, <2>2, <2>4, ReleasedLocks DEF Held
    <3> QED
      BY <1>0, <1>2, <2>1, <2>3, <3>1, OwnsFrame DEF Stays
  <2>5. CASE wtx[w].edges = <<>>
    <3>1. wts[w] \in DOMAIN log /\ log[wts[w]] = wtx[w]
      BY <2>1 DEF LockInv, Stamped
    <3>2. \A l \in Held(w) : LeftByWriter(l)
      BY <2>2, <2>5, <3>1, ReleasedLocks DEF LeftByWriter
    <3>3. \A l \in Locks : excl[l] = w => LeftByWriter(l)
      BY <1>0, <3>2 DEF OwnsNoMore
    <3>4. OwnsNoMore(w)'
      BY <1>0, <1>2, <2>1, <3>3 DEF OwnsNoMore, Stays
    <3> QED
      BY <2>1, <2>3, <3>4
  <2> QED
    BY <2>4, <2>5
<1>11. ASSUME ReleaseLock(w) PROVE OwnsNoMore(w)' /\ Others /\ Loaders
  <2>1. PICK l \in NextLocks(w) :
        /\ excl'  = [excl EXCEPT ![l] = Nobody]
        /\ wneed' = [wneed EXCEPT ![w] = @ \ {l}]
    BY <1>11 DEF ReleaseLock
  <2>2. l \in wneed[w] /\ l \in Locks
    BY <1>0, <2>1 DEF NextLocks, Lowest, TypeOK
  <2>3. /\ wpc[w] = "release" /\ UNCHANGED <<wpc, wtx>>
        /\ Nobody \notin Writers /\ Loader # Nobody
    BY <1>11, ThreadAssumption DEF ReleaseLock, ThreadAssumption
  <2>4. /\ wneed'[w] = wneed[w] \ {l} /\ excl'[l] = Nobody
        /\ \A k \in Locks \ {l} : excl'[k] = excl[k]
    BY <1>0, <2>1, <2>2 DEF TypeOK
  <2>5. \A k \in Locks : excl'[k] = w => k \in Held(w)' \/ LeftByWriter(k)'
    BY <1>0, <1>2, <2>3, <2>4 DEF OwnsNoMore, Held, Stays
  <2>6. OwnsNoMore(w)'
    BY <1>0, <2>3, <2>5 DEF OwnsNoMore
  <2>7. \A x \in Writers \ {w} : wneed'[x] = wneed[x]
    BY <1>0, <2>1 DEF TypeOK
  <2>8. Others /\ Loaders
    BY <2>3, <2>4, <2>7
  <2> QED
    BY <2>6, <2>8
<1>12. ASSUME EndWrite(w) PROVE OwnsNoMore(w)' /\ Others /\ Loaders
  <2>1. wpc[w] = "release" /\ wneed[w] = {} /\ wpc'[w] = "idle" /\ wtx' = wtx /\ excl' = excl
    BY <1>0, <1>12 DEF EndWrite, TypeOK
  <2>2. Others
    BY <1>0, <1>12 DEF EndWrite, TypeOK
  <2>3. \A l \in Locks : excl[l] = w => LeftByWriter(l)
    BY <1>0, <2>1 DEF OwnsNoMore, Held
  <2>4. OwnsNoMore(w)'
    BY <1>2, <2>1, <2>3 DEF OwnsNoMore, Stays
  <2> QED
    BY <2>1, <2>2, <2>4
<1> QED
  BY <1>5, <1>6, <1>7, <1>8, <1>9, <1>10, <1>11, <1>12 DEF CommitStep

\* The vertices never become fewer.
LEMMA VerticesStay ==
    ASSUME LockInv, [Next]_vars, Loaded <= m_vertex_count
    PROVE  Loaded <= m_vertex_count'
<1>1. m_vertex_count \in Nat /\ Loaded \in Nat
  BY VerticesAreLocks DEF LockInv, TypeOK
<1>2. m_vertex_count' = m_vertex_count \/ m_vertex_count' = m_vertex_count + 1
  BY DEF Next, vars, CommitStep, ReadStep, BeginWrite, AcquireLock, AcquireThrows, TakeTimestamp,
     InsertVertex, InsertEdges, Applied, ReleaseLock, EndWrite, BeginRead, EndRead, StartRead,
     AcquireShared, AcquireSharedThrows, Read, ReadUnversioned, ReadThrows, ScanVertex, ScanDegree,
     ScanEnds, ReleaseShared, ReadReturns, storeVars
<1> QED
  BY <1>1, <1>2

\* A list of locks with its head taken names the head once less.
LEMMA TimesOfTail ==
    ASSUME NEW s \in Seq(Locks), s # <<>>, Len(s) <= 2
    PROVE  /\ Head(s) \in Locks /\ Tail(s) \in Seq(Locks) /\ Len(Tail(s)) <= 2
           /\ \A l : Times(s, l) = Times(Tail(s), l) + (IF l = Head(s) THEN 1 ELSE 0)
<1>1. /\ Len(s) \in Nat \ {0} /\ DOMAIN s = 1..Len(s)
      /\ Head(s) = s[1] /\ s[1] \in Locks
      /\ Tail(s) \in Seq(Locks) /\ Len(Tail(s)) = Len(s) - 1
      /\ \A i \in 1..Len(Tail(s)) : Tail(s)[i] = s[i + 1]
  BY LenProperties, EmptySeq, HeadTailProperties
<1>2. DOMAIN Tail(s) = 1 .. Len(s) - 1
  BY <1>1, LenProperties
<1>3. ASSUME NEW l PROVE Times(s, l) = Times(Tail(s), l) + (IF l = Head(s) THEN 1 ELSE 0)
  <2>1. CASE Len(s) = 1
    <3>1. DOMAIN s = {1} /\ DOMAIN Tail(s) = {}
      BY <1>1, <1>2, <2>1
    <3> QED
      BY <1>1, <3>1 DEF Times
  <2>2. CASE Len(s) = 2
    <3>1. /\ 1 \in DOMAIN s /\ 2 \in DOMAIN s /\ 1 \in DOMAIN Tail(s) /\ 2 \notin DOMAIN Tail(s)
          /\ Tail(s)[1] = s[2]
      BY <1>1, <1>2, <2>2
    <3> QED
      BY <1>1, <3>1 DEF Times
  <2> QED
    BY <1>1, <2>1, <2>2
<1> QED
  BY <1>1, <1>3

\* The locks of a call are at most two, and those of intersect its two vertices.
LEMMA CallTimes ==
    ASSUME NEW op \in OpRecord
    PROVE  /\ Len(SharedLocks(op)) <= 2
           /\ \A l : op.kind = "intersect" /\ Times(SharedLocks(op), l) > 0 => l \in {op.u, op.v}
<1>1. Len(SharedLocks(op)) <= 2
  BY DEF SharedLocks
<1>2. ASSUME NEW l, op.kind = "intersect", Times(SharedLocks(op), l) > 0 PROVE l \in {op.u, op.v}
  <2>1. SharedLocks(op) = <<op.u, op.v>>
    BY <1>2 DEF SharedLocks
  <2> QED
    BY <1>2, <2>1 DEF Times
<1> QED
  BY <1>1, <1>2

\* Counts are numbers, and a list with nothing on it counts nothing.
LEMMA TimesAreNumbers ==
    /\ \A s, l : Times(s, l) \in 0..2
    /\ \A l : Times(<<>>, l) = 0
    /\ \A r, l : HoldsNow(r, l) \in Int
<1>1. \A s, l : Times(s, l) \in 0..2
  BY DEF Times
<1>2. \A r, l : HoldsNow(r, l) \in Int
  BY <1>1 DEF HoldsNow
<1> QED
  BY <1>1, <1>2 DEF Times

\* Pairs stay pairs when the call's holds change as the lock's count does.
LEMMA PairsFrame ==
    ASSUME NEW r \in Readers, KeepsPairs(r),
           \A l \in Locks : shared[l][r] \in Nat,
           \A l \in Locks : \E d \in Int : /\ shared'[l][r] = shared[l][r] + d
                                           /\ HoldsNow(r, l)' = HoldsNow(r, l) + d
    PROVE  KeepsPairs(r)'
<1> SUFFICES ASSUME NEW l \in Locks
             PROVE  \E k \in Nat : /\ shared'[l][r] = 2 * k + HoldsNow(r, l)'
                                   /\ k > 0 => LeftByReader(l)
  BY DEF KeepsPairs, LeftByReader
<1>1. PICK k \in Nat : shared[l][r] = 2 * k + HoldsNow(r, l) /\ (k > 0 => LeftByReader(l))
  BY DEF KeepsPairs
<1>2. PICK d \in Int : shared'[l][r] = shared[l][r] + d /\ HoldsNow(r, l)' = HoldsNow(r, l) + d
  OBVIOUS
<1>3. HoldsNow(r, l) \in Int
  BY TimesAreNumbers
<1>4. shared'[l][r] = 2 * k + HoldsNow(r, l)'
  BY <1>1, <1>2, <1>3
<1> QED
  BY <1>1, <1>4

\* A step that moves no lock and leaves the call's holds as they were.
LEMMA PairsStay ==
    ASSUME TypeOK, NEW r \in Readers, KeepsPairs(r), \A l \in Locks : shared'[l][r] = shared[l][r],
           \A l \in Locks : HoldsNow(r, l)' = HoldsNow(r, l)
    PROVE  KeepsPairs(r)'
<1>1. \A l \in Locks : shared[l][r] \in Nat
  BY DEF TypeOK
<1>2. \A l \in Locks : HoldsNow(r, l) \in Int
  BY TimesAreNumbers
<1>3. ASSUME NEW l \in Locks
      PROVE  shared'[l][r] = shared[l][r] + 0 /\ HoldsNow(r, l)' = HoldsNow(r, l) + 0
  BY <1>1, <1>2
<1>4. \A l \in Locks : \E d \in Int : /\ shared'[l][r] = shared[l][r] + d
                                      /\ HoldsNow(r, l)' = HoldsNow(r, l) + d
  BY <1>3
<1> QED
  BY <1>1, <1>4, PairsFrame

\* The other readers, when a step moves the locks of one.
LEMMA OthersShareNoMore ==
    ASSUME TypeOK, NEW q \in Readers, SharesNoMore(q),
           rpc'[q] = rpc[q], rop'[q] = rop[q], rneed'[q] = rneed[q], rscan'[q] = rscan[q],
           \A l \in Locks : shared'[l][q] = shared[l][q]
    PROVE  SharesNoMore(q)'
<1>1. CallLocks(q)' = CallLocks(q)
  BY DEF CallLocks
<1>2. \A l \in Locks : HoldsNow(q, l)' = HoldsNow(q, l)
  BY <1>1 DEF HoldsNow
<1> QED
  BY <1>2, PairsStay DEF SharesNoMore

\* The steps of readers keep their shared locks exact.
LEMMA ReaderSharesNoMore ==
    ASSUME LockInv, ExactLocks, NEW r \in Readers,
           \/ ReadStep(r) \/ BeginRead(r) \/ EndRead(r)
           \/ \E op \in ReadOps : StartRead(r, op)
    PROVE  \A q \in Readers : SharesNoMore(q)'
<1>0. /\ TypeOK /\ HoldsShared(r) /\ SharesNoMore(r) /\ rop[r] \in OpRecord
      /\ rneed[r] \in Seq(Locks) /\ \A l \in Locks : shared[l][r] \in Nat
  BY SMTT(40) DEF LockInv, ExactLocks, TypeOK
<1> SUFFICES SharesNoMore(r)' /\ \A q \in Readers \ {r} : SharesNoMore(q)'
  OBVIOUS
<1> DEFINE Others == \A q \in Readers \ {r} :
                        /\ rpc'[q] = rpc[q] /\ rop'[q] = rop[q]
                        /\ rneed'[q] = rneed[q] /\ rscan'[q] = rscan[q]
                        /\ \A l \in Locks : shared'[l][q] = shared[l][q]
<1>1. Others => \A q \in Readers \ {r} : SharesNoMore(q)'
  BY <1>0, OthersShareNoMore DEF ExactLocks
<1>2. ASSUME BeginRead(r) \/ EndRead(r) PROVE SharesNoMore(r)' /\ Others
  <2>1. UNCHANGED <<rpc, rop, rneed, rscan, shared>>
    BY <1>2 DEF BeginRead, EndRead
  <2> QED
    BY <1>0, <2>1, OthersShareNoMore
<1>3. ASSUME NEW op \in ReadOps, StartRead(r, op) PROVE SharesNoMore(r)' /\ Others
  <2>1. /\ rpc[r] = "idle" /\ rop'[r] = op /\ rneed'[r] = SharedLocks(op) /\ shared' = shared
        /\ rpc'[r] = IF op.kind = "edge_count" THEN "scan" ELSE "acquire"
    BY <1>0, <1>3 DEF StartRead, TypeOK
  <2>2. op \in OpRecord
    BY WorkAssumption DEF WorkAssumption
  <2>3. ASSUME NEW l \in Locks PROVE HoldsNow(r, l) = 0 /\ HoldsNow(r, l)' = 0
    <3>1. HoldsNow(r, l) = 0
      BY <2>1 DEF HoldsNow
    <3>2. CASE op.kind = "edge_count"
      BY <2>1, <3>1, <3>2 DEF HoldsNow
    <3>3. CASE op.kind # "edge_count"
      <4>1. CallLocks(r)' = rneed'[r] /\ rpc'[r] = "acquire"
        BY <2>1, <3>3 DEF CallLocks
      <4>2. Times(rneed'[r], l) \in Int
        BY TimesAreNumbers
      <4> QED
        BY <3>1, <4>1, <4>2 DEF HoldsNow
    <3> QED
      BY <3>2, <3>3
  <2>4. KeepsPairs(r)'
    BY <1>0, <2>1, <2>3, PairsStay DEF SharesNoMore
  <2>5. SharesNoMore(r)'
    BY <2>1, <2>2, <2>4, CallTimes DEF SharesNoMore
  <2>6. Others
    BY <1>0, <1>3 DEF StartRead, TypeOK
  <2> QED
    BY <2>5, <2>6
<1>4. ASSUME AcquireShared(r) PROVE SharesNoMore(r)' /\ Others
  <2> DEFINE h == Head(rneed[r])
  <2>1. rneed[r] # <<>> /\ rpc[r] \in {"acquire", "reacquire"}
    BY <1>0, <1>4 DEF AcquireShared
  <2>2. Len(rneed[r]) <= 2 /\ KeepsPairs(r)
    BY <1>0, <2>1 DEF SharesNoMore
  <2>3. /\ h \in Locks /\ Len(Tail(rneed[r])) <= 2
        /\ \A l : Times(rneed[r], l) = Times(Tail(rneed[r]), l) + (IF l = h THEN 1 ELSE 0)
    BY <1>0, <2>1, <2>2, TimesOfTail
  <2>4. /\ shared' = [shared EXCEPT ![h][r] = @ + 1]
        /\ rneed' = [rneed EXCEPT ![r] = Tail(@)] /\ UNCHANGED <<rpc, rop, rscan>>
    BY <1>4 DEF AcquireShared
  <2>5. /\ rneed'[r] = Tail(rneed[r]) /\ CallLocks(r)' = CallLocks(r)
        /\ shared'[h][r] = shared[h][r] + 1
        /\ \A k \in Locks \ {h} : shared'[k][r] = shared[k][r]
    BY <1>0, <2>3, <2>4 DEF TypeOK, CallLocks
  <2>6. Others
    BY <1>0, <2>3, <2>4 DEF TypeOK
  <2> HIDE DEF h
  <2>7. ASSUME NEW l \in Locks
        PROVE  \E d \in Int : /\ shared'[l][r] = shared[l][r] + d
                              /\ HoldsNow(r, l)' = HoldsNow(r, l) + d
    <3> DEFINE d == IF l = h THEN 1 ELSE 0
    <3>1. shared'[l][r] = shared[l][r] + d
      BY <1>0, <2>5
    <3>2. /\ Times(rneed'[r], l) \in Int /\ Times(rneed[r], l) = Times(rneed'[r], l) + d
          /\ Times(CallLocks(r), l) \in Int
      BY <2>3, <2>5, TimesAreNumbers
    <3>3. HoldsNow(r, l)' = HoldsNow(r, l) + d
      BY <2>1, <2>4, <2>5, <3>2 DEF HoldsNow
    <3> QED
      BY <3>1, <3>3
  <2>8. KeepsPairs(r)'
    BY <1>0, <2>2, <2>7, PairsFrame
  <2> QED
    BY <1>0, <2>1, <2>3, <2>4, <2>5, <2>6, <2>8 DEF SharesNoMore
<1>5. ASSUME AcquireSharedThrows(r) \/ ReadThrows(r) PROVE SharesNoMore(r)' /\ Others
  <2>1. rpc'[r] = "failed"
    BY <1>0, <1>5 DEF AcquireSharedThrows, ReadThrows, TypeOK
  <2>2. Others
    BY <1>0, <1>5 DEF AcquireSharedThrows, ReadThrows, TypeOK
  <2> QED
    BY <2>1, <2>2 DEF SharesNoMore
<1>6. ASSUME Read(r) \/ ReadUnversioned(r) \/ ScanDegree(r) PROVE SharesNoMore(r)' /\ Others
  <2>1. /\ rpc[r] = "acquire" /\ rneed[r] = <<>> /\ shared' = shared /\ rop' = rop
        /\ rneed'[r] = CallLocks(r)
    BY <1>0, <1>6 DEF Read, ReadUnversioned, ScanDegree, AllAcquiredShared, TypeOK, CallLocks,
       VersionedKinds, UnversionedKinds
  <2>2. \/ rpc'[r] = "release"
        \/ rpc'[r] = "reacquire" /\ rop[r].kind = "intersect"
    BY <1>0, <1>6 DEF Read, ReadUnversioned, ScanDegree, TypeOK
  <2>3. Len(rneed'[r]) <= 2
    BY <1>0, <2>1, CallTimes DEF CallLocks
  <2>4. ASSUME NEW l \in Locks PROVE HoldsNow(r, l)' = HoldsNow(r, l)
    <3>1. Times(CallLocks(r), l) \in Int /\ Times(<<>>, l) = 0
      BY TimesAreNumbers
    <3>2. HoldsNow(r, l) = Times(CallLocks(r), l)
      BY <2>1, <3>1 DEF HoldsNow
    <3>3. CASE rpc'[r] = "release"
      BY <2>1, <3>2, <3>3 DEF HoldsNow
    <3>4. CASE rpc'[r] = "reacquire" /\ rop[r].kind = "intersect"
      <4>1. CallLocks(r)' = CallLocks(r)
        BY <2>1, <3>4 DEF CallLocks
      <4> QED
        BY <2>1, <3>1, <3>2, <3>4, <4>1 DEF HoldsNow
    <3> QED
      BY <2>2, <3>3, <3>4
  <2>5. KeepsPairs(r)'
    BY <1>0, <2>1, <2>4, PairsStay DEF SharesNoMore
  <2>6. SharesNoMore(r)'
    BY <1>0, <2>1, <2>2, <2>3, <2>5 DEF SharesNoMore
  <2>7. Others
    BY <1>0, <1>6 DEF Read, ReadUnversioned, ScanDegree, TypeOK
  <2> QED
    BY <2>6, <2>7
<1>7. ASSUME ScanVertex(r) \/ ScanEnds(r) PROVE SharesNoMore(r)' /\ Others
  <2>1. /\ rpc[r] = "scan" /\ rop' = rop /\ rscan' = rscan /\ shared' = shared
        /\ rop[r].kind = "edge_count"
        /\ \/ rpc'[r] = "acquire" /\ rneed'[r] = <<rscan[r].pos>>
           \/ rpc'[r] = "idle" /\ rneed' = rneed
    BY <1>0, <1>7 DEF ScanVertex, ScanEnds, TypeOK, HoldsShared
  <2>2. ASSUME NEW l \in Locks PROVE HoldsNow(r, l) = 0 /\ HoldsNow(r, l)' = 0
    <3>1. HoldsNow(r, l) = 0
      BY <2>1 DEF HoldsNow
    <3>2. CASE rpc'[r] = "acquire" /\ rneed'[r] = <<rscan[r].pos>>
      <4>1. CallLocks(r)' = rneed'[r]
        BY <2>1, <3>2 DEF CallLocks
      <4>2. Times(rneed'[r], l) \in Int
        BY TimesAreNumbers
      <4> QED
        BY <3>1, <3>2, <4>1, <4>2 DEF HoldsNow
    <3>3. CASE rpc'[r] = "idle"
      BY <3>1, <3>3 DEF HoldsNow
    <3> QED
      BY <2>1, <3>2, <3>3
  <2>3. KeepsPairs(r)'
    BY <1>0, <2>1, <2>2, PairsStay DEF SharesNoMore
  <2>4. Len(rneed'[r]) <= 2
    <3>1. CASE rneed'[r] = <<rscan[r].pos>>
      BY <3>1
    <3>2. CASE rneed' = rneed
      BY <1>0, <2>1, <3>2 DEF SharesNoMore
    <3> QED
      BY <2>1, <3>1, <3>2
  <2>5. SharesNoMore(r)'
    BY <1>0, <2>1, <2>3, <2>4 DEF SharesNoMore
  <2>6. Others
    BY <1>0, <1>7 DEF ScanVertex, ScanEnds, TypeOK
  <2> QED
    BY <2>5, <2>6
<1>8. ASSUME ReleaseShared(r) PROVE SharesNoMore(r)' /\ Others
  <2> DEFINE h == Head(rneed[r])
  <2>1. rneed[r] # <<>> /\ rpc[r] = "release"
    BY <1>0, <1>8 DEF ReleaseShared
  <2>2. Len(rneed[r]) <= 2 /\ KeepsPairs(r)
    BY <1>0, <2>1 DEF SharesNoMore
  <2>3. /\ h \in Locks /\ Len(Tail(rneed[r])) <= 2
        /\ \A l : Times(rneed[r], l) = Times(Tail(rneed[r]), l) + (IF l = h THEN 1 ELSE 0)
    BY <1>0, <2>1, <2>2, TimesOfTail
  <2>4. /\ shared' = [shared EXCEPT ![h][r] = @ - 1]
        /\ rneed' = [rneed EXCEPT ![r] = Tail(@)] /\ UNCHANGED <<rpc, rop, rscan>>
    BY <1>8 DEF ReleaseShared
  <2>5. /\ rneed'[r] = Tail(rneed[r])
        /\ shared'[h][r] = shared[h][r] - 1
        /\ \A k \in Locks \ {h} : shared'[k][r] = shared[k][r]
    BY <1>0, <2>3, <2>4 DEF TypeOK
  <2>6. Others
    BY <1>0, <2>3, <2>4 DEF TypeOK
  <2> HIDE DEF h
  <2>7. ASSUME NEW l \in Locks
        PROVE  \E d \in Int : /\ shared'[l][r] = shared[l][r] + d
                              /\ HoldsNow(r, l)' = HoldsNow(r, l) + d
    <3> DEFINE d == IF l = h THEN -1 ELSE 0
    <3>1. shared'[l][r] = shared[l][r] + d
      BY <1>0, <2>5
    <3>2. Times(rneed'[r], l) \in Int /\ Times(rneed'[r], l) = Times(rneed[r], l) + d
      BY <2>3, <2>5, TimesAreNumbers
    <3>3. HoldsNow(r, l)' = HoldsNow(r, l) + d
      BY <2>1, <2>4, <2>5, <3>2 DEF HoldsNow
    <3> QED
      BY <3>1, <3>3
  <2>8. KeepsPairs(r)'
    BY <1>0, <2>2, <2>7, PairsFrame
  <2> QED
    BY <1>0, <2>1, <2>3, <2>4, <2>5, <2>6, <2>8 DEF SharesNoMore
<1>9. ASSUME ReadReturns(r) PROVE SharesNoMore(r)' /\ Others
  <2>1. /\ rpc[r] \in {"release", "reacquire"} /\ rneed[r] = <<>> /\ rneed' = rneed
        /\ shared' = shared /\ rop' = rop
        /\ rpc'[r] = IF rop[r].kind = "edge_count" THEN "scan" ELSE "idle"
    BY <1>0, <1>9 DEF ReadReturns, TypeOK
  <2>2. rop[r] \in ReadOps /\ Len(rneed[r]) <= 2 /\ KeepsPairs(r)
    BY <1>0, <2>1 DEF SharesNoMore
  <2>3. \A l \in Locks : HoldsNow(r, l)' = 0
    BY <2>1 DEF HoldsNow
  <2>4. ASSUME rpc[r] = "release" PROVE KeepsPairs(r)'
    <3>1. \A l \in Locks : HoldsNow(r, l) = 0
      BY <2>1, <2>4, TimesAreNumbers DEF HoldsNow
    <3> QED
      BY <1>0, <2>1, <2>2, <2>3, <3>1, PairsStay
  <2>5. ASSUME rpc[r] = "reacquire" PROVE KeepsPairs(r)'
    <3>1. rop[r].kind = "intersect"
      BY <1>0, <2>5 DEF SharesNoMore
    <3>2. ASSUME NEW l \in Locks
          PROVE  \E k \in Nat : shared'[l][r] = 2 * k + HoldsNow(r, l)' /\ (k > 0 => LeftByReader(l))
      <4> DEFINE n == Times(CallLocks(r), l)
      <4>1. n \in 0..2 /\ Times(<<>>, l) = 0
        BY TimesAreNumbers
      <4>2. HoldsNow(r, l) = 2 * n
        BY <2>1, <2>5, <4>1 DEF HoldsNow
      <4>3. n > 0 => LeftByReader(l)
        BY <1>0, <2>2, <3>1, CallTimes DEF LeftByReader, CallLocks
      <4> HIDE DEF n
      <4>4. PICK k \in Nat : shared[l][r] = 2 * k + HoldsNow(r, l) /\ (k > 0 => LeftByReader(l))
        BY <2>2 DEF KeepsPairs
      <4>5. k + n \in Nat /\ shared'[l][r] = 2 * (k + n) + HoldsNow(r, l)'
        BY <2>1, <2>3, <4>1, <4>2, <4>4
      <4>6. k + n > 0 => LeftByReader(l)
        BY <4>1, <4>3, <4>4
      <4> QED
        BY <4>5, <4>6
    <3> QED
      BY <3>2 DEF KeepsPairs, LeftByReader
  <2>6. SharesNoMore(r)'
    BY <2>1, <2>2, <2>4, <2>5 DEF SharesNoMore
  <2>7. Others
    BY <1>0, <1>9 DEF ReadReturns, TypeOK
  <2> QED
    BY <2>6, <2>7
<1> QED
  BY <1>1, <1>2, <1>3, <1>4, <1>5, <1>6, <1>7, <1>8, <1>9 DEF ReadStep

\* At the start only the loader has a lock, that of its early return.
LEMMA ExactLocksInit == Init => ExactLocks
<1> SUFFICES ASSUME Init PROVE ExactLocks
  OBVIOUS
<1>1. Loaded <= m_vertex_count
  BY VerticesAreLocks DEF Init
<1>2. LoadedLock
  <2>1. EdgesOf(LoadTx) = {}
    BY DEF EdgesOf, LoadTx
  <2> QED
    BY <2>1, ThreadAssumption DEF Init, LoadedLock, LocksRequired, LoadTx, ThreadAssumption
<1>3. ASSUME NEW w \in Writers PROVE OwnsNoMore(w)
  BY ThreadAssumption DEF Init, OwnsNoMore, ThreadAssumption
<1>4. ASSUME NEW r \in Readers PROVE SharesNoMore(r)
  <2>1. ASSUME NEW l \in Locks PROVE shared[l][r] = 2 * 0 + HoldsNow(r, l)
    BY DEF Init, HoldsNow
  <2>2. KeepsPairs(r)
    BY <2>1 DEF KeepsPairs
  <2> QED
    BY <2>2 DEF Init, SharesNoMore
<1> QED
  BY <1>1, <1>2, <1>3, <1>4 DEF ExactLocks

\* Every step keeps the locks exact.
LEMMA ExactLocksStep ==
    ASSUME LockInv, ExactLocks, [Next]_vars
    PROVE  ExactLocks'
<1>0. TypeOK
  BY DEF LockInv
<1>1. Loaded <= m_vertex_count'
  BY VerticesStay DEF ExactLocks
<1>2. ASSUME UNCHANGED <<excl, writerVars, log>>
      PROVE  LoadedLock' /\ \A w \in Writers : OwnsNoMore(w)'
  <2>1. \A l \in Locks : LeftByWriter(l) => LeftByWriter(l)'
    BY <1>0, <1>2, LeftStays
  <2> QED
    BY <1>2, <2>1, OthersOwnNoMore DEF writerVars, ExactLocks, LoadedLock
<1>3. ASSUME UNCHANGED <<shared, readerVars>> PROVE \A r \in Readers : SharesNoMore(r)'
  BY <1>0, <1>3, OthersShareNoMore DEF readerVars, ExactLocks
<1>4. ASSUME NEW w \in Writers, CommitStep(w) \/ \E tx \in Txs : BeginWrite(w, tx)
      PROVE  ExactLocks'
  <2>1. UNCHANGED <<shared, readerVars>>
    BY <1>4 DEF CommitStep, BeginWrite, AcquireLock, AcquireThrows, TakeTimestamp, InsertVertex,
       InsertEdges, Applied, ReleaseLock, EndWrite
  <2> QED
    BY <1>1, <1>3, <1>4, <2>1, WriterOwnsNoMore DEF ExactLocks
<1>5. ASSUME NEW r \in Readers,
             \/ ReadStep(r) \/ BeginRead(r) \/ EndRead(r)
             \/ \E op \in ReadOps : StartRead(r, op)
      PROVE  ExactLocks'
  <2>1. UNCHANGED <<excl, writerVars, log>>
    BY <1>5 DEF ReadStep, BeginRead, EndRead, StartRead, AcquireShared, AcquireSharedThrows, Read,
       ReadUnversioned, ReadThrows, ScanVertex, ScanDegree, ScanEnds, ReleaseShared, ReadReturns
  <2> QED
    BY <1>1, <1>2, <1>5, <2>1, ReaderSharesNoMore DEF ExactLocks
<1>6. CASE UNCHANGED vars
  BY <1>1, <1>2, <1>3, <1>6 DEF vars, ExactLocks
<1> QED
  BY <1>4, <1>5, <1>6 DEF Next

\* A thread in no call has no lock but those of a commit that returned early, of one
\* that did not find a lock, and of intersect, whoever was inserting and reading.  (A read
\* that throws does not return and keeps its locks.)
THEOREM NothingIsLeftLocked == Spec => []NoLockLeft
<1>1. LockInv /\ ExactLocks /\ [Next]_vars => LockInv' /\ ExactLocks'
  BY LockInvStep, ExactLocksStep
<1>2. Init => LockInv /\ ExactLocks
  BY LockInvInit, ExactLocksInit
<1> QED
  BY <1>1, <1>2, ExactLocksSuffice, PTL DEF Spec

-----------------------------------------------------------------------------
(* Which vertices a snapshot finds *)

\* Inserted is the running sum of the vertices of the transactions.
LEMMA InsertedSums ==
    ASSUME NEW txs \in Seq(TxRecord)
    PROVE  /\ Inserted(txs) \in [0..Len(txs) -> Nat]
           /\ Inserted(txs)[0] = 0
           /\ \A t \in 1..Len(txs) : Inserted(txs)[t] = Inserted(txs)[t-1] + txs[t].verts
<1> DEFINE L == Len(txs)
           step == [n \in 1..L |-> [x \in Nat |-> x + txs[n].verts]]
           Sums(f) == f = [t \in 0..L |-> IF t = 0 THEN 0 ELSE f[t-1] + txs[t].verts]
<1>1. L \in Nat /\ \A n \in 1..L : txs[n].verts \in Nat
  BY LenProperties, ElementOfSeq, TxTypes
<1> HIDE DEF L
<1>2. step \in [1..L -> [Nat -> Nat]]
  BY <1>1
<1>3. PICK f \in [0..L -> Nat] : f[0] = 0 /\ \A n \in 1..L : f[n] = step[n][f[n-1]]
  <2>1. L \in Nat
    BY <1>1
  <2> DEFINE S == Nat
             zero == 0
  <2>2. zero \in S /\ step \in [1..L -> [S -> S]]
    BY <1>2
  <2> HIDE DEF step, S, zero
  <2>3. \E f \in [0..L -> S] : f[0] = zero /\ \A n \in 1..L : f[n] = step[n][f[n-1]]
    BY <2>1, <2>2, Recursion
  <2> QED
    BY <2>3 DEF S, zero
<1>4. \A n \in 1..L : f[n] = f[n-1] + txs[n].verts
  <2> SUFFICES ASSUME NEW n \in 1..L PROVE f[n] = f[n-1] + txs[n].verts
    OBVIOUS
  <2>1. f[n-1] \in Nat
    BY <1>1, <1>3
  <2> QED
    BY <1>3, <2>1
<1>5. Sums(f)
  BY <1>1, <1>3, <1>4
<1>6. Sums(Inserted(txs))
  BY <1>5 DEF Inserted, L
<1>7. \A t \in 0..L : Inserted(txs)[t] = IF t = 0 THEN 0 ELSE Inserted(txs)[t-1] + txs[t].verts
  BY <1>6
<1>8. \A t \in 1..L : t \in 0..L /\ t # 0 /\ t - 1 \in 0..L
  BY <1>1
<1>9. Inserted(txs)[0] = 0 /\ \A t \in 1..L : Inserted(txs)[t] = Inserted(txs)[t-1] + txs[t].verts
  BY <1>1, <1>7, <1>8
<1>10. \A t \in 0..L : Inserted(txs)[t] = f[t]
  <2> DEFINE Bad == {t \in 0..L : Inserted(txs)[t] # f[t]}
  <2>1. SUFFICES ASSUME Bad # {} PROVE FALSE
    OBVIOUS
  <2>2. PICK m \in Bad : \A j \in Bad : m <= j
    <3>1. Bad \subseteq Nat
      BY <1>1
    <3> HIDE DEF Bad
    <3> QED
      BY <2>1, <3>1, LeastMember
  <2>3. m # 0
    BY <1>3, <1>9
  <2>4. m \in 1..L /\ m - 1 \in 0..L /\ ~ (m <= m - 1)
    BY <1>1, <2>3
  <2>5. Inserted(txs)[m-1] = f[m-1]
    BY <2>2, <2>4
  <2> QED
    BY <1>4, <1>9, <2>4, <2>5
<1>11. DOMAIN Inserted(txs) = 0..L
  BY <1>6
<1>12. Inserted(txs) \in [0..L -> Nat]
  BY <1>3, <1>6, <1>10, <1>11
<1> QED
  BY <1>9, <1>12 DEF L

\* The sum never falls.
LEMMA InsertedGrows ==
    ASSUME NEW txs \in Seq(TxRecord), NEW s \in 0..Len(txs)
    PROVE  \A t \in 0..Len(txs) : s <= t => Inserted(txs)[s] <= Inserted(txs)[t]
<1> DEFINE f == Inserted(txs)
           Bad == {t \in 0..Len(txs) : s <= t /\ ~ (f[s] <= f[t])}
<1>1. /\ f \in [0..Len(txs) -> Nat] /\ Len(txs) \in Nat
      /\ \A t \in 1..Len(txs) : f[t] = f[t-1] + txs[t].verts /\ txs[t].verts \in Nat
  BY InsertedSums, LenProperties, ElementOfSeq, TxTypes
<1> HIDE DEF f
<1>2. SUFFICES ASSUME Bad # {} PROVE FALSE
  BY DEF f
<1>3. PICK m \in Bad : \A j \in Bad : m <= j
  <2>1. Bad \subseteq Nat
    BY <1>1
  <2> HIDE DEF Bad
  <2> QED
    BY <1>2, <2>1, LeastMember
<1>4. m # s /\ m \in Nat /\ s \in Nat /\ s <= m
  BY <1>1, <1>3
<1>5. m \in 1..Len(txs) /\ m - 1 \in 0..Len(txs) /\ s <= m - 1 /\ ~ (m <= m - 1)
  BY <1>1, <1>3, <1>4
<1>6. f[s] <= f[m-1]
  BY <1>3, <1>5
<1>7. f[m] = f[m-1] + txs[m].verts /\ f[s] \in Nat /\ f[m-1] \in Nat /\ txs[m].verts \in Nat
  BY <1>1, <1>5
<1>8. f[s] <= f[m]
  BY <1>6, <1>7
<1> QED
  BY <1>3, <1>8

\* A new transaction is added at the end of the sum.
LEMMA InsertedAppends ==
    ASSUME NEW txs \in Seq(TxRecord), NEW tx \in TxRecord
    PROVE  /\ \A t \in 0..Len(txs) : Inserted(Append(txs, tx))[t] = Inserted(txs)[t]
           /\ Inserted(Append(txs, tx))[Len(txs) + 1] = Inserted(txs)[Len(txs)] + tx.verts
<1> DEFINE more == Append(txs, tx)
           f == Inserted(txs)
           g == Inserted(more)
           Bad == {t \in 0..Len(txs) : g[t] # f[t]}
<1>1. /\ more \in Seq(TxRecord) /\ Len(more) = Len(txs) + 1 /\ Len(txs) \in Nat
      /\ more[Len(txs) + 1] = tx /\ \A t \in 1..Len(txs) : more[t] = txs[t]
  BY AppendProperties, LenProperties
<1> HIDE DEF more
<1>2. f[0] = 0 /\ \A t \in 1..Len(txs) : f[t] = f[t-1] + txs[t].verts
  BY InsertedSums
<1>3. g[0] = 0 /\ \A t \in 1 .. Len(txs) + 1 : g[t] = g[t-1] + more[t].verts
  BY <1>1, InsertedSums
<1> HIDE DEF f, g
<1>4. Bad = {}
  <2>1. SUFFICES ASSUME Bad # {} PROVE FALSE
    OBVIOUS
  <2>2. PICK m \in Bad : \A j \in Bad : m <= j
    <3>1. Bad \subseteq Nat
      BY <1>1
    <3> HIDE DEF Bad
    <3> QED
      BY <2>1, <3>1, LeastMember
  <2>3. m # 0
    BY <1>2, <1>3
  <2>4. m \in 1..Len(txs) /\ m \in 1 .. Len(txs) + 1 /\ m - 1 \in 0..Len(txs) /\ ~ (m <= m - 1)
    BY <1>1, <2>3
  <2>5. g[m-1] = f[m-1]
    BY <2>2, <2>4
  <2>6. g[m] = g[m-1] + more[m].verts /\ f[m] = f[m-1] + txs[m].verts /\ more[m] = txs[m]
    BY <1>1, <1>2, <1>3, <2>4
  <2> QED
    BY <2>5, <2>6
<1>5. g[Len(txs) + 1] = f[Len(txs)] + tx.verts
  <2>1. Len(txs) + 1 \in 1 .. Len(txs) + 1 /\ (Len(txs) + 1) - 1 = Len(txs) /\ Len(txs) \in 0..Len(txs)
    BY <1>1
  <2>2. g[Len(txs) + 1] = g[Len(txs)] + tx.verts
    BY <1>1, <1>3, <2>1
  <2>3. g[Len(txs)] = f[Len(txs)]
    BY <1>4, <2>1
  <2> QED
    BY <2>2, <2>3
<1> QED
  BY <1>4, <1>5 DEF f, g, more

\* A writer that has vertices to insert.
Inserting(w) == wpc[w] = "apply" /\ wverts[w] > 0

\* The vertex count is what the log inserts, less what the one inserting writer
\* still has to; no transaction logged after its own inserts any.
CountFollowsLog ==
    /\ \A w \in Writers : wpc[w] = "apply" => wverts[w] <= wtx[w].verts
    /\ \A w \in Writers : Inserting(w) =>
        /\ m_vertex_count + wverts[w] = VerticesAt(Len(log))
        /\ VerticesAt(wts[w]) = VerticesAt(Len(log))
    /\ (\A w \in Writers : ~ Inserting(w)) => m_vertex_count = VerticesAt(Len(log))

\* A vertex the log has at ts has a degree at ts once it exists.
DegreesReach ==
    \A u \in Vertices, ts \in 0..Len(log) :
        u < m_vertex_count /\ u < VerticesAt(ts) => HasDegree(degree[u], ts)

\* A snapshot is of a state of the log, and a shared lock of a vertex that exists.
ReadersInTime ==
    /\ \A r \in Readers : snapshot[r] # NoSnapshot => snapshot[r] \in 0..Len(log)
    /\ \A u \in Vertices, r \in Readers : shared[u][r] > 0 => u < m_vertex_count

VertexInv == CountFollowsLog /\ DegreesReach /\ ReadersInTime /\ OnlyNewVerticesThrow

\* VerticesAt is a natural number and grows with the timestamp.
LEMMA VerticesAtGrows ==
    ASSUME LockInv
    PROVE  /\ log \in Seq(TxRecord) /\ Len(log) \in Nat
           /\ VerticesAt(0) = 0
           /\ \A t \in 0..Len(log) : VerticesAt(t) \in Nat
           /\ \A s, t \in 0..Len(log) : s <= t => VerticesAt(s) <= VerticesAt(t)
           /\ \A t \in 1..Len(log) :
                VerticesAt(t) = VerticesAt(t-1) + log[t].verts /\ log[t].verts \in Nat
<1>1. log \in Seq(TxRecord) /\ Len(log) \in Nat
  BY LenProperties DEF LockInv, TypeOK
<1>2. \A t \in 1..Len(log) : log[t].verts \in Nat
  BY <1>1, LenProperties, ElementOfSeq, TxTypes
<1> QED
  BY <1>1, <1>2, InsertedSums, InsertedGrows DEF VerticesAt

\* Two writers never insert vertices at the same time: both would own the lock of
\* the index.
LEMMA OneInserts ==
    ASSUME LockInv, CountFollowsLog, NEW w \in Writers, NEW x \in Writers,
           Inserting(w), wtx[x].verts > 0,
           wpc[x] = "apply" \/ (wpc[x] = "acquire" /\ wneed[x] = {})
    PROVE  w = x
<1>1. wtx[w].verts \in Nat /\ wverts[w] \in Nat
  BY TxTypes DEF LockInv, TypeOK
<1>2. wtx[w].verts > 0
  BY <1>1 DEF CountFollowsLog, Inserting
<1>3. IndexLock \in Held(w) /\ IndexLock \in Held(x)
  BY <1>2 DEF LocksRequired, Held, Inserting
<1> QED
  BY <1>3 DEF LockInv, OwnsLocks

\* What a step keeps that neither logs nor inserts.
LEMMA VertexFrame ==
    ASSUME LockInv, VertexInv, UNCHANGED <<storeVars, log>>,
           \A w \in Writers : (wpc'[w] = "apply") = (wpc[w] = "apply"),
           \A w \in Writers : wpc[w] = "apply" =>
                wtx'[w] = wtx[w] /\ wts'[w] = wts[w] /\ wverts'[w] = wverts[w],
           ReadersInTime', OnlyNewVerticesThrow'
    PROVE  VertexInv'
<1> USE DEF storeVars
<1>1. \A w \in Writers : Inserting(w)' = Inserting(w)
  BY DEF Inserting
<1>2. \A ts : VerticesAt(ts)' = VerticesAt(ts)
  BY DEF VerticesAt
<1>3. CountFollowsLog'
  BY <1>1, <1>2 DEF VertexInv, CountFollowsLog, Inserting
<1>4. DegreesReach'
  BY <1>2 DEF VertexInv, DegreesReach
<1> QED
  BY <1>3, <1>4 DEF VertexInv

\* The steps of writers leave the readers' part when the log only grows and no
\* vertex goes.
LEMMA ReadersStayInTime ==
    ASSUME LockInv, VertexInv, UNCHANGED <<shared, readerVars>>,
           m_vertex_count' \in Nat, m_vertex_count <= m_vertex_count',
           Len(log') \in Nat, Len(log) <= Len(log'),
           \A ts \in 0..Len(log) : VerticesAt(ts)' = VerticesAt(ts)
    PROVE  ReadersInTime' /\ OnlyNewVerticesThrow'
<1> USE DEF readerVars
<1>1. Len(log) \in Nat /\ m_vertex_count \in Nat
  BY LenProperties DEF LockInv, TypeOK
<1>2. ReadersInTime'
  <2>1. \A n \in 0..Len(log) : n \in 0..Len(log')
    BY <1>1
  <2>2. \A u \in Vertices : u < m_vertex_count => u < m_vertex_count'
    BY <1>1, VerticesAreLocks
  <2> QED
    BY <2>1, <2>2 DEF VertexInv, ReadersInTime
<1>3. OnlyNewVerticesThrow'
  <2> SUFFICES ASSUME NEW r \in Readers, rpc[r] = "failed", rneed[r] = <<>>
               PROVE  ReadVertex(r)' >= VerticesAt(snapshot[r])'
    BY DEF OnlyNewVerticesThrow
  <2>1. snapshot[r] \in 0..Len(log)
    BY DEF LockInv, HoldsShared, VertexInv, ReadersInTime
  <2>2. ReadVertex(r)' = ReadVertex(r) /\ ReadVertex(r) >= VerticesAt(snapshot[r])
    BY DEF ReadVertex, VertexInv, OnlyNewVerticesThrow
  <2>3. VerticesAt(snapshot[r])' = VerticesAt(snapshot[r])
    <3>1. VerticesAt(snapshot[r])' = Inserted(log')[snapshot[r]]
      BY DEF VerticesAt
    <3>2. \A ts \in 0..Len(log) : Inserted(log')[ts] = Inserted(log)[ts]
      BY DEF VerticesAt
    <3> QED
      BY <2>1, <3>1, <3>2 DEF VerticesAt
  <2> QED
    BY <2>2, <2>3
<1> QED
  BY <1>2, <1>3

\* The log gains a transaction whose vertices are all to be inserted.
LEMMA TakeTimestampVertices ==
    ASSUME LockInv, VertexInv, NEW w \in Writers, TakeTimestamp(w)
    PROVE  VertexInv'
<1> DEFINE L == Len(log)
           n == wtx[w].verts
<1>0. /\ wtx[w] \in TxRecord /\ n \in Nat /\ m_vertex_count \in Nat
      /\ log \in Seq(TxRecord) /\ L \in Nat /\ TypeOK
  BY TxTypes, LenProperties DEF LockInv, TypeOK
<1>1. /\ log' = Append(log, wtx[w]) /\ Len(log') = L + 1 /\ global_timestamp = L
  BY <1>0, AppendProperties DEF TakeTimestamp, LockInv, StoreInTime
<1>2. /\ wpc[w] = "acquire" /\ wneed[w] = {} /\ wtx' = wtx
      /\ UNCHANGED <<m_vertex_count, degree, shared, readerVars>>
      /\ wpc'[w] = "apply" /\ wts'[w] = L + 1 /\ wverts'[w] = n
      /\ \A x \in Writers \ {w} : wpc'[x] = wpc[x] /\ wts'[x] = wts[x] /\ wverts'[x] = wverts[x]
  BY <1>0, <1>1 DEF TakeTimestamp, TypeOK, AllAcquired
<1>3. /\ \A ts \in 0..L : VerticesAt(ts)' = VerticesAt(ts)
      /\ Inserted(log')[L + 1] = VerticesAt(L) + n
      /\ Inserted(log')[L] = VerticesAt(L)
  BY <1>0, <1>1, InsertedAppends DEF VerticesAt
<1>4. VerticesAt(Len(log))' = VerticesAt(L) + n /\ VerticesAt(L) \in Nat
  BY <1>1, <1>3, VerticesAtGrows DEF VerticesAt
<1> HIDE DEF L, n
<1>5. \A x \in Writers \ {w} : Inserting(x)' = Inserting(x)
  BY <1>2 DEF Inserting
<1>6. ~ Inserting(w) /\ (Inserting(w)' <=> n > 0)
  BY <1>2 DEF Inserting
<1>7. CountFollowsLog'
  <2>1. ASSUME NEW x \in Writers, wpc'[x] = "apply" PROVE wverts'[x] <= wtx'[x].verts
    <3>1. CASE x = w
      BY <1>0, <1>2, <3>1 DEF n
    <3>2. CASE x # w
      BY <1>2, <2>1, <3>2 DEF VertexInv, CountFollowsLog
    <3> QED
      BY <3>1, <3>2
  <2>2. CASE n > 0
    <3>1. \A x \in Writers : ~ Inserting(x)
      BY <1>2, <1>6, <2>2, OneInserts DEF VertexInv, n
    <3>2. m_vertex_count = VerticesAt(L)
      BY <3>1 DEF VertexInv, CountFollowsLog, L
    <3>3. \A x \in Writers : Inserting(x)' => x = w
      BY <1>5, <3>1
    <3>4. Inserted(log')[wts'[w]] = VerticesAt(L) + n
      BY <1>2, <1>3
    <3>5. VerticesAt(wts[w])' = VerticesAt(Len(log))'
      BY <1>4, <3>4 DEF VerticesAt
    <3>6. m_vertex_count' + wverts'[w] = VerticesAt(Len(log))'
      BY <1>2, <1>4, <3>2
    <3>7. Inserting(w)'
      BY <1>6, <2>2
    <3> QED
      BY <2>1, <3>3, <3>5, <3>6, <3>7 DEF CountFollowsLog
  <2>3. CASE ~ (n > 0)
    <3>1. n = 0 /\ ~ Inserting(w)' /\ VerticesAt(Len(log))' = VerticesAt(L)
      BY <1>0, <1>4, <1>6, <2>3 DEF n
    <3>2. ASSUME NEW x \in Writers, Inserting(x)'
          PROVE  /\ m_vertex_count' + wverts'[x] = VerticesAt(Len(log))'
                 /\ VerticesAt(wts[x])' = VerticesAt(Len(log))'
      <4>1. x # w /\ Inserting(x)
        BY <1>5, <3>1, <3>2
      <4>2. m_vertex_count + wverts[x] = VerticesAt(L) /\ VerticesAt(wts[x]) = VerticesAt(L)
        BY <4>1 DEF VertexInv, CountFollowsLog, L
      <4>3. wts[x] \in 0..L /\ wts'[x] = wts[x] /\ wverts'[x] = wverts[x]
        <5>1. wts[x] \in DOMAIN log
          BY <4>1 DEF LockInv, Stamped, Inserting
        <5> QED
          BY <1>0, <1>2, <4>1, <5>1, LenProperties DEF L
      <4>4. Inserted(log')[wts'[x]] = VerticesAt(wts[x])
        BY <1>0, <1>1, <4>3, InsertedAppends DEF VerticesAt, L
      <4> QED
        BY <1>2, <3>1, <4>2, <4>3, <4>4 DEF VerticesAt
    <3>3. (\A x \in Writers : ~ Inserting(x)') => m_vertex_count' = VerticesAt(Len(log))'
      <4>1. (\A x \in Writers : ~ Inserting(x)') => \A x \in Writers : ~ Inserting(x)
        BY <1>5, <1>6
      <4> QED
        BY <1>2, <3>1, <4>1 DEF VertexInv, CountFollowsLog, L
    <3> QED
      BY <2>1, <3>2, <3>3 DEF CountFollowsLog
  <2> QED
    BY <2>2, <2>3
<1>8. DegreesReach'
  <2> SUFFICES ASSUME NEW u \in Vertices, NEW ts \in 0 .. L + 1,
                      u < m_vertex_count, u < VerticesAt(ts)'
               PROVE  HasDegree(degree[u], ts)
    BY <1>1, <1>2 DEF DegreesReach
  <2>1. CASE ts \in 0..L
    <3>1. u < VerticesAt(ts)
      BY <1>0, <1>1, <2>1, InsertedAppends DEF VerticesAt, L
    <3> QED
      BY <2>1, <3>1 DEF VertexInv, DegreesReach, L
  <2>2. CASE ts = L + 1
    <3>1. degree[u] \in Seq(DegreeNode) /\ degree[u] # <<>>
      BY <1>0, ListTypes DEF LockInv, StoreInTime
    <3>2. 1 \in DOMAIN degree[u]
      BY <3>1, LenProperties, EmptySeq
    <3>3. degree[u][1].ts \in Nat /\ degree[u][1].ts <= L
      BY <1>0, <3>2, ListTypes DEF LockInv, StoreInTime, NotNewer, L
    <3>4. degree[u][1].ts <= ts
      BY <1>0, <2>2, <3>3
    <3> QED
      BY <3>2, <3>4 DEF HasDegree
  <2> QED
    BY <1>0, <2>1, <2>2
<1>9. ReadersInTime' /\ OnlyNewVerticesThrow'
  <2>1. Len(log') \in Nat /\ Len(log) <= Len(log') /\ m_vertex_count' \in Nat /\ m_vertex_count <= m_vertex_count'
    BY <1>0, <1>1, <1>2 DEF L
  <2>2. \A ts \in 0..Len(log) : VerticesAt(ts)' = VerticesAt(ts)
    BY <1>3 DEF L
  <2> QED
    BY <1>2, <2>1, <2>2, ReadersStayInTime
<1> QED
  BY <1>7, <1>8, <1>9 DEF VertexInv

\* A vertex gets its first degree at the timestamp of the transaction that the
\* log counts it for.
LEMMA InsertVertexVertices ==
    ASSUME LockInv, VertexInv, NEW w \in Writers, InsertVertex(w)
    PROVE  VertexInv'
<1>a. m_vertex_count \in 0..NumVertices /\ m_vertex_count < NumVertices
  BY DEF LockInv, TypeOK, InsertVertex
<1>b. m_vertex_count \in Vertices
  BY <1>a, VerticesAreLocks DEF Vertices
<1>c. PICK m \in Vertices : m = m_vertex_count
  BY <1>b
<1>0. /\ TypeOK /\ wts[w] \in Nat /\ m \in Nat /\ wverts[w] \in Nat /\ wverts[w] > 0
      /\ wpc[w] = "apply" /\ wtx[w] \in TxRecord /\ wtx[w].verts \in Nat
  BY TxTypes, VerticesAreLocks DEF LockInv, TypeOK, InsertVertex
<1>1. /\ m_vertex_count' = m + 1
      /\ degree'[m] = UpdateDegree(<<>>, 0, wts[w])
      /\ \A u \in Vertices \ {m} : degree'[u] = degree[u]
      /\ wverts'[w] = wverts[w] - 1 /\ \A x \in Writers \ {w} : wverts'[x] = wverts[x]
      /\ UNCHANGED <<shared, wpc, wtx, wts, readerVars, log>>
  BY <1>0, <1>c DEF InsertVertex, TypeOK
<1>2. /\ Inserting(w) /\ wverts[w] <= wtx[w].verts
      /\ m + wverts[w] = VerticesAt(Len(log)) /\ VerticesAt(wts[w]) = VerticesAt(Len(log))
  BY <1>0, <1>c DEF Inserting, VertexInv, CountFollowsLog
<1>3. \A x \in Writers \ {w} : ~ Inserting(x)
  <2> SUFFICES ASSUME NEW x \in Writers, Inserting(x) PROVE x = w
    OBVIOUS
  <2>1. wtx[w].verts > 0 /\ wpc[w] = "apply"
    BY <1>0, <1>2
  <2>2. wtx[x].verts > 0 /\ wpc[x] = "apply"
    <3>1. wtx[x].verts \in Nat /\ wverts[x] \in Nat
      BY TxTypes DEF LockInv, TypeOK
    <3> QED
      BY <3>1 DEF Inserting, VertexInv, CountFollowsLog
  <2>3. IndexLock \in Held(w) /\ IndexLock \in Held(x)
    BY <2>1, <2>2 DEF LocksRequired, Held
  <2> QED
    BY <2>3 DEF LockInv, OwnsLocks
<1>4. \A ts : VerticesAt(ts)' = VerticesAt(ts)
  BY <1>1 DEF VerticesAt
<1>5. Len(log) \in Nat /\ wts[w] \in 1..Len(log) /\ log[wts[w]] = wtx[w]
  <2>1. wts[w] \in DOMAIN log /\ log[wts[w]] = wtx[w]
    BY <1>0 DEF LockInv, Stamped
  <2> QED
    BY <2>1, LenProperties DEF LockInv, TypeOK
<1>6. VerticesAt(Len(log)) \in Nat
  BY <1>5, VerticesAtGrows
<1>7. CountFollowsLog'
  <2>1. \A x \in Writers : wpc'[x] = "apply" => wverts'[x] <= wtx'[x].verts
    <3>1. wverts'[w] <= wtx'[w].verts
      BY <1>0, <1>1, <1>2
    <3> QED
      BY <1>1, <3>1 DEF VertexInv, CountFollowsLog
  <2>2. \A x \in Writers \ {w} : ~ Inserting(x)'
    BY <1>1, <1>3 DEF Inserting
  <2>3. m_vertex_count' + wverts'[w] = VerticesAt(Len(log))'
    <3>1. (m + 1) + (wverts[w] - 1) = m + wverts[w]
      BY <1>0
    <3> QED
      BY <1>1, <1>2, <3>1 DEF VerticesAt
  <2>4. VerticesAt(wts[w])' = VerticesAt(Len(log))'
    BY <1>1, <1>2 DEF VerticesAt
  <2>5. ~ Inserting(w)' => wverts'[w] = 0
    BY <1>0, <1>1 DEF Inserting
  <2>6. ~ Inserting(w)' => m_vertex_count' = VerticesAt(Len(log))'
    BY <1>0, <1>1, <2>3, <2>5
  <2> QED
    BY <2>1, <2>2, <2>3, <2>4, <2>6 DEF CountFollowsLog
<1>8. DegreesReach'
  <2> SUFFICES ASSUME NEW u \in Vertices, NEW ts \in 0..Len(log),
                      u < m + 1, u < VerticesAt(ts)
               PROVE  HasDegree(degree'[u], ts)
    BY <1>1 DEF DegreesReach, VerticesAt
  <2>0. u \in Nat /\ ts \in Int /\ ts \in Nat
    BY <1>5, VerticesAreLocks
  <2>1. CASE u = m
    <3>1. wts[w] <= ts
      <4> SUFFICES ASSUME ~ (wts[w] <= ts) PROVE FALSE
        OBVIOUS
      <4>1. wts[w] - 1 \in 0..Len(log) /\ ts <= wts[w] - 1
        BY <1>5, <2>0
      <4>2. VerticesAt(ts) <= VerticesAt(wts[w] - 1)
        BY <4>1, VerticesAtGrows
      <4>3. /\ VerticesAt(wts[w]) = VerticesAt(wts[w] - 1) + wtx[w].verts
            /\ VerticesAt(wts[w] - 1) \in Nat /\ VerticesAt(ts) \in Nat
        BY <1>5, <4>1, VerticesAtGrows
      <4>4. VerticesAt(wts[w] - 1) <= m
        BY <1>0, <1>2, <4>3
      <4> QED
        BY <1>0, <2>0, <2>1, <4>2, <4>3, <4>4
    <3>2. <<>> \in Seq(DegreeNode) /\ 0 \in Nat
      BY EmptySeq
    <3>3. HasDegree(UpdateDegree(<<>>, 0, wts[w]), ts)
      BY <1>0, <2>0, <3>1, <3>2, UpdateDegreeReads
    <3> QED
      BY <1>1, <2>1, <3>3
  <2>2. CASE u # m
    <3>1. u < m_vertex_count
      BY <1>0, <1>c, <2>0, <2>2
    <3> QED
      BY <1>1, <2>2, <3>1 DEF VertexInv, DegreesReach
  <2> QED
    BY <2>1, <2>2
<1>9. ReadersInTime' /\ OnlyNewVerticesThrow'
  <2>1. /\ Len(log') \in Nat /\ Len(log) <= Len(log')
        /\ m_vertex_count' \in Nat /\ m_vertex_count <= m_vertex_count'
    BY <1>0, <1>1, <1>5, <1>c
  <2> QED
    BY <1>1, <1>4, <2>1, ReadersStayInTime
<1> QED
  BY <1>7, <1>8, <1>9 DEF VertexInv

\* update_degree pushes in front: no node an older snapshot needs goes.
LEMMA InsertEdgesVertices ==
    ASSUME LockInv, VertexInv, NEW w \in Writers, InsertEdges(w)
    PROVE  VertexInv'
<1>0. TypeOK /\ wts[w] \in Nat
  BY DEF LockInv, TypeOK
<1>1. PICK u \in Vertices, d \in SUBSET Vertices : InsertsAt(w, u, d)
  BY InsertEdgesFacts
<1>2. /\ UNCHANGED <<m_vertex_count, shared, wpc, wtx, wts, wverts, readerVars, log>>
      /\ \A x \in Vertices \ {u} : degree'[x] = degree[x]
  BY <1>1 DEF InsertsAt
<1>3. \A ts : VerticesAt(ts)' = VerticesAt(ts)
  BY <1>2 DEF VerticesAt
<1>4. CountFollowsLog'
  BY <1>2, <1>3 DEF VertexInv, CountFollowsLog, Inserting, VerticesAt
<1>5. ASSUME NEW ts \in Int, HasDegree(degree[u], ts) PROVE HasDegree(degree'[u], ts)
  <2>1. PICK deg \in Nat : degree'[u] \in {degree[u], UpdateDegree(degree[u], deg, wts[w])}
    <3>1. GetDegree(degree[u], wts[w]) + Cardinality(NewDests(u, d)) \in Nat
      BY <1>1 DEF InsertsAt
    <3> QED
      BY <1>1, <3>1 DEF InsertsAt
  <2>2. degree[u] \in Seq(DegreeNode)
    BY <1>0, ListTypes
  <2>3. HasDegree(UpdateDegree(degree[u], deg, wts[w]), ts)
    BY <1>0, <1>5, <2>2, UpdateDegreeReads
  <2> QED
    BY <1>5, <2>1, <2>3
<1>6. DegreesReach'
  <2> SUFFICES ASSUME NEW x \in Vertices, NEW ts \in 0..Len(log),
                      x < m_vertex_count, x < VerticesAt(ts)
               PROVE  HasDegree(degree'[x], ts)
    BY <1>2 DEF DegreesReach, VerticesAt
  <2>1. HasDegree(degree[x], ts) /\ ts \in Int
    BY DEF VertexInv, DegreesReach
  <2> QED
    BY <1>2, <1>5, <2>1
<1>7. ReadersInTime' /\ OnlyNewVerticesThrow'
  <2>1. Len(log) \in Nat /\ m_vertex_count \in Nat
    BY LenProperties DEF LockInv, TypeOK
  <2>2. /\ Len(log') \in Nat /\ Len(log) <= Len(log')
        /\ m_vertex_count' \in Nat /\ m_vertex_count <= m_vertex_count'
    BY <1>2, <2>1
  <2> QED
    BY <1>2, <1>3, <2>2, ReadersStayInTime
<1> QED
  BY <1>4, <1>6, <1>7 DEF VertexInv

\* A step of a reader leaves the other readers and their answers.
LEMMA OthersInTime ==
    ASSUME LockInv, VertexInv, NEW r \in Readers,
           UNCHANGED <<storeVars, log>>,
           \A q \in Readers \ {r} :
                /\ rpc'[q] = rpc[q] /\ rop'[q] = rop[q] /\ rneed'[q] = rneed[q]
                /\ rscan'[q] = rscan[q] /\ snapshot'[q] = snapshot[q]
                /\ \A u \in Vertices : shared'[u][q] = shared[u][q],
           snapshot'[r] # NoSnapshot => snapshot'[r] \in 0..Len(log),
           \A u \in Vertices : shared'[u][r] > 0 => u < m_vertex_count,
           rpc'[r] = "failed" /\ rneed'[r] = <<>> => ReadVertex(r)' >= VerticesAt(snapshot'[r])
    PROVE  ReadersInTime' /\ OnlyNewVerticesThrow'
<1> USE DEF storeVars
<1>1. ReadersInTime'
  <2>1. \A q \in Readers : snapshot'[q] # NoSnapshot => snapshot'[q] \in 0..Len(log)
    BY DEF VertexInv, ReadersInTime
  <2>2. \A u \in Vertices, q \in Readers : shared'[u][q] > 0 => u < m_vertex_count
    BY DEF VertexInv, ReadersInTime
  <2> QED
    BY <2>1, <2>2 DEF ReadersInTime
<1>2. OnlyNewVerticesThrow'
  <2> SUFFICES ASSUME NEW q \in Readers, rpc'[q] = "failed", rneed'[q] = <<>>
               PROVE  ReadVertex(q)' >= VerticesAt(snapshot[q])'
    BY DEF OnlyNewVerticesThrow
  <2>1. VerticesAt(snapshot[q])' = VerticesAt(snapshot'[q])
    BY DEF VerticesAt
  <2>2. CASE q = r
    BY <2>1, <2>2
  <2>3. CASE q # r
    <3>1. ReadVertex(q)' = ReadVertex(q) /\ ReadVertex(q) >= VerticesAt(snapshot[q])
      BY <2>3 DEF ReadVertex, VertexInv, OnlyNewVerticesThrow
    <3> QED
      BY <2>1, <2>3, <3>1
  <2> QED
    BY <2>2, <2>3
<1> QED
  BY <1>1, <1>2

\* get_degree misses only what the log did not have at the snapshot.
LEMMA ThrowsInTime ==
    ASSUME LockInv, VertexInv, NEW r \in Readers, ReadThrows(r)
    PROVE  ReadVertex(r) >= VerticesAt(snapshot[r])
<1> DEFINE u == ReadVertex(r)
<1>0. TypeOK /\ HoldsShared(r) /\ rop[r] \in OpRecord /\ rpc[r] = "acquire"
  BY DEF LockInv, TypeOK, ReadThrows, AllAcquiredShared
<1>1. u \in Vertices /\ CallLocks(r) = <<u>>
  BY <1>0, OpTypes DEF ReadThrows, ReadVertex, CallLocks, SharedLocks, HoldsShared
<1>2. ~ HasDegree(degree[u], snapshot[r])
  BY DEF ReadThrows
<1>3. snapshot[r] \in 0..Len(log)
  BY <1>0 DEF HoldsShared, VertexInv, ReadersInTime
<1> HIDE DEF u
<1>4. shared[u][r] > 0
  <2>1. u \in ToSet(CallLocks(r))
    BY <1>1 DEF ToSet
  <2> QED
    BY <2>1, AcquiredLocks DEF ReadThrows
<1>5. u < m_vertex_count
  BY <1>1, <1>4 DEF VertexInv, ReadersInTime
<1>6. ~ (u < VerticesAt(snapshot[r]))
  BY <1>1, <1>2, <1>3, <1>5 DEF VertexInv, DegreesReach
<1>7. u \in Nat /\ VerticesAt(snapshot[r]) \in Nat
  BY <1>1, <1>3, VerticesAreLocks, VerticesAtGrows
<1> QED
  BY <1>6, <1>7 DEF u

\* The steps of readers.
LEMMA ReaderVertices ==
    ASSUME LockInv, VertexInv, NEW r \in Readers,
           \/ ReadStep(r) \/ BeginRead(r) \/ EndRead(r)
           \/ \E op \in ReadOps : StartRead(r, op)
    PROVE  VertexInv'
<1>0. TypeOK /\ Len(log) \in Nat /\ global_timestamp = Len(log)
  BY LenProperties DEF LockInv, TypeOK, StoreInTime
<1>1. UNCHANGED <<storeVars, log, writerVars>>
  BY DEF ReadStep, BeginRead, EndRead, StartRead, AcquireShared, AcquireSharedThrows, Read,
     ReadUnversioned, ReadThrows, ScanVertex, ScanDegree, ScanEnds, ReleaseShared, ReadReturns
<1>2. ASSUME shared' = shared,
             rpc'[r] = "failed" => rneed'[r] # <<>> \/ ReadThrows(r),
             snapshot'[r] \in {snapshot[r], NoSnapshot, Len(log)},
             \A q \in Readers \ {r} :
                /\ rpc'[q] = rpc[q] /\ rop'[q] = rop[q] /\ rneed'[q] = rneed[q]
                /\ rscan'[q] = rscan[q] /\ snapshot'[q] = snapshot[q]
      PROVE  ReadersInTime' /\ OnlyNewVerticesThrow'
  <2>1. snapshot'[r] # NoSnapshot => snapshot'[r] \in 0..Len(log)
    BY <1>0, <1>2 DEF VertexInv, ReadersInTime
  <2>2. \A u \in Vertices : shared'[u][r] > 0 => u < m_vertex_count
    BY <1>2 DEF VertexInv, ReadersInTime
  <2>3. rpc'[r] = "failed" /\ rneed'[r] = <<>> => ReadVertex(r)' >= VerticesAt(snapshot'[r])
    <3> SUFFICES ASSUME ReadThrows(r) PROVE ReadVertex(r)' >= VerticesAt(snapshot'[r])
      BY <1>2
    <3>1. ReadVertex(r)' = ReadVertex(r) /\ snapshot' = snapshot
      BY DEF ReadThrows, ReadVertex
    <3> QED
      BY <3>1, ThrowsInTime
  <2> QED
    BY <1>1, <1>2, <2>1, <2>2, <2>3, OthersInTime
<1>3. CASE BeginRead(r) \/ EndRead(r)
  <2>1. UNCHANGED <<shared, rpc, rop, rneed, rscan>>
    BY <1>3 DEF BeginRead, EndRead
  <2>2. /\ snapshot'[r] \in {NoSnapshot, Len(log)} /\ rpc[r] = "idle"
        /\ \A q \in Readers \ {r} : snapshot'[q] = snapshot[q]
    BY <1>0, <1>3 DEF BeginRead, EndRead, TypeOK
  <2> QED
    BY <1>1, <1>2, <2>1, <2>2, VertexFrame DEF writerVars
<1>4. CASE \E op \in ReadOps : StartRead(r, op)
  <2>1. PICK op \in ReadOps : StartRead(r, op)
    BY <1>4
  <2>2. /\ shared' = shared /\ snapshot' = snapshot /\ rpc'[r] # "failed"
        /\ \A q \in Readers \ {r} : /\ rpc'[q] = rpc[q] /\ rop'[q] = rop[q]
                                    /\ rneed'[q] = rneed[q] /\ rscan'[q] = rscan[q]
    BY <1>0, <2>1 DEF StartRead, TypeOK
  <2> QED
    BY <1>1, <1>2, <2>2, VertexFrame DEF writerVars
<1>5. CASE \/ AcquireSharedThrows(r) \/ Read(r) \/ ReadUnversioned(r) \/ ReadThrows(r)
           \/ ScanVertex(r) \/ ScanDegree(r) \/ ScanEnds(r) \/ ReadReturns(r)
  <2>1. shared' = shared /\ snapshot' = snapshot
    BY <1>5 DEF AcquireSharedThrows, Read, ReadUnversioned, ReadThrows, ScanVertex, ScanDegree,
       ScanEnds, ReadReturns
  <2>2. \A q \in Readers \ {r} : /\ rpc'[q] = rpc[q] /\ rop'[q] = rop[q]
                                 /\ rneed'[q] = rneed[q] /\ rscan'[q] = rscan[q]
    BY <1>0, <1>5 DEF AcquireSharedThrows, Read, ReadUnversioned, ReadThrows, ScanVertex,
       ScanDegree, ScanEnds, ReadReturns, TypeOK
  <2>3. rpc'[r] = "failed" => rneed'[r] # <<>> \/ ReadThrows(r)
    BY <1>0, <1>5 DEF AcquireSharedThrows, Read, ReadUnversioned, ScanVertex, ScanDegree,
       ScanEnds, ReadReturns, TypeOK
  <2> QED
    BY <1>1, <1>2, <2>1, <2>2, <2>3, VertexFrame DEF writerVars
<1>6. CASE AcquireShared(r) \/ ReleaseShared(r)
  <2> DEFINE l == Head(rneed[r])
  <2>1. /\ rneed[r] \in Seq(Locks) /\ rneed[r] # <<>> /\ rpc[r] # "failed"
        /\ UNCHANGED <<rpc, rop, rscan, snapshot>> /\ rneed' = [rneed EXCEPT ![r] = Tail(@)]
    BY <1>0, <1>6 DEF AcquireShared, ReleaseShared, TypeOK
  <2>2. l \in Locks
    BY <2>1, HeadAndTail
  <2>3. \A q \in Readers \ {r} : /\ rpc'[q] = rpc[q] /\ rop'[q] = rop[q] /\ rneed'[q] = rneed[q]
                                 /\ rscan'[q] = rscan[q] /\ snapshot'[q] = snapshot[q]
    BY <1>0, <2>1 DEF TypeOK
  <2>4. \/ LockExists(l) /\ shared' = [shared EXCEPT ![l][r] = @ + 1]
        \/ shared' = [shared EXCEPT ![l][r] = @ - 1]
    BY <1>6 DEF AcquireShared, ReleaseShared
  <2>0. shared \in [Locks -> [Readers -> Nat]]
    BY <1>0 DEF TypeOK
  <2> HIDE DEF l
  <2>5. \A q \in Readers, u \in Locks : q # r \/ u # l => shared'[u][q] = shared[u][q]
    <3>1. CASE shared' = [shared EXCEPT ![l][r] = @ + 1]
      BY <2>0, <2>2, <3>1
    <3>2. CASE shared' = [shared EXCEPT ![l][r] = @ - 1]
      BY <2>0, <2>2, <3>2
    <3> QED
      BY <2>4, <3>1, <3>2
  <2>6. LockExists(l) \/ (shared'[l][r] = shared[l][r] - 1 /\ shared[l][r] \in Nat)
    BY <2>0, <2>2, <2>4
  <2>7. ASSUME NEW u \in Vertices, shared'[u][r] > 0 PROVE u < m_vertex_count
    <3>1. u \in Locks /\ u # IndexLock
      BY VerticesAreLocks
    <3>2. CASE u = l
      <4>1. LockExists(l) => u < m_vertex_count
        BY <3>1, <3>2 DEF LockExists
      <4>2. ~ LockExists(l) => shared[u][r] > 0
        BY <2>6, <2>7, <3>2
      <4> QED
        BY <4>1, <4>2 DEF VertexInv, ReadersInTime
    <3>3. CASE u # l
      <4>1. shared[u][r] > 0
        BY <2>5, <2>7, <3>1, <3>3
      <4> QED
        BY <4>1 DEF VertexInv, ReadersInTime
    <3> QED
      BY <3>2, <3>3
  <2>8. \A q \in Readers \ {r}, u \in Vertices : shared'[u][q] = shared[u][q]
    BY <2>5, VerticesAreLocks
  <2>9. snapshot'[r] # NoSnapshot => snapshot'[r] \in 0..Len(log)
    BY <2>1 DEF VertexInv, ReadersInTime
  <2>10. ReadersInTime' /\ OnlyNewVerticesThrow'
    BY <1>1, <2>1, <2>3, <2>7, <2>8, <2>9, OthersInTime
  <2> QED
    BY <1>1, <2>10, VertexFrame DEF writerVars
<1> QED
  BY <1>3, <1>4, <1>5, <1>6 DEF ReadStep

\* The lock calls of writers.
LEMMA QuietVertices ==
    ASSUME LockInv, VertexInv, NEW w \in Writers,
           \/ \E tx \in Txs : BeginWrite(w, tx)
           \/ AcquireLock(w) \/ AcquireThrows(w) \/ Applied(w) \/ ReleaseLock(w) \/ EndWrite(w)
    PROVE  VertexInv'
<1>0. TypeOK
  BY DEF LockInv
<1>1. UNCHANGED <<storeVars, log, shared, readerVars, wts, wverts>>
  BY DEF BeginWrite, AcquireLock, AcquireThrows, Applied, ReleaseLock, EndWrite
<1>2. ReadersInTime' /\ OnlyNewVerticesThrow'
  <2>1. Len(log) \in Nat /\ m_vertex_count \in Nat
    BY <1>0, LenProperties DEF TypeOK
  <2>2. \A ts : VerticesAt(ts)' = VerticesAt(ts)
    BY <1>1 DEF VerticesAt
  <2>3. m_vertex_count' = m_vertex_count /\ log' = log
    BY <1>1 DEF storeVars
  <2>4. Len(log) <= Len(log) /\ m_vertex_count <= m_vertex_count
    BY <2>1
  <2> QED
    BY <1>1, <2>1, <2>2, <2>3, <2>4, ReadersStayInTime
<1>3. CASE Applied(w)
  <2>1. /\ \A x \in Writers \ {w} : wpc'[x] = wpc[x] /\ wtx'[x] = wtx[x]
        /\ ~ Inserting(w) /\ wpc'[w] = "release" /\ wtx' = wtx /\ wts' = wts /\ wverts' = wverts
    BY <1>0, <1>1, <1>3 DEF Applied, TypeOK, Inserting
  <2>2. \A x \in Writers : Inserting(x)' = Inserting(x)
    BY <1>1, <2>1 DEF Inserting
  <2>3. \A ts : VerticesAt(ts)' = VerticesAt(ts)
    BY <1>1 DEF VerticesAt
  <2>4. CountFollowsLog'
    BY <1>1, <2>1, <2>2, <2>3 DEF VertexInv, CountFollowsLog, storeVars
  <2>5. DegreesReach'
    BY <1>1, <2>3 DEF VertexInv, DegreesReach, storeVars
  <2> QED
    BY <1>2, <2>4, <2>5 DEF VertexInv
<1>4. CASE \/ \E tx \in Txs : BeginWrite(w, tx)
           \/ AcquireLock(w) \/ AcquireThrows(w) \/ ReleaseLock(w) \/ EndWrite(w)
  <2>1. /\ wpc[w] # "apply" /\ wpc'[w] # "apply"
        /\ \A x \in Writers \ {w} : wpc'[x] = wpc[x] /\ wtx'[x] = wtx[x]
    BY <1>0, <1>4 DEF BeginWrite, AcquireLock, AcquireThrows, ReleaseLock, EndWrite, TypeOK
  <2> QED
    BY <1>1, <1>2, <2>1, VertexFrame
<1> QED
  BY <1>3, <1>4

\* After the load the log has the loaded vertices, each with a degree.
LEMMA VertexInvInit == Init => VertexInv
<1> SUFFICES ASSUME Init PROVE VertexInv
  OBVIOUS
<1>0. LockInv /\ Loaded \in Nat
  BY LockInvInit, VerticesAreLocks
<1>1. /\ VerticesAt(0) = 0 /\ \A t \in 1..Len(log) : VerticesAt(t) = VerticesAt(t-1) + log[t].verts
      /\ \A t \in 0..Len(log) : VerticesAt(t) \in Nat
  BY <1>0, VerticesAtGrows
<1>2. log = Preloaded /\ m_vertex_count = Loaded
  BY DEF Init
<1>3. VerticesAt(Len(log)) = Loaded
  <2>1. CASE Loaded = 0
    <3>1. Len(log) = 0
      BY <1>2, <2>1 DEF Preloaded
    <3> QED
      BY <1>1, <2>1, <3>1
  <2>2. CASE Loaded # 0
    <3>1. Len(log) = 1 /\ log[1] = LoadTx
      BY <1>2, <2>2 DEF Preloaded
    <3>2. VerticesAt(1) = VerticesAt(0) + Loaded
      <4>1. VerticesAt(1) = VerticesAt(1-1) + log[1].verts
        BY <1>1, <3>1
      <4>2. 1 - 1 = 0 /\ log[1].verts = Loaded
        BY <3>1 DEF LoadTx
      <4> QED
        BY <4>1, <4>2
    <3> QED
      BY <1>0, <1>1, <3>1, <3>2
  <2> QED
    BY <2>1, <2>2
<1>4. CountFollowsLog
  BY <1>2, <1>3 DEF Init, CountFollowsLog, Inserting
<1>5. DegreesReach
  <2> SUFFICES ASSUME NEW u \in Vertices, NEW ts \in 0..Len(log), u < Loaded, u < VerticesAt(ts)
               PROVE  HasDegree(degree[u], ts)
    BY <1>2 DEF DegreesReach
  <2>1. ts # 0 /\ ts \in Int /\ u \in Nat
    BY <1>1, VerticesAreLocks
  <2>2. 1 <= ts
    BY <2>1
  <2>3. <<>> \in Seq(DegreeNode) /\ 0 \in Nat /\ 1 \in Nat
    BY EmptySeq
  <2>4. HasDegree(UpdateDegree(<<>>, 0, 1), ts)
    BY <2>1, <2>2, <2>3, UpdateDegreeReads
  <2> QED
    BY <2>4 DEF Init
<1>6. ReadersInTime /\ OnlyNewVerticesThrow
  BY VerticesAreLocks DEF Init, ReadersInTime, OnlyNewVerticesThrow
<1> QED
  BY <1>4, <1>5, <1>6 DEF VertexInv

\* Every step keeps the vertices in step with the log.
LEMMA VertexInvStep == LockInv /\ VertexInv /\ [Next]_vars => VertexInv'
<1> SUFFICES ASSUME LockInv, VertexInv, [Next]_vars PROVE VertexInv'
  OBVIOUS
<1>1. ASSUME NEW w \in Writers, CommitStep(w) \/ \E tx \in Txs : BeginWrite(w, tx)
      PROVE  VertexInv'
  BY <1>1, QuietVertices, TakeTimestampVertices, InsertVertexVertices, InsertEdgesVertices
  DEF CommitStep
<1>2. ASSUME NEW r \in Readers,
             \/ ReadStep(r) \/ BeginRead(r) \/ EndRead(r)
             \/ \E op \in ReadOps : StartRead(r, op)
      PROVE  VertexInv'
  BY <1>2, ReaderVertices
<1>3. CASE UNCHANGED vars
  <2>1. UNCHANGED <<storeVars, log, shared, writerVars, readerVars>>
    BY <1>3 DEF vars
  <2>2. ReadersInTime' /\ OnlyNewVerticesThrow'
    BY <2>1 DEF VertexInv, ReadersInTime, OnlyNewVerticesThrow, ReadVertex, VerticesAt,
       storeVars, readerVars
  <2> QED
    BY <2>1, <2>2, VertexFrame DEF writerVars
<1> QED
  BY <1>1, <1>2, <1>3 DEF Next

\* get_degree throws "Invalid timestamp" only for a vertex that the log did not
\* have when the snapshot was taken, whatever is inserted and committed meanwhile.
THEOREM ThrowsForNewVerticesOnly == Spec => []OnlyNewVerticesThrow
<1>1. LockInv /\ VertexInv /\ [Next]_vars => VertexInv'
  BY VertexInvStep
<1>2. VertexInv => OnlyNewVerticesThrow
  BY DEF VertexInv
<1> QED
  BY <1>1, <1>2, VertexInvInit, LockInvariant, PTL DEF Spec

-----------------------------------------------------------------------------
(* What the store contains *)

\* The wrapper inserts an undirected edge as both directions in one transaction.
BothDirections(tx) == \A e \in EdgesOf(tx) : <<e[2], e[1]>> \in EdgesOf(tx)

\* The reads but the iterator, whose first entry may be too new (run TxIterator).
ReadsFit == \A op \in ReadOps : op.kind # "iterate"
TxsFit   == \A tx \in Txs : BothDirections(tx)

-----------------------------------------------------------------------------
(* The second layer *)

\* The timestamps of the logged transactions that insert u -> v, and of those
\* still at work on it.
Logged(u, v) == {t \in DOMAIN log : <<u, v>> \in EdgesOf(log[t])}
Open(u, v)   == {wts[w] : w \in {x \in Writers : <<u, v>> \in Pending(x)}}

ChainsComplete ==
    \A u, v \in Vertices :
        /\ ToSet(versions[u][v]) \subseteq Logged(u, v)
        /\ Logged(u, v) \ Open(u, v) \subseteq ToSet(versions[u][v])

\* A degree list counts the visible edges at every timestamp, whoever is at work:
\* an insertion writes both under the lock of the vertex.
DegreesCount ==
    \A u \in Vertices, ts \in Nat : HasDegree(degree[u], ts) =>
        GetDegree(degree[u], ts) = Cardinality(VisibleDests(u, ts))

LogFits ==
    \A t \in DOMAIN log :
        /\ log[t] \in Txs \cup {LoadTx}
        /\ \A e \in EdgesOf(log[t]) : e[1] < m_vertex_count

WorkFits ==
    /\ \A w \in Writers : wpc[w] # "idle" => wtx[w] \in Txs
    /\ \A r \in Readers : rpc[r] # "idle" => rop[r] \in ReadOps

StoreInv == ChainsComplete /\ DegreesCount /\ LogFits /\ WorkFits

-----------------------------------------------------------------------------
(* Facts about the store *)

\* Sets of vertices are finite, so their sizes are numbers.
LEMMA FiniteVertexSets ==
    ASSUME NEW S, S \subseteq Vertices
    PROVE  IsFiniteSet(S) /\ Cardinality(S) \in Nat
<1>1. IsFiniteSet(Vertices)
  BY FS_Interval, WorkAssumption DEF WorkAssumption, Vertices
<1>2. S \in SUBSET Vertices
  OBVIOUS
<1> QED
  BY <1>1, <1>2, FS_Subset, FS_CardinalityType

\* A pending edge is an edge of a writer that has its timestamp and owns its source.
LEMMA PendingIsOwned ==
    ASSUME LockInv, NEW w \in Writers, NEW u \in Vertices, NEW v \in Vertices,
           <<u, v>> \in Pending(w)
    PROVE  /\ wpc[w] = "apply" /\ excl[u] = w /\ wts[w] \in DOMAIN log
           /\ <<u, v>> \in EdgesOf(wtx[w]) /\ log[wts[w]] = wtx[w]
<1>1. wtx[w] \in TxRecord /\ OwnsLocks(w) /\ Stamped(w)
  BY DEF LockInv, TypeOK
<1>2. PICK i \in wtodo[w] : wtx[w].edges[i] = <<u, v>>
  BY DEF Pending
<1>3. i \in DOMAIN wtx[w].edges /\ wpc[w] = "apply"
  BY <1>1, <1>2 DEF OwnsLocks
<1>4. u \in LocksRequired(wtx[w])
  <2>1. wtx[w].edges[i][1] = u
    BY <1>2
  <2> QED
    BY <1>1, <1>3, <2>1, TxTypes
<1>5. excl[u] = w
  BY <1>1, <1>3, <1>4 DEF OwnsLocks, Held
<1>6. <<u, v>> \in EdgesOf(wtx[w])
  BY <1>2, <1>3 DEF EdgesOf
<1> QED
  BY <1>1, <1>3, <1>5, <1>6 DEF Stamped

\* The property the runs check follows.
LEMMA ChainsFollow == LockInv /\ ChainsComplete => ChainsMatchLog
<1> SUFFICES ASSUME LockInv, ChainsComplete, NEW u \in Vertices, NEW v \in Vertices
             PROVE  /\ ToSet(versions[u][v]) \subseteq Logged(u, v)
                    /\ Logged(u, v) \ Open(u, v) \subseteq ToSet(versions[u][v])
                    /\ Open(u, v) # {} => excl[u] \in Writers
  BY DEF ChainsMatchLog, Logged, Open
<1>1. ASSUME Open(u, v) # {} PROVE excl[u] \in Writers
  BY <1>1, PendingIsOwned DEF Open
<1> QED
  BY <1>1 DEF ChainsComplete

\* At a vertex nobody owns a snapshot sees the neighbours the log says.
LEMMA QuietVertex ==
    ASSUME LockInv, StoreInv, NEW u \in Vertices, excl[u] = Nobody,
           NEW ts \in Nat, ts <= Len(log)
    PROVE  VisibleDests(u, ts) = Store!NeighborsAt(log, u, ts)
<1>0. log \in Seq(TxRecord) /\ DOMAIN log = 1..Len(log) /\ Len(log) \in Nat
  BY LenProperties DEF LockInv, TypeOK
<1>1. ASSUME NEW v \in Vertices PROVE ToSet(versions[u][v]) = Logged(u, v)
  <2>1. Open(u, v) = {}
    BY PendingIsOwned, ThreadAssumption DEF Open, ThreadAssumption
  <2> QED
    BY <2>1 DEF StoreInv, ChainsComplete
<1>2. ASSUME NEW v \in Vertices
      PROVE  CheckVersion(versions[u][v], ts) <=> \E i \in 1..ts : <<u, v>> \in Store!EdgesOf(log[i])
  <2>1. CheckVersion(versions[u][v], ts) <=> \E t \in Logged(u, v) : t <= ts
    BY <1>1, CheckVersionIsMembership
  <2>2. \A t : t \in 1..ts <=> t \in DOMAIN log /\ t <= ts
    BY <1>0
  <2>3. \A t : Store!EdgesOf(log[t]) = EdgesOf(log[t])
    BY DEF Store!EdgesOf, EdgesOf
  <2> QED
    BY <2>1, <2>2, <2>3 DEF Logged
<1> QED
  BY <1>2 DEF VisibleDests, Store!NeighborsAt

\* What was committed before a snapshot does not change after it.
LEMMA PrefixIsStable ==
    ASSUME NEW txs \in Seq(TxRecord), NEW tx \in TxRecord,
           NEW ts \in Nat, ts <= Len(txs)
    PROVE  /\ \A u : Store!NeighborsAt(Append(txs, tx), u, ts) = Store!NeighborsAt(txs, u, ts)
           /\ Store!EdgesAt(Append(txs, tx), ts) = Store!EdgesAt(txs, ts)
<1>1. \A i \in 1..ts : Append(txs, tx)[i] = txs[i]
  BY AppendProperties, LenProperties
<1>2. \A u : Store!NeighborsAt(Append(txs, tx), u, ts) = Store!NeighborsAt(txs, u, ts)
  BY <1>1 DEF Store!NeighborsAt
<1> QED
  BY <1>2 DEF Store!EdgesAt

-----------------------------------------------------------------------------
(* The second layer is an invariant *)

\* Most steps write neither the store nor the log.
LEMMA StoreInvFrame ==
    ASSUME LockInv, StoreInv, WorkFits', UNCHANGED <<storeVars, log>>,
           \A w \in Writers : wts'[w] = wts[w] /\ Pending(w)' = Pending(w)
    PROVE  StoreInv'
<1> USE DEF storeVars
<1>1. \A u, v : Logged(u, v)' = Logged(u, v) /\ Open(u, v)' = Open(u, v)
  BY DEF Logged, Open
<1>2. ChainsComplete'
  BY <1>1 DEF StoreInv, ChainsComplete
<1>3. DegreesCount'
  BY DEF StoreInv, DegreesCount, VisibleDests
<1>4. LogFits'
  BY DEF StoreInv, LogFits
<1> QED
  BY <1>2, <1>3, <1>4 DEF StoreInv

\* The lock calls of a commit leave the store as it is.
LEMMA QuietWriter ==
    ASSUME LockInv, StoreInv, NEW w \in Writers,
           \/ \E tx \in Txs : BeginWrite(w, tx)
           \/ AcquireLock(w) \/ AcquireThrows(w) \/ Applied(w) \/ ReleaseLock(w) \/ EndWrite(w)
    PROVE  StoreInv'
<1>0. TypeOK /\ OwnsLocks(w)
  BY DEF LockInv
<1>1. CASE \E tx \in Txs : BeginWrite(w, tx)
  <2>1. PICK tx \in Txs : BeginWrite(w, tx)
    BY <1>1
  <2>2. WorkFits'
    BY <1>0, <2>1 DEF StoreInv, WorkFits, BeginWrite, TypeOK, readerVars
  <2>3. \A x \in Writers : Pending(x)' = Pending(x)
    <3>1. \A x \in Writers \ {w} : Pending(x)' = Pending(x)
      BY <1>0, <2>1 DEF Pending, BeginWrite, TypeOK
    <3>2. wtodo[w] = {} /\ wtodo'[w] = {}
      BY <1>0, <2>1 DEF BeginWrite, OwnsLocks
    <3>3. Pending(w)' = Pending(w)
      BY <3>2 DEF Pending
    <3> QED
      BY <3>1, <3>3
  <2> QED
    BY <2>1, <2>2, <2>3, StoreInvFrame DEF BeginWrite
<1>2. CASE AcquireLock(w) \/ AcquireThrows(w) \/ Applied(w) \/ ReleaseLock(w) \/ EndWrite(w)
  <2>1. /\ UNCHANGED <<storeVars, log, wtx, wts, wtodo, readerVars>>
        /\ wpc[w] # "idle" /\ \A x \in Writers \ {w} : wpc'[x] = wpc[x]
    BY <1>0, <1>2 DEF AcquireLock, AcquireThrows, Applied, ReleaseLock, EndWrite, TypeOK
  <2>2. WorkFits'
    BY <2>1 DEF StoreInv, WorkFits, readerVars
  <2> QED
    BY <2>1, <2>2, StoreInvFrame DEF Pending
<1> QED
  BY <1>1, <1>2

\* The fetch_add logs a transaction whose edges are all still pending.
LEMMA TakeTimestampStores ==
    ASSUME LockInv, StoreInv, NEW w \in Writers, TakeTimestamp(w)
    PROVE  StoreInv'
<1>0. TypeOK /\ OwnsLocks(w) /\ wtx[w] \in TxRecord /\ log \in Seq(TxRecord)
  BY DEF LockInv, TypeOK
<1>1. /\ Len(log) \in Nat /\ DOMAIN log = 1..Len(log) /\ global_timestamp = Len(log)
      /\ DOMAIN log' = 1 .. Len(log) + 1
      /\ log'[Len(log) + 1] = wtx[w] /\ \A t \in DOMAIN log : log'[t] = log[t]
  BY <1>0, LenProperties, AppendProperties DEF TakeTimestamp, LockInv, StoreInTime
<1>2. /\ wpc[w] = "acquire" /\ wneed[w] = {} /\ wtx' = wtx /\ wtodo[w] = {}
      /\ UNCHANGED <<m_vertex_count, versions, degree, readerVars>>
      /\ wts'[w] = Len(log) + 1 /\ wtodo'[w] = DOMAIN wtx[w].edges
      /\ \A x \in Writers \ {w} : wpc'[x] = wpc[x] /\ wts'[x] = wts[x] /\ wtodo'[x] = wtodo[x]
  BY <1>0, <1>1 DEF TakeTimestamp, TypeOK, AllAcquired, OwnsLocks
<1>3. Pending(w) = {} /\ Pending(w)' = EdgesOf(wtx[w])
  BY <1>2 DEF Pending, EdgesOf
<1>4. \A x \in Writers \ {w} : Pending(x)' = Pending(x)
  BY <1>2 DEF Pending
<1>5. ChainsComplete'
  <2> SUFFICES ASSUME NEW u \in Vertices, NEW v \in Vertices
               PROVE  /\ ToSet(versions[u][v]) \subseteq Logged(u, v)'
                      /\ Logged(u, v)' \ Open(u, v)' \subseteq ToSet(versions[u][v])
    BY <1>2 DEF ChainsComplete
  <2>1. Logged(u, v) \subseteq Logged(u, v)'
    BY <1>1 DEF Logged
  <2>2. ASSUME NEW t \in Logged(u, v)', t \notin Open(u, v)'
        PROVE  t \in Logged(u, v) /\ t \notin Open(u, v)
    <3>1. CASE t = Len(log) + 1
      <4>1. <<u, v>> \in EdgesOf(wtx[w])
        BY <1>1, <2>2, <3>1 DEF Logged
      <4>2. wts'[w] \in Open(u, v)'
        BY <1>3, <4>1 DEF Open
      <4> QED
        BY <1>2, <2>2, <3>1, <4>2
    <3>2. CASE t # Len(log) + 1
      <4>1. t \in DOMAIN log /\ log'[t] = log[t]
        BY <1>1, <2>2, <3>2 DEF Logged
      <4>2. \A x \in Writers : <<u, v>> \in Pending(x) => x # w /\ <<u, v>> \in Pending(x)'
        BY <1>3, <1>4
      <4>3. t \notin Open(u, v)
        BY <1>2, <2>2, <4>2 DEF Open
      <4> QED
        BY <2>2, <4>1, <4>3 DEF Logged
    <3> QED
      BY <3>1, <3>2
  <2> QED
    BY <2>1, <2>2 DEF StoreInv, ChainsComplete
<1>6. DegreesCount'
  BY <1>2 DEF StoreInv, DegreesCount, VisibleDests
<1>7. LogFits'
  <2>1. \A e \in EdgesOf(wtx[w]) : e[1] < m_vertex_count
    <3> SUFFICES ASSUME NEW i \in DOMAIN wtx[w].edges PROVE wtx[w].edges[i][1] < m_vertex_count
      BY DEF EdgesOf
    <3>1. wtx[w].edges[i][1] \in Held(w) /\ wtx[w].edges[i][1] \in Vertices
      BY <1>0, <1>2, TxTypes DEF Held
    <3>2. LockExists(wtx[w].edges[i][1])
      BY <1>0, <3>1 DEF OwnsLocks
    <3> QED
      BY <3>1, <3>2, VerticesAreLocks DEF LockExists
  <2>2. wtx[w] \in Txs
    BY <1>2 DEF StoreInv, WorkFits
  <2>3. \A t \in DOMAIN log' : t \in DOMAIN log \/ t = Len(log) + 1
    BY <1>1
  <2> QED
    BY <1>1, <1>2, <2>1, <2>2, <2>3 DEF StoreInv, LogFits
<1>8. WorkFits'
  BY <1>2 DEF StoreInv, WorkFits, readerVars
<1> QED
  BY <1>5, <1>6, <1>7, <1>8 DEF StoreInv

\* A new vertex has no edges and degree 0.
LEMMA InsertVertexStores ==
    ASSUME LockInv, StoreInv, NEW w \in Writers, InsertVertex(w)
    PROVE  StoreInv'
<1>a. m_vertex_count \in 0..NumVertices /\ m_vertex_count < NumVertices
  BY DEF LockInv, TypeOK, InsertVertex
<1>b. m_vertex_count \in Vertices
  BY <1>a, VerticesAreLocks DEF Vertices
<1>c. PICK m \in Vertices : m = m_vertex_count
  BY <1>b
<1>0. TypeOK /\ wts[w] \in Nat
  BY DEF LockInv, TypeOK
<1>1. /\ m_vertex_count' = m + 1
      /\ degree'[m] = UpdateDegree(<<>>, 0, wts[w])
      /\ \A u \in Vertices \ {m} : degree'[u] = degree[u]
      /\ UNCHANGED <<versions, wpc, wtx, wts, wtodo, readerVars, log>>
  BY <1>0, <1>c DEF InsertVertex, TypeOK
<1>2. ChainsComplete'
  <2>1. \A u, v : Logged(u, v)' = Logged(u, v) /\ Open(u, v)' = Open(u, v)
    BY <1>1 DEF Logged, Open, Pending
  <2> QED
    BY <1>1, <2>1 DEF StoreInv, ChainsComplete
<1>3. DegreesCount'
  <2>1. \A u, ts : VisibleDests(u, ts)' = VisibleDests(u, ts)
    BY <1>1 DEF VisibleDests
  <2>2. ASSUME NEW ts \in Nat, HasDegree(degree'[m], ts)
        PROVE  GetDegree(degree'[m], ts) = Cardinality(VisibleDests(m, ts))
    <3>1. ~ HasDegree(<<>>, ts)
      BY DEF HasDegree
    <3>2. wts[w] <= ts /\ GetDegree(degree'[m], ts) = 0
      <4>1. <<>> \in Seq(DegreeNode) /\ 0 \in Nat /\ ts \in Int
        BY EmptySeq
      <4>2. /\ \A n \in Int : HasDegree(UpdateDegree(<<>>, 0, wts[w]), n)
                                <=> wts[w] <= n \/ HasDegree(<<>>, n)
            /\ \A n \in Int : wts[w] <= n => GetDegree(UpdateDegree(<<>>, 0, wts[w]), n) = 0
        BY <1>0, <4>1, UpdateDegreeReads, ZenonT(40)
      <4> QED
        BY <1>1, <2>2, <3>1, <4>1, <4>2
    <3>3. \A v \in Vertices : versions[m][v] = <<>>
      <4>1. m \in Nat /\ m >= m
        BY VerticesAreLocks
      <4>2. m >= m_vertex_count
        BY <1>c, <4>1
      <4> QED
        BY <4>2 DEF LockInv, StoreInTime
    <3>4. VisibleDests(m, ts) = {}
      BY <3>3 DEF VisibleDests, CheckVersion
    <3> QED
      BY <3>2, <3>4, FS_EmptySet
  <2> QED
    BY <1>1, <2>1, <2>2 DEF StoreInv, DegreesCount
<1>4. LogFits'
  <2> SUFFICES ASSUME NEW t \in DOMAIN log, NEW e \in EdgesOf(log[t]) PROVE e[1] < m + 1
    BY <1>1 DEF StoreInv, LogFits
  <2>1. e[1] < m
    BY <1>c DEF StoreInv, LogFits
  <2>2. log[t] \in TxRecord
    BY <1>0, LenProperties, ElementOfSeq DEF TypeOK
  <2>3. e[1] \in Vertices
    BY <2>2, TxTypes DEF EdgesOf
  <2>4. e[1] \in Nat /\ m \in Nat
    BY <2>3, VerticesAreLocks
  <2> QED
    BY <2>1, <2>4
<1>5. WorkFits'
  BY <1>1 DEF StoreInv, WorkFits, readerVars
<1> QED
  BY <1>2, <1>3, <1>4, <1>5 DEF StoreInv

\* Under the lock of its source an insertion makes chain and degree agree again:
\* a snapshot at its timestamp or later sees d as well, an older one no more.
LEMMA InsertEdgesSees ==
    ASSUME LockInv, NEW w \in Writers, NEW u \in Vertices, NEW d \in SUBSET Vertices,
           InsertsAt(w, u, d), NEW ts \in Nat
    PROVE  /\ wts[w] <= ts =>
                /\ VisibleDests(u, ts)' = VisibleDests(u, ts) \cup NewDests(u, d)
                /\ VisibleDests(u, ts) = VisibleDests(u, wts[w])
                /\ VisibleDests(u, ts) \cap NewDests(u, d) = {}
           /\ ~ (wts[w] <= ts) => VisibleDests(u, ts)' = VisibleDests(u, ts)
<1>0. TypeOK /\ wts[w] \in Nat
  BY DEF LockInv, TypeOK
<1>1. ASSUME NEW v \in Vertices
      PROVE  /\ versions[u][v] \in Seq(Nat)
             /\ ToSet(versions'[u][v]) =
                    IF v \in d THEN {wts[w]} \cup ToSet(versions[u][v]) ELSE ToSet(versions[u][v])
  <2>1. versions[u][v] \in Seq(Nat)
    BY <1>0 DEF TypeOK
  <2>2. versions'[u][v] = IF v \in d THEN PushVersion(versions[u][v], wts[w]) ELSE versions[u][v]
    BY DEF InsertsAt
  <2> QED
    BY <1>0, <2>1, <2>2, PushVersionAdds
<1>2. ASSUME NEW v \in Vertices
      PROVE  (v \in VisibleDests(u, ts)') <=> v \in VisibleDests(u, ts) \/ (v \in d /\ wts[w] <= ts)
  <2>1. /\ CheckVersion(versions'[u][v], ts) <=> \E t \in ToSet(versions'[u][v]) : t <= ts
        /\ CheckVersion(versions[u][v], ts) <=> \E t \in ToSet(versions[u][v]) : t <= ts
    BY CheckVersionIsMembership
  <2>2. (v \in VisibleDests(u, ts)') <=> CheckVersion(versions'[u][v], ts)
    BY DEF VisibleDests
  <2>3. v \in VisibleDests(u, ts) <=> CheckVersion(versions[u][v], ts)
    BY DEF VisibleDests
  <2> QED
    BY <1>1, <2>1, <2>2, <2>3
<1>3. VisibleDests(u, ts) \subseteq Vertices /\ VisibleDests(u, ts)' \subseteq Vertices
  BY DEF VisibleDests
<1>4. CASE ~ (wts[w] <= ts)
  BY <1>2, <1>3, <1>4
<1>5. CASE wts[w] <= ts
  <2>1. NotNewer(u, wts[w])
    BY DEF LockInv, Stamped, InsertsAt
  <2>2. ASSUME NEW n \in Nat, wts[w] <= n, NEW v \in Vertices
        PROVE  v \in VisibleDests(u, n) <=> versions[u][v] # <<>>
    <3>0. versions[u][v] \in Seq(Nat) /\ DOMAIN versions[u][v] = 1..Len(versions[u][v])
          /\ Len(versions[u][v]) \in Nat
      BY <1>1, LenProperties
    <3>1. \A i \in DOMAIN versions[u][v] : versions[u][v][i] \in Nat /\ versions[u][v][i] <= wts[w]
      BY <2>1, <3>0, ElementOfSeq DEF NotNewer, ToSet
    <3>2. CheckVersion(versions[u][v], n) <=> DOMAIN versions[u][v] # {}
      BY <1>0, <2>2, <3>1 DEF CheckVersion
    <3>3. DOMAIN versions[u][v] # {} <=> versions[u][v] # <<>>
      <4>1. ASSUME versions[u][v] # <<>> PROVE 1 \in DOMAIN versions[u][v]
        <5>1. Len(versions[u][v]) \in Nat \ {0}
          BY <3>0, <4>1, EmptySeq
        <5> QED
          BY <3>0, <5>1
      <4>2. DOMAIN <<>> = {}
        OBVIOUS
      <4> QED
        BY <4>1, <4>2
    <3> QED
      BY <3>2, <3>3 DEF VisibleDests
  <2>3. wts[w] <= wts[w]
    BY <1>0
  <2>4. VisibleDests(u, ts) = {v \in Vertices : versions[u][v] # <<>>}
    BY <1>3, <1>5, <2>2
  <2>5. VisibleDests(u, wts[w]) = {v \in Vertices : versions[u][v] # <<>>}
    <3>1. VisibleDests(u, wts[w]) \subseteq Vertices
      BY DEF VisibleDests
    <3> QED
      BY <1>0, <2>2, <2>3, <3>1
  <2>6. NewDests(u, d) = {v \in d : versions[u][v] = <<>>}
    BY DEF NewDests
  <2>7. VisibleDests(u, ts)' = VisibleDests(u, ts) \cup NewDests(u, d)
    BY <1>2, <1>3, <1>5, <2>4, <2>6
  <2> QED
    BY <1>5, <2>4, <2>5, <2>6, <2>7
<1> QED
  BY <1>4, <1>5

\* insert_edge and insert_edge_batch raise the degree by the entries they add.
LEMMA InsertEdgesStores ==
    ASSUME LockInv, StoreInv, NEW w \in Writers, InsertEdges(w)
    PROVE  StoreInv'
<1>0. TypeOK /\ wts[w] \in Nat /\ wtx[w] \in TxRecord
  BY DEF LockInv, TypeOK
<1>1. PICK u \in Vertices, d \in SUBSET Vertices : InsertsAt(w, u, d)
  BY InsertEdgesFacts
<1>2. /\ UNCHANGED <<m_vertex_count, excl, wpc, wtx, wts, readerVars, log>>
      /\ \A x \in Vertices \ {u} : versions'[x] = versions[x] /\ degree'[x] = degree[x]
  BY <1>1 DEF InsertsAt
<1>3. /\ wtodo'[w] = wtodo[w] \ NextEdges(w)
      /\ \A x \in Writers \ {w} : Pending(x)' = Pending(x)
  BY <1>0, <1>1 DEF InsertsAt, TypeOK, Pending
<1>4. /\ Pending(w)' \subseteq Pending(w)
      /\ Pending(w) \ Pending(w)' \subseteq {<<u, v>> : v \in d}
      /\ \A v \in d : <<u, v>> \in EdgesOf(wtx[w])
  <2>1. Pending(w)' = {wtx[w].edges[i] : i \in wtodo[w] \ NextEdges(w)}
    BY <1>2, <1>3 DEF Pending
  <2>2. wtodo[w] \subseteq DOMAIN wtx[w].edges
    BY DEF LockInv, OwnsLocks
  <2>3. \A i \in NextEdges(w) :
            i \in wtodo[w] /\ wtx[w].edges[i] = <<u, wtx[w].edges[i][2]>> /\ wtx[w].edges[i][2] \in d
    <3>1. \A i \in NextEdges(w) :
            i \in wtodo[w] /\ wtx[w].edges[i][1] = u /\ wtx[w].edges[i][2] \in d
      BY <1>1 DEF InsertsAt
    <3> QED
      BY <1>0, <2>2, <3>1, TxTypes
  <2>4. \A v \in d : <<u, v>> \in EdgesOf(wtx[w])
    <3>1. \A v \in d : \E i \in NextEdges(w) : v = wtx[w].edges[i][2]
      BY <1>1 DEF InsertsAt
    <3> QED
      BY <2>2, <2>3, <3>1 DEF EdgesOf
  <2>5. Pending(w)' \subseteq Pending(w)
    BY <2>1 DEF Pending
  <2>6. Pending(w) \ Pending(w)' \subseteq {<<u, v>> : v \in d}
    <3> SUFFICES ASSUME NEW i \in wtodo[w], wtx[w].edges[i] \notin Pending(w)'
                 PROVE  wtx[w].edges[i] \in {<<u, v>> : v \in d}
      BY DEF Pending
    <3>1. i \in NextEdges(w)
      BY <2>1
    <3> QED
      BY <2>3, <3>1
  <2> QED
    BY <2>4, <2>5, <2>6
<1>5. ChainsComplete'
  <2> SUFFICES ASSUME NEW x \in Vertices, NEW v \in Vertices
               PROVE  /\ ToSet(versions'[x][v]) \subseteq Logged(x, v)'
                      /\ Logged(x, v)' \ Open(x, v)' \subseteq ToSet(versions'[x][v])
    BY DEF ChainsComplete
  <2>1. Logged(x, v)' = Logged(x, v)
    BY <1>2 DEF Logged
  <2>2. /\ ToSet(versions[x][v]) \subseteq Logged(x, v)
        /\ Logged(x, v) \ Open(x, v) \subseteq ToSet(versions[x][v])
    BY DEF StoreInv, ChainsComplete
  <2>3. CASE x = u /\ v \in d
    <3>1. ToSet(versions'[x][v]) = {wts[w]} \cup ToSet(versions[x][v])
      <4>1. versions[x][v] \in Seq(Nat) /\ versions'[x][v] = PushVersion(versions[x][v], wts[w])
        BY <1>0, <1>1, <2>3 DEF TypeOK, InsertsAt
      <4> QED
        BY <1>0, <4>1, PushVersionAdds
    <3>2. wts[w] \in Logged(x, v)
      BY <1>1, <1>4, <2>3 DEF InsertsAt, LockInv, Stamped, Logged
    <3>3. Open(x, v) \subseteq {wts[w]} \cup Open(x, v)'
      BY <1>2, <1>3 DEF Open
    <3> QED
      BY <2>1, <2>2, <3>1, <3>2, <3>3
  <2>4. CASE ~ (x = u /\ v \in d)
    <3>1. versions'[x][v] = versions[x][v]
      BY <1>1, <1>2, <2>4 DEF InsertsAt
    <3>2. <<x, v>> \in Pending(w) <=> <<x, v>> \in Pending(w)'
      BY <1>4, <2>4
    <3>3. Open(x, v)' = Open(x, v)
      BY <1>2, <1>3, <3>2 DEF Open
    <3> QED
      BY <2>1, <2>2, <3>1, <3>3
  <2> QED
    BY <2>3, <2>4
<1>6. DegreesCount'
  <2>1. \A x \in Vertices \ {u} : \A ts : VisibleDests(x, ts)' = VisibleDests(x, ts)
    BY <1>2 DEF VisibleDests
  <2>2. ASSUME NEW ts \in Nat, HasDegree(degree'[u], ts)
        PROVE  GetDegree(degree'[u], ts) = Cardinality(VisibleDests(u, ts)')
    <3> DEFINE new == NewDests(u, d)
               sum == GetDegree(degree[u], wts[w]) + Cardinality(new)
    <3>0. degree[u] \in Seq(DegreeNode) /\ sum \in Nat /\ IsFiniteSet(new) /\ Cardinality(new) \in Nat
      <4>1. sum \in Nat /\ new \subseteq Vertices
        BY <1>1 DEF InsertsAt
      <4> QED
        BY <1>0, <4>1, ListTypes, FiniteVertexSets
    <3>1. degree'[u] = IF new = {} THEN degree[u] ELSE UpdateDegree(degree[u], sum, wts[w])
      BY <1>1 DEF InsertsAt
    <3>2. \A n \in Nat : HasDegree(degree[u], n) =>
              GetDegree(degree[u], n) = Cardinality(VisibleDests(u, n))
      BY DEF StoreInv, DegreesCount
    <3> HIDE DEF new, sum
    <3>6. /\ \A n \in Int : HasDegree(UpdateDegree(degree[u], sum, wts[w]), n)
                                <=> wts[w] <= n \/ HasDegree(degree[u], n)
          /\ \A n \in Int : wts[w] <= n => GetDegree(UpdateDegree(degree[u], sum, wts[w]), n) = sum
          /\ \A n \in Int : ~ (wts[w] <= n) /\ HasDegree(degree[u], n) =>
                GetDegree(UpdateDegree(degree[u], sum, wts[w]), n) = GetDegree(degree[u], n)
      BY <1>0, <3>0, UpdateDegreeReads
    <3>3. CASE new = {}
      <4>1. VisibleDests(u, ts)' = VisibleDests(u, ts)
        BY <1>1, <3>3, InsertEdgesSees DEF new
      <4> QED
        BY <2>2, <3>1, <3>2, <3>3, <4>1
    <3>4. CASE new # {} /\ wts[w] <= ts
      <4>1. GetDegree(degree'[u], ts) = sum
        BY <3>1, <3>4, <3>6
      <4>2. GetDegree(degree[u], wts[w]) = Cardinality(VisibleDests(u, wts[w]))
        BY <1>0, <1>1, <3>2 DEF InsertsAt
      <4>3. /\ VisibleDests(u, ts)' = VisibleDests(u, wts[w]) \cup new
            /\ VisibleDests(u, wts[w]) \cap new = {}
        BY <1>1, <3>4, InsertEdgesSees DEF new
      <4>4. IsFiniteSet(VisibleDests(u, wts[w])) /\ Cardinality(VisibleDests(u, wts[w])) \in Nat
        BY FiniteVertexSets DEF VisibleDests
      <4>5. Cardinality(VisibleDests(u, wts[w]) \cup new)
                = Cardinality(VisibleDests(u, wts[w])) + Cardinality(new)
        <5>1. Cardinality(VisibleDests(u, wts[w]) \cup new)
                = Cardinality(VisibleDests(u, wts[w])) + Cardinality(new)
                  - Cardinality(VisibleDests(u, wts[w]) \cap new)
          BY <3>0, <4>4, FS_Union
        <5>2. Cardinality(VisibleDests(u, wts[w]) \cap new) = 0
          BY <4>3, FS_EmptySet
        <5> QED
          BY <3>0, <4>4, <5>1, <5>2
      <4> QED
        BY <4>1, <4>2, <4>3, <4>5 DEF sum
    <3>5. CASE new # {} /\ ~ (wts[w] <= ts)
      <4>1. HasDegree(degree[u], ts) /\ GetDegree(degree'[u], ts) = GetDegree(degree[u], ts)
        BY <2>2, <3>1, <3>5, <3>6
      <4>2. VisibleDests(u, ts)' = VisibleDests(u, ts)
        BY <1>1, <3>5, InsertEdgesSees
      <4> QED
        BY <3>2, <4>1, <4>2
    <3> QED
      BY <3>3, <3>4, <3>5
  <2>3. ASSUME NEW x \in Vertices, NEW ts \in Nat, HasDegree(degree'[x], ts)
        PROVE  GetDegree(degree'[x], ts) = Cardinality(VisibleDests(x, ts)')
    BY <1>2, <2>1, <2>2, <2>3 DEF StoreInv, DegreesCount
  <2> QED
    BY <2>3 DEF DegreesCount
<1>7. LogFits'
  BY <1>2 DEF StoreInv, LogFits
<1>8. WorkFits'
  BY <1>2 DEF StoreInv, WorkFits, readerVars
<1> QED
  BY <1>5, <1>6, <1>7, <1>8 DEF StoreInv

\* No reader writes the store.
LEMMA ReaderStores ==
    ASSUME LockInv, StoreInv, NEW r \in Readers,
           BeginRead(r) \/ EndRead(r) \/ ReadStep(r) \/ \E op \in ReadOps : StartRead(r, op)
    PROVE  StoreInv'
<1>0. TypeOK
  BY DEF LockInv
<1>1. CASE \E op \in ReadOps : StartRead(r, op)
  <2>1. PICK op \in ReadOps : StartRead(r, op)
    BY <1>1
  <2>2. UNCHANGED <<storeVars, writerVars, log>>
    BY <2>1 DEF StartRead
  <2>3. WorkFits'
    BY <1>0, <2>1, <2>2 DEF StoreInv, WorkFits, StartRead, TypeOK, writerVars
  <2> QED
    BY <2>2, <2>3, StoreInvFrame DEF Pending, writerVars
<1>2. CASE BeginRead(r) \/ EndRead(r)
  <2>1. UNCHANGED <<storeVars, writerVars, log, rpc, rop>>
    BY <1>2 DEF BeginRead, EndRead
  <2>2. WorkFits'
    BY <2>1 DEF StoreInv, WorkFits, writerVars
  <2> QED
    BY <2>1, <2>2, StoreInvFrame DEF Pending, writerVars
<1>3. CASE ReadStep(r)
  <2>1. /\ UNCHANGED <<storeVars, writerVars, log, rop>>
        /\ rpc[r] # "idle" /\ \A q \in Readers \ {r} : rpc'[q] = rpc[q]
    BY <1>0, <1>3 DEF ReadStep, AcquireShared, AcquireSharedThrows, Read, ReadUnversioned,
       ReadThrows, ScanVertex, ScanDegree, ScanEnds, ReleaseShared, ReadReturns,
       AllAcquiredShared, TypeOK
  <2>2. WorkFits'
    BY <2>1 DEF StoreInv, WorkFits, writerVars
  <2> QED
    BY <2>1, <2>2, StoreInvFrame DEF Pending, writerVars
<1> QED
  BY <1>1, <1>2, <1>3

\* After the load there are vertices without edges.
LEMMA StoreInvInit == Init => StoreInv
<1> SUFFICES ASSUME Init PROVE StoreInv
  OBVIOUS
<1>0. /\ NumVertices \in Nat \ {0} /\ Loaded \in 0..NumVertices /\ Vertices \subseteq Nat
  BY VerticesAreLocks
<1>1. \A t \in DOMAIN log : log[t] = LoadTx
  BY DEF Init, Preloaded
<1>2. EdgesOf(LoadTx) = {}
  BY DEF EdgesOf, LoadTx
<1>3. ChainsComplete
  <2>1. ToSet(<<>>) = {}
    BY DEF ToSet
  <2>2. \A u, v : Logged(u, v) = {}
    BY <1>1, <1>2 DEF Logged
  <2> QED
    BY <2>1, <2>2 DEF Init, ChainsComplete
<1>4. DegreesCount
  <2> SUFFICES ASSUME NEW u \in Vertices, NEW ts \in Nat, HasDegree(degree[u], ts)
               PROVE  GetDegree(degree[u], ts) = Cardinality(VisibleDests(u, ts))
    BY DEF DegreesCount
  <2>1. VisibleDests(u, ts) = {}
    BY DEF Init, VisibleDests, CheckVersion
  <2>2. u < Loaded /\ degree[u] = UpdateDegree(<<>>, 0, 1)
    BY DEF Init, HasDegree
  <2>3. <<>> \in Seq(DegreeNode) /\ 0 \in Nat /\ 1 \in Nat /\ ts \in Int /\ ~ HasDegree(<<>>, ts)
    BY EmptySeq DEF HasDegree
  <2>4. /\ \A n \in Int : HasDegree(UpdateDegree(<<>>, 0, 1), n) <=> 1 <= n \/ HasDegree(<<>>, n)
        /\ \A n \in Int : 1 <= n => GetDegree(UpdateDegree(<<>>, 0, 1), n) = 0
    BY <2>3, UpdateDegreeReads
  <2>5. GetDegree(degree[u], ts) = 0
    BY <2>2, <2>3, <2>4
  <2> QED
    BY <2>1, <2>5, FS_EmptySet
<1>5. LogFits
  BY <1>1, <1>2 DEF LogFits
<1>6. WorkFits
  BY DEF Init, WorkFits
<1> QED
  BY <1>3, <1>4, <1>5, <1>6 DEF StoreInv

\* Every step keeps chains and degrees in agreement with the log.
LEMMA StoreInvStep == LockInv /\ StoreInv /\ [Next]_vars => StoreInv'
<1> SUFFICES ASSUME LockInv, StoreInv, [Next]_vars PROVE StoreInv'
  OBVIOUS
<1>1. CASE \E w \in Writers, tx \in Txs : BeginWrite(w, tx)
  BY <1>1, QuietWriter
<1>2. ASSUME NEW w \in Writers, CommitStep(w) PROVE StoreInv'
  BY <1>2, QuietWriter, TakeTimestampStores, InsertVertexStores, InsertEdgesStores DEF CommitStep
<1>3. CASE \E r \in Readers : BeginRead(r) \/ EndRead(r)
  BY <1>3, ReaderStores
<1>4. CASE \E r \in Readers, op \in ReadOps : StartRead(r, op)
  BY <1>4, ReaderStores
<1>5. ASSUME NEW r \in Readers, ReadStep(r) PROVE StoreInv'
  BY <1>5, ReaderStores
<1>6. CASE UNCHANGED vars
  <2>1. UNCHANGED <<storeVars, writerVars, readerVars, log>>
    BY <1>6 DEF vars
  <2>2. WorkFits'
    BY <2>1 DEF StoreInv, WorkFits, writerVars, readerVars
  <2> QED
    BY <2>1, <2>2, StoreInvFrame DEF Pending, writerVars
<1> QED
  BY <1>1, <1>2, <1>3, <1>4, <1>5, <1>6 DEF Next

\* What the locks protect (chains, degrees and their timestamps) is kept by every
\* step of commit() and of the reads, given who owns which lock.
THEOREM StoreInvariant == Spec => [](LockInv /\ StoreInv)
<1>1. LockInv /\ StoreInv /\ [Next]_vars => StoreInv'
  BY StoreInvStep
<1> QED
  BY <1>1, LockInvariant, StoreInvInit, PTL DEF Spec

\* The version chains hold the log and nothing else, but for the edges of writers
\* that own their source: no commit is lost or half visible to a later lock holder.
THEOREM ChainsHoldTheLog == Spec => []ChainsMatchLog
<1>1. LockInv /\ StoreInv => ChainsMatchLog
  BY ChainsFollow DEF StoreInv
<1> QED
  BY <1>1, StoreInvariant, PTL

\* get_degree counts the edges edges() returns, at every timestamp it answers.
THEOREM DegreesAreCounts == Spec => []DegreesMatchEdges
<1>1. LockInv /\ StoreInv => DegreesMatchEdges
  <2> SUFFICES ASSUME LockInv, StoreInv, NEW u \in Vertices, NEW ts \in 0..global_timestamp,
                      HasDegree(degree[u], ts)
               PROVE  GetDegree(degree[u], ts) = Cardinality(VisibleDests(u, ts))
    BY DEF DegreesMatchEdges
  <2>1. ts \in Nat
    BY DEF LockInv, TypeOK
  <2> QED
    BY <2>1 DEF StoreInv, DegreesCount
<1> QED
  BY <1>1, StoreInvariant, PTL

-----------------------------------------------------------------------------
(* Newest first *)

\* The timestamp of an insertion is the newest its vertex has seen.
LEMMA InsertEdgesOrders ==
    ASSUME LockInv, NewestFirst, NEW w \in Writers, InsertEdges(w)
    PROVE  NewestFirst'
<1>0. TypeOK /\ wts[w] \in Nat
  BY DEF LockInv, TypeOK
<1>1. PICK u \in Vertices, d \in SUBSET Vertices : InsertsAt(w, u, d)
  BY InsertEdgesFacts
<1>2. NotNewer(u, wts[w])
  BY <1>1 DEF LockInv, Stamped, InsertsAt
<1>3. ASSUME NEW v \in Vertices
      PROVE  \A i, j \in DOMAIN versions'[u][v] : i < j => versions'[u][v][i] >= versions'[u][v][j]
  <2>1. versions[u][v] \in Seq(Nat)
    BY <1>0 DEF TypeOK
  <2>2. \A k \in DOMAIN versions[u][v] : versions[u][v][k] <= wts[w]
    BY <1>2 DEF NotNewer, ToSet
  <2>3. \A i, j \in DOMAIN versions[u][v] : i < j => versions[u][v][i] >= versions[u][v][j]
    BY DEF NewestFirst
  <2>4. versions'[u][v] = IF v \in d THEN PushVersion(versions[u][v], wts[w]) ELSE versions[u][v]
    BY <1>1 DEF InsertsAt
  <2>5. \A i, j \in DOMAIN PushVersion(versions[u][v], wts[w]) : i < j =>
            PushVersion(versions[u][v], wts[w])[i] >= PushVersion(versions[u][v], wts[w])[j]
    BY <1>0, <2>1, <2>2, <2>3, PushVersionOrders
  <2> QED
    BY <2>3, <2>4, <2>5
<1>4. \A i, j \in DOMAIN degree'[u] : i < j => degree'[u][i].ts >= degree'[u][j].ts
  <2>1. PICK deg \in Nat : degree'[u] \in {degree[u], UpdateDegree(degree[u], deg, wts[w])}
    <3>1. GetDegree(degree[u], wts[w]) + Cardinality(NewDests(u, d)) \in Nat
      BY <1>1 DEF InsertsAt
    <3> QED
      BY <1>1, <3>1 DEF InsertsAt
  <2>2. degree[u] \in Seq(DegreeNode)
    BY <1>0, ListTypes
  <2>3. \A k \in DOMAIN degree[u] : degree[u][k].ts <= wts[w]
    BY <1>2 DEF NotNewer
  <2>4. \A i, j \in DOMAIN degree[u] : i < j => degree[u][i].ts >= degree[u][j].ts
    BY DEF NewestFirst
  <2>5. \A i, j \in DOMAIN UpdateDegree(degree[u], deg, wts[w]) : i < j =>
            UpdateDegree(degree[u], deg, wts[w])[i].ts >= UpdateDegree(degree[u], deg, wts[w])[j].ts
    BY <1>0, <2>2, <2>3, <2>4, UpdateDegreeOrders
  <2> QED
    BY <2>1, <2>4, <2>5
<1>5. \A x \in Vertices \ {u} : versions'[x] = versions[x] /\ degree'[x] = degree[x]
  BY <1>1 DEF InsertsAt
<1> QED
  BY <1>3, <1>4, <1>5 DEF NewestFirst

\* The first degree of a new vertex is the only one.
LEMMA InsertVertexOrders ==
    ASSUME LockInv, NewestFirst, NEW w \in Writers, InsertVertex(w)
    PROVE  NewestFirst'
<1>1. /\ versions' = versions
      /\ \A u \in Vertices : degree'[u] \in {degree[u], <<[deg |-> 0, ts |-> wts[w]]>>}
  <2>1. degree' = [degree EXCEPT ![m_vertex_count] = UpdateDegree(<<>>, 0, wts[w])]
    BY DEF InsertVertex
  <2>2. UpdateDegree(<<>>, 0, wts[w]) = <<[deg |-> 0, ts |-> wts[w]]>>
    BY DEF UpdateDegree
  <2>3. DOMAIN degree = Vertices
    BY DEF LockInv, TypeOK
  <2> QED
    BY <2>1, <2>2, <2>3 DEF InsertVertex
<1>2. \A i, j \in DOMAIN <<[deg |-> 0, ts |-> wts[w]]>> : ~ (i < j)
  OBVIOUS
<1> QED
  BY <1>1, <1>2 DEF NewestFirst

\* Two writers of a vertex insert in the order of their timestamps, so the first
\* node a reader finds is the newest it may see.
THEOREM VersionsAreOrdered == Spec => []NewestFirst
<1>1. Init => NewestFirst
  <2> SUFFICES ASSUME Init PROVE NewestFirst
    OBVIOUS
  <2>1. UpdateDegree(<<>>, 0, 1) = <<[deg |-> 0, ts |-> 1]>>
    BY DEF UpdateDegree
  <2>2. \A i, j \in DOMAIN <<[deg |-> 0, ts |-> 1]>> : ~ (i < j)
    OBVIOUS
  <2>3. \A u \in Vertices : degree[u] \in {<<>>, <<[deg |-> 0, ts |-> 1]>>}
    BY <2>1 DEF Init
  <2>4. \A u, v \in Vertices : versions[u][v] = <<>>
    BY DEF Init
  <2> QED
    BY <2>2, <2>3, <2>4 DEF NewestFirst
<1>2. LockInv /\ NewestFirst /\ [Next]_vars => NewestFirst'
  <2> SUFFICES ASSUME LockInv, NewestFirst, [Next]_vars PROVE NewestFirst'
    OBVIOUS
  <2>1. CASE \E w \in Writers : InsertVertex(w) \/ InsertEdges(w)
    BY <2>1, InsertVertexOrders, InsertEdgesOrders
  <2>2. CASE ~ \E w \in Writers : InsertVertex(w) \/ InsertEdges(w)
    <3>1. versions' = versions /\ degree' = degree
      BY <2>2 DEF Next, CommitStep, ReadStep, BeginWrite, AcquireLock, AcquireThrows,
         TakeTimestamp, Applied, ReleaseLock, EndWrite, BeginRead, EndRead, StartRead,
         AcquireShared, AcquireSharedThrows, Read, ReadUnversioned, ReadThrows, ScanVertex,
         ScanDegree, ScanEnds, ReleaseShared, ReadReturns, storeVars, vars
    <3> QED
      BY <3>1 DEF NewestFirst
  <2> QED
    BY <2>1, <2>2
<1> QED
  BY <1>1, <1>2, LockInvariant, PTL DEF Spec

-----------------------------------------------------------------------------
(* The third layer: what the readers make of the store.  Under the shared  *)
(* lock of a vertex the lists are those of the log (QuietVertex), and a    *)
(* prefix of the log stays what it is, so every answer is the one the      *)
(* abstract store owes.                                                    *)

\* The edges a snapshot sees at the vertices below p.
EdgesBelow(ts, p) == {e \in Store!EdgesAt(log, ts) : e[1] < p}

\* A snapshot is a prefix of the log; edge_count has summed the degrees of the
\* vertices it passed, whatever was committed since.
ScansOwed(r) ==
    /\ snapshot[r] # NoSnapshot => snapshot[r] <= Len(log)
    /\ rpc[r] # "idle" /\ rop[r].kind = "edge_count" =>
            rscan[r].sum = Cardinality(EdgesBelow(snapshot[r], rscan[r].pos))

AnswersOwed(r) ==
    answer[r] # NoAnswer =>
        /\ answer[r].ts <= Len(log)
        /\ answer[r].value = Store!Owed(log, answer[r].op, answer[r].ts)

ReadInv == \A r \in Readers : ScansOwed(r) /\ AnswersOwed(r)

-----------------------------------------------------------------------------
(* Facts about the snapshots *)

\* The abstract store counts as the model does.
LEMMA SameCardinality == \A S : Store!Cardinality(S) = Cardinality(S)
BY DEF Store!Cardinality, Cardinality

\* The last vertex id of an edge exists: the wrapper inserts both directions, and
\* a transaction only gets a timestamp with the locks of all its sources.
LEMMA EdgeEndsExist ==
    ASSUME TxsFit, LockInv, StoreInv, NEW ts \in Nat, ts <= Len(log),
           NEW u \in Vertices, NEW v \in Store!NeighborsAt(log, u, ts)
    PROVE  u < m_vertex_count /\ v < m_vertex_count
<1>1. PICK t \in 1..ts : <<u, v>> \in Store!EdgesOf(log[t])
  BY DEF Store!NeighborsAt
<1>2. t \in DOMAIN log /\ <<u, v>> \in EdgesOf(log[t])
  BY <1>1, LenProperties DEF LockInv, TypeOK, Store!EdgesOf, EdgesOf
<1>3. EdgesOf(LoadTx) = {}
  BY DEF EdgesOf, LoadTx
<1>4. log[t] \in Txs
  BY <1>2, <1>3 DEF StoreInv, LogFits
<1>5. <<v, u>> \in EdgesOf(log[t])
  BY <1>2, <1>4 DEF TxsFit, BothDirections
<1> QED
  BY <1>2, <1>5 DEF StoreInv, LogFits

\* A read that has its locks looks at a vertex nobody owns.
LEMMA ReadsQuietVertex ==
    ASSUME LockInv, StoreInv, ReadInv, NEW r \in Readers, AllAcquiredShared(r),
           rop[r].kind \in VersionedKinds
    PROVE  /\ snapshot[r] \in Nat /\ snapshot[r] <= Len(log)
           /\ ReadVertex(r) \in Vertices
           /\ VisibleDests(ReadVertex(r), snapshot[r])
                = Store!NeighborsAt(log, ReadVertex(r), snapshot[r])
<1>0. TypeOK /\ HoldsShared(r) /\ rop[r] \in OpRecord
  BY DEF LockInv, TypeOK
<1>1. snapshot[r] \in Nat /\ snapshot[r] <= Len(log)
  BY <1>0 DEF AllAcquiredShared, HoldsShared, TypeOK, ReadInv, ScansOwed
<1>2. ReadVertex(r) \in Vertices
  BY <1>0, OpTypes DEF ReadVertex, AllAcquiredShared, HoldsShared
<1>3. CallLocks(r) = <<ReadVertex(r)>>
  BY DEF CallLocks, ReadVertex, SharedLocks, VersionedKinds
<1>4. ReadVertex(r) \in ToSet(CallLocks(r))
  BY <1>3 DEF ToSet
<1>5. excl[ReadVertex(r)] = Nobody
  BY <1>2, <1>4, AcquiredLocks, VerticesAreLocks DEF LockInv, LocksExclude
<1> QED
  BY <1>1, <1>2, <1>5, QuietVertex

\* The edges below p + 1 are those below p and those of p.
LEMMA EdgesBelowNext ==
    ASSUME NEW ts \in Nat, NEW p \in Vertices
    PROVE  Cardinality(EdgesBelow(ts, p + 1))
             = Cardinality(EdgesBelow(ts, p)) + Cardinality(Store!NeighborsAt(log, p, ts))
<1> DEFINE N == Store!NeighborsAt(log, p, ts)
           S == {p} \X N
<1>1. p \in Nat /\ Vertices \subseteq Nat
  BY VerticesAreLocks
<1>2. IsFiniteSet(N) /\ Cardinality(N) \in Nat
  BY FiniteVertexSets DEF Store!NeighborsAt
<1>3. IsFiniteSet(S) /\ Cardinality(S) = Cardinality(N)
  <2> HIDE DEF N
  <2>1. IsFiniteSet({p}) /\ Cardinality({p}) = 1
    BY FS_Singleton
  <2>2. IsFiniteSet(S) /\ Cardinality(S) = Cardinality({p}) * Cardinality(N)
    BY <1>2, <2>1, FS_Product
  <2> HIDE DEF S
  <2> QED
    BY <1>2, <2>1, <2>2
<1>4. IsFiniteSet(EdgesBelow(ts, p)) /\ Cardinality(EdgesBelow(ts, p)) \in Nat
  <2>1. IsFiniteSet(Vertices \X Vertices)
    BY FiniteVertexSets, FS_Product
  <2>2. EdgesBelow(ts, p) \in SUBSET (Vertices \X Vertices)
    BY DEF EdgesBelow, Store!EdgesAt
  <2> QED
    BY <2>1, <2>2, FS_Subset, FS_CardinalityType
<1>5. EdgesBelow(ts, p + 1) = EdgesBelow(ts, p) \cup S
  <2>1. ASSUME NEW e \in Vertices \X Vertices
        PROVE  e \in EdgesBelow(ts, p + 1) <=> e \in EdgesBelow(ts, p) \/ e \in S
    <3>0. e = <<e[1], e[2]>> /\ e[1] \in Vertices /\ e[2] \in Vertices
      OBVIOUS
    <3>1. e[1] \in Nat /\ e = <<e[1], e[2]>> /\ e[1] \in Vertices /\ e[2] \in Vertices
      BY <1>1, <3>0
    <3>2. e[1] < p + 1 <=> e[1] < p \/ e[1] = p
      BY <1>1, <3>1
    <3>3. e \in S <=> e[1] = p /\ e[2] \in N
      BY <3>1
    <3>4. e[1] = p => (e \in Store!EdgesAt(log, ts) <=> e[2] \in N)
      BY <3>1 DEF Store!EdgesAt
    <3> HIDE DEF N, S
    <3> QED
      BY <1>1, <3>1, <3>2, <3>3, <3>4 DEF EdgesBelow
  <2>2. /\ EdgesBelow(ts, p + 1) \subseteq Vertices \X Vertices
        /\ EdgesBelow(ts, p) \subseteq Vertices \X Vertices
    BY DEF EdgesBelow, Store!EdgesAt
  <2>3. S \subseteq Vertices \X Vertices
    BY DEF Store!NeighborsAt
  <2> QED
    BY <2>1, <2>2, <2>3
<1>6. EdgesBelow(ts, p) \cap S = {}
  <2>1. \A e \in S : e[1] = p
    OBVIOUS
  <2>2. \A e \in EdgesBelow(ts, p) : e[1] < p
    BY DEF EdgesBelow
  <2>3. ~ (p < p)
    BY <1>1
  <2> HIDE DEF S
  <2> QED
    BY <2>1, <2>2, <2>3
<1>7. Cardinality(EdgesBelow(ts, p) \cap S) = 0
  BY <1>6, FS_EmptySet
<1> HIDE DEF S, N
<1>8. Cardinality(EdgesBelow(ts, p) \cup S)
        = Cardinality(EdgesBelow(ts, p)) + Cardinality(S) - Cardinality(EdgesBelow(ts, p) \cap S)
  BY <1>3, <1>4, FS_Union
<1>9. Cardinality(EdgesBelow(ts, p) \cup S) = Cardinality(EdgesBelow(ts, p)) + Cardinality(N)
  BY <1>2, <1>3, <1>4, <1>7, <1>8
<1> QED
  BY <1>5, <1>9 DEF N

-----------------------------------------------------------------------------
(* Every answer is the one owed *)

\* Container::has_edge, edges and get_degree, under the lock.
LEMMA ReadOwes ==
    ASSUME ReadsFit, TxsFit, LockInv, StoreInv, ReadInv, NEW r \in Readers, Read(r)
    PROVE  ReadValue(rop[r], rop[r].u, snapshot[r]) = Store!Owed(log, rop[r], snapshot[r])
<1> DEFINE N == Store!NeighborsAt(log, rop[r].u, snapshot[r])
<1>0. /\ AllAcquiredShared(r) /\ rpc[r] # "idle" /\ rop[r].kind \in VersionedKinds
      /\ rop[r].kind # "edge_count" /\ rop[r] \in OpRecord
      /\ rop[r].kind = "degree" => HasDegree(degree[rop[r].u], snapshot[r])
  BY DEF Read, AllAcquiredShared, LockInv, TypeOK
<1>1. rop[r].kind # "iterate"
  BY <1>0 DEF StoreInv, WorkFits, ReadsFit
<1>2. rop[r].u \in Vertices /\ rop[r].v \in Vertices /\ ReadVertex(r) = rop[r].u
  BY <1>0, OpTypes DEF ReadVertex
<1>3. snapshot[r] \in Nat /\ snapshot[r] <= Len(log) /\ VisibleDests(rop[r].u, snapshot[r]) = N
  BY <1>0, <1>2, ReadsQuietVertex
<1>4. CASE rop[r].kind = "has_edge"
  <2>1. rop[r].v \in N <=> CheckVersion(versions[rop[r].u][rop[r].v], snapshot[r])
    BY <1>2, <1>3 DEF VisibleDests
  <2>2. rop[r].v \in N => rop[r].v < m_vertex_count
    BY <1>2, <1>3, EdgeEndsExist
  <2>3. ReadValue(rop[r], rop[r].u, snapshot[r]) =
            (rop[r].v < m_vertex_count /\ CheckVersion(versions[rop[r].u][rop[r].v], snapshot[r]))
    BY <1>4 DEF ReadValue
  <2>4. Store!Owed(log, rop[r], snapshot[r]) = (rop[r].v \in N)
    BY <1>4 DEF Store!Owed
  <2> HIDE DEF N
  <2> QED
    BY <2>1, <2>2, <2>3, <2>4
<1>5. CASE rop[r].kind = "edges"
  BY <1>3, <1>5 DEF ReadValue, Store!Owed
<1>6. CASE rop[r].kind = "degree"
  <2>1. GetDegree(degree[rop[r].u], snapshot[r]) = Cardinality(N)
    BY <1>0, <1>2, <1>3, <1>6 DEF StoreInv, DegreesCount
  <2> QED
    BY <1>6, <2>1, SameCardinality DEF ReadValue, Store!Owed
<1> QED
  BY <1>0, <1>1, <1>4, <1>5, <1>6 DEF VersionedKinds

\* edge_count past the last vertex has met every edge.
LEMMA ScanOwes ==
    ASSUME TxsFit, LockInv, StoreInv, ReadInv, NEW r \in Readers, ScanEnds(r)
    PROVE  /\ snapshot[r] \in Nat /\ snapshot[r] <= Len(log)
           /\ rscan[r].sum = Store!Owed(log, rop[r], snapshot[r])
<1>0. /\ TypeOK /\ rpc[r] = "scan" /\ rop[r].kind = "edge_count"
      /\ snapshot[r] \in Nat /\ snapshot[r] <= Len(log)
      /\ rscan[r].pos >= m_vertex_count /\ rscan[r].pos \in Nat /\ m_vertex_count \in Nat
  BY SMTT(40) DEF ScanEnds, LockInv, HoldsShared, TypeOK, ReadInv, ScansOwed
<1>1. EdgesBelow(snapshot[r], rscan[r].pos) = Store!EdgesAt(log, snapshot[r])
  <2> SUFFICES ASSUME NEW e \in Store!EdgesAt(log, snapshot[r]) PROVE e[1] < rscan[r].pos
    BY DEF EdgesBelow
  <2>1. e[1] \in Vertices /\ e[2] \in Store!NeighborsAt(log, e[1], snapshot[r])
    BY DEF Store!EdgesAt
  <2>2. e[1] < m_vertex_count /\ e[1] \in Nat
    BY <1>0, <2>1, EdgeEndsExist, VerticesAreLocks
  <2> QED
    BY <1>0, <2>2
<1>2. rscan[r].sum = Cardinality(EdgesBelow(snapshot[r], rscan[r].pos))
  BY <1>0 DEF ReadInv, ScansOwed
<1> QED
  BY <1>0, <1>1, <1>2, SameCardinality DEF Store!Owed

\* A step that neither begins a read nor a snapshot, for the reader q, and at most
\* commits a transaction.
LEMMA OwedFrame ==
    ASSUME LockInv, ReadInv, NEW q \in Readers,
           log' = log \/ \E tx \in TxRecord : log' = Append(log, tx),
           rop'[q] = rop[q], rscan'[q] = rscan[q], snapshot'[q] = snapshot[q],
           answer'[q] = answer[q], rpc'[q] # "idle" => rpc[q] # "idle"
    PROVE  ScansOwed(q)' /\ AnswersOwed(q)'
<1>0. TypeOK /\ log \in Seq(TxRecord) /\ Len(log) \in Nat /\ HoldsShared(q)
  BY LenProperties DEF LockInv, TypeOK
<1>1. /\ Len(log') \in Nat /\ Len(log) <= Len(log')
      /\ \A ts \in Nat : ts <= Len(log) =>
            /\ \A u : Store!NeighborsAt(log', u, ts) = Store!NeighborsAt(log, u, ts)
            /\ Store!EdgesAt(log', ts) = Store!EdgesAt(log, ts)
  <2>1. CASE log' = log
    BY <1>0, <2>1
  <2>2. CASE \E tx \in TxRecord : log' = Append(log, tx)
    <3>1. PICK tx \in TxRecord : log' = Append(log, tx)
      BY <2>2
    <3>2. Len(log') = Len(log) + 1
      BY <1>0, <3>1, AppendProperties
    <3> QED
      BY <1>0, <3>1, <3>2, PrefixIsStable
  <2> QED
    BY <2>1, <2>2
<1>2. snapshot[q] \in Nat \cup {NoSnapshot}
  BY <1>0 DEF TypeOK
<1>3. ScansOwed(q)'
  <2>1. snapshot'[q] # NoSnapshot => snapshot'[q] <= Len(log')
    BY <1>0, <1>1, <1>2 DEF ReadInv, ScansOwed
  <2>2. ASSUME rpc'[q] # "idle", rop'[q].kind = "edge_count"
        PROVE  rscan'[q].sum = Cardinality(EdgesBelow(snapshot[q], rscan[q].pos)')
    <3>1. rpc[q] # "idle" /\ snapshot[q] \in Nat /\ snapshot[q] <= Len(log)
      BY <1>0, <1>2, <2>2 DEF HoldsShared, ReadInv, ScansOwed
    <3>2. PICK ts, p : ts \in Nat /\ ts = snapshot[q] /\ p = rscan[q].pos
      BY <3>1
    <3>3. EdgesBelow(ts, p)' = EdgesBelow(ts, p)
      BY <1>1, <3>1, <3>2 DEF EdgesBelow
    <3>4. EdgesBelow(snapshot[q], rscan[q].pos)' = EdgesBelow(ts, p)
      BY <3>2, <3>3 DEF EdgesBelow
    <3> QED
      BY <2>2, <3>1, <3>2, <3>4 DEF ReadInv, ScansOwed
  <2> QED
    BY <2>1, <2>2 DEF ScansOwed
<1>4. AnswersOwed(q)'
  <2> SUFFICES ASSUME answer[q] # NoAnswer
               PROVE  /\ answer[q].ts <= Len(log')
                      /\ answer[q].value = Store!Owed(log', answer[q].op, answer[q].ts)
    BY DEF AnswersOwed
  <2>1. /\ answer[q].ts \in Nat /\ answer[q].ts <= Len(log)
        /\ answer[q].value = Store!Owed(log, answer[q].op, answer[q].ts)
    BY <1>0 DEF TypeOK, ReadInv, AnswersOwed
  <2>2. Store!Owed(log', answer[q].op, answer[q].ts) = Store!Owed(log, answer[q].op, answer[q].ts)
    BY <1>1, <2>1 DEF Store!Owed
  <2> QED
    BY <1>0, <1>1, <2>1, <2>2
<1> QED
  BY <1>3, <1>4

-----------------------------------------------------------------------------
(* The third layer is an invariant *)

\* Nothing was read yet.
LEMMA ReadInvInit == Init => ReadInv
<1> SUFFICES ASSUME Init, NEW r \in Readers PROVE ScansOwed(r) /\ AnswersOwed(r)
  BY DEF ReadInv
<1> QED
  BY DEF Init, ScansOwed, AnswersOwed

\* A commit in progress changes no answer that was owed.
LEMMA WriterOwes ==
    ASSUME LockInv, ReadInv, NEW w \in Writers,
           CommitStep(w) \/ \E tx \in Txs : BeginWrite(w, tx)
    PROVE  ReadInv'
<1>1. UNCHANGED readerVars
  BY DEF CommitStep, BeginWrite, AcquireLock, AcquireThrows, TakeTimestamp, InsertVertex,
     InsertEdges, Applied, ReleaseLock, EndWrite
<1>2. log' = log \/ \E tx \in TxRecord : log' = Append(log, tx)
  BY DEF CommitStep, BeginWrite, AcquireLock, AcquireThrows, TakeTimestamp, InsertVertex,
     InsertEdges, Applied, ReleaseLock, EndWrite, LockInv, TypeOK
<1> QED
  BY <1>1, <1>2, OwedFrame DEF ReadInv, readerVars

\* The other readers, at a step of r.
LEMMA OthersOwed ==
    ASSUME LockInv, ReadInv, NEW r \in Readers, NEW q \in Readers \ {r},
           BeginRead(r) \/ EndRead(r) \/ ReadStep(r) \/ \E op \in ReadOps : StartRead(r, op)
    PROVE  ScansOwed(q)' /\ AnswersOwed(q)'
<1>0. TypeOK
  BY DEF LockInv
<1>1. /\ log' = log /\ rop'[q] = rop[q] /\ rscan'[q] = rscan[q] /\ snapshot'[q] = snapshot[q]
      /\ answer'[q] = answer[q] /\ rpc'[q] = rpc[q]
  <2>1. CASE BeginRead(r) \/ EndRead(r)
    BY <1>0, <2>1 DEF BeginRead, EndRead, TypeOK
  <2>2. CASE \E op \in ReadOps : StartRead(r, op)
    BY <1>0, <2>2 DEF StartRead, TypeOK
  <2>3. CASE ReadStep(r)
    BY <1>0, <2>3 DEF ReadStep, AcquireShared, AcquireSharedThrows, Read, ReadUnversioned,
       ReadThrows, ScanVertex, ScanDegree, ScanEnds, ReleaseShared, ReadReturns, TypeOK
  <2> QED
    BY <2>1, <2>2, <2>3
<1> QED
  BY <1>1, OwedFrame

\* The steps of a read that leave its sum, snapshot and answer alone.
LEMMA QuietReader ==
    ASSUME LockInv, ReadInv, NEW r \in Readers,
           \/ AcquireShared(r) \/ AcquireSharedThrows(r) \/ ReadUnversioned(r) \/ ReadThrows(r)
           \/ ScanVertex(r) \/ ReleaseShared(r) \/ ReadReturns(r)
    PROVE  ScansOwed(r)' /\ AnswersOwed(r)'
<1>1. /\ log' = log /\ rop' = rop /\ rscan' = rscan /\ snapshot' = snapshot
      /\ answer' = answer /\ rpc[r] # "idle"
  BY DEF AcquireShared, AcquireSharedThrows, ReadUnversioned, ReadThrows, ScanVertex,
     ReleaseShared, ReadReturns, AllAcquiredShared
<1> QED
  BY <1>1, OwedFrame

\* Taking or ending a snapshot, or asking for a read, answers nothing.
LEMMA SnapshotOwes ==
    ASSUME LockInv, ReadInv, NEW r \in Readers,
           BeginRead(r) \/ EndRead(r) \/ \E op \in ReadOps : StartRead(r, op)
    PROVE  ScansOwed(r)' /\ AnswersOwed(r)'
<1>0. TypeOK /\ Len(log) \in Nat /\ global_timestamp = Len(log)
  BY LenProperties DEF LockInv, TypeOK, StoreInTime
<1>1. ScansOwed(r) /\ AnswersOwed(r)
  BY DEF ReadInv
<1>2. log' = log /\ answer' = answer
  BY DEF BeginRead, EndRead, StartRead
<1>3. AnswersOwed(r)'
  BY <1>1, <1>2 DEF AnswersOwed
<1>4. ScansOwed(r)'
  <2>1. CASE BeginRead(r)
    BY <1>0, <2>1 DEF BeginRead, ScansOwed, TypeOK
  <2>2. CASE EndRead(r)
    BY <1>0, <2>2 DEF EndRead, ScansOwed, TypeOK
  <2>3. CASE \E op \in ReadOps : StartRead(r, op)
    <3>1. /\ snapshot' = snapshot /\ rscan'[r].pos = 0 /\ rscan'[r].sum = 0
      BY <1>0, <2>3 DEF StartRead, TypeOK
    <3>2. ASSUME NEW ts PROVE EdgesBelow(ts, 0)' = {}
      <4>1. \A e \in Store!EdgesAt(log', ts) : e[1] \in Nat
        BY VerticesAreLocks DEF Store!EdgesAt
      <4> QED
        BY <4>1 DEF EdgesBelow
    <3>3. EdgesBelow(snapshot[r], rscan[r].pos)' = {}
      <4>1. PICK ts : ts = snapshot[r]
        OBVIOUS
      <4>2. EdgesBelow(snapshot[r], rscan[r].pos)' = EdgesBelow(ts, 0)'
        BY <3>1, <4>1 DEF EdgesBelow
      <4> QED
        BY <3>2, <4>2
    <3> QED
      BY <1>1, <1>2, <3>1, <3>3, FS_EmptySet DEF ScansOwed
  <2> QED
    BY <2>1, <2>2, <2>3
<1> QED
  BY <1>3, <1>4

\* The answer taken under the shared lock is the one the snapshot owes.
LEMMA ReadKeepsOwed ==
    ASSUME ReadsFit, TxsFit, LockInv, StoreInv, ReadInv, NEW r \in Readers, Read(r)
    PROVE  ScansOwed(r)' /\ AnswersOwed(r)'
<1>0. TypeOK /\ ScansOwed(r) /\ snapshot[r] <= Len(log)
  BY DEF LockInv, ReadInv, Read, AllAcquiredShared, HoldsShared, ScansOwed
<1>1. /\ log' = log /\ rop' = rop /\ snapshot' = snapshot /\ rop[r].kind # "edge_count"
      /\ answer'[r] = [op |-> rop[r], ts |-> snapshot[r],
                       value |-> ReadValue(rop[r], rop[r].u, snapshot[r])]
  BY <1>0 DEF Read, TypeOK
<1>2. ScansOwed(r)'
  BY <1>0, <1>1 DEF ScansOwed
<1>3. ReadValue(rop[r], rop[r].u, snapshot[r]) = Store!Owed(log, rop[r], snapshot[r])
  BY ReadOwes
<1>4. AnswersOwed(r)'
  BY <1>0, <1>1, <1>3 DEF AnswersOwed
<1> QED
  BY <1>2, <1>4

\* edge_count adds the degree its snapshot owes, vertex by vertex.
LEMMA ScanDegreeOwes ==
    ASSUME LockInv, StoreInv, ReadInv, NEW r \in Readers, ScanDegree(r)
    PROVE  ScansOwed(r)' /\ AnswersOwed(r)'
<1>0. /\ TypeOK /\ ScansOwed(r) /\ AnswersOwed(r) /\ rpc[r] # "idle"
      /\ AllAcquiredShared(r) /\ rop[r].kind = "edge_count"
      /\ HasDegree(degree[rscan[r].pos], snapshot[r])
  BY DEF LockInv, ReadInv, ScanDegree, AllAcquiredShared
<1>1. PICK ts, p : ts = snapshot[r] /\ p = rscan[r].pos
  OBVIOUS
<1>2. /\ ts \in Nat /\ ts <= Len(log) /\ p \in Vertices
      /\ VisibleDests(p, ts) = Store!NeighborsAt(log, p, ts)
  <2>1. ReadVertex(r) = p
    BY <1>0, <1>1 DEF ReadVertex
  <2>2. rop[r].kind \in VersionedKinds
    BY <1>0 DEF VersionedKinds
  <2> QED
    BY <1>0, <1>1, <2>1, <2>2, ReadsQuietVertex
<1>3. GetDegree(degree[p], ts) = Cardinality(Store!NeighborsAt(log, p, ts))
  BY <1>0, <1>1, <1>2 DEF StoreInv, DegreesCount
<1>4. /\ log' = log /\ rop' = rop /\ snapshot' = snapshot /\ answer' = answer
      /\ rscan'[r].pos = p + 1 /\ rscan'[r].sum = rscan[r].sum + GetDegree(degree[p], ts)
  BY <1>0, <1>1 DEF ScanDegree, TypeOK
<1>5. rscan'[r].sum = Cardinality(EdgesBelow(ts, p + 1))
  BY <1>0, <1>1, <1>2, <1>3, <1>4, EdgesBelowNext DEF ScansOwed
<1>6. EdgesBelow(snapshot[r], rscan[r].pos)' = EdgesBelow(ts, p + 1)
  BY <1>1, <1>4 DEF EdgesBelow
<1>7. ScansOwed(r)'
  BY <1>0, <1>4, <1>5, <1>6 DEF ScansOwed
<1>8. AnswersOwed(r)'
  BY <1>0, <1>4 DEF AnswersOwed
<1> QED
  BY <1>7, <1>8

\* At the last vertex the sum is the number of edges the snapshot sees.
LEMMA ScanEndsOwes ==
    ASSUME TxsFit, LockInv, StoreInv, ReadInv, NEW r \in Readers, ScanEnds(r)
    PROVE  ScansOwed(r)' /\ AnswersOwed(r)'
<1>0. TypeOK /\ ScansOwed(r)
  BY DEF LockInv, ReadInv
<1>1. /\ log' = log /\ rpc'[r] = "idle" /\ snapshot' = snapshot
      /\ answer'[r] = [op |-> rop[r], ts |-> snapshot[r], value |-> rscan[r].sum]
  BY <1>0 DEF ScanEnds, TypeOK
<1>2. snapshot[r] <= Len(log) /\ rscan[r].sum = Store!Owed(log, rop[r], snapshot[r])
  BY ScanOwes
<1> QED
  BY <1>0, <1>1, <1>2 DEF ScansOwed, AnswersOwed

\* Every step keeps the answers and the partial sums of edge_count owed.
LEMMA ReadInvStep ==
    ASSUME ReadsFit, TxsFit
    PROVE  LockInv /\ StoreInv /\ ReadInv /\ [Next]_vars => ReadInv'
<1> SUFFICES ASSUME LockInv, StoreInv, ReadInv, [Next]_vars PROVE ReadInv'
  OBVIOUS
<1>1. CASE \E w \in Writers, tx \in Txs : BeginWrite(w, tx)
  BY <1>1, WriterOwes
<1>2. CASE \E w \in Writers : CommitStep(w)
  BY <1>2, WriterOwes
<1>3. ASSUME NEW r \in Readers,
             BeginRead(r) \/ EndRead(r) \/ ReadStep(r) \/ \E op \in ReadOps : StartRead(r, op)
      PROVE  ReadInv'
  <2>1. ScansOwed(r)' /\ AnswersOwed(r)'
    BY <1>3, SnapshotOwes, QuietReader, ReadKeepsOwed, ScanDegreeOwes, ScanEndsOwes DEF ReadStep
  <2> QED
    BY <1>3, <2>1, OthersOwed DEF ReadInv
<1>4. CASE UNCHANGED vars
  BY <1>4, OwedFrame DEF vars, readerVars, ReadInv
<1> QED
  BY <1>1, <1>2, <1>3, <1>4 DEF Next

\* The three layers hold together: locks, then store, then readers.
LEMMA AllInvariants ==
    ASSUME ReadsFit, TxsFit
    PROVE  Spec => [](LockInv /\ StoreInv /\ ReadInv)
<1>1. LockInv /\ StoreInv /\ ReadInv /\ [Next]_vars => ReadInv'
  BY ReadInvStep
<1> QED
  BY <1>1, StoreInvariant, ReadInvInit, PTL DEF Spec

\* Snapshot isolation: has_edge, edges, get_degree and edge_count answer from the
\* transactions with a timestamp up to the snapshot's, for any number of threads,
\* vertices and transactions that insert both directions of their edges.
THEOREM SnapshotsAreRead ==
    ASSUME ReadsFit, TxsFit
    PROVE  Spec => []SnapshotReads
<1>1. ReadInv => SnapshotReads
  BY DEF ReadInv, AnswersOwed, SnapshotReads
<1> QED
  BY <1>1, AllInvariants, PTL

-----------------------------------------------------------------------------
(* The transactions implement the abstract store *)

\* The loaded store maps to the abstract store with the load in its log.
LEMMA StoreInit == Init => Store!Init
BY DEF Init, Store!Init

\* A step commits, begins, answers or ends in the abstract store, or stutters.
LEMMA StoreStep ==
    ASSUME ReadsFit, TxsFit
    PROVE  LockInv /\ StoreInv /\ ReadInv /\ [Next]_vars => [Store!Next]_(Store!storeVars)
<1> SUFFICES ASSUME LockInv, StoreInv, ReadInv, [Next]_vars PROVE [Store!Next]_(Store!storeVars)
  OBVIOUS
<1>0. TypeOK /\ global_timestamp = Len(log)
  BY DEF LockInv, StoreInTime
<1> USE DEF Store!storeVars
<1>1. ASSUME NEW w \in Writers, CommitStep(w) \/ \E tx \in Txs : BeginWrite(w, tx)
      PROVE  [Store!Next]_(Store!storeVars)
  <2>1. CASE TakeTimestamp(w)
    <3>1. wtx[w] \in Txs
      BY <2>1 DEF TakeTimestamp, StoreInv, WorkFits
    <3>2. Store!Commit(wtx[w])
      BY <2>1 DEF TakeTimestamp, Store!Commit, readerVars
    <3> QED
      BY <3>1, <3>2 DEF Store!Next
  <2>2. CASE ~ TakeTimestamp(w)
    BY <1>1, <2>2 DEF CommitStep, BeginWrite, AcquireLock, AcquireThrows, InsertVertex,
       InsertEdges, Applied, ReleaseLock, EndWrite, readerVars
  <2> QED
    BY <2>1, <2>2
<1>2. ASSUME NEW r \in Readers, BeginRead(r) \/ EndRead(r) \/ \E op \in ReadOps : StartRead(r, op)
      PROVE  [Store!Next]_(Store!storeVars)
  BY <1>0, <1>2 DEF BeginRead, EndRead, StartRead, Store!Begin, Store!End, Store!Next
<1>3. ASSUME NEW r \in Readers, ReadStep(r) PROVE [Store!Next]_(Store!storeVars)
  <2>1. CASE Read(r) \/ ScanEnds(r)
    <3>1. /\ rop[r] \in ReadOps /\ rop[r].kind \in VersionedKinds
          /\ snapshot[r] # NoSnapshot /\ UNCHANGED <<log, snapshot>>
      BY <2>1 DEF Read, AllAcquiredShared, ScanEnds, StoreInv, WorkFits, LockInv, HoldsShared,
         VersionedKinds
    <3>2. answer' = [answer EXCEPT ![r] =
            [op |-> rop[r], ts |-> snapshot[r], value |-> Store!Owed(log, rop[r], snapshot[r])]]
      <4>1. CASE Read(r)
        BY <4>1, ReadOwes DEF Read
      <4>2. CASE ScanEnds(r)
        BY <4>2, ScanOwes DEF ScanEnds
      <4> QED
        BY <2>1, <4>1, <4>2
    <3>3. Store!Answer(r, rop[r])
      BY <3>1, <3>2 DEF Store!Answer
    <3> QED
      BY <3>1, <3>3 DEF Store!Next
  <2>2. CASE ~ (Read(r) \/ ScanEnds(r))
    BY <1>3, <2>2 DEF ReadStep, AcquireShared, AcquireSharedThrows, ReadUnversioned,
       ReadThrows, ScanVertex, ScanDegree, ReleaseShared, ReadReturns
  <2> QED
    BY <2>1, <2>2
<1>4. CASE UNCHANGED vars
  BY <1>4 DEF vars, readerVars
<1> QED
  BY <1>1, <1>2, <1>3, <1>4 DEF Next

\* Every behaviour of the transactions is one of the abstract store: the commit is
\* the fetch_add of the timestamp, an answer is a read of a prefix of the log.
THEOREM TransactionsImplementStore ==
    ASSUME ReadsFit, TxsFit
    PROVE  Spec => ImplementsStore
<1>1. LockInv /\ StoreInv /\ ReadInv /\ [Next]_vars => [Store!Next]_(Store!storeVars)
  BY StoreStep
<1> QED
  BY <1>1, StoreInit, AllInvariants, PTL DEF Spec, ImplementsStore, Store!Spec
=============================================================================
