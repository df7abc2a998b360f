--------------------------- MODULE VersionGCProofs ---------------------------
(***************************************************************************)
(* Safety of version collection for every number of writers, snapshots,    *)
(* vertices and timestamps: whatever the collector cuts, and whenever, the *)
(* newest version of every edge and the newest degree of every vertex stay.*)
(***************************************************************************)
EXTENDS VersionGC, VersionChainProofs, FiniteSetTheorems

-----------------------------------------------------------------------------
(* The invariant *)

Sources(w) == {e[1] : e \in work[w].edges}

\* A commit at work is one of the log; its sources are its own.
WorkLogged ==
    /\ \A w \in Writers : work[w] # NoWork =>
            /\ work[w].ts \in DOMAIN log /\ log[work[w].ts] = work[w].edges
            /\ work[w].edges # {}
    /\ \A w, x \in Writers : Sources(w) \cap Sources(x) # {} => w = x

\* Nothing happens to the store before it is loaded.
LoadedFirst ==
    IF main \in {"constructing", "loading"}
    THEN /\ log = <<>> /\ m_vertex_count = 0
         /\ \A w \in Writers : work[w] = NoWork
         /\ \A u, v \in Vertices : versions[u][v] = <<>>
    ELSE m_vertex_count = NumVertices

\* A chain has logged versions only, and the entry of a logged edge exists once
\* its commit is through, however much was cut.
ChainsLogged ==
    \A u, v \in Vertices :
        /\ ToSet(versions[u][v]) \subseteq Logged(u, v)
        /\ \A t \in Logged(u, v) :
              \/ versions[u][v] # <<>>
              \/ \E w \in Writers : work[w].ts = t /\ <<u, v>> \in work[w].edges

\* The vertices that have an entry.
Linked(u) == {v \in Vertices : versions[u][v] # <<>>}

\* The head of a degree list counts the entries.
HeadsCount ==
    \A u \in Vertices : u < m_vertex_count =>
        /\ degree[u] # <<>>
        /\ degree[u][1].deg = Cardinality(Linked(u))

\* No degree is newer than the log, or than the commit that owns the vertex.
DegreesInTime ==
    /\ global_timestamp = Len(log)
    /\ \A u \in Vertices : \A i \in DOMAIN degree[u] :
        /\ degree[u][i].ts <= Len(log)
        /\ \A w \in Writers : u \in Sources(w) => degree[u][i].ts <= work[w].ts

\* A snapshot that is not registered yet was made by get_read_transaction.
HandlesFit == \A h \in Handles : hpc[h] = "loaded" => hkind[h] \in {"shared", "unique", "failed"}

GCInv ==
    /\ TypeOK /\ WorkLogged /\ LoadedFirst /\ ChainsLogged
    /\ HeadsCount /\ DegreesInTime /\ HandlesFit

-----------------------------------------------------------------------------
(* Facts about the state *)

LEMMA Sizes ==
    /\ NumVertices \in Nat \ {0} /\ MaxTimestamp \in Nat \ {0}
    /\ Vertices \subseteq Nat /\ Timestamps \subseteq Nat
    /\ 0 \in Timestamps /\ 1 \in Timestamps
    /\ IsFiniteSet(Vertices)
BY CollectorAssumption, FS_Interval DEF CollectorAssumption, Vertices, Timestamps

\* The store, with the types of its lists.
LEMMA ListTypes ==
    ASSUME TypeOK, NEW u \in Vertices
    PROVE  /\ degree[u] \in Seq(DegreeNode)
           /\ \A i \in DOMAIN degree[u] : degree[u][i].ts \in Nat /\ degree[u][i].deg \in Nat
           /\ degree[u] # <<>> => 1 \in DOMAIN degree[u]
           /\ \A v \in Vertices : versions[u][v] \in Seq(Timestamps)
<1>1. degree[u] \in Seq(DegreeNode) /\ \A v \in Vertices : versions[u][v] \in Seq(Timestamps)
  BY DEF TypeOK
<1>2. degree[u] # <<>> => 1 \in DOMAIN degree[u]
  BY <1>1, LenProperties, EmptySeq
<1> QED
  BY <1>1, <1>2, NodeTypes

\* The log, as long as the clock says.
LEMMA LogTypes ==
    ASSUME TypeOK, DegreesInTime
    PROVE  /\ global_timestamp \in Nat /\ global_timestamp <= MaxTimestamp
           /\ DOMAIN log = 1..global_timestamp
           /\ log \in Seq(SUBSET (Vertices \X Vertices))
<1>1. log \in Seq(SUBSET (Vertices \X Vertices)) /\ global_timestamp \in 0..MaxTimestamp
  BY DEF TypeOK, Timestamps
<1> QED
  BY <1>1, Sizes, LenProperties DEF DegreesInTime

LEMMA WorkTypes ==
    ASSUME TypeOK, NEW w \in Writers
    PROVE  /\ work[w].ts \in Nat /\ work[w].ts \in Timestamps
           /\ work[w].edges \in SUBSET (Vertices \X Vertices)
           /\ Sources(w) \subseteq Vertices
           /\ \A u \in Sources(w) : \E v \in Vertices : <<u, v>> \in work[w].edges
           /\ \A e \in work[w].edges : e[1] \in Sources(w)
<1>1. work[w].ts \in Timestamps /\ work[w].edges \in SUBSET (Vertices \X Vertices)
  BY DEF TypeOK
<1>2. \A e \in work[w].edges : e = <<e[1], e[2]>> /\ e[1] \in Vertices /\ e[2] \in Vertices
  BY <1>1
<1>3. \A u \in Sources(w) : u \in Vertices /\ \E v \in Vertices : <<u, v>> \in work[w].edges
  BY <1>2 DEF Sources
<1>4. \A e \in work[w].edges : e[1] \in Sources(w)
  BY DEF Sources
<1> QED
  BY <1>1, <1>3, <1>4, Sizes

\* The entries of a vertex can be counted.
LEMMA LinkedFinite ==
    ASSUME NEW u \in Vertices
    PROVE  IsFiniteSet(Linked(u)) /\ Cardinality(Linked(u)) \in Nat
<1>1. Linked(u) \in SUBSET Vertices
  BY DEF Linked
<1> QED
  BY <1>1, Sizes, FS_Subset, FS_CardinalityType

\* get_degree at or after the newest node returns the head.
LEMMA HeadRead ==
    ASSUME NEW list \in Seq(DegreeNode), list # <<>>, NEW ts \in Int,
           \A i \in DOMAIN list : list[i].ts <= ts
    PROVE  HasDegree(list, ts) /\ GetDegree(list, ts) = list[1].deg
<1>1. 1 \in DOMAIN list /\ DOMAIN list = 1..Len(list) /\ Len(list) \in Nat
  BY LenProperties, EmptySeq
<1>2. StopsAt(list, ts, 1)
  BY <1>1 DEF StopsAt
<1> QED
  BY <1>1, <1>2, GetDegreeStops DEF HasDegree

-----------------------------------------------------------------------------
(* Steps that leave the store alone *)

\* The parts of the invariant about the store need to be shown of four actions only.
LEMMA QuietStep ==
    ASSUME GCInv, TypeOK', HandlesFit', UNCHANGED <<storeVars, work, log>>,
           main' \in {"constructing", "loading"} <=> main \in {"constructing", "loading"}
    PROVE  GCInv'
<1>1. WorkLogged'
  BY DEF GCInv, WorkLogged, Sources
<1>2. LoadedFirst'
  BY DEF GCInv, LoadedFirst, storeVars
<1>3. ChainsLogged'
  BY DEF GCInv, ChainsLogged, Logged, storeVars
<1>4. HeadsCount'
  BY DEF GCInv, HeadsCount, Linked, storeVars
<1>5. DegreesInTime'
  BY DEF GCInv, DegreesInTime, Sources, storeVars
<1> QED
  BY <1>1, <1>2, <1>3, <1>4, <1>5 DEF GCInv

LEMMA OwnerKeeps ==
    ASSUME GCInv, Construct \/ Stop \/ Join
    PROVE  GCInv'
<1>1. TypeOK'
  BY DEF GCInv, TypeOK, Construct, Stop, Join, storeVars, handleVars, gcVars
<1>2. HandlesFit'
  BY DEF GCInv, HandlesFit, Construct, Stop, Join, handleVars
<1>3. UNCHANGED <<storeVars, work, log>>
  BY DEF Construct, Stop, Join
<1>4. main' \in {"constructing", "loading"} <=> main \in {"constructing", "loading"}
  BY DEF Construct, Stop, Join
<1> QED
  BY <1>1, <1>2, <1>3, <1>4, QuietStep

LEMMA RegistrationTypes ==
    ASSUME TypeOK, NEW h \in Handles
    PROVE  /\ hts[h] \in Timestamps /\ active[hts[h]] \in Nat
           /\ Registered(hts[h]) \in [Timestamps -> Nat]
           /\ Unregistered(hts[h]) \in [Timestamps -> Nat]
<1>1. hts[h] \in Timestamps /\ active \in [Timestamps -> Nat]
  BY Sizes DEF TypeOK, Timestamps
<1> QED
  BY <1>1 DEF Registered, Unregistered

LEMMA SnapshotKeeps ==
    ASSUME GCInv, NEW h \in Handles, Snapshot(h)
    PROVE  GCInv'
<1>0. TypeOK /\ HandlesFit /\ CollectorAssumption
  BY CollectorAssumption DEF GCInv
<1>1. UNCHANGED <<mainVars, indexLeaked, storeVars, min_timestamp, work, gcVars, log>>
  BY DEF Snapshot, LoadTimestamp, Register, DropTemporary, ReadThrows, Close, Clone
<1>2. active' \in [Timestamps -> Nat]
  BY <1>0, RegistrationTypes, SMTT(40) DEF TypeOK, Snapshot, LoadTimestamp, Register, DropTemporary,
     ReadThrows, Close, Clone
<1>3. /\ hpc' \in [Handles -> {"none", "loaded", "unique", "failed", "live"}]
      /\ hkind' \in [Handles -> Kinds \cup {"shared"}]
      /\ hts' \in [Handles -> 0..global_timestamp]
      /\ HandlesFit'
  <2>0. global_timestamp \in Nat /\ 0 \in 0..global_timestamp /\ global_timestamp \in 0..global_timestamp
    BY <1>0, Sizes DEF TypeOK
  <2>1. CASE \E kind \in Kinds : LoadTimestamp(h, kind)
    BY <1>0, <2>0, <2>1 DEF LoadTimestamp, TypeOK, HandlesFit, CollectorAssumption
  <2>2. CASE Register(h)
    BY <1>0, <2>2 DEF Register, TypeOK, HandlesFit
  <2>3. CASE DropTemporary(h)
    BY <1>0, <2>3 DEF DropTemporary, TypeOK, HandlesFit
  <2>4. CASE ReadThrows(h) \/ Close(h)
    <3>1. Gone(h)
      BY <2>4 DEF ReadThrows, Close
    <3>2. UNCHANGED global_timestamp
      BY <1>1 DEF storeVars
    <3> QED
      BY <1>0, <2>0, <3>1, <3>2 DEF Gone, TypeOK, HandlesFit
  <2>5. CASE \E g \in Handles : Clone(h, g)
    <3>1. PICK g \in Handles : Clone(h, g)
      BY <2>5
    <3>2. hts[g] \in 0..global_timestamp
      BY <1>0 DEF TypeOK
    <3> QED
      BY <1>0, <3>1, <3>2 DEF Clone, TypeOK, HandlesFit
  <2> QED
    BY <2>1, <2>2, <2>3, <2>4, <2>5 DEF Snapshot
<1>4. TypeOK'
  BY <1>0, <1>1, <1>2, <1>3 DEF TypeOK, mainVars, storeVars, gcVars
<1> QED
  BY <1>1, <1>3, <1>4, QuietStep DEF mainVars

\* A round of the collector, but for the cuts.
LEMMA RoundKeeps ==
    ASSUME GCInv, CheckStopped \/ LoadGlobal \/ UpdateMinVersion \/ BeginCollect \/ EndCollect
    PROVE  GCInv'
<1>0. TypeOK /\ HandlesFit
  BY DEF GCInv
<1>1. /\ UNCHANGED <<mainVars, indexLeaked, storeVars, active, work, handleVars, log>>
      /\ gcpc' \in {"check", "load", "update", "collect", "scan", "exit"}
  BY <1>0 DEF CheckStopped, LoadGlobal, UpdateMinVersion, BeginCollect, EndCollect
<1>2. gcload' \in 0..global_timestamp /\ gcpos' \in 0..NumVertices
  <2>1. global_timestamp \in Nat /\ 0 \in 0..global_timestamp
        /\ global_timestamp \in 0..global_timestamp /\ 0 \in 0..NumVertices
    BY <1>0, Sizes DEF TypeOK
  <2> QED
    BY <1>0, <2>1 DEF CheckStopped, LoadGlobal, UpdateMinVersion, BeginCollect, EndCollect, TypeOK
<1>3. min_timestamp' \in Timestamps
  <2>1. CASE UpdateMinVersion
    <3> DEFINE registered == {ts \in Timestamps : active[ts] > 0}
    <3>1. gcload \in Timestamps
      BY <1>0, Sizes DEF TypeOK, Timestamps
    <3>2. registered # {} => (CHOOSE ts \in registered : \A t \in registered : ts <= t) \in Timestamps
      <4> SUFFICES ASSUME registered # {}
                   PROVE  (CHOOSE ts \in registered : \A t \in registered : ts <= t) \in registered
        OBVIOUS
      <4>1. registered \subseteq Nat
        BY Sizes
      <4> HIDE DEF registered
      <4>2. \E ts \in registered : \A t \in registered : ts <= t
        BY <4>1, LeastMember
      <4> QED
        BY <4>2
    <3> QED
      BY <2>1, <3>1, <3>2 DEF UpdateMinVersion
  <2>2. CASE ~ UpdateMinVersion
    BY <1>0, <2>2 DEF CheckStopped, LoadGlobal, BeginCollect, EndCollect, TypeOK
  <2> QED
    BY <2>1, <2>2
<1>4. TypeOK'
  BY <1>0, <1>1, <1>2, <1>3 DEF TypeOK, mainVars, storeVars, handleVars
<1>5. HandlesFit'
  BY <1>0, <1>1 DEF HandlesFit, handleVars
<1> QED
  BY <1>1, <1>4, <1>5, QuietStep DEF mainVars

-----------------------------------------------------------------------------
(* Steps on the store *)

LEMMA LoadKeeps ==
    ASSUME GCInv, Load
    PROVE  GCInv'
<1> DEFINE one == UpdateDegree(<<>>, 0, 1)
<1>0. /\ TypeOK /\ LoadedFirst /\ log = <<>> /\ \A w \in Writers : work[w] = NoWork
      /\ \A u, v \in Vertices : versions[u][v] = <<>>
  BY DEF GCInv, Load, LoadedFirst
<1>1. /\ main' = "running" /\ global_timestamp' = 1 /\ log' = <<{}>>
      /\ m_vertex_count' = NumVertices /\ degree' = [u \in Vertices |-> one]
      /\ indexLeaked' \in BOOLEAN
      /\ UNCHANGED <<stopped, versions, min_timestamp, active, work, handleVars, gcVars>>
  BY DEF Load
<1>2. one \in Seq(DegreeNode) /\ one # <<>> /\ one[1].deg = 0 /\ \A i \in DOMAIN one : one[i].ts = 1
  <2>1. <<>> \in Seq(DegreeNode) /\ DOMAIN <<>> = {}
    BY EmptySeq
  <2>2. 0 \in Nat /\ 1 \in Nat
    OBVIOUS
  <2> QED
    BY <2>1, <2>2, UpdateDegreeReads, UpdateDegreeHead
<1> HIDE DEF one
<1>3. /\ log' \in Seq(SUBSET (Vertices \X Vertices)) /\ Len(log') = 1
      /\ DOMAIN log' = {1} /\ log'[1] = {}
  BY <1>1
<1>4. TypeOK'
  <2>1. hts' \in [Handles -> 0..1] /\ gcload' \in 0..1
    <3>1. 0..global_timestamp \subseteq 0..1
      BY <1>0, LogTypes DEF GCInv, DegreesInTime, TypeOK
    <3> QED
      BY <1>0, <1>1, <3>1 DEF TypeOK, handleVars, gcVars
  <2> QED
    BY <1>0, <1>1, <1>2, <1>3, <2>1, Sizes, CollectorAssumption
       DEF TypeOK, handleVars, gcVars, CollectorAssumption
<1>5. WorkLogged'
  BY <1>0, <1>1 DEF WorkLogged, Sources, NoWork
<1>6. LoadedFirst'
  BY <1>1 DEF LoadedFirst
<1>7. ChainsLogged'
  <2>1. \A u, v \in Vertices : Logged(u, v)' = {}
    BY <1>3 DEF Logged
  <2>2. ToSet(<<>>) = {}
    BY EmptySeq DEF ToSet
  <2> QED
    BY <1>0, <1>1, <2>1, <2>2 DEF ChainsLogged
<1>8. HeadsCount'
  <2>1. \A u \in Vertices : Linked(u)' = {}
    BY <1>0, <1>1 DEF Linked
  <2>2. Cardinality({}) = 0
    BY FS_EmptySet
  <2> QED
    BY <1>1, <1>2, <2>1, <2>2 DEF HeadsCount
<1>9. DegreesInTime'
  <2>1. \A w \in Writers : Sources(w)' = {}
    BY <1>0, <1>1 DEF Sources, NoWork
  <2> QED
    BY <1>1, <1>2, <1>3, <2>1 DEF DegreesInTime
<1>10. HandlesFit'
  BY <1>1 DEF GCInv, HandlesFit, handleVars
<1> QED
  BY <1>4, <1>5, <1>6, <1>7, <1>8, <1>9, <1>10 DEF GCInv

LEMMA TakeTimestampKeeps ==
    ASSUME GCInv, NEW w \in Writers, NEW edges \in EdgeSets, TakeTimestamp(w, edges)
    PROVE  GCInv'
<1> DEFINE now == global_timestamp + 1
<1>0. /\ TypeOK /\ WorkLogged /\ ChainsLogged /\ DegreesInTime /\ HeadsCount
      /\ edges \in SUBSET (Vertices \X Vertices)
  BY CollectorAssumption DEF GCInv, CollectorAssumption
<1>1. /\ global_timestamp' = now /\ global_timestamp < MaxTimestamp
      /\ main = "running" /\ work[w] = NoWork /\ edges # {}
      /\ \A e \in edges : ~ Owned(e[1])
      /\ log' = Append(log, edges)
      /\ UNCHANGED <<mainVars, indexLeaked, m_vertex_count, versions, degree, min_timestamp,
                   active, handleVars, gcVars>>
  BY DEF TakeTimestamp
<1>2. /\ global_timestamp \in Nat /\ now \in Nat /\ now \in Timestamps /\ now > global_timestamp
      /\ 1..now = 1..global_timestamp \cup {now}
      /\ DOMAIN log = 1..global_timestamp /\ global_timestamp = Len(log)
  BY <1>0, <1>1, LogTypes, Sizes DEF Timestamps, DegreesInTime
<1>3. /\ log' \in Seq(SUBSET (Vertices \X Vertices)) /\ Len(log') = now
      /\ DOMAIN log' = 1..now /\ log'[now] = edges
      /\ \A t \in 1..global_timestamp : log'[t] = log[t]
  BY <1>0, <1>1, <1>2, LogTypes, AppendProperties, LenProperties
<1>4. /\ work' \in [Writers -> [ts : Timestamps, edges : SUBSET (Vertices \X Vertices)]]
      /\ work'[w].ts = now /\ work'[w].edges = edges
      /\ \A x \in Writers \ {w} : work'[x] = work[x]
  BY <1>0, <1>2 DEF TakeTimestamp, TypeOK
<1> HIDE DEF now
<1>5. TypeOK'
  <2>1. hts' \in [Handles -> 0..now] /\ gcload' \in 0..now
    <3>1. 0..global_timestamp \subseteq 0..now
      BY <1>2
    <3> QED
      BY <1>0, <1>1, <3>1 DEF TypeOK, handleVars, gcVars
  <2> QED
    BY <1>0, <1>1, <1>2, <1>3, <1>4, <2>1 DEF TypeOK, mainVars, handleVars, gcVars
<1>6. WorkLogged'
  <2>1. ASSUME NEW x \in Writers, work'[x] # NoWork
        PROVE  /\ work'[x].ts \in DOMAIN log' /\ log'[work'[x].ts] = work'[x].edges
               /\ work'[x].edges # {}
    <3>1. CASE x = w
      BY <1>1, <1>2, <1>3, <1>4, <3>1
    <3>2. CASE x # w
      BY <1>0, <1>2, <1>3, <1>4, <2>1, <3>2 DEF WorkLogged
    <3> QED
      BY <3>1, <3>2
  <2>2. ASSUME NEW x \in Writers \ {w} PROVE Sources(x)' = Sources(x) /\ Sources(x) \cap Sources(w)' = {}
    <3>1. Sources(x)' = Sources(x)
      BY <1>4 DEF Sources
    <3>2. Sources(w)' = {e[1] : e \in edges}
      BY <1>4 DEF Sources
    <3>3. ASSUME NEW u, u \in Sources(x), u \in Sources(w)' PROVE FALSE
      <4>1. PICK e \in edges : u = e[1]
        BY <3>2, <3>3
      <4>2. Owned(e[1])
        BY <3>3, <4>1 DEF Owned, Sources
      <4> QED
        BY <1>1, <4>2
    <3> QED
      BY <3>1, <3>3
  <2>3. ASSUME NEW x \in Writers, NEW y \in Writers, Sources(x)' \cap Sources(y)' # {} PROVE x = y
    <3>1. CASE x = w \/ y = w
      BY <2>2, <2>3, <3>1
    <3>2. CASE x # w /\ y # w
      BY <1>0, <2>2, <2>3, <3>2 DEF WorkLogged
    <3> QED
      BY <3>1, <3>2
  <2> QED
    BY <2>1, <2>3 DEF WorkLogged
<1>7. LoadedFirst'
  BY <1>1 DEF GCInv, LoadedFirst, mainVars
<1>8. ChainsLogged'
  <2> SUFFICES ASSUME NEW u \in Vertices, NEW v \in Vertices
               PROVE  /\ ToSet(versions[u][v]) \subseteq Logged(u, v)'
                      /\ \A t \in Logged(u, v)' :
                            \/ versions[u][v] # <<>>
                            \/ \E x \in Writers : work'[x].ts = t /\ <<u, v>> \in work'[x].edges
    BY <1>1 DEF ChainsLogged
  <2>1. Logged(u, v) \subseteq Logged(u, v)'
    BY <1>2, <1>3 DEF Logged
  <2>2. ASSUME NEW t \in Logged(u, v)'
        PROVE  \/ versions[u][v] # <<>>
               \/ \E x \in Writers : work'[x].ts = t /\ <<u, v>> \in work'[x].edges
    <3>1. CASE t = now
      BY <1>3, <1>4, <3>1 DEF Logged
    <3>2. CASE t # now
      <4>1. t \in Logged(u, v)
        <5>1. t \in DOMAIN log' /\ <<u, v>> \in log'[t]
          BY DEF Logged
        <5>2. t \in 1..global_timestamp
          BY <1>2, <1>3, <3>2, <5>1
        <5> QED
          BY <1>2, <1>3, <5>1, <5>2 DEF Logged
      <4>2. CASE versions[u][v] = <<>>
        <5>1. PICK x \in Writers : work[x].ts = t /\ <<u, v>> \in work[x].edges
          BY <1>0, <4>1, <4>2 DEF ChainsLogged
        <5>2. x # w
          BY <1>1, <5>1 DEF NoWork
        <5> QED
          BY <1>4, <5>1, <5>2
      <4> QED
        BY <4>2
    <3> QED
      BY <3>1, <3>2
  <2> QED
    BY <1>0, <2>1, <2>2 DEF ChainsLogged
<1>9. HeadsCount'
  BY <1>0, <1>1 DEF HeadsCount, Linked
<1>10. DegreesInTime'
  <2> SUFFICES ASSUME NEW u \in Vertices, NEW i \in DOMAIN degree[u]
               PROVE  /\ degree[u][i].ts <= now
                      /\ \A x \in Writers : u \in Sources(x)' => degree[u][i].ts <= work'[x].ts
    BY <1>1, <1>3 DEF DegreesInTime
  <2>1. degree[u][i].ts \in Nat /\ degree[u][i].ts <= global_timestamp
    BY <1>0, <1>2, ListTypes DEF DegreesInTime
  <2>2. degree[u][i].ts <= now
    BY <1>2, <2>1
  <2>3. ASSUME NEW x \in Writers, u \in Sources(x)' PROVE degree[u][i].ts <= work'[x].ts
    <3>1. CASE x = w
      BY <1>4, <2>2, <3>1
    <3>2. CASE x # w
      BY <1>0, <1>4, <2>3, <3>2 DEF DegreesInTime, Sources
    <3> QED
      BY <3>1, <3>2
  <2> QED
    BY <2>2, <2>3
<1>11. HandlesFit'
  BY <1>1 DEF GCInv, HandlesFit, handleVars
<1> QED
  BY <1>5, <1>6, <1>7, <1>8, <1>9, <1>10, <1>11 DEF GCInv

\* A degree list is read by the commit that owns its vertex: the head answers.
LEMMA OwnerReads ==
    ASSUME GCInv, NEW w \in Writers, work[w] # NoWork, NEW u \in Sources(w)
    PROVE  /\ u \in Vertices /\ work[w].ts \in 1..Len(log) /\ work[w].ts \in Timestamps
           /\ work[w].ts \in Nat
           /\ degree[u] \in Seq(DegreeNode) /\ degree[u] # <<>>
           /\ GetDegree(degree[u], work[w].ts) = Cardinality(Linked(u))
<1>1. TypeOK /\ WorkLogged /\ LoadedFirst /\ HeadsCount /\ DegreesInTime
  BY DEF GCInv
<1>2. u \in Vertices /\ work[w].ts \in Nat /\ work[w].ts \in Timestamps
  BY <1>1, WorkTypes
<1>3. work[w].ts \in 1..Len(log)
  BY <1>1, LogTypes DEF WorkLogged, DegreesInTime
<1>4. m_vertex_count = NumVertices
  BY <1>1 DEF LoadedFirst
<1>5. u < m_vertex_count
  BY <1>2, <1>4, Sizes DEF Vertices
<1>6. degree[u] # <<>> /\ degree[u][1].deg = Cardinality(Linked(u))
  BY <1>1, <1>2, <1>5 DEF HeadsCount
<1>7. degree[u] \in Seq(DegreeNode) /\ \A i \in DOMAIN degree[u] : degree[u][i].ts <= work[w].ts
  BY <1>1, <1>2, ListTypes DEF DegreesInTime
<1>8. GetDegree(degree[u], work[w].ts) = degree[u][1].deg
  BY <1>2, <1>6, <1>7, HeadRead
<1> QED
  BY <1>2, <1>3, <1>6, <1>7, <1>8

LEMMA InsertKeeps ==
    ASSUME GCInv, NEW w \in Writers, Insert(w)
    PROVE  GCInv'
<1> DEFINE ts == work[w].ts
           added(u) == {v \in Vertices : <<u, v>> \in work[w].edges}
           new(u)   == {v \in added(u) : versions[u][v] = <<>>}
           deg(u)   == GetDegree(degree[u], ts) + Cardinality(new(u))
<1>0. /\ TypeOK /\ WorkLogged /\ LoadedFirst /\ ChainsLogged /\ DegreesInTime /\ HeadsCount
      /\ HandlesFit
  BY DEF GCInv
<1>1. /\ work[w] # NoWork
      /\ versions' = [u \in Vertices |-> [v \in Vertices |->
                IF v \in added(u) THEN PushVersion(versions[u][v], ts) ELSE versions[u][v]]]
      /\ degree' = [u \in Vertices |->
                IF new(u) = {} THEN degree[u] ELSE UpdateDegree(degree[u], deg(u), ts)]
      /\ work' = [work EXCEPT ![w] = NoWork]
      /\ UNCHANGED <<mainVars, indexLeaked, global_timestamp, m_vertex_count, min_timestamp,
                       active, handleVars, gcVars, log>>
  BY DEF Insert
<1>2. /\ work' \in [Writers -> [ts : Timestamps, edges : SUBSET (Vertices \X Vertices)]]
      /\ work'[w] = NoWork /\ \A x \in Writers \ {w} : work'[x] = work[x]
      /\ Sources(w)' = {} /\ \A x \in Writers \ {w} : Sources(x)' = Sources(x)
  <2>1. /\ work' \in [Writers -> [ts : Timestamps, edges : SUBSET (Vertices \X Vertices)]]
        /\ work'[w] = NoWork /\ \A x \in Writers \ {w} : work'[x] = work[x]
    BY <1>0, <1>1, Sizes DEF TypeOK, NoWork
  <2> QED
    BY <2>1 DEF Sources, NoWork
<1>3. /\ ts \in DOMAIN log /\ log[ts] = work[w].edges
      /\ ts \in Nat /\ ts \in Timestamps /\ ts <= Len(log) /\ Len(log) \in Nat
      /\ m_vertex_count = NumVertices
  BY <1>0, <1>1, WorkTypes, LogTypes DEF WorkLogged, LoadedFirst, DegreesInTime
<1>4. \A u \in Vertices : added(u) # {} => u \in Sources(w)
  <2> SUFFICES ASSUME NEW u \in Vertices, NEW v \in added(u) PROVE u \in Sources(w)
    OBVIOUS
  <2>1. <<u, v>> \in work[w].edges
    OBVIOUS
  <2> QED
    BY <1>0, <2>1, WorkTypes
\* The chains.
<1>5. ASSUME NEW u \in Vertices, NEW v \in Vertices
      PROVE  /\ versions'[u][v] \in Seq(Timestamps)
             /\ v \in added(u) => /\ versions'[u][v] # <<>>
                                  /\ ToSet(versions'[u][v]) = {ts} \cup ToSet(versions[u][v])
             /\ v \notin added(u) => versions'[u][v] = versions[u][v]
  <2>1. versions[u][v] \in Seq(Timestamps) /\ versions[u][v] \in Seq(Nat)
    BY <1>0, ListTypes, Sizes, SeqMonotonic
  <2>2. versions'[u][v] = IF v \in added(u) THEN PushVersion(versions[u][v], ts) ELSE versions[u][v]
    BY <1>1
  <2>3. CASE v \notin added(u)
    BY <2>1, <2>2, <2>3
  <2>4. CASE v \in added(u)
    <3>1. versions'[u][v] = PushVersion(versions[u][v], ts)
      BY <2>2, <2>4
    <3>2. PushVersion(versions[u][v], ts) \in Seq(Timestamps)
      BY <1>3, <2>1, PushVersionType
    <3>3. /\ PushVersion(versions[u][v], ts) # <<>>
          /\ ToSet(PushVersion(versions[u][v], ts)) = {ts} \cup ToSet(versions[u][v])
      BY <1>3, <2>1, PushVersionAdds
    <3> QED
      BY <2>4, <3>1, <3>2, <3>3
  <2> QED
    BY <2>3, <2>4
<1>6. ASSUME NEW u \in Vertices
      PROVE  Linked(u)' = Linked(u) \cup new(u) /\ Linked(u) \cap new(u) = {}
  BY <1>5 DEF Linked
\* The degrees.
<1>7. ASSUME NEW u \in Vertices, new(u) # {}
      PROVE  /\ degree'[u] = UpdateDegree(degree[u], deg(u), ts)
             /\ deg(u) \in Nat /\ deg(u) = Cardinality(Linked(u)')
             /\ degree[u] \in Seq(DegreeNode)
  <2>1. u \in Sources(w)
    BY <1>4, <1>7
  <2>2. degree[u] \in Seq(DegreeNode) /\ GetDegree(degree[u], ts) = Cardinality(Linked(u))
    BY <1>1, <2>1, OwnerReads
  <2>3. IsFiniteSet(Linked(u)) /\ Cardinality(Linked(u)) \in Nat
    BY LinkedFinite
  <2>4. IsFiniteSet(new(u)) /\ Cardinality(new(u)) \in Nat
    <3>1. new(u) \in SUBSET Vertices
      OBVIOUS
    <3> QED
      BY <3>1, Sizes, FS_Subset, FS_CardinalityType
  <2>5. Linked(u) \cap new(u) = {} /\ Linked(u)' = Linked(u) \cup new(u)
    BY <1>6
  <2>6. Cardinality(Linked(u) \cup new(u))
            = Cardinality(Linked(u)) + Cardinality(new(u)) - Cardinality(Linked(u) \cap new(u))
    <3> HIDE DEF new
    <3> QED
      BY <2>3, <2>4, FS_Union
  <2>7. Cardinality({}) = 0
    BY FS_EmptySet
  <2>8. degree'[u] = UpdateDegree(degree[u], deg(u), ts)
    BY <1>1, <1>7
  <2>9. deg(u) = Cardinality(Linked(u)) + Cardinality(new(u))
    BY <2>2
  <2> HIDE DEF new, deg
  <2>10. Cardinality(Linked(u)') = Cardinality(Linked(u)) + Cardinality(new(u))
    <3>1. Cardinality(Linked(u) \cap new(u)) = 0
      BY <2>5, <2>7
    <3>2. Cardinality(Linked(u)') = Cardinality(Linked(u) \cup new(u))
      BY <2>5
    <3> QED
      BY <2>3, <2>4, <2>6, <3>1, <3>2
  <2> QED
    BY <2>2, <2>3, <2>4, <2>8, <2>9, <2>10
<1>8. ASSUME NEW u \in Vertices, new(u) = {}
      PROVE  degree'[u] = degree[u] /\ Linked(u)' = Linked(u)
  BY <1>1, <1>6, <1>8
<1> HIDE DEF added, new, deg, ts
<1>9. ASSUME NEW u \in Vertices PROVE degree'[u] \in Seq(DegreeNode)
  <2>1. CASE new(u) = {}
    BY <1>0, <1>8, <2>1, ListTypes
  <2>2. CASE new(u) # {}
    <3>1. degree'[u] = UpdateDegree(degree[u], deg(u), ts) /\ deg(u) \in Nat
          /\ degree[u] \in Seq(DegreeNode)
      BY <1>7, <2>2
    <3>2. UpdateDegree(degree[u], deg(u), ts) \in Seq(DegreeNode)
      BY <1>3, <3>1, UpdateDegreeReads
    <3> QED
      BY <3>1, <3>2
  <2> QED
    BY <2>1, <2>2
<1>10. TypeOK'
  <2>1. versions' \in [Vertices -> [Vertices -> Seq(Timestamps)]]
    BY <1>1, <1>5
  <2>2. degree' \in [Vertices -> Seq(DegreeNode)]
    BY <1>1, <1>9
  <2> QED
    BY <1>0, <1>1, <1>2, <2>1, <2>2 DEF TypeOK, mainVars, handleVars, gcVars
<1>11. WorkLogged'
  BY <1>0, <1>1, <1>2 DEF WorkLogged
<1>12. LoadedFirst'
  <2>1. main \notin {"constructing", "loading"}
    BY <1>0, <1>1 DEF LoadedFirst
  <2> QED
    BY <1>1, <1>3, <2>1 DEF LoadedFirst, mainVars
<1>13. ChainsLogged'
  <2> SUFFICES ASSUME NEW u \in Vertices, NEW v \in Vertices
               PROVE  /\ ToSet(versions'[u][v]) \subseteq Logged(u, v)
                      /\ \A t \in Logged(u, v) :
                            \/ versions'[u][v] # <<>>
                            \/ \E x \in Writers : work'[x].ts = t /\ <<u, v>> \in work'[x].edges
    BY <1>1 DEF ChainsLogged, Logged
  <2>1. v \in added(u) => ts \in Logged(u, v)
    BY <1>3 DEF added, Logged
  <2>2. ToSet(versions'[u][v]) \subseteq Logged(u, v)
    <3>1. ToSet(versions[u][v]) \subseteq Logged(u, v)
      BY <1>0 DEF ChainsLogged
    <3>2. CASE v \in added(u)
      BY <1>5, <2>1, <3>1, <3>2
    <3>3. CASE v \notin added(u)
      BY <1>5, <3>1, <3>3
    <3> QED
      BY <3>2, <3>3
  <2>3. ASSUME NEW t \in Logged(u, v), versions'[u][v] = <<>>
        PROVE  \E x \in Writers : work'[x].ts = t /\ <<u, v>> \in work'[x].edges
    <3>1. versions[u][v] = <<>> /\ v \notin added(u)
      BY <1>5, <2>3
    <3>2. PICK x \in Writers : work[x].ts = t /\ <<u, v>> \in work[x].edges
      BY <1>0, <3>1 DEF ChainsLogged
    <3>3. x # w
      BY <3>1, <3>2 DEF added
    <3> QED
      BY <1>2, <3>2, <3>3
  <2> QED
    BY <2>2, <2>3
<1>14. HeadsCount'
  <2> SUFFICES ASSUME NEW u \in Vertices, u < m_vertex_count
               PROVE  degree'[u] # <<>> /\ degree'[u][1].deg = Cardinality(Linked(u)')
    BY <1>1 DEF HeadsCount
  <2>1. CASE new(u) = {}
    BY <1>0, <1>8, <2>1 DEF HeadsCount
  <2>2. CASE new(u) # {}
    BY <1>3, <1>7, <2>2, UpdateDegreeHead
  <2> QED
    BY <2>1, <2>2
<1>15. DegreesInTime'
  <2> SUFFICES ASSUME NEW u \in Vertices, NEW i \in DOMAIN degree'[u]
               PROVE  /\ degree'[u][i].ts <= Len(log)
                      /\ \A x \in Writers : u \in Sources(x)' => degree'[u][i].ts <= work'[x].ts
    BY <1>0, <1>1 DEF DegreesInTime
  <2>1. \A x \in Writers : u \in Sources(x)' => x # w /\ u \in Sources(x) /\ work'[x] = work[x]
    BY <1>2
  <2>2. \A j \in DOMAIN degree[u] :
            /\ degree[u][j].ts <= Len(log)
            /\ \A x \in Writers : u \in Sources(x) => degree[u][j].ts <= work[x].ts
    BY <1>0 DEF DegreesInTime
  <2>3. CASE new(u) = {}
    BY <1>8, <2>1, <2>2, <2>3
  <2>4. CASE new(u) # {}
    <3>1. u \in Sources(w)
      BY <1>4, <2>4 DEF new
    <3>2. \A x \in Writers : u \notin Sources(x)'
      BY <1>0, <2>1, <3>1 DEF WorkLogged
    <3>3. degree'[u][i].ts = ts \/ \E j \in DOMAIN degree[u] : degree'[u][i] = degree[u][j]
      BY <1>3, <1>7, <2>4, UpdateDegreeHead
    <3> QED
      BY <1>3, <2>2, <3>2, <3>3
  <2> QED
    BY <2>3, <2>4
<1>16. HandlesFit'
  BY <1>0, <1>1 DEF HandlesFit, handleVars
<1> QED
  BY <1>10, <1>11, <1>12, <1>13, <1>14, <1>15, <1>16 DEF GCInv

LEMMA CutVertexKeeps ==
    ASSUME GCInv, CutVertex
    PROVE  GCInv'
<1>0. /\ TypeOK /\ WorkLogged /\ LoadedFirst /\ ChainsLogged /\ DegreesInTime /\ HeadsCount
      /\ HandlesFit
  BY DEF GCInv
<1>1. /\ gcpos < m_vertex_count /\ gcpos' = gcpos + 1
      /\ degree' = [degree EXCEPT ![gcpos] = CutDegree(gcpos)]
      /\ versions' = [versions EXCEPT ![gcpos] = [v \in Vertices |->
            IF v \in Passed(gcpos) THEN CutChain(@[v]) ELSE @[v]]]
      /\ UNCHANGED <<mainVars, indexLeaked, global_timestamp, m_vertex_count, min_timestamp,
                   active, work, handleVars, gcpc, gcload, log>>
  BY DEF CutVertex
<1>2. gcpos \in Vertices /\ gcpos' \in 0..NumVertices
  BY <1>0, <1>1, Sizes DEF TypeOK, Vertices
<1>3. ASSUME NEW u \in Vertices, NEW v \in Vertices
      PROVE  /\ versions'[u][v] \in Seq(Timestamps)
             /\ ToSet(versions'[u][v]) \subseteq ToSet(versions[u][v])
             /\ versions'[u][v] = <<>> <=> versions[u][v] = <<>>
  <2>1. versions[u][v] \in Seq(Timestamps)
    BY <1>0, ListTypes
  <2>2. versions'[u][v] = versions[u][v] \/ versions'[u][v] = CutChain(versions[u][v])
    BY <1>0, <1>1, <1>2 DEF TypeOK
  <2>3. /\ CutChain(versions[u][v]) \in Seq(Timestamps)
        /\ ToSet(CutChain(versions[u][v])) \subseteq ToSet(versions[u][v])
        /\ CutChain(versions[u][v]) = <<>> <=> versions[u][v] = <<>>
    BY <2>1, GcChainKeeps DEF CutChain
  <2> QED
    BY <2>1, <2>2, <2>3
<1>4. ASSUME NEW u \in Vertices
      PROVE  /\ degree'[u] \in Seq(DegreeNode)
             /\ \A i \in DOMAIN degree'[u] : \E j \in DOMAIN degree[u] : degree'[u][i] = degree[u][j]
             /\ degree[u] # <<>> => degree'[u] # <<>> /\ degree'[u][1] = degree[u][1]
  <2>1. degree[u] \in Seq(DegreeNode)
    BY <1>0, ListTypes
  <2>2. degree'[u] = degree[u] \/ degree'[u] = GcDegree(degree[u], min_timestamp)
    BY <1>0, <1>1, <1>2 DEF TypeOK, CutDegree
  <2> QED
    BY <2>1, <2>2, GcDegreeKeeps
<1>5. \A u \in Vertices : Linked(u)' = Linked(u)
  BY <1>3 DEF Linked
<1>6. TypeOK'
  <2>1. DOMAIN versions' = Vertices /\ \A u \in Vertices : DOMAIN versions'[u] = Vertices
    BY <1>0, <1>1, <1>2 DEF TypeOK
  <2>2. \A u \in Vertices : versions'[u] = [v \in Vertices |-> versions'[u][v]]
    BY <1>0, <1>1, <1>2 DEF TypeOK
  <2>3. versions' = [u \in Vertices |-> versions'[u]]
    BY <1>0, <1>1, <1>2 DEF TypeOK
  <2>4. versions' \in [Vertices -> [Vertices -> Seq(Timestamps)]]
    BY <1>3, <2>2, <2>3
  <2>5. degree' = [u \in Vertices |-> degree'[u]]
    BY <1>0, <1>1, <1>2 DEF TypeOK
  <2>6. degree' \in [Vertices -> Seq(DegreeNode)]
    BY <1>4, <2>5
  <2> QED
    BY <1>0, <1>1, <1>2, <2>4, <2>6 DEF TypeOK, mainVars, handleVars
<1>7. WorkLogged'
  BY <1>0, <1>1 DEF WorkLogged, Sources
<1>8. LoadedFirst'
  BY <1>0, <1>1, <1>3 DEF LoadedFirst, mainVars
<1>9. ChainsLogged'
  <2> SUFFICES ASSUME NEW u \in Vertices, NEW v \in Vertices
               PROVE  /\ ToSet(versions'[u][v]) \subseteq Logged(u, v)
                      /\ \A t \in Logged(u, v) :
                            \/ versions'[u][v] # <<>>
                            \/ \E w \in Writers : work[w].ts = t /\ <<u, v>> \in work[w].edges
    BY <1>1 DEF ChainsLogged, Logged
  <2>1. /\ ToSet(versions[u][v]) \subseteq Logged(u, v)
        /\ \A t \in Logged(u, v) :
                            \/ versions[u][v] # <<>>
                            \/ \E w \in Writers : work[w].ts = t /\ <<u, v>> \in work[w].edges
    BY <1>0 DEF ChainsLogged
  <2> QED
    BY <1>3, <2>1
<1>10. HeadsCount'
  <2> SUFFICES ASSUME NEW u \in Vertices, u < m_vertex_count
               PROVE  degree'[u] # <<>> /\ degree'[u][1].deg = Cardinality(Linked(u)')
    BY <1>1 DEF HeadsCount
  <2>1. degree[u] # <<>> /\ degree[u][1].deg = Cardinality(Linked(u))
    BY <1>0 DEF HeadsCount
  <2> QED
    BY <1>4, <1>5, <2>1
<1>11. DegreesInTime'
  <2> SUFFICES ASSUME NEW u \in Vertices, NEW i \in DOMAIN degree'[u]
               PROVE  /\ degree'[u][i].ts <= Len(log)
                      /\ \A w \in Writers : u \in Sources(w) => degree'[u][i].ts <= work[w].ts
    BY <1>0, <1>1 DEF DegreesInTime, Sources
  <2>1. PICK j \in DOMAIN degree[u] : degree'[u][i] = degree[u][j]
    BY <1>4
  <2> QED
    BY <1>0, <2>1 DEF DegreesInTime
<1>12. HandlesFit'
  BY <1>0, <1>1 DEF HandlesFit, handleVars
<1> QED
  BY <1>6, <1>7, <1>8, <1>9, <1>10, <1>11, <1>12 DEF GCInv

-----------------------------------------------------------------------------
(* The invariant holds *)

LEMMA GCInit == Init => GCInv
<1> SUFFICES ASSUME Init PROVE GCInv
  OBVIOUS
<1>0. NoWork.ts = 0 /\ NoWork.edges = {} /\ <<>> \in Seq(Timestamps) /\ <<>> \in Seq(DegreeNode)
      /\ <<>> \in Seq(SUBSET (Vertices \X Vertices)) /\ Len(<<>>) = 0 /\ DOMAIN <<>> = {}
      /\ NoWork \in [ts : Timestamps, edges : SUBSET (Vertices \X Vertices)]
  BY Sizes, EmptySeq DEF NoWork
<1>1. TypeOK
  <2>1. 0 \in 0..0 /\ 0 \in 0..NumVertices /\ 0 \in Nat
    BY Sizes
  <2>2. active \in [Timestamps -> Nat] /\ hts \in [Handles -> 0..global_timestamp]
    BY <2>1 DEF Init
  <2>3. /\ versions \in [Vertices -> [Vertices -> Seq(Timestamps)]]
        /\ degree \in [Vertices -> Seq(DegreeNode)]
        /\ work \in [Writers -> [ts : Timestamps, edges : SUBSET (Vertices \X Vertices)]]
    <3> HIDE DEF NoWork
    <3> QED
      BY <1>0 DEF Init
  <2>4. /\ hpc \in [Handles -> {"none", "loaded", "unique", "failed", "live"}]
        /\ hkind \in [Handles -> Kinds \cup {"shared"}]
    BY DEF Init
  <2> QED
    BY <1>0, <2>1, <2>2, <2>3, <2>4, Sizes DEF Init, TypeOK
<1>2. \A w \in Writers : work[w] = NoWork /\ Sources(w) = {}
  BY <1>0 DEF Init, Sources
<1>3. WorkLogged /\ LoadedFirst
  BY <1>2 DEF Init, WorkLogged, LoadedFirst
<1>4. ChainsLogged
  <2>1. \A u, v \in Vertices : versions[u][v] = <<>> /\ Logged(u, v) = {}
    BY <1>0 DEF Init, Logged
  <2>2. ToSet(<<>>) = {}
    BY <1>0 DEF ToSet
  <2> QED
    BY <2>1, <2>2 DEF ChainsLogged
<1>5. HeadsCount
  <2>1. \A u \in Vertices : ~ (u < 0)
    BY Sizes DEF Vertices
  <2> QED
    BY <2>1 DEF Init, HeadsCount
<1>6. DegreesInTime
  <2>1. \A u \in Vertices : DOMAIN degree[u] = {}
    BY <1>0 DEF Init
  <2> QED
    BY <1>0, <2>1 DEF Init, DegreesInTime
<1>7. HandlesFit
  BY DEF Init, HandlesFit
<1> QED
  BY <1>1, <1>3, <1>4, <1>5, <1>6, <1>7 DEF GCInv

LEMMA GCStep == GCInv /\ [Next]_vars => GCInv'
<1> SUFFICES ASSUME GCInv, [Next]_vars PROVE GCInv'
  OBVIOUS
<1>1. CASE Owner
  BY <1>1, OwnerKeeps, LoadKeeps DEF Owner
<1>2. CASE Collector
  BY <1>2, RoundKeeps, CutVertexKeeps DEF Collector
<1>3. CASE \E w \in Writers : Insert(w) \/ \E edges \in EdgeSets : TakeTimestamp(w, edges)
  BY <1>3, InsertKeeps, TakeTimestampKeeps
<1>4. CASE \E h \in Handles : Snapshot(h)
  BY <1>4, SnapshotKeeps
<1>5. CASE UNCHANGED vars
  <2>1. TypeOK' /\ HandlesFit'
    BY <1>5 DEF GCInv, TypeOK, HandlesFit, vars, mainVars, storeVars, handleVars, gcVars
  <2> QED
    BY <1>5, <2>1, QuietStep DEF vars, mainVars
<1> QED
  BY <1>1, <1>2, <1>3, <1>4, <1>5 DEF Next

LEMMA GCInvariant == Spec => []GCInv
BY GCInit, GCStep, PTL DEF Spec

\* The counters, lists and programs of the store and of its collector keep their
\* types; the timestamp of a snapshot was drawn, and end_read_transaction takes no
\* registration below none.
THEOREM CollectorTypes == Spec => []TypeOK
<1>1. GCInv => TypeOK
  BY DEF GCInv
<1> QED
  BY <1>1, GCInvariant, PTL

-----------------------------------------------------------------------------
(* What a snapshot sees *)

\* At a vertex no commit owns, the edges of the log have their entries, and the
\* entries are of edges of the log.
LEMMA ReadableEntries ==
    ASSUME GCInv, NEW u \in Readable, NEW v \in Vertices
    PROVE  /\ u \in Vertices
           /\ versions[u][v] # <<>> <=> Logged(u, v) # {}
           /\ versions[u][v] # <<>> => ToSet(versions[u][v]) # {}
           /\ ToSet(versions[u][v]) \subseteq Logged(u, v)
           /\ Logged(u, v) \subseteq 1..global_timestamp
<1>0. TypeOK /\ ChainsLogged /\ DegreesInTime
  BY DEF GCInv
<1>1. u \in Vertices /\ ~ Owned(u)
  BY DEF Readable
<1>2. versions[u][v] \in Seq(Timestamps)
  BY <1>0, <1>1, ListTypes
<1>3. versions[u][v] # <<>> => ToSet(versions[u][v]) # {}
  <2> SUFFICES ASSUME versions[u][v] # <<>> PROVE ToSet(versions[u][v]) # {}
    OBVIOUS
  <2>1. 1 \in DOMAIN versions[u][v]
    BY <1>2, LenProperties, EmptySeq
  <2> QED
    BY <2>1 DEF ToSet
<1>4. ToSet(versions[u][v]) \subseteq Logged(u, v)
  BY <1>0, <1>1 DEF ChainsLogged
<1>5. ASSUME NEW t \in Logged(u, v) PROVE versions[u][v] # <<>>
  <2>1. \A w \in Writers : <<u, v>> \notin work[w].edges
    <3> SUFFICES ASSUME NEW w \in Writers, <<u, v>> \in work[w].edges PROVE FALSE
      OBVIOUS
    <3>1. <<u, v>>[1] \in {e[1] : e \in work[w].edges}
      OBVIOUS
    <3> QED
      BY <1>1, <3>1 DEF Owned
  <2> QED
    BY <1>0, <1>1, <2>1 DEF ChainsLogged
<1>6. Logged(u, v) \subseteq 1..global_timestamp
  BY <1>0, LogTypes DEF Logged
<1> QED
  BY <1>1, <1>3, <1>4, <1>5, <1>6

\* Whatever the collector cut, a snapshot taken now finds every committed edge and
\* the right degree at every vertex it can lock.
THEOREM CollectionKeepsTheLatest == Spec => []LatestSurvives
<1>1. ASSUME GCInv PROVE LatestSurvives
  <2> SUFFICES ASSUME NEW u \in Readable
               PROVE  /\ VisibleDests(u, global_timestamp) = NeighborsAt(u, global_timestamp)
                      /\ HasDegree(degree[u], global_timestamp)
                      /\ GetDegree(degree[u], global_timestamp)
                            = Cardinality(NeighborsAt(u, global_timestamp))
    BY DEF LatestSurvives
  <2>0. TypeOK /\ HeadsCount /\ DegreesInTime /\ global_timestamp \in Nat
    BY <1>1, LogTypes DEF GCInv
  <2>1. u \in Vertices /\ u < m_vertex_count
    BY DEF Readable
  <2>2. ASSUME NEW v \in Vertices
        PROVE  /\ v \in NeighborsAt(u, global_timestamp) <=> v \in Linked(u)
               /\ v \in VisibleDests(u, global_timestamp) <=> v \in Linked(u)
    <3>1. /\ versions[u][v] # <<>> <=> Logged(u, v) # {}
          /\ versions[u][v] # <<>> => ToSet(versions[u][v]) # {}
          /\ ToSet(versions[u][v]) \subseteq Logged(u, v)
          /\ \A t \in Logged(u, v) : t <= global_timestamp
      BY <1>1, <2>0, ReadableEntries
    <3>2. CheckVersion(versions[u][v], global_timestamp) <=> versions[u][v] # <<>>
      BY <3>1, CheckVersionIsMembership
    <3>3. (\E t \in Logged(u, v) : t <= global_timestamp) <=> versions[u][v] # <<>>
      BY <3>1
    <3> QED
      BY <3>2, <3>3 DEF NeighborsAt, VisibleDests, Linked
  <2>3. /\ NeighborsAt(u, global_timestamp) = Linked(u)
        /\ VisibleDests(u, global_timestamp) = Linked(u)
    <3>1. /\ NeighborsAt(u, global_timestamp) \subseteq Vertices
          /\ VisibleDests(u, global_timestamp) \subseteq Vertices
          /\ Linked(u) \subseteq Vertices
      BY DEF NeighborsAt, VisibleDests, Linked
    <3> QED
      BY <2>2, <3>1
  <2>4. degree[u] # <<>> /\ degree[u][1].deg = Cardinality(Linked(u))
    BY <2>0, <2>1 DEF HeadsCount
  <2>5. degree[u] \in Seq(DegreeNode) /\ \A i \in DOMAIN degree[u] : degree[u][i].ts <= global_timestamp
    BY <2>0, <2>1, ListTypes DEF DegreesInTime
  <2>6. /\ HasDegree(degree[u], global_timestamp)
        /\ GetDegree(degree[u], global_timestamp) = degree[u][1].deg
    BY <2>0, <2>4, <2>5, HeadRead
  <2> QED
    BY <2>3, <2>4, <2>6
<1> QED
  BY <1>1, GCInvariant, PTL

\* A snapshot of any age sees no edge before its commit, and an edge that was
\* inserted once by every snapshot as new as that: there is nothing to cut of it.
THEOREM CollectionKeepsTheOnlyVersion == Spec => []OnceInsertedSurvives
<1>1. ASSUME GCInv PROVE OnceInsertedSurvives
  <2> SUFFICES ASSUME NEW h \in Handles, NEW u \in Readable, NEW v \in Vertices
               PROVE  /\ v \in VisibleDests(u, hts[h]) => v \in NeighborsAt(u, hts[h])
                      /\ v \in NeighborsAt(u, hts[h]) /\ Cardinality(Logged(u, v)) = 1 =>
                            v \in VisibleDests(u, hts[h])
    BY DEF OnceInsertedSurvives
  <2>1. /\ versions[u][v] # <<>> <=> Logged(u, v) # {}
        /\ versions[u][v] # <<>> => ToSet(versions[u][v]) # {}
        /\ ToSet(versions[u][v]) \subseteq Logged(u, v)
        /\ Logged(u, v) \subseteq 1..global_timestamp
    BY <1>1, ReadableEntries
  <2>2. v \in VisibleDests(u, hts[h]) <=> \E t \in ToSet(versions[u][v]) : t <= hts[h]
    BY CheckVersionIsMembership DEF VisibleDests
  <2>3. v \in NeighborsAt(u, hts[h]) <=> \E t \in Logged(u, v) : t <= hts[h]
    BY DEF NeighborsAt
  <2>4. ASSUME Cardinality(Logged(u, v)) = 1
        PROVE  Logged(u, v) \subseteq ToSet(versions[u][v])
    <3>1. IsFiniteSet(Logged(u, v))
      <4>1. global_timestamp \in Int
        BY <1>1, LogTypes DEF GCInv
      <4>2. IsFiniteSet(1..global_timestamp)
        BY <4>1, FS_Interval
      <4> QED
        BY <2>1, <4>2, FS_Subset
    <3>2. PICK t : Logged(u, v) = {t}
      BY <2>4, <3>1, FS_Singleton
    <3> QED
      BY <2>1, <3>2
  <2> QED
    BY <2>1, <2>2, <2>3, <2>4
<1> QED
  BY <1>1, GCInvariant, PTL
=============================================================================
