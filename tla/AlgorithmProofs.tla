--------------------------- MODULE AlgorithmProofs ---------------------------
(***************************************************************************)
(* Proofs about the parallel graph algorithms for every graph and every    *)
(* number of threads.                                                      *)
(*                                                                         *)
(*  - The chunks into which driver.h and the algorithms cut an index       *)
(*    range: every index is in one of them and in no other, also when      *)
(*    surplus threads get a chunk that begins after its end.               *)
(*  - wcc() returns the weakly connected components.  A round in which no  *)
(*    thread hooked left comp[] as it found it, flat, so every edge a      *)
(*    thread looked at had one component at both ends; and the threads     *)
(*    together look at all edges, because their chunks cover the vertices. *)
(*  - sssp() returns the distances.  One iteration settles one level: what *)
(*    the frontier holds is the vertices at distance k, all that is pushed *)
(*    is at distance k + 1 and goes to one bin, and what races on dist[]   *)
(*    stores the same number.                                              *)
(*  - The queue of bfs() has room for all it is given, in both builds:     *)
(*    shared_in is at most the vertices visited.                           *)
(*  - bfs() returns the distances, in both builds and for every width of a *)
(*    word, unless a reservation or a bit of another thread was dropped.   *)
(*    Until then a turn over the queue or the bitmap visits the vertices   *)
(*    at distance k + 1, and each is in one buffer with a place of its own *)
(*    or has its bit.                                                      *)
(***************************************************************************)
EXTENDS Wcc, Bfs, Sssp, FiniteSetTheorems, SequenceTheorems, WellFoundedInduction, TLAPS

-----------------------------------------------------------------------------
(* Chunks *)

LEMMA DivFacts ==
    ASSUME NEW a \in Nat, NEW b \in Nat, b > 0
    PROVE  /\ a \div b \in Nat
           /\ b * (a \div b) <= a
           /\ a < b * (a \div b) + b
  OBVIOUS

LEMMA Scale ==
    ASSUME NEW c \in Nat, NEW s \in Nat, NEW t \in Nat, s < t
    PROVE  s * c + c <= t * c
<1>1. PICK k \in Nat : t = s + 1 + k
    BY t - s - 1 \in Nat
<1>2. t * c = s * c + c + k * c
    BY <1>1
<1>3. k * c \in Nat
    OBVIOUS
<1> QED BY <1>2, <1>3

\* The chunks together are long enough.
LEMMA ChunkSizeFacts ==
    ASSUME NEW n \in Nat
    PROVE  /\ ChunkSize(n) \in Nat
           /\ n <= NumThreads * ChunkSize(n)
           /\ n > 0 => ChunkSize(n) > 0
<1> DEFINE c == ChunkSize(n)
<1>1. NumThreads \in Nat /\ NumThreads > 0
    BY WorkloadAssumption
<1>2. /\ c \in Nat
      /\ n + NumThreads - 1 < NumThreads * c + NumThreads
    BY <1>1, DivFacts, n + NumThreads - 1 \in Nat DEF ChunkSize
<1> HIDE DEF c
<1>3. n <= NumThreads * c
    BY <1>1, <1>2
<1>4. n > 0 => c > 0
    BY <1>1, <1>2, <1>3, NumThreads * 0 = 0
<1> QED BY <1>2, <1>3, <1>4 DEF c

\* Chunks in ascending order do not meet.
LEMMA ChunksOrdered ==
    ASSUME NEW n \in Nat, NEW s \in Threads, NEW t \in Threads, s < t
    PROVE  Chunk(s, n) \cap Chunk(t, n) = {}
<1>1. ChunkSize(n) \in Nat
    BY ChunkSizeFacts
<1>2. s \in Nat /\ t \in Nat
    BY WorkloadAssumption DEF Threads
<1>3. ChunkBegin(s, n) + ChunkSize(n) <= ChunkBegin(t, n)
    BY <1>1, <1>2, Scale DEF ChunkBegin
<1>4. ChunkBegin(s, n) \in Nat /\ ChunkBegin(t, n) \in Nat
    BY <1>1, <1>2 DEF ChunkBegin
<1>5. ChunkEnd(s, n) <= ChunkBegin(s, n) + ChunkSize(n)
    BY <1>1, <1>4 DEF ChunkEnd
<1>6. ChunkEnd(s, n) \in Nat
    BY <1>1, <1>4 DEF ChunkEnd
<1> QED BY <1>1, <1>3, <1>4, <1>5, <1>6 DEF Chunk

\* Every index of a range that threads share (driver.h:104-106 and each algorithm)
\* is in the chunk of exactly one thread.
THEOREM ChunksPartition ==
    ASSUME NEW n \in Nat, NEW i \in 0..n - 1
    PROVE  /\ \E t \in Threads : i \in Chunk(t, n)
           /\ \A s, t \in Threads : i \in Chunk(s, n) /\ i \in Chunk(t, n) => s = t
<1> DEFINE c == ChunkSize(n)
<1>1. c \in Nat /\ n <= NumThreads * c /\ c > 0
    BY ChunkSizeFacts
<1>2. NumThreads \in Nat /\ NumThreads > 0
    BY WorkloadAssumption
<1> DEFINE q == i \div c
<1> HIDE DEF c
<1>3. q \in Nat /\ c * q <= i /\ i < c * q + c
    BY <1>1, DivFacts
<1> HIDE DEF q
<1>4. q < NumThreads
  <2>1. SUFFICES ASSUME ~(q < NumThreads) PROVE FALSE
      OBVIOUS
  <2>2. NumThreads < q + 1 /\ q + 1 \in Nat
      BY <2>1, <1>2, <1>3
  <2>3. NumThreads * c + c <= (q + 1) * c
      BY <2>2, <1>1, <1>2, Scale
  <2>4. (q + 1) * c = c * q + c
      BY <1>1, <1>3
  <2>5. NumThreads * c \in Nat /\ c * q \in Nat
      BY <1>1, <1>2, <1>3
  <2> QED BY <2>3, <2>4, <2>5, <1>1, <1>3
<1>5. q \in Threads
    BY <1>2, <1>3, <1>4 DEF Threads
<1>6. i \in Chunk(q, n)
  <2>1. ChunkBegin(q, n) = c * q
      BY <1>1, <1>3 DEF ChunkBegin, c
  <2>2. i < ChunkEnd(q, n)
      BY <2>1, <1>1, <1>3 DEF ChunkEnd, c
  <2> QED BY <2>1, <2>2, <1>3 DEF Chunk
<1>7. ASSUME NEW s \in Threads, NEW t \in Threads, i \in Chunk(s, n), i \in Chunk(t, n)
      PROVE  s = t
  <2>1. s \in Int /\ t \in Int
      BY DEF Threads
  <2> QED BY <1>7, <2>1, ChunksOrdered
<1> QED BY <1>5, <1>6, <1>7

-----------------------------------------------------------------------------
(* Weakly connected components *)

InHand(t) == hooker[t].pc \in {"dest", "root", "hook"}
BothRead(t) == hooker[t].pc \in {"root", "hook"}

\* No entry of comp[] leads out of a closed set.
StaysInside == \A S \in SUBSET Vertices : Closed(S) => \A v \in S : comp[v] \in S

\* What a thread has read is inside the component of its edge.
ReadsInside(t) ==
    /\ hooker[t].left \subseteq edges
    /\ InHand(t) => hooker[t].e \in edges
    /\ BothRead(t) => hooker[t].cu # hooker[t].cv
    /\ \A S \in SUBSET Vertices : Closed(S) =>
          /\ InHand(t) /\ hooker[t].e[1] \in S => hooker[t].cu \in S
          /\ BothRead(t) /\ hooker[t].e[2] \in S => hooker[t].cv \in S

OneName(e) == comp[e[1]] = comp[e[2]]
FlatBelow(n) == \A v \in Vertices : v < n => comp[comp[v]] = comp[v]

\* In a round without a hook the locals are the entries, and an edge of a
\* thread's chunk is still to be read, in its hand, or has one name.
QuietThread(t) ==
    /\ InHand(t) => hooker[t].cu = comp[hooker[t].e[1]]
    /\ BothRead(t) => hooker[t].cv = comp[hooker[t].e[2]]
    /\ \A e \in edges : e[1] \in Chunk(t, NumVertices) =>
          e \in hooker[t].left \/ (InHand(t) /\ e = hooker[t].e) \/ OneName(e)

QuietRound ==
    ~change =>
        /\ wccMain \in {"off", "hook"} => FlatBelow(NumVertices)
        /\ wccMain = "hook" => \A t \in Threads : QuietThread(t)
        /\ wccMain = "jump" => FlatBelow(NumVertices) /\ \A e \in edges : OneName(e)

WccInv ==
    /\ WccTypeOK
    /\ PathsDescend
    /\ StaysInside
    /\ \A t \in Threads : ReadsInside(t)
    /\ QuietRound
    /\ wccMain = "off" => ~change
    /\ wccMain # "hook" => \A t \in Threads : ~InHand(t)
    /\ wccMain = "jump" => FlatBelow(jumpAt)
    /\ wccMain = "done" => \A e \in edges : OneName(e)

-----------------------------------------------------------------------------
HookerType == [pc : {"next", "dest", "root", "hook"},
               left : SUBSET (Vertices \X Vertices),
               e : Vertices \X Vertices, cu : Vertices, cv : Vertices]

LEMMA VertexFacts == NumVertices \in Nat /\ NumVertices > 0 /\ Vertices \subseteq Nat
  BY WorkloadAssumption DEF Vertices

LEMMA EdgeFacts ==
    ASSUME WccTypeOK, NEW e \in edges
    PROVE  e \in Vertices \X Vertices /\ e[1] \in Vertices /\ e[2] \in Vertices
  BY WorkloadAssumption DEF WccTypeOK, WorkloadInit, Vertices

LEMMA HookerFacts ==
    ASSUME WccTypeOK, NEW t \in Threads
    PROVE  /\ hooker[t] \in HookerType
           /\ comp \in [Vertices -> Vertices]
           /\ hooker[t].e[1] \in Vertices /\ hooker[t].e[2] \in Vertices
           /\ hooker[t].cu \in Vertices /\ hooker[t].cv \in Vertices
  BY DEF WccTypeOK, HookerType

\* What is not in a closed set is a closed set.
LEMMA ComplementClosed ==
    ASSUME WccTypeOK, NEW S \in SUBSET Vertices, Closed(S)
    PROVE  Closed(Vertices \ S)
  BY EdgeFacts DEF Closed

\* The two components a thread has read are on one side of every closed set.
LEMMA SameSide ==
    ASSUME WccTypeOK, NEW t \in Threads, ReadsInside(t), BothRead(t),
           NEW S \in SUBSET Vertices, Closed(S)
    PROVE  hooker[t].cu \in S <=> hooker[t].cv \in S
<1> DEFINE h == hooker[t]
<1>1. InHand(t) /\ h.e \in edges
    BY DEF ReadsInside, InHand, BothRead
<1>2. h.e[1] \in S <=> h.e[2] \in S
    BY <1>1 DEF Closed
<1>3. h.cu \in Vertices /\ h.cv \in Vertices /\ h.e[1] \in Vertices /\ h.e[2] \in Vertices
    BY HookerFacts
<1>4. /\ h.e[1] \in S => h.cu \in S
      /\ h.e[2] \in S => h.cv \in S
    BY <1>1 DEF ReadsInside
<1>5. /\ h.e[1] \in Vertices \ S => h.cu \in Vertices \ S
      /\ h.e[2] \in Vertices \ S => h.cv \in Vertices \ S
  <2>1. Closed(Vertices \ S) /\ Vertices \ S \in SUBSET Vertices
      BY ComplementClosed
  <2> HIDE DEF h
  <2> QED BY <2>1, <1>1 DEF ReadsInside, h
<1> QED BY <1>2, <1>3, <1>4, <1>5

LEMMA HighLow ==
    ASSUME WccTypeOK, NEW t \in Threads
    PROVE  /\ High(t) \in Vertices /\ Low(t) \in Vertices /\ Low(t) <= High(t)
           /\ \/ High(t) = hooker[t].cu /\ Low(t) = hooker[t].cv
              \/ High(t) = hooker[t].cv /\ Low(t) = hooker[t].cu
<1>1. hooker[t].cu \in Vertices /\ hooker[t].cv \in Vertices
    BY HookerFacts
<1>2. hooker[t].cu \in Nat /\ hooker[t].cv \in Nat
    BY <1>1, VertexFacts
<1> QED BY <1>1, <1>2 DEF High, Low

-----------------------------------------------------------------------------
LEMMA InitInv == WccInit => WccInv
<1> SUFFICES ASSUME WccInit PROVE WccInv
    OBVIOUS
<1> USE DEF WccInit
<1>1. WccTypeOK
  <2>1. 0 \in Vertices /\ 0 \in 0..NumVertices
      BY VertexFacts DEF Vertices
  <2>2. AtRest \in HookerType
      BY <2>1 DEF AtRest, HookerType
  <2>3. hooker \in [Threads -> HookerType] /\ comp \in [Vertices -> Vertices]
      BY <2>2
  <2> QED BY <2>1, <2>3 DEF WccTypeOK, HookerType
<1>2. PathsDescend /\ StaysInside /\ FlatBelow(NumVertices)
    BY VertexFacts DEF PathsDescend, StaysInside, FlatBelow
<1>3. \A t \in Threads : ReadsInside(t) /\ ~InHand(t)
    BY DEF ReadsInside, InHand, BothRead, AtRest
<1>4. QuietRound
    BY <1>2 DEF QuietRound
<1> QED BY <1>1, <1>2, <1>3, <1>4 DEF WccInv

\* Starting the threads of a round over a flat comp[].
LEMMA SpawnInv ==
    ASSUME WccInv, SpawnHookers, FlatBelow(NumVertices), UNCHANGED <<workload, comp, jumpAt>>
    PROVE  WccInv'
<1> USE DEF SpawnHookers, workload
<1>1. WccTypeOK' /\ PathsDescend' /\ StaysInside'
  <2>1. \A t \in Threads : hooker'[t] \in HookerType
      BY VertexFacts, EdgeFacts DEF AtRest, HookerType, WccInv, Vertices
  <2>2. hooker' \in [Threads -> HookerType]
      BY <2>1
  <2> QED BY <2>2 DEF WccInv, WccTypeOK, WorkloadInit, PathsDescend, StaysInside, Closed, HookerType
<1>2. \A t \in Threads : ReadsInside(t)' /\ ~InHand(t)' /\ QuietThread(t)'
    BY DEF ReadsInside, InHand, BothRead, QuietThread, AtRest
<1>3. FlatBelow(NumVertices)'
    BY DEF FlatBelow
<1> QED BY <1>1, <1>2, <1>3 DEF WccInv, QuietRound

-----------------------------------------------------------------------------
\* What the steps of one hooker have in common: its locals keep their type and
\* nobody else's change.
LEMMA ReadSourceInv ==
    ASSUME WccInv, NEW t \in Threads, ReadSource(t)
    PROVE  WccInv'
<1> USE DEF ReadSource, workload
<1>0. WccTypeOK /\ ReadsInside(t) /\ ~InHand(t) /\ ~BothRead(t) /\ hooker[t] \in HookerType
    BY HookerFacts DEF WccInv, InHand, BothRead
<1>1. PICK e \in hooker[t].left :
        hooker' = [hooker EXCEPT ![t] =
            [hooker[t] EXCEPT !.pc = "dest", !.left = hooker[t].left \ {e}, !.e = e, !.cu = comp[e[1]]]]
    OBVIOUS
<1>2. e \in edges /\ e \in Vertices \X Vertices /\ e[1] \in Vertices /\ comp[e[1]] \in Vertices
    BY <1>0, EdgeFacts, HookerFacts DEF ReadsInside
<1>3. /\ hooker'[t] = [hooker[t] EXCEPT !.pc = "dest", !.left = hooker[t].left \ {e}, !.e = e,
                                        !.cu = comp[e[1]]]
      /\ \A x \in Threads \ {t} : hooker'[x] = hooker[x]
      /\ hooker' \in [Threads -> HookerType]
  <2>1. [hooker[t] EXCEPT !.pc = "dest", !.left = hooker[t].left \ {e}, !.e = e, !.cu = comp[e[1]]]
           \in HookerType
      BY <1>0, <1>2 DEF HookerType
  <2>2. hooker \in [Threads -> HookerType]
      BY <1>0 DEF WccTypeOK, HookerType
  <2> QED BY <1>1, <2>1, <2>2
<1>4. /\ hooker'[t].pc = "dest" /\ hooker'[t].left = hooker[t].left \ {e}
      /\ hooker'[t].e = e /\ hooker'[t].cu = comp[e[1]]
    BY <1>0, <1>3 DEF HookerType
<1>5. WccTypeOK' /\ PathsDescend' /\ StaysInside'
    BY <1>0, <1>3 DEF WccInv, WccTypeOK, WorkloadInit, PathsDescend, StaysInside, Closed, HookerType
<1>6. ReadsInside(t)'
  <2>1. hooker'[t].left \subseteq edges
      BY <1>0, <1>4 DEF ReadsInside
  <2>2. \A S \in SUBSET Vertices : Closed(S) /\ e[1] \in S => comp[e[1]] \in S
      BY <1>2 DEF WccInv, StaysInside
  <2> QED BY <2>1, <2>2, <1>2, <1>4 DEF ReadsInside, InHand, BothRead, Closed
<1>7. \A x \in Threads \ {t} : ReadsInside(x)'
    BY <1>3 DEF WccInv, ReadsInside, InHand, BothRead, Closed
<1>8. QuietRound'
  <2>1. ASSUME ~change, NEW x \in Threads PROVE QuietThread(x)'
    <3>1. QuietThread(x)
        BY <2>1 DEF WccInv, QuietRound
    <3>2. CASE x = t
        BY <3>1, <3>2, <1>0, <1>2, <1>4 DEF QuietThread, InHand, BothRead, OneName
    <3>3. CASE x # t
        BY <3>1, <3>3, <1>3 DEF QuietThread, InHand, BothRead, OneName
    <3> QED BY <3>2, <3>3
  <2> QED BY <2>1 DEF WccInv, QuietRound, FlatBelow
<1> QED BY <1>5, <1>6, <1>7, <1>8 DEF WccInv

LEMMA ReadDestInv ==
    ASSUME WccInv, NEW t \in Threads, ReadDest(t)
    PROVE  WccInv'
<1> USE DEF ReadDest, workload
<1>0. WccTypeOK /\ ReadsInside(t) /\ InHand(t) /\ hooker[t] \in HookerType
    BY HookerFacts DEF WccInv, InHand
<1> DEFINE e  == hooker[t].e
           cv == comp[e[2]]
<1>1. e \in edges /\ e[2] \in Vertices /\ cv \in Vertices
    BY <1>0, HookerFacts DEF ReadsInside
<1>2. /\ hooker'[t] = [hooker[t] EXCEPT !.pc = IF cv = hooker[t].cu THEN "next" ELSE "root",
                                        !.cv = cv]
      /\ \A x \in Threads \ {t} : hooker'[x] = hooker[x]
      /\ hooker' \in [Threads -> HookerType]
  <2>1. [hooker[t] EXCEPT !.pc = IF cv = hooker[t].cu THEN "next" ELSE "root", !.cv = cv]
           \in HookerType
      BY <1>0, <1>1 DEF HookerType
  <2>2. hooker \in [Threads -> HookerType]
      BY <1>0 DEF WccTypeOK, HookerType
  <2> QED BY <2>1, <2>2
<1>3. /\ hooker'[t].pc = IF cv = hooker[t].cu THEN "next" ELSE "root"
      /\ hooker'[t].left = hooker[t].left /\ hooker'[t].e = e
      /\ hooker'[t].cu = hooker[t].cu /\ hooker'[t].cv = cv
    BY <1>0, <1>2 DEF HookerType
<1>4. wccMain = "hook"
    BY <1>0 DEF WccInv
<1> HIDE DEF e, cv
<1>5. WccTypeOK' /\ PathsDescend' /\ StaysInside'
    BY <1>0, <1>2 DEF WccInv, WccTypeOK, WorkloadInit, PathsDescend, StaysInside, Closed, HookerType
<1>6. ReadsInside(t)'
  <2>1. \A S \in SUBSET Vertices : Closed(S) /\ e[2] \in S => cv \in S
      BY <1>1 DEF WccInv, StaysInside, cv
  <2> QED BY <2>1, <1>0, <1>3 DEF ReadsInside, InHand, BothRead, Closed, e
<1>7. \A x \in Threads \ {t} : ReadsInside(x)'
    BY <1>2 DEF WccInv, ReadsInside, InHand, BothRead, Closed
<1>8. QuietRound'
  <2>1. ASSUME ~change, NEW x \in Threads PROVE QuietThread(x)'
    <3>1. QuietThread(x)
        BY <2>1, <1>4 DEF WccInv, QuietRound
    <3>2. CASE x = t
      <4>1. hooker[t].cu = comp[e[1]]
          BY <3>1, <3>2, <1>0 DEF QuietThread, e
      <4>2. cv = hooker[t].cu => OneName(e)
          BY <4>1 DEF OneName, cv
      <4> QED BY <3>1, <3>2, <4>1, <4>2, <1>0, <1>3 DEF QuietThread, InHand, BothRead, OneName, e, cv
    <3>3. CASE x # t
        BY <3>1, <3>3, <1>2 DEF QuietThread, InHand, BothRead, OneName
    <3> QED BY <3>2, <3>3
  <2> QED BY <2>1, <1>4 DEF WccInv, QuietRound, FlatBelow
<1> QED BY <1>4, <1>5, <1>6, <1>7, <1>8 DEF WccInv

LEMMA CheckRootInv ==
    ASSUME WccInv, NEW t \in Threads, CheckRoot(t)
    PROVE  WccInv'
<1> USE DEF CheckRoot, workload
<1>0. /\ WccTypeOK /\ ReadsInside(t) /\ InHand(t) /\ BothRead(t)
      /\ hooker[t] \in HookerType
    BY HookerFacts DEF WccInv, InHand, BothRead
<1> DEFINE pc == IF comp[High(t)] = High(t) THEN "hook" ELSE "next"
<1>2. /\ hooker'[t] = [hooker[t] EXCEPT !.pc = pc]
      /\ \A x \in Threads \ {t} : hooker'[x] = hooker[x]
      /\ hooker' \in [Threads -> HookerType]
  <2>1. [hooker[t] EXCEPT !.pc = pc] \in HookerType
      BY <1>0 DEF HookerType
  <2>2. hooker \in [Threads -> HookerType]
      BY <1>0 DEF WccTypeOK, HookerType
  <2> QED BY <2>1, <2>2
<1>3. /\ hooker'[t].pc = pc
      /\ hooker'[t].left = hooker[t].left /\ hooker'[t].e = hooker[t].e
      /\ hooker'[t].cu = hooker[t].cu /\ hooker'[t].cv = hooker[t].cv
    BY <1>0, <1>2 DEF HookerType
<1>4. wccMain = "hook"
    BY <1>0 DEF WccInv
<1>5. WccTypeOK' /\ PathsDescend' /\ StaysInside'
    BY <1>0, <1>2 DEF WccInv, WccTypeOK, WorkloadInit, PathsDescend, StaysInside, Closed, HookerType
<1>6. ReadsInside(t)'
    BY <1>0, <1>3 DEF ReadsInside, InHand, BothRead, Closed
<1>7. \A x \in Threads \ {t} : ReadsInside(x)'
    BY <1>2 DEF WccInv, ReadsInside, InHand, BothRead, Closed
<1>8. QuietRound'
  <2>1. ASSUME ~change, NEW x \in Threads PROVE QuietThread(x)'
    <3>1. QuietThread(x) /\ FlatBelow(NumVertices)
        BY <2>1, <1>4 DEF WccInv, QuietRound
    <3>2. CASE x = t
      <4>1. hooker[t].cu = comp[hooker[t].e[1]] /\ hooker[t].cv = comp[hooker[t].e[2]]
          BY <3>1, <3>2, <1>0 DEF QuietThread
      <4>2. comp[hooker[t].cu] = hooker[t].cu /\ comp[hooker[t].cv] = hooker[t].cv
        <5>1. hooker[t].e[1] \in Vertices /\ hooker[t].e[2] \in Vertices
            BY <1>0, HookerFacts
        <5>2. \A v \in Vertices : v < NumVertices
            BY VertexFacts DEF Vertices
        <5> QED BY <5>1, <5>2, <4>1, <3>1 DEF FlatBelow
      <4>3. pc = "hook"
          BY <4>2, <1>0, HighLow
      <4> QED BY <3>1, <3>2, <4>1, <4>3, <1>0, <1>3 DEF QuietThread, InHand, BothRead, OneName
    <3>3. CASE x # t
        BY <3>1, <3>3, <1>2 DEF QuietThread, InHand, BothRead, OneName
    <3> QED BY <3>2, <3>3
  <2> QED BY <2>1, <1>4 DEF WccInv, QuietRound, FlatBelow
<1> QED BY <1>4, <1>5, <1>6, <1>7, <1>8 DEF WccInv

LEMMA HookInv ==
    ASSUME WccInv, NEW t \in Threads, Hook(t)
    PROVE  WccInv'
<1> USE DEF Hook, workload
<1>0. /\ WccTypeOK /\ ReadsInside(t) /\ InHand(t) /\ BothRead(t)
      /\ hooker[t] \in HookerType /\ comp \in [Vertices -> Vertices]
    BY HookerFacts DEF WccInv, InHand, BothRead
<1>1. High(t) \in Vertices /\ Low(t) \in Vertices /\ Low(t) <= High(t)
    BY <1>0, HighLow
<1>2. /\ hooker'[t] = [hooker[t] EXCEPT !.pc = "next"]
      /\ \A x \in Threads \ {t} : hooker'[x] = hooker[x]
      /\ hooker' \in [Threads -> HookerType]
  <2>1. [hooker[t] EXCEPT !.pc = "next"] \in HookerType
      BY <1>0 DEF HookerType
  <2>2. hooker \in [Threads -> HookerType]
      BY <1>0 DEF WccTypeOK, HookerType
  <2> QED BY <2>1, <2>2
<1>3. hooker'[t].pc = "next" /\ hooker'[t].left = hooker[t].left
    BY <1>0, <1>2 DEF HookerType
<1>4. wccMain = "hook" /\ change'
    BY <1>0 DEF WccInv
<1>5. comp' \in [Vertices -> Vertices]
    BY <1>0, <1>1
<1>6. \A v \in Vertices : comp'[v] = IF v = High(t) THEN Low(t) ELSE comp[v]
    BY <1>0
<1>7. WccTypeOK'
    BY <1>0, <1>2, <1>5 DEF WccTypeOK, WorkloadInit, HookerType
<1>8. PathsDescend'
    BY <1>1, <1>6 DEF WccInv, PathsDescend
<1>9. StaysInside'
  <2>1. SUFFICES ASSUME NEW S \in SUBSET Vertices, Closed(S), NEW v \in S
                 PROVE  comp'[v] \in S
      BY DEF StaysInside, Closed
  <2>2. High(t) \in S <=> Low(t) \in S
      BY <2>1, <1>0, SameSide, HighLow
  <2>3. comp[v] \in S
      BY <2>1 DEF WccInv, StaysInside
  <2> QED BY <2>2, <2>3, <1>6
<1>10. \A x \in Threads : ReadsInside(x)'
  <2>1. ReadsInside(t)'
      BY <1>0, <1>3 DEF ReadsInside, InHand, BothRead
  <2>2. \A x \in Threads \ {t} : ReadsInside(x)'
      BY <1>2 DEF WccInv, ReadsInside, InHand, BothRead, Closed
  <2> QED BY <2>1, <2>2
<1> QED BY <1>4, <1>7, <1>8, <1>9, <1>10 DEF WccInv, QuietRound

-----------------------------------------------------------------------------
\* Every edge begins in the chunk of some thread.
LEMMA EdgesShared ==
    ASSUME WccTypeOK, NEW e \in edges
    PROVE  \E t \in Threads : e[1] \in Chunk(t, NumVertices)
<1>1. NumVertices \in Nat /\ e[1] \in 0..NumVertices - 1
    BY EdgeFacts, VertexFacts DEF Vertices
<1> QED BY <1>1, ChunksPartition

LEMMA JoinInv ==
    ASSUME WccInv, JoinHookers
    PROVE  WccInv'
<1> USE DEF JoinHookers, workload
<1>1. WccTypeOK' /\ PathsDescend' /\ StaysInside'
    BY VertexFacts DEF WccInv, WccTypeOK, WorkloadInit, PathsDescend, StaysInside, Closed
<1>2. \A t \in Threads : ReadsInside(t)' /\ ~InHand(t)'
    BY DEF WccInv, ReadsInside, InHand, BothRead, Closed
<1>3. FlatBelow(jumpAt)'
    BY VertexFacts DEF FlatBelow
<1>4. QuietRound'
  <2>1. ASSUME ~change, NEW e \in edges PROVE OneName(e)
    <3>1. PICK t \in Threads : e[1] \in Chunk(t, NumVertices)
        BY EdgesShared DEF WccInv
    <3>2. QuietThread(t) /\ hooker[t].left = {} /\ ~InHand(t)
        BY <2>1 DEF WccInv, QuietRound, InHand
    <3> QED BY <3>1, <3>2 DEF QuietThread
  <2> QED BY <2>1 DEF WccInv, QuietRound, FlatBelow, OneName
<1> QED BY <1>1, <1>2, <1>3, <1>4 DEF WccInv

LEMMA JumpInv ==
    ASSUME WccInv, Jump
    PROVE  WccInv'
<1> USE DEF Jump, workload
<1>0. WccTypeOK /\ comp \in [Vertices -> Vertices] /\ jumpAt \in Vertices
    BY VertexFacts DEF WccInv, WccTypeOK, Vertices
<1> DEFINE c == comp[jumpAt]
<1>1. c \in Vertices /\ comp[c] \in Vertices
    BY <1>0
<1>2. \A v \in Vertices : comp'[v] = IF v = jumpAt THEN comp[c] ELSE comp[v]
    BY <1>0
<1>3. WccTypeOK'
    BY <1>0, <1>1 DEF WccTypeOK, WorkloadInit
<1>4. PathsDescend'
  <2>1. c <= jumpAt /\ comp[c] <= c
      BY <1>0, <1>1 DEF WccInv, PathsDescend
  <2>2. c \in Nat /\ comp[c] \in Nat /\ jumpAt \in Nat
      BY <1>0, <1>1, VertexFacts
  <2> HIDE DEF c
  <2> QED BY <2>1, <2>2, <1>2 DEF WccInv, PathsDescend
<1>5. StaysInside'
    BY <1>2 DEF WccInv, StaysInside, Closed
<1>6. \A t \in Threads : ReadsInside(t)' /\ ~InHand(t)'
    BY DEF WccInv, ReadsInside, InHand, BothRead, Closed
<1>7. FlatBelow(jumpAt)'
  <2>1. SUFFICES ASSUME NEW v \in Vertices, v < jumpAt PROVE comp'[comp'[v]] = comp'[v]
      BY DEF FlatBelow
  <2>2. v # jumpAt /\ comp'[v] = comp[v] /\ comp[comp[v]] = comp[v] /\ comp[v] \in Vertices
    <3>1. v \in Nat /\ jumpAt \in Nat
        BY <1>0, VertexFacts
    <3> QED BY <2>1, <3>1, <1>0, <1>2 DEF WccInv, FlatBelow
  <2>3. comp[v] # jumpAt
      BY <2>2
  <2> QED BY <2>2, <2>3, <1>2
<1>8. QuietRound'
  <2>1. change
    <3>1. SUFFICES ASSUME ~change PROVE FALSE
        BY DEF WccInv, WccTypeOK
    <3>2. FlatBelow(NumVertices)
        BY <3>1 DEF WccInv, QuietRound
    <3> QED BY <3>2, <1>0 DEF FlatBelow
  <2> QED BY <2>1 DEF QuietRound
<1> QED BY <1>3, <1>4, <1>5, <1>6, <1>7, <1>8 DEF WccInv

LEMMA JumpNextInv ==
    ASSUME WccInv, JumpNext
    PROVE  WccInv'
<1> USE DEF JumpNext, workload
<1>1. jumpAt \in Nat /\ jumpAt' \in 0..NumVertices
    BY VertexFacts DEF WccInv, WccTypeOK
<1>2. WccTypeOK' /\ PathsDescend' /\ StaysInside'
    BY <1>1 DEF WccInv, WccTypeOK, WorkloadInit, PathsDescend, StaysInside, Closed
<1>3. \A t \in Threads : ReadsInside(t)' /\ ~InHand(t)'
    BY DEF WccInv, ReadsInside, InHand, BothRead, Closed
<1>4. FlatBelow(jumpAt)'
  <2>1. \A v \in Vertices : v < jumpAt + 1 => v < jumpAt \/ v = jumpAt
      BY <1>1, VertexFacts
  <2> QED BY <2>1 DEF WccInv, FlatBelow
<1>5. QuietRound'
    BY DEF WccInv, QuietRound, FlatBelow, OneName
<1> QED BY <1>2, <1>3, <1>4, <1>5 DEF WccInv

LEMMA NextRoundInv ==
    ASSUME WccInv, NextRound
    PROVE  WccInv'
<1> USE DEF NextRound
<1>1. FlatBelow(NumVertices)
    BY DEF WccInv
<1>2. CASE change
    BY <1>1, <1>2, SpawnInv DEF workload
<1>3. CASE ~change
  <2>1. \A e \in edges : OneName(e)
      BY <1>3 DEF WccInv, QuietRound
  <2>2. wccMain' = "done" /\ UNCHANGED <<edges, openMP, comp, change, jumpAt, hooker>>
      BY <1>3 DEF workload
  <2>3. WccTypeOK' /\ PathsDescend' /\ StaysInside'
      BY <2>2 DEF WccInv, WccTypeOK, WorkloadInit, PathsDescend, StaysInside, Closed
  <2>4. \A t \in Threads : ReadsInside(t)' /\ ~InHand(t)'
      BY <2>2 DEF WccInv, ReadsInside, InHand, BothRead, Closed
  <2> QED BY <2>1, <2>2, <2>3, <2>4 DEF WccInv, QuietRound, OneName
<1> QED BY <1>2, <1>3

LEMMA StartInv ==
    ASSUME WccInv, WccStart
    PROVE  WccInv'
  BY SpawnInv DEF WccStart, WccInv, QuietRound, workload

LEMMA StutterInv ==
    ASSUME WccInv, UNCHANGED wccVars
    PROVE  WccInv'
<1> USE DEF wccVars, workload
<1>1. WccTypeOK' /\ PathsDescend' /\ StaysInside'
    BY DEF WccInv, WccTypeOK, WorkloadInit, PathsDescend, StaysInside, Closed
<1>2. \A t \in Threads : /\ ReadsInside(t)'
                         /\ InHand(t)' <=> InHand(t)
                         /\ QuietThread(t) => QuietThread(t)'
    BY DEF WccInv, ReadsInside, InHand, BothRead, Closed, QuietThread, OneName
<1>3. QuietRound'
    BY <1>2 DEF WccInv, QuietRound, FlatBelow, OneName
<1> QED BY <1>1, <1>2, <1>3 DEF WccInv, FlatBelow, OneName

LEMMA NextInv == WccInv /\ [WccNext]_wccVars => WccInv'
<1> SUFFICES ASSUME WccInv, [WccNext]_wccVars PROVE WccInv'
    OBVIOUS
<1>1. CASE WccStart
    BY <1>1, StartInv
<1>2. CASE WccStep
    BY <1>2, JoinInv, JumpInv, JumpNextInv, NextRoundInv DEF WccStep
<1>3. CASE \E t \in Threads : HookerStep(t)
    BY <1>3, ReadSourceInv, ReadDestInv, CheckRootInv, HookInv DEF HookerStep
<1>4. CASE UNCHANGED wccVars
    BY <1>4, StutterInv
<1> QED BY <1>1, <1>2, <1>3, <1>4 DEF WccNext

LEMMA WccInvariant == WccSpec => []WccInv
  BY InitInv, NextInv, PTL DEF WccSpec

-----------------------------------------------------------------------------
\* The shared state and the locals of wcc() keep their types.
THEOREM WccTypeCorrect == WccSpec => []WccTypeOK
<1>1. WccInv => WccTypeOK
    BY DEF WccInv
<1> QED BY <1>1, WccInvariant, PTL

\* Hooks that race never turn a path of comp[] back (WCC.h:79-93): the loop of
\* WCC.h:100-104 ends.
THEOREM PathsAlwaysDescend == WccSpec => []PathsDescend
<1>1. WccInv => PathsDescend
    BY DEF WccInv
<1> QED BY <1>1, WccInvariant, PTL

\* Whatever the graph, the number of threads and the interleaving, wcc() returns
\* the weakly connected components, each named by its smallest vertex.
THEOREM ComponentsAreFound == WccSpec => []ComponentsFound
<1>1. WccInv => ComponentsFound
    BY DEF WccInv, ComponentsFound, PathsDescend, StaysInside, OneName
<1> QED BY <1>1, WccInvariant, PTL

-----------------------------------------------------------------------------
(* Shortest paths: one iteration is one level *)

RelaxerType == [pc : {"take", "edge", "new", "cas", "store", "again", "push"},
                at : Nat, u : Vertices, v : Vertices, nbrs : SUBSET Vertices,
                old : 0..Infinity, new : Nat]
SsspTypes ==
    /\ WorkloadInit
    /\ start \in Vertices /\ dist \in [Vertices -> 0..Infinity]
    /\ frontier \in Seq(Vertices) /\ bins \in Seq(Seq(Vertices))
    /\ relaxer \in [Threads -> RelaxerType]

\* What dist[] says is on a path: only the start is at 0, and a vertex at another
\* distance hangs on one that is nearer by 1.
Rooted == \A v \in Vertices : dist[v] = 0 <=> v = start
Hangs ==
    \A v \in Vertices : 0 < dist[v] /\ dist[v] < Infinity =>
        \E u \in Vertices : <<u, v>> \in edges /\ dist[u] + 1 = dist[v]

\* The edges out of the vertices nearer than k are done.
Settled(k) ==
    \A u, v \in Vertices : <<u, v>> \in edges /\ dist[u] < k => dist[v] <= dist[u] + 1

\* All of level k is in the frontier, and nothing else is.
OneLevel(k) ==
    /\ bin = k \div Delta
    /\ \A v \in Vertices : dist[v] <= k + 1 \/ dist[v] = Infinity
    /\ \A v \in Vertices : dist[v] = k <=> \E i \in 1..Len(frontier) : frontier[i] = v

\* The next level goes into one bin, which has each of its vertices unless a
\* thread still has to push it.
Slot(k) == (k + 1) \div Delta + 1
Pushes(v) == \E t \in Threads : relaxer[t].pc = "push" /\ relaxer[t].v = v
InBin(k, v) ==
    Slot(k) \in 1..Len(bins) /\ \E i \in 1..Len(bins[Slot(k)]) : bins[Slot(k)][i] = v
OneBin(k) ==
    /\ \A b \in 1..Len(bins) : \A i \in 1..Len(bins[b]) :
           b = Slot(k) /\ dist[bins[b][i]] = k + 1 /\ k + 1 < Infinity
    /\ \A v \in Vertices : dist[v] = k + 1 /\ k + 1 < Infinity => Pushes(v) \/ InBin(k, v)

\* A thread relaxes an edge out of level k.  Whoever stores to dist[v] meanwhile
\* stores the same number, so neither an overtaken load nor the store of the
\* serial fallback takes anything back.
Relaxes(k, t) ==
    /\ relaxer[t].pc = "take" => relaxer[t].nbrs = {}
    /\ relaxer[t].pc # "take" =>
          dist[relaxer[t].u] = k /\ \A v \in relaxer[t].nbrs : <<relaxer[t].u, v>> \in edges
    /\ relaxer[t].pc \notin {"take", "edge"} => <<relaxer[t].u, relaxer[t].v>> \in edges
    /\ relaxer[t].pc = "new" =>
          \/ relaxer[t].old = dist[relaxer[t].v]
          \/ relaxer[t].old = Infinity /\ dist[relaxer[t].v] = k + 1
    /\ relaxer[t].pc \in {"cas", "store", "again", "push"} =>
          relaxer[t].new = k + 1 /\ k + 1 < Infinity /\ dist[relaxer[t].v] >= k + 1
    /\ relaxer[t].pc = "push" => dist[relaxer[t].v] = k + 1

\* An edge out of a vertex a thread has taken is done, unless the thread has it
\* before itself.
Owes(t, v) ==
    v \in relaxer[t].nbrs \/ (relaxer[t].pc \in {"new", "cas", "store", "again"} /\ v = relaxer[t].v)
Taken(t, i) ==
    /\ i \in 1..Len(frontier) /\ i <= relaxer[t].at
    /\ i - 1 \in Chunk(t, Len(frontier))
Accounted(k, t) ==
    \A i \in 1..Len(frontier) : Taken(t, i) =>
        \A v \in Vertices : <<frontier[i], v>> \in edges =>
            dist[v] <= k + 1 \/ (relaxer[t].u = frontier[i] /\ Owes(t, v))

Level(k) ==
    /\ Rooted /\ Hangs /\ Settled(k) /\ OneLevel(k) /\ OneBin(k)
    /\ \A t \in Threads : Relaxes(k, t) /\ Accounted(k, t)

SsspInv ==
    /\ SsspTypes
    /\ ssspMain \in {"off", "relax", "done"}
    /\ ssspMain = "off" => dist = [v \in Vertices |-> Infinity] /\ bin = 0 /\ bins = <<>>
    /\ ssspMain = "relax" => \E k \in 0..Infinity - 1 : Level(k)
    /\ ssspMain = "done" => Rooted /\ Hangs /\ Settled(Infinity)
    /\ ssspMain # "relax" => \A t \in Threads : relaxer[t].pc = "take"

LEMMA SsspFacts ==
    /\ Infinity \in Nat /\ Infinity > 0
    /\ Vertices = 0..Infinity - 1 /\ Vertices \subseteq Nat
    /\ Delta \in Nat /\ Delta > 0
  BY WorkloadAssumption, SsspAssumption DEF Infinity, Vertices

LEMMA NeighborsAre ==
    ASSUME WorkloadInit, NEW u
    PROVE  Neighbors(u) = {v \in Vertices : <<u, v>> \in edges}
<1>1. edges \subseteq Vertices \X Vertices
    BY WorkloadAssumption DEF WorkloadInit, Vertices
<1>2. ASSUME NEW v \in Neighbors(u) PROVE v \in Vertices /\ <<u, v>> \in edges
    BY <1>1, <1>2 DEF Neighbors
<1>3. ASSUME NEW v \in Vertices, <<u, v>> \in edges PROVE v \in Neighbors(u)
    BY <1>3 DEF Neighbors
<1> QED BY <1>2, <1>3

LEMMA ChunkEndFacts ==
    ASSUME NEW n \in Nat, NEW t \in Threads
    PROVE  /\ ChunkBegin(t, n) \in Nat /\ ChunkEnd(t, n) \in Nat /\ ChunkEnd(t, n) <= n
           /\ \A i \in Chunk(t, n) : i \in Nat /\ ChunkBegin(t, n) <= i /\ i < ChunkEnd(t, n)
<1>1. ChunkSize(n) \in Nat /\ t \in Nat
    BY ChunkSizeFacts DEF Threads
<1>2. ChunkBegin(t, n) \in Nat
    BY <1>1 DEF ChunkBegin
<1>3. ChunkEnd(t, n) \in Nat /\ ChunkEnd(t, n) <= n
    BY <1>1, <1>2 DEF ChunkEnd
<1> QED BY <1>2, <1>3 DEF Chunk

\* The types of the shared state and of what a thread has in hand.
LEMMA RelaxerFacts ==
    ASSUME SsspTypes, NEW t \in Threads
    PROVE  /\ relaxer[t] \in RelaxerType
           /\ relaxer[t].at \in Nat /\ relaxer[t].u \in Vertices /\ relaxer[t].v \in Vertices
           /\ relaxer[t].nbrs \subseteq Vertices /\ relaxer[t].old \in 0..Infinity
           /\ relaxer[t].new \in Nat
           /\ relaxer[t].pc \in {"take", "edge", "new", "cas", "store", "again", "push"}
  BY DEF SsspTypes, RelaxerType

LEMMA DistFacts ==
    ASSUME SsspTypes
    PROVE  /\ dist \in [Vertices -> 0..Infinity] /\ start \in Vertices
           /\ \A v \in Vertices : dist[v] \in Nat /\ dist[v] <= Infinity
           /\ \A i \in 1..Len(frontier) : frontier[i] \in Vertices
           /\ Len(frontier) \in Nat
<1>1. Len(frontier) \in Nat /\ \A i \in 1..Len(frontier) : frontier[i] \in Vertices
    BY LenProperties, ElementOfSeq DEF SsspTypes
<1> QED BY <1>1, SsspFacts DEF SsspTypes

-----------------------------------------------------------------------------
(* Steps of a thread *)

Still == UNCHANGED <<workload, start, frontier, bin, bins>>

\* A step that touches the locals of one thread only.
LEMMA LocalStep ==
    ASSUME NEW k \in 0..Infinity - 1, NEW t \in Threads, SsspTypes, Level(k),
           Still, dist' = dist, relaxer[t].pc # "push",
           \A s \in Threads : s # t => relaxer'[s] = relaxer[s],
           Relaxes(k, t)', Accounted(k, t)'
    PROVE  Level(k)'
<1>1. edges' = edges /\ start' = start /\ frontier' = frontier /\ bin' = bin /\ bins' = bins
    BY DEF Still, workload
<1>2. Rooted' /\ Hangs' /\ Settled(k)' /\ OneLevel(k)'
    BY <1>1 DEF Level, Rooted, Hangs, Settled, OneLevel
<1>3. OneBin(k)'
  <2>1. \A v \in Vertices : Pushes(v) => Pushes(v)'
      BY DEF Pushes
  <2>2. \A v \in Vertices : InBin(k, v) => InBin(k, v)'
      BY <1>1 DEF InBin
  <2>3. OneBin(k)
      BY DEF Level
  <2> QED BY <1>1, <2>1, <2>2, <2>3 DEF OneBin
<1>4. ASSUME NEW s \in Threads PROVE Relaxes(k, s)' /\ Accounted(k, s)'
  <2>1. CASE s = t
      BY <2>1
  <2>2. CASE s # t
    <3>1. relaxer'[s] = relaxer[s] /\ Relaxes(k, s) /\ Accounted(k, s)
        BY <2>2 DEF Level
    <3>2. Relaxes(k, s)'
        BY <1>1, <3>1 DEF Relaxes
    <3>3. Accounted(k, s)'
        BY <1>1, <3>1 DEF Accounted, Taken, Owes
    <3> QED BY <3>2, <3>3
  <2> QED BY <2>1, <2>2
<1> QED BY <1>2, <1>3, <1>4 DEF Level

\* A thread that does not move keeps what it relies on, if dist[] does.
LEMMA RelaxesOn ==
    ASSUME NEW k, NEW t, Relaxes(k, t), edges' = edges, relaxer'[t] = relaxer[t],
           /\ relaxer[t].pc # "take" => dist'[relaxer[t].u] = k
           /\ relaxer[t].pc = "new" =>
                 \/ relaxer[t].old = dist'[relaxer[t].v]
                 \/ relaxer[t].old = Infinity /\ dist'[relaxer[t].v] = k + 1
           /\ relaxer[t].pc \in {"cas", "store", "again", "push"} => dist'[relaxer[t].v] >= k + 1
           /\ relaxer[t].pc = "push" => dist'[relaxer[t].v] = k + 1
    PROVE  Relaxes(k, t)'
BY DEF Relaxes

LEMMA RelaxesStay ==
    ASSUME NEW k, NEW t, Relaxes(k, t), edges' = edges, dist' = dist, relaxer'[t] = relaxer[t]
    PROVE  Relaxes(k, t)'
BY DEF Relaxes

\* A thread lowers dist[v], atomically or not.
LEMMA WriteStep ==
    ASSUME NEW k \in 0..Infinity - 1, NEW t \in Threads, SsspTypes, Level(k),
           Still, relaxer[t].pc \in {"cas", "store"},
           dist' = [dist EXCEPT ![relaxer[t].v] = relaxer[t].new],
           relaxer' = [relaxer EXCEPT ![t].pc = "push"]
    PROVE  Level(k)' /\ SsspTypes'
<1> DEFINE w == relaxer[t].v
           u == relaxer[t].u
<1>1. edges' = edges /\ start' = start /\ frontier' = frontier /\ bin' = bin /\ bins' = bins
    BY DEF Still, workload
<1>2. /\ w \in Vertices /\ u \in Vertices
      /\ dist[u] = k /\ <<u, w>> \in edges
      /\ relaxer[t].new = k + 1 /\ k + 1 < Infinity /\ dist[w] >= k + 1
    BY RelaxerFacts DEF Level, Relaxes
<1>3. relaxer'[t] = [relaxer[t] EXCEPT !.pc = "push"] /\ relaxer' \in [Threads -> RelaxerType]
    BY RelaxerFacts DEF SsspTypes, RelaxerType
<1>4. /\ relaxer'[t].pc = "push" /\ relaxer'[t].v = w /\ relaxer'[t].u = u
      /\ relaxer'[t].nbrs = relaxer[t].nbrs /\ relaxer'[t].at = relaxer[t].at
      /\ relaxer'[t].new = k + 1
      /\ \A s \in Threads : s # t => relaxer'[s] = relaxer[s]
    BY <1>2, <1>3, RelaxerFacts DEF SsspTypes, RelaxerType
<1>5. \A v \in Vertices : dist'[v] = IF v = w THEN k + 1 ELSE dist[v]
    BY <1>2, DistFacts
<1>6. dist' \in [Vertices -> 0..Infinity]
    BY <1>2, DistFacts, SsspFacts
<1>7. SsspTypes'
    BY <1>1, <1>3, <1>6 DEF SsspTypes, WorkloadInit, Still, workload
<1>8. k \in Nat /\ \A v \in Vertices : dist[v] \in Nat /\ (dist[v] <= k + 1 \/ dist[v] = Infinity)
    BY DistFacts DEF Level, OneLevel
<1>9. Infinity \in Nat
    BY SsspFacts
<1> HIDE DEF w, u
<1>10. Rooted'
    BY <1>1, <1>2, <1>5, <1>8 DEF Level, Rooted
<1>11. Hangs'
  <2> SUFFICES ASSUME NEW v \in Vertices, 0 < dist'[v], dist'[v] < Infinity
               PROVE  \E x \in Vertices : <<x, v>> \in edges /\ dist'[x] + 1 = dist'[v]
      BY <1>1 DEF Hangs
  <2>1. CASE v = w
    <3>1. u # w
        BY <1>2, <1>8
    <3> QED BY <1>2, <1>5, <2>1, <3>1
  <2>2. CASE v # w
    <3>1. dist'[v] = dist[v]
        BY <1>5, <2>2
    <3>2. PICK x \in Vertices : <<x, v>> \in edges /\ dist[x] + 1 = dist[v]
        BY <3>1 DEF Level, Hangs
    <3>3. x # w
        BY <1>2, <1>8, <1>9, <3>1, <3>2
    <3> QED BY <1>5, <3>1, <3>2, <3>3
  <2> QED BY <2>1, <2>2
<1>12. Settled(k)'
  <2> SUFFICES ASSUME NEW x \in Vertices, NEW v \in Vertices, <<x, v>> \in edges, dist'[x] < k
               PROVE  dist'[v] <= dist'[x] + 1
      BY <1>1 DEF Settled
  <2>1. x # w /\ dist'[x] = dist[x]
      BY <1>5, <1>8
  <2>2. dist[v] <= dist[x] + 1
      BY <2>1 DEF Level, Settled
  <2>3. v # w
      BY <1>2, <1>8, <2>1, <2>2
  <2> QED BY <1>5, <2>1, <2>2, <2>3
<1>13. OneLevel(k)'
  <2>1. \A v \in Vertices : dist'[v] = k <=> dist[v] = k
      BY <1>2, <1>5, <1>8
  <2>2. \A v \in Vertices : dist'[v] <= k + 1 \/ dist'[v] = Infinity
      BY <1>5, <1>8
  <2> QED BY <1>1, <2>1, <2>2 DEF Level, OneLevel
<1>14. OneBin(k)'
  <2>1. \A v \in Vertices : Pushes(v) => Pushes(v)'
      BY <1>4 DEF Pushes
  <2>2. \A v \in Vertices : v = w => Pushes(v)'
      BY <1>4 DEF Pushes
  <2>3. \A v \in Vertices : InBin(k, v) => InBin(k, v)'
      BY <1>1 DEF InBin
  <2>4. OneBin(k)
      BY DEF Level
  <2>5. \A v \in Vertices : dist'[v] = k + 1 /\ k + 1 < Infinity => Pushes(v)' \/ InBin(k, v)'
    <3> SUFFICES ASSUME NEW v \in Vertices, dist'[v] = k + 1, k + 1 < Infinity
                 PROVE  Pushes(v)' \/ InBin(k, v)'
        OBVIOUS
    <3>1. CASE v = w
        BY <2>2, <3>1
    <3>2. CASE v # w
      <4>1. dist[v] = k + 1
          BY <1>5, <3>2
      <4> QED BY <2>1, <2>3, <2>4, <4>1 DEF OneBin
    <3> QED BY <3>1, <3>2
  <2>6. \A b \in 1..Len(bins) : \A i \in 1..Len(bins[b]) :
           b = Slot(k) /\ dist'[bins[b][i]] = k + 1 /\ k + 1 < Infinity
    <3> SUFFICES ASSUME NEW b \in 1..Len(bins), NEW i \in 1..Len(bins[b])
                 PROVE  b = Slot(k) /\ dist'[bins[b][i]] = k + 1 /\ k + 1 < Infinity
        OBVIOUS
    <3>1. bins[b][i] \in Vertices
        BY LenProperties, ElementOfSeq DEF SsspTypes
    <3>2. b = Slot(k) /\ dist[bins[b][i]] = k + 1
        BY <2>4 DEF OneBin
    <3> QED BY <1>2, <1>5, <3>1, <3>2
  <2> QED BY <1>1, <2>5, <2>6 DEF OneBin
<1>15. ASSUME NEW s \in Threads PROVE Relaxes(k, s)' /\ Accounted(k, s)'
  <2>1. Relaxes(k, s) /\ Accounted(k, s)
      BY DEF Level
  <2>2. /\ relaxer'[s].u = relaxer[s].u /\ relaxer'[s].v = relaxer[s].v
        /\ relaxer'[s].nbrs = relaxer[s].nbrs /\ relaxer'[s].at = relaxer[s].at
        /\ relaxer[s].u \in Vertices /\ relaxer[s].v \in Vertices
        /\ relaxer'[s].pc = IF s = t THEN "push" ELSE relaxer[s].pc
        /\ relaxer'[s].old = relaxer[s].old /\ relaxer'[s].new = relaxer[s].new
      BY <1>3, <1>4, RelaxerFacts DEF w, u, RelaxerType
  <2>3. /\ \A v \in Vertices : dist[v] = k => dist'[v] = k
        /\ \A v \in Vertices : dist[v] >= k + 1 => dist'[v] >= k + 1
        /\ \A v \in Vertices : dist[v] = k + 1 => dist'[v] = k + 1
        /\ \A v \in Vertices : dist[v] <= k + 1 => dist'[v] <= k + 1
        /\ \A v \in Vertices : dist'[v] = dist[v] \/ (dist'[v] = k + 1 /\ dist[v] = Infinity)
      BY <1>2, <1>5, <1>8
  <2>4. Relaxes(k, s)'
    <3>1. CASE s = t
      <4>1. dist'[relaxer[s].v] = k + 1 /\ relaxer'[s].pc = "push"
          BY <1>5, <2>2, <3>1 DEF w
      <4>2. dist'[relaxer[s].v] >= k + 1
          BY <4>1, <1>8
      <4> QED BY <1>1, <1>2, <2>1, <2>2, <2>3, <3>1, <4>1, <4>2 DEF Relaxes
    <3>2. CASE s # t
      <4>1. relaxer'[s] = relaxer[s]
          BY <1>4, <3>2
      <4>2. /\ relaxer[s].pc # "take" => dist'[relaxer[s].u] = k
            /\ relaxer[s].pc = "new" =>
                  \/ relaxer[s].old = dist'[relaxer[s].v]
                  \/ relaxer[s].old = Infinity /\ dist'[relaxer[s].v] = k + 1
            /\ relaxer[s].pc \in {"cas", "store", "again", "push"} => dist'[relaxer[s].v] >= k + 1
            /\ relaxer[s].pc = "push" => dist'[relaxer[s].v] = k + 1
          BY <2>1, <2>2, <2>3 DEF Relaxes
      <4> QED BY <1>1, <2>1, <4>1, <4>2, RelaxesOn
    <3> QED BY <3>1, <3>2
  <2>5. Accounted(k, s)'
    <3> SUFFICES ASSUME NEW i \in 1..Len(frontier), Taken(s, i)', NEW v \in Vertices,
                        <<frontier[i], v>> \in edges
                 PROVE  dist'[v] <= k + 1 \/ (relaxer'[s].u = frontier[i] /\ Owes(s, v)')
        BY <1>1 DEF Accounted
    <3>1. Taken(s, i)
        BY <1>1, <2>2 DEF Taken
    <3>2. dist[v] <= k + 1 \/ (relaxer[s].u = frontier[i] /\ Owes(s, v))
        BY <2>1, <3>1 DEF Accounted
    <3>3. CASE dist[v] <= k + 1
        BY <2>3, <3>3
    <3>4. CASE v = w
        BY <1>5, <1>8, <3>4
    <3>5. CASE v # w /\ relaxer[s].u = frontier[i] /\ Owes(s, v)
      <4>1. Owes(s, v)'
          BY <2>2, <3>5 DEF Owes, w
      <4> QED BY <2>2, <3>5, <4>1
    <3> QED BY <3>2, <3>3, <3>4, <3>5
  <2> QED BY <2>4, <2>5
<1> QED BY <1>7, <1>10, <1>11, <1>12, <1>13, <1>14, <1>15 DEF Level
\* The locals a thread has after an EXCEPT on its record.
LEMMA OthersStay ==
    ASSUME NEW t \in Threads, SsspTypes, NEW r \in RelaxerType, relaxer' = [relaxer EXCEPT ![t] = r]
    PROVE  /\ relaxer' \in [Threads -> RelaxerType]
           /\ relaxer'[t] = r
           /\ \A s \in Threads : s # t => relaxer'[s] = relaxer[s]
BY DEF SsspTypes

LEMMA TakeKeeps ==
    ASSUME SsspTypes, NEW k \in 0..Infinity - 1, Level(k), NEW t \in Threads, Take(t)
    PROVE  SsspTypes' /\ Level(k)'
<1> DEFINE q == relaxer[t]
           i == q.at + 1
           u == frontier[i]
           r == [q EXCEPT !.at = q.at + 1, !.u = u, !.pc = "edge",
                    !.nbrs = IF dist[u] >= Delta * bin THEN Neighbors(u) \ {u} ELSE {}]
           n == Len(frontier)
<1>1. /\ q \in RelaxerType /\ q.pc = "take" /\ q.at \in Nat /\ q.at < ChunkEnd(t, n)
      /\ relaxer' = [relaxer EXCEPT ![t] = r] /\ dist' = dist /\ Still
      /\ Relaxes(k, t) /\ Accounted(k, t)
    BY RelaxerFacts DEF Take, Level, Still
<1>2. i \in 1..n /\ n \in Nat /\ u \in Vertices
  <2>1. n \in Nat /\ \A j \in 1..n : frontier[j] \in Vertices
      BY DistFacts
  <2>2. ChunkEnd(t, n) \in Nat /\ ChunkEnd(t, n) <= n
      BY <2>1, ChunkEndFacts
  <2> HIDE DEF n
  <2> QED BY <1>1, <2>1, <2>2
<1>3. Neighbors(u) = {v \in Vertices : <<u, v>> \in edges}
    BY NeighborsAre DEF SsspTypes
<1>4. dist[u] = k /\ dist[u] >= Delta * bin
  <2>1. dist[u] = k
      BY <1>2 DEF Level, OneLevel
  <2>2. k \in Nat /\ Delta * (k \div Delta) <= k
      BY SsspFacts, DivFacts
  <2>3. bin = k \div Delta
      BY DEF Level, OneLevel
  <2> QED BY <2>1, <2>2, <2>3
<1>5. /\ r \in RelaxerType /\ r.pc = "edge" /\ r.u = u /\ r.at = i
      /\ r.nbrs = Neighbors(u) \ {u}
  <2>1. r = [q EXCEPT !.at = i, !.u = u, !.pc = "edge", !.nbrs = Neighbors(u) \ {u}]
      BY <1>4
  <2>2. i \in Nat /\ Neighbors(u) \ {u} \in SUBSET Vertices
      BY <1>2, <1>3
  <2> HIDE DEF r, u, i
  <2> QED BY <1>1, <1>2, <2>1, <2>2 DEF RelaxerType
<1> HIDE DEF r
<1>6. /\ relaxer' \in [Threads -> RelaxerType] /\ relaxer'[t] = r
      /\ \A s \in Threads : s # t => relaxer'[s] = relaxer[s]
    BY <1>1, <1>5, OthersStay
<1>7. SsspTypes'
    BY <1>1, <1>6 DEF SsspTypes, WorkloadInit, Still, workload
<1>8. Relaxes(k, t)'
    BY <1>1, <1>3, <1>4, <1>5, <1>6 DEF Relaxes, Still, workload
<1>9. Accounted(k, t)'
  <2> SUFFICES ASSUME NEW j \in 1..n, Taken(t, j)', NEW v \in Vertices, <<frontier[j], v>> \in edges
               PROVE  dist[v] <= k + 1 \/ (relaxer'[t].u = frontier[j] /\ Owes(t, v)')
      BY <1>1 DEF Accounted, Still, workload
  <2>1. j <= i
      BY <1>1, <1>5, <1>6 DEF Taken
  <2>2. CASE j = i
    <3>1. CASE v = u
        BY <1>2, <1>4, <3>1
    <3>2. CASE v # u
      <4>1. v \in r.nbrs
          BY <1>3, <1>5, <2>2, <3>2
      <4> QED BY <1>5, <1>6, <2>2, <4>1 DEF Owes
    <3> QED BY <3>1, <3>2
  <2>3. CASE j < i
    <3>1. Taken(t, j)
        BY <1>1, <2>3 DEF Taken, Still
    <3>2. ~ Owes(t, v)
        BY <1>1 DEF Owes, Relaxes
    <3> QED BY <1>1, <3>1, <3>2 DEF Accounted
  <2> QED BY <1>1, <2>1, <2>2, <2>3
<1> QED BY <1>1, <1>6, <1>7, <1>8, <1>9, LocalStep

\* A thread that stays at its vertex and drops nothing it owes but what is done.
LEMMA AccountedOn ==
    ASSUME NEW k, NEW t \in Threads, Accounted(k, t), Still, dist' = dist,
           relaxer'[t].at = relaxer[t].at, relaxer'[t].u = relaxer[t].u,
           \A v \in Vertices : Owes(t, v) => Owes(t, v)' \/ dist[v] <= k + 1
    PROVE  Accounted(k, t)'
BY DEF Accounted, Taken, Still, workload

LEMMA ReadOldKeeps ==
    ASSUME SsspTypes, NEW k \in 0..Infinity - 1, Level(k), NEW t \in Threads, ReadOld(t)
    PROVE  SsspTypes' /\ Level(k)'
<1> DEFINE q == relaxer[t]
<1>1. /\ q \in RelaxerType /\ q.pc = "edge" /\ dist' = dist /\ Still
      /\ Relaxes(k, t) /\ Accounted(k, t)
    BY RelaxerFacts DEF ReadOld, Level, Still
<1>2. CASE q.nbrs = {} /\ relaxer' = [relaxer EXCEPT ![t].pc = "take"]
  <2> DEFINE r == [q EXCEPT !.pc = "take"]
  <2>1. r \in RelaxerType /\ relaxer' = [relaxer EXCEPT ![t] = r]
      BY <1>1, <1>2 DEF RelaxerType
  <2>2. r.pc = "take" /\ r.nbrs = {} /\ r.at = q.at /\ r.u = q.u
      BY <1>1, <1>2 DEF RelaxerType
  <2> HIDE DEF r
  <2>3. /\ relaxer' \in [Threads -> RelaxerType] /\ relaxer'[t] = r
        /\ \A s \in Threads : s # t => relaxer'[s] = relaxer[s]
      BY <2>1, OthersStay
  <2>4. SsspTypes'
      BY <1>1, <2>3 DEF SsspTypes, WorkloadInit, Still, workload
  <2>5. Relaxes(k, t)'
      BY <2>2, <2>3 DEF Relaxes
  <2>6. \A v \in Vertices : ~ Owes(t, v)
      BY <1>1, <1>2 DEF Owes
  <2>7. Accounted(k, t)'
      BY <1>1, <2>2, <2>3, <2>6, AccountedOn
  <2> QED BY <1>1, <2>3, <2>4, <2>5, <2>7, LocalStep
<1>3. ASSUME NEW v \in q.nbrs,
             relaxer' = [relaxer EXCEPT ![t] =
                 [q EXCEPT !.pc = "new", !.nbrs = q.nbrs \ {v}, !.v = v, !.old = dist[v]]]
      PROVE  SsspTypes' /\ Level(k)'
  <2> DEFINE r == [q EXCEPT !.pc = "new", !.nbrs = q.nbrs \ {v}, !.v = v, !.old = dist[v]]
  <2>0. v \in Vertices /\ dist[v] \in 0..Infinity /\ q.nbrs \subseteq Vertices
      BY RelaxerFacts, DistFacts
  <2>1. r \in RelaxerType /\ relaxer' = [relaxer EXCEPT ![t] = r]
      BY <1>1, <1>3, <2>0 DEF RelaxerType, SsspTypes
  <2>2. /\ r.pc = "new" /\ r.nbrs = q.nbrs \ {v} /\ r.at = q.at /\ r.u = q.u
        /\ r.v = v /\ r.old = dist[v]
      BY <1>1 DEF RelaxerType
  <2> HIDE DEF r
  <2>3. /\ relaxer' \in [Threads -> RelaxerType] /\ relaxer'[t] = r
        /\ \A s \in Threads : s # t => relaxer'[s] = relaxer[s]
      BY <2>1, OthersStay
  <2>4. SsspTypes'
      BY <1>1, <2>3 DEF SsspTypes, WorkloadInit, Still, workload
  <2>5. dist[q.u] = k /\ (\A w \in q.nbrs : <<q.u, w>> \in edges)
      BY <1>1 DEF Relaxes
  <2>6. Relaxes(k, t)'
      BY <1>1, <2>2, <2>3, <2>5 DEF Relaxes, Still, workload
  <2>7. \A w \in Vertices : Owes(t, w) => Owes(t, w)'
      BY <1>1, <2>2, <2>3 DEF Owes
  <2>8. Accounted(k, t)'
      BY <1>1, <2>2, <2>3, <2>7, AccountedOn
  <2> QED BY <1>1, <2>3, <2>4, <2>6, <2>8, LocalStep
<1> QED BY <1>2, <1>3 DEF ReadOld

\* A step that only changes the thread's place and the two numbers it compares.
LEMMA CompareStep ==
    ASSUME SsspTypes, NEW k \in 0..Infinity - 1, Level(k), NEW t \in Threads, NEW r \in RelaxerType,
           relaxer[t].pc \in {"new", "cas", "again"}, Still, dist' = dist,
           relaxer' = [relaxer EXCEPT ![t] = r],
           r.nbrs = relaxer[t].nbrs, r.at = relaxer[t].at, r.u = relaxer[t].u, r.v = relaxer[t].v,
           \/ r.pc = "edge" /\ dist[relaxer[t].v] <= k + 1
           \/ /\ r.pc \in {"cas", "store", "again"} /\ r.new = k + 1 /\ k + 1 < Infinity
              /\ dist[relaxer[t].v] >= k + 1
    PROVE  SsspTypes' /\ Level(k)'
<1> DEFINE q == relaxer[t]
<1>1. q \in RelaxerType /\ Relaxes(k, t) /\ Accounted(k, t)
    BY RelaxerFacts DEF Level
<1>4. /\ relaxer' \in [Threads -> RelaxerType] /\ relaxer'[t] = r
      /\ \A s \in Threads : s # t => relaxer'[s] = relaxer[s]
    BY OthersStay
<1>5. SsspTypes'
    BY <1>4 DEF SsspTypes, WorkloadInit, Still, workload
<1>6. Relaxes(k, t)'
    BY <1>1, <1>4 DEF Relaxes, Still, workload
<1>7. \A w \in Vertices : Owes(t, w) => Owes(t, w)' \/ dist[w] <= k + 1
  <2> TAKE w \in Vertices
  <2>1. CASE r.pc = "edge" /\ dist[q.v] <= k + 1
      BY <1>4, <2>1 DEF Owes
  <2>2. CASE r.pc \in {"cas", "store", "again"}
      BY <1>4, <2>2 DEF Owes
  <2> QED BY <2>1, <2>2
<1>8. Accounted(k, t)'
    BY <1>1, <1>4, <1>7, AccountedOn
<1> QED BY <1>4, <1>5, <1>6, <1>8, LocalStep

LEMMA ReadNewKeeps ==
    ASSUME SsspTypes, NEW k \in 0..Infinity - 1, Level(k), NEW t \in Threads, ReadNew(t)
    PROVE  SsspTypes' /\ Level(k)'
<1> DEFINE q == relaxer[t]
           p == IF Shorter(dist[q.u] + 1, q.old) THEN "cas" ELSE "edge"
           r == [q EXCEPT !.pc = p, !.new = dist[q.u] + 1]
<1>1. /\ q \in RelaxerType /\ q.pc = "new" /\ dist' = dist /\ Still
      /\ relaxer' = [relaxer EXCEPT ![t] = r] /\ Relaxes(k, t)
    BY RelaxerFacts DEF ReadNew, Level, Still
<1>2. dist[q.u] = k /\ (q.old = dist[q.v] \/ (q.old = Infinity /\ dist[q.v] = k + 1))
    BY <1>1 DEF Relaxes
<1>3. q.v \in Vertices /\ dist[q.v] \in Nat /\ dist[q.v] <= Infinity /\ q.old \in Nat
    BY RelaxerFacts, DistFacts, SsspFacts
<1>4. dist[q.v] <= k + 1 \/ dist[q.v] = Infinity
    BY <1>3 DEF Level, OneLevel
<1>5. k \in Nat /\ Infinity \in Nat
    BY SsspFacts
<1>6. p = "edge" => dist[q.v] <= k + 1
    BY <1>2, <1>3, <1>5 DEF Shorter
<1>7. p # "edge" => k + 1 < Infinity /\ dist[q.v] >= k + 1
    BY <1>2, <1>3, <1>4, <1>5 DEF Shorter
<1>8. p \in {"edge", "cas"} /\ dist[q.u] + 1 = k + 1 /\ k + 1 \in Nat
    BY <1>2, <1>5
<1> HIDE DEF p
<1>9. /\ r \in RelaxerType /\ r.pc = p /\ r.new = k + 1
      /\ r.nbrs = q.nbrs /\ r.at = q.at /\ r.u = q.u /\ r.v = q.v
    BY <1>1, <1>8 DEF RelaxerType
<1> HIDE DEF r
<1> QED BY <1>1, <1>6, <1>7, <1>8, <1>9, CompareStep

LEMMA TryAgainKeeps ==
    ASSUME SsspTypes, NEW k \in 0..Infinity - 1, Level(k), NEW t \in Threads, TryAgain(t)
    PROVE  SsspTypes' /\ Level(k)'
<1> DEFINE q == relaxer[t]
           p == IF Shorter(q.new, dist[q.v]) THEN "cas" ELSE "edge"
           r == [q EXCEPT !.pc = p, !.old = dist[q.v]]
<1>1. /\ q \in RelaxerType /\ q.pc = "again" /\ dist' = dist /\ Still
      /\ relaxer' = [relaxer EXCEPT ![t] = r] /\ Relaxes(k, t)
    BY RelaxerFacts DEF TryAgain, Level, Still
<1>2. q.new = k + 1 /\ k + 1 < Infinity /\ dist[q.v] >= k + 1
    BY <1>1 DEF Relaxes
<1>3. q.v \in Vertices /\ dist[q.v] \in Nat /\ dist[q.v] \in 0..Infinity /\ k \in Nat
    BY RelaxerFacts, DistFacts, SsspFacts
<1>4. p = "edge" => dist[q.v] <= k + 1
    BY <1>2, <1>3 DEF Shorter
<1>5. p \in {"edge", "cas"}
    OBVIOUS
<1> HIDE DEF p
<1>6. /\ r \in RelaxerType /\ r.pc = p /\ r.new = k + 1
      /\ r.nbrs = q.nbrs /\ r.at = q.at /\ r.u = q.u /\ r.v = q.v
    BY <1>1, <1>2, <1>3, <1>5 DEF RelaxerType
<1> HIDE DEF r
<1> QED BY <1>1, <1>2, <1>4, <1>5, <1>6, CompareStep

LEMMA CompareAndSwapKeeps ==
    ASSUME SsspTypes, NEW k \in 0..Infinity - 1, Level(k), NEW t \in Threads, CompareAndSwap(t)
    PROVE  SsspTypes' /\ Level(k)'
<1> DEFINE q == relaxer[t]
           equal == dist[q.v] = q.old
           p == IF ~equal THEN "again" ELSE IF openMP THEN "push" ELSE "store"
           r == [q EXCEPT !.pc = p]
<1>1. /\ q \in RelaxerType /\ q.pc = "cas" /\ Still /\ Relaxes(k, t)
      /\ dist' = IF equal /\ openMP THEN [dist EXCEPT ![q.v] = q.new] ELSE dist
      /\ relaxer' = [relaxer EXCEPT ![t].pc = p]
    BY RelaxerFacts DEF CompareAndSwap, Level, Still
<1>2. CASE equal /\ openMP
  <2>1. /\ dist' = [dist EXCEPT ![q.v] = q.new]
        /\ relaxer' = [relaxer EXCEPT ![t].pc = "push"]
      BY <1>1, <1>2
  <2> QED BY <1>1, <2>1, WriteStep
<1>3. CASE ~(equal /\ openMP)
  <2>1. dist' = dist /\ relaxer' = [relaxer EXCEPT ![t] = r]
      BY <1>1, <1>3
  <2>2. q.new = k + 1 /\ k + 1 < Infinity /\ dist[q.v] >= k + 1
      BY <1>1 DEF Relaxes
  <2>3. p \in {"again", "store"}
      BY <1>3
  <2> HIDE DEF p
  <2>4. /\ r \in RelaxerType /\ r.pc = p /\ r.new = k + 1
        /\ r.nbrs = q.nbrs /\ r.at = q.at /\ r.u = q.u /\ r.v = q.v
      BY <1>1, <2>2, <2>3 DEF RelaxerType
  <2> HIDE DEF r
  <2> QED BY <1>1, <2>1, <2>2, <2>3, <2>4, CompareStep
<1> QED BY <1>2, <1>3

LEMMA StoreNewKeeps ==
    ASSUME SsspTypes, NEW k \in 0..Infinity - 1, Level(k), NEW t \in Threads, StoreNew(t)
    PROVE  SsspTypes' /\ Level(k)'
<1>1. /\ Still /\ relaxer[t].pc \in {"cas", "store"}
      /\ dist' = [dist EXCEPT ![relaxer[t].v] = relaxer[t].new]
      /\ relaxer' = [relaxer EXCEPT ![t].pc = "push"]
    BY DEF StoreNew, Still
<1> QED BY <1>1, WriteStep

\* bins[] after local_bins[b].push_back(v).
Grown(b, v) ==
    [i \in 1..(IF b > Len(bins) THEN b ELSE Len(bins)) |->
        (IF i <= Len(bins) THEN bins[i] ELSE <<>>) \o IF i = b THEN <<v>> ELSE <<>>]

\* The bins without the last push are old, with it new.
GrewBy(old, new, b, v) ==
    /\ new \in Seq(Seq(Vertices))
    /\ Len(new) = IF b > Len(old) THEN b ELSE Len(old)
    /\ \A i \in 1..Len(new) : i # b =>
          (i \in 1..Len(old) /\ Len(new[i]) = Len(old[i])) \/ Len(new[i]) = 0
    /\ \A j \in 1..Len(new[b]) :
          new[b][j] = v \/ (b \in 1..Len(old) /\ j \in 1..Len(old[b]) /\ new[b][j] = old[b][j])
    /\ \E j \in 1..Len(new[b]) : new[b][j] = v
    /\ b \in 1..Len(old) => \A j \in 1..Len(old[b]) : j \in 1..Len(new[b]) /\ new[b][j] = old[b][j]

LEMMA BinsGrow ==
    ASSUME SsspTypes, NEW b \in Nat, b > 0, NEW v \in Vertices
    PROVE  GrewBy(bins, Grown(b, v), b, v)
<1> DEFINE new == Grown(b, v)
           m == IF b > Len(bins) THEN b ELSE Len(bins)
           old(i) == IF i <= Len(bins) THEN bins[i] ELSE <<>>
           add(i) == IF i = b THEN <<v>> ELSE <<>>
<1>1. Len(bins) \in Nat /\ \A i \in 1..Len(bins) : bins[i] \in Seq(Vertices)
    BY LenProperties, ElementOfSeq DEF SsspTypes
<1>2. m \in Nat /\ b \in 1..m /\ \A i \in 1..Len(bins) : i \in 1..m
    BY <1>1
<1>3. \A i \in 1..m : old(i) \in Seq(Vertices) /\ add(i) \in Seq(Vertices)
    BY <1>1
<1>4. \A i \in 1..m : (i > Len(bins) => Len(old(i)) = 0) /\ (i # b => Len(add(i)) = 0)
    BY <1>1
<1>5. Len(add(b)) = 1 /\ add(b)[1] = v
    OBVIOUS
<1>6. new = [i \in 1..m |-> old(i) \o add(i)]
    BY DEF Grown
<1>7. \A i \in 1..Len(bins) : old(i) = bins[i]
    BY <1>1
<1> HIDE DEF old, add, m, new
<1>8. \A i \in 1..m :
        /\ old(i) \o add(i) \in Seq(Vertices)
        /\ Len(old(i) \o add(i)) = Len(old(i)) + Len(add(i))
        /\ Len(old(i)) \in Nat /\ Len(add(i)) \in Nat
        /\ \A j \in 1..Len(old(i)) + Len(add(i)) :
              (old(i) \o add(i))[j] = IF j <= Len(old(i)) THEN old(i)[j] ELSE add(i)[j - Len(old(i))]
    BY <1>3, ConcatProperties, LenProperties
<1>9. new \in Seq(Seq(Vertices)) /\ Len(new) = m
  <2>1. new \in [1..m -> Seq(Vertices)]
      BY <1>6, <1>8
  <2> DEFINE S == Seq(Vertices)
  <2> HIDE DEF S
  <2>2. new \in [1..m -> S]
      BY <2>1 DEF S
  <2>3. new \in Seq(S)
      BY <1>2, <2>2, SeqDef
  <2>4. Len(new) = m
      BY <1>2, <2>2, <2>3, LenProperties
  <2> QED BY <2>3, <2>4 DEF S
<1>10. \A i \in 1..m : new[i] = old(i) \o add(i)
    BY <1>6
<1>11. \A i \in 1..m : i # b => Len(new[i]) = Len(old(i))
  <2> SUFFICES ASSUME NEW i \in 1..m, i # b PROVE Len(new[i]) = Len(old(i))
      OBVIOUS
  <2>1. Len(add(i)) = 0 /\ Len(new[i]) = Len(old(i)) + Len(add(i)) /\ Len(old(i)) \in Nat
      BY <1>4, <1>8, <1>10
  <2> QED BY <2>1
<1>12. Len(new[b]) = Len(old(b)) + 1 /\ Len(old(b)) \in Nat
    BY <1>2, <1>5, <1>8, <1>10
<1>13. \A j \in 1..Len(old(b)) + 1 :
          new[b][j] = IF j <= Len(old(b)) THEN old(b)[j] ELSE add(b)[j - Len(old(b))]
    BY <1>2, <1>5, <1>8, <1>10
<1>14. new[b][Len(old(b)) + 1] = v
  <2> DEFINE e == Len(old(b)) + 1
  <2>1. e \in 1..Len(old(b)) + 1 /\ ~(e <= Len(old(b))) /\ e - Len(old(b)) = 1
      BY <1>12
  <2>2. new[b][e] = add(b)[e - Len(old(b))]
    <3> HIDE DEF e
    <3> QED BY <1>13, <2>1
  <2> QED BY <1>5, <2>1, <2>2
<1>15. \A j \in 1..Len(old(b)) : new[b][j] = old(b)[j]
  <2> SUFFICES ASSUME NEW j \in 1..Len(old(b)) PROVE new[b][j] = old(b)[j]
      OBVIOUS
  <2>1. j \in 1..Len(old(b)) + 1 /\ j <= Len(old(b))
      BY <1>12
  <2> QED BY <1>13, <2>1
<1>16. b \notin 1..Len(bins) => Len(old(b)) = 0
    BY <1>1, <1>2, <1>4
<1>17. \A i \in 1..Len(new) : i # b =>
          (i \in 1..Len(bins) /\ Len(new[i]) = Len(bins[i])) \/ Len(new[i]) = 0
    BY <1>1, <1>2, <1>4, <1>7, <1>9, <1>11
<1>18. \A j \in 1..Len(new[b]) :
          new[b][j] = v \/ (b \in 1..Len(bins) /\ j \in 1..Len(bins[b]) /\ new[b][j] = bins[b][j])
  <2> TAKE j \in 1..Len(new[b])
  <2>1. CASE j = Len(old(b)) + 1
      BY <1>14, <2>1
  <2>2. CASE j # Len(old(b)) + 1
    <3>1. j \in 1..Len(old(b))
        BY <1>12, <2>2
    <3>2. b \in 1..Len(bins)
        BY <1>16, <3>1
    <3> QED BY <1>7, <1>15, <3>1, <3>2
  <2> QED BY <2>1, <2>2
<1>19. \E j \in 1..Len(new[b]) : new[b][j] = v
    BY <1>12, <1>14
<1>20. b \in 1..Len(bins) => \A j \in 1..Len(bins[b]) : j \in 1..Len(new[b]) /\ new[b][j] = bins[b][j]
    BY <1>7, <1>12, <1>15
<1>21. Len(new) = IF b > Len(bins) THEN b ELSE Len(bins)
    BY <1>9 DEF m
<1> QED BY <1>9, <1>17, <1>18, <1>19, <1>20, <1>21 DEF GrewBy, new

\* A thread adds the vertex it has lowered to the bin of the next level.
LEMMA PushKeeps ==
    ASSUME SsspTypes, NEW k \in 0..Infinity - 1, Level(k), NEW t \in Threads, Push(t)
    PROVE  SsspTypes' /\ Level(k)'
<1> DEFINE q == relaxer[t]
           r == [q EXCEPT !.pc = "edge"]
<1>1. /\ q \in RelaxerType /\ q.pc = "push" /\ q.v \in Vertices
      /\ Relaxes(k, t) /\ Accounted(k, t) /\ OneBin(k)
    BY RelaxerFacts DEF Push, Level
<1>2. /\ edges' = edges /\ openMP' = openMP /\ start' = start /\ dist' = dist
      /\ frontier' = frontier /\ bin' = bin
      /\ relaxer' = [relaxer EXCEPT ![t].pc = "edge"]
      /\ bins' = Grown(q.new \div Delta + 1, q.v)
    BY DEF Push, Grown, workload
<1>3. q.new = k + 1 /\ k + 1 < Infinity /\ dist[q.v] = k + 1
    BY <1>1 DEF Relaxes
<1>4. Slot(k) \in Nat /\ Slot(k) > 0 /\ bins' = Grown(Slot(k), q.v)
  <2>1. k + 1 \in Nat
      OBVIOUS
  <2>2. (k + 1) \div Delta \in Nat
      BY <2>1, SsspFacts, DivFacts
  <2> QED BY <1>2, <1>3, <2>2 DEF Slot
<1>5. r \in RelaxerType /\ relaxer' = [relaxer EXCEPT ![t] = r]
    BY <1>1, <1>2 DEF RelaxerType
<1>6. r.pc = "edge" /\ r.nbrs = q.nbrs /\ r.at = q.at /\ r.u = q.u
    BY <1>1 DEF RelaxerType
<1> HIDE DEF r
<1>7. /\ relaxer' \in [Threads -> RelaxerType] /\ relaxer'[t] = r
      /\ \A s \in Threads : s # t => relaxer'[s] = relaxer[s]
    BY <1>5, OthersStay
<1>8. /\ bins' \in Seq(Seq(Vertices))
      /\ Len(bins') = IF Slot(k) > Len(bins) THEN Slot(k) ELSE Len(bins)
      /\ \A i \in 1..Len(bins') : i # Slot(k) =>
            (i \in 1..Len(bins) /\ Len(bins'[i]) = Len(bins[i])) \/ Len(bins'[i]) = 0
      /\ \A j \in 1..Len(bins'[Slot(k)]) :
            bins'[Slot(k)][j] = q.v \/ (Slot(k) \in 1..Len(bins) /\ j \in 1..Len(bins[Slot(k)])
                                          /\ bins'[Slot(k)][j] = bins[Slot(k)][j])
      /\ \E j \in 1..Len(bins'[Slot(k)]) : bins'[Slot(k)][j] = q.v
      /\ Slot(k) \in 1..Len(bins) =>
            \A j \in 1..Len(bins[Slot(k)]) :
                j \in 1..Len(bins'[Slot(k)]) /\ bins'[Slot(k)][j] = bins[Slot(k)][j]
  <2>1. GrewBy(bins, bins', Slot(k), q.v)
      BY <1>1, <1>4, BinsGrow
  <2> QED BY <2>1 DEF GrewBy
<1>9. SsspTypes'
    BY <1>2, <1>7, <1>8 DEF SsspTypes, WorkloadInit
<1>10. Rooted' /\ Hangs' /\ Settled(k)' /\ OneLevel(k)'
    BY <1>2 DEF Level, Rooted, Hangs, Settled, OneLevel
<1>11. Len(bins) \in Nat
    BY LenProperties DEF SsspTypes
<1>12. Slot(k) \in 1..Len(bins')
    BY <1>4, <1>8, <1>11
<1>13. OneBin(k)'
  <2>1. \A b \in 1..Len(bins') : \A i \in 1..Len(bins'[b]) :
           b = Slot(k) /\ dist[bins'[b][i]] = k + 1 /\ k + 1 < Infinity
    <3> SUFFICES ASSUME NEW b \in 1..Len(bins'), NEW i \in 1..Len(bins'[b])
                 PROVE  b = Slot(k) /\ dist[bins'[b][i]] = k + 1
        BY <1>3
    <3>1. CASE b # Slot(k)
      <4>1. b \in 1..Len(bins) /\ Len(bins'[b]) = Len(bins[b])
          BY <1>8, <3>1
      <4>2. i \in 1..Len(bins[b])
          BY <4>1
      <4> QED BY <1>1, <3>1, <4>1, <4>2 DEF OneBin
    <3>2. CASE b = Slot(k)
      <4>1. CASE bins'[b][i] = q.v
          BY <1>3, <3>2, <4>1
      <4>2. CASE Slot(k) \in 1..Len(bins) /\ i \in 1..Len(bins[Slot(k)]) /\ bins'[b][i] = bins[Slot(k)][i]
          BY <1>1, <3>2, <4>2 DEF OneBin
      <4> QED BY <1>8, <3>2, <4>1, <4>2
    <3> QED BY <3>1, <3>2
  <2>2. ASSUME NEW v \in Vertices, dist[v] = k + 1, k + 1 < Infinity
        PROVE  Pushes(v)' \/ InBin(k, v)'
    <3>1. CASE v = q.v
        BY <1>8, <1>12, <3>1 DEF InBin
    <3>2. CASE v # q.v /\ Pushes(v)
      <4>1. PICK s \in Threads : relaxer[s].pc = "push" /\ relaxer[s].v = v
          BY <3>2 DEF Pushes
      <4>2. s # t
          BY <3>2, <4>1
      <4> QED BY <1>7, <4>1, <4>2 DEF Pushes
    <3>3. CASE InBin(k, v)
        BY <1>8, <1>12, <3>3 DEF InBin
    <3> QED BY <1>1, <2>2, <3>1, <3>2, <3>3 DEF OneBin
  <2> QED BY <1>2, <2>1, <2>2 DEF OneBin
<1>14. ASSUME NEW s \in Threads PROVE Relaxes(k, s)' /\ Accounted(k, s)'
  <2>1. CASE s = t
    <3>1. Relaxes(k, t)'
        BY <1>1, <1>2, <1>6, <1>7 DEF Relaxes
    <3>2. \A w \in Vertices : Owes(t, w) => Owes(t, w)'
        BY <1>1, <1>6, <1>7 DEF Owes
    <3>3. Accounted(k, t)'
        BY <1>1, <1>2, <1>6, <1>7, <3>2 DEF Accounted, Taken
    <3> QED BY <2>1, <3>1, <3>3
  <2>2. CASE s # t
    <3>1. relaxer'[s] = relaxer[s] /\ Relaxes(k, s) /\ Accounted(k, s)
        BY <1>7, <2>2 DEF Level
    <3>2. Relaxes(k, s)'
        BY <1>2, <3>1, RelaxesStay
    <3>3. Accounted(k, s)'
        BY <1>2, <3>1 DEF Accounted, Taken, Owes
    <3> QED BY <3>2, <3>3
  <2> QED BY <2>1, <2>2
<1> QED BY <1>9, <1>10, <1>13, <1>14 DEF Level

-----------------------------------------------------------------------------
(* From level to level *)

LEMMA DivMonotone ==
    ASSUME NEW a \in Nat, NEW b \in Nat, NEW d \in Nat, d > 0, a <= b
    PROVE  a \div d <= b \div d
<1> DEFINE x == a \div d
           y == b \div d
<1>1. x \in Nat /\ d * x <= a /\ y \in Nat /\ b < d * y + d
    BY DivFacts
<1> HIDE DEF x, y
<1>2. SUFFICES ASSUME ~(x <= y) PROVE FALSE
    BY DEF x, y
<1>3. y < x
    BY <1>1, <1>2
<1>4. y * d + d <= x * d
    BY <1>1, <1>3, Scale
<1>5. y * d = d * y /\ x * d = d * x /\ d * y \in Nat /\ d * x \in Nat
    BY <1>1
<1> QED BY <1>1, <1>4, <1>5

\* When the threads have returned, every edge out of the frontier is done.
LEMMA LevelDone ==
    ASSUME SsspTypes, NEW k \in 0..Infinity - 1, Level(k), Relaxed
    PROVE  Settled(k + 1)
<1> SUFFICES ASSUME NEW u \in Vertices, NEW v \in Vertices, <<u, v>> \in edges, dist[u] < k + 1
             PROVE  dist[v] <= dist[u] + 1
    BY DEF Settled
<1>1. dist[u] \in Nat /\ dist[v] \in Nat /\ k \in Nat /\ Len(frontier) \in Nat
    BY DistFacts
<1>2. CASE dist[u] < k
    BY <1>2 DEF Level, Settled
<1>3. CASE dist[u] = k
  <2>1. PICK i \in 1..Len(frontier) : frontier[i] = u
      BY <1>3 DEF Level, OneLevel
  <2>2. i - 1 \in 0..Len(frontier) - 1
      BY <1>1
  <2>3. PICK t \in Threads : i - 1 \in Chunk(t, Len(frontier))
      BY <1>1, <2>2, ChunksPartition
  <2>4. i - 1 < ChunkEnd(t, Len(frontier)) /\ ChunkEnd(t, Len(frontier)) \in Nat
      BY <1>1, <2>3, ChunkEndFacts
  <2>5. relaxer[t].pc = "take" /\ relaxer[t].at >= ChunkEnd(t, Len(frontier))
      BY DEF Relaxed
  <2>6. i <= relaxer[t].at
      BY <1>1, <2>4, <2>5, RelaxerFacts
  <2>7. Taken(t, i)
      BY <2>3, <2>6 DEF Taken
  <2>8. ~ Owes(t, v)
      BY <2>5 DEF Owes, Level, Relaxes
  <2>9. dist[v] <= k + 1
      BY <2>1, <2>7, <2>8 DEF Level, Accounted
  <2> QED BY <1>3, <2>9
<1> QED BY <1>1, <1>2, <1>3

LEMMA Restart ==
    ASSUME NEW n \in Nat, NEW rel, rel = [t \in Threads |-> [NoRelax EXCEPT !.at = ChunkBegin(t, n)]]
    PROVE  /\ rel \in [Threads -> RelaxerType]
           /\ \A t \in Threads : rel[t].pc = "take" /\ rel[t].nbrs = {} /\ rel[t].at = ChunkBegin(t, n)
<1>1. \A t \in Threads : ChunkBegin(t, n) \in Nat
    BY ChunkEndFacts
<1>2. NoRelax \in RelaxerType
    BY SsspFacts DEF NoRelax, RelaxerType
<1>3. \A t \in Threads : [NoRelax EXCEPT !.at = ChunkBegin(t, n)] \in RelaxerType
    BY <1>1, <1>2 DEF RelaxerType
<1> QED BY <1>3 DEF NoRelax

\* A thread at the beginning of its chunk.
LEMMA FreshThread ==
    ASSUME NEW k, NEW t \in Threads, Len(frontier') \in Nat,
           relaxer'[t].pc = "take", relaxer'[t].nbrs = {},
           relaxer'[t].at = ChunkBegin(t, Len(frontier'))
    PROVE  Relaxes(k, t)' /\ Accounted(k, t)'
<1>1. Relaxes(k, t)'
    BY DEF Relaxes
<1>2. \A i \in 1..Len(frontier') : ~ Taken(t, i)'
  <2> SUFFICES ASSUME NEW i \in 1..Len(frontier'), Taken(t, i)' PROVE FALSE
      OBVIOUS
  <2>1. i - 1 \in Chunk(t, Len(frontier')) /\ i <= ChunkBegin(t, Len(frontier'))
      BY DEF Taken
  <2>2. ChunkBegin(t, Len(frontier')) <= i - 1 /\ ChunkBegin(t, Len(frontier')) \in Nat
      BY <2>1, ChunkEndFacts
  <2> QED BY <2>1, <2>2
<1> QED BY <1>1, <1>2 DEF Accounted

LEMMA SlotFacts ==
    ASSUME NEW k \in Nat
    PROVE  Slot(k) \in Nat /\ Slot(k) > 0 /\ Slot(k) - 1 = (k + 1) \div Delta /\ k \div Delta <= Slot(k) - 1
<1>1. k + 1 \in Nat /\ k <= k + 1
    OBVIOUS
<1>2. (k + 1) \div Delta \in Nat /\ k \div Delta <= (k + 1) \div Delta /\ k \div Delta \in Nat
    BY <1>1, SsspFacts, DivFacts, DivMonotone
<1> QED BY <1>2 DEF Slot

\* Without a thread at work, the vertices of the next level are in a bin, and there
\* are no others in the bins.
LEMMA BinsHoldLevel ==
    ASSUME SsspTypes, NEW k \in 0..Infinity - 1, Level(k), Relaxed
    PROVE  /\ \A i \in PendingBins : i + 1 = Slot(k) /\ k + 1 < Infinity
           /\ \A v \in Vertices : dist[v] = k + 1 /\ k + 1 < Infinity =>
                 InBin(k, v) /\ Slot(k) - 1 \in PendingBins
<1>1. Len(bins) \in Nat /\ \A b \in 1..Len(bins) : bins[b] \in Seq(Vertices)
    BY LenProperties, ElementOfSeq DEF SsspTypes
<1>2. k \in Nat /\ bin = k \div Delta /\ bin \in Nat /\ OneBin(k)
    BY SsspFacts, DivFacts DEF Level, OneLevel
<1>3. ASSUME NEW i \in PendingBins PROVE i + 1 = Slot(k) /\ k + 1 < Infinity
  <2>1. i + 1 \in 1..Len(bins) /\ bins[i + 1] # <<>>
      BY <1>1, <1>2, <1>3 DEF PendingBins
  <2>2. 1 \in 1..Len(bins[i + 1])
      BY <1>1, <2>1, EmptySeq
  <2> QED BY <1>2, <2>1, <2>2 DEF OneBin
<1>4. ASSUME NEW v \in Vertices, dist[v] = k + 1, k + 1 < Infinity
      PROVE  InBin(k, v) /\ Slot(k) - 1 \in PendingBins
  <2>1. ~ Pushes(v)
      BY DEF Pushes, Relaxed
  <2>2. InBin(k, v)
      BY <1>2, <1>4, <2>1 DEF OneBin
  <2>3. Slot(k) \in 1..Len(bins) /\ bins[Slot(k)] # <<>>
    <3>1. Slot(k) \in 1..Len(bins) /\ 1..Len(bins[Slot(k)]) # {}
        BY <2>2 DEF InBin
    <3>2. Len(<<>>) = 0 /\ 1..0 = {}
        OBVIOUS
    <3> QED BY <3>1, <3>2
  <2>4. Slot(k) - 1 \in bin..Len(bins) - 1 /\ (Slot(k) - 1) + 1 = Slot(k)
    <3>1. Slot(k) \in Nat /\ k \div Delta <= Slot(k) - 1
        BY <1>2, SlotFacts
    <3> QED BY <1>1, <1>2, <2>3, <3>1
  <2> QED BY <2>2, <2>3, <2>4 DEF PendingBins
<1> QED BY <1>3, <1>4

LEMMA NextBinKeeps ==
    ASSUME SsspTypes, NEW k \in 0..Infinity - 1, Level(k), NextBin
    PROVE  SsspTypes' /\ k + 1 \in 0..Infinity - 1 /\ Level(k + 1)'
<1> DEFINE b == Slot(k)
<1>1. PICK i \in PendingBins :
        /\ bin' = i /\ frontier' = bins[i + 1] /\ bins' = [bins EXCEPT ![i + 1] = <<>>]
        /\ SpawnRelaxers(Len(frontier'))
    BY DEF NextBin
<1>2. /\ Relaxed /\ edges' = edges /\ openMP' = openMP /\ start' = start /\ dist' = dist
    BY DEF NextBin, workload
<1>3. i + 1 = b /\ k + 1 < Infinity
    BY <1>1, <1>2, BinsHoldLevel
<1>4. k \in Nat /\ k + 1 \in 0..Infinity - 1
    BY <1>3, SsspFacts
<1>5. b \in 1..Len(bins) /\ i \in Int /\ Len(bins) \in Nat
  <2>1. Len(bins) \in Nat /\ i \in bin..Len(bins) - 1
      BY <1>1, LenProperties DEF PendingBins, SsspTypes
  <2>2. b \in Nat /\ b > 0
      BY <1>4, SlotFacts
  <2>3. bin \in Nat
      BY <1>4, SsspFacts, DivFacts DEF Level, OneLevel
  <2> HIDE DEF b
  <2> QED BY <1>3, <2>1, <2>2, <2>3
<1>6. bin' = (k + 1) \div Delta
    BY <1>1, <1>3, <1>4, <1>5, SlotFacts
<1>7. frontier' = bins[b] /\ bins' = [bins EXCEPT ![b] = <<>>] /\ frontier' \in Seq(Vertices)
  <2>1. bins[b] \in Seq(Vertices)
      BY <1>5, ElementOfSeq DEF SsspTypes
  <2> QED BY <1>1, <1>3, <2>1
<1>8. bins' \in Seq(Seq(Vertices)) /\ Len(bins') = Len(bins)
  <2> DEFINE S == Seq(Vertices)
  <2>1. bins \in Seq(S) /\ <<>> \in S
      BY DEF SsspTypes
  <2> HIDE DEF S, b
  <2>2. [bins EXCEPT ![b] = <<>>] \in Seq(S) /\ Len([bins EXCEPT ![b] = <<>>]) = Len(bins)
      BY <1>5, <2>1, ExceptSeq
  <2> QED BY <1>7, <2>2 DEF S
<1>9. Len(frontier') \in Nat
    BY <1>7, LenProperties
<1>10. /\ relaxer' \in [Threads -> RelaxerType]
       /\ \A t \in Threads : relaxer'[t].pc = "take" /\ relaxer'[t].nbrs = {}
                               /\ relaxer'[t].at = ChunkBegin(t, Len(frontier'))
    BY <1>1, <1>9, Restart, ZenonT(40) DEF SpawnRelaxers
<1>11. SsspTypes'
    BY <1>2, <1>7, <1>8, <1>10 DEF SsspTypes, WorkloadInit
<1>12. Settled(k + 1)'
  <2>1. Settled(k + 1)
      BY <1>2, LevelDone
  <2> QED BY <1>2, <2>1 DEF Settled
<1>13. \A v \in Vertices : dist[v] \in Nat /\ (dist[v] <= k + 1 \/ dist[v] = Infinity)
    BY DistFacts DEF Level, OneLevel
<1>14. OneLevel(k + 1)'
  <2>1. \A v \in Vertices : dist[v] <= (k + 1) + 1 \/ dist[v] = Infinity
      BY <1>4, <1>13
  <2>2. ASSUME NEW v \in Vertices
        PROVE  dist[v] = k + 1 <=> \E j \in 1..Len(frontier') : frontier'[j] = v
    <3>1. dist[v] = k + 1 => \E j \in 1..Len(frontier') : frontier'[j] = v
        BY <1>2, <1>3, <1>7, BinsHoldLevel DEF InBin
    <3>2. \A j \in 1..Len(bins[b]) : dist[bins[b][j]] = k + 1
        BY <1>5 DEF Level, OneBin
    <3> QED BY <1>7, <3>1, <3>2
  <2> QED BY <1>2, <1>6, <2>1, <2>2 DEF OneLevel
<1>15. \A c \in 1..Len(bins') : Len(bins'[c]) = 0
  <2> SUFFICES ASSUME NEW c \in 1..Len(bins') PROVE Len(bins'[c]) = 0
      OBVIOUS
  <2>1. CASE c = b
      BY <1>5, <1>7, <2>1 DEF SsspTypes
  <2>2. CASE c # b
    <3>1. bins'[c] = bins[c] /\ c \in 1..Len(bins)
        BY <1>7, <1>8, <2>2 DEF SsspTypes
    <3>2. bins[c] \in Seq(Vertices)
        BY <3>1, ElementOfSeq DEF SsspTypes
    <3>3. ~ (1 \in 1..Len(bins[c]))
        BY <2>2, <3>1 DEF Level, OneBin
    <3>4. Len(bins[c]) \in Nat
        BY <3>2, LenProperties
    <3> QED BY <3>1, <3>3, <3>4
  <2> QED BY <2>1, <2>2
<1>16. OneBin(k + 1)'
  <2>1. \A c \in 1..Len(bins') : 1..Len(bins'[c]) = {}
      BY <1>15
  <2>2. \A v \in Vertices : ~(dist[v] = (k + 1) + 1 /\ (k + 1) + 1 < Infinity)
      BY <1>4, <1>13
  <2> HIDE <1>15
  <2> QED BY <1>2, <2>1, <2>2 DEF OneBin
<1>17. ASSUME NEW t \in Threads PROVE Relaxes(k + 1, t)' /\ Accounted(k + 1, t)'
    BY <1>9, <1>10, FreshThread
<1>18. Rooted' /\ Hangs'
    BY <1>2 DEF Level, Rooted, Hangs
<1> QED BY <1>4, <1>11, <1>12, <1>14, <1>16, <1>17, <1>18 DEF Level

\* No bin is left: the search is over.
LEMMA DoneSettles ==
    ASSUME SsspTypes, NEW k \in 0..Infinity - 1, Level(k), Relaxed, PendingBins = {}
    PROVE  Settled(Infinity)
<1> SUFFICES ASSUME NEW u \in Vertices, NEW v \in Vertices, <<u, v>> \in edges, dist[u] < Infinity
             PROVE  dist[v] <= dist[u] + 1
    BY DEF Settled
<1>1. Settled(k + 1)
    BY LevelDone
<1>2. dist[u] \in Nat /\ k \in Nat /\ (dist[u] <= k + 1 \/ dist[u] = Infinity) /\ Infinity \in Nat
    BY DistFacts, SsspFacts DEF Level, OneLevel
<1>3. ~(dist[u] = k + 1 /\ k + 1 < Infinity)
    BY BinsHoldLevel
<1>4. dist[u] < k + 1
    BY <1>2, <1>3
<1> QED BY <1>1, <1>4 DEF Settled

LEMMA StartKeeps ==
    ASSUME SsspInv, SsspStart
    PROVE  SsspTypes' /\ 0 \in 0..Infinity - 1 /\ Level(0)'
<1>1. /\ SsspTypes /\ dist = [v \in Vertices |-> Infinity] /\ bin = 0 /\ bins = <<>>
    BY DEF SsspInv, SsspStart
<1>2. /\ start' \in Vertices /\ dist' = [dist EXCEPT ![start'] = 0] /\ frontier' = <<start'>>
      /\ edges' = edges /\ openMP' = openMP /\ bin' = bin /\ bins' = bins
      /\ SpawnRelaxers(1)
    BY SsspAssumption DEF SsspStart, workload
<1>3. \A v \in Vertices : dist'[v] = IF v = start' THEN 0 ELSE Infinity
    BY <1>1, <1>2
<1>4. Infinity \in Nat /\ Infinity > 0
    BY SsspFacts
<1>5. frontier' \in Seq(Vertices) /\ Len(frontier') = 1 /\ frontier'[1] = start'
    BY <1>2
<1>6. /\ relaxer' \in [Threads -> RelaxerType]
      /\ \A t \in Threads : relaxer'[t].pc = "take" /\ relaxer'[t].nbrs = {}
                              /\ relaxer'[t].at = ChunkBegin(t, Len(frontier'))
    BY <1>2, <1>5, Restart DEF SpawnRelaxers
<1>7. dist' \in [Vertices -> 0..Infinity]
    BY <1>1, <1>2, <1>4
<1>8. SsspTypes'
    BY <1>1, <1>2, <1>5, <1>6, <1>7 DEF SsspTypes, WorkloadInit
<1>9. Rooted'
    BY <1>3, <1>4 DEF Rooted
<1>10. Hangs'
    BY <1>3, <1>4 DEF Hangs
<1>11. Settled(0)'
    BY <1>3, <1>4 DEF Settled
<1>12. OneLevel(0)'
  <2>1. 0 \div Delta = 0
    <3>1. 0 \div Delta \in Nat /\ Delta * (0 \div Delta) <= 0 /\ Delta \in Nat /\ Delta > 0
        BY SsspFacts, DivFacts
    <3> DEFINE x == 0 \div Delta
    <3> HIDE DEF x
    <3>2. x \in Nat /\ Delta * x <= 0
        BY <3>1 DEF x
    <3>3. x = 0
      <4>1. SUFFICES ASSUME x >= 1 PROVE FALSE
          BY <3>2
      <4>2. 0 * Delta + Delta <= x * Delta
          BY <3>1, <3>2, <4>1, Scale
      <4>3. x * Delta = Delta * x /\ Delta * x \in Nat /\ 0 * Delta = 0
          BY <3>1, <3>2
      <4> QED BY <3>1, <3>2, <4>2, <4>3
    <3> QED BY <3>3 DEF x
  <2>2. \A v \in Vertices : dist'[v] <= 0 + 1 \/ dist'[v] = Infinity
      BY <1>3
  <2>3. \A v \in Vertices : dist'[v] = 0 <=> \E i \in 1..Len(frontier') : frontier'[i] = v
      BY <1>3, <1>4, <1>5
  <2> QED BY <1>1, <1>2, <2>1, <2>2, <2>3 DEF OneLevel
<1>13. OneBin(0)'
  <2>1. bins' = <<>> /\ 1..Len(bins') = {}
      BY <1>1, <1>2
  <2>2. \A v \in Vertices : ~(dist'[v] = 0 + 1 /\ 0 + 1 < Infinity)
      BY <1>3, <1>4
  <2> QED BY <2>1, <2>2 DEF OneBin
<1>14. ASSUME NEW t \in Threads PROVE Relaxes(0, t)' /\ Accounted(0, t)'
    BY <1>5, <1>6, FreshThread
<1>15. 0 \in 0..Infinity - 1
    BY <1>4
<1> QED BY <1>8, <1>9, <1>10, <1>11, <1>12, <1>13, <1>14, <1>15 DEF Level

LEMMA SsspStarts == SsspInit => SsspInv
<1> SUFFICES ASSUME SsspInit PROVE SsspInv
    OBVIOUS
<1>1. NoRelax \in RelaxerType /\ NoRelax.pc = "take"
    BY SsspFacts DEF NoRelax, RelaxerType
<1>2. 0 \in Vertices /\ Infinity \in 0..Infinity
    BY SsspFacts
<1> QED BY <1>1, <1>2 DEF SsspInit, SsspInv, SsspTypes

LEMMA RelaxerKeeps ==
    ASSUME SsspTypes, NEW k \in 0..Infinity - 1, Level(k), NEW t \in Threads, RelaxerStep(t)
    PROVE  SsspTypes' /\ Level(k)' /\ ssspMain' = ssspMain
<1>1. ssspMain' = ssspMain
    BY DEF RelaxerStep, Take, ReadOld, ReadNew, CompareAndSwap, StoreNew, TryAgain, Push
<1>2. SsspTypes' /\ Level(k)'
    BY TakeKeeps, ReadOldKeeps, ReadNewKeeps, CompareAndSwapKeeps, StoreNewKeeps, TryAgainKeeps,
       PushKeeps DEF RelaxerStep
<1> QED BY <1>1, <1>2

LEMMA SsspInductive == SsspInv /\ [SsspNext]_ssspVars => SsspInv'
<1> SUFFICES ASSUME SsspInv, [SsspNext]_ssspVars PROVE SsspInv'
    OBVIOUS
<1>0. SsspTypes /\ Infinity - 1 \in Nat
    BY SsspFacts DEF SsspInv
<1>1. CASE SsspStart
  <2>1. ssspMain' = "relax"
      BY <1>1 DEF SsspStart
  <2> QED BY <1>1, <2>1, StartKeeps DEF SsspInv
<1>2. ASSUME NEW t \in Threads, RelaxerStep(t) PROVE SsspInv'
  <2>1. ssspMain = "relax"
      BY <1>2 DEF SsspInv, RelaxerStep, Take, ReadOld, ReadNew, CompareAndSwap, StoreNew, TryAgain, Push
  <2>2. PICK k \in 0..Infinity - 1 : Level(k)
      BY <2>1 DEF SsspInv
  <2>3. SsspTypes' /\ Level(k)' /\ ssspMain' = "relax"
      BY <1>0, <1>2, <2>1, <2>2, RelaxerKeeps
  <2>4. \E l \in 0..Infinity - 1 : Level(l)'
      BY <2>3
  <2> QED BY <2>3, <2>4 DEF SsspInv
<1>3. CASE NextBin
  <2>1. ssspMain = "relax" /\ ssspMain' = "relax"
      BY <1>3 DEF NextBin
  <2>2. PICK k \in 0..Infinity - 1 : Level(k)
      BY <2>1 DEF SsspInv
  <2>3. SsspTypes' /\ k + 1 \in 0..Infinity - 1 /\ Level(k + 1)'
      BY <1>0, <1>3, <2>2, NextBinKeeps
  <2>4. \E l \in 0..Infinity - 1 : Level(l)'
    <3> DEFINE l == k + 1
    <3>1. l \in 0..Infinity - 1 /\ Level(l)'
        BY <2>3
    <3> HIDE DEF l
    <3> QED BY <3>1
  <2> QED BY <2>1, <2>3, <2>4 DEF SsspInv
<1>4. CASE SsspDone
  <2>1. /\ ssspMain = "relax" /\ Relaxed /\ PendingBins = {} /\ ssspMain' = "done"
        /\ edges' = edges /\ openMP' = openMP /\ start' = start /\ dist' = dist
        /\ frontier' = frontier /\ bins' = bins /\ relaxer' = relaxer
      BY <1>4 DEF SsspDone, workload
  <2>2. PICK k \in 0..Infinity - 1 : Level(k)
      BY <2>1 DEF SsspInv
  <2>3. Settled(Infinity)
      BY <1>0, <2>1, <2>2, DoneSettles
  <2>4. SsspTypes'
      BY <1>0, <2>1 DEF SsspTypes, WorkloadInit
  <2>5. Rooted' /\ Hangs'
      BY <2>1, <2>2 DEF Level, Rooted, Hangs
  <2>6. Settled(Infinity)'
      BY <2>1, <2>3 DEF Settled, Infinity
  <2>7. \A t \in Threads : relaxer'[t].pc = "take"
      BY <2>1 DEF Relaxed
  <2> QED BY <2>1, <2>4, <2>5, <2>6, <2>7 DEF SsspInv
<1>5. CASE UNCHANGED ssspVars
  <2>1. /\ ssspMain' = ssspMain /\ edges' = edges /\ openMP' = openMP /\ start' = start
        /\ dist' = dist /\ frontier' = frontier /\ bin' = bin /\ bins' = bins /\ relaxer' = relaxer
      BY <1>5 DEF ssspVars, workload
  <2>2. SsspTypes'
      BY <1>0, <2>1 DEF SsspTypes, WorkloadInit
  <2>3. ASSUME NEW k \in 0..Infinity - 1, Level(k) PROVE Level(k)'
    <3>1. Rooted' /\ Hangs' /\ Settled(k)' /\ OneLevel(k)'
        BY <2>1, <2>3 DEF Level, Rooted, Hangs, Settled, OneLevel
    <3>2. OneBin(k)'
        BY <2>1, <2>3 DEF Level, OneBin, InBin, Pushes
    <3>3. ASSUME NEW t \in Threads PROVE Relaxes(k, t)' /\ Accounted(k, t)'
      <4>1. Relaxes(k, t) /\ Accounted(k, t)
          BY <2>3 DEF Level
      <4>2. Relaxes(k, t)'
          BY <2>1, <4>1, RelaxesStay
      <4>3. Accounted(k, t)'
          BY <2>1, <4>1 DEF Accounted, Taken, Owes
      <4> QED BY <4>2, <4>3
    <3> QED BY <3>1, <3>2, <3>3 DEF Level
  <2>4. Rooted => Rooted'
      BY <2>1 DEF Rooted
  <2>5. Hangs => Hangs'
      BY <2>1 DEF Hangs
  <2>6. Settled(Infinity) => Settled(Infinity)'
      BY <2>1 DEF Settled, Infinity
  <2> QED BY <2>1, <2>2, <2>3, <2>4, <2>5, <2>6 DEF SsspInv
<1> QED BY <1>1, <1>2, <1>3, <1>4, <1>5 DEF SsspNext, SsspStep

-----------------------------------------------------------------------------
(* What the distances are in the end *)

\* A set of numbers has a least member.
LEMMA LeastOf ==
    ASSUME NEW S, S \subseteq Nat, S # {}
    PROVE  \E i \in S : \A j \in S : i <= j
<1>1. PICK i \in S : \A j \in S : ~ (<<j, i>> \in OpToRel(<, Nat))
    BY WFMin, NatLessThanWellFounded
<1>2. \A j \in S : ~ (j < i)
    BY <1>1 DEF OpToRel
<1> QED BY <1>2

\* If some vertex is as far away as there are other vertices, every vertex is on
\* the path to it: there is none without a distance.
LEMMA NoneLeft ==
    ASSUME SsspTypes, Rooted, Hangs, NEW u \in Vertices, dist[u] + 1 = Infinity,
           NEW w \in Vertices, dist[w] = Infinity
    PROVE  FALSE
<1> DEFINE At(d) == \E v \in Vertices : dist[v] = d
           Gap == {e \in 0..Infinity - 1 : ~ At(Infinity - 1 - e)}
<1>1. /\ Infinity \in Nat /\ Infinity > 0 /\ Vertices = 0..Infinity - 1
      /\ \A v \in Vertices : dist[v] \in Nat /\ dist[v] <= Infinity
    BY SsspFacts, DistFacts
<1>2. Gap = {}
  <2>1. SUFFICES ASSUME Gap # {} PROVE FALSE
      OBVIOUS
  <2>2. PICK e \in Gap : \A j \in Gap : e <= j
    <3>1. Gap \subseteq Nat
        BY <1>1
    <3> HIDE DEF Gap
    <3> QED BY <2>1, <3>1, LeastOf
  <2>3. e # 0
      BY <1>1
  <2>4. e - 1 \in 0..Infinity - 1 /\ ~(e <= e - 1)
      BY <1>1, <2>3
  <2>5. e - 1 \notin Gap
      BY <2>2, <2>4
  <2>6. PICK v \in Vertices : dist[v] = Infinity - 1 - (e - 1)
      BY <2>4, <2>5
  <2>7. 0 < dist[v] /\ dist[v] < Infinity
      BY <1>1, <2>3, <2>6
  <2>8. PICK x \in Vertices : dist[x] + 1 = dist[v]
      BY <2>7 DEF Hangs
  <2>9. dist[x] = Infinity - 1 - e
    <3>1. dist[x] \in Nat /\ dist[v] \in Nat /\ Infinity \in Nat /\ e \in Nat
        BY <1>1
    <3> HIDE DEF Gap, At
    <3> QED BY <2>6, <2>8, <3>1
  <2> QED BY <2>9
<1>3. \A d \in 0..Infinity - 1 : At(d)
  <2> SUFFICES ASSUME NEW d \in 0..Infinity - 1 PROVE At(d)
      OBVIOUS
  <2> DEFINE e == Infinity - 1 - d
  <2>1. e \in 0..Infinity - 1 /\ Infinity - 1 - e = d
      BY <1>1
  <2> HIDE DEF e
  <2> QED BY <1>2, <2>1
<1> DEFINE Rest == Vertices \ {w}
           f == [v \in Rest |-> IF dist[v] < Infinity THEN dist[v] ELSE 0]
<1>4. \A d \in 0..Infinity - 1 : \E v \in Rest : f[v] = d
  <2> SUFFICES ASSUME NEW d \in 0..Infinity - 1 PROVE \E v \in Rest : f[v] = d
      OBVIOUS
  <2>1. PICK v \in Vertices : dist[v] = d
      BY <1>3
  <2>2. v \in Rest /\ f[v] = d
      BY <1>1, <2>1
  <2> QED BY <2>2
<1>5. f \in [Rest -> 0..Infinity - 1]
    BY <1>1
<1>6. IsFiniteSet(Vertices) /\ Cardinality(Vertices) = Infinity
    BY <1>1, FS_Interval
<1>7. IsFiniteSet(Rest) /\ Cardinality(Rest) = Infinity - 1
    BY <1>6, FS_RemoveElement
<1>8. f \in Surjection(Rest, 0..Infinity - 1)
    BY <1>4, <1>5 DEF Surjection
<1> HIDE DEF f, Rest
<1>9. Cardinality(0..Infinity - 1) <= Cardinality(Rest)
    BY <1>7, <1>8, FS_Surjection
<1> QED BY <1>1, <1>6, <1>7, <1>9

LEMMA AroundAre ==
    ASSUME SsspTypes, Rooted, Hangs, Settled(Infinity)
    PROVE  \A n \in 0..NumVertices : Around[n] = {v \in Vertices : dist[v] <= n /\ dist[v] < Infinity}
<1> DEFINE F == [n \in 0..NumVertices |-> {v \in Vertices : dist[v] <= n /\ dist[v] < Infinity}]
           Spread(f) == f = [n \in 0..NumVertices |-> IF n = 0 THEN {start}
                                ELSE f[n - 1] \cup UNION {Neighbors(u) : u \in f[n - 1]}]
<1>1. /\ Infinity \in Nat /\ Infinity > 0 /\ Infinity = NumVertices
      /\ start \in Vertices /\ \A v \in Vertices : dist[v] \in Nat /\ dist[v] <= Infinity
    BY SsspFacts, DistFacts DEF Infinity
<1>2. \A u \in Vertices : Neighbors(u) = {v \in Vertices : <<u, v>> \in edges}
    BY NeighborsAre DEF SsspTypes
<1>3. ASSUME NEW n \in 0..NumVertices
      PROVE  F[n] = IF n = 0 THEN {start} ELSE F[n - 1] \cup UNION {Neighbors(u) : u \in F[n - 1]}
  <2>1. CASE n = 0
    <3>1. \A v \in Vertices : dist[v] <= 0 /\ dist[v] < Infinity <=> v = start
        BY <1>1 DEF Rooted
    <3> QED BY <1>1, <2>1, <3>1
  <2>2. CASE n # 0
    <3>1. /\ n - 1 \in 0..NumVertices
          /\ F[n] = {v \in Vertices : dist[v] <= n /\ dist[v] < Infinity}
          /\ F[n - 1] = {v \in Vertices : dist[v] <= n - 1 /\ dist[v] < Infinity}
        BY <1>1, <2>2
    <3> HIDE DEF F
    <3>2. ASSUME NEW v \in F[n] PROVE v \in F[n - 1] \cup UNION {Neighbors(u) : u \in F[n - 1]}
      <4>1. CASE dist[v] <= n - 1
          BY <3>1, <3>2, <4>1
      <4>2. CASE ~(dist[v] <= n - 1)
        <5>1. v \in Vertices /\ dist[v] = n /\ dist[v] < Infinity /\ 0 < dist[v]
            BY <1>1, <2>2, <3>1, <3>2, <4>2
        <5>2. PICK u \in Vertices : <<u, v>> \in edges /\ dist[u] + 1 = dist[v]
            BY <5>1 DEF Hangs
        <5>3. u \in F[n - 1]
            BY <1>1, <3>1, <5>1, <5>2
        <5>4. v \in Neighbors(u)
            BY <1>2, <5>1, <5>2
        <5> QED BY <5>3, <5>4
      <4> QED BY <4>1, <4>2
    <3>3. ASSUME NEW u \in F[n - 1], NEW v \in Neighbors(u) PROVE v \in F[n]
      <4>1. u \in Vertices /\ dist[u] <= n - 1 /\ dist[u] < Infinity
          BY <3>1
      <4>2. v \in Vertices /\ <<u, v>> \in edges
          BY <1>2, <4>1
      <4>3. dist[v] <= dist[u] + 1
          BY <4>1, <4>2 DEF Settled
      <4>4. dist[v] < Infinity
        <5>1. SUFFICES ASSUME ~(dist[v] < Infinity) PROVE FALSE
            OBVIOUS
        <5>2. dist[v] = Infinity /\ dist[u] + 1 = Infinity
            BY <1>1, <4>1, <4>2, <4>3, <5>1
        <5> QED BY <4>1, <4>2, <5>2, NoneLeft
      <4> QED BY <1>1, <3>1, <4>1, <4>2, <4>3, <4>4
    <3>4. ASSUME NEW v \in F[n - 1] PROVE v \in F[n]
        BY <1>1, <3>1
    <3> QED BY <2>2, <3>2, <3>3, <3>4
  <2> QED BY <2>1, <2>2
<1>4. Spread(F)
  <2>1. F = [n \in 0..NumVertices |-> F[n]]
      OBVIOUS
  <2> HIDE DEF F
  <2> QED BY <1>3, <2>1
<1>5. Spread(Around)
    BY <1>4 DEF Around
<1>6. \A n \in 0..NumVertices :
        Around[n] = IF n = 0 THEN {start} ELSE Around[n - 1] \cup UNION {Neighbors(u) : u \in Around[n - 1]}
    BY <1>5
<1> HIDE DEF F
<1> DEFINE Bad == {n \in 0..NumVertices : Around[n] # F[n]}
<1>7. Bad = {}
  <2>1. SUFFICES ASSUME Bad # {} PROVE FALSE
      OBVIOUS
  <2>2. PICK m \in Bad : \A j \in Bad : m <= j
    <3>1. Bad \subseteq Nat
        BY <1>1
    <3> HIDE DEF Bad
    <3> QED BY <2>1, <3>1, LeastOf
  <2>3. m # 0
      BY <1>3, <1>6
  <2>4. m - 1 \in 0..NumVertices /\ ~(m <= m - 1)
      BY <1>1, <2>3
  <2>5. Around[m - 1] = F[m - 1]
      BY <2>2, <2>4
  <2>6. Around[m] = F[m]
      BY <1>3, <1>6, <2>3, <2>5
  <2> QED BY <2>6
<1> QED BY <1>7 DEF F

LEMMA SsspInvExact == SsspInv => SsspExact
<1> SUFFICES ASSUME SsspInv, ssspMain = "done", NEW v \in Vertices
             PROVE  /\ dist[v] < Infinity =>
                          v \in Around[dist[v]] /\ \A n \in 0..dist[v] - 1 : v \notin Around[n]
                    /\ dist[v] = Infinity => v \notin Around[NumVertices]
    BY DEF SsspExact
<1>1. SsspTypes /\ Rooted /\ Hangs /\ Settled(Infinity)
    BY DEF SsspInv
<1>2. \A n \in 0..NumVertices : Around[n] = {x \in Vertices : dist[x] <= n /\ dist[x] < Infinity}
    BY <1>1, AroundAre
<1>3. dist[v] \in Nat /\ dist[v] <= Infinity /\ Infinity \in Nat /\ Infinity = NumVertices
    BY <1>1, DistFacts, SsspFacts DEF Infinity
<1>4. ASSUME dist[v] < Infinity
      PROVE  v \in Around[dist[v]] /\ \A n \in 0..dist[v] - 1 : v \notin Around[n]
  <2>1. dist[v] \in 0..NumVertices /\ \A n \in 0..dist[v] - 1 : n \in 0..NumVertices /\ ~(dist[v] <= n)
      BY <1>3
  <2> QED BY <1>2, <1>4, <2>1
<1>5. ASSUME dist[v] = Infinity PROVE v \notin Around[NumVertices]
  <2>1. NumVertices \in 0..NumVertices
      BY <1>3
  <2> QED BY <1>2, <1>3, <1>5, <2>1
<1> QED BY <1>4, <1>5

\* sssp() (SSSP.h:51-134) returns the exact distances in every graph, with any number
\* of threads and any delta, also with the compare-and-swap of the serial fallback.
THEOREM SsspIsExact == SsspSpec => []SsspExact
<1>1. SsspInit => SsspInv
    BY SsspStarts
<1>2. SsspInv /\ [SsspNext]_ssspVars => SsspInv'
    BY SsspInductive
<1>3. SsspInv => SsspExact
    BY SsspInvExact
<1> QED BY <1>1, <1>2, <1>3, PTL DEF SsspSpec

-----------------------------------------------------------------------------
(* Breadth-first search: the queue *)

WalkerType == [pc : {"end", "vertex", "reserve", "add", "copy", "look", "load", "store"},
               at : Nat, nbrs : SUBSET Vertices, buf : Seq(Vertices), hits : Int,
               room : Nat, word : SUBSET Vertices, found : Int]
BfsTypes ==
    /\ WorkloadInit
    /\ source \in Vertices /\ distances \in [Vertices -> Int] /\ distance \in Nat
    /\ shared \in [Vertices -> Int] /\ sharedIn \in Nat /\ outStart \in Nat /\ outEnd \in Nat
    /\ front \subseteq Vertices /\ curr \subseteq Vertices
    /\ bfsMain \in {"off", "loop", "td", "bu", "done"}
    /\ walker \in [Threads -> WalkerType]

TopDown  == {"vertex", "reserve", "add", "copy"}
BottomUps == {"look", "load", "store"}

\* The vertices visited before this turn, and those visited in it.
Visited == {v \in Vertices : 0 <= distances[v] /\ distances[v] < distance}
Newest  == {v \in Vertices : distances[v] = distance}

\* A thread with pc "copy" or "end" has added the length of its buffer to shared_in.
Books(t) == walker[t].pc \in {"copy", "end"}
Booked == {v \in Vertices : \E t \in Threads : Books(t) /\ \E j \in 1..Len(walker[t].buf) : walker[t].buf[j] = v}

\* The place of a thread's buffer in shared[].
Place(t) == walker[t].room .. walker[t].room + Len(walker[t].buf) - 1

\* Every entry before n is written, or in the place of a thread about to write it.
Entry(i)  == shared[i] \in Vertices \/ \E t \in Threads : walker[t].pc = "copy" /\ i \in Place(t)
Filled(n) == \A i \in 0..n - 1 : Entry(i)

\* A vertex is in one buffer, once, and it was visited in this turn.
OneBuffer ==
    \A s, t \in Threads : \A i \in 1..Len(walker[s].buf) : \A j \in 1..Len(walker[t].buf) :
        walker[s].buf[i] = walker[t].buf[j] => s = t /\ i = j
BuffersNew ==
    \A t \in Threads : \A j \in 1..Len(walker[t].buf) : distances[walker[t].buf[j]] = distance

\* shared_in counts no more than the buffers that were added to it, although the
\* serial fallback may forget one.
QueueTurn ==
    bfsMain = "td" =>
        /\ OneBuffer /\ BuffersNew
        /\ outEnd <= sharedIn /\ sharedIn <= outEnd + Cardinality(Booked)
        /\ \A t \in Threads : walker[t].pc = "add" =>
              /\ outEnd <= walker[t].room /\ walker[t].room <= outEnd + Cardinality(Booked)
              /\ Filled(walker[t].room)

BitmapTurn ==
    bfsMain = "bu" =>
        /\ curr \subseteq Newest
        /\ \A t \in Threads : walker[t].pc \in {"load", "store"} => walker[t].at \in Newest
        /\ \A t \in Threads : walker[t].pc = "store" => walker[t].word \subseteq Newest

QueueInv ==
    /\ BfsTypes
    /\ outStart <= outEnd /\ outEnd <= Cardinality(Visited)
    /\ Filled(sharedIn)
    /\ bfsMain # "td" => sharedIn = outEnd /\ \A t \in Threads : walker[t].pc \notin TopDown
    /\ bfsMain # "bu" => \A t \in Threads : walker[t].pc \notin BottomUps
    /\ QueueTurn /\ BitmapTurn


LEMMA IdleFacts ==
    /\ Idle \in WalkerType /\ Idle.pc = "end" /\ Idle.buf = <<>> /\ Idle.nbrs = {} /\ Idle.at = 0
    /\ Len(Idle.buf) = 0
BY EmptySeq DEF Idle, WalkerType

LEMMA WalkerFacts ==
    ASSUME BfsTypes, NEW t \in Threads
    PROVE  /\ walker[t] \in WalkerType
           /\ walker[t].at \in Nat /\ walker[t].nbrs \subseteq Vertices
           /\ walker[t].buf \in Seq(Vertices) /\ Len(walker[t].buf) \in Nat
           /\ \A j \in 1..Len(walker[t].buf) : walker[t].buf[j] \in Vertices
           /\ walker[t].room \in Nat /\ walker[t].word \subseteq Vertices
           /\ walker[t].hits \in Int /\ walker[t].found \in Int
           /\ walker[t].pc \in {"end", "vertex", "reserve", "add", "copy", "look", "load", "store"}
<1>1. walker[t] \in WalkerType
    BY DEF BfsTypes
<1>2. walker[t].buf \in Seq(Vertices)
    BY <1>1 DEF WalkerType
<1>3. Len(walker[t].buf) \in Nat /\ \A j \in 1..Len(walker[t].buf) : walker[t].buf[j] \in Vertices
    BY <1>2, LenProperties, ElementOfSeq
<1> QED BY <1>1, <1>2, <1>3 DEF WalkerType

\* The locals after a step of one thread.
LEMMA OthersWait ==
    ASSUME BfsTypes, NEW t \in Threads, NEW r \in WalkerType, walker' = [walker EXCEPT ![t] = r]
    PROVE  /\ walker' \in [Threads -> WalkerType]
           /\ walker'[t] = r
           /\ \A s \in Threads : s # t => walker'[s] = walker[s]
BY DEF BfsTypes

LEMMA Sizes ==
    /\ IsFiniteSet(Vertices) /\ Cardinality(Vertices) = NumVertices
    /\ \A S : S \subseteq Vertices =>
          IsFiniteSet(S) /\ Cardinality(S) \in Nat /\ Cardinality(S) <= NumVertices
    /\ \A S, T : S \subseteq T /\ T \subseteq Vertices => Cardinality(S) <= Cardinality(T)
<1>1. IsFiniteSet(Vertices) /\ Cardinality(Vertices) = NumVertices
    BY WorkloadAssumption, FS_Interval DEF Vertices
<1>2. ASSUME NEW S, S \subseteq Vertices
      PROVE  IsFiniteSet(S) /\ Cardinality(S) \in Nat /\ Cardinality(S) <= NumVertices
    BY <1>1, <1>2, FS_Subset, FS_CardinalityType
<1>3. ASSUME NEW S, NEW T, S \subseteq T, T \subseteq Vertices
      PROVE  Cardinality(S) <= Cardinality(T)
    BY <1>2, <1>3, FS_Subset
<1> QED BY <1>1, <1>2, <1>3

\* Two sets of vertices that do not meet.
LEMMA Apart ==
    ASSUME NEW S, NEW T, S \subseteq Vertices, T \subseteq Vertices, S \cap T = {}
    PROVE  Cardinality(S \cup T) = Cardinality(S) + Cardinality(T)
<1>1. IsFiniteSet(S) /\ IsFiniteSet(T) /\ Cardinality(S) \in Nat /\ Cardinality(T) \in Nat
    BY Sizes
<1>2. Cardinality(S \cup T) = Cardinality(S) + Cardinality(T) - Cardinality(S \cap T)
    BY <1>1, FS_Union
<1>3. Cardinality(S \cap T) = 0
    BY FS_EmptySet
<1> QED BY <1>1, <1>2, <1>3

\* The queue never holds more than the visited vertices.
LEMMA Counts ==
    ASSUME BfsTypes
    PROVE  /\ Cardinality(Visited) \in Nat /\ Cardinality(Newest) \in Nat
           /\ Cardinality(Visited) + Cardinality(Newest) <= NumVertices
           /\ Cardinality(Visited \cup Newest) = Cardinality(Visited) + Cardinality(Newest)
<1>1. Visited \subseteq Vertices /\ Newest \subseteq Vertices /\ Visited \cap Newest = {}
    BY DEF Visited, Newest, BfsTypes
<1>2. Visited \cup Newest \subseteq Vertices
    BY <1>1
<1> QED BY <1>1, <1>2, Sizes, Apart

LEMMA BookedCounts ==
    ASSUME QueueInv, bfsMain = "td"
    PROVE  /\ Booked \subseteq Newest /\ Cardinality(Booked) \in Nat
           /\ outEnd + Cardinality(Booked) <= NumVertices
           /\ outEnd + Cardinality(Booked) <= Cardinality(Visited) + Cardinality(Newest)
<1>1. BfsTypes /\ BuffersNew /\ outEnd <= Cardinality(Visited)
    BY DEF QueueInv, QueueTurn
<1>2. Booked \subseteq Newest /\ Newest \subseteq Vertices
    BY <1>1 DEF Booked, Newest, BuffersNew
<1>3. outEnd \in Nat
    BY <1>1 DEF BfsTypes
<1> QED BY <1>1, <1>2, <1>3, Sizes, Counts

LEMMA NoCopying ==
    ASSUME QueueInv, bfsMain # "td"
    PROVE  sharedIn = outEnd /\ \A i \in 0..sharedIn - 1 : shared[i] \in Vertices
BY DEF QueueInv, Filled, Entry, TopDown

LEMMA QueueInvFits == QueueInv => QueueFits
<1> SUFFICES ASSUME QueueInv PROVE QueueFits
    OBVIOUS
<1>1. sharedIn <= NumVertices
  <2>1. sharedIn \in Nat /\ outEnd \in Nat
      BY DEF QueueInv, BfsTypes
  <2>2. CASE bfsMain = "td"
      BY <2>1, <2>2, BookedCounts, WorkloadAssumption DEF QueueInv, QueueTurn
  <2>3. CASE bfsMain # "td"
      BY <2>1, <2>3, Counts, WorkloadAssumption DEF QueueInv
  <2> QED BY <2>2, <2>3
<1>2. ASSUME bfsMain = "loop", NEW i \in outStart..outEnd - 1 PROVE shared[i] # Unwritten
  <2>1. i \in 0..sharedIn - 1
      BY <1>2, NoCopying DEF QueueInv, BfsTypes
  <2>2. shared[i] \in Vertices
      BY <1>2, <2>1, NoCopying
  <2> QED BY <2>2 DEF Vertices, Unwritten
<1> QED BY <1>1, <1>2 DEF QueueFits

-----------------------------------------------------------------------------
LEMMA QueueStarts == BfsInit => QueueInv
<1> SUFFICES ASSUME BfsInit PROVE QueueInv
    OBVIOUS
<1>1. \A t \in Threads : walker[t] = Idle
    BY DEF BfsInit
<1>2. BfsTypes
  <2>1. 0 \in Vertices
      BY WorkloadAssumption DEF Vertices
  <2>2. walker \in [Threads -> WalkerType]
      BY IdleFacts DEF BfsInit
  <2> QED BY <2>1, <2>2 DEF BfsInit, BfsTypes, Unwritten
<1>3. Cardinality(Visited) \in Nat
    BY <1>2, Counts
<1>4. Filled(sharedIn)
    BY DEF BfsInit, Filled
<1> QED BY <1>1, <1>2, <1>3, <1>4, IdleFacts
        DEF BfsInit, QueueInv, QueueTurn, BitmapTurn, TopDown, BottomUps

\* Before the search starts no thread has anything in hand.
LEMMA AllEnded ==
    ASSUME QueueInv, bfsMain \in {"off", "loop", "done"}
    PROVE  \A t \in Threads : walker[t].pc = "end"
BY WalkerFacts DEF QueueInv, TopDown, BottomUps

LEMMA StartQueue == ASSUME QueueInv, BfsStart PROVE QueueInv'
<1>1. /\ bfsMain' = "loop" /\ source' \in Vertices /\ walker' = walker
      /\ sharedIn' = 1 /\ outStart' = 0 /\ outEnd' = 1 /\ distance' = 1
      /\ shared' = [shared EXCEPT ![0] = source']
      /\ edges' = edges /\ openMP' = openMP /\ front' = front /\ curr' = curr
      /\ BfsTypes
    BY BfsAssumption DEF BfsStart, QueueInv, workload, mapVars
<1>2. 0 \in Vertices
    BY WorkloadAssumption DEF Vertices
<1>3. distances' \in [Vertices -> Int] /\ distances'[source'] = 0
  <2>1. ASSUME NEW v \in Vertices PROVE Degree(v) \in Nat
    <3>1. Neighbors(v) \subseteq Vertices
        BY <1>1, NeighborsAre DEF BfsTypes
    <3> QED BY <3>1, Sizes DEF Degree
  <2>2. distances' = [v \in Vertices |-> IF v = source' THEN 0 ELSE IF Degree(v) = 0 THEN -1 ELSE -Degree(v)]
      BY DEF BfsStart
  <2> QED BY <1>1, <2>1, <2>2
<1>4. BfsTypes'
    BY <1>1, <1>2, <1>3 DEF BfsTypes, WorkloadInit, Vertices
<1>5. 1 <= Cardinality(Visited')
  <2>1. source' \in Visited'
      BY <1>1, <1>3 DEF Visited
  <2>2. Visited' \subseteq Vertices
      BY DEF Visited
  <2>3. Cardinality({source'}) = 1
      BY FS_Singleton
  <2> QED BY <2>1, <2>2, <2>3, Sizes
<1>6. Filled(sharedIn)'
    BY <1>1, <1>2 DEF Filled, Entry, BfsTypes
<1>7. \A t \in Threads : walker'[t].pc = "end"
    BY <1>1, AllEnded DEF BfsStart
<1> QED BY <1>1, <1>4, <1>5, <1>6, <1>7 DEF QueueInv, QueueTurn, BitmapTurn, TopDown, BottomUps

LEMMA DoneQueue == ASSUME QueueInv, BfsDone PROVE QueueInv'
<1>1. /\ bfsMain = "loop" /\ bfsMain' = "done"
      /\ UNCHANGED <<edges, openMP, distances, shared, sharedIn, outStart, outEnd, front, curr,
                     source, distance, walker>>
    BY DEF BfsDone, workload, queueVars, mapVars, loopVars
<1>2. BfsTypes' /\ Cardinality(Visited') = Cardinality(Visited)
    BY <1>1 DEF QueueInv, BfsTypes, WorkloadInit, Visited
<1>3. Filled(sharedIn)'
    BY <1>1 DEF QueueInv, Filled, Entry, Place
<1> QED BY <1>1, <1>2, <1>3, AllEnded DEF QueueInv, QueueTurn, BitmapTurn, TopDown, BottomUps

LEMMA SpawnQueue == ASSUME QueueInv, SpawnTopDown PROVE QueueInv'
<1>1. /\ bfsMain = "loop" /\ bfsMain' = "td"
      /\ UNCHANGED <<edges, openMP, distances, shared, sharedIn, outStart, outEnd, front, curr,
                     source, distance>>
      /\ outEnd \in Nat /\ outStart \in Nat /\ outStart <= outEnd
    BY DEF SpawnTopDown, workload, queueVars, mapVars, QueueInv, BfsTypes
<1>2. \A t \in Threads : /\ walker'[t] \in WalkerType /\ Len(walker'[t].buf) = 0
                         /\ walker'[t].pc \in {"vertex", "end"}
  <2> SUFFICES ASSUME NEW t \in Threads
               PROVE  /\ walker'[t] \in WalkerType /\ Len(walker'[t].buf) = 0
                      /\ walker'[t].pc \in {"vertex", "end"}
      OBVIOUS
  <2> DEFINE n == outEnd - outStart
             w == [Idle EXCEPT !.pc = "vertex", !.at = outStart + ChunkBegin(t, n)]
  <2>1. ChunkBegin(t, n) \in Nat
    <3>1. n \in Nat
        BY <1>1
    <3> HIDE DEF n
    <3> QED BY <3>1, ChunkEndFacts
  <2>2. outStart + ChunkBegin(t, n) \in Nat
      BY <1>1, <2>1
  <2>3. w \in WalkerType /\ w.pc = "vertex" /\ w.buf = <<>>
      BY <2>2, IdleFacts DEF WalkerType
  <2>4. walker'[t] = w \/ walker'[t] = Idle
      BY DEF SpawnTopDown, QueueSize
  <2> HIDE DEF w
  <2> QED BY <2>3, <2>4, IdleFacts, EmptySeq
<1>3. BfsTypes' /\ Cardinality(Visited') = Cardinality(Visited)
  <2>1. walker' \in [Threads -> WalkerType]
      BY <1>2 DEF SpawnTopDown
  <2> QED BY <1>1, <2>1 DEF QueueInv, BfsTypes, WorkloadInit, Visited
<1>4. sharedIn = outEnd /\ Filled(sharedIn)'
    BY <1>1, NoCopying DEF Filled, Entry
<1>5. Booked' = {} /\ Cardinality(Booked') = 0
    BY <1>2, FS_EmptySet DEF Booked
<1>6. QueueTurn'
    BY <1>1, <1>2, <1>4, <1>5 DEF QueueTurn, OneBuffer, BuffersNew
<1> QED BY <1>1, <1>2, <1>3, <1>4, <1>6 DEF QueueInv, BitmapTurn, BottomUps

-----------------------------------------------------------------------------
\* In a step of the queue only one thread is not at its end for good: what the others
\* rely on stays.
LEMMA InTopDown ==
    ASSUME QueueInv, NEW t \in Threads, walker[t].pc \in TopDown
    PROVE  /\ bfsMain = "td" /\ BfsTypes
           /\ OneBuffer /\ BuffersNew
           /\ outEnd <= sharedIn /\ sharedIn <= outEnd + Cardinality(Booked)
           /\ outStart <= outEnd /\ outEnd <= Cardinality(Visited)
           /\ Filled(sharedIn)
           /\ \A s \in Threads : walker[s].pc \notin BottomUps
BY DEF QueueInv, QueueTurn

TdStill == /\ bfsMain' = bfsMain
           /\ UNCHANGED <<edges, openMP, source, distance, outStart, outEnd, front, curr>>

\* A thread that has not come to its flush yet changes its position only.
LEMMA HandStep ==
    ASSUME QueueInv, NEW t \in Threads, walker[t].pc \in {"vertex", "reserve"},
           NEW r \in WalkerType, r.pc \in {"vertex", "reserve"}, r.buf = walker[t].buf,
           walker' = [walker EXCEPT ![t] = r],
           TdStill, distances' = distances, shared' = shared, sharedIn' = sharedIn
    PROVE  QueueInv'
<1>1. /\ bfsMain = "td" /\ BfsTypes /\ QueueTurn
      /\ outStart <= outEnd /\ outEnd <= Cardinality(Visited) /\ Filled(sharedIn)
    BY InTopDown DEF TopDown, QueueInv
<1>2. /\ walker' \in [Threads -> WalkerType] /\ walker'[t] = r
      /\ \A s \in Threads : s # t => walker'[s] = walker[s]
    BY <1>1, OthersWait
<1>3. BfsTypes' /\ Visited' = Visited
    BY <1>1, <1>2 DEF BfsTypes, WorkloadInit, TdStill, Visited
<1>4. \A s \in Threads :
         /\ walker'[s].buf = walker[s].buf /\ (Books(s)' <=> Books(s))
         /\ walker[s].pc \in {"add", "copy"} => walker'[s] = walker[s]
         /\ walker'[s].pc \in {"add", "copy"} => walker'[s] = walker[s]
         /\ walker'[s].pc \notin BottomUps
    BY <1>1, <1>2, InTopDown DEF Books, TopDown, BottomUps
<1>5. Booked' = Booked
    BY <1>4 DEF Booked
<1>6. \A i \in Nat : Entry(i) => Entry(i)'
    BY <1>4 DEF Entry, Place
<1>7. Filled(sharedIn)'
    BY <1>1, <1>6 DEF Filled
<1>8. OneBuffer' /\ BuffersNew'
    BY <1>1, <1>4 DEF QueueTurn, OneBuffer, BuffersNew, TdStill
<1>9. QueueTurn'
  <2>1. ASSUME NEW s \in Threads, walker'[s].pc = "add"
        PROVE  /\ outEnd <= walker'[s].room /\ walker'[s].room <= outEnd + Cardinality(Booked)
               /\ Filled(walker[s].room)'
    <3>1. walker'[s] = walker[s]
        BY <1>4, <2>1
    <3> QED BY <1>1, <1>6, <2>1, <3>1 DEF QueueTurn, Filled
  <2> QED BY <1>1, <1>4, <1>5, <1>8, <2>1 DEF QueueTurn, TdStill
<1> QED BY <1>1, <1>3, <1>4, <1>7, <1>9 DEF QueueInv, BitmapTurn, TdStill

LEMMA TakeQueue == ASSUME QueueInv, NEW t \in Threads, TakeVertex(t) PROVE QueueInv'
<1> DEFINE w == walker[t]
           a == [w EXCEPT !.pc = "reserve"]
           e == Neighbors(shared[w.at]) \ {shared[w.at]}
           b == [w EXCEPT !.at = w.at + 1, !.nbrs = e]
<1>1. /\ w.pc = "vertex" /\ BfsTypes /\ w \in WalkerType /\ w.at \in Nat
      /\ distances' = distances /\ shared' = shared /\ sharedIn' = sharedIn /\ TdStill
    BY WalkerFacts DEF TakeVertex, QueueInv, TdStill, workload, queueVars, mapVars, loopVars
<1>2. a \in WalkerType /\ a.pc = "reserve" /\ a.buf = w.buf
    BY <1>1 DEF WalkerType
<1>3. b \in WalkerType /\ b.pc = "vertex" /\ b.buf = w.buf
  <2>1. e \in SUBSET Vertices /\ w.at + 1 \in Nat
    <3>1. Neighbors(shared[w.at]) = {v \in Vertices : <<shared[w.at], v>> \in edges}
        BY <1>1, NeighborsAre DEF BfsTypes
    <3> HIDE DEF w
    <3> QED BY <1>1, <3>1
  <2> HIDE DEF e, w
  <2> QED BY <1>1, <2>1 DEF WalkerType
<1>4. walker' = [walker EXCEPT ![t] = a] \/ walker' = [walker EXCEPT ![t] = b]
    BY DEF TakeVertex
<1> HIDE DEF a, b
<1> QED BY <1>1, <1>2, <1>3, <1>4, HandStep

\* The vertex that is claimed is in no buffer yet.
LEMMA ClaimQueue == ASSUME QueueInv, NEW t \in Threads, Claim(t) PROVE QueueInv'
<1> DEFINE w == walker[t]
<1>1. /\ w.pc = "vertex" /\ BfsTypes /\ w \in WalkerType
      /\ w.buf \in Seq(Vertices) /\ w.nbrs \subseteq Vertices
      /\ shared' = shared /\ sharedIn' = sharedIn /\ TdStill /\ distance \in Nat
    BY WalkerFacts DEF Claim, QueueInv, TdStill, workload, queueVars, mapVars, loopVars, BfsTypes
<1>2. /\ bfsMain = "td" /\ QueueTurn /\ OneBuffer /\ BuffersNew
      /\ outStart <= outEnd /\ outEnd <= Cardinality(Visited) /\ Filled(sharedIn)
    BY <1>1, InTopDown DEF TopDown, QueueInv
<1>3. PICK v \in w.nbrs :
        /\ distances' = [distances EXCEPT ![v] = IF distances[v] < 0 THEN distance ELSE @]
        /\ walker' = [walker EXCEPT ![t] =
              [w EXCEPT !.nbrs = w.nbrs \ {v},
                        !.buf = IF distances[v] < 0 THEN Append(w.buf, v) ELSE w.buf,
                        !.found = IF distances[v] < 0 THEN w.found - distances[v] ELSE w.found]]
    BY DEF Claim
<1>4. v \in Vertices /\ distances[v] \in Int /\ distances \in [Vertices -> Int]
    BY <1>1 DEF BfsTypes
<1>5. CASE ~(distances[v] < 0)
  <2> DEFINE r == [w EXCEPT !.nbrs = w.nbrs \ {v}]
  <2>1. distances' = distances
      BY <1>3, <1>4, <1>5
  <2>2. r \in WalkerType /\ r.pc = "vertex" /\ r.buf = w.buf
      BY <1>1 DEF WalkerType
  <2>3. walker' = [walker EXCEPT ![t] = r]
    <3>1. r = [w EXCEPT !.nbrs = w.nbrs \ {v}, !.buf = w.buf, !.found = w.found]
        BY <1>1 DEF WalkerType
    <3> QED BY <1>3, <1>5, <3>1
  <2> HIDE DEF r
  <2> QED BY <1>1, <2>1, <2>2, <2>3, HandStep
<1>6. CASE distances[v] < 0
  <2> DEFINE r == [w EXCEPT !.nbrs = w.nbrs \ {v}, !.buf = Append(w.buf, v),
                            !.found = w.found - distances[v]]
             n == Len(w.buf)
  <2>1. /\ Append(w.buf, v) \in Seq(Vertices) /\ Len(Append(w.buf, v)) = n + 1
        /\ \A i \in 1..n : Append(w.buf, v)[i] = w.buf[i]
        /\ Append(w.buf, v)[n + 1] = v /\ n \in Nat
      BY <1>1, <1>4, AppendProperties, LenProperties
  <2>2. r \in WalkerType /\ r.pc = "vertex" /\ r.buf = Append(w.buf, v)
    <3>1. w.found - distances[v] \in Int /\ w.nbrs \ {v} \in SUBSET Vertices
        BY <1>1, <1>4 DEF WalkerType
    <3> QED BY <1>1, <2>1, <3>1 DEF WalkerType
  <2>3. walker' = [walker EXCEPT ![t] = r]
      BY <1>3, <1>6
  <2>4. /\ distances' \in [Vertices -> Int]
        /\ \A x \in Vertices : distances'[x] = IF x = v THEN distance ELSE distances[x]
      BY <1>1, <1>3, <1>4, <1>6
  <2> HIDE DEF r
  <2>5. /\ walker' \in [Threads -> WalkerType] /\ walker'[t] = r
        /\ \A s \in Threads : s # t => walker'[s] = walker[s]
      BY <1>1, <2>2, <2>3, OthersWait
  <2>6. BfsTypes'
      BY <1>1, <2>4, <2>5 DEF BfsTypes, WorkloadInit, TdStill
  <2>7. Visited' = Visited
      BY <1>1, <1>4, <1>6, <2>4 DEF Visited, TdStill
  <2>8. \A s \in Threads :
           /\ Books(s)' <=> Books(s)
           /\ s # t => walker'[s].buf = walker[s].buf
           /\ walker[s].pc \in {"add", "copy"} => walker'[s] = walker[s]
           /\ walker'[s].pc \in {"add", "copy"} => walker'[s] = walker[s]
           /\ walker'[s].pc \notin BottomUps
      BY <1>1, <1>2, <2>2, <2>5, InTopDown DEF Books, TopDown, BottomUps
  <2>9. Booked' = Booked
    <3>1. \A s \in Threads : Books(s) => walker'[s].buf = walker[s].buf
        BY <1>1, <2>8 DEF Books
    <3> QED BY <2>8, <3>1 DEF Booked
  <2>10. \A i \in Nat : Entry(i) => Entry(i)'
      BY <1>1, <2>8 DEF Entry, Place
  <2>11. Filled(sharedIn)'
      BY <1>1, <1>2, <2>10 DEF Filled
  <2>12. \A s \in Threads : \A i \in 1..Len(walker[s].buf) :
            walker[s].buf[i] # v /\ walker[s].buf[i] \in Vertices /\ distances[walker[s].buf[i]] = distance
      BY <1>1, <1>2, <1>6, WalkerFacts DEF BuffersNew
  <2>13. \A s \in Threads : \A i \in 1..Len(walker'[s].buf) :
            \/ s = t /\ i = n + 1 /\ walker'[s].buf[i] = v
            \/ i \in 1..Len(walker[s].buf) /\ walker'[s].buf[i] = walker[s].buf[i]
      BY <2>1, <2>2, <2>5, <2>8
  <2>14. BuffersNew'
    <3> SUFFICES ASSUME NEW s \in Threads, NEW i \in 1..Len(walker'[s].buf)
                 PROVE  distances'[walker'[s].buf[i]] = distance
        BY <1>1 DEF BuffersNew, TdStill
    <3> QED BY <1>4, <2>4, <2>12, <2>13
  <2>15. OneBuffer'
    <3> SUFFICES ASSUME NEW s \in Threads, NEW x \in Threads,
                        NEW i \in 1..Len(walker'[s].buf), NEW j \in 1..Len(walker'[x].buf),
                        walker'[s].buf[i] = walker'[x].buf[j]
                 PROVE  s = x /\ i = j
        BY DEF OneBuffer
    <3>1. CASE walker'[s].buf[i] = v
      <4>1. s = t /\ i = n + 1
          BY <2>12, <2>13, <3>1
      <4>2. walker'[x].buf[j] = v
          BY <3>1
      <4>3. x = t /\ j = n + 1
          BY <2>12, <2>13, <4>2
      <4> QED BY <4>1, <4>3
    <3>2. CASE walker'[s].buf[i] # v
        BY <1>2, <2>12, <2>13, <3>2 DEF OneBuffer
    <3> QED BY <3>1, <3>2
  <2>16. QueueTurn'
    <3>1. ASSUME NEW s \in Threads, walker'[s].pc = "add"
          PROVE  /\ outEnd <= walker'[s].room /\ walker'[s].room <= outEnd + Cardinality(Booked)
                 /\ Filled(walker[s].room)'
      <4>1. walker'[s] = walker[s]
          BY <2>8, <3>1
      <4> QED BY <1>2, <2>10, <3>1, <4>1 DEF QueueTurn, Filled
    <3> QED BY <1>1, <1>2, <2>8, <2>9, <2>14, <2>15, <3>1 DEF QueueTurn, TdStill
  <2> QED BY <1>1, <1>2, <2>6, <2>7, <2>8, <2>11, <2>16 DEF QueueInv, BitmapTurn, TdStill
<1> QED BY <1>5, <1>6

\* A thread that reserves room adds its buffer to what is booked.
LEMMA BooksMore ==
    ASSUME QueueInv, NEW t \in Threads, walker[t].pc \in {"reserve", "add"},
           walker'[t].pc = "copy", walker'[t].buf = walker[t].buf,
           \A s \in Threads : s # t => walker'[s] = walker[s]
    PROVE  Cardinality(Booked') = Cardinality(Booked) + Len(walker[t].buf)
<1> DEFINE b == walker[t].buf
           n == Len(b)
           More == {v \in Vertices : \E j \in 1..n : b[j] = v}
<1>1. /\ bfsMain = "td" /\ OneBuffer /\ n \in Nat
      /\ \A j \in 1..n : b[j] \in Vertices
    BY InTopDown, WalkerFacts DEF TopDown
<1>2. ~Books(t) /\ Books(t)' /\ \A s \in Threads : s # t => (Books(s)' <=> Books(s))
    BY DEF Books
<1>3. Booked' = Booked \cup More
  <2>1. ASSUME NEW v \in Booked' PROVE v \in Booked \cup More
    <3>1. PICK s \in Threads : Books(s)' /\ \E j \in 1..Len(walker'[s].buf) : walker'[s].buf[j] = v
        BY <2>1 DEF Booked
    <3>2. v \in Vertices
        BY <2>1 DEF Booked
    <3>3. CASE s = t
        BY <3>1, <3>2, <3>3
    <3>4. CASE s # t
        BY <1>2, <3>1, <3>2, <3>4 DEF Booked
    <3> QED BY <3>3, <3>4
  <2>2. ASSUME NEW v \in Booked PROVE v \in Booked'
    <3>1. PICK s \in Threads : Books(s) /\ \E j \in 1..Len(walker[s].buf) : walker[s].buf[j] = v
        BY <2>2 DEF Booked
    <3>2. s # t /\ v \in Vertices
        BY <1>2, <2>2, <3>1 DEF Booked
    <3> QED BY <1>2, <3>1, <3>2 DEF Booked
  <2>3. ASSUME NEW v \in More PROVE v \in Booked'
      BY <1>2, <2>3 DEF Booked
  <2> QED BY <2>1, <2>2, <2>3
<1>4. Booked \cap More = {}
  <2> SUFFICES ASSUME NEW v \in Booked, v \in More PROVE FALSE
      OBVIOUS
  <2>1. PICK s \in Threads : Books(s) /\ \E j \in 1..Len(walker[s].buf) : walker[s].buf[j] = v
      BY DEF Booked
  <2>2. s # t
      BY <1>2, <2>1
  <2> QED BY <1>1, <2>1, <2>2 DEF OneBuffer
<1>5. Cardinality(More) = n
  <2> DEFINE f == [j \in 1..n |-> b[j]]
  <2>1. f \in [1..n -> More]
      BY <1>1
  <2>2. \A i, j \in 1..n : f[i] = f[j] => i = j
      BY <1>1 DEF OneBuffer
  <2>3. \A v \in More : \E j \in 1..n : f[j] = v
      OBVIOUS
  <2>4. f \in Surjection(1..n, More) /\ f \in Injection(1..n, More)
      BY <2>1, <2>2, <2>3 DEF Surjection, Injection, IsInjective
  <2> HIDE DEF f, More, n
  <2>5. IsFiniteSet(1..n) /\ Cardinality(1..n) = n
      BY <1>1, FS_Interval
  <2> QED BY <2>4, <2>5, FS_Surjection
<1>6. Booked \subseteq Vertices /\ More \subseteq Vertices
    BY DEF Booked
<1> QED BY <1>3, <1>4, <1>5, <1>6, Apart

\* The buffer's place begins where shared_in was read, which may be too early when
\* another thread has stored its sum meanwhile.
LEMMA BookStep ==
    ASSUME QueueInv, NEW t \in Threads, walker[t].pc \in {"reserve", "add"}, NEW base \in Nat,
           outEnd <= base, base <= outEnd + Cardinality(Booked), Filled(base),
           NEW r \in WalkerType, r.pc = "copy", r.buf = walker[t].buf, r.room = base,
           walker' = [walker EXCEPT ![t] = r], sharedIn' = base + Len(walker[t].buf),
           TdStill, distances' = distances, shared' = shared
    PROVE  QueueInv'
<1> DEFINE n == Len(walker[t].buf)
<1>1. /\ bfsMain = "td" /\ BfsTypes /\ QueueTurn /\ n \in Nat
      /\ outStart <= outEnd /\ outEnd <= Cardinality(Visited) /\ outEnd \in Nat
    BY InTopDown, WalkerFacts DEF TopDown, QueueInv, BfsTypes
<1>2. /\ walker' \in [Threads -> WalkerType] /\ walker'[t] = r
      /\ \A s \in Threads : s # t => walker'[s] = walker[s]
    BY <1>1, OthersWait
<1>3. BfsTypes' /\ Visited' = Visited
    BY <1>1, <1>2 DEF BfsTypes, WorkloadInit, TdStill, Visited
<1>4. \A s \in Threads :
         /\ walker'[s].buf = walker[s].buf
         /\ walker[s].pc = "copy" => walker'[s] = walker[s]
         /\ walker'[s].pc = "add" => walker'[s] = walker[s]
         /\ walker'[s].pc \notin BottomUps
    BY <1>1, <1>2, InTopDown DEF TopDown, BottomUps
<1>5. Cardinality(Booked') = Cardinality(Booked) + n /\ Cardinality(Booked) \in Nat
    BY <1>1, <1>2, BooksMore, BookedCounts
<1>6. \A i \in Nat : Entry(i) => Entry(i)'
    BY <1>4 DEF Entry, Place
<1>7. Filled(sharedIn)'
  <2> SUFFICES ASSUME NEW i \in 0..base + n - 1 PROVE Entry(i)'
      BY DEF Filled
  <2>1. CASE i < base
      BY <1>6, <2>1 DEF Filled
  <2>2. CASE ~(i < base)
    <3>1. i \in Place(t)'
        BY <1>1, <1>2, <2>2 DEF Place
    <3> QED BY <1>2, <3>1 DEF Entry
  <2> QED BY <2>1, <2>2
<1>8. OneBuffer' /\ BuffersNew'
    BY <1>1, <1>4, SMTT(40) DEF QueueTurn, OneBuffer, BuffersNew, TdStill
<1>9. QueueTurn'
  <2>1. ASSUME NEW s \in Threads, walker'[s].pc = "add"
        PROVE  /\ outEnd <= walker'[s].room /\ walker'[s].room <= outEnd + Cardinality(Booked')
               /\ Filled(walker[s].room)' /\ walker'[s] = walker[s]
    <3>1. walker'[s] = walker[s] /\ walker[s].room \in Nat
        BY <1>1, <1>4, <2>1, WalkerFacts
    <3>2. walker[s].room <= outEnd + Cardinality(Booked) /\ outEnd <= walker[s].room
        BY <1>1, <2>1, <3>1 DEF QueueTurn
    <3>3. Filled(walker[s].room)'
        BY <1>1, <1>6, <2>1, <3>1 DEF QueueTurn, Filled
    <3> QED BY <1>1, <1>5, <3>1, <3>2, <3>3
  <2>2. outEnd <= sharedIn' /\ sharedIn' <= outEnd + Cardinality(Booked')
    <3>1. sharedIn' = base + n /\ base \in Nat /\ n \in Nat
        BY <1>1
    <3> HIDE DEF n
    <3> QED BY <1>1, <1>5, <3>1
  <2> QED BY <1>1, <1>8, <2>1, <2>2 DEF QueueTurn, TdStill
<1> QED BY <1>1, <1>3, <1>4, <1>7, <1>9 DEF QueueInv, BitmapTurn, TdStill

LEMMA ReserveQueue == ASSUME QueueInv, NEW t \in Threads, Reserve(t) PROVE QueueInv'
<1> DEFINE w == walker[t]
           r == [w EXCEPT !.pc = IF openMP THEN "copy" ELSE "add", !.room = sharedIn]
<1>1. /\ w.pc = "reserve" /\ w \in WalkerType /\ BfsTypes /\ sharedIn \in Nat /\ openMP \in BOOLEAN
      /\ distances' = distances /\ shared' = shared /\ TdStill
      /\ walker' = [walker EXCEPT ![t] = r]
      /\ sharedIn' = IF openMP THEN sharedIn + Len(w.buf) ELSE sharedIn
    BY WalkerFacts, WorkloadAssumption
       DEF Reserve, QueueInv, BfsTypes, WorkloadInit, TdStill, workload, mapVars, loopVars
<1>2. /\ r \in WalkerType /\ r.buf = w.buf /\ r.room = sharedIn
      /\ r.pc = IF openMP THEN "copy" ELSE "add"
    BY <1>1 DEF WalkerType
<1> HIDE DEF r
<1>3. /\ bfsMain = "td" /\ OneBuffer /\ BuffersNew /\ QueueTurn
      /\ outEnd <= sharedIn /\ sharedIn <= outEnd + Cardinality(Booked)
      /\ outStart <= outEnd /\ outEnd <= Cardinality(Visited) /\ Filled(sharedIn)
    BY <1>1, InTopDown DEF TopDown, QueueInv
<1>4. CASE openMP
    BY <1>1, <1>2, <1>3, <1>4, BookStep
<1>5. CASE ~openMP
  <2>1. /\ walker' \in [Threads -> WalkerType] /\ walker'[t] = r
        /\ \A s \in Threads : s # t => walker'[s] = walker[s]
      BY <1>1, <1>2, OthersWait
  <2>2. BfsTypes' /\ Visited' = Visited /\ sharedIn' = sharedIn
      BY <1>1, <1>5, <2>1 DEF BfsTypes, WorkloadInit, TdStill, Visited
  <2>3. \A s \in Threads :
           /\ walker'[s].buf = walker[s].buf /\ (Books(s)' <=> Books(s))
           /\ walker[s].pc = "copy" => walker'[s] = walker[s]
           /\ walker'[s].pc = "add" => s = t \/ walker'[s] = walker[s]
           /\ walker'[s].pc \notin BottomUps
      BY <1>1, <1>2, <1>5, <2>1, InTopDown DEF Books, TopDown, BottomUps
  <2>4. Booked' = Booked
      BY <2>3 DEF Booked
  <2>5. \A i \in Nat : Entry(i) => Entry(i)'
      BY <1>1, <2>3 DEF Entry, Place
  <2>6. Filled(sharedIn)'
      BY <1>1, <1>3, <2>2, <2>5 DEF Filled
  <2>7. OneBuffer' /\ BuffersNew'
      BY <1>1, <1>3, <2>3, SMTT(40) DEF OneBuffer, BuffersNew, TdStill
  <2>8. QueueTurn'
    <3>1. ASSUME NEW s \in Threads, walker'[s].pc = "add"
          PROVE  /\ outEnd <= walker'[s].room /\ walker'[s].room <= outEnd + Cardinality(Booked)
                 /\ Filled(walker[s].room)'
      <4>1. CASE s = t
          BY <1>2, <1>3, <2>1, <2>2, <2>6, <4>1 DEF Filled
      <4>2. CASE s # t
          BY <1>3, <2>1, <2>5, <3>1, <4>2, WalkerFacts DEF QueueTurn, Filled
      <4> QED BY <4>1, <4>2
    <3> QED BY <1>1, <1>3, <2>2, <2>4, <2>7, <3>1 DEF QueueTurn, TdStill
  <2> QED BY <1>1, <1>3, <2>2, <2>3, <2>6, <2>8 DEF QueueInv, BitmapTurn, TdStill
<1> QED BY <1>4, <1>5

LEMMA AddQueue == ASSUME QueueInv, NEW t \in Threads, ReserveStore(t) PROVE QueueInv'
<1> DEFINE w == walker[t]
           r == [w EXCEPT !.pc = "copy"]
<1>1. /\ w.pc = "add" /\ w \in WalkerType /\ BfsTypes /\ w.room \in Nat
      /\ distances' = distances /\ shared' = shared /\ TdStill
      /\ walker' = [walker EXCEPT ![t] = r]
      /\ sharedIn' = w.room + Len(w.buf)
    BY WalkerFacts DEF ReserveStore, QueueInv, TdStill, workload, mapVars, loopVars
<1>2. r \in WalkerType /\ r.buf = w.buf /\ r.room = w.room /\ r.pc = "copy"
    BY <1>1 DEF WalkerType
<1> HIDE DEF r
<1>3. outEnd <= w.room /\ w.room <= outEnd + Cardinality(Booked) /\ Filled(w.room)
    BY <1>1, InTopDown DEF TopDown, QueueInv, QueueTurn
<1> QED BY <1>1, <1>2, <1>3, BookStep

LEMMA CopyQueue == ASSUME QueueInv, NEW t \in Threads, CopyBuffer(t) PROVE QueueInv'
<1> DEFINE w == walker[t]
           r == [w EXCEPT !.pc = "end"]
<1>1. /\ w.pc = "copy" /\ w \in WalkerType /\ BfsTypes /\ w.room \in Nat /\ Len(w.buf) \in Nat
      /\ \A j \in 1..Len(w.buf) : w.buf[j] \in Vertices
      /\ distances' = distances /\ TdStill /\ sharedIn' = sharedIn /\ sharedIn \in Nat /\ outEnd \in Nat
      /\ walker' = [walker EXCEPT ![t] = r]
      /\ shared' = Stored(w.buf, w.room) /\ shared \in [Vertices -> Int]
    BY WalkerFacts DEF CopyBuffer, QueueInv, BfsTypes, TdStill, workload, mapVars, loopVars
<1>2. r \in WalkerType /\ r.buf = w.buf /\ r.room = w.room /\ r.pc = "end"
    BY <1>1 DEF WalkerType
<1> HIDE DEF r
<1>3. /\ bfsMain = "td" /\ OneBuffer /\ BuffersNew /\ QueueTurn
      /\ outEnd <= sharedIn /\ sharedIn <= outEnd + Cardinality(Booked)
      /\ outStart <= outEnd /\ outEnd <= Cardinality(Visited) /\ Filled(sharedIn)
      /\ Cardinality(Booked) \in Nat /\ outEnd + Cardinality(Booked) <= NumVertices
    BY <1>1, InTopDown, BookedCounts DEF TopDown, QueueInv
<1>4. /\ walker' \in [Threads -> WalkerType] /\ walker'[t] = r
      /\ \A s \in Threads : s # t => walker'[s] = walker[s]
    BY <1>1, <1>2, OthersWait
<1>5. \A i \in Vertices :
         /\ i \in Place(t) => shared'[i] \in Vertices
         /\ i \notin Place(t) => shared'[i] = shared[i]
  <2> SUFFICES ASSUME NEW i \in Vertices
               PROVE  /\ i \in Place(t) => shared'[i] \in Vertices
                      /\ i \notin Place(t) => shared'[i] = shared[i]
      OBVIOUS
  <2>1. i \in Nat /\ (i \in Place(t) <=> i - w.room \in 0..Len(w.buf) - 1)
      BY <1>1, VertexFacts, SMTT(40) DEF Place
  <2>2. i - w.room \in 0..Len(w.buf) - 1 => i - w.room + 1 \in 1..Len(w.buf)
      BY <1>1, <2>1
  <2>3. shared'[i] = IF i - w.room \in 0..Len(w.buf) - 1 THEN w.buf[i - w.room + 1] ELSE shared[i]
      BY <1>1 DEF Stored
  <2> QED BY <1>1, <2>1, <2>2, <2>3
<1>6. shared' \in [Vertices -> Int]
  <2>1. shared' = [i \in Vertices |-> shared'[i]]
      BY <1>1 DEF Stored
  <2>2. ASSUME NEW i \in Vertices PROVE shared'[i] \in Int
    <3>1. CASE i \in Place(t)
      <4>1. shared'[i] \in Vertices
          BY <1>5, <3>1
      <4> QED BY <4>1 DEF Vertices
    <3>2. CASE i \notin Place(t)
        BY <1>1, <1>5, <3>2
    <3> QED BY <3>1, <3>2
  <2> QED BY <2>1, <2>2
<1>7. BfsTypes' /\ Visited' = Visited
    BY <1>1, <1>4, <1>6 DEF BfsTypes, WorkloadInit, TdStill, Visited
<1>8. \A s \in Threads :
         /\ walker'[s].buf = walker[s].buf /\ (Books(s)' <=> Books(s))
         /\ walker[s].pc = "copy" /\ s # t => walker'[s] = walker[s]
         /\ walker'[s].pc = "add" => walker'[s] = walker[s]
         /\ walker'[s].pc \notin BottomUps
    BY <1>1, <1>2, <1>4, InTopDown DEF Books, TopDown, BottomUps
<1>9. Booked' = Booked
    BY <1>8 DEF Booked
<1>10. \A i \in Vertices : Entry(i) => Entry(i)'
  <2> SUFFICES ASSUME NEW i \in Vertices, Entry(i) PROVE Entry(i)'
      OBVIOUS
  <2>1. CASE i \in Place(t)
      BY <1>5, <2>1 DEF Entry
  <2>2. CASE i \notin Place(t)
      BY <1>5, <1>8, <2>2 DEF Entry, Place
  <2> QED BY <2>1, <2>2
<1>11. \A m \in Nat : m <= outEnd + Cardinality(Booked) => \A i \in 0..m - 1 : i \in Vertices
    BY <1>1, <1>3, WorkloadAssumption DEF Vertices
<1>12. Filled(sharedIn)'
    BY <1>1, <1>3, <1>10, <1>11 DEF Filled
<1>13. OneBuffer' /\ BuffersNew'
    BY <1>1, <1>3, <1>8, SMTT(40) DEF OneBuffer, BuffersNew, TdStill
<1>14. QueueTurn'
  <2>1. ASSUME NEW s \in Threads, walker'[s].pc = "add"
        PROVE  /\ outEnd <= walker'[s].room /\ walker'[s].room <= outEnd + Cardinality(Booked)
               /\ Filled(walker[s].room)' /\ walker'[s] = walker[s]
    <3>1. walker'[s] = walker[s] /\ walker[s].room \in Nat
        BY <1>1, <1>8, <2>1, WalkerFacts
    <3>2. /\ walker[s].room <= outEnd + Cardinality(Booked) /\ outEnd <= walker[s].room
          /\ Filled(walker[s].room)
        BY <1>3, <2>1, <3>1 DEF QueueTurn
    <3> QED BY <1>10, <1>11, <3>1, <3>2 DEF Filled
  <2> QED BY <1>1, <1>3, <1>9, <1>13, <2>1 DEF QueueTurn, TdStill
<1> QED BY <1>1, <1>3, <1>7, <1>8, <1>12, <1>14 DEF QueueInv, BitmapTurn, TdStill

\* A turn is over: its vertices join the visited ones.
LEMMA TurnOver ==
    ASSUME BfsTypes, distances' = distances, distance' = distance + 1
    PROVE  Visited' = Visited \cup Newest
BY DEF Visited, Newest, BfsTypes

LEMMA JoinQueue == ASSUME QueueInv, JoinTopDown PROVE QueueInv'
<1>1. /\ bfsMain = "td" /\ bfsMain' = "loop" /\ \A t \in Threads : walker[t].pc = "end"
      /\ outStart' = outEnd /\ outEnd' = sharedIn /\ distance' = distance + 1
      /\ UNCHANGED <<edges, openMP, distances, shared, sharedIn, front, curr, source, walker>>
      /\ BfsTypes /\ QueueTurn /\ Filled(sharedIn)
      /\ outEnd \in Nat /\ sharedIn \in Nat
    BY DEF JoinTopDown, SlideWindow, workload, mapVars, QueueInv, BfsTypes
<1>2. BfsTypes'
    BY <1>1 DEF BfsTypes, WorkloadInit
<1>3. outEnd <= sharedIn /\ sharedIn <= Cardinality(Visited')
  <2>1. Cardinality(Visited') = Cardinality(Visited) + Cardinality(Newest)
      BY <1>1, TurnOver, Counts
  <2>2. outEnd + Cardinality(Booked) <= Cardinality(Visited')
      BY <1>1, <2>1, BookedCounts
  <2>3. Cardinality(Booked) \in Nat /\ Cardinality(Visited') \in Nat
      BY <1>1, <2>1, BookedCounts, Counts
  <2> QED BY <1>1, <2>2, <2>3 DEF QueueTurn
<1>4. Filled(sharedIn)'
    BY <1>1 DEF Filled, Entry, Place
<1> QED BY <1>1, <1>2, <1>3, <1>4 DEF QueueInv, QueueTurn, BitmapTurn, TopDown, BottomUps

-----------------------------------------------------------------------------
\* The bitmap turns leave the queue alone until the last of them.
BuStill == UNCHANGED <<edges, openMP, source, shared, sharedIn, outStart, outEnd, front>>

LEMMA InBitmap ==
    ASSUME QueueInv, NEW t \in Threads, walker[t].pc \in BottomUps
    PROVE  /\ bfsMain = "bu" /\ BfsTypes /\ curr \subseteq Newest
           /\ sharedIn = outEnd /\ outStart <= outEnd /\ outEnd <= Cardinality(Visited)
           /\ \A i \in 0..sharedIn - 1 : shared[i] \in Vertices
           /\ \A s \in Threads : walker[s].pc \notin TopDown
           /\ \A s \in Threads : walker[s].pc \in {"load", "store"} => walker[s].at \in Newest
           /\ \A s \in Threads : walker[s].pc = "store" => walker[s].word \subseteq Newest
BY NoCopying DEF QueueInv, BitmapTurn

\* What a step of a thread in the bitmap has to keep.
LEMMA BitmapStep ==
    ASSUME QueueInv, NEW t \in Threads, walker[t].pc \in BottomUps,
           NEW r \in WalkerType, r.pc \in BottomUps, walker' = [walker EXCEPT ![t] = r],
           BuStill, bfsMain' = bfsMain, distance' = distance, distances' \in [Vertices -> Int],
           Visited' = Visited, Newest \subseteq Newest', curr' \subseteq Newest',
           r.pc \in {"load", "store"} => r.at \in Newest',
           r.pc = "store" => r.word \subseteq Newest'
    PROVE  QueueInv'
<1>1. /\ bfsMain = "bu" /\ BfsTypes /\ sharedIn = outEnd
      /\ outStart <= outEnd /\ outEnd <= Cardinality(Visited)
    BY InBitmap
<1>2. /\ walker' \in [Threads -> WalkerType] /\ walker'[t] = r
      /\ \A s \in Threads : s # t => walker'[s] = walker[s]
    BY <1>1, OthersWait
<1>3. Newest' \subseteq Vertices
    BY DEF Newest
<1>4. BfsTypes'
    BY <1>1, <1>2, <1>3 DEF BfsTypes, WorkloadInit, BuStill
<1>5. Filled(sharedIn)'
    BY <1>1, InBitmap DEF Filled, Entry, BuStill
<1>6. \A s \in Threads : walker'[s].pc \notin TopDown
    BY <1>2, InBitmap DEF TopDown, BottomUps
<1>7. BitmapTurn'
  <2> SUFFICES ASSUME NEW s \in Threads
               PROVE  /\ walker'[s].pc \in {"load", "store"} => walker'[s].at \in Newest'
                      /\ walker'[s].pc = "store" => walker'[s].word \subseteq Newest'
      BY DEF BitmapTurn
  <2>1. CASE s = t
      BY <1>2, <2>1
  <2>2. CASE s # t
      BY <1>2, <2>2, InBitmap
  <2> QED BY <2>1, <2>2
<1> QED BY <1>1, <1>4, <1>5, <1>6, <1>7 DEF QueueInv, QueueTurn, BuStill

LEMMA LookQueue == ASSUME QueueInv, NEW t \in Threads, Look(t) PROVE QueueInv'
<1> DEFINE w == walker[t]
           u == w.at
           hits == Cardinality(Neighbors(u) \cap front)
           a == [w EXCEPT !.pc = "load", !.hits = hits, !.found = w.found + hits]
           b == [w EXCEPT !.at = u + 1]
<1>1. /\ w.pc = "look" /\ w \in WalkerType /\ u \in Nat /\ u < ChunkEnd(t, NumVertices)
      /\ BuStill /\ bfsMain' = bfsMain /\ distance' = distance /\ curr' = curr
      /\ BfsTypes /\ distances \in [Vertices -> Int] /\ distance \in Nat
      /\ front \subseteq Vertices
    BY WalkerFacts
       DEF Look, QueueInv, BfsTypes, BuStill, workload, queueVars, mapVars, loopVars
<1>2. u \in Vertices
  <2>1. ChunkEnd(t, NumVertices) \in Nat /\ ChunkEnd(t, NumVertices) <= NumVertices
      BY WorkloadAssumption, ChunkEndFacts
  <2> HIDE DEF u
  <2> QED BY <1>1, <2>1, WorkloadAssumption DEF Vertices
<1>3. hits \in Nat
  <2>1. Neighbors(u) \cap front \subseteq Vertices
      BY <1>1
  <2> QED BY <2>1, Sizes
<1>4. a \in WalkerType /\ a.pc = "load" /\ a.at = u
  <2> DEFINE n == w.found + hits
  <2>1. n \in Int
      BY <1>1, <1>3 DEF WalkerType
  <2> HIDE DEF hits, n
  <2> DEFINE c == [w EXCEPT !.pc = "load", !.hits = hits]
  <2>2. a = [c EXCEPT !.found = n]
      BY DEF n
  <2>3. c \in WalkerType /\ c.pc = "load" /\ c.at = u
    <3>1. hits \in Int
        BY <1>3
    <3> HIDE DEF w
    <3> QED BY <1>1, <3>1 DEF WalkerType
  <2> HIDE DEF a, c
  <2> QED BY <2>1, <2>2, <2>3 DEF WalkerType
<1>5. b \in WalkerType /\ b.pc = "look"
  <2>1. u + 1 \in Nat
      BY <1>1
  <2> QED BY <1>1, <2>1 DEF WalkerType
<1>6. \/ /\ distances[u] < 0 /\ hits > 0
         /\ distances' = [distances EXCEPT ![u] = distance] /\ walker' = [walker EXCEPT ![t] = a]
      \/ distances' = distances /\ walker' = [walker EXCEPT ![t] = b]
  <2> DEFINE visit == distances[u] < 0 /\ hits > 0
  <2>1. /\ distances' = [distances EXCEPT ![u] = IF visit THEN distance ELSE @]
        /\ walker' = [walker EXCEPT ![t] = IF visit THEN a ELSE b]
      BY DEF Look
  <2> HIDE DEF a, b
  <2>2. CASE visit
      BY <2>1, <2>2
  <2>3. CASE ~visit
    <3> HIDE DEF visit
    <3> QED BY <1>1, <1>2, <2>1, <2>3
  <2> QED BY <2>2, <2>3
<1>7. curr \subseteq Newest /\ w.pc \in BottomUps
    BY <1>1, InBitmap DEF BottomUps
<1> HIDE DEF a, b
<1>8. CASE distances[u] < 0 /\ distances' = [distances EXCEPT ![u] = distance] /\ walker' = [walker EXCEPT ![t] = a]
  <2>1. \A v \in Vertices : distances'[v] = IF v = u THEN distance ELSE distances[v]
      BY <1>1, <1>8
  <2>2. Visited' = Visited /\ Newest' = Newest \cup {u} /\ distances' \in [Vertices -> Int]
      BY <1>1, <1>2, <1>8, <2>1 DEF Visited, Newest
  <2> QED BY <1>1, <1>4, <1>7, <1>8, <2>2, BitmapStep DEF BottomUps
<1>9. CASE distances' = distances /\ walker' = [walker EXCEPT ![t] = b]
  <2>1. Visited' = Visited /\ Newest' = Newest
      BY <1>1, <1>9 DEF Visited, Newest
  <2> QED BY <1>1, <1>5, <1>7, <1>9, <2>1, BitmapStep DEF BottomUps
<1> QED BY <1>6, <1>8, <1>9

LEMMA LoadQueue == ASSUME QueueInv, NEW t \in Threads, LoadWord(t) PROVE QueueInv'
<1> DEFINE w == walker[t]
           r == [w EXCEPT !.pc = "store", !.word = curr \cap Word(w.at)]
<1>1. /\ w.pc = "load" /\ w \in WalkerType
      /\ BuStill /\ bfsMain' = bfsMain /\ distance' = distance /\ curr' = curr
      /\ distances' = distances /\ walker' = [walker EXCEPT ![t] = r] /\ BfsTypes
    BY WalkerFacts DEF LoadWord, QueueInv, BuStill, workload, queueVars, mapVars, loopVars
<1>2. r \in WalkerType /\ r.pc = "store" /\ r.at = w.at /\ r.word \subseteq curr
  <2>1. curr \cap Word(w.at) \in SUBSET Vertices
      BY <1>1 DEF BfsTypes
  <2> QED BY <1>1, <2>1 DEF WalkerType
<1> HIDE DEF r
<1>3. w.pc \in BottomUps /\ curr \subseteq Newest /\ w.at \in Newest
    BY <1>1, InBitmap DEF BottomUps
<1>4. Visited' = Visited /\ Newest' = Newest /\ distances' \in [Vertices -> Int]
    BY <1>1 DEF Visited, Newest, BfsTypes
<1>5. r.pc \in BottomUps
    BY <1>2 DEF BottomUps
<1>6. curr' \subseteq Newest' /\ r.at \in Newest' /\ r.word \subseteq Newest'
    BY <1>1, <1>2, <1>3, <1>4
<1> QED BY <1>1, <1>2, <1>3, <1>4, <1>5, <1>6, BitmapStep

LEMMA StoreQueue == ASSUME QueueInv, NEW t \in Threads, StoreWord(t) PROVE QueueInv'
<1> DEFINE w == walker[t]
           a == [w EXCEPT !.pc = "load", !.hits = w.hits - 1]
           b == [w EXCEPT !.pc = "look", !.hits = 0, !.at = w.at + 1]
<1>1. /\ w.pc = "store" /\ w \in WalkerType /\ w.at \in Nat /\ w.hits \in Int
      /\ BuStill /\ bfsMain' = bfsMain /\ distance' = distance /\ distances' = distances
      /\ curr' = (curr \ Word(w.at)) \cup w.word \cup {w.at}
      /\ (walker' = [walker EXCEPT ![t] = a] \/ walker' = [walker EXCEPT ![t] = b]) /\ BfsTypes
    BY WalkerFacts DEF StoreWord, QueueInv, BuStill, workload, queueVars, mapVars, loopVars
<1>2. a \in WalkerType /\ a.pc = "load" /\ a.at = w.at
  <2>1. w.hits - 1 \in Int
      BY <1>1
  <2> HIDE DEF w
  <2> QED BY <1>1, <2>1 DEF WalkerType
<1>3. b \in WalkerType /\ b.pc = "look"
  <2> DEFINE n == w.at + 1
  <2>1. n \in Nat
      BY <1>1
  <2> HIDE DEF w, n
  <2> DEFINE none == 0
             c == [w EXCEPT !.pc = "look", !.hits = none]
  <2>2. b = [c EXCEPT !.at = n] /\ none \in Int
      BY DEF n
  <2> HIDE DEF none
  <2>3. c \in WalkerType /\ c.pc = "look"
      BY <1>1, <2>2 DEF WalkerType
  <2> HIDE DEF b, c
  <2> QED BY <2>1, <2>2, <2>3 DEF WalkerType
<1> HIDE DEF a, b
<1>4. w.pc \in BottomUps /\ curr \subseteq Newest /\ w.at \in Newest /\ w.word \subseteq Newest
    BY <1>1, InBitmap DEF BottomUps
<1>5. Visited' = Visited /\ Newest' = Newest /\ distances' \in [Vertices -> Int]
    BY <1>1 DEF Visited, Newest, BfsTypes
<1>6. curr' \subseteq Newest'
    BY <1>1, <1>4, <1>5
<1>7. a.pc \in BottomUps /\ b.pc \in BottomUps /\ a.at \in Newest'
    BY <1>2, <1>3, <1>4, <1>5 DEF BottomUps
<1>8. CASE walker' = [walker EXCEPT ![t] = a]
    BY <1>1, <1>2, <1>4, <1>5, <1>6, <1>7, <1>8, BitmapStep
<1>9. CASE walker' = [walker EXCEPT ![t] = b]
    BY <1>1, <1>3, <1>4, <1>5, <1>6, <1>7, <1>9, BitmapStep
<1> QED BY <1>1, <1>8, <1>9

\* All threads begin to look.
LEMMA SpawnsLook ==
    ASSUME SpawnBottomUp
    PROVE  /\ walker' \in [Threads -> WalkerType]
           /\ \A t \in Threads : walker'[t].pc = "look"
<1>1. ASSUME NEW t \in Threads
      PROVE  LET w == [Idle EXCEPT !.pc = "look", !.at = ChunkBegin(t, NumVertices)]
             IN  w \in WalkerType /\ w.pc = "look"
  <2>1. ChunkBegin(t, NumVertices) \in Nat
      BY WorkloadAssumption, ChunkEndFacts
  <2> QED BY <2>1, IdleFacts DEF WalkerType
<1> QED BY <1>1 DEF SpawnBottomUp

LEMMA StartBottomUpQueue == ASSUME QueueInv, StartBottomUp PROVE QueueInv'
<1>1. /\ bfsMain = "loop" /\ bfsMain' = "bu" /\ outStart' = outEnd /\ outEnd' = sharedIn
      /\ front' = front \cup {shared[i] : i \in outStart..outEnd - 1} /\ curr' = {}
      /\ UNCHANGED <<edges, openMP, distances, shared, sharedIn, source, distance>>
      /\ BfsTypes /\ outStart \in Nat /\ outEnd \in Nat /\ outEnd <= Cardinality(Visited)
      /\ SpawnBottomUp
    BY DEF StartBottomUp, SlideWindow, workload, QueueInv, BfsTypes
<1>2. sharedIn = outEnd /\ \A i \in 0..sharedIn - 1 : shared[i] \in Vertices
    BY <1>1, NoCopying
<1>3. front' \subseteq Vertices
    BY <1>1, <1>2 DEF BfsTypes
<1>4. BfsTypes' /\ Visited' = Visited
    BY <1>1, <1>3, SpawnsLook DEF BfsTypes, WorkloadInit, Visited
<1>5. Filled(sharedIn)'
    BY <1>1, <1>2 DEF Filled, Entry
<1> QED BY <1>1, <1>2, <1>4, <1>5, SpawnsLook DEF QueueInv, QueueTurn, BitmapTurn, TopDown

LEMMA JoinBitmapQueue == ASSUME QueueInv, JoinBottomUp PROVE QueueInv'
<1>1. /\ bfsMain = "bu" /\ bfsMain' = "bu" /\ front' = curr /\ curr' = {}
      /\ distance' = distance + 1
      /\ UNCHANGED <<edges, openMP, distances, shared, sharedIn, outStart, outEnd, source>>
      /\ BfsTypes /\ outStart <= outEnd /\ outEnd <= Cardinality(Visited) /\ outEnd \in Nat
      /\ SpawnBottomUp
    BY DEF JoinBottomUp, workload, queueVars, QueueInv, BfsTypes
<1>2. sharedIn = outEnd /\ \A i \in 0..sharedIn - 1 : shared[i] \in Vertices
    BY <1>1, NoCopying
<1>3. BfsTypes'
    BY <1>1, SpawnsLook DEF BfsTypes, WorkloadInit
<1>4. outEnd <= Cardinality(Visited')
  <2>1. Cardinality(Visited') = Cardinality(Visited) + Cardinality(Newest)
      BY <1>1, TurnOver, Counts
  <2> QED BY <1>1, <2>1, Counts
<1>5. Filled(sharedIn)'
    BY <1>1, <1>2 DEF Filled, Entry
<1> QED BY <1>1, <1>2, <1>3, <1>4, <1>5, SpawnsLook DEF QueueInv, QueueTurn, BitmapTurn, TopDown

\* BitmapToQueue writes each vertex of the bitmap to an entry of its own.
LEMMA SequenceOf ==
    ASSUME NEW S, S \subseteq Vertices, NEW q \in SetToSeqs(S)
    PROVE  /\ Cardinality(S) \in Nat /\ Len(q) = Cardinality(S)
           /\ \A j \in 1..Len(q) : q[j] \in S
           /\ \A v \in S : \E j \in 1..Len(q) : q[j] = v
<1> DEFINE n == Cardinality(S)
<1>1. n \in Nat /\ IsFiniteSet(S)
    BY Sizes
<1>2. q \in [1..n -> S] /\ \A i, j \in 1..n : i # j => q[i] # q[j]
    BY DEF SetToSeqs
<1> HIDE DEF n
<1>3. q \in Seq(S) /\ Len(q) = n
  <2>1. q \in Seq(S)
      BY <1>1, <1>2, SeqDef
  <2> QED BY <1>1, <1>2, <2>1, LenProperties
<1>4. q \in Injection(1..n, S)
    BY <1>2 DEF Injection, IsInjective
<1>5. q \in Surjection(1..n, S)
  <2>1. IsFiniteSet(1..n) /\ Cardinality(1..n) = n
      BY <1>1, FS_Interval
  <2>2. Cardinality(1..n) = Cardinality(S)
      BY <2>1 DEF n
  <2> QED BY <1>1, <1>4, <2>1, <2>2, FS_Injection
<1>6. \A v \in S : \E j \in 1..n : q[j] = v
    BY <1>5 DEF Surjection
<1> QED BY <1>1, <1>2, <1>3, <1>6 DEF n

LEMMA LeaveQueue == ASSUME QueueInv, LeaveBottomUp PROVE QueueInv'
<1>1. /\ bfsMain = "bu" /\ bfsMain' = "loop" /\ front' = curr /\ curr' = front
      /\ distance' = distance + 1
      /\ sharedIn' = sharedIn + Cardinality(curr) /\ outStart' = outEnd /\ outEnd' = sharedIn'
      /\ UNCHANGED <<edges, openMP, distances, source>>
      /\ BfsTypes /\ outStart <= outEnd /\ outEnd <= Cardinality(Visited) /\ outEnd \in Nat
      /\ curr \subseteq Newest /\ walker' = [t \in Threads |-> Idle]
    BY DEF LeaveBottomUp, workload, QueueInv, BfsTypes, BitmapTurn
<1>2. sharedIn = outEnd /\ \A i \in 0..sharedIn - 1 : shared[i] \in Vertices
    BY <1>1, NoCopying
<1>3. PICK q : q \in SetToSeqs(curr) /\ shared' = Stored(q, sharedIn)
    BY DEF LeaveBottomUp
<1>4. curr \subseteq Vertices
    BY <1>1 DEF BfsTypes
<1>5. /\ Cardinality(curr) \in Nat /\ Len(q) = Cardinality(curr)
      /\ \A j \in 1..Len(q) : q[j] \in Vertices
    BY <1>3, <1>4, SequenceOf
<1>6. Cardinality(Visited') = Cardinality(Visited) + Cardinality(Newest)
    BY <1>1, TurnOver, Counts
<1>7. sharedIn' <= Cardinality(Visited') /\ sharedIn' <= NumVertices /\ sharedIn' \in Nat
  <2>1. Cardinality(curr) <= Cardinality(Newest)
      BY <1>1, Sizes DEF Newest
  <2> QED BY <1>1, <1>2, <1>5, <1>6, <2>1, Counts, WorkloadAssumption
<1>8. \A i \in Vertices :
         shared'[i] = IF i - sharedIn \in 0..Len(q) - 1 THEN q[i - sharedIn + 1] ELSE shared[i]
    BY <1>3 DEF Stored
<1>9. shared' \in [Vertices -> Int]
  <2>1. shared' = [i \in Vertices |-> shared'[i]]
      BY <1>3 DEF Stored
  <2>2. ASSUME NEW i \in Vertices PROVE shared'[i] \in Int
    <3>1. CASE i - sharedIn \in 0..Len(q) - 1
      <4>1. i - sharedIn + 1 \in 1..Len(q)
          BY <1>1, <1>2, <1>5, <3>1, VertexFacts
      <4>2. shared'[i] \in Vertices
          BY <1>5, <1>8, <3>1, <4>1
      <4> QED BY <4>2 DEF Vertices
    <3>2. CASE i - sharedIn \notin 0..Len(q) - 1
        BY <1>1, <1>8, <3>2 DEF BfsTypes
    <3> QED BY <3>1, <3>2
  <2> QED BY <2>1, <2>2
<1>10. BfsTypes'
  <2>1. walker' \in [Threads -> WalkerType]
      BY <1>1, IdleFacts
  <2> QED BY <1>1, <1>7, <1>9, <2>1 DEF BfsTypes, WorkloadInit
<1>11. Filled(sharedIn)'
  <2> DEFINE n == sharedIn'
  <2> SUFFICES ASSUME NEW i \in 0..n - 1 PROVE shared'[i] \in Vertices
      BY DEF Filled, Entry
  <2>1. i \in Vertices /\ i \in Nat
    <3>1. NumVertices \in Nat
        BY WorkloadAssumption
    <3>2. n \in Nat /\ n <= NumVertices
        BY <1>7
    <3> HIDE DEF n
    <3>3. i \in 0..NumVertices - 1
        BY <3>1, <3>2
    <3> QED BY <3>3 DEF Vertices
  <2>2. CASE i < sharedIn
      BY <1>1, <1>2, <1>8, <2>1, <2>2
  <2>3. CASE ~(i < sharedIn)
    <3>1. i - sharedIn \in 0..Len(q) - 1 /\ i - sharedIn + 1 \in 1..Len(q)
        BY <1>1, <1>2, <1>5, <2>1, <2>3
    <3> QED BY <1>5, <1>8, <2>1, <3>1
  <2> QED BY <2>2, <2>3
<1>12. \A t \in Threads : walker'[t].pc = "end"
    BY <1>1, IdleFacts
<1>13. outEnd <= sharedIn'
    BY <1>1, <1>2, <1>5
<1> QED BY <1>1, <1>7, <1>10, <1>11, <1>12, <1>13
        DEF QueueInv, QueueTurn, BitmapTurn, TopDown, BottomUps

-----------------------------------------------------------------------------
LEMMA QueueInductive == QueueInv /\ [BfsNext]_bfsVars => QueueInv'
<1> SUFFICES ASSUME QueueInv, [BfsNext]_bfsVars PROVE QueueInv'
    OBVIOUS
<1>1. CASE BfsStart
    BY <1>1, StartQueue
<1>2. CASE BfsDone
    BY <1>2, DoneQueue
<1>3. CASE SpawnTopDown
    BY <1>3, SpawnQueue
<1>4. CASE JoinTopDown
    BY <1>4, JoinQueue
<1>5. CASE StartBottomUp
    BY <1>5, StartBottomUpQueue
<1>6. CASE JoinBottomUp
    BY <1>6, JoinBitmapQueue
<1>7. CASE LeaveBottomUp
    BY <1>7, LeaveQueue
<1>8. ASSUME NEW t \in Threads, WalkerStep(t) PROVE QueueInv'
    BY <1>8, TakeQueue, ClaimQueue, ReserveQueue, AddQueue, CopyQueue,
       LookQueue, LoadQueue, StoreQueue DEF WalkerStep
<1>9. CASE UNCHANGED bfsVars
  <2>1. UNCHANGED <<edges, openMP, distances, shared, sharedIn, outStart, outEnd, front, curr,
                    source, distance, bfsMain, walker>>
      BY <1>9 DEF bfsVars, workload, queueVars, mapVars, loopVars
  <2>2. BfsTypes' /\ Visited' = Visited /\ Newest' = Newest
      BY <2>1 DEF QueueInv, BfsTypes, WorkloadInit, Visited, Newest
  <2>3. \A i : Entry(i)' <=> Entry(i)
      BY <2>1 DEF Entry, Place
  <2>4. Booked' = Booked
      BY <2>1 DEF Booked, Books
  <2>5. QueueTurn' /\ Filled(sharedIn)'
      BY <2>1, <2>3, <2>4 DEF QueueInv, QueueTurn, Filled, OneBuffer, BuffersNew
  <2>6. BitmapTurn'
      BY <2>1, <2>2 DEF QueueInv, BitmapTurn
  <2> QED BY <2>1, <2>2, <2>5, <2>6 DEF QueueInv
<1> QED BY <1>1, <1>2, <1>3, <1>4, <1>5, <1>6, <1>7, <1>8, <1>9 DEF BfsNext, BfsStep

LEMMA QueueInvariant == BfsSpec => []QueueInv
BY QueueStarts, QueueInductive, PTL DEF BfsSpec

\* The queue of bfs() (gapbs.h) has room for every vertex it is given, and every entry
\* a turn walks through was written: with any number of threads, and also when the
\* serial fallback adds up shared_in unatomically and forgets a buffer.
THEOREM QueueAlwaysFits == BfsSpec => []QueueFits
<1>1. BfsSpec => []QueueInv
    BY QueueInvariant
<1>2. QueueInv => QueueFits
    BY QueueInvFits
<1> QED BY <1>1, <1>2, PTL

-----------------------------------------------------------------------------
(* Breadth-first search: the distances *)

\* The wrapper stores both directions of an edge.
BothWays == \A g \in Graphs : \A u, v \in Vertices : <<u, v>> \in g => <<v, u>> \in g

\* What distances[] says is on a path, and the edges out of the vertices nearer
\* than k are done.
FromSource == \A v \in Vertices : distances[v] = 0 <=> v = source
Reaches(u, v) == <<u, v>> \in edges /\ distances[u] + 1 = distances[v]
Linked == \A v \in Vertices : 0 < distances[v] => \E u \in Vertices : 0 <= distances[u] /\ Reaches(u, v)
Finds(u) == \A v \in Vertices : <<u, v>> \in edges => 0 <= distances[v] /\ distances[v] <= distances[u] + 1
NoFurther(k) == \A v \in Vertices : distances[v] <= k

\* The search is at the vertices with distance k.  What an earlier turn left in the
\* bitmap are visited vertices.
Layers(k) ==
    /\ distance = k + 1
    /\ FromSource /\ Linked /\ NoFurther(k + 1)
    /\ \A u \in Vertices : 0 <= distances[u] /\ distances[u] < k => Finds(u)
    /\ \A u \in front : 0 <= distances[u] /\ distances[u] <= k

\* The entries the threads of a turn walk through are the last level.
WindowIs(k) ==
    \A v \in Vertices : distances[v] = k <=> \E i \in outStart..outEnd - 1 : shared[i] = v

\* What thread 0, whose chunk is first, has walked past is done.
Walked ==
    \A i \in outStart..outEnd - 1 : walker[0].pc # "vertex" \/ i < walker[0].at =>
        \A v \in Vertices : <<shared[i], v>> \in edges =>
            \/ 0 <= distances[v]
            \/ walker[0].pc = "vertex" /\ i = walker[0].at - 1 /\ v \in walker[0].nbrs

\* A thread has neighbours of the last level in hand.
Walks(k, t) ==
    walker[t].pc = "vertex" =>
        /\ outStart <= walker[t].at /\ walker[t].at <= outEnd
        /\ \A v \in walker[t].nbrs : \E u \in Vertices : distances[u] = k /\ <<u, v>> \in edges

\* Whoever is done has copied his buffer.
Written(t) ==
    walker[t].pc = "end" =>
        \A j \in 1..Len(walker[t].buf) : shared[walker[t].room + j - 1] = walker[t].buf[j]

\* The places of the buffers partition what was added to the queue.
Placed ==
    /\ \A t \in Threads : Books(t) /\ Len(walker[t].buf) > 0 =>
          outEnd <= walker[t].room /\ walker[t].room + Len(walker[t].buf) <= sharedIn
    /\ \A s, t \in Threads : s # t /\ Books(s) /\ Books(t) => Place(s) \cap Place(t) = {}
    /\ \A i \in outEnd..sharedIn - 1 : \E t \in Threads : Books(t) /\ i \in Place(t)

Buffered(v) == \E t \in Threads : \E j \in 1..Len(walker[t].buf) : walker[t].buf[j] = v

TopDownTurn(k) ==
    /\ WindowIs(k) /\ Walked /\ Placed
    /\ \A t \in Threads : Walks(k, t) /\ Written(t)
    /\ \A v \in Vertices : distances[v] = k + 1 => Buffered(v)

\* A thread at the bitmap has looked at its chunk up to where it is.
Looks(t) ==
    /\ walker[t].pc \in BottomUps
    /\ ChunkBegin(t, NumVertices) <= walker[t].at
    /\ walker[t].pc \in {"load", "store"} => walker[t].at \in Chunk(t, NumVertices)
    /\ \A u \in Chunk(t, NumVertices) : u < walker[t].at =>
          0 <= distances[u] \/ \A x \in front : <<u, x>> \notin edges

Sets(v) == \E t \in Threads : walker[t].pc \in {"load", "store"} /\ walker[t].at = v

BottomUpTurn(k) ==
    /\ \A u \in Vertices : distances[u] = k => u \in front
    /\ \A t \in Threads : Looks(t)
    /\ \A v \in Vertices : distances[v] = k + 1 => v \in curr \/ Sets(v)

Turn(k) ==
    /\ Layers(k)
    /\ bfsMain = "loop" => NoFurther(k) /\ WindowIs(k)
    /\ bfsMain = "td" => TopDownTurn(k)
    /\ bfsMain = "bu" => BottomUpTurn(k)

Searched == FromSource /\ Linked /\ \A u \in Vertices : 0 <= distances[u] => Finds(u)

ExactInv ==
    /\ bfsMain = "off" => front = {}
    /\ bfsMain \in {"loop", "td", "bu"} => \E k \in Nat : Turn(k)
    /\ bfsMain = "done" => Searched

-----------------------------------------------------------------------------
(* Layers *)

LEMMA BfsFacts ==
    ASSUME BfsTypes
    PROVE  /\ distances \in [Vertices -> Int] /\ \A v \in Vertices : distances[v] \in Int
           /\ source \in Vertices /\ front \subseteq Vertices /\ curr \subseteq Vertices
           /\ distance \in Nat /\ sharedIn \in Nat /\ outStart \in Nat /\ outEnd \in Nat
BY DEF BfsTypes

LEMMA LayersStay ==
    ASSUME NEW k, Layers(k), UNCHANGED <<edges, source, distance, distances, front>>
    PROVE  Layers(k)'
BY DEF Layers, FromSource, Linked, Reaches, NoFurther, Finds

\* A thread visits a vertex next to the last level.
LEMMA Visits ==
    ASSUME BfsTypes, NEW k \in Nat, Layers(k), NEW v \in Vertices, distances[v] < 0,
           NEW u \in Vertices, distances[u] = k, <<u, v>> \in edges,
           distances' = [distances EXCEPT ![v] = distance],
           UNCHANGED <<edges, source, distance, front>>
    PROVE  /\ Layers(k)'
           /\ \A x \in Vertices : distances'[x] = IF x = v THEN k + 1 ELSE distances[x]
           /\ \A x \in Vertices : distances'[x] = k <=> distances[x] = k
           /\ \A x \in Vertices : 0 <= distances[x] => 0 <= distances'[x]
           /\ 0 <= distances'[v]
<1>1. /\ distances \in [Vertices -> Int] /\ \A x \in Vertices : distances[x] \in Int
      /\ front \subseteq Vertices
    BY BfsFacts
<1>2. /\ FromSource /\ Linked /\ NoFurther(k + 1) /\ distance = k + 1
      /\ \A x \in Vertices : 0 <= distances[x] /\ distances[x] < k => Finds(x)
      /\ \A x \in front : 0 <= distances[x] /\ distances[x] <= k
    BY DEF Layers
<1>3. \A x \in Vertices : distances'[x] = IF x = v THEN k + 1 ELSE distances[x]
    BY <1>1, <1>2
<1>4. FromSource'
    BY <1>2, <1>3 DEF FromSource
<1>5. Linked'
  <2> SUFFICES ASSUME NEW x \in Vertices, 0 < distances'[x]
               PROVE  \E y \in Vertices : 0 <= distances'[y] /\ Reaches(y, x)'
      BY DEF Linked
  <2>1. CASE x = v
    <3>1. distances'[u] = k /\ distances'[x] = k + 1
        BY <1>3, <2>1
    <3> QED BY <2>1, <3>1 DEF Reaches
  <2>2. CASE x # v
    <3>1. distances'[x] = distances[x]
        BY <1>3, <2>2
    <3>2. PICK y \in Vertices : 0 <= distances[y] /\ Reaches(y, x)
        BY <1>2, <3>1 DEF Linked
    <3>3. distances'[y] = distances[y]
      <4>1. y # v
          BY <1>1, <3>2
      <4> QED BY <1>3, <3>2, <4>1
    <3> QED BY <3>1, <3>2, <3>3 DEF Reaches
  <2> QED BY <2>1, <2>2
<1>6. NoFurther(k + 1)'
    BY <1>2, <1>3 DEF NoFurther
<1>7. ASSUME NEW x \in Vertices, 0 <= distances'[x], distances'[x] < k
      PROVE  Finds(x)'
  <2>1. distances'[x] = distances[x] /\ Finds(x)
      BY <1>2, <1>3, <1>7
  <2>2. ASSUME NEW z \in Vertices, <<x, z>> \in edges
        PROVE  0 <= distances'[z] /\ distances'[z] <= distances'[x] + 1
    <3>1. 0 <= distances[z] /\ distances[z] <= distances[x] + 1
        BY <2>1, <2>2 DEF Finds
    <3>2. z # v
        BY <1>1, <3>1
    <3>3. distances'[z] = distances[z]
        BY <1>3, <3>2
    <3> QED BY <2>1, <3>1, <3>3
  <2> QED BY <2>2 DEF Finds
<1>8. \A x \in front : 0 <= distances'[x] /\ distances'[x] <= k
    BY <1>1, <1>2, <1>3
<1>9. Layers(k)'
    BY <1>2, <1>4, <1>5, <1>6, <1>7, <1>8 DEF Layers
<1> QED BY <1>1, <1>3, <1>9

\* The last level is done: the next one is the last.
LEMMA LayerDone ==
    ASSUME BfsTypes, NEW k \in Nat, Layers(k), NEW n, n = k + 1,
           UNCHANGED <<edges, source, distances>>, distance' = distance + 1,
           \A u, v \in Vertices : distances[u] = k /\ <<u, v>> \in edges => 0 <= distances[v],
           \A u \in front' : u \in Vertices /\ 0 <= distances[u] /\ distances[u] <= k + 1
    PROVE  Layers(n)' /\ NoFurther(n)'
<1>1. \A x \in Vertices : distances[x] \in Int
    BY BfsFacts
<1>2. /\ FromSource /\ Linked /\ NoFurther(k + 1) /\ distance = k + 1
      /\ \A x \in Vertices : 0 <= distances[x] /\ distances[x] < k => Finds(x)
    BY DEF Layers
<1>3. FromSource' /\ Linked' /\ NoFurther(k + 1)' /\ NoFurther(n + 1)'
    BY <1>1, <1>2 DEF FromSource, Linked, Reaches, NoFurther
<1>4. ASSUME NEW x \in Vertices, 0 <= distances[x], distances[x] < n PROVE Finds(x)'
  <2>1. CASE distances[x] < k
      BY <1>2, <1>4, <2>1 DEF Finds
  <2>2. CASE distances[x] = k
      BY <1>1, <1>2, <2>2 DEF Finds, NoFurther
  <2> QED BY <1>1, <1>4, <2>1, <2>2
<1> QED BY <1>2, <1>3, <1>4 DEF Layers

-----------------------------------------------------------------------------
(* The turns over the queue *)

LEMMA TurnTypes ==
    ASSUME QueueInv, NEW k \in Nat, Turn(k), bfsMain = "td"
    PROVE  /\ BfsTypes /\ Layers(k) /\ TopDownTurn(k) /\ distance = k + 1
           /\ OneBuffer /\ BuffersNew /\ outStart <= outEnd /\ outEnd <= sharedIn
           /\ sharedIn <= NumVertices
BY QueueInvFits DEF QueueInv, QueueTurn, Turn, Layers, QueueFits

\* The locals of thread t are r and nothing else has changed but what the buffer
\* of t and distances[] say.
LEMMA PlacedStay ==
    ASSUME Placed, UNCHANGED <<sharedIn, outEnd>>,
           \A s \in Threads : Books(s)' <=> Books(s),
           \A s \in Threads : Books(s) => walker'[s].buf = walker[s].buf /\ walker'[s].room = walker[s].room
    PROVE  Placed'
BY DEF Placed, Place

LEMMA WrittenStay ==
    ASSUME NEW s \in Threads, Written(s), shared' = shared,
           walker'[s].pc = "end" => walker'[s] = walker[s]
    PROVE  Written(s)'
BY DEF Written

LEMMA WalksStay ==
    ASSUME NEW k, NEW s \in Threads, Walks(k, s), walker'[s] = walker[s],
           UNCHANGED <<edges, outStart, outEnd>>,
           \A x \in Vertices : distances[x] = k => distances'[x] = k
    PROVE  Walks(k, s)'
BY DEF Walks

LEMMA WindowStays ==
    ASSUME NEW k, WindowIs(k), UNCHANGED <<outStart, outEnd>>,
           \A i \in outStart..outEnd - 1 : shared'[i] = shared[i],
           \A x \in Vertices : distances'[x] = k <=> distances[x] = k
    PROVE  WindowIs(k)'
BY DEF WindowIs

LEMMA WindowEntries ==
    ASSUME QueueInv, NEW k \in Nat, Turn(k), bfsMain \in {"loop", "td"},
           NEW i \in outStart..outEnd - 1
    PROVE  shared[i] \in Vertices /\ distances[shared[i]] = k
<1>1. WindowIs(k) /\ BfsTypes /\ Filled(sharedIn) /\ outEnd <= sharedIn /\ outStart \in Nat
    BY DEF Turn, TopDownTurn, QueueInv, QueueTurn, BfsTypes
<1>2. i \in 0..sharedIn - 1 /\ i < outEnd /\ outEnd \in Nat
    BY <1>1 DEF BfsTypes
<1>3. ASSUME NEW t \in Threads, walker[t].pc = "copy", i \in Place(t) PROVE FALSE
  <2>1. Len(walker[t].buf) \in Nat /\ walker[t].room \in Nat
      BY <1>1, WalkerFacts
  <2>2. bfsMain = "td"
      BY <1>3 DEF QueueInv, TopDown
  <2>3. Len(walker[t].buf) > 0 /\ walker[t].room <= i
      BY <1>2, <1>3, <2>1 DEF Place
  <2>4. outEnd <= walker[t].room
      BY <1>3, <2>2, <2>3 DEF Turn, TopDownTurn, Placed, Books
  <2> QED BY <1>2, <2>1, <2>3, <2>4
<1>4. shared[i] \in Vertices
    BY <1>1, <1>2, <1>3 DEF Filled, Entry
<1> QED BY <1>1, <1>4 DEF WindowIs

LEMMA SpawnExact ==
    ASSUME QueueInv, NEW k \in Nat, Turn(k), SpawnTopDown
    PROVE  Turn(k)'
<1>1. /\ bfsMain = "loop" /\ bfsMain' = "td" /\ outStart # outEnd
      /\ UNCHANGED <<edges, openMP, distances, shared, sharedIn, outStart, outEnd, front, source, distance>>
      /\ outEnd \in Nat /\ outStart \in Nat /\ outStart <= outEnd /\ sharedIn = outEnd /\ BfsTypes
    BY NoCopying DEF SpawnTopDown, QueueEmpty, workload, queueVars, mapVars, QueueInv, BfsTypes
<1> DEFINE n == outEnd - outStart
           w(t) == [Idle EXCEPT !.pc = "vertex", !.at = outStart + ChunkBegin(t, n)]
<1>2. n \in Nat /\ n > 0
    BY <1>1
<1>3. Layers(k) /\ NoFurther(k) /\ WindowIs(k)
    BY <1>1 DEF Turn
<1>4. walker' = [t \in Threads |-> IF ChunkBegin(t, n) < ChunkEnd(t, n) THEN w(t) ELSE Idle]
    BY DEF SpawnTopDown, QueueSize
<1>5. \A t \in Threads : /\ w(t).pc = "vertex" /\ w(t).at = outStart + ChunkBegin(t, n)
                         /\ w(t).nbrs = {} /\ w(t).buf = <<>>
    BY DEF Idle
<1> HIDE DEF w, n
<1>6. \A t \in Threads : ChunkBegin(t, n) \in Nat /\ ChunkEnd(t, n) \in Nat /\ ChunkEnd(t, n) <= n
    BY <1>2, ChunkEndFacts
<1>7. \A t \in Threads : /\ Len(walker'[t].buf) = 0 /\ walker'[t].nbrs = {}
                         /\ walker'[t].pc \in {"vertex", "end"}
                         /\ walker'[t].pc = "vertex" => walker'[t].at = outStart + ChunkBegin(t, n)
                                                      /\ ChunkBegin(t, n) < ChunkEnd(t, n)
    BY <1>4, <1>5, IdleFacts, EmptySeq
<1>8. 0 \in Threads /\ ChunkBegin(0, n) = 0 /\ 0 < ChunkEnd(0, n)
  <2>1. 0 \in Threads
      BY WorkloadAssumption DEF Threads
  <2>2. ChunkSize(n) \in Nat /\ ChunkSize(n) > 0
      BY <1>2, ChunkSizeFacts
  <2>3. ChunkBegin(0, n) = 0
      BY <2>2 DEF ChunkBegin
  <2> QED BY <1>2, <2>1, <2>2, <2>3 DEF ChunkEnd
<1>9. walker'[0].pc = "vertex" /\ walker'[0].at = outStart
    BY <1>1, <1>4, <1>5, <1>8
<1>10. Layers(k)'
    BY <1>1, <1>3, LayersStay
<1>11. WindowIs(k)'
    BY <1>1, <1>3 DEF WindowIs
<1>12. Walked'
    BY <1>1, <1>9 DEF Walked
<1>13. Placed'
  <2>1. \A t \in Threads : walker'[t].room \in Nat => Place(t)' = {}
      BY <1>7 DEF Place
  <2>2. \A t \in Threads : walker'[t].room \in Nat
    <3> SUFFICES ASSUME NEW t \in Threads PROVE walker'[t].room \in Nat
        OBVIOUS
    <3>1. w(t).room = 0 /\ Idle.room = 0
        BY DEF w, Idle
    <3> QED BY <1>4, <3>1
  <2> QED BY <1>1, <1>7, <2>1, <2>2 DEF Placed
<1>14. \A t \in Threads : Walks(k, t)' /\ Written(t)'
  <2> SUFFICES ASSUME NEW t \in Threads PROVE Walks(k, t)' /\ Written(t)'
      OBVIOUS
  <2>1. Written(t)'
      BY <1>7 DEF Written
  <2>2. walker'[t].pc = "vertex" => outStart <= walker'[t].at /\ walker'[t].at <= outEnd
      BY <1>1, <1>6, <1>7 DEF n
  <2> QED BY <1>1, <1>7, <2>1, <2>2 DEF Walks
<1>15. \A v \in Vertices : distances'[v] # k + 1
    BY <1>1, <1>3, BfsFacts DEF NoFurther
<1> QED BY <1>1, <1>10, <1>11, <1>12, <1>13, <1>14, <1>15 DEF Turn, TopDownTurn

LEMMA TakeExact ==
    ASSUME QueueInv, NEW k \in Nat, Turn(k), NEW t \in Threads, TakeVertex(t)
    PROVE  Turn(k)'
<1> DEFINE w == walker[t]
           e == Neighbors(shared[w.at]) \ {shared[w.at]}
           a == [w EXCEPT !.pc = "reserve"]
           b == [w EXCEPT !.at = w.at + 1, !.nbrs = e]
<1>1. /\ w.pc = "vertex" /\ w.nbrs = {} /\ w \in WalkerType /\ w.at \in Nat /\ bfsMain = "td"
      /\ walker' = [walker EXCEPT ![t] = IF w.at = outEnd THEN a ELSE b]
      /\ bfsMain' = bfsMain
      /\ UNCHANGED <<edges, openMP, distances, shared, sharedIn, outStart, outEnd, front, source, distance>>
    BY InTopDown, WalkerFacts
       DEF TakeVertex, workload, queueVars, mapVars, loopVars, TopDown, QueueInv
<1>2. /\ BfsTypes /\ Layers(k) /\ TopDownTurn(k) /\ outStart <= outEnd
      /\ outStart \in Nat /\ outEnd \in Nat
    BY <1>1, TurnTypes, BfsFacts
<1>3. outStart <= w.at /\ w.at <= outEnd
    BY <1>1, <1>2 DEF TopDownTurn, Walks
<1>4. a \in WalkerType /\ a.pc = "reserve" /\ a.buf = w.buf /\ a.room = w.room
    BY <1>1 DEF WalkerType
<1>5. /\ b \in WalkerType /\ b.pc = "vertex" /\ b.buf = w.buf /\ b.room = w.room
      /\ b.at = w.at + 1 /\ b.nbrs = e
  <2>1. e \in SUBSET Vertices /\ w.at + 1 \in Nat
    <3>1. Neighbors(shared[w.at]) = {v \in Vertices : <<shared[w.at], v>> \in edges}
        BY <1>2, NeighborsAre DEF BfsTypes
    <3> HIDE DEF w
    <3> QED BY <1>1, <3>1
  <2> HIDE DEF e, w
  <2> QED BY <1>1, <2>1 DEF WalkerType
<1>6. \A v \in Vertices : v \in e <=> <<shared[w.at], v>> \in edges /\ v # shared[w.at]
    BY <1>2, NeighborsAre DEF BfsTypes
<1>7. e \subseteq Vertices
    BY <1>5 DEF WalkerType
<1> HIDE DEF a, b, e
<1>8. /\ walker'[t] = IF w.at = outEnd THEN a ELSE b
      /\ \A s \in Threads : s # t => walker'[s] = walker[s]
    BY <1>1, <1>2 DEF BfsTypes
<1>9. \A s \in Threads :
         /\ walker'[s].buf = walker[s].buf /\ walker'[s].room = walker[s].room
         /\ Books(s)' <=> Books(s)
         /\ walker'[s].pc = "end" => walker'[s] = walker[s]
    BY <1>1, <1>4, <1>5, <1>8 DEF Books
<1>10. Layers(k)'
    BY <1>1, <1>2, LayersStay
<1>11. WindowIs(k)'
    BY <1>1, <1>2, WindowStays DEF TopDownTurn
<1>12. Placed'
    BY <1>1, <1>2, <1>9, PlacedStay DEF TopDownTurn
<1>13. \A s \in Threads : Written(s)'
    BY <1>1, <1>2, <1>9, WrittenStay DEF TopDownTurn
<1>14. \A v \in Vertices : distances'[v] = k + 1 => Buffered(v)'
    BY <1>1, <1>2, <1>9 DEF TopDownTurn, Buffered
<1>15. Walks(k, t)'
  <2>1. CASE w.at = outEnd
      BY <1>4, <1>8, <2>1 DEF Walks
  <2>2. CASE w.at # outEnd
    <3>1. w.at \in outStart..outEnd - 1
        BY <1>1, <1>2, <1>3, <2>2
    <3>2. shared[w.at] \in Vertices /\ distances[shared[w.at]] = k
        BY <1>1, <3>1, WindowEntries
    <3>3. \A v \in e : \E u \in Vertices : distances[u] = k /\ <<u, v>> \in edges
        BY <1>6, <1>7, <3>2
    <3>4. outStart <= w.at + 1 /\ w.at + 1 <= outEnd
        BY <1>1, <1>2, <1>3, <2>2
    <3> QED BY <1>1, <1>5, <1>8, <2>2, <3>3, <3>4 DEF Walks
  <2> QED BY <2>1, <2>2
<1>16. \A s \in Threads : Walks(k, s)'
  <2>1. ASSUME NEW s \in Threads, s # t PROVE Walks(k, s)'
      BY <1>1, <1>2, <1>8, <2>1, WalksStay DEF TopDownTurn
  <2> QED BY <1>15, <2>1
<1>17. Walked'
  <2>1. CASE t = 0
    <3> SUFFICES ASSUME NEW i \in outStart..outEnd - 1, walker'[0].pc # "vertex" \/ i < walker'[0].at,
                        NEW v \in Vertices, <<shared[i], v>> \in edges
                 PROVE  \/ 0 <= distances[v]
                        \/ walker'[0].pc = "vertex" /\ i = walker'[0].at - 1 /\ v \in walker'[0].nbrs
        BY <1>1 DEF Walked
    <3>1. CASE i < w.at
        BY <1>1, <1>2, <2>1, <3>1 DEF TopDownTurn, Walked
    <3>2. CASE ~(i < w.at)
      <4>1. w.at # outEnd /\ walker'[0] = b
          BY <1>1, <1>2, <1>8, <2>1, <3>2
      <4>2. i = w.at /\ i = walker'[0].at - 1 /\ walker'[0].pc = "vertex"
          BY <1>1, <1>5, <3>2, <4>1
      <4>3. CASE v = shared[i]
          BY <1>1, <4>3, WindowEntries
      <4>4. CASE v # shared[i]
          BY <1>5, <1>6, <4>1, <4>2, <4>4
      <4> QED BY <4>3, <4>4
    <3> QED BY <3>1, <3>2
  <2>2. CASE t # 0
    <3>1. walker'[0] = walker[0]
        BY <1>8, <2>2, WorkloadAssumption DEF Threads
    <3> QED BY <1>1, <1>2, <3>1 DEF TopDownTurn, Walked
  <2> QED BY <2>1, <2>2
<1> QED BY <1>1, <1>10, <1>11, <1>12, <1>13, <1>14, <1>16, <1>17 DEF Turn, TopDownTurn

LEMMA ClaimExact ==
    ASSUME QueueInv, NEW k \in Nat, Turn(k), NEW t \in Threads, Claim(t)
    PROVE  Turn(k)'
<1> DEFINE w == walker[t]
           n == Len(w.buf)
<1>1. /\ w.pc = "vertex" /\ w \in WalkerType /\ bfsMain = "td" /\ bfsMain' = bfsMain
      /\ w.buf \in Seq(Vertices) /\ w.nbrs \subseteq Vertices
      /\ UNCHANGED <<edges, openMP, shared, sharedIn, outStart, outEnd, front, source, distance>>
    BY InTopDown, WalkerFacts
       DEF Claim, workload, queueVars, mapVars, loopVars, TopDown, QueueInv
<1>2. /\ BfsTypes /\ Layers(k) /\ TopDownTurn(k) /\ distance = k + 1
      /\ \A x \in Vertices : distances[x] \in Int
    BY <1>1, TurnTypes, BfsFacts
<1>3. PICK v \in w.nbrs :
        /\ distances' = [distances EXCEPT ![v] = IF distances[v] < 0 THEN distance ELSE @]
        /\ walker' = [walker EXCEPT ![t] =
              [w EXCEPT !.nbrs = w.nbrs \ {v},
                        !.buf = IF distances[v] < 0 THEN Append(w.buf, v) ELSE w.buf,
                        !.found = IF distances[v] < 0 THEN w.found - distances[v] ELSE w.found]]
    BY DEF Claim
<1>4. /\ walker'[t].pc = "vertex" /\ walker'[t].at = w.at /\ walker'[t].nbrs = w.nbrs \ {v}
      /\ walker'[t].buf = IF distances[v] < 0 THEN Append(w.buf, v) ELSE w.buf
      /\ \A s \in Threads : s # t => walker'[s] = walker[s]
    BY <1>1, <1>2, <1>3 DEF BfsTypes, WalkerType
<1>5. v \in Vertices
    BY <1>1
<1>6. PICK u \in Vertices : distances[u] = k /\ <<u, v>> \in edges
    BY <1>1, <1>2 DEF TopDownTurn, Walks
<1>7. /\ Layers(k)'
      /\ \A x \in Vertices : distances'[x] = k <=> distances[x] = k
      /\ \A x \in Vertices : 0 <= distances[x] => 0 <= distances'[x]
      /\ 0 <= distances'[v]
      /\ \A x \in Vertices : distances'[x] # distances[x] => x = v /\ distances[v] < 0
  <2>1. CASE distances[v] < 0
    <3>1. distances' = [distances EXCEPT ![v] = distance]
        BY <1>3, <2>1
    <3>2. /\ Layers(k)'
          /\ \A x \in Vertices : distances'[x] = IF x = v THEN k + 1 ELSE distances[x]
          /\ \A x \in Vertices : distances'[x] = k <=> distances[x] = k
          /\ \A x \in Vertices : 0 <= distances[x] => 0 <= distances'[x]
          /\ 0 <= distances'[v]
        BY <1>1, <1>2, <1>5, <1>6, <2>1, <3>1, Visits
    <3> QED BY <2>1, <3>2
  <2>2. CASE ~(distances[v] < 0)
    <3>1. distances' = distances
        BY <1>2, <1>3, <2>2, BfsFacts
    <3>2. 0 <= distances[v]
        BY <1>2, <1>5, <2>2
    <3> QED BY <1>1, <1>2, <3>1, <3>2, LayersStay
  <2> QED BY <2>1, <2>2
<1>8. \A s \in Threads :
         /\ Books(s)' <=> Books(s)
         /\ Books(s) => walker'[s] = walker[s]
         /\ walker'[s].pc = "end" => walker'[s] = walker[s]
    BY <1>1, <1>4 DEF Books
<1>9. WindowIs(k)'
    BY <1>1, <1>2, <1>7, WindowStays DEF TopDownTurn
<1>10. Placed'
    BY <1>1, <1>2, <1>8, PlacedStay DEF TopDownTurn
<1>11. \A s \in Threads : Written(s)'
    BY <1>1, <1>2, <1>8, WrittenStay DEF TopDownTurn
<1>12. \A s \in Threads : Walks(k, s)'
  <2>1. ASSUME NEW s \in Threads, s # t PROVE Walks(k, s)'
      BY <1>1, <1>2, <1>4, <1>7, <2>1, WalksStay DEF TopDownTurn
  <2>2. Walks(k, t)'
    <3>1. Walks(k, t)
        BY <1>2 DEF TopDownTurn
    <3> QED BY <1>1, <1>4, <1>7, <3>1 DEF Walks
  <2> QED BY <2>1, <2>2
<1>13. Walked'
  <2> SUFFICES ASSUME NEW i \in outStart..outEnd - 1, walker'[0].pc # "vertex" \/ i < walker'[0].at,
                      NEW x \in Vertices, <<shared[i], x>> \in edges
               PROVE  \/ 0 <= distances'[x]
                      \/ walker'[0].pc = "vertex" /\ i = walker'[0].at - 1 /\ x \in walker'[0].nbrs
      BY <1>1 DEF Walked
  <2>1. walker'[0].pc = walker[0].pc /\ walker'[0].at = walker[0].at
    <3>1. CASE t = 0
        BY <1>1, <1>4, <3>1
    <3>2. CASE t # 0
        BY <1>4, <3>2, WorkloadAssumption DEF Threads
    <3> QED BY <3>1, <3>2
  <2>2. \/ 0 <= distances[x]
        \/ walker[0].pc = "vertex" /\ i = walker[0].at - 1 /\ x \in walker[0].nbrs
      BY <1>2, <2>1 DEF TopDownTurn, Walked
  <2>3. CASE 0 <= distances[x]
      BY <1>7, <2>3
  <2>4. CASE x = v
      BY <1>7, <2>4
  <2>5. CASE x # v /\ walker[0].pc = "vertex" /\ i = walker[0].at - 1 /\ x \in walker[0].nbrs
    <3>1. x \in walker'[0].nbrs
      <4>1. CASE t = 0
          BY <1>4, <2>5, <4>1
      <4>2. CASE t # 0
          BY <1>4, <2>5, <4>2, WorkloadAssumption DEF Threads
      <4> QED BY <4>1, <4>2
    <3> QED BY <2>1, <2>5, <3>1
  <2> QED BY <2>2, <2>3, <2>4, <2>5
<1>14. \A x \in Vertices : distances'[x] = k + 1 => Buffered(x)'
  <2>1. /\ Append(w.buf, v) \in Seq(Vertices) /\ Len(Append(w.buf, v)) = n + 1
        /\ \A i \in 1..n : Append(w.buf, v)[i] = w.buf[i]
        /\ Append(w.buf, v)[n + 1] = v /\ n \in Nat
      BY <1>1, <1>5, AppendProperties, LenProperties
  <2>2. \A i \in 1..n : i \in 1..Len(walker'[t].buf) /\ walker'[t].buf[i] = w.buf[i]
      BY <1>4, <2>1
  <2>3. distances[v] < 0 => n + 1 \in 1..Len(walker'[t].buf) /\ walker'[t].buf[n + 1] = v
      BY <1>4, <2>1
  <2>4. \A x \in Vertices : Buffered(x) => Buffered(x)'
    <3> SUFFICES ASSUME NEW x \in Vertices, Buffered(x) PROVE Buffered(x)'
        OBVIOUS
    <3>1. PICK s \in Threads : \E j \in 1..Len(walker[s].buf) : walker[s].buf[j] = x
        BY DEF Buffered
    <3>2. CASE s = t
        BY <2>2, <3>1, <3>2 DEF Buffered
    <3>3. CASE s # t
        BY <1>4, <3>1, <3>3 DEF Buffered
    <3> QED BY <3>2, <3>3
  <2>5. distances[v] < 0 => Buffered(v)'
      BY <2>3 DEF Buffered
  <2>6. ASSUME NEW x \in Vertices, distances'[x] = k + 1 PROVE Buffered(x)'
    <3>1. CASE distances'[x] = distances[x]
        BY <1>2, <2>4, <2>6, <3>1 DEF TopDownTurn
    <3>2. CASE distances'[x] # distances[x]
      <4>1. x = v /\ distances[v] < 0
          BY <1>7, <3>2
      <4> QED BY <2>5, <4>1
    <3> QED BY <3>1, <3>2
  <2> QED BY <2>6
<1> QED BY <1>1, <1>7, <1>9, <1>10, <1>11, <1>12, <1>13, <1>14 DEF Turn, TopDownTurn

\* A place that begins where shared_in is follows the places that were taken.
LEMMA PlaceExact ==
    ASSUME QueueInv, NEW k \in Nat, Turn(k), NEW t \in Threads,
           walker[t].pc \in {"reserve", "add"},
           NEW r \in WalkerType, r.pc = "copy", r.room = sharedIn, r.buf = walker[t].buf,
           walker' = [walker EXCEPT ![t] = r], sharedIn' = sharedIn + Len(walker[t].buf),
           bfsMain' = bfsMain,
           UNCHANGED <<edges, openMP, distances, shared, outStart, outEnd, front, source, distance>>
    PROVE  Turn(k)'
<1> DEFINE w == walker[t]
           n == Len(w.buf)
<1>1. /\ w.pc \in {"reserve", "add"} /\ w \in WalkerType /\ bfsMain = "td" /\ n \in Nat
      /\ sharedIn' = sharedIn + n /\ walker' = [walker EXCEPT ![t] = r]
    BY InTopDown, WalkerFacts DEF TopDown, QueueInv
<1>2. /\ BfsTypes /\ Layers(k) /\ TopDownTurn(k) /\ distance = k + 1
      /\ sharedIn \in Nat /\ outEnd \in Nat /\ outEnd <= sharedIn
    BY <1>1, TurnTypes, BfsFacts
<1>3. r \in WalkerType /\ r.pc = "copy" /\ r.room = sharedIn /\ r.buf = w.buf
    OBVIOUS
<1>4. walker'[t] = r /\ \A s \in Threads : s # t => walker'[s] = walker[s]
    BY <1>1, <1>2, <1>3, OthersWait
<1>5. \A s \in Threads :
         /\ s # t => (Books(s)' <=> Books(s)) /\ Place(s)' = Place(s)
         /\ walker'[s].buf = walker[s].buf
         /\ walker'[s].pc = "end" => walker'[s] = walker[s]
    BY <1>3, <1>4 DEF Books, Place
<1>6. Books(t)' /\ ~Books(t)
    BY <1>1, <1>3, <1>4 DEF Books
<1>7. Layers(k)' /\ WindowIs(k)'
    BY <1>1, <1>2, LayersStay, WindowStays DEF TopDownTurn
<1>8. \A s \in Threads : Written(s)'
    BY <1>1, <1>2, <1>5, WrittenStay DEF TopDownTurn
<1>9. \A s \in Threads : Walks(k, s)'
  <2>1. ASSUME NEW s \in Threads, s # t PROVE Walks(k, s)'
      BY <1>1, <1>2, <1>4, <2>1, WalksStay DEF TopDownTurn
  <2>2. Walks(k, t)'
      BY <1>3, <1>4 DEF Walks
  <2> QED BY <2>1, <2>2
<1>10. Walked'
  <2>1. walker'[0] = walker[0] \/ (walker[0].pc # "vertex" /\ walker'[0].pc # "vertex")
    <3>1. CASE t = 0
        BY <1>1, <1>3, <1>4, <3>1
    <3>2. CASE t # 0
        BY <1>4, <3>2, WorkloadAssumption DEF Threads
    <3> QED BY <3>1, <3>2
  <2> QED BY <1>1, <1>2, <2>1 DEF TopDownTurn, Walked
<1>11. \A v \in Vertices : distances'[v] = k + 1 => Buffered(v)'
    BY <1>1, <1>2, <1>5 DEF TopDownTurn, Buffered
<1>12. Placed'
  <2>1. Place(t)' = sharedIn..sharedIn + n - 1
      BY <1>3, <1>4 DEF Place
  <2>2. ASSUME NEW s \in Threads, s # t, Books(s)' PROVE Place(s)' \cap Place(t)' = {}
    <3> DEFINE a == walker[s].room
               l == Len(walker[s].buf)
    <3>1. Books(s) /\ Place(s)' = a..a + l - 1 /\ a \in Nat /\ l \in Nat
        BY <1>2, <1>5, <2>2, WalkerFacts DEF Place
    <3>2. l > 0 => a + l <= sharedIn
        BY <1>2, <3>1 DEF TopDownTurn, Placed
    <3> HIDE DEF a, l
    <3> QED BY <1>2, <2>1, <3>1, <3>2
  <2>3. ASSUME NEW s \in Threads, NEW x \in Threads, s # x, Books(s)', Books(x)'
        PROVE  Place(s)' \cap Place(x)' = {}
    <3>1. CASE s = t
        BY <2>2, <2>3, <3>1
    <3>2. CASE x = t
        BY <2>2, <2>3, <3>2
    <3>3. CASE s # t /\ x # t
        BY <1>2, <1>5, <2>3, <3>3 DEF TopDownTurn, Placed
    <3> QED BY <3>1, <3>2, <3>3
  <2>4. ASSUME NEW s \in Threads, Books(s)', Len(walker'[s].buf) > 0
        PROVE  outEnd <= walker'[s].room /\ walker'[s].room + Len(walker'[s].buf) <= sharedIn'
    <3>1. CASE s = t
        BY <1>1, <1>2, <1>3, <1>4, <3>1
    <3>2. CASE s # t
      <4> DEFINE a == walker[s].room
                 l == Len(walker[s].buf)
      <4>1. Books(s) /\ walker'[s] = walker[s] /\ a \in Nat /\ l \in Nat
          BY <1>2, <1>4, <1>5, <2>4, <3>2, WalkerFacts
      <4>2. outEnd <= a /\ a + l <= sharedIn
          BY <1>2, <2>4, <4>1 DEF TopDownTurn, Placed
      <4>3. walker'[s].room = a /\ Len(walker'[s].buf) = l
          BY <4>1
      <4>4. sharedIn <= sharedIn' /\ sharedIn' \in Nat
          BY <1>1, <1>2
      <4> HIDE DEF a, l
      <4>5. a + l <= sharedIn'
          BY <1>2, <4>1, <4>2, <4>4
      <4> QED BY <4>2, <4>3, <4>5
    <3> QED BY <3>1, <3>2
  <2>5. ASSUME NEW i \in outEnd..sharedIn + n - 1 PROVE \E s \in Threads : Books(s)' /\ i \in Place(s)'
    <3>1. CASE i < sharedIn
      <4>1. i \in outEnd..sharedIn - 1
          BY <1>2, <3>1
      <4>2. PICK s \in Threads : Books(s) /\ i \in Place(s)
          BY <1>2, <4>1 DEF TopDownTurn, Placed
      <4> QED BY <1>5, <1>6, <4>2
    <3>2. CASE ~(i < sharedIn)
        BY <1>1, <1>2, <1>6, <2>1, <3>2
    <3> QED BY <3>1, <3>2
  <2>6. /\ outEnd' = outEnd /\ sharedIn' = sharedIn + n
        /\ \A s, x \in Threads : s # x /\ Books(s)' /\ Books(x)' => Place(s)' \cap Place(x)' = {}
      BY <1>1, <2>3
  <2>7. \A i \in outEnd'..sharedIn' - 1 : \E s \in Threads : Books(s)' /\ i \in Place(s)'
    <3> DEFINE lo == outEnd'
               hi == sharedIn' - 1
    <3>1. lo = outEnd /\ hi = sharedIn + n - 1
        BY <1>2, <2>1, <2>6
    <3> HIDE DEF lo, hi
    <3>2. \A i \in lo..hi : \E s \in Threads : Books(s)' /\ i \in Place(s)'
        BY <2>5, <3>1
    <3> QED BY <3>2 DEF lo, hi
  <2> QED BY <2>4, <2>6, <2>7 DEF Placed
<1> QED BY <1>1, <1>7, <1>8, <1>9, <1>10, <1>11, <1>12 DEF Turn, TopDownTurn

\* fetch_and_add, or the read the serial fallback begins with.
LEMMA ReserveExact ==
    ASSUME QueueInv, NEW k \in Nat, Turn(k), NEW t \in Threads, Reserve(t)
    PROVE  Turn(k)'
<1> DEFINE w == walker[t]
           r == [w EXCEPT !.pc = IF openMP THEN "copy" ELSE "add", !.room = sharedIn]
<1>1. /\ w.pc = "reserve" /\ w \in WalkerType /\ bfsMain = "td" /\ bfsMain' = bfsMain
      /\ walker' = [walker EXCEPT ![t] = r] /\ openMP \in BOOLEAN
      /\ sharedIn' = IF openMP THEN sharedIn + Len(w.buf) ELSE sharedIn
      /\ UNCHANGED <<edges, openMP, distances, shared, outStart, outEnd, front, source, distance>>
    BY InTopDown, WalkerFacts, WorkloadAssumption
       DEF Reserve, workload, mapVars, loopVars, TopDown, QueueInv, BfsTypes, WorkloadInit
<1>2. /\ BfsTypes /\ Layers(k) /\ TopDownTurn(k) /\ distance = k + 1
      /\ sharedIn \in Nat /\ outEnd \in Nat /\ outEnd <= sharedIn
    BY <1>1, TurnTypes, BfsFacts
<1>3. /\ r \in WalkerType /\ r.room = sharedIn /\ r.buf = w.buf
      /\ r.pc = IF openMP THEN "copy" ELSE "add"
    BY <1>1, <1>2 DEF WalkerType
<1> HIDE DEF r
<1>4. CASE openMP
    BY <1>1, <1>3, <1>4, PlaceExact
<1>5. CASE ~openMP
  <2>1. walker'[t] = r /\ \A s \in Threads : s # t => walker'[s] = walker[s]
      BY <1>1, <1>2, <1>3, OthersWait
  <2>2. \A s \in Threads :
           /\ Books(s)' <=> Books(s)
           /\ walker'[s].buf = walker[s].buf
           /\ Books(s) => walker'[s].room = walker[s].room
           /\ walker'[s].pc = "end" => walker'[s] = walker[s]
      BY <1>1, <1>3, <1>5, <2>1 DEF Books
  <2>3. Layers(k)' /\ WindowIs(k)' /\ Placed'
      BY <1>1, <1>2, <1>5, <2>2, LayersStay, WindowStays, PlacedStay DEF TopDownTurn
  <2>4. \A s \in Threads : Written(s)'
      BY <1>1, <1>2, <2>2, WrittenStay DEF TopDownTurn
  <2>5. ASSUME NEW s \in Threads PROVE Walks(k, s)'
    <3>1. CASE s = t
        BY <1>3, <1>5, <2>1, <3>1 DEF Walks
    <3>2. CASE s # t
        BY <1>1, <1>2, <2>1, <3>2, WalksStay DEF TopDownTurn
    <3> QED BY <3>1, <3>2
  <2>6. Walked'
    <3>1. walker'[0] = walker[0] \/ (walker[0].pc # "vertex" /\ walker'[0].pc # "vertex")
      <4>1. CASE t = 0
          BY <1>1, <1>3, <1>5, <2>1, <4>1
      <4>2. CASE t # 0
          BY <2>1, <4>2, WorkloadAssumption DEF Threads
      <4> QED BY <4>1, <4>2
    <3> QED BY <1>1, <1>2, <3>1 DEF TopDownTurn, Walked
  <2>7. \A v \in Vertices : distances'[v] = k + 1 => Buffered(v)'
      BY <1>1, <1>2, <2>2 DEF TopDownTurn, Buffered
  <2> QED BY <1>1, <2>3, <2>4, <2>5, <2>6, <2>7 DEF Turn, TopDownTurn
<1> QED BY <1>1, <1>4, <1>5

\* The store of the serial fallback, when shared_in is what was read.
LEMMA ReserveStoreExact ==
    ASSUME QueueInv, NEW k \in Nat, Turn(k), NEW t \in Threads, ReserveStore(t), ~lost'
    PROVE  Turn(k)'
<1> DEFINE w == walker[t]
           r == [w EXCEPT !.pc = "copy"]
<1>1. /\ w.pc = "add" /\ w \in WalkerType /\ w.room = sharedIn /\ bfsMain' = bfsMain
      /\ walker' = [walker EXCEPT ![t] = r] /\ sharedIn' = sharedIn + Len(w.buf)
      /\ UNCHANGED <<edges, openMP, distances, shared, outStart, outEnd, front, source, distance>>
    BY WalkerFacts DEF ReserveStore, workload, mapVars, QueueInv
<1>2. r \in WalkerType /\ r.pc = "copy" /\ r.room = sharedIn /\ r.buf = w.buf
    BY <1>1 DEF WalkerType
<1> HIDE DEF r
<1> QED BY <1>1, <1>2, PlaceExact

LEMMA CopyExact ==
    ASSUME QueueInv, NEW k \in Nat, Turn(k), NEW t \in Threads, CopyBuffer(t)
    PROVE  Turn(k)'
<1> DEFINE w == walker[t]
           n == Len(w.buf)
           r == [w EXCEPT !.pc = "end"]
<1>1. /\ w.pc = "copy" /\ w \in WalkerType /\ bfsMain = "td" /\ bfsMain' = bfsMain
      /\ walker' = [walker EXCEPT ![t] = r] /\ n \in Nat /\ w.room \in Nat
      /\ shared' = Stored(w.buf, w.room)
      /\ UNCHANGED <<edges, openMP, distances, sharedIn, outStart, outEnd, front, source, distance>>
    BY InTopDown, WalkerFacts
       DEF CopyBuffer, workload, mapVars, loopVars, TopDown, QueueInv
<1>2. /\ BfsTypes /\ Layers(k) /\ TopDownTurn(k) /\ distance = k + 1
      /\ sharedIn \in Nat /\ outEnd \in Nat /\ outStart \in Nat
      /\ outEnd <= sharedIn /\ sharedIn <= NumVertices /\ NumVertices \in Nat
    BY <1>1, TurnTypes, BfsFacts, VertexFacts
<1>3. r \in WalkerType /\ r.pc = "end" /\ r.room = w.room /\ r.buf = w.buf
    BY <1>1 DEF WalkerType
<1> HIDE DEF r
<1>4. walker'[t] = r /\ \A s \in Threads : s # t => walker'[s] = walker[s]
    BY <1>1, <1>2, <1>3, OthersWait
<1>5. \A s \in Threads :
         /\ Books(s)' <=> Books(s)
         /\ walker'[s].buf = walker[s].buf /\ walker'[s].room = walker[s].room
    BY <1>1, <1>3, <1>4 DEF Books
<1>6. \A i \in 0..sharedIn - 1 :
         /\ i \in Place(t) => shared'[i] = w.buf[i - w.room + 1]
         /\ i \notin Place(t) => shared'[i] = shared[i]
  <2> SUFFICES ASSUME NEW i \in 0..sharedIn - 1
               PROVE  /\ i \in Place(t) => shared'[i] = w.buf[i - w.room + 1]
                      /\ i \notin Place(t) => shared'[i] = shared[i]
      OBVIOUS
  <2>1. i \in Vertices /\ i \in Nat
      BY <1>2 DEF Vertices
  <2>2. i \in Place(t) <=> i - w.room \in 0..n - 1
      BY <1>1, <2>1 DEF Place
  <2>3. shared'[i] = IF i - w.room \in 0..n - 1 THEN w.buf[i - w.room + 1] ELSE shared[i]
      BY <1>1, <2>1 DEF Stored
  <2> QED BY <2>2, <2>3
<1>7. \A i \in outStart..outEnd - 1 : shared'[i] = shared[i]
  <2> SUFFICES ASSUME NEW i \in outStart..outEnd - 1 PROVE shared'[i] = shared[i]
      OBVIOUS
  <2>1. i \in 0..sharedIn - 1 /\ i < outEnd
      BY <1>2
  <2>2. i \notin Place(t)
    <3>1. SUFFICES ASSUME i \in Place(t) PROVE FALSE
        OBVIOUS
    <3>2. n > 0 /\ w.room <= i
        BY <1>1, <2>1, <3>1 DEF Place
    <3>3. outEnd <= w.room
        BY <1>1, <1>2, <3>2 DEF TopDownTurn, Placed, Books
    <3> QED BY <1>1, <1>2, <2>1, <3>2, <3>3
  <2> QED BY <1>6, <2>1, <2>2
<1>8. Layers(k)' /\ WindowIs(k)' /\ Placed'
    BY <1>1, <1>2, <1>5, <1>7, LayersStay, WindowStays, PlacedStay DEF TopDownTurn
<1>9. ASSUME NEW s \in Threads PROVE Written(s)'
  <2> SUFFICES ASSUME walker'[s].pc = "end", NEW j \in 1..Len(walker[s].buf)
               PROVE  shared'[walker[s].room + j - 1] = walker[s].buf[j]
      BY <1>5 DEF Written
  <2> DEFINE i == walker[s].room + j - 1
  <2>1. Books(s) /\ walker[s].room \in Nat /\ Len(walker[s].buf) \in Nat
      BY <1>2, <1>5, WalkerFacts DEF Books
  <2>2. outEnd <= walker[s].room /\ walker[s].room + Len(walker[s].buf) <= sharedIn
      BY <1>2, <2>1 DEF TopDownTurn, Placed
  <2>3. i \in 0..sharedIn - 1 /\ i \in Place(s) /\ i - walker[s].room + 1 = j
    <3> DEFINE a == walker[s].room
               l == Len(walker[s].buf)
    <3>1. a \in Nat /\ l \in Nat /\ outEnd <= a /\ a + l <= sharedIn /\ j \in 1..l
        BY <2>1, <2>2
    <3>2. Place(s) = a..a + l - 1 /\ i = a + j - 1
        BY DEF Place
    <3> HIDE DEF a, l, i
    <3>3. i \in 0..sharedIn - 1 /\ i \in a..a + l - 1 /\ i - a + 1 = j
        BY <1>2, <3>1, <3>2
    <3> QED BY <3>2, <3>3 DEF a
  <2> HIDE DEF i
  <2>4. CASE s = t
    <3>1. shared'[i] = w.buf[j]
        BY <1>6, <2>3, <2>4
    <3> QED BY <2>4, <3>1 DEF i
  <2>5. CASE s # t
    <3>1. i \notin Place(t)
        BY <1>1, <1>2, <2>1, <2>3, <2>5 DEF TopDownTurn, Placed, Books
    <3>2. shared'[i] = shared[i]
        BY <1>6, <2>3, <3>1
    <3>3. walker[s].pc = "end"
        BY <1>4, <2>5
    <3>4. shared[i] = walker[s].buf[j]
        BY <1>2, <3>3 DEF TopDownTurn, Written, i
    <3> QED BY <3>2, <3>4 DEF i
  <2> QED BY <2>4, <2>5
<1>10. \A s \in Threads : Walks(k, s)'
  <2>1. ASSUME NEW s \in Threads, s # t PROVE Walks(k, s)'
      BY <1>1, <1>2, <1>4, <2>1, WalksStay DEF TopDownTurn
  <2>2. Walks(k, t)'
      BY <1>3, <1>4 DEF Walks
  <2> QED BY <2>1, <2>2
<1>11. Walked'
  <2>1. walker'[0] = walker[0] \/ (walker[0].pc # "vertex" /\ walker'[0].pc # "vertex")
    <3>1. CASE t = 0
        BY <1>1, <1>3, <1>4, <3>1
    <3>2. CASE t # 0
        BY <1>4, <3>2, WorkloadAssumption DEF Threads
    <3> QED BY <3>1, <3>2
  <2> QED BY <1>1, <1>2, <1>7, <2>1 DEF TopDownTurn, Walked
<1>12. \A v \in Vertices : distances'[v] = k + 1 => Buffered(v)'
    BY <1>1, <1>2, <1>5 DEF TopDownTurn, Buffered
<1> QED BY <1>1, <1>8, <1>9, <1>10, <1>11, <1>12 DEF Turn, TopDownTurn

LEMMA JoinExact ==
    ASSUME QueueInv, NEW k \in Nat, Turn(k), JoinTopDown
    PROVE  Turn(k + 1)'
<1> DEFINE n == k + 1
<1>1. /\ bfsMain = "td" /\ bfsMain' = "loop" /\ \A t \in Threads : walker[t].pc = "end"
      /\ outStart' = outEnd /\ outEnd' = sharedIn /\ distance' = distance + 1
      /\ UNCHANGED <<edges, openMP, distances, shared, sharedIn, front, source, walker>>
    BY DEF JoinTopDown, SlideWindow, workload, mapVars
<1>2. /\ BfsTypes /\ Layers(k) /\ TopDownTurn(k) /\ distance = k + 1 /\ BuffersNew
      /\ sharedIn \in Nat /\ outEnd \in Nat /\ outStart \in Nat
      /\ front \subseteq Vertices /\ \A v \in Vertices : distances[v] \in Int
    BY <1>1, TurnTypes, BfsFacts
<1>3. 0 \in Threads
    BY WorkloadAssumption DEF Threads
<1>4. ASSUME NEW u \in Vertices, NEW v \in Vertices, distances[u] = k, <<u, v>> \in edges
      PROVE  0 <= distances[v]
  <2>1. PICK i \in outStart..outEnd - 1 : shared[i] = u
      BY <1>2, <1>4 DEF TopDownTurn, WindowIs
  <2>2. walker[0].pc # "vertex"
      BY <1>1, <1>3
  <2> QED BY <1>2, <1>4, <2>1, <2>2 DEF TopDownTurn, Walked
<1>5. \A u \in front : u \in Vertices /\ 0 <= distances[u] /\ distances[u] <= k + 1
    BY <1>2 DEF Layers
<1>6. Layers(n)' /\ NoFurther(n)'
  <2> n = k + 1
      OBVIOUS
  <2> HIDE DEF n
  <2> QED BY <1>1, <1>2, <1>4, <1>5, LayerDone
<1>7. WindowIs(n)'
  <2>1. ASSUME NEW v \in Vertices, distances[v] = n PROVE \E i \in outEnd..sharedIn - 1 : shared[i] = v
    <3>1. PICK t \in Threads : \E j \in 1..Len(walker[t].buf) : walker[t].buf[j] = v
        BY <1>2, <2>1 DEF TopDownTurn, Buffered
    <3>2. PICK j \in 1..Len(walker[t].buf) : walker[t].buf[j] = v
        BY <3>1
    <3>3. walker[t].room \in Nat /\ Len(walker[t].buf) \in Nat
        BY <1>2, WalkerFacts
    <3>4. outEnd <= walker[t].room /\ walker[t].room + Len(walker[t].buf) <= sharedIn
        BY <1>1, <1>2, <3>3 DEF TopDownTurn, Placed, Books
    <3>5. shared[walker[t].room + j - 1] = v
        BY <1>1, <1>2, <3>2 DEF TopDownTurn, Written
    <3>6. walker[t].room + j - 1 \in outEnd..sharedIn - 1
        BY <1>2, <3>3, <3>4
    <3> QED BY <3>5, <3>6
  <2>2. ASSUME NEW v \in Vertices, NEW i \in outEnd..sharedIn - 1, shared[i] = v PROVE distances[v] = n
    <3>1. PICK t \in Threads : Books(t) /\ i \in Place(t)
        BY <1>2 DEF TopDownTurn, Placed
    <3>2. walker[t].room \in Nat /\ Len(walker[t].buf) \in Nat
        BY <1>2, WalkerFacts
    <3>3. PICK j \in 1..Len(walker[t].buf) : i = walker[t].room + j - 1
      <4>1. i - walker[t].room + 1 \in 1..Len(walker[t].buf)
          BY <3>1, <3>2 DEF Place
      <4>2. i = walker[t].room + (i - walker[t].room + 1) - 1
          BY <1>2, <3>2
      <4> QED BY <4>1, <4>2
    <3>4. shared[i] = walker[t].buf[j]
        BY <1>1, <1>2, <3>3 DEF TopDownTurn, Written
    <3> QED BY <1>2, <2>2, <3>4 DEF BuffersNew
  <2> QED BY <1>1, <2>1, <2>2 DEF WindowIs
<1> QED BY <1>1, <1>6, <1>7 DEF Turn

-----------------------------------------------------------------------------
(* The turns over the bitmap *)

LEMMA BitmapTypes ==
    ASSUME QueueInv, NEW k \in Nat, Turn(k), bfsMain = "bu"
    PROVE  /\ BfsTypes /\ Layers(k) /\ BottomUpTurn(k) /\ distance = k + 1
           /\ curr \subseteq Newest /\ sharedIn = outEnd
           /\ \A v \in Vertices : distances[v] \in Int
           /\ front \subseteq Vertices /\ curr \subseteq Vertices
BY NoCopying, BfsFacts DEF QueueInv, BitmapTurn, Turn, Layers

\* A thread that is elsewhere keeps what it has found.
LEMMA LooksStay ==
    ASSUME NEW s \in Threads, Looks(s), walker'[s] = walker[s], UNCHANGED <<edges, front>>,
           \A x \in Vertices : 0 <= distances[x] => 0 <= distances'[x]
    PROVE  Looks(s)'
BY DEF Looks, Chunk, Vertices

\* A turn begins: nobody has looked at anything.
LEMMA FreshLook ==
    ASSUME SpawnBottomUp, NEW t \in Threads
    PROVE  Looks(t)' /\ walker'[t].pc = "look"
<1>1. walker'[t].pc = "look" /\ walker'[t].at = ChunkBegin(t, NumVertices)
    BY DEF SpawnBottomUp, Idle
<1>2. /\ ChunkBegin(t, NumVertices) \in Nat
      /\ \A u \in Chunk(t, NumVertices) : u \in Nat /\ ChunkBegin(t, NumVertices) <= u
    BY WorkloadAssumption, ChunkEndFacts
<1> QED BY <1>1, <1>2 DEF Looks, BottomUps

LEMMA StartBottomUpExact ==
    ASSUME QueueInv, NEW k \in Nat, Turn(k), StartBottomUp
    PROVE  Turn(k)'
<1>1. /\ bfsMain = "loop" /\ bfsMain' = "bu" /\ curr' = {}
      /\ front' = front \cup {shared[i] : i \in outStart..outEnd - 1}
      /\ UNCHANGED <<edges, openMP, distances, source, distance>>
      /\ SpawnBottomUp
    BY DEF StartBottomUp, workload
<1>2. /\ BfsTypes /\ Layers(k) /\ NoFurther(k) /\ WindowIs(k)
      /\ \A v \in Vertices : distances[v] \in Int
    BY <1>1, BfsFacts DEF Turn, QueueInv
<1>3. \A u \in front' : 0 <= distances[u] /\ distances[u] <= k
    BY <1>1, <1>2, WindowEntries DEF Layers
<1>4. Layers(k)'
    BY <1>1, <1>2, <1>3 DEF Layers, FromSource, Linked, Reaches, NoFurther, Finds
<1>5. \A u \in Vertices : distances[u] = k => u \in front'
    BY <1>1, <1>2 DEF WindowIs
<1>6. \A v \in Vertices : distances[v] # k + 1
    BY <1>2 DEF NoFurther
<1> QED BY <1>1, <1>4, <1>5, <1>6, FreshLook DEF Turn, BottomUpTurn

\* A neighbour in the bitmap is in the last level: those of an earlier one have no
\* unvisited neighbour.
LEMMA LookExact ==
    ASSUME BothWays, QueueInv, NEW k \in Nat, Turn(k), NEW t \in Threads, Look(t)
    PROVE  Turn(k)'
<1> DEFINE w == walker[t]
           u == w.at
           hits == Cardinality(Neighbors(u) \cap front)
           a == [w EXCEPT !.pc = "load", !.hits = hits, !.found = w.found + hits]
           b == [w EXCEPT !.at = u + 1]
           visit == distances[u] < 0 /\ hits > 0
<1>1. /\ w.pc = "look" /\ w \in WalkerType /\ u \in Nat /\ u < ChunkEnd(t, NumVertices)
      /\ bfsMain = "bu" /\ bfsMain' = bfsMain
      /\ UNCHANGED <<edges, openMP, source, distance, front, curr>>
      /\ distances' = [distances EXCEPT ![u] = IF visit THEN distance ELSE @]
      /\ walker' = [walker EXCEPT ![t] = IF visit THEN a ELSE b]
    BY InBitmap, WalkerFacts
       DEF Look, QueueInv, BottomUps, workload, queueVars, mapVars, loopVars
<1>2. /\ BfsTypes /\ Layers(k) /\ BottomUpTurn(k) /\ distance = k + 1
      /\ \A v \in Vertices : distances[v] \in Int
      /\ distances \in [Vertices -> Int] /\ front \subseteq Vertices
    BY <1>1, BitmapTypes, BfsFacts
<1>3. Looks(t) /\ ChunkBegin(t, NumVertices) <= u
    BY <1>2 DEF BottomUpTurn, Looks
<1>4. u \in Vertices /\ u \in Chunk(t, NumVertices)
  <2>1. ChunkEnd(t, NumVertices) \in Nat /\ ChunkEnd(t, NumVertices) <= NumVertices /\ NumVertices \in Nat
      BY WorkloadAssumption, ChunkEndFacts
  <2> HIDE DEF u
  <2>2. u \in 0..NumVertices - 1
      BY <1>1, <2>1
  <2> QED BY <1>1, <1>3, <2>2 DEF Vertices, Chunk
<1>5. \A x \in Vertices : x \in Neighbors(u) <=> <<u, x>> \in edges
    BY <1>2, NeighborsAre DEF BfsTypes
<1>6. a.pc = "load" /\ a.at = u /\ b.pc = "look" /\ b.at = u + 1
    BY <1>1 DEF WalkerType
<1> HIDE DEF a, b
<1>7. /\ walker'[t] = (IF visit THEN a ELSE b)
      /\ \A s \in Threads : s # t => walker'[s] = walker[s]
    BY <1>1, <1>2 DEF BfsTypes
<1>8. CASE visit
  <2>1. PICK x \in Neighbors(u) : x \in front
    <3>1. Neighbors(u) \cap front # {}
        BY <1>8, FS_EmptySet
    <3> QED BY <3>1
  <2>2. x \in Vertices /\ <<u, x>> \in edges /\ <<x, u>> \in edges
    <3>1. x \in Vertices /\ <<u, x>> \in edges
        BY <1>2, <1>5, <2>1
    <3>2. edges \in Graphs
        BY <1>2 DEF BfsTypes, WorkloadInit
    <3> QED BY <1>4, <3>1, <3>2 DEF BothWays
  <2>3. distances[x] = k
    <3>1. 0 <= distances[x] /\ distances[x] <= k
        BY <1>2, <2>1 DEF Layers
    <3>2. ~(distances[x] < k)
      <4>1. SUFFICES ASSUME distances[x] < k PROVE FALSE
          OBVIOUS
      <4>2. Finds(x)
          BY <1>2, <2>2, <3>1, <4>1 DEF Layers
      <4> QED BY <1>2, <1>4, <1>8, <2>2, <4>2 DEF Finds
    <3> QED BY <1>2, <2>2, <3>1, <3>2
  <2>4. distances' = [distances EXCEPT ![u] = distance] /\ distances[u] < 0
      BY <1>1, <1>8
  <2> HIDE DEF visit
  <2>5. /\ Layers(k)'
        /\ \A y \in Vertices : distances'[y] = IF y = u THEN k + 1 ELSE distances[y]
        /\ \A y \in Vertices : distances'[y] = k <=> distances[y] = k
        /\ \A y \in Vertices : 0 <= distances[y] => 0 <= distances'[y]
        /\ 0 <= distances'[u]
    <3> HIDE DEF u
    <3> QED BY <1>1, <1>2, <1>4, <2>2, <2>3, <2>4, Visits
  <2>6. walker'[t].pc = "load" /\ walker'[t].at = u
      BY <1>6, <1>7, <1>8
  <2>7. ASSUME NEW s \in Threads PROVE Looks(s)'
    <3>1. CASE s = t
      <4>1. \A y \in Chunk(t, NumVertices) : y \in Vertices
          BY DEF Chunk, Vertices
      <4> QED BY <1>1, <1>3, <1>4, <2>5, <2>6, <3>1, <4>1 DEF Looks, BottomUps
    <3>2. CASE s # t
        BY <1>1, <1>2, <1>7, <2>5, <3>2, LooksStay DEF BottomUpTurn
    <3> QED BY <3>1, <3>2
  <2>8. ASSUME NEW y \in Vertices, distances'[y] = k + 1 PROVE y \in curr \/ Sets(y)'
    <3>1. CASE y = u
        BY <2>6, <3>1 DEF Sets
    <3>2. CASE y # u
      <4>1. distances[y] = k + 1
          BY <2>5, <2>8, <3>2
      <4>2. y \in curr \/ Sets(y)
          BY <1>2, <4>1 DEF BottomUpTurn
      <4>3. Sets(y) => Sets(y)'
          BY <1>1, <1>7 DEF Sets
      <4> QED BY <4>2, <4>3
    <3> QED BY <3>1, <3>2
  <2>9. \A y \in Vertices : distances'[y] = k => y \in front
      BY <1>2, <2>5 DEF BottomUpTurn
  <2> QED BY <1>1, <2>5, <2>7, <2>8, <2>9 DEF Turn, BottomUpTurn
<1>9. CASE ~visit
  <2>1. 0 <= distances[u] \/ \A x \in front : <<u, x>> \notin edges
    <3>1. CASE ~(distances[u] < 0)
        BY <1>2, <1>4, <3>1
    <3>2. CASE distances[u] < 0
      <4>1. ~(hits > 0) /\ hits \in Nat
        <5>1. Neighbors(u) \cap front \subseteq Vertices
            BY <1>2
        <5>2. hits \in Nat
            BY <5>1, Sizes
        <5> QED BY <1>9, <3>2, <5>2
      <4>2. Neighbors(u) \cap front = {}
        <5>1. IsFiniteSet(Neighbors(u) \cap front)
            BY <1>2, Sizes
        <5> QED BY <4>1, <5>1, FS_EmptySet
      <4> QED BY <1>2, <1>5, <4>2
    <3> QED BY <3>1, <3>2
  <2>2. distances' = distances /\ walker'[t] = b
    <3> HIDE DEF visit
    <3> QED BY <1>1, <1>2, <1>7, <1>9
  <2>3. Layers(k)'
      BY <1>1, <1>2, <2>2, LayersStay
  <2>4. Looks(t)'
    <3>1. walker'[t].pc = "look" /\ walker'[t].at = u + 1
        BY <1>6, <2>2
    <3>2. ChunkBegin(t, NumVertices) \in Nat /\ ChunkBegin(t, NumVertices) <= u + 1
        BY <1>1, <1>3, WorkloadAssumption, ChunkEndFacts
    <3>3. ASSUME NEW y \in Chunk(t, NumVertices), y < u + 1
          PROVE  0 <= distances[y] \/ \A x \in front : <<y, x>> \notin edges
      <4>1. y \in Nat
          BY WorkloadAssumption, ChunkEndFacts
      <4>2. CASE y = u
          BY <2>1, <4>2
      <4>3. CASE y # u
        <5>1. y < u
            BY <1>1, <3>3, <4>1, <4>3
        <5> QED BY <1>3, <5>1 DEF Looks
      <4> QED BY <4>2, <4>3
    <3> QED BY <1>1, <2>2, <3>1, <3>2, <3>3 DEF Looks, BottomUps
  <2>5. ASSUME NEW s \in Threads PROVE Looks(s)'
    <3>1. CASE s # t
        BY <1>1, <1>2, <1>7, <2>2, <3>1, LooksStay DEF BottomUpTurn
    <3> QED BY <2>4, <3>1
  <2>6. \A y \in Vertices : Sets(y) => Sets(y)'
      BY <1>1, <1>7 DEF Sets
  <2> QED BY <1>1, <1>2, <2>2, <2>3, <2>5, <2>6 DEF Turn, BottomUpTurn
<1> QED BY <1>8, <1>9

LEMMA LoadExact ==
    ASSUME QueueInv, NEW k \in Nat, Turn(k), NEW t \in Threads, LoadWord(t)
    PROVE  Turn(k)'
<1> DEFINE w == walker[t]
           r == [w EXCEPT !.pc = "store", !.word = curr \cap Word(w.at)]
<1>1. /\ w.pc = "load" /\ w \in WalkerType
      /\ bfsMain = "bu" /\ bfsMain' = bfsMain
      /\ UNCHANGED <<edges, openMP, source, distance, distances, front, curr>>
      /\ walker' = [walker EXCEPT ![t] = r]
    BY InBitmap, WalkerFacts
       DEF LoadWord, QueueInv, BottomUps, workload, queueVars, mapVars, loopVars
<1>2. BfsTypes /\ Layers(k) /\ BottomUpTurn(k)
    BY <1>1, BitmapTypes
<1>3. r.pc = "store" /\ r.at = w.at /\ r.word = curr \cap Word(w.at)
    BY <1>1 DEF WalkerType
<1> HIDE DEF r
<1>4. walker'[t] = r /\ \A s \in Threads : s # t => walker'[s] = walker[s]
    BY <1>1, <1>2 DEF BfsTypes
<1>5. Layers(k)'
    BY <1>1, <1>2, LayersStay
<1>6. Looks(t)'
  <2>1. Looks(t)
      BY <1>2 DEF BottomUpTurn
  <2> QED BY <1>1, <1>3, <1>4, <2>1 DEF Looks, BottomUps
<1>7. ASSUME NEW s \in Threads PROVE Looks(s)'
  <2>1. CASE s # t
      BY <1>1, <1>2, <1>4, <2>1, LooksStay DEF BottomUpTurn
  <2> QED BY <1>6, <2>1
<1>8. \A y \in Vertices : Sets(y) => Sets(y)'
    BY <1>1, <1>3, <1>4 DEF Sets
<1> QED BY <1>1, <1>2, <1>5, <1>7, <1>8 DEF Turn, BottomUpTurn

\* No bit of the word was set between the load and the store.
LEMMA StoreExact ==
    ASSUME QueueInv, NEW k \in Nat, Turn(k), NEW t \in Threads, StoreWord(t), ~lost'
    PROVE  Turn(k)'
<1> DEFINE w == walker[t]
           u == w.at
           a == [w EXCEPT !.pc = "load", !.hits = w.hits - 1]
           b == [w EXCEPT !.pc = "look", !.hits = 0, !.at = u + 1]
<1>1. /\ w.pc = "store" /\ w \in WalkerType /\ u \in Nat
      /\ bfsMain = "bu" /\ bfsMain' = bfsMain
      /\ UNCHANGED <<edges, openMP, source, distance, distances, front>>
      /\ curr' = (curr \ Word(u)) \cup w.word \cup {u} /\ curr \cap Word(u) \subseteq w.word
      /\ walker' = [walker EXCEPT ![t] = a] \/ walker' = [walker EXCEPT ![t] = b]
    BY InBitmap, WalkerFacts
       DEF StoreWord, QueueInv, BottomUps, workload, queueVars
<1>2. /\ BfsTypes /\ Layers(k) /\ BottomUpTurn(k) /\ curr \subseteq Newest /\ distance = k + 1
      /\ u \in Newest /\ curr \subseteq Vertices
    BY <1>1, BitmapTypes, InBitmap DEF BottomUps
<1>3. Looks(t) /\ u \in Chunk(t, NumVertices) /\ ChunkBegin(t, NumVertices) <= u
    BY <1>1, <1>2 DEF BottomUpTurn, Looks
<1>4. a.pc = "load" /\ a.at = u /\ b.pc = "look" /\ b.at = u + 1
    BY <1>1 DEF WalkerType
<1> HIDE DEF a, b
<1>5. /\ walker'[t] = a \/ walker'[t] = b
      /\ \A s \in Threads : s # t => walker'[s] = walker[s]
    BY <1>1, <1>2 DEF BfsTypes
<1>6. Layers(k)'
    BY <1>1, <1>2, LayersStay
<1>7. curr \subseteq curr' /\ u \in curr'
    BY <1>1
<1>8. ASSUME NEW s \in Threads, s # t PROVE Looks(s)'
    BY <1>1, <1>2, <1>5, <1>8, LooksStay DEF BottomUpTurn
<1>9. Looks(t)'
  <2>1. CASE walker'[t] = a
      BY <1>1, <1>3, <1>4, <2>1 DEF Looks, BottomUps
  <2>2. CASE walker'[t] = b
    <3>1. ChunkBegin(t, NumVertices) \in Nat /\ ChunkBegin(t, NumVertices) <= u + 1
        BY <1>1, <1>3, WorkloadAssumption, ChunkEndFacts
    <3>2. ASSUME NEW y \in Chunk(t, NumVertices), y < u + 1
          PROVE  0 <= distances[y] \/ \A x \in front : <<y, x>> \notin edges
      <4>1. y \in Nat
          BY WorkloadAssumption, ChunkEndFacts
      <4>2. CASE y = u
          BY <1>2, <4>2 DEF Newest
      <4>3. CASE y # u
        <5>1. y < u
            BY <1>1, <3>2, <4>1, <4>3
        <5> QED BY <1>3, <5>1 DEF Looks
      <4> QED BY <4>2, <4>3
    <3> QED BY <1>1, <1>4, <2>2, <3>1, <3>2 DEF Looks, BottomUps
  <2> QED BY <1>5, <2>1, <2>2
<1>10. ASSUME NEW y \in Vertices, distances[y] = k + 1 PROVE y \in curr' \/ Sets(y)'
  <2>1. y \in curr \/ Sets(y)
      BY <1>2, <1>10 DEF BottomUpTurn
  <2>2. CASE y = u \/ y \in curr
      BY <1>7, <2>2
  <2>3. CASE y # u /\ Sets(y)
      BY <1>5, <2>3 DEF Sets
  <2> QED BY <2>1, <2>2, <2>3
<1>11. \A s \in Threads : Looks(s)'
    BY <1>8, <1>9
<1> QED BY <1>1, <1>2, <1>6, <1>10, <1>11 DEF Turn, BottomUpTurn

\* When all threads have looked at their chunks, every vertex next to the last level
\* is visited and its bit is set.
LEMMA AllLooked ==
    ASSUME BothWays, QueueInv, NEW k \in Nat, Turn(k), bfsMain = "bu", \A t \in Threads : Scanned(t)
    PROVE  /\ \A u, v \in Vertices : distances[u] = k /\ <<u, v>> \in edges => 0 <= distances[v]
           /\ curr = {v \in Vertices : distances[v] = k + 1}
<1>1. /\ BfsTypes /\ Layers(k) /\ BottomUpTurn(k) /\ distance = k + 1
      /\ curr \subseteq Newest
    BY BitmapTypes
<1>2. ASSUME NEW u \in Vertices, NEW v \in Vertices, distances[u] = k, <<u, v>> \in edges
      PROVE  0 <= distances[v]
  <2>1. PICK t \in Threads : v \in Chunk(t, NumVertices)
      BY ChunksPartition, WorkloadAssumption DEF Vertices
  <2>2. v < walker[t].at
    <3>1. walker[t].at >= ChunkEnd(t, NumVertices) /\ walker[t].at \in Nat
        BY <1>1, WalkerFacts DEF Scanned
    <3>2. v < ChunkEnd(t, NumVertices) /\ ChunkEnd(t, NumVertices) \in Nat /\ v \in Nat
        BY <2>1, WorkloadAssumption, ChunkEndFacts
    <3> QED BY <3>1, <3>2
  <2>3. u \in front /\ Looks(t)
      BY <1>1, <1>2 DEF BottomUpTurn
  <2>4. <<v, u>> \in edges
      BY <1>1, <1>2 DEF BothWays, BfsTypes, WorkloadInit
  <2> QED BY <2>1, <2>2, <2>3, <2>4 DEF Looks
<1>3. \A v \in Vertices : ~Sets(v)
    BY DEF Sets, Scanned
<1>4. curr = {v \in Vertices : distances[v] = k + 1}
    BY <1>1, <1>3 DEF BottomUpTurn, Newest
<1> QED BY <1>2, <1>4

LEMMA JoinBitmapExact ==
    ASSUME BothWays, QueueInv, NEW k \in Nat, Turn(k), JoinBottomUp
    PROVE  Turn(k + 1)'
<1> DEFINE n == k + 1
<1>1. /\ bfsMain = "bu" /\ bfsMain' = "bu" /\ front' = curr /\ curr' = {}
      /\ distance' = distance + 1 /\ \A t \in Threads : Scanned(t)
      /\ UNCHANGED <<edges, openMP, distances, source>>
      /\ SpawnBottomUp
    BY DEF JoinBottomUp, workload
<1>2. BfsTypes /\ Layers(k) /\ \A v \in Vertices : distances[v] \in Int
    BY <1>1, BitmapTypes
<1>3. /\ \A u, v \in Vertices : distances[u] = k /\ <<u, v>> \in edges => 0 <= distances[v]
      /\ curr = {v \in Vertices : distances[v] = n}
    BY <1>1, AllLooked
<1>4. Layers(n)' /\ NoFurther(n)'
  <2>1. \A u \in front' : u \in Vertices /\ 0 <= distances[u] /\ distances[u] <= k + 1
      BY <1>1, <1>3
  <2> n = k + 1
      OBVIOUS
  <2> HIDE DEF n
  <2> QED BY <1>1, <1>2, <1>3, <2>1, LayerDone
<1>5. \A v \in Vertices : distances'[v] # n + 1
    BY <1>1, <1>2, <1>4 DEF NoFurther
<1> QED BY <1>1, <1>3, <1>4, <1>5, FreshLook DEF Turn, BottomUpTurn

LEMMA LeaveExact ==
    ASSUME BothWays, QueueInv, NEW k \in Nat, Turn(k), LeaveBottomUp
    PROVE  Turn(k + 1)'
<1> DEFINE n == k + 1
           m == Cardinality(curr)
<1>1. /\ bfsMain = "bu" /\ bfsMain' = "loop" /\ front' = curr /\ curr' = front
      /\ distance' = distance + 1 /\ \A t \in Threads : Scanned(t)
      /\ sharedIn' = sharedIn + m /\ outStart' = outEnd /\ outEnd' = sharedIn'
      /\ UNCHANGED <<edges, openMP, distances, source>>
    BY DEF LeaveBottomUp, workload
<1>2. /\ BfsTypes /\ Layers(k) /\ \A v \in Vertices : distances[v] \in Int
      /\ sharedIn = outEnd /\ sharedIn \in Nat /\ curr \subseteq Vertices
    BY <1>1, BitmapTypes, BfsFacts
<1>3. /\ \A u, v \in Vertices : distances[u] = k /\ <<u, v>> \in edges => 0 <= distances[v]
      /\ curr = {v \in Vertices : distances[v] = n}
    BY <1>1, AllLooked
<1>4. Layers(n)' /\ NoFurther(n)'
  <2>1. \A u \in front' : u \in Vertices /\ 0 <= distances[u] /\ distances[u] <= k + 1
      BY <1>1, <1>3
  <2> n = k + 1
      OBVIOUS
  <2> HIDE DEF n
  <2> QED BY <1>1, <1>2, <1>3, <2>1, LayerDone
<1>5. PICK q : q \in SetToSeqs(curr) /\ shared' = Stored(q, sharedIn)
    BY DEF LeaveBottomUp
<1>6. /\ m \in Nat /\ Len(q) = m
      /\ \A j \in 1..m : q[j] \in curr
      /\ \A v \in curr : \E j \in 1..m : q[j] = v
    BY <1>2, <1>5, SequenceOf
<1>7. sharedIn + m <= NumVertices
  <2>1. outEnd <= Cardinality(Visited) /\ outEnd \in Nat
      BY <1>2 DEF QueueInv, BfsTypes
  <2>2. Cardinality(curr) <= Cardinality(Newest) /\ m \in Nat
      BY <1>1, <1>2, <1>6, BitmapTypes, Sizes DEF Newest
  <2> QED BY <1>2, <2>1, <2>2, Counts, WorkloadAssumption
<1> HIDE DEF m
<1>8. \A j \in 1..m : shared'[sharedIn + j - 1] = q[j]
  <2> SUFFICES ASSUME NEW j \in 1..m PROVE shared'[sharedIn + j - 1] = q[j]
      OBVIOUS
  <2> DEFINE i == sharedIn + j - 1
  <2>1. i \in 0..NumVertices - 1 /\ i - sharedIn \in 0..m - 1 /\ i - sharedIn + 1 = j
      BY <1>2, <1>6, <1>7, WorkloadAssumption
  <2> HIDE DEF i
  <2>2. shared'[i] = q[j]
      BY <1>5, <1>6, <2>1 DEF Stored, Vertices
  <2> QED BY <2>2 DEF i
<1>9. WindowIs(n)'
  <2>1. ASSUME NEW v \in Vertices, distances[v] = n
        PROVE  \E i \in outEnd..sharedIn + m - 1 : shared'[i] = v
    <3>1. PICK j \in 1..m : q[j] = v
        BY <1>3, <1>6, <2>1
    <3>2. sharedIn + j - 1 \in outEnd..sharedIn + m - 1
        BY <1>2, <1>6
    <3> QED BY <1>8, <3>1, <3>2
  <2>2. ASSUME NEW v \in Vertices, NEW i \in outEnd..sharedIn + m - 1, shared'[i] = v
        PROVE  distances[v] = n
    <3>1. i - sharedIn + 1 \in 1..m /\ sharedIn + (i - sharedIn + 1) - 1 = i
        BY <1>2, <1>6
    <3>2. v = q[i - sharedIn + 1]
        BY <1>8, <2>2, <3>1
    <3> QED BY <1>3, <1>6, <3>1, <3>2
  <2> DEFINE lo == outStart'
             hi == outEnd' - 1
  <2>3. distances' = distances /\ lo = outEnd /\ hi = sharedIn + m - 1
      BY <1>1, <1>2, <1>6
  <2> HIDE DEF lo, hi
  <2>4. \A v \in Vertices : distances'[v] = n => \E i \in lo..hi : shared'[i] = v
      BY <2>1, <2>3
  <2>5. \A v \in Vertices, i \in lo..hi : shared'[i] = v => distances'[v] = n
      BY <2>2, <2>3
  <2>6. \A v \in Vertices : distances'[v] = n <=> \E i \in lo..hi : shared'[i] = v
      BY <2>4, <2>5
  <2> QED BY <2>6 DEF WindowIs, lo, hi
<1> QED BY <1>1, <1>4, <1>9 DEF Turn

-----------------------------------------------------------------------------
(* The search *)

LEMMA StartExact ==
    ASSUME QueueInv, front = {}, BfsStart
    PROVE  Turn(0)'
<1>1. /\ bfsMain' = "loop" /\ source' \in Vertices /\ distance' = 1
      /\ outStart' = 0 /\ outEnd' = 1 /\ front' = {} /\ BfsTypes
      /\ shared' = [shared EXCEPT ![0] = source']
    BY BfsAssumption DEF BfsStart, QueueInv, mapVars
<1>2. /\ distances'[source'] = 0
      /\ \A v \in Vertices : distances'[v] \in Int /\ (v # source' => distances'[v] < 0)
  <2>1. ASSUME NEW v \in Vertices PROVE Degree(v) \in Nat
    <3>1. Neighbors(v) \subseteq Vertices
        BY <1>1, NeighborsAre DEF BfsTypes
    <3> QED BY <3>1, Sizes DEF Degree
  <2>2. distances' = [v \in Vertices |-> IF v = source' THEN 0 ELSE IF Degree(v) = 0 THEN -1 ELSE -Degree(v)]
      BY DEF BfsStart
  <2> QED BY <1>1, <2>1, <2>2
<1>3. FromSource' /\ Linked'
    BY <1>1, <1>2 DEF FromSource, Linked
<1>4. NoFurther(0)' /\ NoFurther(0 + 1)'
    BY <1>1, <1>2 DEF NoFurther
<1>5. Layers(0)'
  <2>1. \A u \in Vertices : ~(0 <= distances'[u] /\ distances'[u] < 0)
      BY <1>2
  <2> QED BY <1>1, <1>3, <1>4, <2>1 DEF Layers
<1>6. WindowIs(0)'
  <2>1. 0 \in Vertices
      BY WorkloadAssumption DEF Vertices
  <2>2. shared'[0] = source'
      BY <1>1, <2>1 DEF BfsTypes
  <2> DEFINE lo == outStart'
             hi == outEnd' - 1
  <2>3. lo..hi = {0}
      BY <1>1
  <2> HIDE DEF lo, hi
  <2>4. \A v \in Vertices : distances'[v] = 0 <=> v = source'
      BY <1>2
  <2>5. \A v \in Vertices : distances'[v] = 0 <=> \E i \in lo..hi : shared'[i] = v
      BY <2>2, <2>3, <2>4
  <2> QED BY <2>5 DEF WindowIs, lo, hi
<1> QED BY <1>1, <1>4, <1>5, <1>6 DEF Turn

\* The last level is empty: the search is over.
LEMMA DoneExact ==
    ASSUME QueueInv, NEW k \in Nat, Turn(k), BfsDone
    PROVE  Searched'
<1>1. /\ bfsMain = "loop" /\ outStart = outEnd /\ BfsTypes
      /\ UNCHANGED <<edges, distances, source>>
    BY DEF BfsDone, QueueEmpty, workload, loopVars, QueueInv
<1>2. Layers(k) /\ NoFurther(k) /\ WindowIs(k)
    BY <1>1 DEF Turn
<1>3. \A v \in Vertices : distances[v] # k
  <2>1. outStart..outEnd - 1 = {}
      BY <1>1, BfsFacts
  <2> QED BY <1>2, <2>1 DEF WindowIs
<1>4. \A v \in Vertices : 0 <= distances[v] => Finds(v)
  <2>1. \A v \in Vertices : distances[v] \in Int /\ distances[v] <= k
      BY <1>1, <1>2, BfsFacts DEF NoFurther
  <2> QED BY <1>2, <1>3, <2>1 DEF Layers
<1>5. Searched
    BY <1>2, <1>4 DEF Searched, Layers
<1> QED BY <1>1, <1>5 DEF Searched, FromSource, Linked, Reaches, Finds

LEMMA StutterExact ==
    ASSUME ExactInv, UNCHANGED bfsVars
    PROVE  ExactInv'
<1>1. UNCHANGED <<edges, openMP, distances, shared, sharedIn, outStart, outEnd, front, curr,
                  source, distance, bfsMain, walker>>
    BY DEF bfsVars, workload, queueVars, mapVars, loopVars
<1>2. ASSUME NEW k \in Nat, Turn(k) PROVE Turn(k)'
  <2>1. Layers(k)'
      BY <1>1, <1>2, LayersStay DEF Turn
  <2>2. bfsMain' = "loop" => NoFurther(k)' /\ WindowIs(k)'
      BY <1>1, <1>2 DEF Turn, NoFurther, WindowIs
  <2>3. bfsMain' = "td" => TopDownTurn(k)'
    <3> SUFFICES ASSUME bfsMain = "td" PROVE TopDownTurn(k)'
        BY <1>1
    <3>1. TopDownTurn(k)
        BY <1>2 DEF Turn
    <3>2. WindowIs(k)' /\ Walked'
        BY <1>1, <3>1 DEF TopDownTurn, WindowIs, Walked
    <3>3. Placed'
        BY <1>1, <3>1 DEF TopDownTurn, Placed, Books, Place
    <3>4. \A t \in Threads : Walks(k, t)' /\ Written(t)'
        BY <1>1, <3>1 DEF TopDownTurn, Walks, Written
    <3>5. \A v \in Vertices : distances'[v] = k + 1 => Buffered(v)'
        BY <1>1, <3>1 DEF TopDownTurn, Buffered
    <3> QED BY <3>2, <3>3, <3>4, <3>5 DEF TopDownTurn
  <2>4. bfsMain' = "bu" => BottomUpTurn(k)'
    <3> SUFFICES ASSUME bfsMain = "bu" PROVE BottomUpTurn(k)'
        BY <1>1
    <3>1. BottomUpTurn(k)
        BY <1>2 DEF Turn
    <3>2. \A t \in Threads : Looks(t)'
        BY <1>1, <3>1 DEF BottomUpTurn, Looks
    <3>3. \A v \in Vertices : Sets(v)' <=> Sets(v)
        BY <1>1 DEF Sets
    <3> QED BY <1>1, <3>1, <3>2, <3>3 DEF BottomUpTurn
  <2> QED BY <2>1, <2>2, <2>3, <2>4 DEF Turn
<1>3. Searched => Searched'
    BY <1>1 DEF Searched, FromSource, Linked, Reaches, Finds
<1> QED BY <1>1, <1>2, <1>3 DEF ExactInv

LEMMA WalkerExact ==
    ASSUME BothWays, QueueInv, NEW k \in Nat, Turn(k), NEW t \in Threads, WalkerStep(t), ~lost'
    PROVE  Turn(k)'
<1>1. CASE TakeVertex(t)
    BY <1>1, TakeExact
<1>2. CASE Claim(t)
    BY <1>2, ClaimExact
<1>3. CASE Reserve(t)
    BY <1>3, ReserveExact
<1>4. CASE ReserveStore(t)
    BY <1>4, ReserveStoreExact
<1>5. CASE CopyBuffer(t)
    BY <1>5, CopyExact
<1>6. CASE Look(t)
    BY <1>6, LookExact
<1>7. CASE LoadWord(t)
    BY <1>7, LoadExact
<1>8. CASE StoreWord(t)
    BY <1>8, StoreExact
<1> QED BY <1>1, <1>2, <1>3, <1>4, <1>5, <1>6, <1>7, <1>8 DEF WalkerStep

\* A thread is at work in a turn only.
LEMMA WorksInTurn ==
    ASSUME QueueInv, NEW t \in Threads, WalkerStep(t)
    PROVE  bfsMain \in {"td", "bu"} /\ bfsMain' = bfsMain /\ (lost => lost')
<1>1. walker[t].pc \in TopDown \cup BottomUps /\ bfsMain' = bfsMain
    BY DEF WalkerStep, TakeVertex, Claim, Reserve, ReserveStore, CopyBuffer, Look, LoadWord, StoreWord,
           TopDown, BottomUps
<1>2. lost => lost'
  <2>1. CASE ReserveStore(t)
      BY <2>1, Zenon DEF ReserveStore
  <2>2. CASE StoreWord(t)
      BY <2>2, Zenon DEF StoreWord
  <2>3. CASE UNCHANGED loopVars
      BY <2>3 DEF loopVars
  <2> QED
    BY <2>1, <2>2, <2>3
       DEF WalkerStep, TakeVertex, Claim, Reserve, CopyBuffer, Look, LoadWord
<1> QED BY <1>1, <1>2 DEF QueueInv

LEMMA ExactInductive ==
    ASSUME BothWays, QueueInv, ~lost => ExactInv, [BfsNext]_bfsVars
    PROVE  ~lost' => ExactInv'
<1>1. lost => lost'
  <2>1. ASSUME NEW t \in Threads, WalkerStep(t) PROVE lost => lost'
      BY <2>1, WorksInTurn
  <2> QED BY <2>1 DEF BfsNext, BfsStep, BfsStart, BfsDone, SpawnTopDown, JoinTopDown, StartBottomUp,
                      JoinBottomUp, LeaveBottomUp, bfsVars, loopVars
<1> SUFFICES ASSUME ~lost', ExactInv PROVE ExactInv'
    BY <1>1
<1>2. ASSUME NEW k \in Nat, Turn(k)', bfsMain' \in {"loop", "td", "bu"} PROVE ExactInv'
    BY <1>2 DEF ExactInv
<1>3. \A k \in Nat : k + 1 \in Nat
    OBVIOUS
<1>4. CASE BfsStart
  <2>1. bfsMain = "off" /\ bfsMain' = "loop"
      BY <1>4 DEF BfsStart
  <2>2. Turn(0)'
      BY <1>4, <2>1, StartExact DEF ExactInv
  <2> QED BY <1>2, <2>1, <2>2
<1>5. CASE BfsDone
  <2>1. bfsMain = "loop" /\ bfsMain' = "done"
      BY <1>5 DEF BfsDone
  <2>2. PICK k \in Nat : Turn(k)
      BY <2>1 DEF ExactInv
  <2> QED BY <1>5, <2>1, <2>2, DoneExact DEF ExactInv
<1>6. CASE SpawnTopDown
  <2>1. bfsMain = "loop" /\ bfsMain' = "td"
      BY <1>6 DEF SpawnTopDown
  <2>2. PICK k \in Nat : Turn(k)
      BY <2>1 DEF ExactInv
  <2> QED BY <1>2, <1>6, <2>1, <2>2, SpawnExact
<1>7. CASE JoinTopDown
  <2>1. bfsMain = "td" /\ bfsMain' = "loop"
      BY <1>7 DEF JoinTopDown
  <2>2. PICK k \in Nat : Turn(k)
      BY <2>1 DEF ExactInv
  <2>3. Turn(k + 1)'
      BY <1>7, <2>2, JoinExact
  <2> QED BY <1>2, <1>3, <2>1, <2>3
<1>8. CASE StartBottomUp
  <2>1. bfsMain = "loop" /\ bfsMain' = "bu"
      BY <1>8 DEF StartBottomUp
  <2>2. PICK k \in Nat : Turn(k)
      BY <2>1 DEF ExactInv
  <2> QED BY <1>2, <1>8, <2>1, <2>2, StartBottomUpExact
<1>9. CASE JoinBottomUp
  <2>1. bfsMain = "bu" /\ bfsMain' = "bu"
      BY <1>9 DEF JoinBottomUp
  <2>2. PICK k \in Nat : Turn(k)
      BY <2>1 DEF ExactInv
  <2>3. Turn(k + 1)'
      BY <1>9, <2>2, JoinBitmapExact
  <2> QED BY <1>2, <1>3, <2>1, <2>3
<1>10. CASE LeaveBottomUp
  <2>1. bfsMain = "bu" /\ bfsMain' = "loop"
      BY <1>10 DEF LeaveBottomUp
  <2>2. PICK k \in Nat : Turn(k)
      BY <2>1 DEF ExactInv
  <2>3. Turn(k + 1)'
      BY <1>10, <2>2, LeaveExact
  <2> QED BY <1>2, <1>3, <2>1, <2>3
<1>11. ASSUME NEW t \in Threads, WalkerStep(t) PROVE ExactInv'
  <2>1. bfsMain \in {"td", "bu"} /\ bfsMain' = bfsMain
      BY <1>11, WorksInTurn
  <2>2. PICK k \in Nat : Turn(k)
      BY <2>1 DEF ExactInv
  <2> QED BY <1>2, <1>11, <2>1, <2>2, WalkerExact
<1>12. CASE UNCHANGED bfsVars
    BY <1>12, StutterExact
<1> QED BY <1>4, <1>5, <1>6, <1>7, <1>8, <1>9, <1>10, <1>11, <1>12 DEF BfsNext, BfsStep

-----------------------------------------------------------------------------
(* What the search has found in the end *)

\* Every distance up to that of a vertex is the distance of some vertex, and there
\* are only NumVertices of them.
LEMMA NoneTooFar ==
    ASSUME BfsTypes, Searched, NEW u \in Vertices
    PROVE  distances[u] <= NumVertices
<1> SUFFICES ASSUME ~(distances[u] <= NumVertices) PROVE FALSE
    OBVIOUS
<1> DEFINE d == distances[u]
           At(c) == \E v \in Vertices : distances[v] = c
           Gap == {e \in 0..d : ~ At(d - e)}
<1>1. /\ d \in Nat /\ NumVertices \in Nat /\ NumVertices < d
      /\ \A v \in Vertices : distances[v] \in Int
    BY BfsFacts, WorkloadAssumption
<1>2. Gap = {}
  <2>1. SUFFICES ASSUME Gap # {} PROVE FALSE
      OBVIOUS
  <2>2. PICK e \in Gap : \A j \in Gap : e <= j
    <3>1. Gap \subseteq Nat
        BY <1>1
    <3> HIDE DEF Gap
    <3> QED BY <2>1, <3>1, LeastOf
  <2>3. e # 0
      BY <1>1
  <2>4. e - 1 \in 0..d /\ ~(e <= e - 1)
      BY <1>1, <2>3
  <2>5. e - 1 \notin Gap
      BY <2>2, <2>4
  <2>6. PICK v \in Vertices : distances[v] = d - (e - 1)
      BY <2>4, <2>5
  <2>7. 0 < distances[v]
      BY <1>1, <2>3, <2>6
  <2>8. PICK x \in Vertices : distances[x] + 1 = distances[v]
      BY <2>7 DEF Searched, Linked, Reaches
  <2>9. distances[x] = d - e
      BY <1>1, <2>6, <2>8
  <2> QED BY <2>9
<1>3. \A c \in 0..NumVertices : At(c)
  <2> SUFFICES ASSUME NEW c \in 0..NumVertices PROVE At(c)
      OBVIOUS
  <2> DEFINE e == d - c
  <2>1. e \in 0..d /\ d - e = c
      BY <1>1
  <2> HIDE DEF e
  <2> QED BY <1>2, <2>1
<1> DEFINE f == [v \in Vertices |-> IF distances[v] \in 0..NumVertices THEN distances[v] ELSE 0]
<1>4. \A c \in 0..NumVertices : \E v \in Vertices : f[v] = c
    BY <1>3
<1>5. f \in [Vertices -> 0..NumVertices]
    BY <1>1
<1>6. f \in Surjection(Vertices, 0..NumVertices)
    BY <1>4, <1>5 DEF Surjection
<1> HIDE DEF f
<1>7. IsFiniteSet(Vertices) /\ Cardinality(Vertices) = NumVertices
    BY Sizes
<1>8. Cardinality(0..NumVertices) <= Cardinality(Vertices)
    BY <1>6, <1>7, FS_Surjection
<1>9. Cardinality(0..NumVertices) = NumVertices + 1
    BY <1>1, FS_Interval
<1> QED BY <1>1, <1>7, <1>8, <1>9

LEMMA WithinAre ==
    ASSUME BfsTypes, Searched
    PROVE  \A n \in 0..NumVertices : Within[n] = {v \in Vertices : 0 <= distances[v] /\ distances[v] <= n}
<1> DEFINE F == [n \in 0..NumVertices |-> {v \in Vertices : 0 <= distances[v] /\ distances[v] <= n}]
           Spread(f) == f = [n \in 0..NumVertices |-> IF n = 0 THEN {source}
                                ELSE f[n - 1] \cup UNION {Neighbors(u) : u \in f[n - 1]}]
<1>1. /\ NumVertices \in Nat /\ source \in Vertices /\ \A v \in Vertices : distances[v] \in Int
      /\ FromSource /\ Linked
    BY BfsFacts, WorkloadAssumption DEF Searched
<1>2. \A u \in Vertices : Neighbors(u) = {v \in Vertices : <<u, v>> \in edges}
    BY NeighborsAre DEF BfsTypes
<1>3. ASSUME NEW n \in 0..NumVertices
      PROVE  F[n] = IF n = 0 THEN {source} ELSE F[n - 1] \cup UNION {Neighbors(u) : u \in F[n - 1]}
  <2>1. CASE n = 0
    <3>1. \A v \in Vertices : 0 <= distances[v] /\ distances[v] <= 0 <=> v = source
        BY <1>1 DEF FromSource
    <3> QED BY <1>1, <2>1, <3>1
  <2>2. CASE n # 0
    <3>1. /\ n - 1 \in 0..NumVertices
          /\ F[n] = {v \in Vertices : 0 <= distances[v] /\ distances[v] <= n}
          /\ F[n - 1] = {v \in Vertices : 0 <= distances[v] /\ distances[v] <= n - 1}
        BY <1>1, <2>2
    <3> HIDE DEF F
    <3>2. ASSUME NEW v \in F[n] PROVE v \in F[n - 1] \cup UNION {Neighbors(u) : u \in F[n - 1]}
      <4>1. CASE distances[v] <= n - 1
          BY <3>1, <3>2, <4>1
      <4>2. CASE ~(distances[v] <= n - 1)
        <5>1. v \in Vertices /\ distances[v] = n /\ 0 < distances[v]
            BY <1>1, <2>2, <3>1, <3>2, <4>2
        <5>2. PICK u \in Vertices : 0 <= distances[u] /\ <<u, v>> \in edges /\ distances[u] + 1 = distances[v]
            BY <1>1, <5>1 DEF Linked, Reaches
        <5>3. u \in F[n - 1]
            BY <1>1, <3>1, <5>1, <5>2
        <5>4. v \in Neighbors(u)
            BY <1>2, <5>1, <5>2
        <5> QED BY <5>3, <5>4
      <4> QED BY <4>1, <4>2
    <3>3. ASSUME NEW u \in F[n - 1], NEW v \in Neighbors(u) PROVE v \in F[n]
      <4>1. u \in Vertices /\ 0 <= distances[u] /\ distances[u] <= n - 1
          BY <3>1
      <4>2. v \in Vertices /\ <<u, v>> \in edges
          BY <1>2, <4>1
      <4>3. 0 <= distances[v] /\ distances[v] <= distances[u] + 1
          BY <4>1, <4>2 DEF Searched, Finds
      <4> QED BY <1>1, <3>1, <4>1, <4>2, <4>3
    <3>4. ASSUME NEW v \in F[n - 1] PROVE v \in F[n]
        BY <1>1, <3>1
    <3> QED BY <2>2, <3>2, <3>3, <3>4
  <2> QED BY <2>1, <2>2
<1>4. Spread(F)
  <2>1. F = [n \in 0..NumVertices |-> F[n]]
      OBVIOUS
  <2> HIDE DEF F
  <2> QED BY <1>3, <2>1
<1>5. Spread(Within)
    BY <1>4 DEF Within
<1>6. \A n \in 0..NumVertices :
        Within[n] = IF n = 0 THEN {source} ELSE Within[n - 1] \cup UNION {Neighbors(u) : u \in Within[n - 1]}
    BY <1>5
<1> HIDE DEF F
<1> DEFINE Bad == {n \in 0..NumVertices : Within[n] # F[n]}
<1>7. Bad = {}
  <2>1. SUFFICES ASSUME Bad # {} PROVE FALSE
      OBVIOUS
  <2>2. PICK m \in Bad : \A j \in Bad : m <= j
    <3>1. Bad \subseteq Nat
        BY <1>1
    <3> HIDE DEF Bad
    <3> QED BY <2>1, <3>1, LeastOf
  <2>3. m # 0
      BY <1>3, <1>6
  <2>4. m - 1 \in 0..NumVertices /\ ~(m <= m - 1)
      BY <1>1, <2>3
  <2>5. Within[m - 1] = F[m - 1]
      BY <2>2, <2>4
  <2>6. Within[m] = F[m]
      BY <1>3, <1>6, <2>3, <2>5
  <2> QED BY <2>6
<1> QED BY <1>7 DEF F

LEMMA SearchedExact == ASSUME BfsTypes, Searched PROVE DistancesExact
<1> SUFFICES ASSUME NEW v \in Vertices
             PROVE  IF v \in Within[NumVertices]
                    THEN /\ distances[v] \in 0..NumVertices
                         /\ v \in Within[distances[v]]
                         /\ distances[v] > 0 => v \notin Within[distances[v] - 1]
                    ELSE distances[v] < 0
    BY DEF DistancesExact
<1>1. \A n \in 0..NumVertices : Within[n] = {x \in Vertices : 0 <= distances[x] /\ distances[x] <= n}
    BY WithinAre
<1>2. distances[v] \in Int /\ distances[v] <= NumVertices /\ NumVertices \in Nat
    BY BfsFacts, NoneTooFar, WorkloadAssumption
<1>3. NumVertices \in 0..NumVertices
    BY <1>2
<1>4. CASE 0 <= distances[v]
  <2>1. distances[v] \in 0..NumVertices
      BY <1>2, <1>4
  <2>2. ASSUME distances[v] > 0 PROVE v \notin Within[distances[v] - 1]
    <3>1. distances[v] - 1 \in 0..NumVertices /\ ~(distances[v] <= distances[v] - 1)
        BY <1>2, <2>2
    <3> QED BY <1>1, <3>1
  <2> QED BY <1>1, <1>3, <1>4, <2>1, <2>2
<1>5. CASE ~(0 <= distances[v])
    BY <1>1, <1>2, <1>3, <1>5
<1> QED BY <1>4, <1>5

\* bfs() (BFS.h:234-277) finds the exact distance of every vertex, whatever the build,
\* the width of a word, the number of threads and the directions the heuristic picks,
\* unless one of its two racing stores dropped what another thread had stored: the sum
\* of the serial fetch_and_add or a word of the bitmap.  The edges of the snapshot are
\* in both directions, as the wrapper inserts them.
THEOREM BfsIsExact ==
    ASSUME BothWays
    PROVE  BfsSpec => []BfsExact
<1>1. BfsSpec => []QueueInv
    BY QueueInvariant
<1>2. BfsInit => (~lost => ExactInv)
    BY DEF BfsInit, ExactInv
<1>3. QueueInv /\ (~lost => ExactInv) /\ [BfsNext]_bfsVars => (~lost => ExactInv)'
    BY ExactInductive
<1>4. QueueInv /\ (~lost => ExactInv) => BfsExact
  <2> SUFFICES ASSUME QueueInv, ~lost, ExactInv, bfsMain = "done" PROVE DistancesExact
      BY DEF BfsExact, DistancesExact
  <2> QED BY SearchedExact DEF ExactInv, QueueInv
<1> QED BY <1>1, <1>2, <1>3, <1>4, PTL DEF BfsSpec
=============================================================================
