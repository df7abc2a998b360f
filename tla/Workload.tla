------------------------------ MODULE Workload ------------------------------
(***************************************************************************)
(* What the graph algorithms of src/driver/algorithms share: the snapshot  *)
(* they read, whose edges do not change while they run, the threads they   *)
(* start and join, and the chunks into which they cut an index range.      *)
(***************************************************************************)
EXTENDS Integers, FiniteSets

CONSTANTS
    NumVertices,   \* vertices of the snapshot; physical ids are 0..NumVertices-1
    NumThreads,    \* m_num_threads
    Graphs,        \* edge sets the snapshot may have
    Builds         \* whether gapbs.h may be compiled with OpenMP: TRUE, FALSE or both

ASSUME WorkloadAssumption ==
    /\ NumVertices \in Nat \ {0} /\ NumThreads \in Nat \ {0}
    /\ Graphs \subseteq SUBSET ((0..NumVertices - 1) \X (0..NumVertices - 1))
    /\ Builds \subseteq BOOLEAN

VARIABLES
    edges,    \* the pairs snapshot_edges yields, source first
    openMP    \* gapbs.h uses the atomic built-ins, else its "serial fallbacks"

WorkloadInit == edges \in Graphs /\ openMP \in Builds
workload     == <<edges, openMP>>

Vertices == 0..NumVertices - 1
Threads  == 0..NumThreads - 1

\* What snapshot_edges calls back for u.
Neighbors(u) == {e[2] : e \in {x \in edges : x[1] = u}}
Degree(u)    == Cardinality(Neighbors(u))

-----------------------------------------------------------------------------
\* (size + m_num_threads - 1) / m_num_threads
ChunkSize(n) == (n + NumThreads - 1) \div NumThreads

ChunkBegin(t, n) == t * ChunkSize(n)

\* min(start + chunk_size, size): below the beginning for a thread too many.
ChunkEnd(t, n) ==
    IF ChunkBegin(t, n) + ChunkSize(n) < n THEN ChunkBegin(t, n) + ChunkSize(n) ELSE n

Chunk(t, n) == {i \in 0..n - 1 : ChunkBegin(t, n) <= i /\ i < ChunkEnd(t, n)}
=============================================================================
