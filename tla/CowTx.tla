------------------------------- MODULE CowTx -------------------------------
(***************************************************************************)
(* Transactions of the copy-on-write container: the wrapper of             *)
(* avl2pam_cow.cpp over transaction_pam.hpp, container_pam.hpp and         *)
(* avltree_cow.hpp.  Writers take turns with the flag is_writing, which a  *)
(* failed commit never clears.  A committing writer changes the vertex     *)
(* index and then the counters.  Snapshots are taken while no writing call *)
(* runs, as in the driver.  The trees are values here: that a copied index *)
(* stays as it was is the subject of CowHeap.                              *)
(***************************************************************************)
EXTENDS PamBlocks, Sequences, SequencesExt

CONSTANTS
    Writers, Readers,
    Programs,      \* the calls the writers make: functions from Writers to Seq(Call)
    Loaded,        \* the vertices that are there at the start
    Parlay,        \* ENABLE_PARLAY: a batch replaces the index once
    Absent,        \* a vertex that is not in the index
    NoSnapshot     \* a reader that has none

\* The records of the index.
Records == [degree : Int, heads : SUBSET Vertices,
            tree : UNION {[K -> Bags] : K \in SUBSET ({PreKey} \cup {LowestKey(v) : v \in Vertices})}]

ASSUME CowAssumption ==
    /\ IsFiniteSet(Vertices) /\ Loaded \subseteq Vertices
    /\ Parlay \in BOOLEAN
    /\ Absent \notin Records

\* The calls of the wrapper that write: insert_vertex and run_batch_vertex_update,
\* insert_edge, run_batch_edge_update.
Edges == Vertices \X Vertices
Call  == [vertices : Seq(Vertices), edges : Seq(Edges), batch : Seq(Edges)]

ASSUME ProgramsAssumption == Programs \subseteq [Writers -> Seq(Call)]

VARIABLES
    index,          \* m_vertex_index: vertex -> its record or Absent
    vertexCount, edgeCount,
    isWriting,
    writer,         \* per writer: pc, its calls, and what is left of the first one
    snap            \* per reader: the index it copied, or NoSnapshot

vars == <<index, vertexCount, edgeCount, isWriting, writer, snap>>

Init ==
    /\ index = [v \in Vertices |-> IF v \in Loaded THEN NewRecord ELSE Absent]
    /\ vertexCount = Cardinality(Loaded)
    /\ edgeCount = 0
    /\ isWriting = FALSE
    /\ \E p \in Programs :
          writer = [w \in Writers |->
              [pc |-> "idle", calls |-> p[w], vs |-> <<>>, es |-> <<>>,
               batch |-> [u \in Vertices |-> NoDests], added |-> 0]]
    /\ snap = [r \in Readers |-> NoSnapshot]

-----------------------------------------------------------------------------
(* A writing call *)

\* Of an undirected graph each edge is inserted both ways.
Reversed(e)  == <<e[2], e[1]>>
BothWays(es) ==
    [i \in 1..2 * Len(es) |-> IF i % 2 = 1 THEN es[(i + 1) \div 2] ELSE Reversed(es[i \div 2])]

\* The batch, both ways, by source.
BySource(es) ==
    LET all == BothWays(es) IN
    [u \in Vertices |-> [d \in Vertices |->
        Cardinality({i \in DOMAIN all : all[i] = <<u, d>>})]]

\* Mutant: the flag is set by whoever finds the index at rest.
Acquire_Unchecked(w) ==
    /\ writer[w].pc = "idle" /\ writer[w].calls # <<>>
    /\ \A x \in Writers : writer[x].pc \notin {"countVertex", "countEdge", "batch"}
    /\ isWriting' = TRUE
    /\ LET call == Head(writer[w].calls) IN
       writer' = [writer EXCEPT ![w] =
            [writer[w] EXCEPT !.pc = IF call.batch = <<>> THEN "commit" ELSE "batch",
                              !.calls = Tail(writer[w].calls),
                              !.vs = call.vertices, !.es = BothWays(call.edges),
                              !.batch = BySource(call.batch), !.added = 0]]
    /\ UNCHANGED <<index, vertexCount, edgeCount, snap>>

\* get_write_transaction: exchange(true) until it returns false.  A batch is
\* applied by the call of insert_edge_batch, before the commit.
Acquire(w) ==
    /\ writer[w].pc = "idle" /\ writer[w].calls # <<>>
    /\ ~isWriting
    /\ isWriting' = TRUE
    /\ LET call == Head(writer[w].calls) IN
       writer' = [writer EXCEPT ![w] =
            [writer[w] EXCEPT !.pc = IF call.batch = <<>> THEN "commit" ELSE "batch",
                              !.calls = Tail(writer[w].calls),
                              !.vs = call.vertices, !.es = BothWays(call.edges),
                              !.batch = BySource(call.batch), !.added = 0]]
    /\ UNCHANGED <<index, vertexCount, edgeCount, snap>>

\* commit: the vertices first.  insert replaces the record of a vertex that is there.
PutVertex(w) ==
    /\ writer[w].pc = "commit" /\ writer[w].vs # <<>>
    /\ index' = [index EXCEPT ![Head(writer[w].vs)] = NewRecord]
    /\ writer' = [writer EXCEPT ![w].pc = "countVertex"]
    /\ UNCHANGED <<vertexCount, edgeCount, isWriting, snap>>

CountVertex(w) ==
    /\ writer[w].pc = "countVertex"
    /\ vertexCount' = vertexCount + 1
    /\ writer' = [writer EXCEPT ![w] =
            [writer[w] EXCEPT !.pc = "commit", !.vs = Tail(writer[w].vs)]]
    /\ UNCHANGED <<index, edgeCount, isWriting, snap>>

Edge(w) == Head(writer[w].es)

\* update() calls insert_edge of the record of the source, if there is one.
NewEdge(w) == /\ index[Edge(w)[1]] # Absent
              /\ ~HasEdge(index[Edge(w)[1]], Edge(w)[2])

AtEdge(w) == writer[w].pc = "commit" /\ writer[w].vs = <<>> /\ writer[w].es # <<>>

PutEdge(w) ==
    /\ AtEdge(w) /\ NewEdge(w)
    /\ index' = [index EXCEPT ![Edge(w)[1]] = InsertEdge(index[Edge(w)[1]], Edge(w)[2])]
    /\ writer' = [writer EXCEPT ![w].pc = "countEdge"]
    /\ UNCHANGED <<vertexCount, edgeCount, isWriting, snap>>

\* Mutant: the second direction of an edge is not counted.
CountEdge_Once(w) ==
    /\ writer[w].pc = "countEdge"
    /\ edgeCount' = edgeCount + (Len(writer[w].es) % 2)
    /\ writer' = [writer EXCEPT ![w] =
            [writer[w] EXCEPT !.pc = "commit", !.es = Tail(writer[w].es)]]
    /\ UNCHANGED <<index, vertexCount, isWriting, snap>>

CountEdge(w) ==
    /\ writer[w].pc = "countEdge"
    /\ edgeCount' = edgeCount + 1
    /\ writer' = [writer EXCEPT ![w] =
            [writer[w] EXCEPT !.pc = "commit", !.es = Tail(writer[w].es)]]
    /\ UNCHANGED <<index, vertexCount, isWriting, snap>>

\* "insert edge failed": the wrapper catches it, calls abort(), which does nothing,
\* and returns false.  What was inserted stays, and so does is_writing.
Throw(w) ==
    /\ AtEdge(w) /\ ~NewEdge(w)
    /\ writer' = [writer EXCEPT ![w].pc = "threw"]
    /\ UNCHANGED <<index, vertexCount, edgeCount, isWriting, snap>>

Sources(w) == {u \in Vertices : \E d \in Vertices : writer[w].batch[u][d] > 0}

\* insert_edge_batch of the index: with ENABLE_PARLAY all sources in one new tree,
\* otherwise one source after the other, in the order of a hash map; sources that
\* are not in the index are passed over.
BatchSources(w) ==
    /\ writer[w].pc = "batch" /\ Sources(w) # {}
    /\ \E S \in IF Parlay THEN {Sources(w)} ELSE {{u} : u \in Sources(w)} :
          LET there == {u \in S : index[u] # Absent} IN
          /\ index' = [u \in Vertices |->
                IF u \in there THEN InsertBatch(index[u], writer[w].batch[u]) ELSE index[u]]
          /\ writer' = [writer EXCEPT ![w] = [writer[w] EXCEPT
                !.batch = [u \in Vertices |-> IF u \in S THEN NoDests ELSE writer[w].batch[u]],
                !.added = writer[w].added + SumFunction(
                    [u \in there |-> EdgesAdded(index[u], writer[w].batch[u])])]]
    /\ UNCHANGED <<vertexCount, edgeCount, isWriting, snap>>

CountBatch(w) ==
    /\ writer[w].pc = "batch" /\ Sources(w) = {}
    /\ edgeCount' = edgeCount + writer[w].added
    /\ writer' = [writer EXCEPT ![w].pc = "commit"]
    /\ UNCHANGED <<index, vertexCount, isWriting, snap>>

\* The end of commit: is_writing.store(false).
Release(w) ==
    /\ writer[w].pc = "commit" /\ writer[w].vs = <<>> /\ writer[w].es = <<>>
    /\ isWriting' = FALSE
    /\ writer' = [writer EXCEPT ![w].pc = "idle"]
    /\ UNCHANGED <<index, vertexCount, edgeCount, snap>>

Write(w) ==
    \/ Acquire(w) \/ PutVertex(w) \/ CountVertex(w) \/ PutEdge(w) \/ CountEdge(w)
    \/ Throw(w) \/ BatchSources(w) \/ CountBatch(w) \/ Release(w)

-----------------------------------------------------------------------------
(* Snapshots *)

\* The constructor: the vertex index is copied, which shares its nodes.
TakeSnapshot(r) ==
    /\ snap[r] = NoSnapshot
    /\ \A w \in Writers : writer[w].pc \in {"idle", "threw"}
    /\ snap' = [snap EXCEPT ![r] = index]
    /\ UNCHANGED <<index, vertexCount, edgeCount, isWriting, writer>>

\* Every call returned, or waits for a flag that nobody will clear.
Over ==
    /\ \A w \in Writers : writer[w].pc \in {"idle", "threw"}
    /\ isWriting \/ \A w \in Writers : writer[w].calls = <<>>
    /\ UNCHANGED vars

Next == \/ \E w \in Writers : Write(w)
        \/ \E r \in Readers : TakeSnapshot(r)
        \/ Over

Spec == Init /\ [][Next]_vars

-----------------------------------------------------------------------------
(* Properties *)

There(ix) == {u \in Vertices : ix[u] # Absent}
Degrees(ix) == SumFunction([u \in There(ix) |-> ix[u].degree])

\* Splits, insertions into the middle and unions of whole batches keep every
\* destination where has_edge looks for it.
RecordsHold == \A u \in There(index) : BlocksHold(index[u])

\* The counters agree with the index whenever no writer is between the two: the
\* vertices that are there and the sum of the degrees, also after a commit that
\* failed half way, and even where a batch got the degrees wrong.
CountersExact ==
    /\ (\A w \in Writers : writer[w].pc # "countVertex")
            => vertexCount = Cardinality(There(index))
    /\ (\A w \in Writers : writer[w].pc \notin {"countEdge", "batch"})
            => edgeCount = Degrees(index)

\* No commit, failed or not, loses what was there: an edge of a snapshot is found
\* in the live index ever after, where the snapshot's degree() and has_vertex() look.
NothingLost ==
    \A r \in Readers : snap[r] # NoSnapshot =>
        \A u \in There(snap[r]), d \in Vertices :
            HasEdge(snap[r][u], d) => index[u] # Absent /\ HasEdge(index[u], d)

Inside(w) == writer[w].pc # "idle"

\* The flag is set exactly while one writer is inside a call, or for good after
\* the call whose commit threw: no two commits overlap, and no writer waits for a
\* flag that was left behind by a call that returned true.
FlagHeld ==
    /\ isWriting <=> \E w \in Writers : Inside(w)
    /\ \A w, x \in Writers : Inside(w) /\ Inside(x) => w = x

\* The code takes only duplicates for a reason to doubt what insert_edge_batch
\* adds: without one the degree of a vertex is the number of its neighbours.
DegreeIsNeighbors ==
    (\A w \in Writers : writer[w].pc # "batch") =>
        \A u \in There(index) : index[u].degree = Entries(index[u])
=============================================================================
