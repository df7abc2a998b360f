----------------------------- MODULE EdgeIndexes -----------------------------
(***************************************************************************)
(* The neighbours of one vertex in the containers of vector2skiplist,      *)
(* vector2pma and vector2logblock: a NeighborEntry that inserts edges at   *)
(* growing timestamps, under the vertex's lock, and answers reads at any   *)
(* of them.  In the adaptive build (vector2skiplist) the entry starts as a *)
(* sorted vector and becomes an index when the vector is full.             *)
(***************************************************************************)
EXTENDS SkipList, Pma, LogBlock

CONSTANTS
    Destinations,   \* Destinations[k]: what may be inserted into an index of kind k
    VectorSize,     \* DEFAULT_VECTOR_SIZE of the adaptive build, 256
    Draws,          \* bound: the sequences of heights get_height may draw
    MaxTime,        \* bound: timestamps 1..MaxTime
    MaxInserts,     \* bound, per kind: insertions
    MaxRepeats,     \* bound, per kind: insertions of an edge that is there
    MaxLate,        \* bound, per kind: insertions after time 1
    Descending      \* bound, per kind: destinations inserted after all above them

IndexKinds == {"skiplist", "pma", "logblock"}

ASSUME IndexesAssumption ==
    /\ \A k \in IndexKinds : Destinations[k] \subseteq Nat
    /\ VectorSize \in Nat /\ MaxTime \in Nat \ {0}
    /\ {MaxInserts, MaxRepeats, MaxLate} \subseteq [IndexKinds -> Nat]
    /\ \A k \in IndexKinds : Descending[k] \subseteq Destinations[k]
    /\ \A draw \in Draws : \A n \in DOMAIN draw : draw[n] \in 1..SkipLevels

VARIABLES
    kind,       \* the index of this build
    heights,    \* heights[n]: what get_height draws for block n of the skip list
    type,       \* NeighborEntry::type
    vector,     \* *vector_ptr, while type is "Vector"
    index,      \* *neighbor_ptr, while type is "NonVector"
    clock,      \* the timestamp of the running transaction
    added,      \* how often insert_edge answered that the edge is new
    inserted,   \* inserted[d]: the timestamps d was inserted at (history)
    strayed     \* something was inserted into an array with a gap (history)

indexVars == <<kind, heights, type, vector, index, clock, added, inserted, strayed>>

Adaptive == kind = "skiplist"

Empty(k) == CASE k = "skiplist" -> EmptySkipList
              [] k = "pma"      -> EmptyPma
              [] k = "logblock" -> EmptyLogBlock

IndexInit ==
    /\ kind \in IndexKinds
    /\ heights \in IF kind = "skiplist" THEN Draws ELSE {<<>>}
    /\ type = IF Adaptive THEN "Vector" ELSE "NonVector"
    /\ vector = <<>>
    /\ index = Empty(kind)
    /\ clock = 1
    /\ added = 0
    /\ inserted = [d \in Destinations[kind] |-> <<>>]
    /\ strayed = FALSE

-----------------------------------------------------------------------------
\* What get_height draws for block n; the lowest where the instance says nothing.
Height(n) == IF n \in DOMAIN heights THEN heights[n] ELSE 1

IndexInsert(idx, dest, ts) ==
    CASE kind = "skiplist" -> SkipInsert(idx, dest, ts, Height(Len(idx) + 1))
      [] kind = "pma"      -> PmaInsert(idx, dest, ts)
      [] kind = "logblock" -> LogInsert(idx, dest, ts)

IndexIsNew(idx, dest, ts) ==
    CASE kind = "skiplist" -> SkipIsNew(idx, dest)
      [] kind = "pma"      -> Len(Elements(PmaInsert(idx, dest, ts))) > Len(Elements(idx))
      [] kind = "logblock" -> LogIsNew(idx, dest, ts)

\* Mutant: the newest version is moved every time.
Oldest_Newest(chain, n) == Head(chain)

\* The n-th oldest version of a chain.
Oldest(chain, n) == chain[Len(chain) - n + 1]

\* The index that is built of a full vector: entry by entry, the versions of an
\* entry oldest first.
WithVersions(idx, entry) ==
    LET moved[n \in 0..Len(entry.chain)] ==
            IF n = 0 THEN idx ELSE IndexInsert(moved[n-1], entry.dest, Oldest(entry.chain, n))
    IN  moved[Len(entry.chain)]

Indexed(ents) ==
    LET built[n \in 0..Len(ents)] ==
            IF n = 0 THEN Empty(kind) ELSE WithVersions(built[n-1], ents[n])
    IN  built[Len(ents)]

\* The insertions of the instance.
Inserts == SumFunction([d \in DOMAIN inserted |-> Len(inserted[d])])
Repeats == Inserts - Cardinality({d \in DOMAIN inserted : inserted[d] # <<>>})
Late    == SumFunction([d \in DOMAIN inserted |->
                            Len(SelectSeq(inserted[d], LAMBDA ts : ts > 1))])

May(dest) ==
    /\ Inserts < MaxInserts[kind]
    /\ inserted[dest] # <<>> => Repeats < MaxRepeats[kind]
    /\ clock > 1 => Late < MaxLate[kind]
    /\ dest \in Descending[kind] => \A d \in DOMAIN inserted : d > dest => inserted[d] # <<>>

\* The search of an array with a gap may go to the wrong segment.
GoesAstray == kind = "pma" /\ Gap(index)

Inserted(dest) ==
    /\ strayed'  = (strayed \/ GoesAstray)
    /\ inserted' = [inserted EXCEPT ![dest] = PushVersion(inserted[dest], clock)]
    /\ UNCHANGED <<kind, heights, clock>>

\* insert_edge while the vector has room.
InsertInVector(dest) ==
    /\ type = "Vector" /\ Len(vector) < VectorSize /\ May(dest)
    /\ vector' = InsertEntry(vector, dest, clock)
    /\ added' = added + (IF dest \in Dests(vector) THEN 0 ELSE 1)
    /\ Inserted(dest)
    /\ UNCHANGED <<type, index>>

\* insert_edge when the vector is full: it becomes an index, then dest is inserted.
InsertAndSwitch(dest) ==
    /\ type = "Vector" /\ Len(vector) >= VectorSize /\ May(dest)
    /\ type' = "NonVector"
    /\ vector' = <<>>
    /\ index' = IndexInsert(Indexed(vector), dest, clock)
    /\ added' = added + (IF IndexIsNew(Indexed(vector), dest, clock) THEN 1 ELSE 0)
    /\ Inserted(dest)

\* insert_edge of the index.
InsertInIndex(dest) ==
    /\ type = "NonVector" /\ May(dest)
    /\ index' = IndexInsert(index, dest, clock)
    /\ added' = added + (IF IndexIsNew(index, dest, clock) THEN 1 ELSE 0)
    /\ Inserted(dest)
    /\ UNCHANGED <<type, vector>>

\* A later transaction: commit timestamps grow, a batch shares one.
NextTransaction ==
    /\ clock < MaxTime
    /\ clock' = clock + 1
    /\ UNCHANGED <<kind, heights, type, vector, index, added, inserted, strayed>>

IndexNext ==
    \/ \E dest \in DOMAIN inserted :
        InsertInVector(dest) \/ InsertAndSwitch(dest) \/ InsertInIndex(dest)
    \/ NextTransaction

IndexSpec == IndexInit /\ [][IndexNext]_indexVars

-----------------------------------------------------------------------------
(* Reads *)

HasEdge(dest, ts) ==
    IF type = "Vector" THEN FindEntry(vector, dest, ts)
    ELSE CASE kind = "skiplist" -> SkipHasEdge(index, dest, ts)
           [] kind = "pma"      -> PmaHasEdge(index, dest, ts)
           [] kind = "logblock" -> LogHasEdge(index, dest, ts)

Edges(ts) ==
    IF type = "Vector" THEN Visible(vector, ts)
    ELSE CASE kind = "skiplist" -> SkipEdges(index, ts)
           [] kind = "pma"      -> PmaEdges(index, ts)
           [] kind = "logblock" -> LogEdges(index, ts)

-----------------------------------------------------------------------------
(* Properties *)

\* The destinations inserted by time ts.
Present(ts) == {d \in DOMAIN inserted : CheckVersion(inserted[d], ts)}

\* The first log of a log block is never closed: its edge has two open logs once
\* it was inserted again.
TwoLogs ==
    IF kind = "logblock" /\ index.logs # <<>>
    THEN {d \in {index.logs[1].dest} : Len(inserted[d]) > 1}
    ELSE {}

\* Whatever was inserted, in whatever order, across block splits, rebalancing,
\* doubling, closed logs and the switch from vector to index: a read at a time
\* finds an edge exactly when it was inserted by then.  Of an array this holds as
\* long as no segment before an occupied one is empty: its search takes an empty
\* segment for one whose elements are all greater.
ReadsFind ==
    ~ strayed /\ ~ GoesAstray =>
        \A ts \in 0..MaxTime, d \in DOMAIN inserted : HasEdge(d, ts) <=> d \in Present(ts)

\* A scan yields each of them.  It yields each once, but the edge a log block has
\* two open logs of, and all but the log block yield them in ascending order, until
\* something is inserted into an array with a gap.
ScansYieldOnce ==
    \A ts \in 0..MaxTime :
        LET scan == Edges(ts) IN
        /\ Range(scan) = Present(ts)
        /\ ~ strayed => \A i, j \in DOMAIN scan : i # j /\ scan[i] = scan[j] => scan[i] \in TwoLogs
        /\ ~ strayed /\ kind # "logblock" => \A i, j \in DOMAIN scan : i < j => scan[i] < scan[j]

\* The degree the caller keeps is the number of edges: insert_edge says "new" once
\* for each, and once more for the edge a log block fails to find, until something
\* is inserted into an array with a gap.
DegreeCounts == ~ strayed => added = Cardinality(Present(MaxTime)) + Cardinality(TwoLogs)

\* What the searches rely on: the levels of the skip list are sorted parts of each
\* other; no segment of the array is overfull and, until something is inserted into
\* an array with a gap, its entries ascend from cell to cell.
StructureHolds ==
    type = "NonVector" =>
        /\ kind = "skiplist" => LevelsHold(index)
        /\ kind = "pma"      => SegmentsHold(index) /\ (strayed \/ CellsAscend(index))
=============================================================================
