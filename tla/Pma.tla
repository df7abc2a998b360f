-------------------------------- MODULE Pma --------------------------------
(***************************************************************************)
(* The packed memory array of edge_index/pma.hpp: pma[s] is the used part  *)
(* of segment s (sizes[s] entries of impl).  The cells behind it keep      *)
(* entries that were moved away; a look-up finds one of them only in an    *)
(* empty segment before an occupied one, and the module does not say what  *)
(* it answers then.                                                        *)
(***************************************************************************)
EXTENDS SortedEntries

CONSTANT SegmentSize      \* segment_size, 256 in the builds

ASSUME PmaAssumption == \E k \in 1..16 : SegmentSize = 2^k

EmptyPma == <<<<>>>>      \* one segment: the capacity is a segment

Log2(n) == IF n <= 1 THEN 0 ELSE CHOOSE k \in 1..n : 2^k <= n /\ n < 2^(k+1)

Elements(segs) == FlattenSeq(segs)

\* lb_in_segment: an empty segment sends the search to its left.
LbInSegment(seg, dest) ==
    IF seg = <<>> THEN -1
    ELSE IF Last(seg).dest < dest THEN 1
    ELSE IF Head(seg).dest > dest THEN -1
    ELSE 0

\* Binary search among the segments l..r.
Search(pma, dest) ==
    LET from[l \in 1..Len(pma) + 1, r \in 0..Len(pma)] ==
            LET m   == (l + r) \div 2
                pos == LbInSegment(pma[m], dest)
            IN  IF l > r THEN l
                ELSE IF pos = 1 THEN from[m + 1, r]
                ELSE IF pos = -1 THEN from[l, m - 1]
                ELSE m
    IN  from[1, Len(pma)]

\* lower_bound, a segment; Len(pma) + 1 stands for impl.size().
SegmentOf(pma, dest) ==
    IF Elements(pma) = <<>> THEN Len(pma) + 1
    ELSE IF Len(pma) = 1 THEN 1
    ELSE Search(pma, dest)

\* n entries dealt out to count segments: the average rounded up, the last ones
\* take what remains.
Dealt(ents, count) ==
    LET n       == Len(ents)
        average == (n + count - 1) \div count
        Upto(i) == IF i * average <= n THEN i * average ELSE n
    IN  [i \in 1..count |-> SubSeq(ents, Upto(i - 1) + 1, Upto(i))]

\* resize(2 * impl.size())
Resized(pma) == Dealt(Elements(pma), 2 * Len(pma))

\* The first segment of the window of 2^level segments that s is in.
WindowAt(s, level) == ((s - 1) \div 2^level) * 2^level + 1
Window(pma, s, level) == SubSeq(pma, WindowAt(s, level), WindowAt(s, level) + 2^level - 1)

\* get_interval_stats: (sz + 1) / w < 1 - 0.5 * level / lgn.
InLimit(pma, s, level) ==
    LET lgn == Log2(Len(pma) * SegmentSize) IN
    2 * lgn * (Len(Elements(Window(pma, s, level))) + 1) < 2^level * SegmentSize * (2 * lgn - level)

\* Mutant: the entries are dealt out behind the entries that stay.
Rebalanced_Shifted(pma, s, level) ==
    LET first == WindowAt(s, level)
        dealt == Dealt(Elements(Window(pma, s, level)), 2^level)
    IN  [i \in DOMAIN pma |->
            IF i = first THEN pma[i]
            ELSE IF i \in first..first + 2^level - 1 THEN dealt[i - first + 1] ELSE pma[i]]

\* rebalance_interval(l, level)
Rebalanced(pma, s, level) ==
    LET first == WindowAt(s, level)
        dealt == Dealt(Elements(Window(pma, s, level)), 2^level)
    IN  [i \in DOMAIN pma |-> IF i \in first..first + 2^level - 1 THEN dealt[i - first + 1] ELSE pma[i]]

\* The array after the full segment s was given room: the smallest window in
\* limits is rebalanced, without one the array is doubled.
Roomier(pma, s) ==
    LET fits == {level \in 1..Log2(Len(pma)) : InLimit(pma, s, level)} IN
    IF fits = {} THEN Resized(pma)
    ELSE Rebalanced(pma, s, CHOOSE level \in fits : \A other \in fits : level <= other)

\* The segment an insertion goes to.
Target(pma, dest) == IF SegmentOf(pma, dest) > Len(pma) THEN Len(pma) ELSE SegmentOf(pma, dest)

Arrays == Seq(Entries)

\* insert(dest, timestamp): room is made until the segment has some.
PmaInsert(pma, dest, ts) ==
    LET insert[p \in Arrays] ==
            LET s == Target(p, dest) IN
            IF Len(p[s]) < SegmentSize
            THEN [p EXCEPT ![s] = InsertEntry(p[s], dest, ts)]
            ELSE insert[Roomier(p, s)]
    IN  insert[pma]

\* has_edge; SegmentOf = Len + 1 is "not found" at once.
PmaHasEdge(pma, dest, ts) ==
    SegmentOf(pma, dest) \in DOMAIN pma /\ FindEntry(pma[SegmentOf(pma, dest)], dest, ts)

\* edges(callback, timestamp)
PmaEdges(pma, ts) == Visible(Elements(pma), ts)

-----------------------------------------------------------------------------
\* An empty segment before an occupied one: the search may turn the wrong way.
Gap(pma) == \E i, j \in DOMAIN pma : i < j /\ pma[i] = <<>> /\ pma[j] # <<>>

\* The entries ascend from cell to cell.
CellsAscend(pma) ==
    \A i, j \in DOMAIN Elements(pma) :
        i < j => Elements(pma)[i].dest < Elements(pma)[j].dest

\* No segment is overfull, and the doubling left a power of two segments.
SegmentsHold(pma) ==
    /\ \A s \in DOMAIN pma : Len(pma[s]) <= SegmentSize
    /\ Len(pma) = 2^Log2(Len(pma))
=============================================================================
