------------------------------ MODULE SkipList ------------------------------
(***************************************************************************)
(* The skip list of edge_index/skiplist: blocks of sorted entries, linked  *)
(* at every level.  list[b] is the block b; block 1 is the head, a new     *)
(* block takes the next number.  `before` is written and never read: it is *)
(* left out.                                                               *)
(***************************************************************************)
EXTENDS SortedEntries

CONSTANTS
    SkipLevels,     \* SKIP_LIST_LEVELS, 6 in the code
    SkipBlock       \* block_size, 256 in the builds

ASSUME SkipListAssumption ==
    /\ SkipLevels \in Nat \ {0}
    /\ SkipBlock \in Nat \ {0} /\ SkipBlock % 2 = 0

Levels    == 0..SkipLevels - 1
NullBlock == 0
HeadBlock == 1

EmptySkipList == <<[ents |-> <<>>, max |-> 0, next |-> [l \in Levels |-> NullBlock]]>>

Next0(list, b) == list[b].next[0]

\* May find_block step over block b?  Never onto the last one.
Passes(list, b, dest) ==
    b # NullBlock /\ list[b].max < dest /\ Next0(list, b) # NullBlock

\* A step of the walk on level l.
Advance(list, b, l, dest) ==
    IF Passes(list, list[b].next[l], dest) THEN list[b].next[l] ELSE b

\* The walk on level l from block b on: it takes fewer steps than there are blocks.
WalkLevel(list, b, l, dest) ==
    LET at[n \in 0..Len(list)] == IF n = 0 THEN b ELSE Advance(list, at[n-1], l, dest)
    IN  at[Len(list)]

\* find_block: blocks[l], where the walk leaves each level, the highest one first.
PathAt(list, dest, l) ==
    LET at[n \in 0..SkipLevels] ==
            IF n = 0 THEN HeadBlock ELSE WalkLevel(list, at[n-1], SkipLevels - n, dest)
    IN  at[SkipLevels - l]

FindBlock(list, dest) ==
    LET b == PathAt(list, dest, 0) IN
    IF Next0(list, b) # NullBlock /\ list[b].max < dest THEN Next0(list, b) ELSE b

WithEntries(block, ents) == [block EXCEPT !.ents = ents, !.max = Last(ents).dest]

\* EdgeBlock::split: the upper half moves.
Halves(block) ==
    LET half == Len(block.ents) \div 2 IN
    <<WithEntries(block, SubSeq(block.ents, 1, half)),
      WithEntries(block, SubSeq(block.ents, half + 1, 2 * half))>>

\* Mutant: the block that is split is not looked for among the successors.
LinkFrom_Path(list, b, dest, l) == IF l = 0 THEN b ELSE PathAt(list, dest, l)

\* The block that comes before the new one on level l: the one that is split when
\* it is linked there, the one the walk left otherwise.
LinkFrom(list, b, dest, l) ==
    IF l = 0 \/ list[PathAt(list, dest, l)].next[l] = b THEN b ELSE PathAt(list, dest, l)

\* The full block b is split; the new block is linked on its first `height` levels.
SplitBlock(list, b, dest, height) ==
    LET new        == Len(list) + 1
        halves     == Halves(list[b])
        From(l)    == LinkFrom(list, b, dest, l)
        NextOf(c)  == [l \in Levels |->
                        IF c = new THEN IF l < height THEN list[From(l)].next[l] ELSE NullBlock
                        ELSE IF l < height /\ From(l) = c THEN new
                        ELSE list[c].next[l]]
        Content(c) == IF c = new THEN halves[2] ELSE IF c = b THEN halves[1] ELSE list[c]
    IN  [c \in 1..new |-> [Content(c) EXCEPT !.next = NextOf(c)]]

\* insert_edge of the list and of the block, which has room.
SkipPut(list, dest, ts) ==
    LET b == FindBlock(list, dest) IN
    [list EXCEPT ![b] = IF dest \in Dests(list[b].ents)
                        THEN [list[b] EXCEPT !.ents = InsertEntry(list[b].ents, dest, ts)]
                        ELSE WithEntries(list[b], InsertEntry(list[b].ents, dest, ts))]

\* insert_edge; after a split it calls itself and finds half a block, which has room.
SkipInsert(list, dest, ts, height) ==
    LET b == FindBlock(list, dest) IN
    SkipPut(IF Len(list[b].ents) = SkipBlock THEN SplitBlock(list, b, dest, height) ELSE list,
            dest, ts)

\* Did insert_edge make a new entry?
SkipIsNew(list, dest) == dest \notin Dests(list[FindBlock(list, dest)].ents)

SkipHasEdge(list, dest, ts) == FindEntry(list[FindBlock(list, dest)].ents, dest, ts)

\* The scan at a block: yield what ts sees of it, go on to the next one.
ScanBlock(list, ts, scan) ==
    IF scan.at = NullBlock THEN scan
    ELSE [at |-> Next0(list, scan.at), out |-> scan.out \o Visible(list[scan.at].ents, ts)]

\* edges() and the iterator: begin() skips what ts does not see.
SkipEdges(list, ts) ==
    LET scan[n \in 0..Len(list)] ==
            IF n = 0 THEN [at |-> HeadBlock, out |-> <<>>] ELSE ScanBlock(list, ts, scan[n-1])
    IN  scan[Len(list)].out

-----------------------------------------------------------------------------
\* The blocks that hang on level l, from the head on.
Follow(list, b, l) == IF b = NullBlock THEN NullBlock ELSE list[b].next[l]

Linked(list, l) ==
    LET at[n \in 1..Len(list)] == IF n = 1 THEN HeadBlock ELSE Follow(list, at[n-1], l)
    IN  {at[n] : n \in 1..Len(list)} \ {NullBlock}

\* Every level is a part of the level below in the order of its blocks, no block
\* but a lonely head is empty, and max is the last destination.
LevelsHold(list) ==
    /\ \A b \in DOMAIN list : list[b].ents # <<>> => list[b].max = Last(list[b].ents).dest
    /\ \A b \in DOMAIN list : list[b].ents = <<>> => Len(list) = 1
    /\ \A l \in Levels :
        /\ \A b \in Linked(list, l) :
                Follow(list, b, l) # NullBlock => list[b].max < list[Follow(list, b, l)].max
        /\ l > 0 => Linked(list, l) \subseteq Linked(list, l - 1)
    /\ Linked(list, 0) = DOMAIN list
=============================================================================
