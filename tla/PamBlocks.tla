----------------------------- MODULE PamBlocks -----------------------------
(***************************************************************************)
(* The neighbour records of the copy-on-write container, PAMStruct of      *)
(* pam_tree_cow.hpp.  The destinations of a vertex are cut into blocks:    *)
(* the multiples of the block size are heads, a block holds its head and   *)
(* the destinations up to the next head that is present, and those below   *)
(* the first one are in a block of their own under PreKey.                 *)
(*                                                                         *)
(* A block is a sorted vector, here the number of times each destination   *)
(* is in it: a batch that names a destination twice stores it twice.       *)
(***************************************************************************)
EXTENDS Integers, FiniteSets, Functions

CONSTANTS
    Vertices,      \* the vertex ids
    BlockSize      \* BLOCK_SIZE, 256 in the builds

ASSUME BlocksAssumption ==
    /\ Vertices \subseteq Nat
    /\ BlockSize \in Nat \ {0}

PreKey == 0

\* get_lowest_key, check_is_head: std::hash is the identity on integers.
LowestKey(d) == d \div BlockSize + 1
IsHead(d)    == d % BlockSize = 0

Bags == [Vertices -> Nat]     \* of destinations: blocks, batches
NoDests == [d \in Vertices |-> 0]

Size(bag) == SumFunction(bag)

\* PAMStruct(id): one empty block.
NewRecord == [degree |-> 0, heads |-> {}, tree |-> [k \in {PreKey} |-> NoDests]]

\* find_approx(get_lowest_key(d)): the largest key that is not greater.
Home(keys, d) == CHOOSE k \in keys :
    /\ k <= LowestKey(d)
    /\ \A x \in keys : x <= LowestKey(d) => x <= k

\* How often has_edge's block holds d.
Count(nb, d) == nb.tree[Home(DOMAIN nb.tree, d)][d]

HasEdge(nb, d) == Count(nb, d) > 0

Keys(nb, H) == DOMAIN nb.tree \cup {LowestKey(h) : h \in H}

\* Mutant: the new block gets its head only, the rest stays where it was.
SplitTree_HeadOnly(nb, H) ==
    [k \in Keys(nb, H) |->
        [d \in Vertices |->
            IF d \in H THEN IF k = LowestKey(d) THEN 1 ELSE 0
            ELSE IF k = Home(DOMAIN nb.tree, d) THEN Count(nb, d) ELSE 0]]

\* The tree after the new heads H were inserted: each one splits the block it
\* falls into.
SplitTree(nb, H) ==
    LET keys == Keys(nb, H) IN
    [k \in keys |->
        [d \in Vertices |->
            IF Home(keys, d) # k THEN 0 ELSE IF d \in H THEN 1 ELSE Count(nb, d)]]

\* insert_edge(dest, flag): flag is HasEdge of the record before.
InsertEdge(nb, dest) ==
    IF HasEdge(nb, dest) THEN nb
    ELSE [degree |-> nb.degree + 1,
          heads  |-> IF IsHead(dest) THEN nb.heads \cup {dest} ELSE nb.heads,
          tree   |-> IF IsHead(dest) THEN SplitTree(nb, {dest})
                     ELSE [nb.tree EXCEPT ![Home(DOMAIN nb.tree, dest)][dest] = 1]]

-----------------------------------------------------------------------------
(* insert_edge_batch(dest_list, start, end, edges_added) *)

Greater(m, n) == IF m >= n THEN m ELSE n

\* The heads among the new destinations are inserted first, one by one.
NewHeads(nb, bag) == {d \in Vertices : bag[d] > 0 /\ IsHead(d) /\ ~HasEdge(nb, d)}

\* The block of a batch under a key, cut as the tree is.
Part(keys, bag, k) == [d \in Vertices |-> IF Home(keys, d) = k THEN bag[d] ELSE 0]

\* Mutant: map_union overwrites the blocks the batch has.
MergedTree_Overwrites(split, bag) ==
    [k \in DOMAIN split |->
        IF \E d \in Vertices : Part(DOMAIN split, bag, k)[d] > 0
        THEN Part(DOMAIN split, bag, k) ELSE split[k]]

\* map_union with set_union on the blocks both have: set_union keeps the greater
\* number of equal elements.
MergedTree(split, bag) ==
    [k \in DOMAIN split |->
        LET part == Part(DOMAIN split, bag, k) IN
        [d \in Vertices |-> Greater(split[k][d], part[d])]]

\* The keys of the batch: its blocks, and the one under PreKey even when empty.
BatchKeys(keys, bag) ==
    {k \in keys : k = PreKey \/ \E d \in Vertices : Home(keys, d) = k /\ bag[d] > 0}

\* sum over the calls of op: |result| - |a|.  a is the block of the batch, not of
\* the tree, when the batch is shorter than the degree.
UnionSum(split, degree, bag) ==
    LET merged == MergedTree(split, bag) IN
    SumFunction([k \in BatchKeys(DOMAIN split, bag) |->
        Size(merged[k]) - Size(IF Size(bag) < degree THEN Part(DOMAIN split, bag, k)
                               ELSE split[k])])

EdgesAdded(nb, bag) ==
    LET H   == NewHeads(nb, bag)
        new == Cardinality(H)
    IN  new + UnionSum(SplitTree(nb, H), nb.degree + new, bag)

InsertBatch(nb, bag) ==
    [degree |-> nb.degree + EdgesAdded(nb, bag),
     heads  |-> nb.heads \cup NewHeads(nb, bag),
     tree   |-> MergedTree(SplitTree(nb, NewHeads(nb, bag)), bag)]

-----------------------------------------------------------------------------
(* What a record must be *)

\* The blocks are those of the heads that are present, each destination is in the
\* block a look-up goes to and in no other, and a head is in the block it opens.
BlocksHold(nb) ==
    /\ \A h \in nb.heads : IsHead(h) /\ HasEdge(nb, h)
    /\ DOMAIN nb.tree = {PreKey} \cup {LowestKey(h) : h \in nb.heads}
    /\ \A d \in Vertices, k \in DOMAIN nb.tree :
            nb.tree[k][d] > 0 => k = Home(DOMAIN nb.tree, d)
    /\ \A d \in Vertices : IsHead(d) /\ HasEdge(nb, d) => d \in nb.heads

\* The number of entries edges() yields.
Entries(nb) == SumFunction([k \in DOMAIN nb.tree |-> Size(nb.tree[k])])
=============================================================================
