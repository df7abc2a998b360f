----------------------------- MODULE CowProofs -----------------------------
(***************************************************************************)
(* Proofs about the copy-on-write container for every number of writers,   *)
(* vertices and calls, and every size of the blocks: the flag is_writing   *)
(* admits one writer, the blocks of every vertex keep each destination     *)
(* where a look-up goes, the counters of vertices and edges agree with the *)
(* index, and no commit loses an edge.                                     *)
(***************************************************************************)
EXTENDS CowTx, FiniteSetTheorems, WellFoundedInduction, TLAPS

\* A record, well-formed: heads, their blocks, and what BlocksHold asks.
IsRecord(nb) ==
    /\ nb.heads \in SUBSET Vertices
    /\ nb.tree \in [DOMAIN nb.tree -> Bags]
    /\ BlocksHold(nb)

PCs == {"idle", "commit", "countVertex", "countEdge", "batch", "threw"}

\* A writer, with what its steps read.
IsWriter(x) ==
    /\ DOMAIN x = {"pc", "calls", "vs", "es", "batch", "added"}
    /\ x.pc \in PCs
    /\ x.calls \in Seq(Call)
    /\ x.vs \in Seq(Vertices)
    /\ x.es \in Seq(Edges)
    /\ x.batch \in [Vertices -> Bags]

\* A writer that is to count has what it counts still at hand.
AtCount(x) ==
    /\ x.pc = "countVertex" => x.vs # <<>>
    /\ x.pc = "countEdge" => x.es # <<>>

WriterOK ==
    /\ DOMAIN writer = Writers
    /\ \A w \in Writers : IsWriter(writer[w]) /\ AtCount(writer[w])

\* What is there is a record: it keeps its blocks in order.
IndexOK ==
    /\ DOMAIN index = Vertices
    /\ \A u \in Vertices : index[u] # Absent => IsRecord(index[u])

CowInv == WriterOK /\ IndexOK /\ FlagHeld

-----------------------------------------------------------------------------
(* Look-ups *)

LEMMA LeastGap ==
    ASSUME NEW S, S \subseteq Nat, S # {}
    PROVE  \E i \in S : \A j \in S : i <= j
<1>1. PICK i \in S : \A j \in S : ~ (<<j, i>> \in OpToRel(<, Nat))
  BY WFMin, NatLessThanWellFounded
<1>2. \A j \in S : ~ (j < i)
  BY <1>1 DEF OpToRel
<1> QED
  BY <1>2

LEMMA KeyFacts ==
    ASSUME NEW d \in Vertices
    PROVE  d \in Nat /\ LowestKey(d) \in Nat /\ LowestKey(d) > 0
  BY BlocksAssumption DEF LowestKey

\* Whatever blocks there are besides the first one, a look-up finds one of them:
\* the largest key that is not above the destination's.
LEMMA HomeFound ==
    ASSUME NEW keys \in SUBSET Nat, PreKey \in keys, NEW d \in Vertices
    PROVE  /\ Home(keys, d) \in keys
           /\ Home(keys, d) <= LowestKey(d)
           /\ \A x \in keys : x <= LowestKey(d) => x <= Home(keys, d)
<1> DEFINE low == LowestKey(d)
           gaps == {g \in Nat : \E k \in keys : k <= low /\ g = low - k}
<1>1. low \in Nat /\ low > 0
  BY KeyFacts
<1> HIDE DEF low
<1>2. low \in gaps
  BY <1>1 DEF PreKey
<1>3. PICK g \in gaps : \A x \in gaps : g <= x
  BY <1>2, LeastGap
<1>4. PICK k \in keys : k <= low /\ g = low - k
  OBVIOUS
<1>5. ASSUME NEW x \in keys, x <= low
      PROVE  x <= k
  <2>1. low - x \in gaps
    BY <1>1, <1>5
  <2>2. g <= low - x
    BY <1>3, <2>1
  <2> QED
    BY <1>1, <1>4, <1>5, <2>2
<1>6. \E y \in keys : y <= LowestKey(d) /\ \A x \in keys : x <= LowestKey(d) => x <= y
  BY <1>4, <1>5 DEF low
<1> QED
  BY <1>6 DEF Home

LEMMA RecordFacts ==
    ASSUME NEW nb, IsRecord(nb)
    PROVE  /\ DOMAIN nb.tree \in SUBSET Nat
           /\ PreKey \in DOMAIN nb.tree
           /\ \A d \in Vertices : Home(DOMAIN nb.tree, d) \in DOMAIN nb.tree
           /\ \A d \in Vertices : Count(nb, d) \in Nat
<1>1. DOMAIN nb.tree \in SUBSET Nat /\ PreKey \in DOMAIN nb.tree
  BY KeyFacts DEF IsRecord, BlocksHold, PreKey
<1>2. \A d \in Vertices : Home(DOMAIN nb.tree, d) \in DOMAIN nb.tree
  BY <1>1, HomeFound
<1>3. \A d \in Vertices : Count(nb, d) \in Nat
  BY <1>2 DEF IsRecord, Bags, Count
<1> QED
  BY <1>1, <1>2, <1>3

-----------------------------------------------------------------------------
(* Splits and unions *)

LEMMA SplitHolds ==
    ASSUME NEW nb, IsRecord(nb), NEW H \in SUBSET Vertices, \A h \in H : IsHead(h)
    PROVE  LET tree == SplitTree(nb, H) IN
           /\ DOMAIN tree = {PreKey} \cup {LowestKey(h) : h \in nb.heads \cup H}
           /\ tree \in [DOMAIN tree -> Bags]
           /\ \A d \in Vertices : Home(DOMAIN tree, d) \in DOMAIN tree
           /\ \A d \in Vertices, k \in DOMAIN tree :
                tree[k][d] = IF Home(DOMAIN tree, d) # k THEN 0
                             ELSE IF d \in H THEN 1 ELSE Count(nb, d)
<1> DEFINE tree == SplitTree(nb, H)
           keys == Keys(nb, H)
<1>1. DOMAIN tree = keys
  BY DEF SplitTree
<1>2. keys = {PreKey} \cup {LowestKey(h) : h \in nb.heads \cup H}
  BY DEF Keys, IsRecord, BlocksHold
<1>3. keys \in SUBSET Nat /\ PreKey \in keys
  BY <1>2, KeyFacts DEF IsRecord, PreKey
<1>4. \A d \in Vertices : Home(keys, d) \in keys
  BY <1>3, HomeFound
<1>5. \A d \in Vertices, k \in keys :
        tree[k][d] = IF Home(keys, d) # k THEN 0 ELSE IF d \in H THEN 1 ELSE Count(nb, d)
  BY DEF SplitTree
<1>6. tree \in [keys -> Bags]
  BY RecordFacts DEF SplitTree, Bags
<1> QED
  BY <1>1, <1>2, <1>4, <1>5, <1>6

\* A tree cut at the heads of a record is in order when it counts a destination
\* in its block only, and its heads at least once.
LEMMA TreeHolds ==
    ASSUME NEW nb,
           nb.heads \in SUBSET Vertices, \A h \in nb.heads : IsHead(h),
           DOMAIN nb.tree = {PreKey} \cup {LowestKey(h) : h \in nb.heads},
           nb.tree \in [DOMAIN nb.tree -> Bags],
           \A d \in Vertices, k \in DOMAIN nb.tree :
                nb.tree[k][d] > 0 => k = Home(DOMAIN nb.tree, d),
           \A d \in Vertices : IsHead(d) => (d \in nb.heads <=> Count(nb, d) > 0)
    PROVE  IsRecord(nb)
  BY DEF IsRecord, BlocksHold, HasEdge

LEMMA NewRecordHolds == IsRecord(NewRecord)
<1> DEFINE nb == NewRecord
<1>1. nb.heads = {} /\ nb.tree = [k \in {PreKey} |-> NoDests]
  BY DEF NewRecord
<1>2. /\ DOMAIN nb.tree = {PreKey}
      /\ nb.tree \in [{PreKey} -> Bags]
      /\ \A d \in Vertices, k \in {PreKey} : nb.tree[k][d] = 0
  BY <1>1 DEF NoDests, Bags
<1>4. \A d \in Vertices : Home({PreKey}, d) = PreKey
  BY HomeFound DEF PreKey
<1>5. \A d \in Vertices : Count(nb, d) = 0
  BY <1>2, <1>4 DEF Count
<1> QED
  BY <1>1, <1>2, <1>5 DEF IsRecord, BlocksHold, HasEdge

LEMMA InsertEdgeHolds ==
    ASSUME NEW nb, IsRecord(nb), NEW dest \in Vertices
    PROVE  IsRecord(InsertEdge(nb, dest))
<1> DEFINE new == InsertEdge(nb, dest)
           old == DOMAIN nb.tree
<1>0. /\ PreKey \in old
      /\ \A d \in Vertices : Home(old, d) \in old /\ Count(nb, d) \in Nat
  BY RecordFacts
<1>1. CASE HasEdge(nb, dest)
  BY <1>1 DEF InsertEdge
<1>2. CASE ~HasEdge(nb, dest) /\ IsHead(dest)
  <2> DEFINE tree == SplitTree(nb, {dest})
  <2>1. new.heads = nb.heads \cup {dest} /\ new.tree = tree
    BY <1>2 DEF InsertEdge
  <2>2. /\ DOMAIN tree = {PreKey} \cup {LowestKey(h) : h \in nb.heads \cup {dest}}
        /\ tree \in [DOMAIN tree -> Bags]
        /\ \A d \in Vertices : Home(DOMAIN tree, d) \in DOMAIN tree
        /\ \A d \in Vertices, k \in DOMAIN tree :
             tree[k][d] = IF Home(DOMAIN tree, d) # k THEN 0
                          ELSE IF d \in {dest} THEN 1 ELSE Count(nb, d)
    BY <1>2, SplitHolds, SMTT(40)
  <2> HIDE DEF tree
  <2>3. \A d \in Vertices : Count(new, d) = IF d = dest THEN 1 ELSE Count(nb, d)
    BY <2>1, <2>2 DEF Count
  <2>4. \A h \in new.heads : h \in Vertices /\ IsHead(h)
    BY <1>2, <2>1 DEF IsRecord, BlocksHold
  <2>5. \A d \in Vertices : IsHead(d) => (d \in new.heads <=> Count(new, d) > 0)
    BY <2>1, <2>3 DEF IsRecord, BlocksHold, HasEdge
  <2> HIDE DEF new
  <2>6. IsRecord(new)
    BY <2>1, <2>2, <2>4, <2>5, TreeHolds
  <2> QED
    BY <2>6 DEF new
<1>3. CASE ~HasEdge(nb, dest) /\ ~IsHead(dest)
  <2> DEFINE home == Home(old, dest)
  <2>1. new.heads = nb.heads /\ new.tree = [nb.tree EXCEPT ![home][dest] = 1]
    BY <1>3 DEF InsertEdge
  <2>2. home \in old
    BY <1>0
  <2>3. \A k \in old, d \in Vertices :
            new.tree[k][d] = IF k = home /\ d = dest THEN 1 ELSE nb.tree[k][d]
    BY <2>1, <2>2 DEF IsRecord, Bags
  <2>4. DOMAIN new.tree = old /\ new.tree \in [old -> Bags]
    BY <2>1, <2>2 DEF IsRecord, Bags
  <2>5. \A d \in Vertices : d # dest => Count(new, d) = Count(nb, d)
    BY <1>0, <2>3, <2>4 DEF Count
  <2> HIDE DEF new
  <2>6. \A d \in Vertices : IsHead(d) => (d \in new.heads <=> Count(new, d) > 0)
    BY <1>3, <2>1, <2>5 DEF IsRecord, BlocksHold, HasEdge
  <2>7. \A d \in Vertices, k \in old : new.tree[k][d] > 0 => k = Home(old, d)
    BY <2>3 DEF IsRecord, BlocksHold
  <2>8. /\ new.heads \in SUBSET Vertices /\ \A h \in new.heads : IsHead(h)
        /\ old = {PreKey} \cup {LowestKey(h) : h \in new.heads}
    BY <2>1 DEF IsRecord, BlocksHold
  <2>9. IsRecord(new)
    BY <2>4, <2>6, <2>7, <2>8, TreeHolds
  <2> QED
    BY <2>9 DEF new
<1> QED
  BY <1>1, <1>2, <1>3

LEMMA InsertBatchHolds ==
    ASSUME NEW nb, IsRecord(nb), NEW bag \in Bags
    PROVE  IsRecord(InsertBatch(nb, bag))
<1> DEFINE H     == NewHeads(nb, bag)
           split == SplitTree(nb, H)
           keys  == DOMAIN split
           tree  == MergedTree(split, bag)
           new   == InsertBatch(nb, bag)
<1>1. H \in SUBSET Vertices /\ \A h \in H : IsHead(h) /\ bag[h] > 0 /\ ~HasEdge(nb, h)
  BY DEF NewHeads
<1>2. /\ keys = {PreKey} \cup {LowestKey(h) : h \in nb.heads \cup H}
      /\ split \in [keys -> Bags]
      /\ \A d \in Vertices : Home(keys, d) \in keys
      /\ \A d \in Vertices, k \in keys :
            split[k][d] = IF Home(keys, d) # k THEN 0 ELSE IF d \in H THEN 1 ELSE Count(nb, d)
  BY <1>1, SplitHolds
<1>3. new.heads = nb.heads \cup H /\ new.tree = tree
  BY DEF InsertBatch
<1>4. \A d \in Vertices : d \in H <=> IsHead(d) /\ bag[d] > 0 /\ ~HasEdge(nb, d)
  BY DEF NewHeads
<1> HIDE DEF H, split
<1>5. /\ DOMAIN tree = keys
      /\ \A k \in keys, d \in Vertices :
            tree[k][d] = Greater(split[k][d], IF Home(keys, d) = k THEN bag[d] ELSE 0)
  BY DEF MergedTree, Part
<1>6. tree \in [keys -> Bags]
  BY <1>2 DEF MergedTree, Part, Greater, Bags
<1> HIDE DEF tree, new
<1>7. \A d \in Vertices, k \in keys : tree[k][d] > 0 => k = Home(keys, d)
  BY <1>2, <1>5 DEF Greater
<1>8. \A d \in Vertices : Count(nb, d) \in Nat /\ bag[d] \in Nat
  BY RecordFacts DEF Bags
<1>9. \A d \in Vertices : Count(new, d) = Greater(IF d \in H THEN 1 ELSE Count(nb, d), bag[d])
  BY <1>2, <1>3, <1>5 DEF Count
<1>10. \A d \in Vertices : IsHead(d) => (d \in new.heads <=> Count(new, d) > 0)
  BY <1>3, <1>4, <1>8, <1>9 DEF IsRecord, BlocksHold, HasEdge, Greater
<1>11. new.heads \in SUBSET Vertices /\ \A h \in new.heads : IsHead(h)
  BY <1>1, <1>3 DEF IsRecord, BlocksHold
<1>12. IsRecord(new)
  BY <1>2, <1>3, <1>5, <1>6, <1>7, <1>10, <1>11, TreeHolds
<1> QED
  BY <1>12 DEF new

-----------------------------------------------------------------------------
(* Types *)

LEMMA BothWaysType ==
    ASSUME NEW es \in Seq(Edges)
    PROVE  BothWays(es) \in Seq(Edges)
<1>1. \A i \in 1..2 * Len(es) :
        (IF i % 2 = 1 THEN es[(i + 1) \div 2] ELSE Reversed(es[i \div 2])) \in Edges
  <2>1. ASSUME NEW i \in 1..2 * Len(es), i % 2 = 1
        PROVE  es[(i + 1) \div 2] \in Edges
    <3>1. (i + 1) \div 2 \in 1..Len(es)
      BY <2>1
    <3> QED
      BY <3>1
  <2>2. ASSUME NEW i \in 1..2 * Len(es), i % 2 # 1
        PROVE  Reversed(es[i \div 2]) \in Edges
    <3>1. i \div 2 \in 1..Len(es)
      BY <2>2
    <3>2. es[i \div 2] \in Edges
      BY <3>1
    <3> QED
      BY <3>2 DEF Edges, Reversed
  <2> QED
    BY <2>1, <2>2
<1>2. 2 * Len(es) \in Nat
  OBVIOUS
<1> QED
  BY <1>1, <1>2 DEF BothWays

LEMMA BySourceType ==
    ASSUME NEW es \in Seq(Edges)
    PROVE  BySource(es) \in [Vertices -> Bags]
<1> DEFINE all == BothWays(es)
<1>1. ASSUME NEW u \in Vertices, NEW d \in Vertices
      PROVE  Cardinality({i \in DOMAIN all : all[i] = <<u, d>>}) \in Nat
  <2>1. all \in Seq(Edges)
    BY BothWaysType
  <2> HIDE DEF all
  <2>2. DOMAIN all = 1..Len(all) /\ Len(all) \in Nat
    BY <2>1
  <2>3. IsFiniteSet(DOMAIN all)
    BY <2>2, FS_Interval
  <2>4. IsFiniteSet({i \in DOMAIN all : all[i] = <<u, d>>})
    BY <2>3, FS_Subset
  <2> QED
    BY <2>4, FS_CardinalityType
<1> QED
  BY <1>1 DEF BySource, Bags

\* A writer that moves on, with or without a part of its work done.
LEMMA WriterMoves ==
    ASSUME NEW x, IsWriter(x), NEW p \in PCs
    PROVE  /\ LET y == [x EXCEPT !.pc = p] IN
              IsWriter(y) /\ y.pc = p /\ y.vs = x.vs /\ y.es = x.es
           /\ LET y == [x EXCEPT !.pc = p, !.vs = Tail(x.vs)] IN
              x.vs # <<>> => IsWriter(y) /\ y.pc = p
           /\ LET y == [x EXCEPT !.pc = p, !.es = Tail(x.es)] IN
              x.es # <<>> => IsWriter(y) /\ y.pc = p
<1>1. LET y == [x EXCEPT !.pc = p] IN
        IsWriter(y) /\ y.pc = p /\ y.vs = x.vs /\ y.es = x.es
  BY DEF IsWriter
<1>2. ASSUME x.vs # <<>>
      PROVE  LET y == [x EXCEPT !.pc = p, !.vs = Tail(x.vs)] IN IsWriter(y) /\ y.pc = p
  <2>1. Tail(x.vs) \in Seq(Vertices)
    BY <1>2 DEF IsWriter
  <2> QED
    BY <2>1 DEF IsWriter
<1>3. ASSUME x.es # <<>>
      PROVE  LET y == [x EXCEPT !.pc = p, !.es = Tail(x.es)] IN IsWriter(y) /\ y.pc = p
  <2>1. Tail(x.es) \in Seq(Edges)
    BY <1>3 DEF IsWriter
  <2> QED
    BY <2>1 DEF IsWriter
<1> QED
  BY <1>1, <1>2, <1>3

\* A step of one writer to a writer whose pc is known leaves the flag right.
LEMMA WriterOKStep ==
    ASSUME WriterOK, NEW w \in Writers, NEW x, IsWriter(x), AtCount(x),
           writer' = [writer EXCEPT ![w] = x]
    PROVE  /\ WriterOK'
           /\ writer'[w] = x
           /\ \A v \in Writers \ {w} : writer'[v] = writer[v]
  BY DEF WriterOK, IsWriter

LEMMA FlagStays ==
    ASSUME FlagHeld, WriterOK, NEW w \in Writers, Inside(w),
           NEW x, IsWriter(x), AtCount(x), x.pc # "idle",
           writer' = [writer EXCEPT ![w] = x], UNCHANGED isWriting
    PROVE  WriterOK' /\ FlagHeld'
<1>1. WriterOK' /\ writer'[w] = x /\ \A v \in Writers \ {w} : writer'[v] = writer[v]
  BY WriterOKStep
<1>2. \A v \in Writers : Inside(v)' <=> Inside(v)
  BY <1>1 DEF Inside
<1> QED
  BY <1>1, <1>2 DEF FlagHeld

-----------------------------------------------------------------------------
(* The invariant *)

LEMMA CowInit == Init => CowInv
<1> SUFFICES ASSUME Init PROVE CowInv
  OBVIOUS
<1>1. PICK p \in Programs :
        writer = [w \in Writers |->
            [pc |-> "idle", calls |-> p[w], vs |-> <<>>, es |-> <<>>,
             batch |-> [u \in Vertices |-> NoDests], added |-> 0]]
  BY DEF Init
<1>2. p \in [Writers -> Seq(Call)]
  BY ProgramsAssumption
<1>3. [u \in Vertices |-> NoDests] \in [Vertices -> Bags]
  BY DEF NoDests, Bags
<1>4. WriterOK
  <2>1. <<>> \in Seq(Vertices) /\ <<>> \in Seq(Edges)
    OBVIOUS
  <2>2. DOMAIN writer = Writers
    BY <1>1
  <2>3. ASSUME NEW w \in Writers
        PROVE  IsWriter(writer[w]) /\ AtCount(writer[w])
    <3>1. writer[w] = [pc |-> "idle", calls |-> p[w], vs |-> <<>>, es |-> <<>>,
                       batch |-> [u \in Vertices |-> NoDests], added |-> 0]
      BY <1>1
    <3>2. p[w] \in Seq(Call)
      BY <1>2
    <3> QED
      BY <1>3, <2>1, <3>1, <3>2 DEF IsWriter, AtCount, PCs
  <2> QED
    BY <2>2, <2>3 DEF WriterOK
<1>5. IndexOK
  BY NewRecordHolds DEF Init, IndexOK
<1>6. FlagHeld
  BY <1>1 DEF Init, FlagHeld, Inside
<1> QED
  BY <1>4, <1>5, <1>6 DEF CowInv

\* A record that replaces another one is in order.
LEMMA IndexStep ==
    ASSUME IndexOK, NEW u \in Vertices, NEW nb, IsRecord(nb),
           index' = [index EXCEPT ![u] = nb]
    PROVE  IndexOK'
<1>1. \A v \in Vertices : index'[v] # Absent => IsRecord(index'[v])
  BY DEF IndexOK
<1>2. DOMAIN index' = Vertices
  BY DEF IndexOK
<1> QED
  BY <1>1, <1>2 DEF IndexOK

\* Starting a call: the flag was clear, so nobody was inside.
LEMMA AcquireStep ==
    ASSUME CowInv, NEW w \in Writers, Acquire(w)
    PROVE  CowInv'
<1> DEFINE x == writer'[w]
<1>1. IsWriter(writer[w]) /\ writer[w].calls # <<>> /\ DOMAIN writer = Writers
  BY DEF CowInv, WriterOK, Acquire
<1> DEFINE call == Head(writer[w].calls)
<1>2. call \in Call /\ Tail(writer[w].calls) \in Seq(Call)
  BY <1>1 DEF IsWriter
<1>3. /\ call.vertices \in Seq(Vertices)
      /\ BothWays(call.edges) \in Seq(Edges)
      /\ BySource(call.batch) \in [Vertices -> Bags]
  BY <1>2, BothWaysType, BySourceType DEF Call
<1> HIDE DEF call
<1>4. x = [writer[w] EXCEPT !.pc = IF call.batch = <<>> THEN "commit" ELSE "batch",
                            !.calls = Tail(writer[w].calls),
                            !.vs = call.vertices, !.es = BothWays(call.edges),
                            !.batch = BySource(call.batch), !.added = 0]
  BY <1>1 DEF Acquire, call
<1>5. /\ DOMAIN writer' = Writers
      /\ \A v \in Writers \ {w} : writer'[v] = writer[v]
  BY <1>1 DEF Acquire
<1> HIDE DEF x
<1>6. IsWriter(x) /\ AtCount(x) /\ x.pc # "idle"
  BY <1>1, <1>2, <1>3, <1>4 DEF IsWriter, AtCount, PCs
<1>7. WriterOK'
  BY <1>5, <1>6 DEF WriterOK, CowInv, x
<1>8. IndexOK'
  BY DEF Acquire, CowInv, IndexOK
<1>9. \A v \in Writers : ~Inside(v)
  BY DEF Acquire, CowInv, FlagHeld
<1>10. \A v \in Writers : Inside(v)' <=> v = w
  BY <1>5, <1>6, <1>9 DEF Inside, x
<1>11. isWriting'
  BY DEF Acquire
<1>12. FlagHeld'
  BY <1>10, <1>11 DEF FlagHeld
<1> QED
  BY <1>7, <1>8, <1>12 DEF CowInv

\* Ending a call: the writer was the only one inside.
LEMMA ReleaseStep ==
    ASSUME CowInv, NEW w \in Writers, Release(w)
    PROVE  CowInv'
<1> DEFINE x == [writer[w] EXCEPT !.pc = "idle"]
<1>1. IsWriter(writer[w]) /\ DOMAIN writer = Writers /\ writer[w].pc = "commit"
  BY DEF CowInv, WriterOK, Release
<1>2. writer' = [writer EXCEPT ![w] = x]
  BY DEF Release
<1>3. IsWriter(x) /\ AtCount(x) /\ x.pc = "idle"
  BY <1>1, WriterMoves DEF PCs, AtCount
<1>4. WriterOK' /\ writer'[w] = x /\ \A v \in Writers \ {w} : writer'[v] = writer[v]
  <2> HIDE DEF x
  <2> QED
    BY <1>2, <1>3, WriterOKStep DEF CowInv
<1>5. \A v \in Writers : Inside(v) <=> v = w
  BY <1>1 DEF CowInv, FlagHeld, Inside
<1>6. \A v \in Writers : ~Inside(v)'
  BY <1>3, <1>4, <1>5 DEF Inside
<1>7. FlagHeld'
  BY <1>6 DEF FlagHeld, Release
<1>8. IndexOK'
  BY DEF Release, CowInv, IndexOK
<1> QED
  BY <1>4, <1>7, <1>8 DEF CowInv

\* A step inside a call that goes to another place inside it.
LEMMA InsideStep ==
    ASSUME CowInv, NEW w \in Writers, writer[w].pc # "idle",
           NEW x, IsWriter(x), AtCount(x), x.pc # "idle",
           writer' = [writer EXCEPT ![w] = x], UNCHANGED isWriting,
           IndexOK'
    PROVE  CowInv'
  BY FlagStays DEF CowInv, Inside

LEMMA PutVertexStep ==
    ASSUME CowInv, NEW w \in Writers, PutVertex(w)
    PROVE  CowInv'
<1> DEFINE x == [writer[w] EXCEPT !.pc = "countVertex"]
           v == Head(writer[w].vs)
<1>1. IsWriter(writer[w]) /\ writer[w].pc = "commit" /\ writer[w].vs # <<>>
  BY DEF CowInv, WriterOK, PutVertex
<1>2. IsWriter(x) /\ AtCount(x) /\ x.pc # "idle"
  BY <1>1, WriterMoves DEF PCs, AtCount
<1>3. v \in Vertices
  BY <1>1 DEF IsWriter
<1>4. /\ writer' = [writer EXCEPT ![w] = x] /\ UNCHANGED isWriting
      /\ index' = [index EXCEPT ![v] = NewRecord]
  BY DEF PutVertex
<1> HIDE DEF x, v
<1>5. IndexOK'
  BY <1>3, <1>4, NewRecordHolds, IndexStep DEF CowInv
<1> QED
  BY <1>1, <1>2, <1>4, <1>5, InsideStep

LEMMA CountVertexStep ==
    ASSUME CowInv, NEW w \in Writers, CountVertex(w)
    PROVE  CowInv'
<1> DEFINE x == [writer[w] EXCEPT !.pc = "commit", !.vs = Tail(writer[w].vs)]
<1>1. IsWriter(writer[w]) /\ writer[w].pc = "countVertex" /\ writer[w].vs # <<>>
  BY DEF CowInv, WriterOK, AtCount, CountVertex
<1>2. IsWriter(x) /\ AtCount(x) /\ x.pc # "idle"
  BY <1>1, WriterMoves DEF PCs, AtCount
<1>3. writer' = [writer EXCEPT ![w] = x] /\ UNCHANGED <<isWriting, index>>
  BY DEF CountVertex
<1> HIDE DEF x
<1>4. IndexOK'
  BY <1>3 DEF CowInv, IndexOK
<1> QED
  BY <1>1, <1>2, <1>3, <1>4, InsideStep

LEMMA PutEdgeStep ==
    ASSUME CowInv, NEW w \in Writers, PutEdge(w)
    PROVE  CowInv'
<1> DEFINE x == [writer[w] EXCEPT !.pc = "countEdge"]
           u == Edge(w)[1]
<1>1. IsWriter(writer[w]) /\ writer[w].pc = "commit" /\ writer[w].es # <<>>
  BY DEF CowInv, WriterOK, PutEdge, AtEdge
<1>2. IsWriter(x) /\ AtCount(x) /\ x.pc # "idle"
  BY <1>1, WriterMoves DEF PCs, AtCount
<1>3. Edge(w) \in Edges
  BY <1>1 DEF IsWriter, Edge
<1>4. u \in Vertices /\ Edge(w)[2] \in Vertices
  BY <1>3 DEF Edges
<1>5. IsRecord(InsertEdge(index[u], Edge(w)[2]))
  BY <1>4, InsertEdgeHolds DEF PutEdge, NewEdge, CowInv, IndexOK
<1>6. /\ writer' = [writer EXCEPT ![w] = x] /\ UNCHANGED isWriting
      /\ index' = [index EXCEPT ![u] = InsertEdge(index[u], Edge(w)[2])]
  BY DEF PutEdge
<1> HIDE DEF x, u
<1>7. IndexOK'
  BY <1>4, <1>5, <1>6, IndexStep DEF CowInv
<1> QED
  BY <1>1, <1>2, <1>6, <1>7, InsideStep

LEMMA CountEdgeStep ==
    ASSUME CowInv, NEW w \in Writers, CountEdge(w)
    PROVE  CowInv'
<1> DEFINE x == [writer[w] EXCEPT !.pc = "commit", !.es = Tail(writer[w].es)]
<1>1. IsWriter(writer[w]) /\ writer[w].pc = "countEdge" /\ writer[w].es # <<>>
  BY DEF CowInv, WriterOK, AtCount, CountEdge
<1>2. IsWriter(x) /\ AtCount(x) /\ x.pc # "idle"
  BY <1>1, WriterMoves DEF PCs, AtCount
<1>3. writer' = [writer EXCEPT ![w] = x] /\ UNCHANGED <<isWriting, index>>
  BY DEF CountEdge
<1> HIDE DEF x
<1>4. IndexOK'
  BY <1>3 DEF CowInv, IndexOK
<1> QED
  BY <1>1, <1>2, <1>3, <1>4, InsideStep

LEMMA ThrowStep ==
    ASSUME CowInv, NEW w \in Writers, Throw(w)
    PROVE  CowInv'
<1> DEFINE x == [writer[w] EXCEPT !.pc = "threw"]
<1>1. IsWriter(writer[w]) /\ writer[w].pc = "commit"
  BY DEF CowInv, WriterOK, Throw, AtEdge
<1>2. IsWriter(x) /\ AtCount(x) /\ x.pc # "idle"
  BY <1>1, WriterMoves DEF PCs, AtCount
<1>3. writer' = [writer EXCEPT ![w] = x] /\ UNCHANGED <<isWriting, index>>
  BY DEF Throw
<1> HIDE DEF x
<1>4. IndexOK'
  BY <1>3 DEF CowInv, IndexOK
<1> QED
  BY <1>1, <1>2, <1>3, <1>4, InsideStep

LEMMA CountBatchStep ==
    ASSUME CowInv, NEW w \in Writers, CountBatch(w)
    PROVE  CowInv'
<1> DEFINE x == [writer[w] EXCEPT !.pc = "commit"]
<1>1. IsWriter(writer[w]) /\ writer[w].pc = "batch"
  BY DEF CowInv, WriterOK, CountBatch
<1>2. IsWriter(x) /\ AtCount(x) /\ x.pc # "idle"
  BY <1>1, WriterMoves DEF PCs, AtCount
<1>3. writer' = [writer EXCEPT ![w] = x] /\ UNCHANGED <<isWriting, index>>
  BY DEF CountBatch
<1> HIDE DEF x
<1>4. IndexOK'
  BY <1>3 DEF CowInv, IndexOK
<1> QED
  BY <1>1, <1>2, <1>3, <1>4, InsideStep

LEMMA BatchSourcesStep ==
    ASSUME CowInv, NEW w \in Writers, BatchSources(w)
    PROVE  CowInv'
<1>1. IsWriter(writer[w]) /\ writer[w].pc = "batch"
  BY DEF CowInv, WriterOK, BatchSources
<1>2. PICK S \in IF Parlay THEN {Sources(w)} ELSE {{u} : u \in Sources(w)} :
        LET there == {u \in S : index[u] # Absent} IN
        /\ index' = [u \in Vertices |->
              IF u \in there THEN InsertBatch(index[u], writer[w].batch[u]) ELSE index[u]]
        /\ writer' = [writer EXCEPT ![w] = [writer[w] EXCEPT
              !.batch = [u \in Vertices |-> IF u \in S THEN NoDests ELSE writer[w].batch[u]],
              !.added = writer[w].added + SumFunction(
                  [u \in there |-> EdgesAdded(index[u], writer[w].batch[u])])]]
  BY DEF BatchSources
<1> DEFINE there == {u \in S : index[u] # Absent}
           sum == writer[w].added + SumFunction(
                    [u \in there |-> EdgesAdded(index[u], writer[w].batch[u])])
           left == [u \in Vertices |-> IF u \in S THEN NoDests ELSE writer[w].batch[u]]
           x == [writer[w] EXCEPT !.batch = left, !.added = sum]
<1>3. writer' = [writer EXCEPT ![w] = x] /\ UNCHANGED isWriting
  BY <1>2 DEF BatchSources
<1>4. left \in [Vertices -> Bags]
  <2>1. NoDests \in Bags
    BY DEF NoDests, Bags
  <2> QED
    BY <1>1, <2>1 DEF IsWriter
<1>5. IsWriter(x) /\ AtCount(x) /\ x.pc # "idle"
  <2> HIDE DEF left, sum
  <2> QED
    BY <1>1, <1>4 DEF IsWriter, AtCount
<1>6. IndexOK'
  <2>1. ASSUME NEW u \in Vertices, index'[u] # Absent
        PROVE  IsRecord(index'[u])
    <3>1. writer[w].batch[u] \in Bags
      BY <1>1 DEF IsWriter
    <3>2. index'[u] = IF u \in there THEN InsertBatch(index[u], writer[w].batch[u]) ELSE index[u]
      BY <1>2
    <3> QED
      BY <2>1, <3>1, <3>2, InsertBatchHolds DEF CowInv, IndexOK
  <2> QED
    BY <1>2, <2>1 DEF IndexOK
<1> HIDE DEF x
<1> QED
  BY <1>1, <1>3, <1>5, <1>6, InsideStep

LEMMA CowStep ==
    ASSUME CowInv, [Next]_vars
    PROVE  CowInv'
<1>1. ASSUME NEW w \in Writers, Write(w)
      PROVE  CowInv'
  BY <1>1, AcquireStep, PutVertexStep, CountVertexStep, PutEdgeStep, CountEdgeStep,
     ThrowStep, BatchSourcesStep, CountBatchStep, ReleaseStep DEF Write
<1>2. ASSUME UNCHANGED <<index, writer, isWriting>>
      PROVE  CowInv'
  BY <1>2 DEF CowInv, WriterOK, IndexOK, FlagHeld, Inside
<1>3. ASSUME NEW r \in Readers, TakeSnapshot(r)
      PROVE  CowInv'
  BY <1>2, <1>3 DEF TakeSnapshot
<1>4. CASE Over \/ UNCHANGED vars
  BY <1>2, <1>4 DEF Over, vars
<1> QED
  BY <1>1, <1>3, <1>4 DEF Next

LEMMA CowInvariant == Spec => []CowInv
  BY CowInit, CowStep, PTL DEF Spec

-----------------------------------------------------------------------------
(* Theorems *)

\* Of any number of writers that exchange() the flag of transaction_pam.hpp, one at
\* most is inside a writing call, and the flag is set exactly while one is or after
\* its commit threw.
THEOREM OneWriter == Spec => []FlagHeld
  BY CowInvariant, PTL DEF CowInv

\* The blocks of pam_tree_cow.hpp keep every destination where has_edge looks for it,
\* through any sequence of insertions and batches, also when the commits throw and for
\* every size of the blocks.
THEOREM BlocksAlwaysHold == Spec => []RecordsHold
<1>1. CowInv => RecordsHold
  BY DEF CowInv, IndexOK, RecordsHold, There, IsRecord
<1> QED
  BY <1>1, CowInvariant, PTL

-----------------------------------------------------------------------------
(* Sums *)

LEMMA SmallestSet ==
    ASSUME NEW B, B # {}, \A s \in B : IsFiniteSet(s)
    PROVE  \E s \in B : \A t \in B : Cardinality(s) <= Cardinality(t)
<1> DEFINE sizes == {Cardinality(s) : s \in B}
<1>1. sizes \subseteq Nat /\ sizes # {}
  BY FS_CardinalityType
<1> HIDE DEF sizes
<1>2. PICK n \in sizes : \A m \in sizes : n <= m
  BY <1>1, LeastGap
<1> QED
  BY <1>2 DEF sizes

\* Taking a member out of a finite set makes it smaller by one.
LEMMA OneLess ==
    ASSUME NEW s, IsFiniteSet(s), NEW x \in s
    PROVE  /\ IsFiniteSet(s \ {x})
           /\ Cardinality(s) \in Nat /\ Cardinality(s \ {x}) \in Nat
           /\ Cardinality(s \ {x}) = Cardinality(s) - 1
           /\ ~ (Cardinality(s) <= Cardinality(s \ {x}))
<1>1. /\ IsFiniteSet(s \ {x})
      /\ Cardinality(s) \in Nat /\ Cardinality(s \ {x}) \in Nat
      /\ Cardinality(s \ {x}) = Cardinality(s) - 1
  BY FS_RemoveElement, FS_CardinalityType
<1> QED
  BY <1>1

Some(s) == CHOOSE x \in s : TRUE

\* The sums of f over the subsets of S, in the order in which SumFunction takes
\* the members.
AreSums(g, f, S) ==
    g = [s \in SUBSET S |-> IF s = {} THEN 0 ELSE f[Some(s)] + g[s \ {Some(s)}]]

LEMMA SumsExist ==
    ASSUME NEW S, IsFiniteSet(S), NEW f \in [S -> Int]
    PROVE  \E g \in [SUBSET S -> Int] : AreSums(g, f, S)
<1> DEFINE Upto(n) == {s \in SUBSET S : Cardinality(s) <= n}
           Rec(n, g) == \A s \in Upto(n) :
                g[s] = IF s = {} THEN 0 ELSE f[Some(s)] + g[s \ {Some(s)}]
           bad == {n \in Nat : ~ \E g \in [Upto(n) -> Int] : Rec(n, g)}
<1>0. \A s \in SUBSET S : IsFiniteSet(s) /\ Cardinality(s) \in Nat /\ Cardinality(s) <= Cardinality(S)
  BY FS_Subset, FS_CardinalityType
<1>1. bad = {}
  <2> SUFFICES ASSUME bad # {} PROVE FALSE
    OBVIOUS
  <2>1. PICK n \in bad : \A m \in bad : n <= m
    <3>1. bad \subseteq Nat
      OBVIOUS
    <3> HIDE DEF bad
    <3> QED
      BY <3>1, LeastGap
  <2>2. ASSUME NEW s \in Upto(n), s # {}
        PROVE  Some(s) \in S /\ s \ {Some(s)} \in Upto(n) /\ (n # 0 => s \ {Some(s)} \in Upto(n - 1))
               /\ n # 0
    <3>1. Some(s) \in s
      BY <2>2 DEF Some
    <3>2. Cardinality(s \ {Some(s)}) = Cardinality(s) - 1 /\ Cardinality(s \ {Some(s)}) \in Nat
      BY <1>0, <3>1, OneLess
    <3> QED
      BY <1>0, <3>1, <3>2
  <2>3. CASE n = 0
    <3> DEFINE g == [s \in Upto(0) |-> 0]
    <3>1. g \in [Upto(0) -> Int] /\ Rec(0, g)
      BY <2>2, <2>3
    <3> QED
      BY <2>3, <3>1
  <2>4. CASE n # 0
    <3>1. n - 1 \in Nat /\ ~ (n <= n - 1)
      BY <2>4
    <3>2. PICK g \in [Upto(n - 1) -> Int] : Rec(n - 1, g)
      BY <2>1, <3>1
    <3> DEFINE h == [s \in Upto(n) |-> IF s = {} THEN 0 ELSE f[Some(s)] + g[s \ {Some(s)}]]
    <3>3. h \in [Upto(n) -> Int]
      <4>1. ASSUME NEW s \in Upto(n), s # {} PROVE f[Some(s)] + g[s \ {Some(s)}] \in Int
        <5>1. f[Some(s)] \in Int /\ g[s \ {Some(s)}] \in Int
          BY <2>2, <2>4, <4>1
        <5> QED
          BY <5>1
      <4> QED
        BY <4>1
    <3>4. \A s \in Upto(n - 1) : h[s] = g[s]
      <4>1. \A s \in Upto(n - 1) : s \in Upto(n)
        BY <1>0
      <4> QED
        BY <3>2, <4>1
    <3>5. Rec(n, h)
      <4> SUFFICES ASSUME NEW s \in Upto(n)
                   PROVE  h[s] = IF s = {} THEN 0 ELSE f[Some(s)] + h[s \ {Some(s)}]
        OBVIOUS
      <4>1. CASE s = {}
        BY <4>1
      <4>2. CASE s # {}
        <5>1. h[s \ {Some(s)}] = g[s \ {Some(s)}]
          BY <2>2, <2>4, <3>4, <4>2
        <5> QED
          BY <4>2, <5>1
      <4> QED
        BY <4>1, <4>2
    <3> HIDE DEF h
    <3> QED
      BY <3>3, <3>5
  <2> QED
    BY <2>3, <2>4
<1> DEFINE N == Cardinality(S)
<1>2. N \in Nat /\ Upto(N) = SUBSET S
  BY <1>0, FS_CardinalityType
<1>3. PICK g \in [Upto(N) -> Int] : Rec(N, g)
  BY <1>1, <1>2
<1>4. g \in [SUBSET S -> Int]
  BY <1>2
<1>5. AreSums(g, f, S)
  BY <1>2, <1>3, <1>4 DEF AreSums
<1> QED
  BY <1>4, <1>5

\* What AreSums says, member by member.
LEMMA SumsAre ==
    ASSUME NEW S, IsFiniteSet(S), NEW f \in [S -> Int], NEW g, AreSums(g, f, S)
    PROVE  /\ g[{}] = 0
           /\ \A s \in SUBSET S : s # {} =>
                Some(s) \in s /\ g[s] = f[Some(s)] + g[s \ {Some(s)}]
           /\ \A s \in SUBSET S : g[s] \in Int
<1>0. \A s \in SUBSET S : IsFiniteSet(s)
  BY FS_Subset
<1>1. \A s \in SUBSET S : g[s] = IF s = {} THEN 0 ELSE f[Some(s)] + g[s \ {Some(s)}]
  BY DEF AreSums
<1>2. \A s \in SUBSET S : s # {} => Some(s) \in s
  BY DEF Some
<1> DEFINE bad == {s \in SUBSET S : g[s] \notin Int}
<1>3. bad = {}
  <2> SUFFICES ASSUME bad # {} PROVE FALSE
    OBVIOUS
  <2>1. PICK s \in bad : \A t \in bad : Cardinality(s) <= Cardinality(t)
    BY <1>0, SmallestSet
  <2>2. s \in SUBSET S /\ g[s] \notin Int
    OBVIOUS
  <2>3. s # {}
    <3>1. {} \in SUBSET S /\ 0 \in Int
      OBVIOUS
    <3>2. g[{}] = 0
      BY <1>1, <3>1
    <3> QED
      BY <2>2, <3>1, <3>2
  <2>6. Some(s) \in s /\ f[Some(s)] \in Int
    BY <1>2, <2>2, <2>3
  <2>7. ~ (Cardinality(s) <= Cardinality(s \ {Some(s)}))
    BY <1>0, <2>2, <2>6, OneLess
  <2>4. s \ {Some(s)} \notin bad
    BY <2>1, <2>7
  <2>5. g[s \ {Some(s)}] \in Int
    BY <2>2, <2>4
  <2>8. g[s] = f[Some(s)] + g[s \ {Some(s)}]
    BY <1>1, <2>2, <2>3
  <2> QED
    BY <2>2, <2>5, <2>6, <2>8
<1> QED
  BY <1>1, <1>2, <1>3

\* The order does not matter: any member may be taken out first.
LEMMA SumsSplit ==
    ASSUME NEW S, IsFiniteSet(S), NEW f \in [S -> Int], NEW g, AreSums(g, f, S),
           NEW s \in SUBSET S, NEW x \in s
    PROVE  g[s] = f[x] + g[s \ {x}]
<1>0. \A t \in SUBSET S : IsFiniteSet(t)
  BY FS_Subset
<1>1. \A t \in SUBSET S : t # {} => Some(t) \in t /\ g[t] = f[Some(t)] + g[t \ {Some(t)}]
  BY DEF AreSums, Some
<1>3. \A t \in SUBSET S : g[t] \in Int
  BY SumsAre
<1> DEFINE bad == {t \in SUBSET S : \E y \in t : g[t] # f[y] + g[t \ {y}]}
<1>2. bad = {}
  <2> SUFFICES ASSUME bad # {} PROVE FALSE
    OBVIOUS
  <2>1. PICK t \in bad : \A u \in bad : Cardinality(t) <= Cardinality(u)
    BY <1>0, SmallestSet
  <2>2. PICK y \in t : g[t] # f[y] + g[t \ {y}]
    OBVIOUS
  <2> DEFINE z == Some(t)
  <2>3. z \in t /\ g[t] = f[z] + g[t \ {z}] /\ t \in SUBSET S
    BY <1>1, <2>2
  <2> HIDE DEF z
  <2>4. y # z
    BY <2>2, <2>3
  <2>5. t \ {z} \notin bad /\ t \ {y} \notin bad
    <3>1. IsFiniteSet(t)
      BY <1>0, <2>3
    <3> HIDE DEF bad
    <3>2. ~ (Cardinality(t) <= Cardinality(t \ {z})) /\ ~ (Cardinality(t) <= Cardinality(t \ {y}))
      BY <2>3, <3>1, OneLess
    <3> QED
      BY <2>1, <3>2
  <2>6. g[t \ {z}] = f[y] + g[(t \ {z}) \ {y}]
    <3>1. t \ {z} \in SUBSET S /\ y \in t \ {z}
      BY <2>3, <2>4
    <3> QED
      BY <2>5, <3>1
  <2>7. g[t \ {y}] = f[z] + g[(t \ {y}) \ {z}]
    <3>1. t \ {y} \in SUBSET S /\ z \in t \ {y}
      BY <2>3, <2>4
    <3> QED
      BY <2>5, <3>1
  <2>8. (t \ {z}) \ {y} = (t \ {y}) \ {z}
    OBVIOUS
  <2>9. f[y] \in Int /\ f[z] \in Int /\ g[(t \ {y}) \ {z}] \in Int
    BY <1>3, <2>3
  <2>10. g[t \ {z}] = f[y] + g[(t \ {y}) \ {z}]
    BY <2>6, <2>8
  <2>11. g[t] = f[z] + g[t \ {z}] /\ g[t] # f[y] + g[t \ {y}]
    BY <2>2, <2>3
  <2> HIDE DEF bad
  <2> QED
    BY <2>7, <2>9, <2>10, <2>11
<1> QED
  BY <1>2

\* Sums over a smaller domain are the same.
LEMMA SumsAgree ==
    ASSUME NEW S, IsFiniteSet(S), NEW f \in [S -> Int], NEW g, AreSums(g, f, S),
           NEW T \in SUBSET S, NEW e \in [T -> Int], NEW k, AreSums(k, e, T),
           \A x \in T : e[x] = f[x]
    PROVE  k[T] = g[T]
<1>0. IsFiniteSet(T) /\ \A t \in SUBSET T : IsFiniteSet(t)
  BY FS_Subset
<1>1. /\ g[{}] = 0 /\ k[{}] = 0
      /\ \A t \in SUBSET T : t # {} => /\ Some(t) \in t
                                       /\ g[t] = f[Some(t)] + g[t \ {Some(t)}]
                                       /\ k[t] = e[Some(t)] + k[t \ {Some(t)}]
  <2>1. g[{}] = 0 /\ \A t \in SUBSET S : t # {} =>
            Some(t) \in t /\ g[t] = f[Some(t)] + g[t \ {Some(t)}]
    BY DEF AreSums, Some
  <2>2. k[{}] = 0 /\ \A t \in SUBSET T : t # {} =>
            Some(t) \in t /\ k[t] = e[Some(t)] + k[t \ {Some(t)}]
    BY DEF AreSums, Some
  <2>3. SUBSET T \subseteq SUBSET S
    OBVIOUS
  <2> QED
    BY <2>1, <2>2, <2>3
<1> DEFINE bad == {t \in SUBSET T : k[t] # g[t]}
<1>2. bad = {}
  <2> SUFFICES ASSUME bad # {} PROVE FALSE
    OBVIOUS
  <2>1. PICK t \in bad : \A u \in bad : Cardinality(t) <= Cardinality(u)
    BY <1>0, SmallestSet
  <2>2. t # {} /\ t \in SUBSET T
    BY <1>1, <2>1
  <2>3. Some(t) \in t /\ e[Some(t)] = f[Some(t)]
    BY <1>1, <2>2
  <2>4. t \ {Some(t)} \notin bad
    <3>1. IsFiniteSet(t)
      BY <1>0, <2>2
    <3> HIDE DEF bad
    <3>2. ~ (Cardinality(t) <= Cardinality(t \ {Some(t)}))
      BY <2>3, <3>1, OneLess
    <3> QED
      BY <2>1, <3>2
  <2> QED
    BY <1>1, <2>1, <2>2, <2>3, <2>4
<1> QED
  BY <1>2

LEMMA SumIs ==
    ASSUME NEW S, IsFiniteSet(S), NEW f \in [S -> Int]
    PROVE  \E g : AreSums(g, f, S) /\ SumFunction(f) = g[S]
<1>1. PICK g : AreSums(g, f, S)
  BY SumsExist
<1>2. AreSums((CHOOSE h : AreSums(h, f, S)), f, S)
  BY <1>1
<1>3. SumFunction(f) = (CHOOSE h : AreSums(h, f, S))[S]
  BY DEF SumFunction, SumFunctionOnSet, FoldFunctionOnSet, MapThenFoldSet, AreSums, Some
<1> QED
  BY <1>2, <1>3

LEMMA SumType ==
    ASSUME NEW S, IsFiniteSet(S), NEW f \in [S -> Int]
    PROVE  SumFunction(f) \in Int /\ (S = {} => SumFunction(f) = 0)
<1>1. PICK g : AreSums(g, f, S) /\ SumFunction(f) = g[S]
  BY SumIs
<1> QED
  BY <1>1, SumsAre

\* f without the term of x.
Without(S, f, x, e) ==
    /\ IsFiniteSet(S) /\ x \in S
    /\ f \in [S -> Int] /\ e \in [S \ {x} -> Int]
    /\ \A y \in S \ {x} : e[y] = f[y]

\* A sum is any one term and the sum of the others.
LEMMA SumSplit ==
    ASSUME NEW S, NEW f, NEW x, NEW e, Without(S, f, x, e)
    PROVE  SumFunction(f) = f[x] + SumFunction(e)
<1>0. /\ IsFiniteSet(S) /\ x \in S /\ f \in [S -> Int] /\ e \in [S \ {x} -> Int]
      /\ \A y \in S \ {x} : e[y] = f[y]
  BY DEF Without
<1> DEFINE T == S \ {x}
<1>1. PICK g : AreSums(g, f, S) /\ SumFunction(f) = g[S]
  BY <1>0, SumIs
<1>2. T \in SUBSET S /\ IsFiniteSet(T) /\ e \in [T -> Int]
  BY <1>0, FS_Subset
<1>3. PICK k : AreSums(k, e, T) /\ SumFunction(e) = k[T]
  BY <1>2, SumIs
<1>4. g[S] = f[x] + g[T]
  BY <1>0, <1>1, SumsSplit
<1>5. k[T] = g[T]
  <2>1. \A y \in T : e[y] = f[y]
    BY <1>0
  <2> HIDE DEF T
  <2> QED
    BY <1>0, <1>1, <1>2, <1>3, <2>1, SumsAgree
<1> QED
  BY <1>1, <1>3, <1>4, <1>5

\* One term is replaced.
LEMMA SumReplace ==
    ASSUME NEW S, IsFiniteSet(S), NEW f \in [S -> Int], NEW h \in [S -> Int], NEW x \in S,
           \A y \in S \ {x} : h[y] = f[y]
    PROVE  SumFunction(h) = SumFunction(f) + h[x] - f[x]
<1> DEFINE e == [y \in S \ {x} |-> f[y]]
<1>1. /\ e \in [S \ {x} -> Int] /\ IsFiniteSet(S \ {x})
      /\ \A y \in S \ {x} : e[y] = f[y] /\ e[y] = h[y]
  BY FS_Subset
<1> HIDE DEF e
<1>5. Without(S, f, x, e) /\ Without(S, h, x, e)
  BY <1>1 DEF Without
<1>2. SumFunction(f) = f[x] + SumFunction(e)
  BY <1>5, SumSplit
<1>3. SumFunction(h) = h[x] + SumFunction(e)
  BY <1>5, SumSplit
<1>4. SumFunction(e) \in Int /\ f[x] \in Int /\ h[x] \in Int
  BY <1>1, SumType
<1> QED
  BY <1>2, <1>3, <1>4

\* Some terms grow: those of T, each by what d says.
Raised(h, f, d, S, T) ==
    /\ IsFiniteSet(S) /\ T \in SUBSET S
    /\ f \in [S -> Int] /\ h \in [S -> Int] /\ d \in [T -> Int]
    /\ \A x \in S : h[x] = IF x \in T THEN f[x] + d[x] ELSE f[x]

LEMMA SumGrows ==
    ASSUME NEW S, NEW f, NEW h, NEW T, NEW d, Raised(h, f, d, S, T)
    PROVE  SumFunction(h) = SumFunction(f) + SumFunction(d)
<1>a. /\ IsFiniteSet(S) /\ T \in SUBSET S
      /\ f \in [S -> Int] /\ h \in [S -> Int] /\ d \in [T -> Int]
  BY DEF Raised
<1> DEFINE sum(U) == SumFunction([x \in S |-> IF x \in U THEN f[x] + d[x] ELSE f[x]])
           part(U) == SumFunction([x \in U |-> d[x]])
           bad == {U \in SUBSET T : sum(U) # SumFunction(f) + part(U)}
<1>0. \A U \in SUBSET T : IsFiniteSet(U) /\ U \in SUBSET S
  BY <1>a, FS_Subset
<1>1. SumFunction(f) \in Int
  BY <1>a, SumType
<1>2. bad = {}
  <2> SUFFICES ASSUME bad # {} PROVE FALSE
    OBVIOUS
  <2>1. PICK U \in bad : \A V \in bad : Cardinality(U) <= Cardinality(V)
    BY <1>0, SmallestSet
  <2>2. U \in SUBSET T /\ sum(U) # SumFunction(f) + part(U)
    OBVIOUS
  <2>3. U # {}
    <3> SUFFICES ASSUME U = {} PROVE FALSE
      OBVIOUS
    <3>1. sum({}) = SumFunction(f)
      <4>1. [x \in S |-> IF x \in {} THEN f[x] + d[x] ELSE f[x]] = f
        BY <1>a
      <4> QED
        BY <4>1
    <3>2. part({}) = 0
      <4>1. [x \in {} |-> d[x]] \in [{} -> Int] /\ IsFiniteSet({})
        BY FS_EmptySet
      <4> QED
        BY <4>1, SumType
    <3> QED
      BY <1>1, <2>2, <3>1, <3>2
  <2>4. PICK x \in U : TRUE
    BY <2>3
  <2> DEFINE V == U \ {x}
  <2>5. V \in SUBSET T /\ V \notin bad
    BY <1>0, <2>1, <2>2, <2>4, OneLess
  <2>6. sum(V) = SumFunction(f) + part(V)
    BY <2>5
  <2> DEFINE a == [y \in S |-> IF y \in U THEN f[y] + d[y] ELSE f[y]]
             b == [y \in S |-> IF y \in V THEN f[y] + d[y] ELSE f[y]]
             p == [y \in U |-> d[y]]
             q == [y \in V |-> d[y]]
  <2>7. /\ a \in [S -> Int] /\ b \in [S -> Int] /\ p \in [U -> Int] /\ q \in [V -> Int]
        /\ x \in S /\ a[x] = f[x] + d[x] /\ b[x] = f[x] /\ p[x] = d[x]
        /\ \A y \in S \ {x} : a[y] = b[y]
        /\ \A y \in V : q[y] = p[y]
        /\ f[x] \in Int /\ d[x] \in Int
    BY <1>a, <2>2, <2>4, <2>5
  <2>8. SumFunction(p) = p[x] + SumFunction(q)
    <3>1. IsFiniteSet(U)
      BY <1>0, <2>2
    <3>2. p \in [U -> Int] /\ q \in [U \ {x} -> Int]
      BY <2>7
    <3>3. \A y \in U \ {x} : q[y] = p[y]
      BY <2>7
    <3> HIDE DEF a, b, p, q, sum, part, V, bad
    <3>4. Without(U, p, x, q)
      BY <3>1, <3>2, <3>3 DEF Without
    <3> QED
      BY <3>4, SumSplit
  <2>9. SumFunction(q) \in Int /\ SumFunction(b) \in Int
    BY <1>0, <1>a, <2>5, <2>7, SumType
  <2>10. /\ sum(U) = SumFunction(a) /\ sum(V) = SumFunction(b)
         /\ part(U) = SumFunction(p) /\ part(V) = SumFunction(q)
    <3>1. sum(U) = SumFunction(a)
      BY Zenon
    <3>2. sum(V) = SumFunction(b)
      BY Zenon
    <3>3. part(U) = SumFunction(p)
      BY Zenon
    <3>4. part(V) = SumFunction(q)
      BY Zenon
    <3> QED
      BY <3>1, <3>2, <3>3, <3>4
  <2> HIDE DEF a, b, p, q, sum, part, V, bad
  <2>11. SumFunction(a) = SumFunction(b) + a[x] - b[x]
    <3>1. a \in [S -> Int] /\ b \in [S -> Int] /\ x \in S /\ \A y \in S \ {x} : a[y] = b[y]
      BY <2>7
    <3> QED
      BY <1>a, <3>1, SumReplace
  <2> QED
    BY <1>1, <2>2, <2>6, <2>7, <2>8, <2>9, <2>10, <2>11
<1>3. sum(T) = SumFunction(f) + part(T)
  BY <1>2
<1>4. h = [x \in S |-> IF x \in T THEN f[x] + d[x] ELSE f[x]] /\ d = [x \in T |-> d[x]]
  BY <1>a DEF Raised
<1> QED
  BY <1>3, <1>4
-----------------------------------------------------------------------------
(* What the operations do to a record *)

LEMMA SizeType ==
    ASSUME NEW bag \in Bags
    PROVE  Size(bag) \in Int
<1>1. bag \in [Vertices -> Int] /\ IsFiniteSet(Vertices)
  BY CowAssumption DEF Bags
<1> QED
  BY <1>1, SumType DEF Size

LEMMA KeysFinite ==
    ASSUME NEW H \in SUBSET Vertices
    PROVE  IsFiniteSet({PreKey} \cup {LowestKey(h) : h \in H})
<1>1. IsFiniteSet(H)
  BY CowAssumption, FS_Subset
<1>2. IsFiniteSet({LowestKey(h) : h \in H})
  <2> DEFINE keys == {LowestKey(h) : h \in H}
             key == [h \in H |-> LowestKey(h)]
  <2>1. key \in Surjection(H, keys)
    BY DEF Surjection
  <2> HIDE DEF key, keys
  <2>2. IsFiniteSet(keys)
    BY <1>1, <2>1, FS_Surjection
  <2> QED
    BY <2>2 DEF keys
<1> QED
  BY <1>2, FS_AddElement, FS_Singleton, FS_Union

\* A record of the index: its blocks are in order and its degree is a number.
Kept(nb) == IsRecord(nb) /\ nb \in Records

LEMMA KeptIsRecord ==
    ASSUME NEW nb, IsRecord(nb), NEW g \in Int,
           nb = [degree |-> g, heads |-> nb.heads, tree |-> nb.tree]
    PROVE  Kept(nb)
<1>1. DOMAIN nb.tree \in SUBSET ({PreKey} \cup {LowestKey(v) : v \in Vertices})
  BY DEF IsRecord, BlocksHold
<1>2. nb.tree \in UNION {[K -> Bags] : K \in SUBSET ({PreKey} \cup {LowestKey(v) : v \in Vertices})}
  BY <1>1 DEF IsRecord
<1>3. nb.heads \in SUBSET Vertices
  BY DEF IsRecord
<1> QED
  BY <1>2, <1>3 DEF Kept, Records

LEMMA KeptFacts ==
    ASSUME NEW nb, Kept(nb)
    PROVE  IsRecord(nb) /\ nb.degree \in Int /\ nb # Absent
  BY CowAssumption DEF Kept, Records

LEMMA NewRecordKept == Kept(NewRecord) /\ NewRecord.degree = 0
<1>1. NewRecord = [degree |-> 0, heads |-> NewRecord.heads, tree |-> NewRecord.tree]
  BY DEF NewRecord
<1> QED
  BY <1>1, NewRecordHolds, KeptIsRecord

LEMMA InsertEdgeKeeps ==
    ASSUME NEW nb, Kept(nb), NEW dest \in Vertices, ~HasEdge(nb, dest)
    PROVE  /\ Kept(InsertEdge(nb, dest))
           /\ InsertEdge(nb, dest).degree = nb.degree + 1
           /\ \A d \in Vertices : HasEdge(nb, d) => HasEdge(InsertEdge(nb, dest), d)
<1> DEFINE new == InsertEdge(nb, dest)
           old == DOMAIN nb.tree
<1>0. IsRecord(nb) /\ nb.degree \in Int
  BY KeptFacts
<1>1. IsRecord(new)
  BY <1>0, InsertEdgeHolds
<1>2. new = [degree |-> nb.degree + 1, heads |-> new.heads, tree |-> new.tree]
  BY DEF InsertEdge
<1>3. Kept(new) /\ new.degree = nb.degree + 1
  <2>1. nb.degree + 1 \in Int
    BY <1>0
  <2> HIDE DEF new
  <2> QED
    BY <1>1, <1>2, <2>1, KeptIsRecord
<1>4. \A d \in Vertices : HasEdge(nb, d) => HasEdge(new, d)
  <2>1. CASE IsHead(dest)
    <3> DEFINE tree == SplitTree(nb, {dest})
    <3>1. new.tree = tree
      BY <2>1 DEF InsertEdge
    <3>2. \A d \in Vertices : Home(DOMAIN tree, d) \in DOMAIN tree
      <4> DEFINE H == {dest}
      <4>1. H \in SUBSET Vertices /\ \A h \in H : IsHead(h)
        BY <2>1
      <4> HIDE DEF H
      <4>2. \A d \in Vertices : Home(DOMAIN SplitTree(nb, H), d) \in DOMAIN SplitTree(nb, H)
        BY <1>0, <4>1, SplitHolds
      <4> QED
        BY <4>2 DEF H
    <3>3. \A d \in Vertices, k \in DOMAIN tree :
                tree[k][d] = IF Home(DOMAIN tree, d) # k THEN 0
                             ELSE IF d \in {dest} THEN 1 ELSE Count(nb, d)
      BY DEF SplitTree
    <3> HIDE DEF tree, new
    <3> QED
      BY <3>1, <3>2, <3>3 DEF HasEdge, Count
  <2>2. CASE ~IsHead(dest)
    <3>1. new.tree = [nb.tree EXCEPT ![Home(old, dest)][dest] = 1]
      BY <2>2 DEF InsertEdge
    <3>2. \A d \in Vertices : Home(old, d) \in old
      BY <1>0, RecordFacts
    <3>3. nb.tree \in [old -> Bags]
      BY <1>0 DEF IsRecord
    <3>4. ASSUME NEW d \in Vertices PROVE Count(new, d) = IF d = dest THEN 1 ELSE Count(nb, d)
      <4> HIDE DEF new
      <4> QED
        BY <3>1, <3>2, <3>3 DEF Count, Bags
    <3> QED
      BY <3>4 DEF HasEdge
  <2> QED
    BY <2>1, <2>2
<1> QED
  BY <1>3, <1>4

LEMMA EdgesAddedType ==
    ASSUME NEW nb, Kept(nb), NEW bag \in Bags
    PROVE  EdgesAdded(nb, bag) \in Int
<1> DEFINE H     == NewHeads(nb, bag)
           split == SplitTree(nb, H)
           keys  == DOMAIN split
           merged == MergedTree(split, bag)
           used  == BatchKeys(keys, bag)
<1>0. IsRecord(nb)
  BY KeptFacts
<1>1. H \in SUBSET Vertices /\ \A h \in H : IsHead(h)
  BY DEF NewHeads
<1>2. Cardinality(H) \in Nat
  BY <1>1, CowAssumption, FS_Subset, FS_CardinalityType
<1>3. keys = {PreKey} \cup {LowestKey(h) : h \in nb.heads \cup H} /\ split \in [keys -> Bags]
  BY <1>0, <1>1, SplitHolds
<1>4. nb.heads \cup H \in SUBSET Vertices
  BY <1>0, <1>1 DEF IsRecord
<1> HIDE DEF H, split
<1>5. IsFiniteSet(used) /\ used \subseteq keys
  <2>1. IsFiniteSet(keys)
    BY <1>3, <1>4, KeysFinite
  <2>2. used \subseteq keys
    BY DEF BatchKeys
  <2> QED
    BY <2>1, <2>2, FS_Subset
<1>6. ASSUME NEW k \in keys
      PROVE  /\ Size(merged[k]) \in Int
             /\ Size(split[k]) \in Int
             /\ Size(Part(keys, bag, k)) \in Int
  <2>1. Part(keys, bag, k) \in Bags /\ split[k] \in Bags
    BY <1>3 DEF Part, Bags
  <2>2. merged[k] \in Bags
    BY <1>3 DEF MergedTree, Part, Greater, Bags
  <2> HIDE DEF merged
  <2> QED
    BY <2>1, <2>2, SizeType
<1> DEFINE degree == nb.degree + Cardinality(H)
           term == [k \in used |->
                Size(merged[k]) - Size(IF Size(bag) < degree THEN Part(keys, bag, k) ELSE split[k])]
<1>7. term \in [used -> Int]
  <2>1. ASSUME NEW k \in used
        PROVE  Size(merged[k]) - Size(IF Size(bag) < degree THEN Part(keys, bag, k) ELSE split[k]) \in Int
    <3>1. /\ Size(merged[k]) \in Int
          /\ Size(IF Size(bag) < degree THEN Part(keys, bag, k) ELSE split[k]) \in Int
      BY <1>5, <1>6
    <3> QED
      BY <3>1
  <2> QED
    BY <2>1
<1>8. SumFunction(term) \in Int
  <2> HIDE DEF term, used
  <2> QED
    BY <1>5, <1>7, SumType
<1>9. EdgesAdded(nb, bag) = Cardinality(H) + SumFunction(term)
  BY DEF EdgesAdded, UnionSum, H, split
<1> QED
  BY <1>2, <1>8, <1>9

LEMMA InsertBatchKeeps ==
    ASSUME NEW nb, Kept(nb), NEW bag \in Bags
    PROVE  /\ Kept(InsertBatch(nb, bag))
           /\ InsertBatch(nb, bag).degree = nb.degree + EdgesAdded(nb, bag)
           /\ \A d \in Vertices : HasEdge(nb, d) => HasEdge(InsertBatch(nb, bag), d)
<1> DEFINE new   == InsertBatch(nb, bag)
           H     == NewHeads(nb, bag)
           split == SplitTree(nb, H)
           keys  == DOMAIN split
           tree  == MergedTree(split, bag)
<1>0. IsRecord(nb) /\ nb.degree \in Int
  BY KeptFacts
<1>1. IsRecord(new)
  BY <1>0, InsertBatchHolds
<1>2. new = [degree |-> nb.degree + EdgesAdded(nb, bag), heads |-> new.heads, tree |-> tree]
  BY DEF InsertBatch
<1>3. nb.degree + EdgesAdded(nb, bag) \in Int
  BY <1>0, EdgesAddedType
<1>4. new.tree = tree /\ new.degree = nb.degree + EdgesAdded(nb, bag)
  BY <1>2
<1>5. Kept(new)
  <2> HIDE DEF new
  <2> QED
    BY <1>1, <1>2, <1>3, <1>4, KeptIsRecord
<1>6. ASSUME NEW d \in Vertices, HasEdge(nb, d)
      PROVE  HasEdge(new, d)
  <2>1. H \in SUBSET Vertices /\ \A h \in H : IsHead(h)
    BY DEF NewHeads
  <2>2. Home(keys, d) \in keys
    BY <1>0, <2>1, SplitHolds
  <2>3. split[Home(keys, d)][d] = IF d \in H THEN 1 ELSE Count(nb, d)
    BY <2>2 DEF SplitTree
  <2>4. Count(nb, d) \in Nat /\ Count(nb, d) > 0 /\ bag[d] \in Nat
    BY <1>0, <1>6, RecordFacts DEF HasEdge, Bags
  <2> HIDE DEF split
  <2>5. /\ DOMAIN tree = keys
        /\ tree[Home(keys, d)][d] = Greater(split[Home(keys, d)][d], bag[d])
    BY <2>2 DEF MergedTree, Part
  <2>6. Count(new, d) = Greater(split[Home(keys, d)][d], bag[d])
    <3> HIDE DEF new, tree
    <3> QED
      BY <1>4, <2>5 DEF Count
  <2> HIDE DEF new
  <2> QED
    BY <2>3, <2>4, <2>6 DEF HasEdge, Greater
<1> QED
  BY <1>4, <1>5, <1>6
-----------------------------------------------------------------------------
(* The invariant *)

\* What a writer still has to insert: the rest of its call, then its other calls.
Left(x)       == IF x.pc = "countVertex" THEN Tail(x.vs) ELSE x.vs
Pending(x, c) == IF c = 0 THEN Left(x) ELSE x.calls[c].vertices

\* The vertices to come are not there yet, and each of them comes once.
Waiting ==
    \A w \in Writers : \A c \in 0..Len(writer[w].calls) : \A i \in 1..Len(Pending(writer[w], c)) :
        index[Pending(writer[w], c)[i]] = Absent

Distinct ==
    \A w, x \in Writers :
        \A c \in 0..Len(writer[w].calls), d \in 0..Len(writer[x].calls) :
            \A i \in 1..Len(Pending(writer[w], c)), j \in 1..Len(Pending(writer[x], d)) :
                Pending(writer[w], c)[i] = Pending(writer[x], d)[j] => w = x /\ c = d /\ i = j

\* By how much a counter is behind the index, at each place of a call.
VerticesBehind(x) == IF x.pc = "countVertex" THEN 1 ELSE 0
EdgesBehind(x)    == IF x.pc = "countEdge" THEN 1 ELSE IF x.pc = "batch" THEN x.added ELSE 0

Behind(m, n) ==
    /\ vertexCount + m = Cardinality(There(index))
    /\ edgeCount + n = Degrees(index)

Tally ==
    /\ \A w \in Writers : Inside(w) => Behind(VerticesBehind(writer[w]), EdgesBehind(writer[w]))
    /\ (\A w \in Writers : ~Inside(w)) => Behind(0, 0)

Numbers ==
    /\ vertexCount \in Int /\ edgeCount \in Int
    /\ \A w \in Writers : writer[w].added \in Int
    /\ \A u \in Vertices : index[u] # Absent => Kept(index[u])

CounterInv == CowInv /\ Numbers /\ Tally /\ Waiting /\ Distinct /\ NothingLost

\* No step takes a vertex or an edge out.
Grows ==
    \A u \in Vertices : index[u] # Absent =>
        index'[u] # Absent /\ \A d \in Vertices : HasEdge(index[u], d) => HasEdge(index'[u], d)

-----------------------------------------------------------------------------
(* Degrees *)

LEMMA DegreeFacts ==
    ASSUME NEW ix, \A u \in Vertices : ix[u] # Absent => Kept(ix[u])
    PROVE  /\ IsFiniteSet(There(ix)) /\ Cardinality(There(ix)) \in Nat
           /\ [u \in There(ix) |-> ix[u].degree] \in [There(ix) -> Int]
           /\ Degrees(ix) \in Int
<1>1. IsFiniteSet(There(ix)) /\ Cardinality(There(ix)) \in Nat
  BY CowAssumption, FS_Subset, FS_CardinalityType DEF There
<1>2. [u \in There(ix) |-> ix[u].degree] \in [There(ix) -> Int]
  BY KeptFacts DEF There
<1> QED
  BY <1>1, <1>2, SumType DEF Degrees

LEMMA SumOfZeros ==
    ASSUME NEW S, IsFiniteSet(S), NEW f \in [S -> Int], \A x \in S : f[x] = 0
    PROVE  SumFunction(f) = 0
<1>1. Raised(f, f, f, S, S)
  BY DEF Raised
<1> DEFINE sum == SumFunction(f)
<1>2. sum = sum + sum
  BY <1>1, SumGrows
<1>3. sum \in Int
  BY SumType
<1> HIDE DEF sum
<1>4. sum = 0
  BY <1>2, <1>3
<1> QED
  BY <1>4 DEF sum

LEMMA DegreesStay ==
    ASSUME UNCHANGED index
    PROVE  Degrees(index') = Degrees(index) /\ There(index') = There(index)
  BY DEF Degrees, There

-----------------------------------------------------------------------------
(* Pending vertices *)

LEMMA PendingType ==
    ASSUME NEW x, IsWriter(x), AtCount(x)
    PROVE  /\ Len(x.calls) \in Nat
           /\ \A c \in 0..Len(x.calls) :
                Pending(x, c) \in Seq(Vertices) /\ Len(Pending(x, c)) \in Nat
<1>1. Left(x) \in Seq(Vertices)
  BY DEF IsWriter, AtCount, Left
<1>2. ASSUME NEW c \in 1..Len(x.calls) PROVE x.calls[c].vertices \in Seq(Vertices)
  <2>1. x.calls[c] \in Call
    BY DEF IsWriter
  <2> QED
    BY <2>1 DEF Call
<1>3. Len(x.calls) \in Nat
  BY DEF IsWriter
<1>4. ASSUME NEW c \in 0..Len(x.calls) PROVE Pending(x, c) \in Seq(Vertices)
  <2>1. CASE c = 0
    BY <1>1, <2>1 DEF Pending
  <2>2. CASE c # 0
    <3>1. c \in 1..Len(x.calls)
      BY <1>3, <2>2
    <3> QED
      BY <1>2, <2>2, <3>1 DEF Pending
  <2> QED
    BY <2>1, <2>2
<1> QED
  BY <1>3, <1>4

\* A writer that moved on from x to y, by m calls or by n vertices of its call.
Moved(x, y, m, n) ==
    \A c \in 0..Len(y.calls) : \A i \in 1..Len(Pending(y, c)) :
        LET k == IF c = 0 THEN i + n ELSE i IN
        /\ c + m \in 0..Len(x.calls)
        /\ k \in 1..Len(Pending(x, c + m))
        /\ Pending(y, c)[i] = Pending(x, c + m)[k]

\* What was pending is not there after the step, except for what w has passed.
StillWaiting(w, m, n) ==
    \A v \in Writers : \A c \in 0..Len(writer[v].calls) :
        \A i \in 1..Len(Pending(writer[v], c)) :
            \/ index'[Pending(writer[v], c)[i]] = Absent
            \/ v = w /\ c = m /\ i <= n

LEMMA PendingMoves ==
    ASSUME WriterOK, Waiting, Distinct,
           NEW w \in Writers, NEW y, IsWriter(y), AtCount(y),
           writer' = [writer EXCEPT ![w] = y],
           NEW m \in Nat, NEW n \in Nat,
           Moved(writer[w], y, m, n), StillWaiting(w, m, n)
    PROVE  Waiting' /\ Distinct'
<1> DEFINE C(v, c)    == IF v = w THEN c + m ELSE c
           I(v, c, i) == IF v = w /\ c = 0 THEN i + n ELSE i
<1>1. writer'[w] = y /\ \A v \in Writers \ {w} : writer'[v] = writer[v]
  BY DEF WriterOK
<1>2. ASSUME NEW v \in Writers, NEW c \in 0..Len(writer'[v].calls),
             NEW i \in 1..Len(Pending(writer'[v], c))
      PROVE  /\ C(v, c) \in 0..Len(writer[v].calls)
             /\ I(v, c, i) \in 1..Len(Pending(writer[v], C(v, c)))
             /\ Pending(writer'[v], c)[i] = Pending(writer[v], C(v, c))[I(v, c, i)]
             /\ c \in Nat /\ i \in Nat /\ i > 0
  <2>1. CASE v = w
    <3>1. Len(y.calls) \in Nat /\ Len(Pending(y, c)) \in Nat
      BY <1>1, <2>1, PendingType
    <3> QED
      BY <1>1, <2>1, <3>1 DEF Moved
  <2>2. CASE v # w
    <3>1. writer'[v] = writer[v] /\ IsWriter(writer[v]) /\ AtCount(writer[v])
      BY <1>1, <2>2 DEF WriterOK
    <3>2. Len(writer[v].calls) \in Nat /\ Len(Pending(writer[v], c)) \in Nat
      BY <3>1, PendingType
    <3> QED
      BY <2>2, <3>1, <3>2
  <2> QED
    BY <2>1, <2>2
<1>3. ASSUME NEW v \in Writers, NEW c \in 0..Len(writer'[v].calls),
             NEW i \in 1..Len(Pending(writer'[v], c))
      PROVE  index'[Pending(writer'[v], c)[i]] = Absent
  <2>1. ~ (v = w /\ C(v, c) = m /\ I(v, c, i) <= n)
    BY <1>2
  <2> DEFINE a == C(v, c)
             k == I(v, c, i)
  <2>2. /\ a \in 0..Len(writer[v].calls) /\ k \in 1..Len(Pending(writer[v], a))
        /\ Pending(writer'[v], c)[i] = Pending(writer[v], a)[k]
        /\ ~ (v = w /\ a = m /\ k <= n)
    BY <1>2, <2>1
  <2> HIDE DEF a, k
  <2>3. index'[Pending(writer[v], a)[k]] = Absent
    BY <2>2 DEF StillWaiting
  <2> QED
    BY <2>2, <2>3
<1>4. ASSUME NEW v \in Writers, NEW x \in Writers,
             NEW c \in 0..Len(writer'[v].calls), NEW d \in 0..Len(writer'[x].calls),
             NEW i \in 1..Len(Pending(writer'[v], c)), NEW j \in 1..Len(Pending(writer'[x], d)),
             Pending(writer'[v], c)[i] = Pending(writer'[x], d)[j]
      PROVE  v = x /\ c = d /\ i = j
  <2>1. v = x /\ C(v, c) = C(x, d) /\ I(v, c, i) = I(x, d, j)
    <3>1. /\ C(v, c) \in 0..Len(writer[v].calls) /\ C(x, d) \in 0..Len(writer[x].calls)
          /\ I(v, c, i) \in 1..Len(Pending(writer[v], C(v, c)))
          /\ I(x, d, j) \in 1..Len(Pending(writer[x], C(x, d)))
          /\ Pending(writer[v], C(v, c))[I(v, c, i)] = Pending(writer[x], C(x, d))[I(x, d, j)]
      BY <1>2, <1>4
    <3> DEFINE a == C(v, c)
               b == C(x, d)
               k == I(v, c, i)
               l == I(x, d, j)
    <3> HIDE DEF C, I
    <3>2. /\ a \in 0..Len(writer[v].calls) /\ b \in 0..Len(writer[x].calls)
          /\ k \in 1..Len(Pending(writer[v], a)) /\ l \in 1..Len(Pending(writer[x], b))
          /\ Pending(writer[v], a)[k] = Pending(writer[x], b)[l]
      BY <3>1
    <3> HIDE DEF a, b, k, l
    <3>3. v = x /\ a = b /\ k = l
      BY <3>2 DEF Distinct
    <3> QED
      BY <3>3 DEF a, b, k, l
  <2>2. c \in Nat /\ d \in Nat /\ i \in Nat /\ j \in Nat
    BY <1>2
  <2>3. c = d
    BY <2>1, <2>2
  <2> QED
    BY <2>1, <2>2, <2>3
<1> QED
  BY <1>3, <1>4 DEF Waiting, Distinct

\* Most steps leave what is pending alone.
LEMMA PendingStays ==
    ASSUME WriterOK, Waiting, Distinct,
           NEW w \in Writers, NEW y, IsWriter(y), AtCount(y),
           writer' = [writer EXCEPT ![w] = y],
           y.calls = writer[w].calls, Left(y) = Left(writer[w]),
           \A u \in Vertices : index[u] = Absent => index'[u] = Absent
    PROVE  Waiting' /\ Distinct'
<1>1. \A c : Pending(y, c) = Pending(writer[w], c)
  BY DEF Pending
<1>2. ASSUME NEW c \in 0..Len(y.calls), NEW i \in 1..Len(Pending(y, c))
      PROVE  LET k == IF c = 0 THEN i + 0 ELSE i IN
             /\ c + 0 \in 0..Len(writer[w].calls)
             /\ k \in 1..Len(Pending(writer[w], c + 0))
             /\ Pending(y, c)[i] = Pending(writer[w], c + 0)[k]
  <2>1. c + 0 = c /\ i + 0 = i
    BY PendingType
  <2> QED
    BY <1>1, <2>1
<1>3. ASSUME NEW v \in Writers, NEW c \in 0..Len(writer[v].calls),
             NEW i \in 1..Len(Pending(writer[v], c))
      PROVE  index'[Pending(writer[v], c)[i]] = Absent
  <2>1. Pending(writer[v], c) \in Seq(Vertices)
    BY PendingType DEF WriterOK
  <2>2. Pending(writer[v], c)[i] \in Vertices
    BY <2>1
  <2> QED
    BY <2>2 DEF Waiting
<1>4. Moved(writer[w], y, 0, 0)
  BY <1>2 DEF Moved
<1>5. StillWaiting(w, 0, 0)
  BY <1>3 DEF StillWaiting
<1> QED
  BY <1>4, <1>5, PendingMoves

-----------------------------------------------------------------------------
(* Steps *)

\* A step inside a call, with what the counters are behind by afterwards.
LEMMA TallyStep ==
    ASSUME WriterOK, FlagHeld, NEW w \in Writers, Inside(w),
           NEW y, IsWriter(y), AtCount(y), y.pc # "idle", writer' = [writer EXCEPT ![w] = y],
           vertexCount' + VerticesBehind(y) = Cardinality(There(index')),
           edgeCount' + EdgesBehind(y) = Degrees(index')
    PROVE  Tally'
<1>1. writer'[w] = y /\ \A v \in Writers \ {w} : writer'[v] = writer[v]
  BY DEF WriterOK
<1>2. \A v \in Writers : Inside(v)' <=> v = w
  BY <1>1 DEF Inside, FlagHeld
<1>3. VerticesBehind(writer[w])' = VerticesBehind(y) /\ EdgesBehind(writer[w])' = EdgesBehind(y)
  BY <1>1 DEF VerticesBehind, EdgesBehind
<1>4. ASSUME NEW v \in Writers, Inside(v)'
      PROVE  Behind(VerticesBehind(writer[v]), EdgesBehind(writer[v]))'
  <2>1. v = w
    BY <1>2, <1>4
  <2> QED
    BY <1>3, <2>1 DEF Behind
<1> QED
  BY <1>2, <1>4 DEF Tally
\* Inside a call the counters are behind by what the writer's place says.
LEMMA BehindAt ==
    ASSUME CounterInv, NEW w \in Writers, writer[w].pc # "idle"
    PROVE  /\ Inside(w) /\ WriterOK /\ FlagHeld
           /\ IsWriter(writer[w]) /\ AtCount(writer[w])
           /\ Behind(VerticesBehind(writer[w]), EdgesBehind(writer[w]))
           /\ vertexCount \in Int /\ edgeCount \in Int /\ writer[w].added \in Int
           /\ Degrees(index) \in Int /\ Cardinality(There(index)) \in Nat
<1>1. Inside(w) /\ WriterOK /\ FlagHeld /\ Numbers /\ Tally
  BY DEF Inside, CounterInv, CowInv
<1>2. Degrees(index) \in Int /\ Cardinality(There(index)) \in Nat
  BY <1>1, DegreeFacts DEF Numbers
<1> QED
  BY <1>1, <1>2 DEF WriterOK, Tally, Numbers

\* A step inside a call that changes only how much was counted.
LEMMA CountStep ==
    ASSUME CounterInv, NEW w \in Writers, writer[w].pc # "idle",
           NEW y, IsWriter(y), AtCount(y), y.pc # "idle", writer' = [writer EXCEPT ![w] = y],
           y.calls = writer[w].calls, Left(y) = Left(writer[w]), y.added = writer[w].added,
           UNCHANGED <<index, snap>>,
           vertexCount' \in Int, edgeCount' \in Int,
           vertexCount' + VerticesBehind(y) = vertexCount + VerticesBehind(writer[w]),
           edgeCount' + EdgesBehind(y) = edgeCount + EdgesBehind(writer[w])
    PROVE  Numbers' /\ Tally' /\ Waiting' /\ Distinct' /\ NothingLost'
<1>1. /\ Inside(w) /\ WriterOK /\ FlagHeld /\ Waiting /\ Distinct /\ Numbers /\ NothingLost
      /\ Behind(VerticesBehind(writer[w]), EdgesBehind(writer[w]))
  BY BehindAt DEF CounterInv
<1>2. writer'[w] = y /\ \A v \in Writers \ {w} : writer'[v] = writer[v]
  BY <1>1 DEF WriterOK
<1>3. Numbers'
  BY <1>1, <1>2 DEF Numbers
<1>4. /\ vertexCount' + VerticesBehind(y) = Cardinality(There(index'))
      /\ edgeCount' + EdgesBehind(y) = Degrees(index')
  <2>1. Degrees(index') = Degrees(index) /\ There(index') = There(index)
    BY <1>1, DegreesStay
  <2> QED
    BY <1>1, <2>1 DEF Behind
<1>5. Tally'
  BY <1>1, <1>4, TallyStep
<1>6. Waiting' /\ Distinct'
  BY <1>1, PendingStays
<1>7. NothingLost'
  BY <1>1 DEF NothingLost, There, HasEdge, Count
<1> QED
  BY <1>3, <1>5, <1>6, <1>7

LEMMA LosesNothing ==
    ASSUME NothingLost, Grows, UNCHANGED snap
    PROVE  NothingLost'
  BY DEF NothingLost, Grows, There, HasEdge, Count

LEMMA CountVertexCounts ==
    ASSUME CounterInv, NEW w \in Writers, CountVertex(w)
    PROVE  Numbers' /\ Tally' /\ Waiting' /\ Distinct' /\ NothingLost'
<1> DEFINE y == [writer[w] EXCEPT !.pc = "commit", !.vs = Tail(writer[w].vs)]
<1>1. /\ IsWriter(writer[w]) /\ writer[w].pc = "countVertex" /\ writer[w].vs # <<>>
      /\ vertexCount \in Int /\ edgeCount \in Int
  BY BehindAt DEF AtCount, CountVertex
<1>2. IsWriter(y) /\ AtCount(y) /\ y.pc = "commit"
  BY <1>1, WriterMoves DEF PCs, AtCount
<1>3. /\ writer' = [writer EXCEPT ![w] = y] /\ UNCHANGED <<index, snap, edgeCount>>
      /\ vertexCount' = vertexCount + 1
  BY DEF CountVertex
<1>4. y.calls = writer[w].calls /\ y.vs = Tail(writer[w].vs) /\ y.added = writer[w].added
  BY <1>1 DEF IsWriter
<1> HIDE DEF y
<1>5. Left(y) = Left(writer[w])
  BY <1>1, <1>2, <1>4 DEF Left
<1>6. /\ vertexCount' + VerticesBehind(y) = vertexCount + VerticesBehind(writer[w])
      /\ edgeCount' + EdgesBehind(y) = edgeCount + EdgesBehind(writer[w])
      /\ vertexCount' \in Int /\ edgeCount' \in Int
  BY <1>1, <1>2, <1>3 DEF VerticesBehind, EdgesBehind
<1> QED
  BY <1>1, <1>2, <1>3, <1>4, <1>5, <1>6, CountStep

LEMMA CountEdgeCounts ==
    ASSUME CounterInv, NEW w \in Writers, CountEdge(w)
    PROVE  Numbers' /\ Tally' /\ Waiting' /\ Distinct' /\ NothingLost'
<1> DEFINE y == [writer[w] EXCEPT !.pc = "commit", !.es = Tail(writer[w].es)]
<1>1. /\ IsWriter(writer[w]) /\ writer[w].pc = "countEdge" /\ writer[w].es # <<>>
      /\ vertexCount \in Int /\ edgeCount \in Int
  BY BehindAt DEF AtCount, CountEdge
<1>2. IsWriter(y) /\ AtCount(y) /\ y.pc = "commit"
  BY <1>1, WriterMoves DEF PCs, AtCount
<1>3. /\ writer' = [writer EXCEPT ![w] = y] /\ UNCHANGED <<index, snap, vertexCount>>
      /\ edgeCount' = edgeCount + 1
  BY DEF CountEdge
<1>4. y.calls = writer[w].calls /\ y.vs = writer[w].vs /\ y.added = writer[w].added
  BY <1>1 DEF IsWriter
<1> HIDE DEF y
<1>5. Left(y) = Left(writer[w])
  BY <1>1, <1>2, <1>4 DEF Left
<1>6. /\ vertexCount' + VerticesBehind(y) = vertexCount + VerticesBehind(writer[w])
      /\ edgeCount' + EdgesBehind(y) = edgeCount + EdgesBehind(writer[w])
      /\ vertexCount' \in Int /\ edgeCount' \in Int
  BY <1>1, <1>2, <1>3 DEF VerticesBehind, EdgesBehind
<1> QED
  BY <1>1, <1>2, <1>3, <1>4, <1>5, <1>6, CountStep

LEMMA CountBatchCounts ==
    ASSUME CounterInv, NEW w \in Writers, CountBatch(w)
    PROVE  Numbers' /\ Tally' /\ Waiting' /\ Distinct' /\ NothingLost'
<1> DEFINE y == [writer[w] EXCEPT !.pc = "commit"]
<1>1. /\ IsWriter(writer[w]) /\ writer[w].pc = "batch"
      /\ vertexCount \in Int /\ edgeCount \in Int /\ writer[w].added \in Int
  BY BehindAt DEF CountBatch
<1>2. IsWriter(y) /\ AtCount(y) /\ y.pc = "commit"
  BY <1>1, WriterMoves DEF PCs, AtCount
<1>3. /\ writer' = [writer EXCEPT ![w] = y] /\ UNCHANGED <<index, snap, vertexCount>>
      /\ edgeCount' = edgeCount + writer[w].added
  BY DEF CountBatch
<1>4. y.calls = writer[w].calls /\ y.vs = writer[w].vs /\ y.added = writer[w].added
  BY <1>1 DEF IsWriter
<1> HIDE DEF y
<1>5. Left(y) = Left(writer[w])
  BY <1>1, <1>2, <1>4 DEF Left
<1>6. /\ vertexCount' + VerticesBehind(y) = vertexCount + VerticesBehind(writer[w])
      /\ edgeCount' + EdgesBehind(y) = edgeCount + EdgesBehind(writer[w])
      /\ vertexCount' \in Int /\ edgeCount' \in Int
  BY <1>1, <1>2, <1>3 DEF VerticesBehind, EdgesBehind
<1> QED
  BY <1>1, <1>2, <1>3, <1>4, <1>5, <1>6, CountStep

LEMMA ThrowCounts ==
    ASSUME CounterInv, NEW w \in Writers, Throw(w)
    PROVE  Numbers' /\ Tally' /\ Waiting' /\ Distinct' /\ NothingLost'
<1> DEFINE y == [writer[w] EXCEPT !.pc = "threw"]
<1>1. /\ IsWriter(writer[w]) /\ writer[w].pc = "commit"
      /\ vertexCount \in Int /\ edgeCount \in Int
  BY BehindAt DEF Throw, AtEdge
<1>2. IsWriter(y) /\ AtCount(y) /\ y.pc = "threw"
  BY <1>1, WriterMoves DEF PCs, AtCount
<1>3. /\ writer' = [writer EXCEPT ![w] = y]
      /\ UNCHANGED <<index, snap, vertexCount, edgeCount>>
  BY DEF Throw
<1>4. y.calls = writer[w].calls /\ y.vs = writer[w].vs /\ y.added = writer[w].added
  BY <1>1 DEF IsWriter
<1> HIDE DEF y
<1>5. Left(y) = Left(writer[w])
  BY <1>1, <1>2, <1>4 DEF Left
<1>6. /\ vertexCount' + VerticesBehind(y) = vertexCount + VerticesBehind(writer[w])
      /\ edgeCount' + EdgesBehind(y) = edgeCount + EdgesBehind(writer[w])
      /\ vertexCount' \in Int /\ edgeCount' \in Int
  BY <1>1, <1>2, <1>3 DEF VerticesBehind, EdgesBehind
<1> QED
  BY <1>1, <1>2, <1>3, <1>4, <1>5, <1>6, CountStep
\* Starting a call: nobody was inside, and the call leaves the queue.
LEMMA AcquireCounts ==
    ASSUME CounterInv, NEW w \in Writers, Acquire(w)
    PROVE  Numbers' /\ Tally' /\ Waiting' /\ Distinct' /\ NothingLost'
<1> DEFINE call == Head(writer[w].calls)
           y == writer'[w]
<1>1. /\ WriterOK /\ IsWriter(writer[w]) /\ writer[w].calls # <<>> /\ FlagHeld
      /\ Numbers /\ Tally /\ Waiting /\ Distinct /\ NothingLost
  BY DEF CounterInv, CowInv, WriterOK, Acquire
<1>2. call \in Call /\ call = writer[w].calls[1]
  BY <1>1 DEF IsWriter
<1>3. /\ call.vertices \in Seq(Vertices)
      /\ BothWays(call.edges) \in Seq(Edges)
      /\ BySource(call.batch) \in [Vertices -> Bags]
  BY <1>2, BothWaysType, BySourceType DEF Call
<1> HIDE DEF call
<1>4. y = [writer[w] EXCEPT !.pc = IF call.batch = <<>> THEN "commit" ELSE "batch",
                            !.calls = Tail(writer[w].calls),
                            !.vs = call.vertices, !.es = BothWays(call.edges),
                            !.batch = BySource(call.batch), !.added = 0]
  BY <1>1 DEF Acquire, call, WriterOK
<1>5. /\ writer' = [writer EXCEPT ![w] = y]
      /\ \A v \in Writers \ {w} : writer'[v] = writer[v]
      /\ UNCHANGED <<index, vertexCount, edgeCount, snap>>
      /\ \A v \in Writers : ~Inside(v)
  BY <1>1 DEF Acquire, WriterOK, FlagHeld
<1>6. Tail(writer[w].calls) \in Seq(Call)
  BY <1>1 DEF IsWriter
<1>7. /\ y.pc \in {"commit", "batch"} /\ y.added = 0
      /\ y.calls = Tail(writer[w].calls) /\ y.vs = call.vertices
  BY <1>1, <1>4 DEF IsWriter
<1> HIDE DEF y
<1>8. IsWriter(y) /\ AtCount(y)
  BY <1>1, <1>3, <1>4, <1>6 DEF IsWriter, AtCount, PCs
<1>9. Numbers'
  BY <1>1, <1>5, <1>7 DEF Numbers, y
<1>10. Tally'
  <2>1. Behind(0, 0)
    BY <1>1, <1>5 DEF Tally
  <2>2. VerticesBehind(y) = 0 /\ EdgesBehind(y) = 0
    BY <1>7 DEF VerticesBehind, EdgesBehind
  <2>3. Degrees(index') = Degrees(index) /\ There(index') = There(index)
    BY <1>1, <1>5, DegreesStay
  <2>4. Behind(0, 0)'
    BY <1>5, <2>1, <2>3 DEF Behind
  <2>5. \A v \in Writers : Inside(v)' <=> v = w
    BY <1>5, <1>7 DEF Inside, y
  <2>6. VerticesBehind(writer[w])' = 0 /\ EdgesBehind(writer[w])' = 0
    BY <2>2 DEF y, VerticesBehind, EdgesBehind
  <2>7. ASSUME NEW v \in Writers, Inside(v)'
        PROVE  Behind(VerticesBehind(writer[v]), EdgesBehind(writer[v]))'
    <3>1. v = w
      BY <2>5, <2>7
    <3> QED
      BY <2>4, <2>6, <3>1 DEF Behind
  <2> QED
    BY <2>5, <2>7 DEF Tally
<1>11. Waiting' /\ Distinct'
  <2>1. Len(writer[w].calls) \in Nat /\ Len(y.calls) = Len(writer[w].calls) - 1
        /\ Len(y.calls) \in Nat
    BY <1>1, <1>7 DEF IsWriter
  <2>2. ASSUME NEW c \in 0..Len(y.calls)
        PROVE  /\ c + 1 \in 0..Len(writer[w].calls)
               /\ Pending(y, c) = Pending(writer[w], c + 1)
    <3>1. c + 1 \in 1..Len(writer[w].calls) /\ c \in Nat /\ c + 1 # 0
      BY <2>1
    <3>2. CASE c = 0
      <4>1. Pending(y, c) = call.vertices
        BY <1>7, <3>2 DEF Pending, Left
      <4>2. Pending(writer[w], c + 1) = writer[w].calls[1].vertices
        BY <3>2 DEF Pending
      <4> QED
        BY <1>2, <3>1, <4>1, <4>2
    <3>3. CASE c # 0
      <4>1. y.calls[c] = writer[w].calls[c + 1]
        BY <1>1, <1>7, <2>1, <3>1, <3>3 DEF IsWriter
      <4> QED
        BY <3>1, <3>3, <4>1 DEF Pending
    <3> QED
      BY <3>2, <3>3
  <2>3. Moved(writer[w], y, 1, 0)
    <3> SUFFICES ASSUME NEW c \in 0..Len(y.calls), NEW i \in 1..Len(Pending(y, c))
                 PROVE  LET k == IF c = 0 THEN i + 0 ELSE i IN
                        /\ c + 1 \in 0..Len(writer[w].calls)
                        /\ k \in 1..Len(Pending(writer[w], c + 1))
                        /\ Pending(y, c)[i] = Pending(writer[w], c + 1)[k]
      BY DEF Moved
    <3>1. i + 0 = i
      BY <1>8, PendingType
    <3> QED
      BY <2>2, <3>1
  <2>4. StillWaiting(w, 1, 0)
    BY <1>1, <1>5 DEF StillWaiting, Waiting
  <2> QED
    BY <1>1, <1>5, <1>8, <2>3, <2>4, PendingMoves
<1>12. NothingLost'
  BY <1>1, <1>5 DEF NothingLost, There, HasEdge, Count
<1> QED
  BY <1>9, <1>10, <1>11, <1>12

\* Ending a call: everything was counted.
LEMMA ReleaseCounts ==
    ASSUME CounterInv, NEW w \in Writers, Release(w)
    PROVE  Numbers' /\ Tally' /\ Waiting' /\ Distinct' /\ NothingLost'
<1> DEFINE y == [writer[w] EXCEPT !.pc = "idle"]
<1>1. /\ WriterOK /\ FlagHeld /\ Numbers /\ Waiting /\ Distinct /\ NothingLost
      /\ IsWriter(writer[w]) /\ writer[w].pc = "commit" /\ Inside(w)
      /\ Behind(VerticesBehind(writer[w]), EdgesBehind(writer[w]))
  BY BehindAt DEF Release, CounterInv
<1>2. IsWriter(y) /\ AtCount(y) /\ y.pc = "idle"
  BY <1>1, WriterMoves DEF PCs, AtCount
<1>3. /\ writer' = [writer EXCEPT ![w] = y]
      /\ UNCHANGED <<index, snap, vertexCount, edgeCount>>
  BY DEF Release
<1>4. y.calls = writer[w].calls /\ y.vs = writer[w].vs /\ y.added = writer[w].added
  BY <1>1 DEF IsWriter
<1> HIDE DEF y
<1>5. writer'[w] = y /\ \A v \in Writers \ {w} : writer'[v] = writer[v]
  BY <1>1, <1>3 DEF WriterOK
<1>6. Numbers'
  BY <1>1, <1>3, <1>4, <1>5 DEF Numbers
<1>7. Tally'
  <2>1. Behind(0, 0)
    BY <1>1 DEF VerticesBehind, EdgesBehind
  <2>2. Degrees(index') = Degrees(index) /\ There(index') = There(index)
    BY <1>1, <1>3, DegreesStay
  <2>3. Behind(0, 0)'
    BY <1>3, <2>1, <2>2 DEF Behind
  <2>4. \A v \in Writers : ~Inside(v)'
    BY <1>1, <1>2, <1>5 DEF Inside, FlagHeld
  <2> QED
    BY <2>3, <2>4 DEF Tally
<1>8. Left(y) = Left(writer[w])
  BY <1>1, <1>2, <1>4 DEF Left
<1>9. Waiting' /\ Distinct'
  BY <1>1, <1>2, <1>3, <1>4, <1>8, PendingStays
<1>10. NothingLost'
  BY <1>1, <1>3 DEF NothingLost, There, HasEdge, Count
<1> QED
  BY <1>6, <1>7, <1>9, <1>10

\* A vertex that comes is new, so its record replaces none.
LEMMA PutVertexCounts ==
    ASSUME CounterInv, NEW w \in Writers, PutVertex(w)
    PROVE  Numbers' /\ Tally' /\ Waiting' /\ Distinct' /\ NothingLost'
<1> DEFINE y == [writer[w] EXCEPT !.pc = "countVertex"]
           v == Head(writer[w].vs)
<1>1. /\ WriterOK /\ FlagHeld /\ Numbers /\ Waiting /\ Distinct /\ NothingLost /\ IndexOK
      /\ IsWriter(writer[w]) /\ writer[w].pc = "commit" /\ Inside(w)
      /\ Behind(VerticesBehind(writer[w]), EdgesBehind(writer[w]))
      /\ Degrees(index) \in Int /\ Cardinality(There(index)) \in Nat
  BY BehindAt DEF PutVertex, CounterInv, CowInv
<1>a. writer[w].vs # <<>>
  BY DEF PutVertex
<1>2. IsWriter(y) /\ AtCount(y) /\ y.pc = "countVertex"
  BY <1>1, <1>a, WriterMoves DEF PCs, AtCount
<1>3. /\ writer' = [writer EXCEPT ![w] = y] /\ UNCHANGED <<snap, vertexCount, edgeCount>>
      /\ index' = [index EXCEPT ![v] = NewRecord]
  BY DEF PutVertex
<1>4. y.calls = writer[w].calls /\ y.vs = writer[w].vs /\ y.added = writer[w].added
  BY <1>1 DEF IsWriter
<1>5. writer[w].vs \in Seq(Vertices) /\ v \in Vertices /\ v = writer[w].vs[1]
  BY <1>1, <1>a DEF IsWriter
<1> HIDE DEF y, v
<1>6. /\ Pending(writer[w], 0) = writer[w].vs /\ Len(writer[w].vs) \in Nat
      /\ 1 \in 1..Len(writer[w].vs) /\ 0 \in 0..Len(writer[w].calls)
  <2>1. Len(writer[w].vs) \in Nat /\ Len(writer[w].vs) # 0
    BY <1>a, <1>5
  <2>2. Len(writer[w].calls) \in Nat
    BY <1>1 DEF IsWriter
  <2>3. Pending(writer[w], 0) = writer[w].vs
    BY <1>1 DEF Pending, Left
  <2> QED
    BY <2>1, <2>2, <2>3
<1>7. index[v] = Absent
  BY <1>1, <1>5, <1>6 DEF Waiting
<1>8. \A u \in Vertices : index'[u] = IF u = v THEN NewRecord ELSE index[u]
  BY <1>1, <1>3 DEF IndexOK
<1>9. Kept(NewRecord) /\ NewRecord.degree = 0 /\ NewRecord # Absent
  BY NewRecordKept, KeptFacts
<1>10. writer'[w] = y /\ \A x \in Writers \ {w} : writer'[x] = writer[x]
  BY <1>1, <1>3 DEF WriterOK
<1>11. Numbers'
  BY <1>1, <1>3, <1>4, <1>8, <1>9, <1>10 DEF Numbers
<1>12. There(index') = There(index) \cup {v} /\ v \notin There(index)
  BY <1>5, <1>7, <1>8, <1>9 DEF There
<1>13. Cardinality(There(index')) = Cardinality(There(index)) + 1
  <2>1. IsFiniteSet(There(index))
    BY <1>1, DegreeFacts DEF Numbers
  <2>2. Cardinality(There(index) \cup {v}) = Cardinality(There(index)) + 1
    BY <1>12, <2>1, FS_AddElement
  <2> QED
    BY <1>12, <2>2
<1>14. Degrees(index') = Degrees(index)
  <2> DEFINE S == There(index')
             f == [u \in There(index') |-> index'[u].degree]
             e == [u \in There(index) |-> index[u].degree]
  <2>1. IsFiniteSet(S) /\ f \in [S -> Int]
    BY <1>11, DegreeFacts DEF Numbers
  <2>2. v \in S /\ S \ {v} = There(index)
    BY <1>12
  <2>3. f[v] = 0 /\ \A u \in S \ {v} : e[u] = f[u]
    BY <1>5, <1>8, <1>9, <2>2 DEF There
  <2>4. e \in [S \ {v} -> Int] /\ SumFunction(e) \in Int
    BY <1>1, <2>2, DegreeFacts DEF Degrees, Numbers
  <2>5. Degrees(index') = SumFunction(f) /\ Degrees(index) = SumFunction(e)
    BY DEF Degrees
  <2> HIDE DEF S, f, e
  <2>6. SumFunction(f) = f[v] + SumFunction(e)
    <3>1. Without(S, f, v, e)
      BY <2>1, <2>2, <2>3, <2>4 DEF Without
    <3> QED
      BY <3>1, SumSplit
  <2> QED
    BY <2>3, <2>4, <2>5, <2>6
<1>15. /\ vertexCount' + VerticesBehind(y) = Cardinality(There(index'))
       /\ edgeCount' + EdgesBehind(y) = Degrees(index')
  <2>1. VerticesBehind(writer[w]) = 0 /\ EdgesBehind(writer[w]) = 0
        /\ VerticesBehind(y) = 1 /\ EdgesBehind(y) = 0
    BY <1>1, <1>2 DEF VerticesBehind, EdgesBehind
  <2>2. vertexCount \in Int /\ edgeCount \in Int
    BY <1>1 DEF Numbers
  <2> QED
    BY <1>1, <1>3, <1>13, <1>14, <2>1, <2>2 DEF Behind
<1>16. Tally'
  BY <1>1, <1>2, <1>3, <1>15, TallyStep
<1>17. Waiting' /\ Distinct'
  <2>1. Moved(writer[w], y, 0, 1)
    <3> SUFFICES ASSUME NEW c \in 0..Len(y.calls), NEW i \in 1..Len(Pending(y, c))
                 PROVE  LET k == IF c = 0 THEN i + 1 ELSE i IN
                        /\ c + 0 \in 0..Len(writer[w].calls)
                        /\ k \in 1..Len(Pending(writer[w], c + 0))
                        /\ Pending(y, c)[i] = Pending(writer[w], c + 0)[k]
      BY DEF Moved
    <3>1. c \in Nat /\ c + 0 = c
      BY <1>2, PendingType
    <3>2. CASE c = 0
      <4>1. Pending(y, c) = Tail(writer[w].vs)
        BY <1>2, <1>4, <3>2 DEF Pending, Left
      <4>2. /\ Len(Tail(writer[w].vs)) = Len(writer[w].vs) - 1
            /\ \A k \in 1..Len(Tail(writer[w].vs)) : Tail(writer[w].vs)[k] = writer[w].vs[k + 1]
        BY <1>a, <1>5
      <4>3. i \in 1..(Len(writer[w].vs) - 1) /\ Pending(y, c)[i] = writer[w].vs[i + 1]
        BY <4>1, <4>2
      <4> QED
        BY <1>4, <1>6, <3>1, <3>2, <4>3
    <3>3. CASE c # 0
      BY <1>4, <3>1, <3>3 DEF Pending
    <3> QED
      BY <3>2, <3>3
  <2>2. StillWaiting(w, 0, 1)
    <3> SUFFICES ASSUME NEW x \in Writers, NEW c \in 0..Len(writer[x].calls),
                        NEW i \in 1..Len(Pending(writer[x], c)),
                        index'[Pending(writer[x], c)[i]] # Absent
                 PROVE  x = w /\ c = 0 /\ i <= 1
      BY DEF StillWaiting
    <3> DEFINE u == Pending(writer[x], c)[i]
    <3>1. index[u] = Absent
      BY <1>1 DEF Waiting
    <3>2. u \in Vertices
      <4>1. Pending(writer[x], c) \in Seq(Vertices)
        BY <1>1, PendingType DEF WriterOK
      <4> QED
        BY <4>1
    <3>3. u = v
      BY <1>8, <3>1, <3>2
    <3>4. Pending(writer[x], c)[i] = Pending(writer[w], 0)[1]
      BY <1>5, <1>6, <3>3
    <3>5. x = w /\ c = 0 /\ i = 1
      BY <1>1, <1>6, <3>4 DEF Distinct
    <3> QED
      BY <3>5
  <2> QED
    BY <1>1, <1>2, <1>3, <2>1, <2>2, PendingMoves
<1>18. NothingLost'
  <2>1. Grows
    BY <1>7, <1>8 DEF Grows
  <2> QED
    BY <1>1, <1>3, <2>1, LosesNothing
<1> QED
  BY <1>11, <1>16, <1>17, <1>18
\* The record of u gains n edges, or rather its degree does, and loses none.
Gains(u, n) ==
    /\ Kept(index'[u])
    /\ index'[u].degree = index[u].degree + n
    /\ \A d \in Vertices : HasEdge(index[u], d) => HasEdge(index'[u], d)

\* Records that are there are replaced by records that have what they had.
LEMMA RecordsGrow ==
    ASSUME Numbers, NEW T \in SUBSET There(index), NEW n \in [T -> Int],
           \A u \in Vertices \ T : index'[u] = index[u],
           \A u \in T : Gains(u, n[u])
    PROVE  /\ There(index') = There(index)
           /\ Degrees(index') = Degrees(index) + SumFunction(n)
           /\ Grows
           /\ \A u \in Vertices : index'[u] # Absent => Kept(index'[u])
           /\ \A u \in Vertices : index[u] = Absent => index'[u] = Absent
<1> DEFINE S == There(index)
           f == [u \in There(index) |-> index[u].degree]
           h == [u \in There(index') |-> index'[u].degree]
<1>1. \A u \in T : u \in Vertices /\ index[u] # Absent /\ index'[u] # Absent
  BY KeptFacts DEF There, Gains
<1>2. S = There(index')
  BY <1>1 DEF There
<1>3. \A u \in Vertices : index'[u] # Absent => Kept(index'[u])
  BY DEF Numbers, Gains
<1>4. IsFiniteSet(S) /\ f \in [S -> Int] /\ Degrees(index) = SumFunction(f)
  BY DegreeFacts DEF Numbers, Degrees
<1>5. h \in [There(index') -> Int] /\ Degrees(index') = SumFunction(h)
  BY <1>3, DegreeFacts DEF Degrees
<1>6. \A u \in S : h[u] = IF u \in T THEN f[u] + n[u] ELSE f[u]
  BY <1>2 DEF There, Gains
<1> HIDE DEF f, h
<1>7. h \in [S -> Int]
  BY <1>2, <1>5
<1>8. T \in SUBSET S
  OBVIOUS
<1> HIDE DEF S
<1>9. SumFunction(h) = SumFunction(f) + SumFunction(n)
  <2>1. Raised(h, f, n, S, T)
    BY <1>4, <1>6, <1>7, <1>8 DEF Raised
  <2> QED
    BY <2>1, SumGrows
<1>10. Grows
  BY <1>1 DEF Grows, Gains
<1>11. \A u \in Vertices : index[u] = Absent => index'[u] = Absent
  BY <1>1
<1> QED
  BY <1>2, <1>3, <1>4, <1>5, <1>9, <1>10, <1>11 DEF S

\* update() of the index makes one edge more, which is counted next.
LEMMA PutEdgeCounts ==
    ASSUME CounterInv, NEW w \in Writers, PutEdge(w)
    PROVE  Numbers' /\ Tally' /\ Waiting' /\ Distinct' /\ NothingLost'
<1> DEFINE y == [writer[w] EXCEPT !.pc = "countEdge"]
           s == Edge(w)[1]
           d == Edge(w)[2]
           n == [u \in {s} |-> 1]
<1>1. /\ WriterOK /\ FlagHeld /\ Numbers /\ Waiting /\ Distinct /\ NothingLost /\ IndexOK
      /\ IsWriter(writer[w]) /\ writer[w].pc = "commit" /\ Inside(w)
      /\ Behind(VerticesBehind(writer[w]), EdgesBehind(writer[w]))
      /\ vertexCount \in Int /\ edgeCount \in Int /\ Degrees(index) \in Int
      /\ Cardinality(There(index)) \in Nat
  BY BehindAt DEF PutEdge, AtEdge, CounterInv, CowInv
<1>a. writer[w].es # <<>> /\ index[s] # Absent /\ ~HasEdge(index[s], d)
  BY DEF PutEdge, AtEdge, NewEdge
<1>2. IsWriter(y) /\ AtCount(y) /\ y.pc = "countEdge"
  BY <1>1, <1>a, WriterMoves DEF PCs, AtCount
<1>3. /\ writer' = [writer EXCEPT ![w] = y] /\ UNCHANGED <<snap, vertexCount, edgeCount>>
      /\ index' = [index EXCEPT ![s] = InsertEdge(index[s], d)]
  BY DEF PutEdge
<1>4. y.calls = writer[w].calls /\ y.vs = writer[w].vs /\ y.added = writer[w].added
  BY <1>1 DEF IsWriter
<1>5. s \in Vertices /\ d \in Vertices
  <2>1. Edge(w) \in Edges
    BY <1>1, <1>a DEF IsWriter, Edge
  <2> QED
    BY <2>1 DEF Edges
<1> HIDE DEF y, s, d
<1>6. Kept(index[s])
  BY <1>1, <1>5, <1>a DEF Numbers
<1>7. /\ Kept(InsertEdge(index[s], d))
      /\ InsertEdge(index[s], d).degree = index[s].degree + 1
      /\ \A x \in Vertices : HasEdge(index[s], x) => HasEdge(InsertEdge(index[s], d), x)
  BY <1>5, <1>6, <1>a, InsertEdgeKeeps
<1>8. index'[s] = InsertEdge(index[s], d) /\ \A u \in Vertices \ {s} : index'[u] = index[u]
  BY <1>1, <1>3, <1>5 DEF IndexOK
<1>9. SumFunction(n) = 1
  <2>1. IsFiniteSet({s}) /\ n \in [{s} -> Int] /\ n[s] = 1
    BY FS_Singleton
  <2> DEFINE e == [u \in {s} \ {s} |-> 0]
  <2>2. e \in [{s} \ {s} -> Int] /\ \A u \in {s} \ {s} : e[u] = n[u]
    OBVIOUS
  <2>3. {s} \ {s} = {} /\ IsFiniteSet({s} \ {s}) /\ s \in {s}
    BY FS_EmptySet
  <2> HIDE DEF n, e
  <2>4. SumFunction(n) = n[s] + SumFunction(e)
    BY <2>1, <2>2, <2>3, SumSplit DEF Without
  <2>5. SumFunction(e) = 0
    BY <2>2, <2>3, SumType
  <2> QED
    BY <2>1, <2>4, <2>5
<1>10. /\ There(index') = There(index)
       /\ Degrees(index') = Degrees(index) + SumFunction(n)
       /\ Grows
       /\ \A u \in Vertices : index'[u] # Absent => Kept(index'[u])
       /\ \A u \in Vertices : index[u] = Absent => index'[u] = Absent
  <2> DEFINE T == {s}
  <2>1. T \in SUBSET There(index) /\ n \in [T -> Int]
    BY <1>5, <1>a DEF There
  <2>2. \A u \in Vertices \ T : index'[u] = index[u]
    BY <1>8
  <2>3. \A u \in T : Gains(u, n[u])
    BY <1>7, <1>8 DEF Gains
  <2> HIDE DEF T, n
  <2> QED
    BY <1>1, <2>1, <2>2, <2>3, RecordsGrow
<1>11. writer'[w] = y /\ \A x \in Writers \ {w} : writer'[x] = writer[x]
  BY <1>1, <1>3 DEF WriterOK
<1>12. Numbers'
  BY <1>1, <1>3, <1>4, <1>10, <1>11 DEF Numbers
<1>13. /\ vertexCount' + VerticesBehind(y) = Cardinality(There(index'))
       /\ edgeCount' + EdgesBehind(y) = Degrees(index')
  <2>1. VerticesBehind(writer[w]) = 0 /\ EdgesBehind(writer[w]) = 0
        /\ VerticesBehind(y) = 0 /\ EdgesBehind(y) = 1
    BY <1>1, <1>2 DEF VerticesBehind, EdgesBehind
  <2> HIDE DEF n
  <2> QED
    BY <1>1, <1>3, <1>9, <1>10, <2>1 DEF Behind
<1>14. Tally'
  BY <1>1, <1>2, <1>3, <1>13, TallyStep
<1>15. Left(y) = Left(writer[w])
  BY <1>1, <1>2, <1>4 DEF Left
<1>16. Waiting' /\ Distinct'
  BY <1>1, <1>2, <1>3, <1>4, <1>10, <1>15, PendingStays
<1>17. NothingLost'
  BY <1>1, <1>3, <1>10, LosesNothing
<1> QED
  BY <1>12, <1>14, <1>16, <1>17

\* A batch adds to the degrees what it will add to the counter.
LEMMA BatchSourcesCounts ==
    ASSUME CounterInv, NEW w \in Writers, BatchSources(w)
    PROVE  Numbers' /\ Tally' /\ Waiting' /\ Distinct' /\ NothingLost'
<1>1. /\ WriterOK /\ FlagHeld /\ Numbers /\ Waiting /\ Distinct /\ NothingLost /\ IndexOK
      /\ IsWriter(writer[w]) /\ AtCount(writer[w]) /\ writer[w].pc = "batch" /\ Inside(w)
      /\ Behind(VerticesBehind(writer[w]), EdgesBehind(writer[w]))
      /\ vertexCount \in Int /\ edgeCount \in Int /\ Degrees(index) \in Int
      /\ writer[w].added \in Int
      /\ Cardinality(There(index)) \in Nat
  BY BehindAt DEF BatchSources, CounterInv, CowInv
<1>2. PICK S \in IF Parlay THEN {Sources(w)} ELSE {{u} : u \in Sources(w)} :
        LET there == {u \in S : index[u] # Absent} IN
        /\ index' = [u \in Vertices |->
              IF u \in there THEN InsertBatch(index[u], writer[w].batch[u]) ELSE index[u]]
        /\ writer' = [writer EXCEPT ![w] = [writer[w] EXCEPT
              !.batch = [u \in Vertices |-> IF u \in S THEN NoDests ELSE writer[w].batch[u]],
              !.added = writer[w].added + SumFunction(
                  [u \in there |-> EdgesAdded(index[u], writer[w].batch[u])])]]
  BY DEF BatchSources
<1> DEFINE T == {u \in S : index[u] # Absent}
           n == [u \in T |-> EdgesAdded(index[u], writer[w].batch[u])]
           left == [u \in Vertices |-> IF u \in S THEN NoDests ELSE writer[w].batch[u]]
           y == [writer[w] EXCEPT !.batch = left, !.added = writer[w].added + SumFunction(n)]
<1>3. /\ writer' = [writer EXCEPT ![w] = y] /\ UNCHANGED <<snap, vertexCount, edgeCount>>
      /\ index' = [u \in Vertices |->
            IF u \in T THEN InsertBatch(index[u], writer[w].batch[u]) ELSE index[u]]
  BY <1>2 DEF BatchSources
<1>4. left \in [Vertices -> Bags] /\ \A u \in Vertices : writer[w].batch[u] \in Bags
  <2>1. NoDests \in Bags
    BY DEF NoDests, Bags
  <2> QED
    BY <1>1, <2>1 DEF IsWriter
<1>5. T \in SUBSET There(index)
  <2>1. S \subseteq Vertices
    BY <1>2 DEF Sources
  <2> QED
    BY <2>1 DEF There
<1>6. \A u \in T : u \in Vertices /\ Kept(index[u]) /\ writer[w].batch[u] \in Bags
  BY <1>1, <1>4, <1>5 DEF Numbers, There
<1>7. n \in [T -> Int]
  BY <1>6, EdgesAddedType
<1>8. \A u \in T : n[u] = EdgesAdded(index[u], writer[w].batch[u])
  OBVIOUS
<1> HIDE DEF T, n, left
<1>9. IsWriter(y) /\ AtCount(y) /\ y.pc = "batch"
      /\ y.calls = writer[w].calls /\ y.vs = writer[w].vs
      /\ y.added = writer[w].added + SumFunction(n)
  BY <1>1, <1>4 DEF IsWriter, AtCount
<1> HIDE DEF y
<1>10. /\ There(index') = There(index)
       /\ Degrees(index') = Degrees(index) + SumFunction(n)
       /\ Grows
       /\ \A u \in Vertices : index'[u] # Absent => Kept(index'[u])
       /\ \A u \in Vertices : index[u] = Absent => index'[u] = Absent
  <2>1. \A u \in Vertices \ T : index'[u] = index[u]
    BY <1>3
  <2>2. \A u \in T : Gains(u, n[u])
    <3>1. \A u \in T : index'[u] = InsertBatch(index[u], writer[w].batch[u])
      BY <1>3, <1>6
    <3> QED
      BY <1>6, <1>8, <3>1, InsertBatchKeeps DEF Gains
  <2> QED
    BY <1>1, <1>5, <1>7, <2>1, <2>2, RecordsGrow
<1>11. SumFunction(n) \in Int
  <2>1. IsFiniteSet(T)
    BY <1>1, <1>5, DegreeFacts, FS_Subset DEF Numbers
  <2> QED
    BY <1>7, <2>1, SumType
<1>12. writer'[w] = y /\ \A x \in Writers \ {w} : writer'[x] = writer[x]
  BY <1>1, <1>3 DEF WriterOK
<1>13. Numbers'
  BY <1>1, <1>3, <1>9, <1>10, <1>11, <1>12 DEF Numbers
<1>14. /\ vertexCount' + VerticesBehind(y) = Cardinality(There(index'))
       /\ edgeCount' + EdgesBehind(y) = Degrees(index')
  <2>1. /\ VerticesBehind(writer[w]) = 0 /\ EdgesBehind(writer[w]) = writer[w].added
        /\ VerticesBehind(y) = 0 /\ EdgesBehind(y) = writer[w].added + SumFunction(n)
    BY <1>1, <1>9 DEF VerticesBehind, EdgesBehind
  <2> QED
    BY <1>1, <1>3, <1>10, <1>11, <2>1 DEF Behind
<1>15. Tally'
  BY <1>1, <1>3, <1>9, <1>14, TallyStep
<1>16. Left(y) = Left(writer[w])
  BY <1>1, <1>9 DEF Left
<1>17. Waiting' /\ Distinct'
  BY <1>1, <1>3, <1>9, <1>10, <1>16, PendingStays
<1>18. NothingLost'
  BY <1>1, <1>3, <1>10, LosesNothing
<1> QED
  BY <1>13, <1>15, <1>17, <1>18

\* A snapshot starts with what the index has.
LEMMA SnapshotCounts ==
    ASSUME CounterInv, NEW r \in Readers, TakeSnapshot(r)
    PROVE  NothingLost'
<1>1. /\ UNCHANGED index /\ snap' = [snap EXCEPT ![r] = index] /\ NothingLost
  BY DEF TakeSnapshot, CounterInv
<1> SUFFICES ASSUME NEW q \in Readers, snap'[q] # NoSnapshot,
                    NEW u \in There(snap'[q]), NEW d \in Vertices, HasEdge(snap'[q][u], d)
             PROVE  index[u] # Absent /\ HasEdge(index[u], d)
  BY <1>1 DEF NothingLost, HasEdge, Count, There
<1>2. CASE snap'[q] = index
  BY <1>2 DEF There
<1>3. CASE snap'[q] # index
  <2>1. snap'[q] = snap[q]
    BY <1>1, <1>3
  <2> QED
    BY <1>1, <2>1 DEF NothingLost
<1> QED
  BY <1>2, <1>3

LEMMA CounterStep ==
    ASSUME CounterInv, [Next]_vars
    PROVE  CounterInv'
<1>1. CowInv'
  BY CowStep DEF CounterInv
<1>2. ASSUME NEW w \in Writers, Write(w)
      PROVE  CounterInv'
  BY <1>1, <1>2, AcquireCounts, PutVertexCounts, CountVertexCounts, PutEdgeCounts,
     CountEdgeCounts, ThrowCounts, BatchSourcesCounts, CountBatchCounts, ReleaseCounts
     DEF Write, CounterInv
<1>3. ASSUME UNCHANGED <<index, vertexCount, edgeCount, writer>>
      PROVE  Numbers' /\ Tally' /\ Waiting' /\ Distinct'
  <2>1. Degrees(index') = Degrees(index) /\ There(index') = There(index)
    BY <1>3, DegreesStay
  <2>2. Numbers'
    BY <1>3 DEF CounterInv, Numbers
  <2>4. Waiting'
    BY <1>3 DEF CounterInv, Waiting
  <2>5. Distinct'
    BY <1>3 DEF CounterInv, Distinct
  <2>3. Tally'
    BY <1>3, <2>1 DEF CounterInv, Tally, Behind, Inside, VerticesBehind, EdgesBehind
  <2> QED
    BY <2>2, <2>3, <2>4, <2>5
<1>4. ASSUME NEW r \in Readers, TakeSnapshot(r)
      PROVE  CounterInv'
  <2>1. UNCHANGED <<index, vertexCount, edgeCount, writer>>
    BY <1>4 DEF TakeSnapshot
  <2> QED
    BY <1>1, <1>3, <1>4, <2>1, SnapshotCounts DEF CounterInv
<1>5. CASE Over \/ UNCHANGED vars
  <2>1. UNCHANGED <<index, vertexCount, edgeCount, writer, snap>>
    BY <1>5 DEF Over, vars
  <2>2. NothingLost'
    BY <2>1 DEF CounterInv, NothingLost, There, HasEdge, Count
  <2> QED
    BY <1>1, <1>3, <2>1, <2>2 DEF CounterInv
<1> QED
  BY <1>2, <1>4, <1>5 DEF Next

-----------------------------------------------------------------------------
(* Theorems *)

\* The calls that insert vertices name each vertex once, and none that was loaded:
\* so the driver calls insert_vertex, whose insert() replaces the record of a
\* vertex that is there and counts it again.
FreshVertices ==
    \A p \in Programs :
        /\ \A w \in Writers : \A c \in 1..Len(p[w]) : \A i \in 1..Len(p[w][c].vertices) :
              p[w][c].vertices[i] \notin Loaded
        /\ \A w, x \in Writers : \A c \in 1..Len(p[w]), d \in 1..Len(p[x]) :
              \A i \in 1..Len(p[w][c].vertices), j \in 1..Len(p[x][d].vertices) :
                 p[w][c].vertices[i] = p[x][d].vertices[j] => w = x /\ c = d /\ i = j

LEMMA CounterInit ==
    ASSUME FreshVertices, Init
    PROVE  CounterInv
<1>1. PICK p \in Programs :
        writer = [w \in Writers |->
            [pc |-> "idle", calls |-> p[w], vs |-> <<>>, es |-> <<>>,
             batch |-> [u \in Vertices |-> NoDests], added |-> 0]]
  BY DEF Init
<1>2. CowInv
  BY CowInit
<1>3. \A w \in Writers : /\ writer[w].pc = "idle" /\ writer[w].calls = p[w]
                         /\ writer[w].vs = <<>> /\ writer[w].added = 0
  BY <1>1
<1>4. /\ \A u \in Vertices : index[u] = IF u \in Loaded THEN NewRecord ELSE Absent
      /\ vertexCount = Cardinality(Loaded) /\ edgeCount = 0
  BY DEF Init
<1>5. Kept(NewRecord) /\ NewRecord.degree = 0 /\ NewRecord # Absent
  BY NewRecordKept, KeptFacts
<1>6. There(index) = Loaded
  BY <1>4, <1>5, CowAssumption DEF There
<1>7. \A u \in Vertices : index[u] # Absent => Kept(index[u])
  BY <1>4, <1>5
<1>8. IsFiniteSet(Loaded) /\ Cardinality(Loaded) \in Nat
  BY <1>6, <1>7, DegreeFacts
<1>9. Numbers
  BY <1>3, <1>4, <1>7, <1>8 DEF Numbers
<1>10. Degrees(index) = 0
  <2> DEFINE f == [u \in There(index) |-> index[u].degree]
  <2>1. f \in [Loaded -> Int] /\ \A u \in Loaded : f[u] = 0
    BY <1>4, <1>5, <1>6, CowAssumption
  <2>2. Degrees(index) = SumFunction(f)
    BY DEF Degrees
  <2> HIDE DEF f
  <2> QED
    BY <1>8, <2>1, <2>2, SumOfZeros
<1>11. Tally
  BY <1>3, <1>4, <1>6, <1>8, <1>10 DEF Tally, Behind, Inside
<1>12. ASSUME NEW w \in Writers, NEW c \in 0..Len(writer[w].calls),
              NEW i \in 1..Len(Pending(writer[w], c))
       PROVE  /\ c \in 1..Len(p[w]) /\ i \in 1..Len(p[w][c].vertices)
              /\ Pending(writer[w], c)[i] = p[w][c].vertices[i]
              /\ Pending(writer[w], c)[i] \in Vertices
  <2>1. Len(writer[w].calls) \in Nat /\ Pending(writer[w], c) \in Seq(Vertices)
    BY <1>2, PendingType DEF CowInv, WriterOK
  <2>2. c # 0
    <3> SUFFICES ASSUME c = 0 PROVE FALSE
      OBVIOUS
    <3>1. Pending(writer[w], 0) = <<>>
      BY <1>3 DEF Pending, Left
    <3> QED
      BY <3>1
  <2>3. Pending(writer[w], c) = p[w][c].vertices
    BY <1>3, <2>2 DEF Pending
  <2> QED
    BY <1>3, <2>1, <2>2, <2>3
<1>13. Waiting
  <2> SUFFICES ASSUME NEW w \in Writers, NEW c \in 0..Len(writer[w].calls),
                      NEW i \in 1..Len(Pending(writer[w], c))
               PROVE  index[Pending(writer[w], c)[i]] = Absent
    BY DEF Waiting
  <2> DEFINE u == Pending(writer[w], c)[i]
  <2>1. /\ c \in 1..Len(p[w]) /\ i \in 1..Len(p[w][c].vertices)
        /\ u = p[w][c].vertices[i] /\ u \in Vertices
    BY <1>12
  <2> HIDE DEF u
  <2>2. u \notin Loaded
    BY <2>1 DEF FreshVertices
  <2>3. index[u] = Absent
    BY <1>4, <2>1, <2>2
  <2> QED
    BY <2>3 DEF u
<1>14. Distinct
  <2> SUFFICES ASSUME NEW w \in Writers, NEW x \in Writers,
                      NEW c \in 0..Len(writer[w].calls), NEW d \in 0..Len(writer[x].calls),
                      NEW i \in 1..Len(Pending(writer[w], c)),
                      NEW j \in 1..Len(Pending(writer[x], d)),
                      Pending(writer[w], c)[i] = Pending(writer[x], d)[j]
               PROVE  w = x /\ c = d /\ i = j
    BY DEF Distinct
  <2>1. /\ c \in 1..Len(p[w]) /\ i \in 1..Len(p[w][c].vertices)
        /\ d \in 1..Len(p[x]) /\ j \in 1..Len(p[x][d].vertices)
        /\ p[w][c].vertices[i] = p[x][d].vertices[j]
    BY <1>12
  <2>2. \A a \in 1..Len(p[w]), b \in 1..Len(p[x]) :
           \A k \in 1..Len(p[w][a].vertices), l \in 1..Len(p[x][b].vertices) :
              p[w][a].vertices[k] = p[x][b].vertices[l] => w = x /\ a = b /\ k = l
    BY DEF FreshVertices
  <2> QED
    BY <2>1, <2>2
<1>15. NothingLost
  BY DEF Init, NothingLost
<1> QED
  BY <1>2, <1>9, <1>11, <1>13, <1>14, <1>15 DEF CounterInv

LEMMA CounterExact ==
    ASSUME CounterInv
    PROVE  CountersExact
<1>1. vertexCount \in Int /\ edgeCount \in Int /\ Tally
  BY DEF CounterInv, Numbers
<1>2. ASSUME Behind(0, 0) PROVE CountersExact
  BY <1>1, <1>2 DEF Behind, CountersExact
<1>3. ASSUME NEW w \in Writers, Inside(w) PROVE CountersExact
  <2>1. Behind(VerticesBehind(writer[w]), EdgesBehind(writer[w]))
    BY <1>1, <1>3 DEF Tally
  <2>2. writer[w].pc # "countVertex" => VerticesBehind(writer[w]) = 0
    BY DEF VerticesBehind
  <2>3. writer[w].pc \notin {"countEdge", "batch"} => EdgesBehind(writer[w]) = 0
    BY DEF EdgesBehind
  <2> QED
    BY <1>1, <2>1, <2>2, <2>3 DEF Behind, CountersExact
<1> QED
  BY <1>1, <1>2, <1>3 DEF Tally

\* Whatever the writers insert, one by one or in batches, and wherever their commits
\* fail, m_vertex_count and m_edge_count agree with the index as soon as the writer
\* that changed it has counted.
THEOREM CountersStayExact ==
    ASSUME FreshVertices
    PROVE  Spec => []CountersExact
<1>1. Init => CounterInv
  BY CounterInit
<1>2. CounterInv /\ [Next]_vars => CounterInv'
  BY CounterStep
<1>3. CounterInv => CountersExact
  BY CounterExact
<1> QED
  BY <1>1, <1>2, <1>3, PTL DEF Spec

\* No commit, failed or not, takes away a vertex or an edge that some snapshot has.
THEOREM CommitsLoseNothing ==
    ASSUME FreshVertices
    PROVE  Spec => []NothingLost
<1>1. Init => CounterInv
  BY CounterInit
<1>2. CounterInv /\ [Next]_vars => CounterInv'
  BY CounterStep
<1>3. CounterInv => NothingLost
  BY DEF CounterInv
<1> QED
  BY <1>1, <1>2, <1>3, PTL DEF Spec
=============================================================================
