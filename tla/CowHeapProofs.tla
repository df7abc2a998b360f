--------------------------- MODULE CowHeapProofs ---------------------------
(***************************************************************************)
(* Proofs about CowHeap, for every loaded search tree and every number of  *)
(* readers, if no snapshot is taken while a write runs (Quiet).            *)
(*                                                                         *)
(* Every reference lives in a place: a link of a node that is alive, the   *)
(* root, a snapshot, a record in a reader's hands, what a thread has still *)
(* to give back, or what the writer keeps between two steps of update_j.   *)
(* HeapInv says that a count is the number of places that hold the node    *)
(* (Tally), that the trees are search trees of the shape that was loaded   *)
(* (Shape), and where the writer is in its search (Path), the nodes that   *)
(* it changes in place being its own.                                      *)
(***************************************************************************)
EXTENDS CowHeap, FiniteSetTheorems, SequenceTheorems, NaturalsInduction, WellFoundedInduction, TLAPS

Nodes  == 1..NumNodes
Blocks == 1..NumBlocks

NodeRefs  == [kind : {"node"}, at : Nodes]
BlockRefs == [kind : {"block"}, at : Blocks]
Refs == NodeRefs \cup BlockRefs

Nothing == NodeRef(Null)   \* what a place holds that holds nothing

IsBelow(below) ==
    /\ below \in [Vertices \cup {Null} -> SUBSET Vertices]
    /\ below[Null] = {} /\ below[RootVertex] = Vertices
    /\ \A v \in Vertices :
          /\ below[v] = {v} \cup below[Left[v]] \cup below[Right[v]]
          /\ \A u \in below[Left[v]] : u < v
          /\ \A u \in below[Right[v]] : v < u

IsDepth(depth) ==
    /\ depth \in [Vertices -> 0..Cardinality(Vertices) - 1]
    /\ \A v \in Vertices : depth[v] = 0 <=> v = RootVertex
    /\ \A v \in Vertices, c \in Vertices :
          c \in {Left[v], Right[v]} => depth[c] = depth[v] + 1

Below == CHOOSE below : IsBelow(below)
Depth == CHOOSE depth : IsDepth(depth)

-----------------------------------------------------------------------------
(* Where the writer is *)

\* copy_if has been called for the last frame: the writer has the node it changes.
Built == writer.pc \in {"look", "put", "join"}

\* The frames whose node is still the old one.
Waiting == IF Built THEN Len(writer.stack) - 1 ELSE Len(writer.stack)

Down(x)    == IF Key < node[x].key THEN node[x].lc ELSE node[x].rc
KeyDown(k) == IF Key < k THEN Left[k] ELSE Right[k]

\* The nodes whose link down the path is given up until join() sets it.
Cut(x) ==
    \/ Built /\ x = writer.at
    \/ Built /\ Waiting > 0 /\ x = writer.stack[Waiting].a /\ ~writer.stack[Waiting].copy
    \/ writer.pc = "build" /\ writer.made # Null /\ x = Frame.a /\ ~Frame.copy

StaleLeft(x)  == Cut(x) /\ Key < node[x].key
StaleRight(x) == Cut(x) /\ node[x].key < Key

\* The nodes the writer changes in place.
Opened(x) ==
    \/ \E i \in 1..Waiting : x = writer.stack[i].a /\ ~writer.stack[i].copy
    \/ Built /\ x = writer.at

Live(x) == x \in Nodes /\ node[x].ref > 0

-----------------------------------------------------------------------------
(* The places that hold references *)

LeftOf(x)   == IF Live(x) /\ ~StaleLeft(x) THEN NodeRef(node[x].lc) ELSE Nothing
RightOf(x)  == IF Live(x) /\ ~StaleRight(x) THEN NodeRef(node[x].rc) ELSE Nothing
RecordOf(x) == IF Live(x) THEN BlockRef(node[x].nb) ELSE Nothing

\* Frame i keeps the children that do not change for the copy it is going to make.
Keeps(i) ==
    /\ i \in 1..Waiting /\ writer.stack[i].copy
    /\ i < Len(writer.stack) \/ writer.pc \in {"enter", "build"}
KeptLeft(i)  == IF Keeps(i) /\ node[writer.stack[i].a].key <= Key
                THEN NodeRef(node[writer.stack[i].a].lc) ELSE Nothing
KeptRight(i) == IF Keeps(i) /\ node[writer.stack[i].a].key = Key
                THEN NodeRef(node[writer.stack[i].a].rc) ELSE Nothing

RootHeld == writer.pc # "root" /\ (Built => Waiting > 0)
OfRoot == IF RootHeld THEN NodeRef(root) ELSE Nothing
OfAt   == IF Built THEN NodeRef(writer.at) ELSE Nothing
OfMade == IF writer.pc \in {"build", "join", "root"} THEN NodeRef(writer.made) ELSE Nothing

OfSnapshot(r) == IF Open(r) THEN NodeRef(reader[r].root) ELSE Nothing
OfPin(r)      == IF reader[r].pc = "read" THEN BlockRef(reader[r].pin) ELSE Nothing

\* Counted from the end, where nothing moves.
OfDropping(t, j) == IF j \in 1..Len(dropping[t])
                    THEN dropping[t][Len(dropping[t]) + 1 - j] ELSE Nothing

Places ==
    ({"left", "right", "record"} \X Nodes \X {0})
        \cup ({"keptleft", "keptright"} \X Nat \X {0})
        \cup ({"root", "at", "made"} \X {0} \X {0})
        \cup ({"snapshot", "pin"} \X Readers \X {0})
        \cup ({"dropping"} \X Threads \X Nat)

Pointer == [p \in Places |->
    IF p[1] = "left" THEN LeftOf(p[2])
    ELSE IF p[1] = "right" THEN RightOf(p[2])
    ELSE IF p[1] = "record" THEN RecordOf(p[2])
    ELSE IF p[1] = "keptleft" THEN KeptLeft(p[2])
    ELSE IF p[1] = "keptright" THEN KeptRight(p[2])
    ELSE IF p[1] = "root" THEN OfRoot
    ELSE IF p[1] = "at" THEN OfAt
    ELSE IF p[1] = "made" THEN OfMade
    ELSE IF p[1] = "snapshot" THEN OfSnapshot(p[2])
    ELSE IF p[1] = "pin" THEN OfPin(p[2])
    ELSE OfDropping(p[2], p[3])]

Count == [ref \in Refs |-> IF ref.kind = "node" THEN node[ref.at].ref ELSE block[ref.at].ref]

Holding(pointer, ref) == {p \in Places : pointer[p] = ref}

Counts(pointer, count) ==
    \A ref \in Refs : /\ IsFiniteSet(Holding(pointer, ref))
                      /\ count[ref] = Cardinality(Holding(pointer, ref))

-----------------------------------------------------------------------------
(* The invariant *)

HeapTypes ==
    /\ node \in [Nodes -> [key : Vertices \cup {Null}, nb : 0..NumBlocks,
                           lc : 0..NumNodes, rc : 0..NumNodes, ref : Nat]]
    /\ block \in [Blocks -> [dests : SUBSET Vertices, ref : Nat]]
    /\ root \in Nodes
    /\ dropping \in [Threads -> Seq(Refs)]

WriterTypes ==
    writer \in [pc : {"idle", "enter", "descend", "build", "look", "put", "join", "root"},
                edges : Seq(Vertices \X Vertices), at : 0..NumNodes, extra : BOOLEAN,
                stack : Seq([a : Nodes, extra : BOOLEAN, copy : BOOLEAN]),
                made : 0..NumNodes]

ReaderTypes ==
    reader \in [Readers -> [pc : {"none", "count", "open", "read"}, root : 0..NumNodes,
                            pin : 0..NumBlocks, op : ReadOps \cup {NoAnswer}]]

Types == HeapTypes /\ WriterTypes /\ ReaderTypes

\* A count is the number of places that hold the node, or the block.
Tally == Counts(Pointer, Count)

KeyOf(x) == IF x = Null THEN Null ELSE node[x].key

\* A node that is alive has a record and the children its vertex was loaded with.
Shape ==
    \A x \in Nodes : Live(x) =>
        /\ node[x].key \in Vertices /\ node[x].nb \in Blocks
        /\ ~StaleLeft(x) => KeyOf(node[x].lc) = Left[node[x].key]
        /\ ~StaleRight(x) => KeyOf(node[x].rc) = Right[node[x].key]

\* The frames are the search for Key from the root, and what is not copied is the
\* writer's alone.
FrameHolds(i) ==
    LET f == writer.stack[i] IN
    /\ Live(f.a) /\ Key \in Below[node[f.a].key] /\ Depth[node[f.a].key] = i - 1
    /\ ~f.copy => node[f.a].ref = 1
    /\ i = 1 => f.a = root
    /\ i > 1 => /\ node[writer.stack[i-1].a].key # Key
                /\ f.a = Down(writer.stack[i-1].a)

Frames ==
    /\ \A i \in 1..Waiting : FrameHolds(i)
    /\ \A i \in DOMAIN writer.stack :
          /\ writer.stack[i].extra <=> (i > 1 /\ writer.stack[i-1].copy)
          /\ writer.stack[i].extra => writer.stack[i].copy

\* The key of the vertex that the node made for the last frame has.
KeyMade == IF Waiting > 0 THEN KeyDown(node[writer.stack[Waiting].a].key) ELSE RootVertex

Path ==
    /\ writer.pc \in {"idle", "root"} => writer.stack = <<>>
    /\ writer.pc \in {"descend", "build", "look", "put", "join"} => writer.stack # <<>>
    /\ writer.pc # "idle" => writer.edges # <<>>
    /\ writer.pc \in {"enter", "descend"} => writer.made = Null
    /\ RootHeld => node[root].key = RootVertex
    /\ Frames
    /\ writer.pc = "enter" =>
          /\ writer.extra <=> (Waiting > 0 /\ Frame.copy)
          /\ IF Waiting = 0 THEN writer.at = root
             ELSE node[Frame.a].key # Key /\ writer.at = Down(Frame.a)
    /\ writer.pc = "build" =>
          /\ writer.made = Null <=> node[Frame.a].key = Key
          /\ writer.made # Null => node[writer.made].key = KeyMade
    /\ writer.pc = "root" => writer.made # Null /\ node[writer.made].key = RootVertex
    /\ Built =>
          /\ Live(writer.at) /\ node[writer.at].ref = 1
          /\ node[writer.at].key = KeyMade
          /\ Waiting > 0 => node[writer.stack[Waiting].a].key # Key
          /\ writer.made = Null <=> node[writer.at].key = Key
          /\ writer.made # Null => node[writer.made].key = KeyDown(node[writer.at].key)
          /\ writer.pc \in {"look", "put"} => node[writer.at].key = Key
    /\ writer.pc = "put" =>
          /\ dropping[Writer] = <<>>
          /\ writer.extra \/ block[node[writer.at].nb].ref = 1

\* Readers hold roots of whole trees; while one is not counted yet nobody writes.
Snapshots ==
    \A r \in Readers :
        /\ reader[r].pc = "none" => reader[r].root = Null
        /\ reader[r].pc = "count" => writer.pc = "idle" /\ reader[r].root = root
        /\ Open(r) => reader[r].root # Null /\ node[reader[r].root].key = RootVertex
        /\ reader[r].pc = "read" => /\ reader[r].pin # Null /\ reader[r].op \in ReadOps
                                    /\ dropping[r] = <<>>

HeapInv == Types /\ Tally /\ Shape /\ Path /\ Snapshots
-----------------------------------------------------------------------------
(* Sequences *)

LEMMA LastFront ==
    ASSUME NEW S, NEW s \in Seq(S), s # <<>>
    PROVE  /\ Len(s) \in Nat /\ Len(s) > 0
           /\ Last(s) = s[Len(s)] /\ Last(s) \in S
           /\ Front(s) \in Seq(S) /\ Len(Front(s)) = Len(s) - 1
           /\ \A i \in 1..Len(s) - 1 : Front(s)[i] = s[i]
<1>1. Len(s) \in Nat /\ Len(s) > 0
  OBVIOUS
<1>2. Last(s) = s[Len(s)] /\ Last(s) \in S
  BY <1>1 DEF Last
<1> DEFINE m == Len(s) - 1
<1>3. m \in Nat /\ m <= Len(s) /\ Front(s) = SubSeq(s, 1, m)
  BY <1>1 DEF Front
<1> HIDE DEF m
<1>4. /\ SubSeq(s, 1, m) \in Seq(S) /\ Len(SubSeq(s, 1, m)) = m
      /\ \A i \in 1..m : SubSeq(s, 1, m)[i] = s[i]
  BY <1>1, <1>3
<1> QED
  BY <1>1, <1>2, <1>3, <1>4 DEF m

LEMMA ItemsOf ==
    ASSUME NEW S, NEW s \in Seq(S)
    PROVE  Len(s) \in Nat /\ DOMAIN s = 1..Len(s) /\ \A i \in 1..Len(s) : s[i] \in S
OBVIOUS

LEMMA NatCases ==
    ASSUME NEW k \in Nat
    PROVE  k = 0 \/ k > 0
OBVIOUS

LEMMA OneOrMore ==
    ASSUME NEW k \in Nat, k > 0
    PROVE  k # 1 <=> k > 1
OBVIOUS

LEMMA AppendFacts ==
    ASSUME NEW S, NEW s \in Seq(S), NEW e
    PROVE  /\ Len(s) \in Nat /\ Len(Append(s, e)) = Len(s) + 1
           /\ Append(s, e)[Len(s) + 1] = e
           /\ \A i \in 1..Len(s) : Append(s, e)[i] = s[i]
           /\ e \in S => Append(s, e) \in Seq(S)
<1>1. s \in Seq(S \cup {e}) /\ e \in S \cup {e} /\ Len(s) \in Nat
  OBVIOUS
<1>2. /\ Len(Append(s, e)) = Len(s) + 1
      /\ Append(s, e)[Len(s) + 1] = e
      /\ \A i \in 1..Len(s) : Append(s, e)[i] = s[i]
  BY <1>1
<1> QED
  BY <1>1, <1>2

-----------------------------------------------------------------------------
(* The loaded tree *)

LEMMA TreeFacts == IsBelow(Below) /\ IsDepth(Depth)
<1>1. \E below : IsBelow(below)
  BY HeapAssumption DEF SearchTree, IsBelow
<1>2. \E depth : IsDepth(depth)
  BY HeapAssumption DEF SearchTree, IsDepth
<1> QED
  BY <1>1, <1>2 DEF Below, Depth

LEMMA Constants ==
    /\ Quiet \in BOOLEAN /\ Writer \notin Readers
    /\ NumNodes \in Nat /\ NumBlocks \in Nat
    /\ Vertices \subseteq Nat \ {0} /\ Null = 0 /\ Null \notin Vertices
    /\ Vertices \subseteq Nodes /\ Vertices \subseteq Blocks
    /\ RootVertex \in Vertices
    /\ Left \in [Vertices -> Vertices \cup {Null}] /\ Right \in [Vertices -> Vertices \cup {Null}]
    /\ \A op \in ReadOps : op.u \in Vertices
    /\ IsFiniteSet(Vertices) /\ Cardinality(Vertices) \in Nat
<1>1. /\ Vertices \subseteq 1..NumNodes /\ IsFiniteSet(1..NumNodes)
  BY HeapAssumption, FS_Interval
<1>2. IsFiniteSet(Vertices) /\ Cardinality(Vertices) \in Nat
  BY <1>1, FS_Subset, FS_CardinalityType
<1> QED
  BY <1>1, <1>2, HeapAssumption DEF SearchTree, Null, Nodes, Blocks

\* The search for a key goes to the child below which the key is.
LEMMA SearchGoesDown ==
    ASSUME NEW v \in Vertices, NEW k \in Below[v]
    PROVE  /\ k < v => Left[v] \in Vertices /\ k \in Below[Left[v]]
           /\ v < k => Right[v] \in Vertices /\ k \in Below[Right[v]]
           /\ k \in Vertices /\ (k = v \/ k < v \/ v < k)
<1>1. k \in {v} \cup Below[Left[v]] \cup Below[Right[v]]
  BY TreeFacts, Constants DEF IsBelow
<1>2. /\ Left[v] \in Vertices \cup {Null} /\ Right[v] \in Vertices \cup {Null}
      /\ Below[Null] = {} /\ k \in Vertices
      /\ k \in Nat /\ v \in Nat
  BY TreeFacts, Constants DEF IsBelow
<1>3. /\ k \in Below[Left[v]] => k < v
      /\ k \in Below[Right[v]] => v < k
  BY TreeFacts DEF IsBelow
<1> QED
  BY <1>1, <1>2, <1>3

\* A vertex is not both children of another.
LEMMA ChildrenDiffer ==
    ASSUME NEW v \in Vertices, Left[v] # Null, Right[v] # Null
    PROVE  Left[v] # Right[v]
<1>1. /\ Left[v] \in Vertices /\ Right[v] \in Vertices /\ v \in Nat
      /\ Left[v] \in Nat /\ Right[v] \in Nat
  BY Constants
<1>2. Left[v] \in Below[Left[v]] /\ Right[v] \in Below[Right[v]]
  BY <1>1, TreeFacts DEF IsBelow
<1>3. Left[v] < v /\ v < Right[v]
  BY <1>2, TreeFacts DEF IsBelow
<1> QED
  BY <1>1, <1>3

-----------------------------------------------------------------------------
(* Counting the places *)

LEMMA RefFacts ==
    /\ \A a \in Nodes : NodeRef(a) \in Refs
    /\ \A b \in Blocks : BlockRef(b) \in Refs
    /\ Nothing \notin Refs
    /\ \A a, b : NodeRef(a) # BlockRef(b)
    /\ \A a, b : NodeRef(a) = NodeRef(b) => a = b
    /\ \A a, b : BlockRef(a) = BlockRef(b) => a = b
    /\ \A a : NodeRef(a) \in Refs => a \in Nodes
    /\ \A b : BlockRef(b) \in Refs => b \in Blocks
    /\ \A ref \in Refs : \/ ref.kind = "node" /\ ref.at \in Nodes /\ ref = NodeRef(ref.at)
                         \/ ref.kind = "block" /\ ref.at \in Blocks /\ ref = BlockRef(ref.at)
<1>1. \A a : NodeRef(a).kind = "node" /\ NodeRef(a).at = a
  BY DEF NodeRef
<1>2. \A b : BlockRef(b).kind = "block" /\ BlockRef(b).at = b
  BY DEF BlockRef
<1>3. \A ref \in NodeRefs : ref.kind = "node" /\ ref.at \in Nodes /\ ref = NodeRef(ref.at)
  BY DEF NodeRefs, NodeRef
<1>4. \A ref \in BlockRefs : ref.kind = "block" /\ ref.at \in Blocks /\ ref = BlockRef(ref.at)
  BY DEF BlockRefs, BlockRef
<1>5. \A a \in Nodes : NodeRef(a) \in Refs
  BY DEF Refs, NodeRefs, NodeRef
<1>6. \A b \in Blocks : BlockRef(b) \in Refs
  BY DEF Refs, BlockRefs, BlockRef
<1>7. \A a, b : NodeRef(a) # BlockRef(b)
  BY <1>1, <1>2
<1>8. /\ \A a, b : NodeRef(a) = NodeRef(b) => a = b
      /\ \A a, b : BlockRef(a) = BlockRef(b) => a = b
  BY <1>1, <1>2
<1>9. \A ref \in Refs : \/ ref.kind = "node" /\ ref.at \in Nodes /\ ref = NodeRef(ref.at)
                        \/ ref.kind = "block" /\ ref.at \in Blocks /\ ref = BlockRef(ref.at)
  BY <1>3, <1>4 DEF Refs
<1>10. /\ \A a : NodeRef(a) \in Refs => a \in Nodes
       /\ \A b : BlockRef(b) \in Refs => b \in Blocks
  BY <1>1, <1>2, <1>9
<1>11. Nothing \notin Refs
  BY <1>10 DEF Nothing, Null, Nodes
<1> QED
  BY <1>5, <1>6, <1>7, <1>8, <1>9, <1>10, <1>11

\* One place is given another reference.
LEMMA Repoint ==
    ASSUME NEW f, DOMAIN f = Places, NEW c, Counts(f, c), NEW p \in Places, NEW y,
           NEW d, \A ref \in Refs : c[ref] \in Nat /\ d[ref] \in Nat,
           \A ref \in Refs : d[ref] + (IF f[p] = ref THEN 1 ELSE 0)
                            = c[ref] + (IF y = ref THEN 1 ELSE 0)
    PROVE  Counts([f EXCEPT ![p] = y], d) /\ DOMAIN [f EXCEPT ![p] = y] = Places
<1> DEFINE g == [f EXCEPT ![p] = y]
<1>1. /\ DOMAIN g = Places /\ g[p] = y
      /\ \A q \in Places : q # p => g[q] = f[q]
  OBVIOUS
<1> HIDE DEF g
<1>2. SUFFICES ASSUME NEW ref \in Refs
               PROVE  /\ IsFiniteSet(Holding(g, ref))
                      /\ d[ref] = Cardinality(Holding(g, ref))
  BY <1>1 DEF Counts, g
<1>3. IsFiniteSet(Holding(f, ref)) /\ c[ref] = Cardinality(Holding(f, ref))
  BY DEF Counts
<1>4. c[ref] \in Nat /\ d[ref] \in Nat
  OBVIOUS
<1>5. CASE f[p] = ref /\ y = ref
  <2>1. Holding(g, ref) = Holding(f, ref)
    BY <1>1, <1>5 DEF Holding
  <2> QED
    BY <2>1, <1>3, <1>4, <1>5
<1>6. CASE f[p] = ref /\ y # ref
  <2>1. Holding(g, ref) = Holding(f, ref) \ {p} /\ p \in Holding(f, ref)
    BY <1>1, <1>6 DEF Holding
  <2>2. /\ IsFiniteSet(Holding(g, ref))
        /\ Cardinality(Holding(g, ref)) = Cardinality(Holding(f, ref)) - 1
    BY <2>1, <1>3, FS_RemoveElement
  <2> QED
    BY <2>2, <1>3, <1>4, <1>6
<1>7. CASE f[p] # ref /\ y = ref
  <2>1. Holding(g, ref) = Holding(f, ref) \cup {p} /\ p \notin Holding(f, ref)
    BY <1>1, <1>7 DEF Holding
  <2>2. /\ IsFiniteSet(Holding(g, ref))
        /\ Cardinality(Holding(g, ref)) = Cardinality(Holding(f, ref)) + 1
    BY <2>1, <1>3, FS_AddElement
  <2> QED
    BY <2>2, <1>3, <1>4, <1>7
<1>8. CASE f[p] # ref /\ y # ref
  <2>1. Holding(g, ref) = Holding(f, ref)
    BY <1>1, <1>8 DEF Holding
  <2> QED
    BY <2>1, <1>3, <1>4, <1>8
<1> QED
  BY <1>5, <1>6, <1>7, <1>8

\* A reference goes from one place to another that was empty.
LEMMA Hand ==
    ASSUME NEW f, DOMAIN f = Places, NEW c, Counts(f, c), \A ref \in Refs : c[ref] \in Nat,
           NEW p \in Places, NEW q \in Places, p # q, f[q] \notin Refs
    PROVE  LET g == [[f EXCEPT ![p] = Nothing] EXCEPT ![q] = f[p]]
           IN  Counts(g, c) /\ DOMAIN g = Places
<1> DEFINE g == [[f EXCEPT ![p] = Nothing] EXCEPT ![q] = f[p]]
<1>1. /\ DOMAIN g = Places /\ g[p] = Nothing /\ g[q] = f[p]
      /\ \A x \in Places : x # p /\ x # q => g[x] = f[x]
  OBVIOUS
<1> HIDE DEF g
<1>2. SUFFICES ASSUME NEW ref \in Refs
               PROVE  /\ IsFiniteSet(Holding(g, ref))
                      /\ c[ref] = Cardinality(Holding(g, ref))
  BY <1>1 DEF Counts, g
<1>3. /\ IsFiniteSet(Holding(f, ref)) /\ c[ref] = Cardinality(Holding(f, ref))
      /\ c[ref] \in Nat /\ ref # Nothing
  BY RefFacts DEF Counts
<1>4. CASE f[p] # ref
  <2>1. Holding(g, ref) = Holding(f, ref)
    BY <1>1, <1>3, <1>4 DEF Holding
  <2> QED
    BY <2>1, <1>3
<1>5. CASE f[p] = ref
  <2>1. /\ Holding(g, ref) = (Holding(f, ref) \ {p}) \cup {q}
        /\ p \in Holding(f, ref) /\ q \notin Holding(f, ref) \ {p}
    BY <1>1, <1>3, <1>5 DEF Holding
  <2>2. /\ IsFiniteSet(Holding(f, ref) \ {p})
        /\ Cardinality(Holding(f, ref) \ {p}) = Cardinality(Holding(f, ref)) - 1
    BY <2>1, <1>3, FS_RemoveElement
  <2>3. /\ IsFiniteSet(Holding(g, ref))
        /\ Cardinality(Holding(g, ref)) = Cardinality(Holding(f, ref) \ {p}) + 1
    BY <2>1, <2>2, FS_AddElement
  <2> QED
    BY <2>2, <2>3, <1>3
<1> QED
  BY <1>4, <1>5

Plus(c, y)  == [ref \in Refs |-> IF ref = y THEN c[ref] + 1 ELSE c[ref]]
Minus(c, y) == [ref \in Refs |-> IF ref = y THEN c[ref] - 1 ELSE c[ref]]

\* An empty place is given a reference that is counted.
LEMMA Give ==
    ASSUME NEW f, DOMAIN f = Places, NEW c, Counts(f, c), \A ref \in Refs : c[ref] \in Nat,
           NEW p \in Places, f[p] \notin Refs, NEW y
    PROVE  /\ Counts([f EXCEPT ![p] = y], Plus(c, y)) /\ DOMAIN [f EXCEPT ![p] = y] = Places
           /\ \A ref \in Refs : Plus(c, y)[ref] \in Nat
<1>1. \A ref \in Refs : /\ Plus(c, y)[ref] \in Nat /\ f[p] # ref
                       /\ Plus(c, y)[ref] = IF ref = y THEN c[ref] + 1 ELSE c[ref]
  BY DEF Plus
<1>2. \A ref \in Refs : Plus(c, y)[ref] + (IF f[p] = ref THEN 1 ELSE 0)
                            = c[ref] + (IF y = ref THEN 1 ELSE 0)
  BY <1>1
<1> HIDE DEF Plus
<1> QED
  BY <1>1, <1>2, Repoint

\* A place gives its reference back.
LEMMA Take ==
    ASSUME NEW f, DOMAIN f = Places, NEW c, Counts(f, c), \A ref \in Refs : c[ref] \in Nat,
           NEW p \in Places
    PROVE  /\ Counts([f EXCEPT ![p] = Nothing], Minus(c, f[p]))
           /\ DOMAIN [f EXCEPT ![p] = Nothing] = Places
           /\ \A ref \in Refs : Minus(c, f[p])[ref] \in Nat
<1>1. ASSUME NEW ref \in Refs
      PROVE  /\ Minus(c, f[p])[ref] \in Nat /\ Nothing # ref
             /\ Minus(c, f[p])[ref] = IF ref = f[p] THEN c[ref] - 1 ELSE c[ref]
  <2>1. f[p] = ref => p \in Holding(f, ref)
    BY DEF Holding
  <2>2. IsFiniteSet(Holding(f, ref)) /\ c[ref] = Cardinality(Holding(f, ref)) /\ c[ref] \in Nat
    BY DEF Counts
  <2>3. f[p] = ref => c[ref] # 0
    BY <2>1, <2>2, FS_EmptySet
  <2> QED
    BY <2>2, <2>3, RefFacts DEF Minus
<1>2. \A ref \in Refs : Minus(c, f[p])[ref] + (IF f[p] = ref THEN 1 ELSE 0)
                            = c[ref] + (IF Nothing = ref THEN 1 ELSE 0)
  BY <1>1
<1> HIDE DEF Minus
<1> QED
  BY <1>1, <1>2, Repoint

LEMMA CountsSame ==
    ASSUME NEW f, NEW c, Counts(f, c), NEW d, \A ref \in Refs : d[ref] = c[ref]
    PROVE  Counts(f, d)
BY DEF Counts

\* What is held is counted; what is held twice is counted twice.
LEMMA HeldCounts ==
    ASSUME NEW f, NEW c, Counts(f, c), NEW ref \in Refs, c[ref] \in Nat
    PROVE  /\ \A p \in Places : f[p] = ref => c[ref] > 0
           /\ \A p, q \in Places : p # q /\ f[p] = ref /\ f[q] = ref => c[ref] > 1
           /\ c[ref] > 0 => \E p \in Places : f[p] = ref
<1>1. /\ IsFiniteSet(Holding(f, ref)) /\ c[ref] = Cardinality(Holding(f, ref))
  BY DEF Counts
<1>2. ASSUME NEW p \in Places, f[p] = ref
      PROVE  c[ref] > 0
  <2>1. p \in Holding(f, ref)
    BY <1>2 DEF Holding
  <2>2. Cardinality(Holding(f, ref)) # 0
    BY <2>1, <1>1, FS_EmptySet
  <2> QED
    BY <2>2, <1>1
<1>3. ASSUME NEW p \in Places, NEW q \in Places, p # q, f[p] = ref, f[q] = ref
      PROVE  c[ref] > 1
  <2>1. {p, q} \subseteq Holding(f, ref)
    BY <1>3 DEF Holding
  <2>2. Cardinality({p, q}) = 2
    <3>1. IsFiniteSet({p}) /\ Cardinality({p}) = 1
      BY FS_Singleton
    <3>2. q \notin {p} /\ 1 + 1 = 2
      BY <1>3
    <3>3. Cardinality({p} \cup {q}) = 2
      BY <3>1, <3>2, FS_AddElement
    <3> QED
      BY <3>3, {p, q} = {p} \cup {q}
  <2>3. Cardinality({p, q}) <= Cardinality(Holding(f, ref))
    BY <2>1, <1>1, FS_Subset
  <2> QED
    BY <2>2, <2>3, <1>1
<1>4. ASSUME c[ref] > 0
      PROVE  \E p \in Places : f[p] = ref
  <2>1. Holding(f, ref) # {}
    BY <1>1, <1>4, FS_EmptySet
  <2> QED
    BY <2>1 DEF Holding
<1> QED
  BY <1>2, <1>3, <1>4

-----------------------------------------------------------------------------
(* The places *)

LeftLink(x)      == <<"left", x, 0>>
RightLink(x)     == <<"right", x, 0>>
RecordLink(x)    == <<"record", x, 0>>
LeftKept(i)      == <<"keptleft", i, 0>>
RightKept(i)     == <<"keptright", i, 0>>
RootPlace        == <<"root", 0, 0>>
AtPlace          == <<"at", 0, 0>>
MadePlace        == <<"made", 0, 0>>
SnapshotPlace(r) == <<"snapshot", r, 0>>
PinPlace(r)      == <<"pin", r, 0>>
DropPlace(t, j)  == <<"dropping", t, j>>

LEMMA PlaceFacts ==
    /\ \A x \in Nodes : LeftLink(x) \in Places /\ RightLink(x) \in Places /\ RecordLink(x) \in Places
    /\ \A i \in Nat : LeftKept(i) \in Places /\ RightKept(i) \in Places
    /\ RootPlace \in Places /\ AtPlace \in Places /\ MadePlace \in Places
    /\ \A r \in Readers : SnapshotPlace(r) \in Places /\ PinPlace(r) \in Places
    /\ \A t \in Threads, j \in Nat : DropPlace(t, j) \in Places
<1>1. \A x \in Nodes : LeftLink(x) \in Places /\ RightLink(x) \in Places /\ RecordLink(x) \in Places
  BY DEF Places, LeftLink, RightLink, RecordLink
<1>2. \A i \in Nat : LeftKept(i) \in Places /\ RightKept(i) \in Places
  BY DEF Places, LeftKept, RightKept
<1>3. RootPlace \in Places /\ AtPlace \in Places /\ MadePlace \in Places
  BY DEF Places, RootPlace, AtPlace, MadePlace
<1>4. \A r \in Readers : SnapshotPlace(r) \in Places /\ PinPlace(r) \in Places
  BY DEF Places, SnapshotPlace, PinPlace
<1>5. \A t \in Threads, j \in Nat : DropPlace(t, j) \in Places
  BY DEF Places, DropPlace
<1> QED
  BY <1>1, <1>2, <1>3, <1>4, <1>5

\* Every place is one of those.
LEMMA PlaceCases ==
    ASSUME NEW p \in Places
    PROVE  \/ \E x \in Nodes : p \in {LeftLink(x), RightLink(x), RecordLink(x)}
           \/ \E i \in Nat : p \in {LeftKept(i), RightKept(i)}
           \/ p \in {RootPlace, AtPlace, MadePlace}
           \/ \E r \in Readers : p \in {SnapshotPlace(r), PinPlace(r)}
           \/ \E t \in Threads, j \in Nat : p = DropPlace(t, j)
<1>1. CASE p \in {"left", "right", "record"} \X Nodes \X {0}
  <2>1. PICK x \in Nodes : p = <<p[1], x, 0>> /\ p[1] \in {"left", "right", "record"}
    BY <1>1
  <2> QED
    BY <2>1 DEF LeftLink, RightLink, RecordLink
<1>2. CASE p \in {"keptleft", "keptright"} \X Nat \X {0}
  <2>1. PICK i \in Nat : p = <<p[1], i, 0>> /\ p[1] \in {"keptleft", "keptright"}
    BY <1>2
  <2> QED
    BY <2>1 DEF LeftKept, RightKept
<1>3. CASE p \in {"root", "at", "made"} \X {0} \X {0}
  BY <1>3 DEF RootPlace, AtPlace, MadePlace
<1>4. CASE p \in {"snapshot", "pin"} \X Readers \X {0}
  <2>1. PICK r \in Readers : p = <<p[1], r, 0>> /\ p[1] \in {"snapshot", "pin"}
    BY <1>4
  <2> QED
    BY <2>1 DEF SnapshotPlace, PinPlace
<1>5. CASE p \in {"dropping"} \X Threads \X Nat
  <2>1. PICK t \in Threads, j \in Nat : p = <<"dropping", t, j>>
    BY <1>5
  <2> QED
    BY <2>1 DEF DropPlace
<1> QED
  BY <1>1, <1>2, <1>3, <1>4, <1>5 DEF Places

\* They are all different.
LEMMA PlacesDiffer ==
    /\ \A x, y : /\ LeftLink(x) # RightLink(y) /\ LeftLink(x) # RecordLink(y)
                 /\ RightLink(x) # RecordLink(y)
                 /\ LeftLink(x) = LeftLink(y) => x = y
                 /\ RightLink(x) = RightLink(y) => x = y
                 /\ RecordLink(x) = RecordLink(y) => x = y
                 /\ LeftKept(x) # RightKept(y)
                 /\ LeftKept(x) = LeftKept(y) => x = y
                 /\ RightKept(x) = RightKept(y) => x = y
                 /\ SnapshotPlace(x) # PinPlace(y)
                 /\ SnapshotPlace(x) = SnapshotPlace(y) => x = y
                 /\ PinPlace(x) = PinPlace(y) => x = y
    /\ \A x, y : /\ LeftLink(x) \notin {LeftKept(y), RightKept(y), SnapshotPlace(y), PinPlace(y)}
                 /\ RightLink(x) \notin {LeftKept(y), RightKept(y), SnapshotPlace(y), PinPlace(y)}
                 /\ RecordLink(x) \notin {LeftKept(y), RightKept(y), SnapshotPlace(y), PinPlace(y)}
                 /\ LeftKept(x) \notin {SnapshotPlace(y), PinPlace(y)}
                 /\ RightKept(x) \notin {SnapshotPlace(y), PinPlace(y)}
    /\ \A x : /\ LeftLink(x) \notin {RootPlace, AtPlace, MadePlace}
              /\ RightLink(x) \notin {RootPlace, AtPlace, MadePlace}
              /\ RecordLink(x) \notin {RootPlace, AtPlace, MadePlace}
              /\ LeftKept(x) \notin {RootPlace, AtPlace, MadePlace}
              /\ RightKept(x) \notin {RootPlace, AtPlace, MadePlace}
              /\ SnapshotPlace(x) \notin {RootPlace, AtPlace, MadePlace}
              /\ PinPlace(x) \notin {RootPlace, AtPlace, MadePlace}
    /\ RootPlace # AtPlace /\ RootPlace # MadePlace /\ AtPlace # MadePlace
    /\ \A t, j, x : DropPlace(t, j) \notin {LeftLink(x), RightLink(x), RecordLink(x), LeftKept(x),
                        RightKept(x), RootPlace, AtPlace, MadePlace, SnapshotPlace(x), PinPlace(x)}
    /\ \A t, j, u, k : DropPlace(t, j) = DropPlace(u, k) => t = u /\ j = k
BY DEF LeftLink, RightLink, RecordLink, LeftKept, RightKept, RootPlace, AtPlace, MadePlace,
       SnapshotPlace, PinPlace, DropPlace


LEMMA PointerAt ==
    /\ DOMAIN Pointer = Places
    /\ \A x \in Nodes : /\ Pointer[LeftLink(x)] = LeftOf(x)
                        /\ Pointer[RightLink(x)] = RightOf(x)
                        /\ Pointer[RecordLink(x)] = RecordOf(x)
    /\ \A i \in Nat : /\ Pointer[LeftKept(i)] = KeptLeft(i)
                      /\ Pointer[RightKept(i)] = KeptRight(i)
    /\ Pointer[RootPlace] = OfRoot /\ Pointer[AtPlace] = OfAt /\ Pointer[MadePlace] = OfMade
    /\ \A r \in Readers : /\ Pointer[SnapshotPlace(r)] = OfSnapshot(r)
                          /\ Pointer[PinPlace(r)] = OfPin(r)
    /\ \A t \in Threads, j \in Nat : Pointer[DropPlace(t, j)] = OfDropping(t, j)
BY PlaceFacts DEF Pointer, LeftLink, RightLink, RecordLink, LeftKept, RightKept, RootPlace,
       AtPlace, MadePlace, SnapshotPlace, PinPlace, DropPlace

LEMMA PointerNext ==
    /\ DOMAIN Pointer' = Places
    /\ \A x \in Nodes : /\ Pointer'[LeftLink(x)] = LeftOf(x)'
                        /\ Pointer'[RightLink(x)] = RightOf(x)'
                        /\ Pointer'[RecordLink(x)] = RecordOf(x)'
    /\ \A i \in Nat : /\ Pointer'[LeftKept(i)] = KeptLeft(i)'
                      /\ Pointer'[RightKept(i)] = KeptRight(i)'
    /\ Pointer'[RootPlace] = OfRoot' /\ Pointer'[AtPlace] = OfAt' /\ Pointer'[MadePlace] = OfMade'
    /\ \A r \in Readers : /\ Pointer'[SnapshotPlace(r)] = OfSnapshot(r)'
                          /\ Pointer'[PinPlace(r)] = OfPin(r)'
    /\ \A t \in Threads, j \in Nat : Pointer'[DropPlace(t, j)] = OfDropping(t, j)'
BY PlaceFacts DEF Pointer, LeftLink, RightLink, RecordLink, LeftKept, RightKept, RootPlace,
       AtPlace, MadePlace, SnapshotPlace, PinPlace, DropPlace

\* Two functions that agree on all of them are the same.
LEMMA SamePlaces ==
    ASSUME NEW f, f = [p \in Places |-> f[p]], NEW g, g = [p \in Places |-> g[p]],
           \A x \in Nodes : /\ f[LeftLink(x)] = g[LeftLink(x)]
                            /\ f[RightLink(x)] = g[RightLink(x)]
                            /\ f[RecordLink(x)] = g[RecordLink(x)],
           \A i \in Nat : /\ f[LeftKept(i)] = g[LeftKept(i)]
                          /\ f[RightKept(i)] = g[RightKept(i)],
           f[RootPlace] = g[RootPlace], f[AtPlace] = g[AtPlace], f[MadePlace] = g[MadePlace],
           \A r \in Readers : /\ f[SnapshotPlace(r)] = g[SnapshotPlace(r)]
                              /\ f[PinPlace(r)] = g[PinPlace(r)],
           \A t \in Threads, j \in Nat : f[DropPlace(t, j)] = g[DropPlace(t, j)]
    PROVE  f = g
<1>1. ASSUME NEW p \in Places
      PROVE  f[p] = g[p]
  BY PlaceCases
<1> QED
  BY <1>1

LEMMA IsFunction ==
    /\ Pointer = [p \in Places |-> Pointer[p]] /\ Pointer' = [p \in Places |-> Pointer'[p]]
BY DEF Pointer

-----------------------------------------------------------------------------
(* What the counts say *)

LEMMA CountOf ==
    /\ \A a \in Nodes : Count[NodeRef(a)] = node[a].ref /\ Count'[NodeRef(a)] = node'[a].ref
    /\ \A b \in Blocks : Count[BlockRef(b)] = block[b].ref /\ Count'[BlockRef(b)] = block'[b].ref
<1>1. /\ \A a \in Nodes : NodeRef(a) \in Refs /\ NodeRef(a).kind = "node" /\ NodeRef(a).at = a
      /\ \A b \in Blocks : /\ BlockRef(b) \in Refs /\ BlockRef(b).kind = "block"
                           /\ BlockRef(b).at = b
  BY RefFacts DEF NodeRef, BlockRef
<1> QED
  BY <1>1 DEF Count

LEMMA CountAt ==
    /\ HeapTypes =>
          /\ \A ref \in Refs : Count[ref] \in Nat
          /\ \A a \in Nodes : Count[NodeRef(a)] = node[a].ref
          /\ \A b \in Blocks : Count[BlockRef(b)] = block[b].ref
    /\ HeapTypes' =>
          /\ \A ref \in Refs : Count'[ref] \in Nat
          /\ \A a \in Nodes : Count'[NodeRef(a)] = node'[a].ref
          /\ \A b \in Blocks : Count'[BlockRef(b)] = block'[b].ref
<1>2. /\ \A a \in Nodes : Count[NodeRef(a)] = node[a].ref
      /\ \A b \in Blocks : Count[BlockRef(b)] = block[b].ref
  BY CountOf
<1>3. /\ \A a \in Nodes : Count'[NodeRef(a)] = node'[a].ref
      /\ \A b \in Blocks : Count'[BlockRef(b)] = block'[b].ref
  BY CountOf
<1>4. HeapTypes => /\ \A a \in Nodes : node[a].ref \in Nat
                   /\ \A b \in Blocks : block[b].ref \in Nat
  BY DEF HeapTypes
<1>5. HeapTypes' => /\ \A a \in Nodes : node'[a].ref \in Nat
                    /\ \A b \in Blocks : block'[b].ref \in Nat
  BY DEF HeapTypes
<1>6. ASSUME HeapTypes, NEW ref \in Refs
      PROVE  Count[ref] \in Nat
  <2>1. CASE ref.at \in Nodes /\ ref = NodeRef(ref.at)
    BY <1>2, <1>4, <1>6, <2>1
  <2>2. CASE ref.at \in Blocks /\ ref = BlockRef(ref.at)
    BY <1>2, <1>4, <1>6, <2>2
  <2> QED
    BY <2>1, <2>2, RefFacts
<1>7. ASSUME HeapTypes', NEW ref \in Refs
      PROVE  Count'[ref] \in Nat
  <2>1. CASE ref.at \in Nodes /\ ref = NodeRef(ref.at)
    BY <1>3, <1>5, <1>7, <2>1
  <2>2. CASE ref.at \in Blocks /\ ref = BlockRef(ref.at)
    BY <1>3, <1>5, <1>7, <2>2
  <2> QED
    BY <2>1, <2>2, RefFacts
<1> QED
  BY <1>2, <1>3, <1>6, <1>7

LEMMA Held ==
    ASSUME HeapTypes, Tally
    PROVE  /\ \A a \in Nodes, p \in Places : Pointer[p] = NodeRef(a) =>
                 /\ node[a].ref > 0 /\ Live(a)
                 /\ \A q \in Places : q # p /\ Pointer[q] = NodeRef(a) => node[a].ref > 1
           /\ \A b \in Blocks, p \in Places : Pointer[p] = BlockRef(b) =>
                 /\ block[b].ref > 0
                 /\ \A q \in Places : q # p /\ Pointer[q] = BlockRef(b) => block[b].ref > 1
<1>1. ASSUME NEW a \in Nodes, NEW p \in Places, Pointer[p] = NodeRef(a)
      PROVE  /\ node[a].ref > 0 /\ Live(a)
             /\ \A q \in Places : q # p /\ Pointer[q] = NodeRef(a) => node[a].ref > 1
  <2>1. NodeRef(a) \in Refs /\ Count[NodeRef(a)] \in Nat /\ Count[NodeRef(a)] = node[a].ref
    BY CountAt, RefFacts
  <2>2. /\ Count[NodeRef(a)] > 0
        /\ \A q \in Places : q # p /\ Pointer[q] = NodeRef(a) => Count[NodeRef(a)] > 1
    BY <1>1, <2>1, HeldCounts DEF Tally
  <2> QED
    BY <2>1, <2>2 DEF Live
<1>2. ASSUME NEW b \in Blocks, NEW p \in Places, Pointer[p] = BlockRef(b)
      PROVE  /\ block[b].ref > 0
             /\ \A q \in Places : q # p /\ Pointer[q] = BlockRef(b) => block[b].ref > 1
  <2>1. BlockRef(b) \in Refs /\ Count[BlockRef(b)] \in Nat /\ Count[BlockRef(b)] = block[b].ref
    BY CountAt, RefFacts
  <2>2. /\ Count[BlockRef(b)] > 0
        /\ \A q \in Places : q # p /\ Pointer[q] = BlockRef(b) => Count[BlockRef(b)] > 1
    BY <1>2, <2>1, HeldCounts DEF Tally
  <2> QED
    BY <2>1, <2>2
<1> QED
  BY <1>1, <1>2

-----------------------------------------------------------------------------
(* Steps that move no reference *)

LEMMA BeginTally ==
    ASSUME HeapInv, NEW tx \in Txs, Begin(tx)
    PROVE  Tally'
<1>1. /\ ~Built /\ ~Built' /\ Waiting = 0 /\ Waiting' = 0
      /\ writer.pc = "idle" /\ writer'.pc = "enter"
  BY DEF HeapInv, Path, Begin, Built, Waiting, Resting
<1>2. UNCHANGED <<node, block, root, reader, dropping>>
  BY DEF Begin, heapVars
<1>3. /\ \A x \in Nodes : /\ LeftOf(x)' = LeftOf(x) /\ RightOf(x)' = RightOf(x)
                          /\ RecordOf(x)' = RecordOf(x)
  BY <1>1, <1>2 DEF LeftOf, RightOf, RecordOf, StaleLeft, StaleRight, Cut, Live
<1>4. \A i \in Nat : KeptLeft(i)' = KeptLeft(i) /\ KeptRight(i)' = KeptRight(i)
  BY <1>1, <1>2 DEF KeptLeft, KeptRight, Keeps
<1>5. OfRoot' = OfRoot /\ OfAt' = OfAt /\ OfMade' = OfMade
  BY <1>1, <1>2 DEF OfRoot, OfAt, OfMade, RootHeld
<1>6. /\ \A r \in Readers : OfSnapshot(r)' = OfSnapshot(r) /\ OfPin(r)' = OfPin(r)
      /\ \A t \in Threads, j \in Nat : OfDropping(t, j)' = OfDropping(t, j)
  BY <1>2 DEF OfSnapshot, OfPin, OfDropping, Open
<1>7. Pointer' = Pointer
  BY <1>3, <1>4, <1>5, <1>6, IsFunction, PointerAt, PointerNext, SamePlaces
<1>8. Count' = Count
  BY <1>2 DEF Count
<1> QED
  BY <1>7, <1>8 DEF HeapInv, Tally

LEMMA StackFacts ==
    ASSUME WriterTypes
    PROVE  /\ writer.stack \in Seq([a : Nodes, extra : BOOLEAN, copy : BOOLEAN])
           /\ Len(writer.stack) \in Nat /\ (writer.stack # <<>> <=> Len(writer.stack) > 0)
           /\ writer.stack # <<>> =>
                 Frame = writer.stack[Len(writer.stack)] /\ Waiting \in 0..Len(writer.stack)
           /\ \A i \in 1..Len(writer.stack) : /\ writer.stack[i].a \in Nodes
                                              /\ writer.stack[i].extra \in BOOLEAN
                                              /\ writer.stack[i].copy \in BOOLEAN
<1>1. /\ writer.stack \in Seq([a : Nodes, extra : BOOLEAN, copy : BOOLEAN])
      /\ Len(writer.stack) \in Nat /\ (writer.stack # <<>> <=> Len(writer.stack) > 0)
  BY DEF WriterTypes
<1>2. \A i \in 1..Len(writer.stack) : writer.stack[i] \in [a : Nodes, extra : BOOLEAN, copy : BOOLEAN]
  BY <1>1, ItemsOf
<1>3. ASSUME writer.stack # <<>>
      PROVE  Frame = writer.stack[Len(writer.stack)] /\ Waiting \in 0..Len(writer.stack)
  BY <1>1, <1>3 DEF Frame, Last, Waiting
<1> QED
  BY <1>1, <1>2, <1>3

LEMMA EnterTally ==
    ASSUME HeapInv, Enter
    PROVE  Tally'
<1>1. /\ ~Built /\ ~Built' /\ Waiting = Len(writer.stack) /\ Waiting' = Waiting + 1
      /\ Waiting \in Nat
      /\ writer.pc = "enter" /\ writer'.pc = "descend"
      /\ \A i \in 1..Waiting : writer'.stack[i] = writer.stack[i]
      /\ Len(writer'.stack) = Waiting + 1 /\ UNCHANGED Key
  <2>1. writer' = [writer EXCEPT !.pc = "descend", !.stack = Append(writer.stack,
            [a |-> writer.at, extra |-> writer.extra,
             copy |-> writer.extra \/ node[writer.at].ref > 1])]
    BY DEF Enter
  <2>2. WriterTypes /\ writer.pc = "enter"
    BY DEF HeapInv, Types, Enter
  <2>3. /\ writer'.pc = "descend" /\ writer'.edges = writer.edges
        /\ writer'.stack = Append(writer.stack,
            [a |-> writer.at, extra |-> writer.extra,
             copy |-> writer.extra \/ node[writer.at].ref > 1])
    BY <2>1, <2>2 DEF WriterTypes
  <2>4. /\ Len(writer'.stack) = Len(writer.stack) + 1
        /\ \A i \in 1..Len(writer.stack) : writer'.stack[i] = writer.stack[i]
    BY <2>2, <2>3, StackFacts, AppendFacts
  <2> QED
    BY <2>2, <2>3, <2>4, StackFacts DEF Built, Waiting, Key
<1>2. UNCHANGED <<node, block, root, reader, dropping>>
  BY DEF Enter, heapVars
<1>3. /\ \A x \in Nodes : /\ LeftOf(x)' = LeftOf(x) /\ RightOf(x)' = RightOf(x)
                          /\ RecordOf(x)' = RecordOf(x)
  BY <1>1, <1>2 DEF LeftOf, RightOf, RecordOf, StaleLeft, StaleRight, Cut, Live
<1>4. \A i \in Nat : /\ Keeps(i)' <=> Keeps(i)
                     /\ Keeps(i) => i \in 1..Waiting
  BY <1>1, <1>2 DEF Keeps
<1>5. \A i \in Nat : KeptLeft(i)' = KeptLeft(i) /\ KeptRight(i)' = KeptRight(i)
  BY <1>1, <1>2, <1>4 DEF KeptLeft, KeptRight
<1>6. OfRoot' = OfRoot /\ OfAt' = OfAt /\ OfMade' = OfMade
  BY <1>1, <1>2 DEF OfRoot, OfAt, OfMade, RootHeld
<1>7. /\ \A r \in Readers : OfSnapshot(r)' = OfSnapshot(r) /\ OfPin(r)' = OfPin(r)
      /\ \A t \in Threads, j \in Nat : OfDropping(t, j)' = OfDropping(t, j)
  BY <1>2 DEF OfSnapshot, OfPin, OfDropping, Open
<1>8. Pointer' = Pointer
  BY <1>3, <1>5, <1>6, <1>7, IsFunction, PointerAt, PointerNext, SamePlaces
<1>9. Count' = Count
  BY <1>2 DEF Count
<1> QED
  BY <1>8, <1>9 DEF HeapInv, Tally

LEMMA LookTally ==
    ASSUME HeapInv, Look
    PROVE  Tally'
<1>1. /\ writer' = [writer EXCEPT !.pc = "put",
                                  !.extra = block[node[writer.at].nb].ref > 1]
      /\ WriterTypes /\ writer.pc = "look"
  BY DEF HeapInv, Types, Look
<1>2. /\ writer'.pc = "put" /\ UNCHANGED <<writer.edges, writer.at, writer.stack, writer.made>>
  BY <1>1 DEF WriterTypes
<1>3. /\ Built /\ Built' /\ Waiting' = Waiting /\ UNCHANGED Key
      /\ UNCHANGED <<node, block, root, reader, dropping>>
  BY <1>1, <1>2 DEF Built, Waiting, Key, Look, heapVars
<1>4. /\ \A x \in Nodes : /\ LeftOf(x)' = LeftOf(x) /\ RightOf(x)' = RightOf(x)
                          /\ RecordOf(x)' = RecordOf(x)
  BY <1>1, <1>2, <1>3 DEF LeftOf, RightOf, RecordOf, StaleLeft, StaleRight, Cut, Live
<1>5. \A i \in Nat : KeptLeft(i)' = KeptLeft(i) /\ KeptRight(i)' = KeptRight(i)
  BY <1>1, <1>2, <1>3 DEF KeptLeft, KeptRight, Keeps
<1>6. OfRoot' = OfRoot /\ OfAt' = OfAt /\ OfMade' = OfMade
  BY <1>1, <1>2, <1>3 DEF OfRoot, OfAt, OfMade, RootHeld
<1>7. /\ \A r \in Readers : OfSnapshot(r)' = OfSnapshot(r) /\ OfPin(r)' = OfPin(r)
      /\ \A t \in Threads, j \in Nat : OfDropping(t, j)' = OfDropping(t, j)
  BY <1>3 DEF OfSnapshot, OfPin, OfDropping, Open
<1>8. Pointer' = Pointer
  BY <1>4, <1>5, <1>6, <1>7, IsFunction, PointerAt, PointerNext, SamePlaces
<1>9. Count' = Count
  BY <1>3 DEF Count
<1> QED
  BY <1>8, <1>9 DEF HeapInv, Tally

-----------------------------------------------------------------------------
(* What the invariant says of the links *)

LEMMA NodeTypes ==
    ASSUME HeapTypes, NEW x \in Nodes
    PROVE  /\ node[x].key \in Vertices \cup {Null} /\ node[x].nb \in 0..NumBlocks
           /\ node[x].lc \in Nodes \cup {Null} /\ node[x].rc \in Nodes \cup {Null}
           /\ node[x].ref \in Nat /\ x \in DOMAIN node
           /\ node[x] = [key |-> node[x].key, nb |-> node[x].nb, lc |-> node[x].lc,
                         rc |-> node[x].rc, ref |-> node[x].ref]
<1>1. node[x] \in [key : Vertices \cup {Null}, nb : 0..NumBlocks,
                   lc : 0..NumNodes, rc : 0..NumNodes, ref : Nat]
  BY DEF HeapTypes
<1> QED
  BY <1>1, Constants DEF Nodes, HeapTypes

\* The links of a node that is alive, unless they are stale, lead to different nodes that
\* are alive, and have the vertices it was loaded with.
LEMMA Links ==
    ASSUME HeapTypes, Tally, Shape, NEW x \in Nodes, Live(x)
    PROVE  /\ node[x].key \in Vertices
           /\ ~StaleLeft(x) /\ node[x].lc # Null =>
                 /\ node[x].lc \in Nodes /\ Live(node[x].lc)
                 /\ Pointer[LeftLink(x)] = NodeRef(node[x].lc)
                 /\ node[node[x].lc].key = Left[node[x].key] /\ Left[node[x].key] \in Vertices
           /\ ~StaleRight(x) /\ node[x].rc # Null =>
                 /\ node[x].rc \in Nodes /\ Live(node[x].rc)
                 /\ Pointer[RightLink(x)] = NodeRef(node[x].rc)
                 /\ node[node[x].rc].key = Right[node[x].key] /\ Right[node[x].key] \in Vertices
           /\ ~StaleLeft(x) /\ (node[x].lc = Null) => Left[node[x].key] = Null
           /\ ~StaleRight(x) /\ (node[x].rc = Null) => Right[node[x].key] = Null
           /\ ~StaleLeft(x) /\ ~StaleRight(x) /\ node[x].lc # Null => node[x].lc # node[x].rc
           /\ node[x].nb \in Blocks /\ block[node[x].nb].ref > 0
           /\ Pointer[RecordLink(x)] = BlockRef(node[x].nb)
<1>1. node[x].key \in Vertices /\ node[x].nb \in Blocks
  BY DEF Shape
<1>2. ASSUME ~StaleLeft(x), node[x].lc # Null
      PROVE  /\ node[x].lc \in Nodes /\ Live(node[x].lc)
             /\ Pointer[LeftLink(x)] = NodeRef(node[x].lc)
             /\ node[node[x].lc].key = Left[node[x].key] /\ Left[node[x].key] \in Vertices
  <2>1. node[x].lc \in Nodes
    BY <1>2, NodeTypes
  <2>2. Pointer[LeftLink(x)] = NodeRef(node[x].lc) /\ LeftLink(x) \in Places
    BY <1>2, PointerAt, PlaceFacts DEF LeftOf
  <2>3. Live(node[x].lc)
    BY <2>1, <2>2, Held
  <2>4. node[node[x].lc].key \in Vertices
    BY <2>1, <2>3 DEF Shape
  <2>5. node[node[x].lc].key = Left[node[x].key]
    BY <1>2 DEF Shape, KeyOf
  <2> QED
    BY <2>1, <2>2, <2>3, <2>4, <2>5
<1>3. ASSUME ~StaleRight(x), node[x].rc # Null
      PROVE  /\ node[x].rc \in Nodes /\ Live(node[x].rc)
             /\ Pointer[RightLink(x)] = NodeRef(node[x].rc)
             /\ node[node[x].rc].key = Right[node[x].key] /\ Right[node[x].key] \in Vertices
  <2>1. node[x].rc \in Nodes
    BY <1>3, NodeTypes
  <2>2. Pointer[RightLink(x)] = NodeRef(node[x].rc) /\ RightLink(x) \in Places
    BY <1>3, PointerAt, PlaceFacts DEF RightOf
  <2>3. Live(node[x].rc)
    BY <2>1, <2>2, Held
  <2>4. node[node[x].rc].key \in Vertices
    BY <2>1, <2>3 DEF Shape
  <2>5. node[node[x].rc].key = Right[node[x].key]
    BY <1>3 DEF Shape, KeyOf
  <2> QED
    BY <2>1, <2>2, <2>3, <2>4, <2>5
<1>4. /\ ~StaleLeft(x) /\ (node[x].lc = Null) => Left[node[x].key] = Null
      /\ ~StaleRight(x) /\ (node[x].rc = Null) => Right[node[x].key] = Null
  BY DEF Shape, KeyOf
<1>5. ASSUME ~StaleLeft(x), ~StaleRight(x), node[x].lc # Null
      PROVE  node[x].lc # node[x].rc
  <2>1. SUFFICES ASSUME node[x].lc = node[x].rc
                 PROVE  FALSE
    OBVIOUS
  <2>2. Left[node[x].key] = Right[node[x].key] /\ Left[node[x].key] \in Vertices
    BY <1>2, <1>3, <1>5, <2>1
  <2> QED
    BY <1>1, <2>2, ChildrenDiffer, Constants
<1>6. Pointer[RecordLink(x)] = BlockRef(node[x].nb) /\ RecordLink(x) \in Places
  BY PointerAt, PlaceFacts DEF RecordOf
<1>7. block[node[x].nb].ref > 0
  BY <1>1, <1>6, Held
<1> QED
  BY <1>1, <1>2, <1>3, <1>4, <1>5, <1>6, <1>7

\* Counting the members of a set once more changes nothing else.
LEMMA IncrementedFacts ==
    ASSUME HeapTypes, NEW S
    PROVE  /\ Incremented(node, S) \in
                 [Nodes -> [key : Vertices \cup {Null}, nb : 0..NumBlocks,
                            lc : 0..NumNodes, rc : 0..NumNodes, ref : Nat]]
           /\ \A x \in Nodes :
                 /\ Incremented(node, S)[x].key = node[x].key
                 /\ Incremented(node, S)[x].nb = node[x].nb
                 /\ Incremented(node, S)[x].lc = node[x].lc
                 /\ Incremented(node, S)[x].rc = node[x].rc
                 /\ Incremented(node, S)[x].ref = node[x].ref + (IF x \in S THEN 1 ELSE 0)
<1>1. ASSUME NEW x \in Nodes
      PROVE  LET n == Incremented(node, S)[x] IN
             /\ n \in [key : Vertices \cup {Null}, nb : 0..NumBlocks,
                       lc : 0..NumNodes, rc : 0..NumNodes, ref : Nat]
             /\ n.key = node[x].key /\ n.nb = node[x].nb
             /\ n.lc = node[x].lc /\ n.rc = node[x].rc
             /\ n.ref = node[x].ref + (IF x \in S THEN 1 ELSE 0)
  <2>1. node[x] \in [key : Vertices \cup {Null}, nb : 0..NumBlocks,
                     lc : 0..NumNodes, rc : 0..NumNodes, ref : Nat] /\ x \in DOMAIN node
    BY DEF HeapTypes
  <2>2. Incremented(node, S)[x] = IF x \in S THEN [node[x] EXCEPT !.ref = node[x].ref + 1] ELSE node[x]
    BY <2>1 DEF Incremented
  <2> QED
    BY <2>1, <2>2
<1>2. Incremented(node, S) = [x \in Nodes |-> Incremented(node, S)[x]]
  BY DEF Incremented, HeapTypes
<1> QED
  BY <1>1, <1>2

\* Where the reference to the node of frame i is: at the root, or in the link of the
\* frame before, which leads down the search.
Holder(i) == IF i = 1 THEN RootPlace
             ELSE IF Key < node[writer.stack[i-1].a].key THEN LeftLink(writer.stack[i-1].a)
             ELSE RightLink(writer.stack[i-1].a)

LEMMA KeyFacts ==
    ASSUME WriterTypes, writer.edges # <<>>
    PROVE  Key \in Vertices /\ Dest \in Vertices /\ Key \in Nat
<1>1. Head(writer.edges) \in Vertices \X Vertices
  BY DEF WriterTypes
<1> QED
  BY <1>1, Constants DEF Key, Dest

LEMMA FrameFacts ==
    ASSUME HeapInv, NEW i \in 1..Waiting
    PROVE  /\ i \in Nat /\ i > 0 /\ i <= Len(writer.stack) /\ Waiting \in Nat
           /\ writer.stack[i].a \in Nodes /\ Live(writer.stack[i].a)
           /\ node[writer.stack[i].a].key \in Vertices
           /\ Key \in Below[node[writer.stack[i].a].key]
           /\ Depth[node[writer.stack[i].a].key] = i - 1
           /\ ~writer.stack[i].copy => node[writer.stack[i].a].ref = 1
           /\ i > 1 => /\ i - 1 \in 1..Waiting
                       /\ node[writer.stack[i-1].a].key # Key
                       /\ writer.stack[i].a = Down(writer.stack[i-1].a)
           /\ i = 1 => writer.stack[i].a = root
           /\ writer.edges # <<>> /\ Key \in Vertices /\ Key \in Nat
           /\ node[writer.stack[i].a].key \in Nat
<1>1. /\ Len(writer.stack) \in Nat
      /\ writer.stack # <<>> => Waiting \in 0..Len(writer.stack)
      /\ writer.stack # <<>> <=> Len(writer.stack) > 0
  BY StackFacts DEF HeapInv, Types
<1>2. Waiting \in Nat /\ writer.stack # <<>> /\ i \in 1..Len(writer.stack)
  BY <1>1 DEF Waiting
<1>3. writer.stack[i].a \in Nodes
  BY <1>2, StackFacts DEF HeapInv, Types
<1>4. FrameHolds(i)
  BY DEF HeapInv, Path, Frames
<1>5. writer.edges # <<>>
  BY <1>2 DEF HeapInv, Path
<1>6. Key \in Vertices /\ Key \in Nat
  BY <1>5, KeyFacts DEF HeapInv, Types
<1>7. node[writer.stack[i].a].key \in Vertices
  BY <1>3, <1>4 DEF FrameHolds, HeapInv, Shape
<1>8. i > 1 => i - 1 \in 1..Waiting
  BY <1>2
<1>9. /\ Live(writer.stack[i].a)
      /\ Key \in Below[node[writer.stack[i].a].key]
      /\ Depth[node[writer.stack[i].a].key] = i - 1
      /\ ~writer.stack[i].copy => node[writer.stack[i].a].ref = 1
      /\ i > 1 => /\ node[writer.stack[i-1].a].key # Key
                  /\ writer.stack[i].a = Down(writer.stack[i-1].a)
      /\ i = 1 => writer.stack[i].a = root
  BY <1>4 DEF FrameHolds
<1>10. i \in Nat /\ i > 0 /\ i <= Len(writer.stack) /\ Waiting \in Nat
  BY <1>1, <1>2
<1>11. node[writer.stack[i].a].key \in Nat
  BY <1>7, Constants
<1> QED
  BY <1>3, <1>5, <1>6, <1>7, <1>8, <1>9, <1>10, <1>11

LEMMA DifferentFrames ==
    ASSUME HeapInv, NEW i \in 1..Waiting, NEW j \in 1..Waiting, i # j
    PROVE  writer.stack[i].a # writer.stack[j].a
<1>1. /\ Depth[node[writer.stack[i].a].key] = i - 1 /\ i \in Nat
      /\ Depth[node[writer.stack[j].a].key] = j - 1 /\ j \in Nat
  BY FrameFacts
<1> QED
  BY <1>1

LEMMA AtFacts ==
    ASSUME HeapInv, Built
    PROVE  /\ writer.at \in Nodes /\ Live(writer.at) /\ node[writer.at].ref = 1
           /\ node[writer.at].key \in Vertices /\ node[writer.at].key \in Nat
           /\ Waiting \in Nat /\ Waiting = Len(writer.stack) - 1
           /\ Depth[node[writer.at].key] = Waiting
           /\ AtPlace \in Places /\ Pointer[AtPlace] = NodeRef(writer.at)
           /\ Key \in Vertices /\ Key \in Nat
<1>1. /\ Live(writer.at) /\ node[writer.at].ref = 1
      /\ node[writer.at].key = KeyMade
      /\ writer.stack # <<>> /\ writer.edges # <<>>
  BY DEF HeapInv, Path, Built
<1>2. writer.at \in Nodes /\ node[writer.at].key \in Vertices
  BY <1>1 DEF Live, HeapInv, Shape
<1>3. Waiting \in Nat /\ Waiting = Len(writer.stack) - 1
  BY <1>1, StackFacts DEF HeapInv, Types, Waiting
<1>4. Depth[node[writer.at].key] = Waiting
  <2>1. CASE Waiting = 0
    BY <1>1, <2>1, TreeFacts, Constants DEF KeyMade, IsDepth
  <2>2. CASE Waiting > 0
    <3> DEFINE v == node[writer.stack[Waiting].a].key
    <3>1. Waiting \in 1..Waiting
      BY <1>3, <2>2
    <3>2. v \in Vertices /\ Depth[v] = Waiting - 1
      BY <3>1, FrameFacts
    <3>3. node[writer.at].key \in {Left[v], Right[v]}
      BY <1>1, <2>2 DEF KeyMade, KeyDown
    <3> HIDE DEF v
    <3>4. Depth[node[writer.at].key] = Depth[v] + 1
      BY <1>2, <3>2, <3>3, TreeFacts DEF IsDepth
    <3> QED
      BY <1>3, <3>2, <3>4
  <2>3. Waiting = 0 \/ Waiting > 0
    BY <1>3, NatCases
  <2> QED
    BY <2>1, <2>2, <2>3
<1>5. AtPlace \in Places /\ Pointer[AtPlace] = NodeRef(writer.at)
  BY PlaceFacts, PointerAt DEF OfAt
<1>6. Key \in Vertices /\ Key \in Nat
  BY <1>1, KeyFacts DEF HeapInv, Types
<1> QED
  BY <1>1, <1>2, <1>3, <1>4, <1>5, <1>6, Constants

LEMMA AtIsNoFrame ==
    ASSUME HeapInv, Built, NEW i \in 1..Waiting
    PROVE  writer.stack[i].a # writer.at
<1>1. Depth[node[writer.stack[i].a].key] = i - 1 /\ i \in Nat /\ i <= Waiting
  BY FrameFacts
<1> QED
  BY <1>1, AtFacts

\* Only the last frame whose node is still the old one can be cut.
LEMMA CutFacts ==
    ASSUME HeapInv, NEW i \in 1..Waiting, i < Waiting
    PROVE  ~Cut(writer.stack[i].a)
<1>1. Waiting \in 1..Waiting /\ i # Waiting
  BY FrameFacts
<1>2. writer.stack[Waiting].a # writer.stack[i].a
  BY <1>1, DifferentFrames
<1>3. Built => writer.at # writer.stack[i].a
  BY AtIsNoFrame
<1>4. writer.pc = "build" => Frame = writer.stack[Waiting]
  BY StackFacts DEF HeapInv, Types, Path, Waiting, Built
<1> QED
  BY <1>1, <1>2, <1>3, <1>4 DEF Cut

LEMMA HolderHolds ==
    ASSUME HeapInv, NEW i \in 1..Waiting
    PROVE  Holder(i) \in Places /\ Pointer[Holder(i)] = NodeRef(writer.stack[i].a)
<1>1. CASE i = 1
  <2>1. writer.stack[i].a = root /\ Waiting > 0 /\ writer.stack # <<>>
    BY <1>1, FrameFacts, StackFacts DEF HeapInv, Types
  <2>2. RootHeld
    BY <2>1 DEF RootHeld, HeapInv, Path
  <2> QED
    BY <1>1, <2>1, <2>2, PlaceFacts, PointerAt DEF Holder, OfRoot
<1>2. CASE i > 1
  <2> DEFINE p == writer.stack[i-1].a
  <2>1. /\ i - 1 \in 1..Waiting /\ i - 1 < Waiting /\ i # 1
        /\ node[p].key # Key /\ writer.stack[i].a = Down(p)
    BY <1>2, FrameFacts
  <2>2. ~Cut(p) /\ p \in Nodes /\ Live(p)
    BY <2>1, CutFacts, FrameFacts
  <2> HIDE DEF p
  <2>3. LeftOf(p) = NodeRef(node[p].lc) /\ RightOf(p) = NodeRef(node[p].rc)
    BY <2>2 DEF LeftOf, RightOf, StaleLeft, StaleRight
  <2>4. Holder(i) = IF Key < node[p].key THEN LeftLink(p) ELSE RightLink(p)
    BY <2>1 DEF Holder, p
  <2> QED
    BY <2>1, <2>2, <2>3, <2>4, PlaceFacts, PointerAt DEF Down
<1> QED
  BY <1>1, <1>2, FrameFacts

-----------------------------------------------------------------------------
(* Steps that keep the children of a node *)

LEMMA DescendTally ==
    ASSUME HeapInv, Descend
    PROVE  Tally'
<1>0. PICK n \in Nat : n = Len(writer.stack)
  BY StackFacts DEF HeapInv, Types
<1> DEFINE b == node[Frame.a]
           kept == IF b.key < Key THEN {b.lc} ELSE IF b.key = Key THEN {b.lc, b.rc} ELSE {}
<1>1. /\ ~Built /\ ~Built' /\ Waiting = n /\ Waiting' = n /\ n \in 1..n
      /\ writer.pc = "descend" /\ writer'.pc \in {"build", "enter"}
      /\ UNCHANGED <<writer.stack, writer.edges, writer.made>> /\ writer.made = Null
      /\ Frame = writer.stack[n] /\ UNCHANGED Key /\ writer.edges # <<>>
  <2>1. /\ writer.pc = "descend" /\ WriterTypes /\ writer.stack # <<>>
        /\ writer.edges # <<>> /\ writer.made = Null
    BY DEF HeapInv, Types, Path, Descend
  <2>2. /\ writer'.pc \in {"build", "enter"}
        /\ UNCHANGED <<writer.stack, writer.edges, writer.made>>
    BY <2>1 DEF Descend, WriterTypes
  <2> QED
    BY <1>0, <2>1, <2>2, StackFacts DEF Built, Waiting, Key
<1>2. UNCHANGED <<block, root, reader, dropping>>
  BY DEF Descend
<1>3. /\ Frame.a \in Nodes /\ Live(Frame.a) /\ Frame.copy \in BOOLEAN
      /\ b.key \in Vertices /\ b.key \in Nat /\ Key \in Nat
  BY <1>1, FrameFacts, StackFacts DEF HeapInv, Types
<1>4. node' = IF Frame.copy THEN Incremented(node, kept) ELSE node
  BY DEF Descend
<1>5. \A x : ~Cut(x) /\ ~Cut(x)'
  BY <1>1 DEF Cut
<1> DEFINE l == IF Frame.copy /\ b.key <= Key THEN NodeRef(b.lc) ELSE Nothing
           r == IF Frame.copy /\ b.key = Key THEN NodeRef(b.rc) ELSE Nothing
<1>6. \A x \in Nodes : /\ node'[x].key = node[x].key /\ node'[x].nb = node[x].nb
                       /\ node'[x].lc = node[x].lc /\ node'[x].rc = node[x].rc
                       /\ node'[x].ref = node[x].ref + (IF Frame.copy /\ x \in kept THEN 1 ELSE 0)
                       /\ node[x].ref \in Nat
  <2> HIDE DEF kept, b
  <2>1. HeapTypes
    BY DEF HeapInv, Types
  <2>2. CASE Frame.copy
    <3>1. node' = Incremented(node, kept)
      BY <1>4, <2>2
    <3>2. ASSUME NEW x \in Nodes
          PROVE  /\ node'[x].key = node[x].key /\ node'[x].nb = node[x].nb
                 /\ node'[x].lc = node[x].lc /\ node'[x].rc = node[x].rc
                 /\ node'[x].ref = node[x].ref + (IF x \in kept THEN 1 ELSE 0)
                 /\ node[x].ref \in Nat
      <4>1. node[x].ref \in Nat
        BY <2>1, NodeTypes
      <4> QED
        BY <2>1, <3>1, <4>1, IncrementedFacts
    <3> QED
      BY <2>2, <3>2
  <2>3. CASE ~Frame.copy
    <3>1. node' = node
      BY <1>4, <2>3
    <3>2. \A x \in Nodes : node[x].ref \in Nat
      BY <2>1, NodeTypes
    <3> QED
      BY <2>3, <3>1, <3>2
  <2> QED
    BY <2>2, <2>3
<1>7. b.lc # Null => b.lc # b.rc /\ Live(b.lc)
  BY <1>3, <1>5, Links DEF HeapInv, Types, StaleLeft, StaleRight
<1>8. b.rc # Null => Live(b.rc)
  BY <1>3, <1>5, Links DEF HeapInv, Types, StaleLeft, StaleRight
<1>9. \A x \in Nodes : Live(x)' <=> Live(x)
  BY <1>3, <1>6, <1>7, <1>8, Constants DEF Live, Nodes
<1>10. \A x \in Nodes : /\ LeftOf(x)' = LeftOf(x) /\ RightOf(x)' = RightOf(x)
                        /\ RecordOf(x)' = RecordOf(x)
  BY <1>5, <1>6, <1>9 DEF LeftOf, RightOf, RecordOf, StaleLeft, StaleRight
<1>11. \A i \in 1..n : writer.stack[i].a \in Nodes /\ i \in Nat
  BY <1>0, StackFacts DEF HeapInv, Types
<1>12. \A i \in Nat : i # n => /\ Keeps(i)' <=> Keeps(i)
                               /\ Keeps(i) => i \in 1..n
  BY <1>0, <1>1 DEF Keeps
<1>13. \A i \in Nat : i # n => KeptLeft(i)' = KeptLeft(i) /\ KeptRight(i)' = KeptRight(i)
  BY <1>1, <1>6, <1>11, <1>12 DEF KeptLeft, KeptRight
<1>14. ~Keeps(n) /\ (Keeps(n)' <=> Frame.copy)
  BY <1>0, <1>1 DEF Keeps
<1>15. /\ KeptLeft(n) = Nothing /\ KeptRight(n) = Nothing
       /\ KeptLeft(n)' = l /\ KeptRight(n)' = r
  BY <1>1, <1>3, <1>6, <1>14 DEF KeptLeft, KeptRight
<1>16. OfRoot' = OfRoot /\ OfAt' = OfAt /\ OfMade' = OfMade
  BY <1>1, <1>2 DEF OfRoot, OfAt, OfMade, RootHeld, Nothing
<1>17. /\ \A s \in Readers : OfSnapshot(s)' = OfSnapshot(s) /\ OfPin(s)' = OfPin(s)
       /\ \A t \in Threads, j \in Nat : OfDropping(t, j)' = OfDropping(t, j)
  BY <1>2 DEF OfSnapshot, OfPin, OfDropping, Open
<1> DEFINE f1 == [Pointer EXCEPT ![LeftKept(n)] = l]
           f2 == [f1 EXCEPT ![RightKept(n)] = r]
           c1 == Plus(Count, l)
           c2 == Plus(c1, r)
<1> HIDE DEF l, r, b, kept
<1>18. n \in Nat /\ LeftKept(n) \in Places /\ RightKept(n) \in Places
  BY <1>1, PlaceFacts
<1>19. /\ Counts(f1, c1) /\ DOMAIN f1 = Places /\ f1[RightKept(n)] = Nothing
       /\ \A ref \in Refs : c1[ref] \in Nat
  <2>1. Counts(Pointer, Count) /\ DOMAIN Pointer = Places /\ Pointer[LeftKept(n)] \notin Refs
    BY <1>15, <1>18, PointerAt, RefFacts DEF HeapInv, Tally
  <2>2. \A ref \in Refs : Count[ref] \in Nat
    BY CountAt DEF HeapInv, Types
  <2>3. f1[RightKept(n)] = Nothing
    BY <1>15, <1>18, PointerAt, PlacesDiffer
  <2> QED
    BY <1>18, <2>1, <2>2, <2>3, Give
<1> HIDE DEF f1, c1
<1>20. Counts(f2, c2) /\ DOMAIN f2 = Places
  BY <1>18, <1>19, Give, RefFacts
<1>21. Pointer' = f2
  <2>1. /\ f1 = [p \in Places |-> f1[p]] /\ f2 = [p \in Places |-> f2[p]]
    BY <1>18, IsFunction DEF f1
  <2>2. /\ \A p \in Places : p # RightKept(n) => f2[p] = f1[p]
        /\ \A p \in Places : p # LeftKept(n) => f1[p] = Pointer[p]
        /\ f1[LeftKept(n)] = l /\ f2[RightKept(n)] = r
    BY <1>18, <1>19, PointerAt DEF f1
  <2> HIDE DEF f2
  <2>3. /\ \A p \in Places : p # RightKept(n) /\ p # LeftKept(n) => f2[p] = Pointer[p]
        /\ f2[LeftKept(n)] = l /\ f2[RightKept(n)] = r
    BY <1>18, <2>2, PlacesDiffer
  <2>4. ASSUME NEW i \in Nat
        PROVE  Pointer'[LeftKept(i)] = f2[LeftKept(i)] /\ Pointer'[RightKept(i)] = f2[RightKept(i)]
    <3>1. CASE i = n
      <4>1. Pointer'[LeftKept(n)] = KeptLeft(n)' /\ Pointer'[RightKept(n)] = KeptRight(n)'
        BY <1>18, PointerNext
      <4> QED
        BY <1>15, <2>3, <3>1, <4>1
    <3>2. CASE i # n
      <4>1. /\ LeftKept(i) \notin {LeftKept(n), RightKept(n)} /\ LeftKept(i) \in Places
            /\ RightKept(i) \notin {LeftKept(n), RightKept(n)} /\ RightKept(i) \in Places
        BY <3>2, PlaceFacts, PlacesDiffer
      <4> QED
        BY <1>13, <2>3, <3>2, <4>1, PointerAt, PointerNext
    <3> QED
      BY <3>1, <3>2
  <2>5. /\ \A x \in Nodes : /\ Pointer'[LeftLink(x)] = f2[LeftLink(x)]
                            /\ Pointer'[RightLink(x)] = f2[RightLink(x)]
                            /\ Pointer'[RecordLink(x)] = f2[RecordLink(x)]
        /\ Pointer'[RootPlace] = f2[RootPlace] /\ Pointer'[AtPlace] = f2[AtPlace]
        /\ Pointer'[MadePlace] = f2[MadePlace]
        /\ \A s \in Readers : /\ Pointer'[SnapshotPlace(s)] = f2[SnapshotPlace(s)]
                              /\ Pointer'[PinPlace(s)] = f2[PinPlace(s)]
        /\ \A t \in Threads, j \in Nat : Pointer'[DropPlace(t, j)] = f2[DropPlace(t, j)]
    BY <1>10, <1>16, <1>17, <2>3, PlaceFacts, PlacesDiffer, PointerAt, PointerNext
  <2> QED
    BY <2>1, <2>4, <2>5, IsFunction, SamePlaces, SMTT(40)
<1>22. \A ref \in Refs : Count'[ref] = c2[ref]
  <2>1. \A ref \in Refs : c2[ref] = Count[ref] + (IF ref = l THEN 1 ELSE 0) + (IF ref = r THEN 1 ELSE 0)
    BY <1>19, CountAt DEF c1, Plus, HeapInv, Types
  <2>2. ASSUME NEW a \in Blocks
        PROVE  Count'[BlockRef(a)] = c2[BlockRef(a)]
    <3>1. BlockRef(a) \in Refs /\ BlockRef(a) # l /\ BlockRef(a) # r
      BY RefFacts DEF l, r, Nothing
    <3>2. Count'[BlockRef(a)] = Count[BlockRef(a)] /\ Count[BlockRef(a)] \in Nat
      BY <1>2, <3>1, CountOf, CountAt DEF HeapInv, Types
    <3> QED
      BY <2>1, <3>1, <3>2
  <2>3. ASSUME NEW a \in Nodes
        PROVE  Count'[NodeRef(a)] = c2[NodeRef(a)]
    <3>1. c2[NodeRef(a)] = node[a].ref + (IF NodeRef(a) = l THEN 1 ELSE 0) + (IF NodeRef(a) = r THEN 1 ELSE 0)
      BY <2>1, CountAt, RefFacts DEF HeapInv, Types
    <3>2. NodeRef(a) = l <=> Frame.copy /\ b.key <= Key /\ b.lc = a
      BY RefFacts DEF l
    <3>3. NodeRef(a) = r <=> Frame.copy /\ b.key = Key /\ b.rc = a
      BY RefFacts DEF r
    <3>4. node'[a].ref = node[a].ref + (IF Frame.copy /\ a \in kept THEN 1 ELSE 0) /\ node[a].ref \in Nat
      BY <1>6
    <3>5. Count'[NodeRef(a)] = node'[a].ref
      BY CountOf
    <3>6. a # Null
      BY Constants DEF Nodes
    <3> QED
      BY <1>3, <1>7, <3>1, <3>2, <3>3, <3>4, <3>5, <3>6 DEF kept, b
  <2> QED
    BY <2>2, <2>3, RefFacts
<1> QED
  BY <1>20, <1>21, <1>22, CountsSame DEF Tally

-----------------------------------------------------------------------------
(* copy_if *)

LEMMA LeastNumber ==
    ASSUME NEW S, S \subseteq Nat, S # {}
    PROVE  \E i \in S : \A j \in S : i <= j
<1>1. PICK i \in S : \A j \in S : ~ (<<j, i>> \in OpToRel(<, Nat))
  BY WFMin, NatLessThanWellFounded
<1>2. \A j \in S : ~ (j < i)
  BY <1>1 DEF OpToRel
<1> QED
  BY <1>2

LEMMA FreshIsFree ==
    ASSUME NEW heap, DOMAIN heap \subseteq Nat, \E a \in DOMAIN heap : heap[a].ref = 0
    PROVE  Fresh(heap) \in DOMAIN heap /\ heap[Fresh(heap)].ref = 0
<1> DEFINE free == {a \in DOMAIN heap : heap[a].ref = 0}
<1>1. PICK a \in free : \A x \in free : a <= x
  <2>1. free \subseteq Nat /\ free # {}
    OBVIOUS
  <2> HIDE DEF free
  <2> QED
    BY <2>1, LeastNumber
<1>2. \E y \in DOMAIN heap : heap[y].ref = 0 /\ \A x \in DOMAIN heap : heap[x].ref = 0 => y <= x
  BY <1>1
<1> QED
  BY <1>2 DEF Fresh

Building(n, a, o) ==
    n \in Nat /\ n = Len(writer.stack) /\ a = writer.stack[n].a /\ o = writer'.at

LEMMA BuildFacts ==
    ASSUME HeapInv, Build, NEW n, NEW a, NEW o, Building(n, a, o)
    PROVE  /\ n > 0 /\ Frame = writer.stack[n] /\ n \in 1..Waiting /\ a \in Nodes /\ Live(a)
           /\ node[a].key \in Vertices /\ Key \in Vertices /\ node[a].key \in Nat /\ Key \in Nat
           /\ ~Built /\ Built' /\ Waiting = n /\ Waiting' = n - 1
           /\ writer.pc = "build"
           /\ writer'.pc = IF node[a].key = Key THEN "look" ELSE "join"
           /\ writer'.stack = writer.stack /\ writer'.edges = writer.edges
           /\ writer'.made = writer.made /\ Key' = Key
           /\ UNCHANGED <<root, reader>>
           /\ dropping[Writer] = <<>>
           /\ dropping' = [dropping EXCEPT ![Writer] =
                 IF writer.stack[n].copy /\ ~writer.stack[n].extra THEN <<NodeRef(a)>> ELSE <<>>]
           /\ writer.stack[n].extra <=> (n > 1 /\ writer.stack[n-1].copy)
           /\ writer.stack[n].extra => writer.stack[n].copy
           /\ o = IF writer.stack[n].copy THEN Fresh(node) ELSE a
           /\ o \in Nodes /\ (writer.stack[n].copy => ~Live(o) /\ node[o].ref = 0 /\ o # a)
           /\ writer.made = Null <=> node[a].key = Key
           /\ writer.made # Null => node[writer.made].key = KeyMade
           /\ \A x : Cut(x) <=> writer.made # Null /\ x = a /\ ~writer.stack[n].copy
           /\ \A x : Cut(x)' <=> \/ x = o
                                 \/ n > 1 /\ x = writer.stack[n-1].a /\ ~writer.stack[n-1].copy
           /\ \A i \in 1..n : writer.stack[i].a \in Nodes /\ Live(writer.stack[i].a)
<1> USE DEF Building
<1>1. /\ writer.pc = "build" /\ WriterTypes /\ writer.stack # <<>> /\ HeapTypes
      /\ writer.edges # <<>>
      /\ writer.made = Null <=> node[Frame.a].key = Key
      /\ writer.made # Null => node[writer.made].key = KeyMade
      /\ dropping[Writer] = <<>>
  BY DEF HeapInv, Types, Path, Build
<1>2. Frame = writer.stack[n] /\ n > 0
  BY <1>1, StackFacts
<1>3. ~Built /\ Waiting = n /\ n \in 1..Waiting
  BY <1>1, <1>2 DEF Built, Waiting
<1>4. /\ a \in Nodes /\ Live(a) /\ node[a].key \in Vertices
      /\ Key \in Vertices /\ node[a].key \in Nat /\ Key \in Nat
  BY <1>3, FrameFacts
<1>5. /\ o = IF writer.stack[n].copy THEN Fresh(node) ELSE a
      /\ writer'.pc = IF node[a].key = Key THEN "look" ELSE "join"
      /\ writer'.stack = writer.stack /\ writer'.edges = writer.edges
      /\ writer'.made = writer.made
  BY <1>1, <1>2 DEF Build, WriterTypes
<1>6. Built' /\ Waiting' = n - 1 /\ Key' = Key
  BY <1>5 DEF Built, Waiting, Key
<1>7. /\ UNCHANGED <<root, reader>>
      /\ dropping' = [dropping EXCEPT ![Writer] =
                 IF writer.stack[n].copy /\ ~writer.stack[n].extra THEN <<NodeRef(a)>> ELSE <<>>]
  BY <1>2 DEF Build
<1>8. /\ writer.stack[n].extra <=> (n > 1 /\ writer.stack[n-1].copy)
      /\ writer.stack[n].extra => writer.stack[n].copy
  <2>1. n \in DOMAIN writer.stack
    BY <1>1, <1>2, StackFacts, ItemsOf
  <2> QED
    BY <2>1 DEF HeapInv, Path, Frames
<1>9. Fresh(node) \in Nodes /\ node[Fresh(node)].ref = 0
  <2>1. DOMAIN node = Nodes /\ Nodes \subseteq Nat
    BY <1>1 DEF HeapTypes, Nodes
  <2>2. \E x \in DOMAIN node : node[x].ref = 0
    BY DEF Build
  <2> QED
    BY <2>1, <2>2, FreshIsFree
<1>10. o \in Nodes /\ (writer.stack[n].copy => ~Live(o) /\ node[o].ref = 0 /\ o # a)
  BY <1>4, <1>5, <1>9 DEF Live
<1>11. \A x : Cut(x) <=> writer.made # Null /\ x = a /\ ~writer.stack[n].copy
  BY <1>1, <1>2, <1>3 DEF Cut
<1>12. \A x : Cut(x)' <=> \/ x = o
                          \/ n > 1 /\ x = writer.stack[n-1].a /\ ~writer.stack[n-1].copy
  <2>1. writer'.pc # "build" /\ (n - 1 > 0 <=> n > 1)
    BY <1>5
  <2> QED
    BY <1>5, <1>6, <2>1 DEF Cut
<1>13. \A i \in 1..n : writer.stack[i].a \in Nodes /\ Live(writer.stack[i].a)
  BY <1>3, FrameFacts
<1>14. writer.made = Null <=> node[a].key = Key
  BY <1>1, <1>2
<1>15. n \in 1..Waiting /\ n > 0 /\ Frame = writer.stack[n]
  BY <1>2, <1>3
<1>16. /\ writer.made # Null => node[writer.made].key = KeyMade
       /\ writer.pc = "build" /\ dropping[Writer] = <<>>
       /\ ~Built /\ Waiting = n
  BY <1>1, <1>3
<1> QED
  BY <1>4, <1>5, <1>6, <1>7, <1>8, <1>10, <1>11, <1>12, <1>13, <1>14, <1>15, <1>16, Zenon

\* The reference of the caller is given up by its holder, unless it is another node's.
LEMMA BuildReleases ==
    ASSUME HeapInv, Build, NEW n, NEW a, NEW o, Building(n, a, o),
           \A x \in Nodes : x # o \/ o = a => node'[x].key = node[x].key
    PROVE  /\ \A x \in Nodes : x # o \/ o = a =>
                 /\ StaleLeft(x)' <=> \/ StaleLeft(x)
                                      \/ ~writer.stack[n].extra /\ LeftLink(x) = Holder(n)
                 /\ StaleRight(x)' <=> \/ StaleRight(x)
                                       \/ ~writer.stack[n].extra /\ RightLink(x) = Holder(n)
           /\ RootHeld /\ (RootHeld' <=> writer.stack[n].extra \/ Holder(n) # RootPlace)
           /\ Holder(n) \notin {AtPlace, MadePlace}
           /\ \A x : Holder(n) \notin {RecordLink(x), LeftKept(x), RightKept(x), SnapshotPlace(x),
                                       PinPlace(x)}
           /\ \A t, j : Holder(n) # DropPlace(t, j)
           /\ Holder(n) \in Places /\ Pointer[Holder(n)] = NodeRef(a)
<1> USE BuildFacts DEF Building
<1>0. n = 1 \/ (n > 1 /\ n # 1)
  <2>1. n > 0
    OBVIOUS
  <2> QED
    BY ONLY <2>1, n \in Nat
<1>1. n = 1 => Holder(n) = RootPlace
  BY DEF Holder
<1>2. ASSUME n > 1
      PROVE  LET p == writer.stack[n-1].a IN
             /\ p \in Nodes /\ node[p].key # Key /\ node[p].key \in Nat /\ p # a
             /\ Holder(n) = IF Key < node[p].key THEN LeftLink(p) ELSE RightLink(p)
             /\ writer.stack[n].a = Down(p) /\ Live(p)
  <2>1. n - 1 \in 1..Waiting /\ n \in 1..Waiting /\ n # n - 1 /\ n # 1
    BY <1>2
  <2>2. writer.stack[n-1].a # a
    BY <2>1, DifferentFrames
  <2>3. /\ node[writer.stack[n-1].a].key # Key /\ writer.stack[n-1].a \in Nodes
        /\ node[writer.stack[n-1].a].key \in Nat /\ Live(writer.stack[n-1].a)
        /\ writer.stack[n].a = Down(writer.stack[n-1].a)
    BY <1>2, <2>1, FrameFacts
  <2> QED
    BY <2>1, <2>2, <2>3 DEF Holder
<1>3. ASSUME NEW x \in Nodes, x # o \/ o = a
      PROVE  /\ StaleLeft(x)' <=> \/ StaleLeft(x)
                                  \/ ~writer.stack[n].extra /\ LeftLink(x) = Holder(n)
             /\ StaleRight(x)' <=> \/ StaleRight(x)
                                   \/ ~writer.stack[n].extra /\ RightLink(x) = Holder(n)
  <2>1. /\ node'[x].key = node[x].key /\ Key' = Key /\ Key \in Nat
        /\ x = a => node[x].key \in Nat
    BY <1>3
  <2>2. LeftLink(x) = Holder(n) <=> n > 1 /\ x = writer.stack[n-1].a /\ Key < node[x].key
    BY <1>0, <1>1, <1>2, PlacesDiffer
  <2>3. RightLink(x) = Holder(n) <=> n > 1 /\ x = writer.stack[n-1].a /\ node[x].key < Key
    BY <1>0, <1>1, <1>2, <2>1, PlacesDiffer
  <2>4. Cut(x)' <=> (x = o \/ (n > 1 /\ x = writer.stack[n-1].a /\ ~writer.stack[n-1].copy))
    OBVIOUS
  <2>5. Cut(x) <=> writer.made # Null /\ x = a /\ ~writer.stack[n].copy
    OBVIOUS
  <2>6. CASE x = o
    <3>1. o = a /\ ~writer.stack[n].copy /\ ~writer.stack[n].extra
      BY <1>3, <2>6
    <3>2. n > 1 => writer.stack[n-1].a # x
      BY <1>2, <2>6, <3>1
    <3>3. writer.made = Null <=> node[a].key = Key
      OBVIOUS
    <3> QED
      BY <2>1, <2>2, <2>3, <2>4, <2>5, <2>6, <3>1, <3>2, <3>3 DEF StaleLeft, StaleRight
  <2>7. CASE x # o
    <3>1. ~Cut(x)
      BY <2>5, <2>7
    <3>2. writer.stack[n].extra <=> (n > 1 /\ writer.stack[n-1].copy)
      OBVIOUS
    <3> QED
      BY <2>1, <2>2, <2>3, <2>4, <2>7, <3>1, <3>2 DEF StaleLeft, StaleRight
  <2> QED
    BY <2>6, <2>7
<1>4. RootHeld /\ (RootHeld' <=> n > 1)
  BY DEF RootHeld
<1>5. Holder(n) # RootPlace <=> n > 1
  BY <1>0, <1>1, <1>2, PlacesDiffer
<1>6. /\ Holder(n) \notin {AtPlace, MadePlace}
      /\ \A x : Holder(n) \notin {RecordLink(x), LeftKept(x), RightKept(x), SnapshotPlace(x),
                                  PinPlace(x)}
      /\ \A t, j : Holder(n) # DropPlace(t, j)
  BY <1>0, <1>1, <1>2, PlacesDiffer
<1> QED
  BY <1>3, <1>4, <1>5, <1>6, HolderHolds

LEMMA BuildInPlaceTally ==
    ASSUME HeapInv, Build, ~Frame.copy
    PROVE  Tally'
<1>1. PICK n \in Nat : n = Len(writer.stack)
  BY StackFacts DEF HeapInv, Types
<1>2. PICK a : a = writer.stack[n].a
  OBVIOUS
<1>3. PICK o : o = writer'.at
  OBVIOUS
<1>4. PICK h : h = Holder(n)
  OBVIOUS
<1>5. /\ ~writer.stack[n].copy /\ ~writer.stack[n].extra /\ o = a /\ n > 0
      /\ ~Built /\ Built' /\ Waiting = n /\ Waiting' = n - 1
      /\ writer'.at = a /\ a \in Nodes
  BY <1>1, <1>2, <1>3, BuildFacts DEF Building
<1>6. /\ writer.pc = "build"
      /\ writer'.pc = IF node[a].key = Key THEN "look" ELSE "join"
      /\ writer'.stack = writer.stack /\ writer'.made = writer.made /\ Key' = Key
      /\ UNCHANGED <<root, reader>>
      /\ dropping[Writer] = <<>>
      /\ dropping' = [dropping EXCEPT ![Writer] = <<>>]
      /\ writer.made = Null <=> node[a].key = Key
  BY <1>1, <1>2, <1>3, <1>5, BuildFacts DEF Building
<1>7. UNCHANGED <<node, block>>
  BY <1>5, <1>6, <1>1, <1>2, <1>3, BuildFacts DEF Building, Build
<1>8. /\ \A x \in Nodes : /\ StaleLeft(x)' <=> StaleLeft(x) \/ LeftLink(x) = h
                          /\ StaleRight(x)' <=> StaleRight(x) \/ RightLink(x) = h
      /\ RootHeld /\ (RootHeld' <=> h # RootPlace)
      /\ h \notin {AtPlace, MadePlace}
      /\ \A x : h \notin {RecordLink(x), LeftKept(x), RightKept(x), SnapshotPlace(x), PinPlace(x)}
      /\ \A t, j : h # DropPlace(t, j)
      /\ h \in Places /\ Pointer[h] = NodeRef(a)
  <2>1. \A x \in Nodes : x # o \/ o = a => node'[x].key = node[x].key
    BY <1>7
  <2> QED
    BY <1>1, <1>2, <1>3, <1>4, <1>5, <2>1, BuildReleases DEF Building
<1> DEFINE g == [[Pointer EXCEPT ![h] = Nothing] EXCEPT ![AtPlace] = Pointer[h]]
<1>9. Counts(g, Count)
  <2>1. /\ Counts(Pointer, Count) /\ DOMAIN Pointer = Places
        /\ \A ref \in Refs : Count[ref] \in Nat
    BY PointerAt, CountAt DEF HeapInv, Tally, Types
  <2>2. AtPlace \in Places /\ Pointer[AtPlace] \notin Refs
    BY <1>5, PlaceFacts, PointerAt, RefFacts DEF OfAt
  <2> QED
    BY <1>8, <2>1, <2>2, Hand
<1>10. /\ g = [p \in Places |-> g[p]] /\ g[h] = Nothing /\ g[AtPlace] = NodeRef(a)
       /\ \A p \in Places : p # h /\ p # AtPlace => g[p] = Pointer[p]
  BY <1>8, PlaceFacts, IsFunction
<1> HIDE DEF g
<1>11. ASSUME NEW x \in Nodes
       PROVE  /\ Pointer'[LeftLink(x)] = g[LeftLink(x)]
              /\ Pointer'[RightLink(x)] = g[RightLink(x)]
              /\ Pointer'[RecordLink(x)] = g[RecordLink(x)]
  <2>1. Live(x)' <=> Live(x)
    BY <1>7 DEF Live
  <2>2. LeftOf(x)' = IF LeftLink(x) = h THEN Nothing ELSE LeftOf(x)
    BY <1>7, <1>8, <2>1 DEF LeftOf
  <2>3. RightOf(x)' = IF RightLink(x) = h THEN Nothing ELSE RightOf(x)
    BY <1>7, <1>8, <2>1 DEF RightOf
  <2>4. RecordOf(x)' = RecordOf(x)
    BY <1>7, <2>1 DEF RecordOf
  <2> QED
    BY <1>8, <1>10, <2>2, <2>3, <2>4, PlaceFacts, PlacesDiffer, PointerAt, PointerNext
<1>12. ASSUME NEW i \in Nat
       PROVE  /\ Pointer'[LeftKept(i)] = g[LeftKept(i)]
              /\ Pointer'[RightKept(i)] = g[RightKept(i)]
  <2>1. Keeps(i)' <=> Keeps(i)
    BY <1>1, <1>5, <1>6 DEF Keeps
  <2>2. KeptLeft(i)' = KeptLeft(i) /\ KeptRight(i)' = KeptRight(i)
    BY <1>6, <1>7, <2>1 DEF KeptLeft, KeptRight
  <2> QED
    BY <1>8, <1>10, <2>2, PlaceFacts, PlacesDiffer, PointerAt, PointerNext
<1>13. OfAt' = NodeRef(a) /\ OfMade' = OfMade /\ OfRoot' = IF h = RootPlace THEN Nothing ELSE OfRoot
  BY <1>5, <1>6, <1>8 DEF OfAt, OfMade, OfRoot, Nothing
<1>14. /\ Pointer'[RootPlace] = g[RootPlace] /\ Pointer'[AtPlace] = g[AtPlace]
       /\ Pointer'[MadePlace] = g[MadePlace]
  BY <1>8, <1>10, <1>13, PlaceFacts, PlacesDiffer, PointerAt, PointerNext
<1>15. ASSUME NEW r \in Readers
       PROVE  /\ Pointer'[SnapshotPlace(r)] = g[SnapshotPlace(r)]
              /\ Pointer'[PinPlace(r)] = g[PinPlace(r)]
  <2>1. OfSnapshot(r)' = OfSnapshot(r) /\ OfPin(r)' = OfPin(r)
    BY <1>6 DEF OfSnapshot, OfPin, Open
  <2> QED
    BY <1>8, <1>10, <2>1, PlaceFacts, PlacesDiffer, PointerAt, PointerNext
<1>16. ASSUME NEW t \in Threads, NEW j \in Nat
       PROVE  Pointer'[DropPlace(t, j)] = g[DropPlace(t, j)]
  <2>1. dropping' = dropping
    BY <1>6 DEF HeapInv, Types, HeapTypes
  <2>2. OfDropping(t, j)' = OfDropping(t, j)
    BY <2>1 DEF OfDropping
  <2> QED
    BY <1>8, <1>10, <2>2, PlaceFacts, PlacesDiffer, PointerAt, PointerNext
<1>17. Pointer' = g
  BY <1>10, <1>11, <1>12, <1>14, <1>15, <1>16, IsFunction, SamePlaces
<1>18. Count' = Count
  BY <1>7 DEF Count
<1> QED
  BY <1>9, <1>17, <1>18 DEF Tally

\* What copying a node does to the places: h gives its reference to d if it is the
\* caller's, the children that were kept go from kl and kr to the links ll and rl of the
\* copy, late is a child that is shared only now, and the record and the writer get one.
CopyPlaces(h, d, kl, ll, kr, rl, rec, at) ==
    /\ h \in Places /\ d \in Places /\ kl \in Places /\ ll \in Places /\ kr \in Places
    /\ rl \in Places /\ rec \in Places /\ at \in Places
    /\ h \notin {d, kl, ll, kr, rl, rec, at} /\ d \notin {kl, ll, kr, rl, rec, at}
    /\ kl \notin {ll, kr, rl, rec, at} /\ ll \notin {kr, rl, rec, at}
    /\ kr \notin {rl, rec, at} /\ rl \notin {rec, at} /\ rec # at

CopyMoved(f, g, h, d, kl, ll, kr, rl, rec, at, owned, late, record, copy) ==
    /\ g = [p \in Places |-> g[p]]
    /\ \A p \in Places : p \notin {h, d, kl, ll, kr, rl, rec, at} => g[p] = f[p]
    /\ g[h] = IF owned THEN Nothing ELSE f[h]
    /\ g[d] = IF owned THEN f[h] ELSE Nothing
    /\ g[kl] = Nothing /\ g[ll] = f[kl] /\ g[kr] = Nothing
    /\ g[rl] = IF late = Nothing THEN f[kr] ELSE late
    /\ g[rec] = record /\ g[at] = copy

LEMMA CopyMoves ==
    ASSUME NEW f, f = [p \in Places |-> f[p]], NEW c, Counts(f, c),
           \A ref \in Refs : c[ref] \in Nat,
           NEW h, NEW d, NEW kl, NEW ll, NEW kr, NEW rl, NEW rec, NEW at,
           CopyPlaces(h, d, kl, ll, kr, rl, rec, at),
           f[d] = Nothing, f[ll] = Nothing, f[rl] = Nothing, f[rec] = Nothing, f[at] = Nothing,
           NEW owned \in BOOLEAN, NEW late, f[kr] = Nothing \/ late = Nothing,
           NEW record, NEW copy
    PROVE  \E g : /\ Counts(g, Plus(Plus(Plus(c, late), record), copy))
                  /\ CopyMoved(f, g, h, d, kl, ll, kr, rl, rec, at, owned, late, record, copy)
<1> USE DEF CopyPlaces
<1>0. Nothing \notin Refs
  BY RefFacts
<1>1. PICK f1 : /\ f1 = [p \in Places |-> f1[p]] /\ Counts(f1, c)
                /\ \A p \in Places : p \notin {h, d} => f1[p] = f[p]
                /\ f1[h] = IF owned THEN Nothing ELSE f[h]
                /\ f1[d] = IF owned THEN f[h] ELSE Nothing
  <2>1. CASE owned
    <3> DEFINE g == [[f EXCEPT ![h] = Nothing] EXCEPT ![d] = f[h]]
    <3>1. Counts(g, c) /\ DOMAIN g = Places
      BY <1>0, Hand
    <3>2. /\ g = [p \in Places |-> g[p]] /\ g[h] = Nothing /\ g[d] = f[h]
          /\ \A p \in Places : p \notin {h, d} => g[p] = f[p]
      OBVIOUS
    <3> HIDE DEF g
    <3> QED
      BY <2>1, <3>1, <3>2
  <2>2. CASE ~owned
    BY <2>2
  <2> QED
    BY <2>1, <2>2
<1>2. PICK f2 : /\ f2 = [p \in Places |-> f2[p]] /\ Counts(f2, c)
                /\ \A p \in Places : p \notin {kl, ll} => f2[p] = f1[p]
                /\ f2[kl] = Nothing /\ f2[ll] = f1[kl]
  <2> DEFINE g == [[f1 EXCEPT ![kl] = Nothing] EXCEPT ![ll] = f1[kl]]
  <2>1. f1[ll] \notin Refs /\ DOMAIN f1 = Places /\ Counts(f1, c)
    BY <1>0, <1>1
  <2>2. Counts(g, c) /\ DOMAIN g = Places
    BY <2>1, Hand
  <2>3. /\ g = [p \in Places |-> g[p]] /\ g[kl] = Nothing /\ g[ll] = f1[kl]
        /\ \A p \in Places : p \notin {kl, ll} => g[p] = f1[p]
    BY <1>1
  <2> HIDE DEF g
  <2> QED
    BY <2>2, <2>3
<1> DEFINE c3 == Plus(c, late)
<1>3. PICK f3 : /\ f3 = [p \in Places |-> f3[p]] /\ Counts(f3, c3)
                /\ \A ref \in Refs : c3[ref] \in Nat
                /\ \A p \in Places : p \notin {kr, rl} => f3[p] = f2[p]
                /\ f3[kr] = Nothing /\ f3[rl] = IF late = Nothing THEN f2[kr] ELSE late
  <2>0. /\ f2[rl] = Nothing /\ DOMAIN f2 = Places /\ f2[kr] = f[kr]
        /\ Counts(f2, c)
    BY <1>1, <1>2
  <2>1. CASE late = Nothing
    <3> DEFINE g == [[f2 EXCEPT ![kr] = Nothing] EXCEPT ![rl] = f2[kr]]
    <3>0. kr # rl /\ f2[rl] \notin Refs
      BY <1>0, <2>0
    <3>1. Counts(g, c)
      BY <2>0, <3>0, Hand
    <3>2. \A ref \in Refs : c3[ref] = c[ref]
      BY <1>0, <2>1 DEF Plus
    <3>3. /\ g = [p \in Places |-> g[p]] /\ g[kr] = Nothing /\ g[rl] = f2[kr]
          /\ \A p \in Places : p \notin {kr, rl} => g[p] = f2[p]
      BY <1>2
    <3> HIDE DEF g, c3
    <3>4. Counts(g, c3) /\ \A ref \in Refs : c3[ref] \in Nat
      BY <3>1, <3>2, CountsSame
    <3> QED
      BY <2>1, <3>3, <3>4
  <2>2. CASE late # Nothing
    <3> DEFINE g == [f2 EXCEPT ![rl] = late]
    <3>0. f2[rl] \notin Refs
      BY <1>0, <2>0
    <3>1. Counts(g, c3) /\ \A ref \in Refs : c3[ref] \in Nat
      BY <2>0, <3>0, Give
    <3>2. /\ g = [p \in Places |-> g[p]] /\ g[kr] = f2[kr] /\ g[rl] = late
          /\ \A p \in Places : p \notin {kr, rl} => g[p] = f2[p]
      BY <1>2
    <3> HIDE DEF g, c3
    <3> QED
      BY <2>0, <2>2, <3>1, <3>2
  <2> QED
    BY <2>1, <2>2
<1> HIDE DEF c3
<1> DEFINE c4 == Plus(c3, record)
           f4 == [f3 EXCEPT ![rec] = record]
<1>4. Counts(f4, c4) /\ \A ref \in Refs : c4[ref] \in Nat
  <2>1. f3[rec] \notin Refs /\ DOMAIN f3 = Places
    BY <1>0, <1>1, <1>2, <1>3
  <2>2. Counts(f3, c3) /\ \A ref \in Refs : c3[ref] \in Nat
    BY <1>3
  <2> QED
    BY <2>1, <2>2, Give
<1>5. /\ f4 = [p \in Places |-> f4[p]] /\ f4[rec] = record
      /\ \A p \in Places : p # rec => f4[p] = f3[p]
  BY <1>3
<1> HIDE DEF c4, f4
<1> DEFINE c5 == Plus(c4, copy)
           f5 == [f4 EXCEPT ![at] = copy]
<1>6. Counts(f5, c5)
  <2>1. f4[at] \notin Refs /\ DOMAIN f4 = Places
    BY <1>0, <1>1, <1>2, <1>3, <1>5
  <2> QED
    BY <1>4, <2>1, Give
<1>7. /\ f5 = [p \in Places |-> f5[p]] /\ f5[at] = copy
      /\ \A p \in Places : p # at => f5[p] = f4[p]
  BY <1>5
<1> HIDE DEF f5
<1>8. /\ \A p \in Places : p \notin {h, d, kl, ll, kr, rl, rec, at} => f5[p] = f[p]
      /\ f5[h] = IF owned THEN Nothing ELSE f[h]
      /\ f5[d] = IF owned THEN f[h] ELSE Nothing
      /\ f5[kl] = Nothing /\ f5[ll] = f[kl] /\ f5[kr] = Nothing
      /\ f5[rl] = IF late = Nothing THEN f[kr] ELSE late
      /\ f5[rec] = record /\ f5[at] = copy
  BY <1>1, <1>2, <1>3, <1>5, <1>7
<1>9. Counts(f5, Plus(Plus(Plus(c, late), record), copy))
  BY <1>6 DEF c5, c4, c3
<1> QED
  BY <1>7, <1>8, <1>9 DEF CopyMoved

\* What Build does to the nodes and the blocks when it copies.
LEMMA CopyFacts ==
    ASSUME HeapInv, Build, Frame.copy, NEW n, NEW a, NEW o, Building(n, a, o)
    PROVE  /\ node'[o].key = node[a].key /\ node'[o].nb = node[a].nb
           /\ node'[o].lc = node[a].lc /\ node'[o].rc = node[a].rc
           /\ node'[o].ref = 1
           /\ \A x \in Nodes : x # o =>
                 /\ node'[x].key = node[x].key /\ node'[x].nb = node[x].nb
                 /\ node'[x].lc = node[x].lc /\ node'[x].rc = node[x].rc
                 /\ node[x].ref \in Nat
                 /\ node'[x].ref = node[x].ref + (IF Key < node[a].key /\ x = node[a].rc THEN 1 ELSE 0)
           /\ node' \in [Nodes -> [key : Vertices \cup {Null}, nb : 0..NumBlocks,
                                   lc : 0..NumNodes, rc : 0..NumNodes, ref : Nat]]
           /\ \A b \in Blocks :
                 /\ block'[b].dests = block[b].dests
                 /\ block'[b].ref = block[b].ref + (IF b = node[a].nb THEN 1 ELSE 0)
           /\ block' \in [Blocks -> [dests : SUBSET Vertices, ref : Nat]]
           /\ node[a].nb \in Blocks
           /\ \A x : ~Cut(x)
           /\ node[a].lc # Null => Live(node[a].lc) /\ node[a].lc # o /\ node[a].lc # node[a].rc
           /\ node[a].rc # Null => Live(node[a].rc) /\ node[a].rc # o
<1> USE DEF Building
<1>1. /\ n > 0 /\ Frame = writer.stack[n] /\ a \in Nodes /\ Live(a)
      /\ writer.stack[n].copy /\ ~Live(o) /\ o \in Nodes /\ o = Fresh(node) /\ o # a
      /\ \A x : ~Cut(x)
  <2>1. /\ n > 0 /\ Frame = writer.stack[n] /\ a \in Nodes /\ Live(a)
        /\ o = IF writer.stack[n].copy THEN Fresh(node) ELSE a
        /\ o \in Nodes /\ (writer.stack[n].copy => ~Live(o) /\ o # a)
        /\ \A x : Cut(x) <=> writer.made # Null /\ x = a /\ ~writer.stack[n].copy
    BY BuildFacts DEF Building
  <2> QED
    BY <2>1
<1> DEFINE late == IF Key < node[a].key THEN {node[a].rc} ELSE {}
           heap == [node EXCEPT ![o] = [node[a] EXCEPT !.ref = 1]]
<1>2. /\ node' = Incremented(heap, late) /\ block' = Incremented(block, {node[a].nb})
  <2>1. /\ node' = Incremented([node EXCEPT ![Fresh(node)] = [node[Frame.a] EXCEPT !.ref = 1]],
                               IF Key < node[Frame.a].key THEN {node[Frame.a].rc} ELSE {})
        /\ block' = Incremented(block, {node[Frame.a].nb})
    BY DEF Build
  <2> QED
    BY <1>1, <2>1
<1>3. /\ node[a].nb \in Blocks
      /\ node[a].lc # Null => Live(node[a].lc) /\ node[a].lc # node[a].rc
      /\ node[a].rc # Null => Live(node[a].rc)
  BY <1>1, Links DEF HeapInv, Types, StaleLeft, StaleRight
<1>4. /\ node[a].lc # Null => node[a].lc # o
      /\ node[a].rc # Null => node[a].rc # o
  BY <1>1, <1>3
<1>5. o # Null
  BY <1>1, Constants DEF Nodes
<1>6. o \notin late
  BY <1>4, <1>5
<1>7. node \in [Nodes -> [key : Vertices \cup {Null}, nb : 0..NumBlocks,
                          lc : 0..NumNodes, rc : 0..NumNodes, ref : Nat]]
  BY DEF HeapInv, Types, HeapTypes
<1>8. /\ heap \in [Nodes -> [key : Vertices \cup {Null}, nb : 0..NumBlocks,
                             lc : 0..NumNodes, rc : 0..NumNodes, ref : Nat]]
      /\ heap[o].key = node[a].key /\ heap[o].nb = node[a].nb
      /\ heap[o].lc = node[a].lc /\ heap[o].rc = node[a].rc
      /\ heap[o].ref = 1
      /\ \A x \in Nodes : x # o => heap[x] = node[x]
  <2>1. [node[a] EXCEPT !.ref = 1] \in [key : Vertices \cup {Null}, nb : 0..NumBlocks,
                                        lc : 0..NumNodes, rc : 0..NumNodes, ref : Nat]
    BY <1>1, <1>7, ZenonT(40)
  <2> QED
    BY <1>1, <1>7, <2>1
<1> HIDE DEF heap
<1>9. ASSUME NEW x \in Nodes
      PROVE  /\ node'[x] \in [key : Vertices \cup {Null}, nb : 0..NumBlocks,
                              lc : 0..NumNodes, rc : 0..NumNodes, ref : Nat]
             /\ node'[x].key = heap[x].key /\ node'[x].nb = heap[x].nb
             /\ node'[x].lc = heap[x].lc /\ node'[x].rc = heap[x].rc
             /\ node'[x].ref = heap[x].ref + (IF x \in late THEN 1 ELSE 0)
             /\ heap[x].ref \in Nat
  <2> HIDE DEF late
  <2>1. heap[x] \in [key : Vertices \cup {Null}, nb : 0..NumBlocks,
                     lc : 0..NumNodes, rc : 0..NumNodes, ref : Nat] /\ x \in DOMAIN heap
    BY <1>8
  <2>2. node'[x] = IF x \in late THEN [heap[x] EXCEPT !.ref = heap[x].ref + 1] ELSE heap[x]
    BY <1>2, <2>1 DEF Incremented
  <2> QED
    BY <2>1, <2>2
<1>10. node' = [x \in Nodes |-> node'[x]]
  BY <1>2, <1>8 DEF Incremented
<1>11. node' \in [Nodes -> [key : Vertices \cup {Null}, nb : 0..NumBlocks,
                            lc : 0..NumNodes, rc : 0..NumNodes, ref : Nat]]
  BY <1>9, <1>10
<1>12. block \in [Blocks -> [dests : SUBSET Vertices, ref : Nat]]
  BY DEF HeapInv, Types, HeapTypes
<1>13. ASSUME NEW b \in Blocks
       PROVE  /\ block'[b] \in [dests : SUBSET Vertices, ref : Nat]
              /\ block'[b].dests = block[b].dests
              /\ block'[b].ref = block[b].ref + (IF b = node[a].nb THEN 1 ELSE 0)
  <2>1. block[b] \in [dests : SUBSET Vertices, ref : Nat] /\ b \in DOMAIN block
    BY <1>12
  <2>2. block'[b] = IF b = node[a].nb THEN [block[b] EXCEPT !.ref = block[b].ref + 1] ELSE block[b]
    BY <1>2, <2>1 DEF Incremented
  <2> QED
    BY <2>1, <2>2
<1>14. block' = [b \in Blocks |-> block'[b]]
  BY <1>2, <1>12 DEF Incremented
<1>15. block' \in [Blocks -> [dests : SUBSET Vertices, ref : Nat]]
  BY <1>13, <1>14
<1>16. /\ node'[o].key = node[a].key /\ node'[o].nb = node[a].nb
       /\ node'[o].lc = node[a].lc /\ node'[o].rc = node[a].rc
       /\ node'[o].ref = 1
  <2>1. o \in Nodes /\ o \notin late
    BY <1>1, <1>6
  <2> HIDE DEF late
  <2>2. /\ node'[o].key = heap[o].key /\ node'[o].nb = heap[o].nb
        /\ node'[o].lc = heap[o].lc /\ node'[o].rc = heap[o].rc
        /\ node'[o].ref = heap[o].ref + 0
    BY <1>9, <2>1
  <2>3. /\ heap[o].key = node[a].key /\ heap[o].nb = node[a].nb
        /\ heap[o].lc = node[a].lc /\ heap[o].rc = node[a].rc
        /\ heap[o].ref = 1
    BY <1>8
  <2> QED
    BY ONLY <2>2, <2>3
<1>17. \A x \in Nodes : x # o =>
          /\ node'[x].key = node[x].key /\ node'[x].nb = node[x].nb
          /\ node'[x].lc = node[x].lc /\ node'[x].rc = node[x].rc
          /\ node[x].ref \in Nat
          /\ node'[x].ref = node[x].ref + (IF Key < node[a].key /\ x = node[a].rc THEN 1 ELSE 0)
  <2> TAKE x \in Nodes
  <2> HAVE x # o
  <2>1. heap[x] = node[x]
    BY <1>8
  <2>2. x \in late <=> Key < node[a].key /\ x = node[a].rc
    OBVIOUS
  <2> HIDE DEF late
  <2>3. /\ node'[x].key = heap[x].key /\ node'[x].nb = heap[x].nb
        /\ node'[x].lc = heap[x].lc /\ node'[x].rc = heap[x].rc
        /\ node'[x].ref = heap[x].ref + (IF x \in late THEN 1 ELSE 0)
        /\ heap[x].ref \in Nat
    BY <1>9
  <2> QED
    BY ONLY <2>1, <2>2, <2>3
<1> QED
  BY <1>1, <1>3, <1>4, <1>11, <1>13, <1>15, <1>16, <1>17

LEMMA BuildCopyTally ==
    ASSUME HeapInv, Build, Frame.copy
    PROVE  Tally'
<1>1. PICK n \in Nat : n = Len(writer.stack)
  BY StackFacts DEF HeapInv, Types
<1>2. PICK a : a = writer.stack[n].a
  OBVIOUS
<1>3. PICK o : o = writer'.at
  OBVIOUS
<1>4. PICK h : h = Holder(n)
  OBVIOUS
<1>5. PICK owned \in BOOLEAN : owned <=> ~writer.stack[n].extra
  OBVIOUS
<1>6. /\ writer.stack[n].copy /\ n > 0 /\ o # a /\ writer'.at = o
      /\ ~Built /\ Built' /\ Waiting = n /\ Waiting' = n - 1
      /\ o \in Nodes /\ a \in Nodes /\ ~Live(o) /\ Live(a)
      /\ node[a].key \in Nat /\ Key \in Nat
  BY <1>1, <1>2, <1>3, BuildFacts DEF Building
<1>7. /\ writer.pc = "build"
      /\ writer'.pc = IF node[a].key = Key THEN "look" ELSE "join"
      /\ writer'.stack = writer.stack /\ writer'.made = writer.made /\ Key' = Key
      /\ UNCHANGED <<root, reader>>
      /\ dropping[Writer] = <<>>
      /\ dropping' = [dropping EXCEPT ![Writer] = IF owned THEN <<NodeRef(a)>> ELSE <<>>]
      /\ writer.made = Null <=> node[a].key = Key
      /\ \A x : Cut(x)' <=> \/ x = o
                            \/ n > 1 /\ x = writer.stack[n-1].a /\ ~writer.stack[n-1].copy
      /\ \A i \in 1..n : writer.stack[i].a \in Nodes /\ Live(writer.stack[i].a)
  BY <1>1, <1>2, <1>3, <1>5, <1>6, BuildFacts DEF Building
<1>8. /\ node'[o].key = node[a].key /\ node'[o].nb = node[a].nb
      /\ node'[o].lc = node[a].lc /\ node'[o].rc = node[a].rc
      /\ node'[o].ref = 1
      /\ \A x \in Nodes : x # o =>
            /\ node'[x].key = node[x].key /\ node'[x].nb = node[x].nb
            /\ node'[x].lc = node[x].lc /\ node'[x].rc = node[x].rc
            /\ node[x].ref \in Nat
            /\ node'[x].ref = node[x].ref + (IF Key < node[a].key /\ x = node[a].rc THEN 1 ELSE 0)
      /\ \A b \in Blocks :
            block'[b].ref = block[b].ref + (IF b = node[a].nb THEN 1 ELSE 0)
      /\ node[a].nb \in Blocks
      /\ \A x : ~Cut(x)
      /\ node[a].rc # Null => Live(node[a].rc) /\ node[a].rc # o
  BY <1>1, <1>2, <1>3, CopyFacts, SMTT(40) DEF Building
<1>9. /\ \A x \in Nodes : x # o =>
            /\ StaleLeft(x)' <=> (owned /\ LeftLink(x) = h)
            /\ StaleRight(x)' <=> (owned /\ RightLink(x) = h)
      /\ RootHeld /\ (RootHeld' <=> ~owned \/ h # RootPlace)
      /\ h \notin {AtPlace, MadePlace}
      /\ \A x : h \notin {RecordLink(x), LeftKept(x), RightKept(x), SnapshotPlace(x), PinPlace(x)}
      /\ \A t, j : h # DropPlace(t, j)
      /\ h \in Places /\ Pointer[h] = NodeRef(a)
  <2>1. \A x \in Nodes : x # o \/ o = a => node'[x].key = node[x].key
    BY <1>6, <1>8
  <2>2. \A x : ~StaleLeft(x) /\ ~StaleRight(x)
    BY <1>8 DEF StaleLeft, StaleRight
  <2> QED
    BY <1>1, <1>2, <1>3, <1>4, <1>5, <2>1, <2>2, BuildReleases DEF Building
<1> DEFINE late == IF Key < node[a].key THEN NodeRef(node[a].rc) ELSE Nothing
           d == DropPlace(Writer, 1)
           c == Plus(Plus(Plus(Count, late), BlockRef(node[a].nb)), NodeRef(o))
<1>10. /\ h \in Places /\ d \in Places /\ LeftKept(n) \in Places /\ LeftLink(o) \in Places
       /\ RightKept(n) \in Places /\ RightLink(o) \in Places /\ RecordLink(o) \in Places
       /\ AtPlace \in Places
  BY <1>6, <1>9, PlaceFacts DEF Threads
<1>11. /\ Pointer[d] = Nothing /\ Pointer[LeftLink(o)] = Nothing /\ Pointer[RightLink(o)] = Nothing
       /\ Pointer[RecordLink(o)] = Nothing /\ Pointer[AtPlace] = Nothing
  <2>1. OfDropping(Writer, 1) = Nothing
    BY <1>7 DEF OfDropping
  <2>2. LeftOf(o) = Nothing /\ RightOf(o) = Nothing /\ RecordOf(o) = Nothing /\ OfAt = Nothing
    BY <1>6 DEF LeftOf, RightOf, RecordOf, OfAt
  <2> QED
    BY <1>6, <2>1, <2>2, PointerAt DEF Threads
<1>12. h # LeftLink(o) /\ h # RightLink(o)
  BY <1>6, <1>9, <1>11, RefFacts
<1>13. /\ Keeps(n)
       /\ KeptLeft(n) = IF node[a].key <= Key THEN NodeRef(node[a].lc) ELSE Nothing
       /\ KeptRight(n) = IF node[a].key = Key THEN NodeRef(node[a].rc) ELSE Nothing
  <2>1. Keeps(n)
    BY <1>1, <1>6, <1>7 DEF Keeps
  <2> QED
    BY <1>2, <2>1 DEF KeptLeft, KeptRight
<1>14. Pointer[LeftKept(n)] = KeptLeft(n) /\ Pointer[RightKept(n)] = KeptRight(n)
  BY PointerAt
<1>15. Pointer[RightKept(n)] = Nothing \/ late = Nothing
  BY <1>6, <1>13, <1>14
<1>16. /\ Counts(Pointer, Count) /\ \A ref \in Refs : Count[ref] \in Nat
  BY CountAt DEF HeapInv, Tally, Types
<1> HIDE DEF late, d
<1>17. /\ h \notin {d, LeftKept(n), LeftLink(o), RightKept(n), RightLink(o), RecordLink(o), AtPlace}
       /\ d \notin {LeftKept(n), LeftLink(o), RightKept(n), RightLink(o), RecordLink(o), AtPlace}
       /\ LeftKept(n) \notin {LeftLink(o), RightKept(n), RightLink(o), RecordLink(o), AtPlace}
       /\ LeftLink(o) \notin {RightKept(n), RightLink(o), RecordLink(o), AtPlace}
       /\ RightKept(n) \notin {RightLink(o), RecordLink(o), AtPlace}
       /\ RightLink(o) \notin {RecordLink(o), AtPlace} /\ RecordLink(o) # AtPlace
  BY <1>9, <1>12, PlacesDiffer DEF d
<1>18. PICK g : /\ g = [p \in Places |-> g[p]]
                /\ Counts(g, c)
                /\ \A p \in Places : p \notin {h, d, LeftKept(n), LeftLink(o), RightKept(n),
                                               RightLink(o), RecordLink(o), AtPlace}
                                        => g[p] = Pointer[p]
                /\ g[h] = IF owned THEN Nothing ELSE Pointer[h]
                /\ g[d] = IF owned THEN Pointer[h] ELSE Nothing
                /\ g[LeftKept(n)] = Nothing /\ g[LeftLink(o)] = Pointer[LeftKept(n)]
                /\ g[RightKept(n)] = Nothing
                /\ g[RightLink(o)] = IF late = Nothing THEN Pointer[RightKept(n)] ELSE late
                /\ g[RecordLink(o)] = BlockRef(node[a].nb) /\ g[AtPlace] = NodeRef(o)
  <2> DEFINE kl == LeftKept(n) ll == LeftLink(o) kr == RightKept(n) rl == RightLink(o)
             rec == RecordLink(o) record == BlockRef(node[a].nb) copy == NodeRef(o)
  <2> HIDE DEF kl, ll, kr, rl, rec, record, copy, c
  <2>1. CopyPlaces(h, d, kl, ll, kr, rl, rec, AtPlace)
    BY <1>10, <1>17 DEF kl, ll, kr, rl, rec, CopyPlaces
  <2>2. /\ Pointer[d] = Nothing /\ Pointer[ll] = Nothing /\ Pointer[rl] = Nothing
        /\ Pointer[rec] = Nothing /\ Pointer[AtPlace] = Nothing
        /\ Pointer[kr] = Nothing \/ late = Nothing
    BY <1>11, <1>15 DEF ll, rl, rec, kr
  <2>3. PICK g : /\ Counts(g, Plus(Plus(Plus(Count, late), record), copy))
                 /\ CopyMoved(Pointer, g, h, d, kl, ll, kr, rl, rec, AtPlace, owned, late, record, copy)
    <3>1. Pointer = [p \in Places |-> Pointer[p]]
      BY IsFunction
    <3>2. Counts(Pointer, Count) /\ \A ref \in Refs : Count[ref] \in Nat
      BY <1>16
    <3>3. owned \in BOOLEAN
      OBVIOUS
    <3> QED
      BY ONLY <3>1, <3>2, <3>3, <2>1, <2>2, CopyMoves
  <2> QED
    BY <2>3 DEF kl, ll, kr, rl, rec, record, copy, c, CopyMoved
<1> HIDE DEF c
<1>19. \A x \in Nodes : x # o => (Live(x)' <=> Live(x))
  <2>1. ASSUME NEW x \in Nodes, x # o
        PROVE  Live(x)' <=> Live(x)
    <3>1. CASE Key < node[a].key /\ x = node[a].rc
      <4>1. Live(x)
        BY <1>8, <2>1, <3>1, Constants DEF Nodes
      <4> QED
        BY <1>8, <2>1, <4>1 DEF Live
    <3>2. CASE ~ (Key < node[a].key /\ x = node[a].rc)
      BY <1>8, <2>1, <3>2 DEF Live
    <3> QED
      BY <3>1, <3>2
  <2> QED
    BY <2>1
<1>20. ASSUME NEW x \in Nodes, x # o
       PROVE  /\ Pointer'[LeftLink(x)] = g[LeftLink(x)]
              /\ Pointer'[RightLink(x)] = g[RightLink(x)]
              /\ Pointer'[RecordLink(x)] = g[RecordLink(x)]
  <2>0. ~StaleLeft(x) /\ ~StaleRight(x) /\ (Live(x)' <=> Live(x))
    BY <1>8, <1>19, <1>20 DEF StaleLeft, StaleRight
  <2>1. LeftOf(x)' = IF owned /\ LeftLink(x) = h THEN Nothing ELSE LeftOf(x)
    BY <1>8, <1>9, <1>20, <2>0 DEF LeftOf
  <2>2. RightOf(x)' = IF owned /\ RightLink(x) = h THEN Nothing ELSE RightOf(x)
    BY <1>8, <1>9, <1>20, <2>0 DEF RightOf
  <2>3. RecordOf(x)' = RecordOf(x)
    BY <1>8, <1>20, <2>0 DEF RecordOf
  <2>4. /\ LeftLink(x) \notin {d, LeftKept(n), LeftLink(o), RightKept(n), RightLink(o), RecordLink(o), AtPlace}
        /\ RightLink(x) \notin {d, LeftKept(n), LeftLink(o), RightKept(n), RightLink(o), RecordLink(o), AtPlace}
        /\ RecordLink(x) \notin {h, d, LeftKept(n), LeftLink(o), RightKept(n), RightLink(o), RecordLink(o), AtPlace}
    BY <1>9, <1>20, PlacesDiffer DEF d
  <2>5. LeftLink(x) \in Places /\ RightLink(x) \in Places /\ RecordLink(x) \in Places
    BY PlaceFacts
  <2> QED
    BY <1>18, <2>1, <2>2, <2>3, <2>4, <2>5, PointerAt, PointerNext
<1>21. /\ Pointer'[LeftLink(o)] = g[LeftLink(o)]
       /\ Pointer'[RightLink(o)] = g[RightLink(o)]
       /\ Pointer'[RecordLink(o)] = g[RecordLink(o)]
  <2>1. Live(o)' /\ (StaleLeft(o)' <=> Key < node[a].key) /\ (StaleRight(o)' <=> node[a].key < Key)
    BY <1>6, <1>7, <1>8 DEF Live, StaleLeft, StaleRight
  <2>2. LeftOf(o)' = KeptLeft(n)
    BY <1>6, <1>8, <1>13, <2>1 DEF LeftOf
  <2>3. RightOf(o)' = IF late = Nothing THEN KeptRight(n) ELSE late
    BY <1>6, <1>8, <1>13, <2>1 DEF RightOf, late
  <2>4. RecordOf(o)' = BlockRef(node[a].nb)
    BY <1>8, <2>1 DEF RecordOf
  <2> QED
    BY <1>6, <1>14, <1>18, <2>2, <2>3, <2>4, PointerNext
<1>22. ASSUME NEW i \in Nat
       PROVE  /\ Pointer'[LeftKept(i)] = g[LeftKept(i)]
              /\ Pointer'[RightKept(i)] = g[RightKept(i)]
  <2>1. CASE i = n
    <3>1. ~Keeps(n)'
      BY <1>1, <1>6, <1>7 DEF Keeps
    <3>2. KeptLeft(n)' = Nothing /\ KeptRight(n)' = Nothing
      BY <3>1 DEF KeptLeft, KeptRight
    <3>3. Pointer'[LeftKept(n)] = KeptLeft(n)' /\ Pointer'[RightKept(n)] = KeptRight(n)'
      BY PointerNext
    <3> QED
      BY <1>18, <2>1, <3>2, <3>3
  <2>2. CASE i # n
    <3>1. Keeps(i)' <=> Keeps(i)
      BY <1>1, <1>6, <1>7, <2>2 DEF Keeps
    <3>2. Keeps(i) => i \in 1..n /\ writer.stack[i].a \in Nodes /\ writer.stack[i].a # o
      BY <1>6, <1>7 DEF Keeps
    <3>3. KeptLeft(i)' = KeptLeft(i) /\ KeptRight(i)' = KeptRight(i)
      BY <1>7, <1>8, <3>1, <3>2 DEF KeptLeft, KeptRight
    <3>4. /\ LeftKept(i) \notin {h, d, LeftKept(n), LeftLink(o), RightKept(n), RightLink(o), RecordLink(o), AtPlace}
          /\ RightKept(i) \notin {h, d, LeftKept(n), LeftLink(o), RightKept(n), RightLink(o), RecordLink(o), AtPlace}
          /\ LeftKept(i) \in Places /\ RightKept(i) \in Places
      BY <1>9, <2>2, PlaceFacts, PlacesDiffer DEF d
    <3> QED
      BY <1>18, <3>3, <3>4, PointerAt, PointerNext
  <2> QED
    BY <2>1, <2>2
<1>23. /\ Pointer'[RootPlace] = g[RootPlace] /\ Pointer'[AtPlace] = g[AtPlace]
       /\ Pointer'[MadePlace] = g[MadePlace]
  <2>1. OfAt' = NodeRef(o) /\ OfMade' = OfMade
    BY <1>6, <1>7 DEF OfAt, OfMade, Nothing
  <2>2. OfRoot' = IF owned /\ h = RootPlace THEN Nothing ELSE OfRoot
    BY <1>7, <1>9 DEF OfRoot
  <2>3. /\ RootPlace \notin {d, LeftKept(n), LeftLink(o), RightKept(n), RightLink(o), RecordLink(o), AtPlace}
        /\ MadePlace \notin {h, d, LeftKept(n), LeftLink(o), RightKept(n), RightLink(o), RecordLink(o), AtPlace}
        /\ RootPlace \in Places /\ MadePlace \in Places
    BY <1>9, PlaceFacts, PlacesDiffer DEF d
  <2> QED
    BY <1>18, <2>1, <2>2, <2>3, PointerAt, PointerNext
<1>24. ASSUME NEW r \in Readers
       PROVE  /\ Pointer'[SnapshotPlace(r)] = g[SnapshotPlace(r)]
              /\ Pointer'[PinPlace(r)] = g[PinPlace(r)]
  <2>1. OfSnapshot(r)' = OfSnapshot(r) /\ OfPin(r)' = OfPin(r)
    BY <1>7 DEF OfSnapshot, OfPin, Open
  <2>2. /\ SnapshotPlace(r) \notin {h, d, LeftKept(n), LeftLink(o), RightKept(n), RightLink(o), RecordLink(o), AtPlace}
        /\ PinPlace(r) \notin {h, d, LeftKept(n), LeftLink(o), RightKept(n), RightLink(o), RecordLink(o), AtPlace}
        /\ SnapshotPlace(r) \in Places /\ PinPlace(r) \in Places
    BY <1>9, PlaceFacts, PlacesDiffer DEF d
  <2> QED
    BY <1>18, <2>1, <2>2, PointerAt, PointerNext
<1>25. ASSUME NEW t \in Threads, NEW j \in Nat
       PROVE  Pointer'[DropPlace(t, j)] = g[DropPlace(t, j)]
  <2>1. Writer \in Threads /\ DOMAIN dropping = Threads
    BY DEF HeapInv, Types, HeapTypes, Threads
  <2>2. CASE t = Writer /\ j = 1
    <3>1. dropping'[Writer] = IF owned THEN <<NodeRef(a)>> ELSE <<>>
      BY <1>7, <2>1
    <3>2. OfDropping(Writer, 1)' = IF owned THEN NodeRef(a) ELSE Nothing
      BY <3>1 DEF OfDropping
    <3>3. Pointer'[DropPlace(Writer, 1)] = OfDropping(Writer, 1)'
      BY <2>1, PointerNext
    <3> QED
      BY <1>9, <1>18, <2>2, <3>2, <3>3 DEF d
  <2>3. CASE ~ (t = Writer /\ j = 1)
    <3>1. OfDropping(t, j)' = OfDropping(t, j)
      <4>1. CASE t = Writer
        <5>1. dropping[Writer] = <<>> /\ dropping'[Writer] = IF owned THEN <<NodeRef(a)>> ELSE <<>>
          BY <1>7, <2>1
        <5>2. j \notin 1..Len(dropping[Writer]) /\ j \notin 1..Len(dropping'[Writer])
          BY <2>3, <4>1, <5>1
        <5> QED
          BY <4>1, <5>2 DEF OfDropping
      <4>2. CASE t # Writer
        BY <1>7, <2>1, <4>2 DEF OfDropping
      <4> QED
        BY <4>1, <4>2
    <3>2. /\ DropPlace(t, j) \notin {h, d, LeftKept(n), LeftLink(o), RightKept(n), RightLink(o), RecordLink(o), AtPlace}
          /\ DropPlace(t, j) \in Places
      BY <1>9, <2>3, PlaceFacts, PlacesDiffer DEF d
    <3> QED
      BY <1>18, <3>1, <3>2, PointerAt, PointerNext
  <2> QED
    BY <2>2, <2>3
<1>26. Pointer' = g
  <2>1. \A x \in Nodes : /\ Pointer'[LeftLink(x)] = g[LeftLink(x)]
                         /\ Pointer'[RightLink(x)] = g[RightLink(x)]
                         /\ Pointer'[RecordLink(x)] = g[RecordLink(x)]
    BY <1>20, <1>21
  <2> QED
    BY <1>18, <1>22, <1>23, <1>24, <1>25, <2>1, IsFunction, SamePlaces
<1>27. \A ref \in Refs : Count'[ref] = c[ref]
  <2>1. \A ref \in Refs : c[ref] = Count[ref] + (IF ref = late THEN 1 ELSE 0)
                                + (IF ref = BlockRef(node[a].nb) THEN 1 ELSE 0)
                                + (IF ref = NodeRef(o) THEN 1 ELSE 0)
    BY <1>16 DEF c, Plus
  <2>2. ASSUME NEW b \in Blocks
        PROVE  Count'[BlockRef(b)] = c[BlockRef(b)]
    <3>1. /\ BlockRef(b) \in Refs /\ BlockRef(b) # late /\ BlockRef(b) # NodeRef(o)
          /\ BlockRef(b) = BlockRef(node[a].nb) <=> b = node[a].nb
      BY RefFacts DEF late, Nothing
    <3>2. /\ Count'[BlockRef(b)] = block'[b].ref /\ Count[BlockRef(b)] = block[b].ref
          /\ Count[BlockRef(b)] \in Nat
      BY <1>16, <3>1, CountOf
    <3> QED
      BY <1>8, <2>1, <3>1, <3>2
  <2>3. ASSUME NEW x \in Nodes
        PROVE  Count'[NodeRef(x)] = c[NodeRef(x)]
    <3>1. /\ NodeRef(x) \in Refs /\ NodeRef(x) # BlockRef(node[a].nb)
          /\ NodeRef(x) = NodeRef(o) <=> x = o
          /\ NodeRef(x) = late <=> Key < node[a].key /\ x = node[a].rc
      BY RefFacts DEF late
    <3>2. /\ Count'[NodeRef(x)] = node'[x].ref /\ Count[NodeRef(x)] = node[x].ref
          /\ Count[NodeRef(x)] \in Nat
      BY <1>16, <3>1, CountOf
    <3>3. c[NodeRef(x)] = node[x].ref + (IF NodeRef(x) = late THEN 1 ELSE 0) + (IF x = o THEN 1 ELSE 0)
      BY <2>1, <3>1, <3>2
    <3>4. CASE x = o
      <4>1. node[o].ref = 0
        BY <1>6, <3>2, <3>4 DEF Live
      <4>2. x # node[a].rc
        BY <1>8, <3>4, Constants DEF Nodes
      <4> QED
        BY <1>8, <3>1, <3>2, <3>3, <3>4, <4>1, <4>2
    <3>5. CASE x # o
      BY <1>8, <3>1, <3>2, <3>3, <3>5
    <3> QED
      BY <3>4, <3>5
  <2> QED
    BY <2>2, <2>3, RefFacts
<1> QED
  BY <1>18, <1>26, <1>27, CountsSame DEF Tally

LEMMA BuildTally ==
    ASSUME HeapInv, Build
    PROVE  Tally'
BY BuildInPlaceTally, BuildCopyTally

-----------------------------------------------------------------------------
(* The record, join and the root *)

Putting(a, b) == a = writer.at /\ b = node[a].nb

LEMMA PutFacts ==
    ASSUME HeapInv, Put, NEW a, NEW b, Putting(a, b)
    PROVE  /\ a \in Nodes /\ Live(a) /\ node[a].ref = 1 /\ b \in Blocks /\ node[a].key = Key
           /\ Built /\ Built' /\ Waiting' = Waiting /\ writer.made = Null
           /\ writer.pc = "put" /\ writer'.pc = "join" /\ writer'.at = a
           /\ writer'.stack = writer.stack /\ writer'.edges = writer.edges
           /\ writer'.made = writer.made /\ Key' = Key
           /\ UNCHANGED <<root, reader>> /\ dropping[Writer] = <<>>
           /\ block[b].ref > 0 /\ Pointer[RecordLink(a)] = BlockRef(b)
           /\ \A x \in Nodes : /\ node'[x].key = node[x].key /\ node'[x].lc = node[x].lc
                               /\ node'[x].rc = node[x].rc /\ node'[x].ref = node[x].ref
                               /\ x # a => node'[x].nb = node[x].nb
           /\ \A x : Cut(x)' <=> Cut(x)
           /\ ~writer.extra =>
                 /\ UNCHANGED <<node, dropping>> /\ block[b].ref = 1
                 /\ block' = [block EXCEPT ![b].dests = block[b].dests \cup {Dest}]
           /\ writer.extra =>
                 /\ Fresh(block) \in Blocks /\ block[Fresh(block)].ref = 0 /\ Fresh(block) # b
                 /\ block' = [block EXCEPT ![Fresh(block)] = [dests |-> block[b].dests \cup {Dest}, ref |-> 1]]
                 /\ node' = [node EXCEPT ![a].nb = Fresh(block)]
                 /\ dropping' = [dropping EXCEPT ![Writer] = <<BlockRef(b)>>]
<1> USE DEF Putting
<1>1. /\ writer.pc = "put" /\ WriterTypes /\ HeapTypes /\ Built
      /\ dropping[Writer] = <<>> /\ node[a].key = Key /\ writer.made = Null
      /\ writer.extra \/ block[b].ref = 1
  <2>1. /\ writer.pc = "put" /\ WriterTypes /\ HeapTypes /\ Built
    BY DEF HeapInv, Types, Put, Built
  <2> QED
    BY <2>1 DEF HeapInv, Path
<1>2. /\ a \in Nodes /\ Live(a) /\ node[a].ref = 1 /\ Waiting = Len(writer.stack) - 1
  BY <1>1, AtFacts
<1>3. /\ b \in Blocks /\ block[b].ref > 0 /\ Pointer[RecordLink(a)] = BlockRef(b)
  BY <1>1, <1>2, Links DEF HeapInv
<1>4. /\ writer'.pc = "join" /\ writer'.at = a
      /\ writer'.stack = writer.stack /\ writer'.edges = writer.edges
      /\ writer'.made = writer.made
      /\ UNCHANGED <<root, reader>>
  BY <1>1 DEF Put, WriterTypes
<1>5. Built' /\ Waiting' = Waiting /\ Key' = Key
  BY <1>1, <1>4 DEF Built, Waiting, Key
<1>6. ~writer.extra =>
         /\ UNCHANGED <<node, dropping>>
         /\ block' = [block EXCEPT ![b].dests = block[b].dests \cup {Dest}]
  BY DEF Put
<1>7. ASSUME writer.extra
      PROVE  /\ Fresh(block) \in Blocks /\ block[Fresh(block)].ref = 0 /\ Fresh(block) # b
             /\ block' = [block EXCEPT ![Fresh(block)] = [dests |-> block[b].dests \cup {Dest}, ref |-> 1]]
             /\ node' = [node EXCEPT ![a].nb = Fresh(block)]
             /\ dropping' = [dropping EXCEPT ![Writer] = <<BlockRef(b)>>]
  <2>1. DOMAIN block = Blocks /\ Blocks \subseteq Nat
    BY <1>1 DEF HeapTypes, Blocks
  <2>2. \E x \in DOMAIN block : block[x].ref = 0
    BY DEF Put
  <2>3. Fresh(block) \in Blocks /\ block[Fresh(block)].ref = 0
    BY <2>1, <2>2, FreshIsFree
  <2>4. /\ block' = [block EXCEPT ![Fresh(block)] = [dests |-> block[b].dests \cup {Dest}, ref |-> 1]]
        /\ node' = [node EXCEPT ![a].nb = Fresh(block)]
        /\ dropping' = [dropping EXCEPT ![Writer] = <<BlockRef(b)>>]
    BY <1>7 DEF Put
  <2> QED
    BY <1>3, <2>3, <2>4
<1>8. \A x \in Nodes : /\ node'[x].key = node[x].key /\ node'[x].lc = node[x].lc
                       /\ node'[x].rc = node[x].rc /\ node'[x].ref = node[x].ref
                       /\ x # a => node'[x].nb = node[x].nb
  <2>1. CASE ~writer.extra
    BY <1>6, <2>1
  <2>2. CASE writer.extra
    <3>1. node \in [Nodes -> [key : Vertices \cup {Null}, nb : 0..NumBlocks,
                              lc : 0..NumNodes, rc : 0..NumNodes, ref : Nat]]
      BY <1>1 DEF HeapTypes
    <3>2. node' = [node EXCEPT ![a].nb = Fresh(block)]
      BY <1>7, <2>2
    <3> QED
      BY <1>2, <3>1, <3>2
  <2> QED
    BY <2>1, <2>2
<1>9. \A x : Cut(x)' <=> Cut(x)
  BY <1>1, <1>4, <1>5 DEF Cut
<1> QED
  BY <1>1, <1>2, <1>3, <1>4, <1>5, <1>6, <1>7, <1>8, <1>9

LEMMA PutTally ==
    ASSUME HeapInv, Put
    PROVE  Tally'
<1>1. PICK a : a = writer.at
  OBVIOUS
<1>2. PICK b : b = node[a].nb
  OBVIOUS
<1>3. /\ a \in Nodes /\ Live(a) /\ node[a].ref = 1 /\ b \in Blocks /\ node[a].key = Key
      /\ Built /\ Built' /\ Waiting' = Waiting /\ writer.made = Null
      /\ writer.pc = "put" /\ writer'.pc = "join" /\ writer'.at = a
      /\ writer'.stack = writer.stack /\ writer'.made = writer.made /\ Key' = Key
      /\ UNCHANGED <<root, reader>> /\ dropping[Writer] = <<>>
      /\ Pointer[RecordLink(a)] = BlockRef(b)
      /\ \A x \in Nodes : /\ node'[x].key = node[x].key /\ node'[x].lc = node[x].lc
                          /\ node'[x].rc = node[x].rc /\ node'[x].ref = node[x].ref
                          /\ x # a => node'[x].nb = node[x].nb
      /\ \A x : Cut(x)' <=> Cut(x)
  BY <1>1, <1>2, PutFacts DEF Putting
<1>4. \A x \in Nodes : Live(x)' <=> Live(x)
  BY <1>3 DEF Live
<1>5. \A x \in Nodes : /\ LeftOf(x)' = LeftOf(x) /\ RightOf(x)' = RightOf(x)
                       /\ x # a => RecordOf(x)' = RecordOf(x)
  BY <1>3, <1>4 DEF LeftOf, RightOf, RecordOf, StaleLeft, StaleRight
<1>6. ASSUME NEW i \in Nat
      PROVE  KeptLeft(i)' = KeptLeft(i) /\ KeptRight(i)' = KeptRight(i)
  <2>1. Keeps(i)' <=> Keeps(i)
    BY <1>3 DEF Keeps
  <2>2. Keeps(i) => writer.stack[i].a \in Nodes
    BY FrameFacts DEF Keeps
  <2> QED
    BY <1>3, <2>1, <2>2 DEF KeptLeft, KeptRight
<1>7. OfRoot' = OfRoot /\ OfAt' = OfAt /\ OfMade' = OfMade
  BY <1>1, <1>3 DEF OfRoot, OfAt, OfMade, RootHeld, Nothing
<1>8. \A r \in Readers : OfSnapshot(r)' = OfSnapshot(r) /\ OfPin(r)' = OfPin(r)
  BY <1>3 DEF OfSnapshot, OfPin, Open
<1>9. Writer \in Threads /\ DOMAIN dropping = Threads
  BY DEF HeapInv, Types, HeapTypes, Threads
<1>10. Counts(Pointer, Count) /\ DOMAIN Pointer = Places /\ \A ref \in Refs : Count[ref] \in Nat
  BY CountAt, PointerAt DEF HeapInv, Tally, Types
<1>11. CASE ~writer.extra
  <2>1. UNCHANGED <<node, dropping>> /\ block' = [block EXCEPT ![b].dests = block[b].dests \cup {Dest}]
    BY <1>1, <1>2, <1>11, PutFacts, ZenonT(40) DEF Putting
  <2>2. \A x \in Nodes : RecordOf(x)' = RecordOf(x)
    BY <1>4, <2>1 DEF RecordOf
  <2>3. \A t \in Threads, j \in Nat : OfDropping(t, j)' = OfDropping(t, j)
    BY <2>1 DEF OfDropping
  <2>4. Pointer' = Pointer
    BY <1>5, <1>6, <1>7, <1>8, <2>2, <2>3, IsFunction, PointerAt, PointerNext, SamePlaces
  <2>5. \A x \in Blocks : block'[x].ref = block[x].ref
    BY <2>1 DEF HeapInv, Types, HeapTypes
  <2>6. \A ref \in Refs : Count'[ref] = Count[ref]
    BY <2>1, <2>5, CountOf, RefFacts
  <2> QED
    BY <1>10, <2>4, <2>6, CountsSame DEF Tally
<1>12. CASE writer.extra
  <2>0. PICK o : o = Fresh(block)
    OBVIOUS
  <2>1. /\ o \in Blocks /\ block[o].ref = 0 /\ o # b
        /\ block' = [block EXCEPT ![o] = [dests |-> block[b].dests \cup {Dest}, ref |-> 1]]
        /\ node' = [node EXCEPT ![a].nb = o]
        /\ dropping' = [dropping EXCEPT ![Writer] = <<BlockRef(b)>>]
    BY <1>1, <1>2, <1>12, <2>0, PutFacts DEF Putting
  <2> DEFINE d == DropPlace(Writer, 1)
             p == RecordLink(a)
             f1 == [[Pointer EXCEPT ![p] = Nothing] EXCEPT ![d] = Pointer[p]]
             f2 == [f1 EXCEPT ![p] = BlockRef(o)]
             c == Plus(Count, BlockRef(o))
  <2>2. d \in Places /\ p \in Places /\ d # p
    BY <1>3, <1>9, PlaceFacts, PlacesDiffer
  <2>3. Pointer[d] = Nothing
    BY <1>3, <1>9, PointerAt DEF OfDropping
  <2> HIDE DEF d, p, c
  <2>4. Counts(f1, Count) /\ DOMAIN f1 = Places
    BY <1>10, <2>2, <2>3, RefFacts, Hand
  <2>5. f1[p] = Nothing /\ f1[d] = BlockRef(b) /\ \A q \in Places : q \notin {p, d} => f1[q] = Pointer[q]
    BY <1>3, <1>10, <2>2 DEF p
  <2> HIDE DEF f1
  <2>6. Counts(f2, c)
    BY <1>10, <2>2, <2>4, <2>5, RefFacts, Give DEF c
  <2>7. /\ f2 = [q \in Places |-> f2[q]] /\ f2[p] = BlockRef(o) /\ f2[d] = BlockRef(b)
        /\ \A q \in Places : q \notin {p, d} => f2[q] = Pointer[q]
    <3>1. f1 = [q \in Places |-> f1[q]]
      BY <2>2, IsFunction DEF f1
    <3> QED
      BY <2>2, <2>5, <3>1
  <2> HIDE DEF f2
  <2>8. node'[a].nb = o
    BY <1>3, <2>1 DEF HeapInv, Types, HeapTypes
  <2>9. ASSUME NEW x \in Nodes
        PROVE  /\ Pointer'[LeftLink(x)] = f2[LeftLink(x)]
               /\ Pointer'[RightLink(x)] = f2[RightLink(x)]
               /\ Pointer'[RecordLink(x)] = f2[RecordLink(x)]
    <3>1. /\ LeftLink(x) \notin {p, d} /\ RightLink(x) \notin {p, d} /\ RecordLink(x) # d
          /\ LeftLink(x) \in Places /\ RightLink(x) \in Places /\ RecordLink(x) \in Places
          /\ x # a => RecordLink(x) # p
      BY PlaceFacts, PlacesDiffer DEF p, d
    <3>2. CASE x # a
      BY <1>5, <2>7, <3>1, <3>2, PointerAt, PointerNext
    <3>3. CASE x = a
      <4>1. RecordOf(a)' = BlockRef(o)
        BY <1>3, <1>4, <2>8 DEF RecordOf
      <4>2. Pointer'[RecordLink(a)] = RecordOf(a)' /\ RecordLink(a) = p
        BY <1>3, PointerNext DEF p
      <4> QED
        BY <1>5, <2>7, <3>1, <3>3, <4>1, <4>2, PointerAt, PointerNext
    <3> QED
      BY <3>2, <3>3
  <2>10. ASSUME NEW i \in Nat
         PROVE  Pointer'[LeftKept(i)] = f2[LeftKept(i)] /\ Pointer'[RightKept(i)] = f2[RightKept(i)]
    <3>1. /\ LeftKept(i) \notin {p, d} /\ RightKept(i) \notin {p, d}
          /\ LeftKept(i) \in Places /\ RightKept(i) \in Places
      BY PlaceFacts, PlacesDiffer DEF p, d
    <3> QED
      BY <1>6, <2>7, <3>1, PointerAt, PointerNext
  <2>11. /\ Pointer'[RootPlace] = f2[RootPlace] /\ Pointer'[AtPlace] = f2[AtPlace]
         /\ Pointer'[MadePlace] = f2[MadePlace]
    <3>1. RootPlace \notin {p, d} /\ AtPlace \notin {p, d} /\ MadePlace \notin {p, d}
      BY PlacesDiffer DEF p, d
    <3> QED
      BY <1>7, <2>7, <3>1, PlaceFacts, PointerAt, PointerNext
  <2>12. ASSUME NEW r \in Readers
         PROVE  /\ Pointer'[SnapshotPlace(r)] = f2[SnapshotPlace(r)]
                /\ Pointer'[PinPlace(r)] = f2[PinPlace(r)]
    <3>1. /\ SnapshotPlace(r) \notin {p, d} /\ PinPlace(r) \notin {p, d}
          /\ SnapshotPlace(r) \in Places /\ PinPlace(r) \in Places
      BY PlaceFacts, PlacesDiffer DEF p, d
    <3> QED
      BY <1>8, <2>7, <3>1, PointerAt, PointerNext
  <2>13. ASSUME NEW t \in Threads, NEW j \in Nat
         PROVE  Pointer'[DropPlace(t, j)] = f2[DropPlace(t, j)]
    <3>1. dropping'[Writer] = <<BlockRef(b)>> /\ \A u \in Threads : u # Writer => dropping'[u] = dropping[u]
      BY <1>9, <2>1
    <3>2. CASE t = Writer /\ j = 1
      <4>1. OfDropping(Writer, 1)' = BlockRef(b)
        BY <3>1 DEF OfDropping
      <4>2. Pointer'[DropPlace(Writer, 1)] = OfDropping(Writer, 1)'
        BY <1>9, PointerNext
      <4> QED
        BY <2>7, <3>2, <4>1, <4>2 DEF d
    <3>3. CASE ~ (t = Writer /\ j = 1)
      <4>1. OfDropping(t, j)' = OfDropping(t, j)
        <5>1. CASE t = Writer
          <6>1. j \notin 1..Len(dropping[Writer]) /\ j \notin 1..Len(dropping'[Writer])
            BY <1>3, <3>1, <3>3, <5>1
          <6> QED
            BY <5>1, <6>1 DEF OfDropping
        <5>2. CASE t # Writer
          BY <3>1, <5>2 DEF OfDropping
        <5> QED
          BY <5>1, <5>2
      <4>2. DropPlace(t, j) \notin {p, d} /\ DropPlace(t, j) \in Places
        BY <3>3, PlaceFacts, PlacesDiffer DEF p, d
      <4> QED
        BY <2>7, <4>1, <4>2, PointerAt, PointerNext
    <3> QED
      BY <3>2, <3>3
  <2>14. Pointer' = f2
    BY <2>7, <2>9, <2>10, <2>11, <2>12, <2>13, IsFunction, SamePlaces
  <2>15. \A ref \in Refs : Count'[ref] = c[ref]
    <3>1. \A ref \in Refs : c[ref] = IF ref = BlockRef(o) THEN Count[ref] + 1 ELSE Count[ref]
      BY DEF c, Plus
    <3>2. ASSUME NEW x \in Nodes
          PROVE  Count'[NodeRef(x)] = c[NodeRef(x)]
      BY <1>3, <3>1, CountOf, RefFacts
    <3>3. ASSUME NEW x \in Blocks
          PROVE  Count'[BlockRef(x)] = c[BlockRef(x)]
      <4>1. block'[x].ref = IF x = o THEN 1 ELSE block[x].ref
        BY <2>1 DEF HeapInv, Types, HeapTypes
      <4>2. /\ BlockRef(x) \in Refs /\ (BlockRef(x) = BlockRef(o) <=> x = o)
            /\ Count'[BlockRef(x)] = block'[x].ref /\ Count[BlockRef(x)] = block[x].ref
        BY CountOf, RefFacts
      <4> QED
        BY <2>1, <3>1, <4>1, <4>2
    <3> QED
      BY <3>2, <3>3, RefFacts
  <2> QED
    BY <2>6, <2>14, <2>15, CountsSame DEF Tally
<1> QED
  BY <1>11, <1>12 DEF HeapInv, Types, WriterTypes

Joining(n, a, m) == n \in Nat /\ n = Len(writer.stack) /\ a = writer.at /\ m = writer.made

LEMMA JoinFacts ==
    ASSUME HeapInv, Join, NEW n, NEW a, NEW m, Joining(n, a, m)
    PROVE  /\ n > 0 /\ a \in Nodes /\ Live(a) /\ a # Null
           /\ node[a].key \in Nat /\ Key \in Nat
           /\ Built /\ ~Built' /\ Waiting = n - 1 /\ Waiting' = n - 1
           /\ writer.pc = "join" /\ writer'.pc = IF n = 1 THEN "root" ELSE "build"
           /\ writer'.made = a /\ writer'.edges = writer.edges /\ Key' = Key
           /\ Len(writer'.stack) = n - 1 /\ \A i \in 1..n-1 : writer'.stack[i] = writer.stack[i]
           /\ writer'.stack \in Seq([a : Nodes, extra : BOOLEAN, copy : BOOLEAN])
           /\ UNCHANGED <<block, root, reader, dropping>>
           /\ m = Null <=> node[a].key = Key
           /\ m # Null => m \in Nodes /\ Live(m) /\ node[m].key = KeyDown(node[a].key)
           /\ \A x \in Nodes :
                 /\ node'[x].key = node[x].key /\ node'[x].nb = node[x].nb
                 /\ node'[x].ref = node[x].ref
                 /\ node'[x].lc = IF x = a /\ Key < node[a].key THEN m ELSE node[x].lc
                 /\ node'[x].rc = IF x = a /\ node[a].key < Key THEN m ELSE node[x].rc
           /\ node' \in [Nodes -> [key : Vertices \cup {Null}, nb : 0..NumBlocks,
                                   lc : 0..NumNodes, rc : 0..NumNodes, ref : Nat]]
           /\ \A x : Cut(x) <=> x = a \/ Cut(x)'
           /\ ~Cut(a)'
           /\ n > 1 => Frame' = writer.stack[n-1]
           /\ Pointer[MadePlace] = NodeRef(m) /\ Pointer[AtPlace] = NodeRef(a)
<1> USE DEF Joining
<1>1. /\ writer.pc = "join" /\ WriterTypes /\ HeapTypes /\ writer.stack # <<>> /\ Built
      /\ writer.made = Null <=> node[writer.at].key = Key
      /\ writer.made # Null => node[writer.made].key = KeyDown(node[writer.at].key)
  <2>1. /\ writer.pc = "join" /\ WriterTypes /\ HeapTypes /\ Built
    BY DEF HeapInv, Types, Join, Built
  <2> QED
    BY <2>1 DEF HeapInv, Path
<1>2. /\ a \in Nodes /\ Live(a) /\ node[a].key \in Nat /\ Key \in Nat
      /\ Waiting = n - 1 /\ Pointer[AtPlace] = NodeRef(a)
  BY <1>1, AtFacts
<1>3. /\ n > 0 /\ Len(Front(writer.stack)) = n - 1
      /\ \A i \in 1..n-1 : Front(writer.stack)[i] = writer.stack[i]
      /\ Front(writer.stack) \in Seq([a : Nodes, extra : BOOLEAN, copy : BOOLEAN])
  BY <1>1, StackFacts, LastFront
<1>4. /\ writer'.pc = IF n = 1 THEN "root" ELSE "build"
      /\ writer'.made = a /\ writer'.edges = writer.edges /\ writer'.stack = Front(writer.stack)
      /\ UNCHANGED <<block, root, reader, dropping>>
  BY <1>1 DEF Join, WriterTypes
<1>5. ~Built' /\ Waiting' = n - 1 /\ Key' = Key
  BY <1>3, <1>4 DEF Built, Waiting, Key
<1>6. a # Null /\ Pointer[MadePlace] = NodeRef(m)
  BY <1>1, <1>2, Constants, PointerAt DEF Nodes, OfMade
<1>7. ASSUME m # Null
      PROVE  m \in Nodes /\ Live(m)
  <2>1. m \in Nodes
    BY <1>1, <1>7, Constants DEF WriterTypes, Nodes
  <2> QED
    BY <1>6, <2>1, Held, PlaceFacts DEF HeapInv, Types
<1>8. node \in [Nodes -> [key : Vertices \cup {Null}, nb : 0..NumBlocks,
                          lc : 0..NumNodes, rc : 0..NumNodes, ref : Nat]]
  BY <1>1 DEF HeapTypes
<1> DEFINE o == [node[a] EXCEPT !.lc = IF Key < node[a].key THEN m ELSE node[a].lc,
                                !.rc = IF node[a].key < Key THEN m ELSE node[a].rc]
<1>9. node' = [node EXCEPT ![a] = o]
  BY DEF Join
<1>10. m \in 0..NumNodes
  BY <1>1 DEF WriterTypes
<1>11. /\ o \in [key : Vertices \cup {Null}, nb : 0..NumBlocks,
                 lc : 0..NumNodes, rc : 0..NumNodes, ref : Nat]
       /\ o.key = node[a].key /\ o.nb = node[a].nb /\ o.ref = node[a].ref
       /\ o.lc = IF Key < node[a].key THEN m ELSE node[a].lc
       /\ o.rc = IF node[a].key < Key THEN m ELSE node[a].rc
  BY <1>2, <1>8, <1>10
<1> HIDE DEF o
<1>12. \A x \in Nodes :
          /\ node'[x].key = node[x].key /\ node'[x].nb = node[x].nb
          /\ node'[x].ref = node[x].ref
          /\ node'[x].lc = IF x = a /\ Key < node[a].key THEN m ELSE node[x].lc
          /\ node'[x].rc = IF x = a /\ node[a].key < Key THEN m ELSE node[x].rc
  BY <1>2, <1>8, <1>9, <1>11
<1>13. node' \in [Nodes -> [key : Vertices \cup {Null}, nb : 0..NumBlocks,
                            lc : 0..NumNodes, rc : 0..NumNodes, ref : Nat]]
  BY <1>2, <1>8, <1>9, <1>11
<1>14. n > 1 => Frame' = writer.stack[n-1]
  <2>1. ASSUME n > 1
        PROVE  Frame' = writer.stack[n-1]
    <3>1. Front(writer.stack) # <<>> /\ n - 1 \in 1..n-1
      BY <1>3, <2>1
    <3>2. Last(Front(writer.stack)) = Front(writer.stack)[n-1]
      BY <1>3, <3>1, LastFront
    <3> QED
      BY <1>3, <1>4, <3>1, <3>2 DEF Frame
  <2> QED
    BY <2>1
<1>15. \A x : Cut(x) <=> x = a \/ (n > 1 /\ x = writer.stack[n-1].a /\ ~writer.stack[n-1].copy)
  <2>1. n - 1 > 0 <=> n > 1
    OBVIOUS
  <2> QED
    BY <1>1, <1>2, <2>1 DEF Cut
<1>16. \A x : Cut(x)' <=> n > 1 /\ x = writer.stack[n-1].a /\ ~writer.stack[n-1].copy
  <2>1. writer'.pc = "build" <=> n # 1
    BY <1>4
  <2>2. n # 1 <=> n > 1
    BY <1>3, OneOrMore
  <2> QED
    BY <1>4, <1>5, <1>6, <1>14, <2>1, <2>2 DEF Cut
<1>17. ~Cut(a)'
  <2>1. n > 1 => n - 1 \in 1..Waiting
    BY <1>2
  <2> QED
    BY <1>1, <1>16, <2>1, AtIsNoFrame
<1> QED
  BY <1>1, <1>2, <1>3, <1>4, <1>5, <1>6, <1>7, <1>12, <1>13, <1>14, <1>15, <1>16, <1>17

LEMMA JoinTally ==
    ASSUME HeapInv, Join
    PROVE  Tally'
<1>1. PICK n \in Nat : n = Len(writer.stack)
  BY StackFacts DEF HeapInv, Types
<1>2. PICK a : a = writer.at
  OBVIOUS
<1>3. PICK m : m = writer.made
  OBVIOUS
<1>4. /\ n > 0 /\ a \in Nodes /\ Live(a) /\ a # Null
      /\ node[a].key \in Nat /\ Key \in Nat
      /\ Built /\ ~Built' /\ Waiting = n - 1 /\ Waiting' = n - 1
      /\ writer.pc = "join" /\ writer'.pc = IF n = 1 THEN "root" ELSE "build"
      /\ writer'.made = a /\ Key' = Key
      /\ Len(writer'.stack) = n - 1 /\ \A i \in 1..n-1 : writer'.stack[i] = writer.stack[i]
      /\ UNCHANGED <<block, root, reader, dropping>>
      /\ m = Null <=> node[a].key = Key
      /\ \A x \in Nodes :
            /\ node'[x].key = node[x].key /\ node'[x].nb = node[x].nb
            /\ node'[x].ref = node[x].ref
            /\ node'[x].lc = IF x = a /\ Key < node[a].key THEN m ELSE node[x].lc
            /\ node'[x].rc = IF x = a /\ node[a].key < Key THEN m ELSE node[x].rc
      /\ \A x : Cut(x) <=> x = a \/ Cut(x)'
      /\ ~Cut(a)'
      /\ Pointer[MadePlace] = NodeRef(m) /\ Pointer[AtPlace] = NodeRef(a)
  <2>1. Joining(n, a, m)
    BY <1>1, <1>2, <1>3 DEF Joining
  <2>2. /\ n > 0 /\ a \in Nodes /\ Live(a) /\ a # Null
        /\ node[a].key \in Nat /\ Key \in Nat
        /\ Built /\ ~Built' /\ Waiting = n - 1 /\ Waiting' = n - 1
    BY <2>1, JoinFacts
  <2>3. /\ writer.pc = "join" /\ writer'.pc = IF n = 1 THEN "root" ELSE "build"
        /\ writer'.made = a /\ Key' = Key
        /\ UNCHANGED <<block, root, reader, dropping>>
        /\ m = Null <=> node[a].key = Key
        /\ \A x : Cut(x) <=> x = a \/ Cut(x)'
        /\ ~Cut(a)'
        /\ Pointer[MadePlace] = NodeRef(m) /\ Pointer[AtPlace] = NodeRef(a)
    BY <2>1, JoinFacts
  <2>4. Len(writer'.stack) = n - 1 /\ \A i \in 1..n-1 : writer'.stack[i] = writer.stack[i]
    BY <2>1, JoinFacts
  <2>5. \A x \in Nodes :
            /\ node'[x].key = node[x].key /\ node'[x].nb = node[x].nb
            /\ node'[x].ref = node[x].ref
            /\ node'[x].lc = IF x = a /\ Key < node[a].key THEN m ELSE node[x].lc
            /\ node'[x].rc = IF x = a /\ node[a].key < Key THEN m ELSE node[x].rc
    BY <2>1, JoinFacts
  <2> QED
    BY <1>1, <2>2, <2>3, <2>4, <2>5
<1>5. \A x \in Nodes : Live(x)' <=> Live(x)
  BY <1>4 DEF Live
<1>6. \A x \in Nodes : RecordOf(x)' = RecordOf(x)
  BY <1>4, <1>5 DEF RecordOf
<1>7. \A x \in Nodes : x # a => LeftOf(x)' = LeftOf(x) /\ RightOf(x)' = RightOf(x)
  BY <1>4, <1>5 DEF LeftOf, RightOf, StaleLeft, StaleRight
<1>8. /\ LeftOf(a) = IF Key < node[a].key THEN Nothing ELSE NodeRef(node[a].lc)
      /\ RightOf(a) = IF node[a].key < Key THEN Nothing ELSE NodeRef(node[a].rc)
      /\ LeftOf(a)' = IF Key < node[a].key THEN NodeRef(m) ELSE NodeRef(node[a].lc)
      /\ RightOf(a)' = IF node[a].key < Key THEN NodeRef(m) ELSE NodeRef(node[a].rc)
  BY <1>4, <1>5 DEF LeftOf, RightOf, StaleLeft, StaleRight
<1>9. \A i \in Nat : KeptLeft(i)' = KeptLeft(i) /\ KeptRight(i)' = KeptRight(i)
  <2>1. ASSUME NEW i \in Nat
        PROVE  (Keeps(i)' <=> Keeps(i)) /\ (Keeps(i) => i \in 1..n-1)
    <3>1. /\ Keeps(i) <=> /\ i \in 1..n-1 /\ writer.stack[i].copy
                          /\ i < n \/ writer.pc \in {"enter", "build"}
          /\ Keeps(i)' <=> /\ i \in 1..n-1 /\ writer'.stack[i].copy
                           /\ i < n - 1 \/ writer'.pc \in {"enter", "build"}
      BY <1>1, <1>4 DEF Keeps
    <3>2. i \in 1..n-1 => i < n /\ n # 1
      BY <1>4
    <3> QED
      BY <1>4, <3>1, <3>2
  <2>2. \A i \in 1..n-1 : writer.stack[i].a \in Nodes
    BY <1>4, FrameFacts
  <2>3. ASSUME NEW i \in Nat, Keeps(i)
        PROVE  KeptLeft(i)' = KeptLeft(i) /\ KeptRight(i)' = KeptRight(i)
    <3>1. i \in 1..n-1 /\ writer.stack[i].a \in Nodes /\ writer.stack[i].a # a
      BY <1>2, <1>4, <2>1, <2>2, <2>3, AtIsNoFrame
    <3> QED
      BY <1>4, <2>1, <2>3, <3>1 DEF KeptLeft, KeptRight
  <2> QED
    BY <2>1, <2>3 DEF KeptLeft, KeptRight
<1>10. OfRoot' = OfRoot
  <2>1. n = 1 \/ n > 1
    BY <1>4
  <2> QED
    BY <1>4, <2>1 DEF OfRoot, RootHeld
<1>11. OfAt' = Nothing /\ OfMade' = NodeRef(a)
  BY <1>4 DEF OfAt, OfMade
<1>12. /\ \A r \in Readers : OfSnapshot(r)' = OfSnapshot(r) /\ OfPin(r)' = OfPin(r)
       /\ \A t \in Threads, j \in Nat : OfDropping(t, j)' = OfDropping(t, j)
  BY <1>4 DEF OfSnapshot, OfPin, OfDropping, Open
<1>13. Counts(Pointer, Count) /\ DOMAIN Pointer = Places /\ \A ref \in Refs : Count[ref] \in Nat
  BY CountAt, PointerAt DEF HeapInv, Tally, Types
<1>14. PICK link : link = IF Key < node[a].key THEN LeftLink(a) ELSE RightLink(a)
  OBVIOUS
<1>15. PICK f : /\ f = [p \in Places |-> f[p]] /\ Counts(f, Count)
                /\ \A p \in Places : p \notin {link, MadePlace} => f[p] = Pointer[p]
                /\ f[MadePlace] = Nothing
                /\ f[link] = IF node[a].key = Key THEN Pointer[link] ELSE NodeRef(m)
  <2>1. link \in Places /\ MadePlace \in Places /\ link # MadePlace
    BY <1>4, <1>14, PlaceFacts, PlacesDiffer
  <2>2. CASE node[a].key = Key
    BY <1>4, <1>13, <2>1, <2>2, IsFunction DEF Nothing
  <2>3. CASE node[a].key # Key
    <3> DEFINE g == [[Pointer EXCEPT ![MadePlace] = Nothing] EXCEPT ![link] = Pointer[MadePlace]]
    <3>1. Pointer[link] = Nothing
      BY <1>4, <1>8, <1>14, <2>3, PointerAt
    <3>2. Counts(g, Count)
      BY <1>13, <2>1, <3>1, RefFacts, Hand
    <3>3. /\ g = [p \in Places |-> g[p]] /\ g[MadePlace] = Nothing /\ g[link] = NodeRef(m)
          /\ \A p \in Places : p \notin {link, MadePlace} => g[p] = Pointer[p]
      BY <1>4, <2>1, IsFunction
    <3> HIDE DEF g
    <3> QED
      BY <2>3, <3>2, <3>3
  <2> QED
    BY <2>2, <2>3
<1> DEFINE g == [[f EXCEPT ![AtPlace] = Nothing] EXCEPT ![MadePlace] = f[AtPlace]]
<1>16. link # AtPlace /\ link # MadePlace /\ AtPlace # MadePlace
  BY <1>14, PlacesDiffer
<1>17. f[AtPlace] = NodeRef(a) /\ AtPlace \in Places /\ MadePlace \in Places
  BY <1>4, <1>15, <1>16, PlaceFacts
<1>18. Counts(g, Count)
  BY <1>13, <1>15, <1>16, <1>17, RefFacts, Hand
<1>19. /\ g = [p \in Places |-> g[p]] /\ g[AtPlace] = Nothing /\ g[MadePlace] = NodeRef(a)
       /\ \A p \in Places : p \notin {link, MadePlace, AtPlace} => g[p] = Pointer[p]
       /\ g[link] = IF node[a].key = Key THEN Pointer[link] ELSE NodeRef(m)
  BY <1>4, <1>14, <1>15, <1>16, <1>17, PlaceFacts
<1> HIDE DEF g
<1>20. ASSUME NEW x \in Nodes
       PROVE  /\ Pointer'[LeftLink(x)] = g[LeftLink(x)]
              /\ Pointer'[RightLink(x)] = g[RightLink(x)]
              /\ Pointer'[RecordLink(x)] = g[RecordLink(x)]
  <2>1. /\ LeftLink(x) \in Places /\ RightLink(x) \in Places /\ RecordLink(x) \in Places
        /\ LeftLink(x) \notin {AtPlace, MadePlace} /\ RightLink(x) \notin {AtPlace, MadePlace}
        /\ RecordLink(x) \notin {AtPlace, MadePlace, link}
        /\ LeftLink(x) = link <=> x = a /\ Key < node[a].key
        /\ RightLink(x) = link <=> x = a /\ ~(Key < node[a].key)
    BY <1>14, PlaceFacts, PlacesDiffer
  <2>2. Pointer'[RecordLink(x)] = g[RecordLink(x)]
    BY <1>6, <1>19, <2>1, PointerAt, PointerNext
  <2>3. CASE x # a
    BY <1>7, <1>19, <2>1, <2>2, <2>3, PointerAt, PointerNext
  <2>4. CASE x = a
    <3>1. /\ Pointer[LeftLink(a)] = LeftOf(a) /\ Pointer'[LeftLink(a)] = LeftOf(a)'
          /\ Pointer[RightLink(a)] = RightOf(a) /\ Pointer'[RightLink(a)] = RightOf(a)'
      BY <1>4, PointerAt, PointerNext
    <3>2. CASE Key < node[a].key
      <4>1. g[LeftLink(a)] = NodeRef(m) /\ g[RightLink(a)] = Pointer[RightLink(a)]
        BY <1>4, <1>19, <2>1, <2>4, <3>2
      <4> QED
        BY <1>4, <1>8, <2>2, <2>4, <3>1, <3>2, <4>1
    <3>3. CASE ~(Key < node[a].key)
      <4>1. /\ g[LeftLink(a)] = Pointer[LeftLink(a)]
            /\ g[RightLink(a)] = IF node[a].key = Key THEN Pointer[RightLink(a)] ELSE NodeRef(m)
        BY <1>4, <1>19, <2>1, <2>4, <3>3
      <4>2. node[a].key = Key \/ node[a].key < Key
        BY <1>4, <3>3
      <4> QED
        BY <1>4, <1>8, <2>2, <2>4, <3>1, <3>3, <4>1, <4>2
    <3> QED
      BY <3>2, <3>3
  <2> QED
    BY <2>3, <2>4
<1>21. ASSUME NEW i \in Nat
       PROVE  Pointer'[LeftKept(i)] = g[LeftKept(i)] /\ Pointer'[RightKept(i)] = g[RightKept(i)]
  <2>1. /\ LeftKept(i) \notin {link, AtPlace, MadePlace} /\ LeftKept(i) \in Places
        /\ RightKept(i) \notin {link, AtPlace, MadePlace} /\ RightKept(i) \in Places
    BY <1>14, PlaceFacts, PlacesDiffer
  <2> QED
    BY <1>9, <1>19, <2>1, PointerAt, PointerNext
<1>22. /\ Pointer'[RootPlace] = g[RootPlace] /\ Pointer'[AtPlace] = g[AtPlace]
       /\ Pointer'[MadePlace] = g[MadePlace]
  <2>1. RootPlace \notin {link, AtPlace, MadePlace} /\ RootPlace \in Places
    BY <1>14, PlaceFacts, PlacesDiffer
  <2> QED
    BY <1>10, <1>11, <1>19, <2>1, PointerAt, PointerNext
<1>23. ASSUME NEW r \in Readers
       PROVE  /\ Pointer'[SnapshotPlace(r)] = g[SnapshotPlace(r)]
              /\ Pointer'[PinPlace(r)] = g[PinPlace(r)]
  <2>1. /\ SnapshotPlace(r) \notin {link, AtPlace, MadePlace} /\ SnapshotPlace(r) \in Places
        /\ PinPlace(r) \notin {link, AtPlace, MadePlace} /\ PinPlace(r) \in Places
    BY <1>14, PlaceFacts, PlacesDiffer
  <2> QED
    BY <1>12, <1>19, <2>1, PointerAt, PointerNext
<1>24. ASSUME NEW t \in Threads, NEW j \in Nat
       PROVE  Pointer'[DropPlace(t, j)] = g[DropPlace(t, j)]
  <2>1. DropPlace(t, j) \notin {link, AtPlace, MadePlace} /\ DropPlace(t, j) \in Places
    BY <1>14, PlaceFacts, PlacesDiffer
  <2> QED
    BY <1>12, <1>19, <2>1, PointerAt, PointerNext
<1>25. Pointer' = g
  BY <1>19, <1>20, <1>21, <1>22, <1>23, <1>24, IsFunction, SamePlaces
<1>26. \A ref \in Refs : Count'[ref] = Count[ref]
  BY <1>4, CountOf, RefFacts
<1> QED
  BY <1>18, <1>25, <1>26, CountsSame DEF Tally

LEMMA SetRootTally ==
    ASSUME HeapInv, NEW tx \in Txs, SetRoot(tx)
    PROVE  Tally'
<1>1. /\ writer.pc = "root" /\ writer'.pc \in {"enter", "idle"}
      /\ writer.stack = <<>> /\ writer'.stack = <<>>
      /\ root' = writer.made
      /\ UNCHANGED <<node, block, reader, dropping>>
  <2>1. /\ writer.pc = "root" /\ writer.stack = <<>>
    BY DEF HeapInv, Path, SetRoot
  <2>2. /\ root' = writer.made /\ UNCHANGED <<node, block, reader, dropping>>
        /\ \/ writer' = [Resting EXCEPT !.pc = "enter", !.edges = Tail(writer.edges),
                                         !.at = writer.made]
           \/ writer' = Resting
    BY DEF SetRoot
  <2>3. writer'.pc \in {"enter", "idle"} /\ writer'.stack = <<>>
    <3>1. CASE writer' = [Resting EXCEPT !.pc = "enter", !.edges = Tail(writer.edges),
                                         !.at = writer.made]
      BY <3>1 DEF Resting
    <3>2. CASE writer' = Resting
      BY <3>2 DEF Resting
    <3> QED
      BY <2>2, <3>1, <3>2
  <2> QED
    BY <2>1, <2>2, <2>3
<1>2. ~Built /\ ~Built' /\ Waiting = 0 /\ Waiting' = 0
  BY <1>1 DEF Built, Waiting
<1>3. \A x : ~Cut(x) /\ ~Cut(x)'
  BY <1>1, <1>2 DEF Cut
<1>4. \A x \in Nodes : /\ LeftOf(x)' = LeftOf(x) /\ RightOf(x)' = RightOf(x)
                       /\ RecordOf(x)' = RecordOf(x)
  BY <1>1, <1>3 DEF LeftOf, RightOf, RecordOf, StaleLeft, StaleRight, Live
<1>5. \A i \in Nat : KeptLeft(i)' = KeptLeft(i) /\ KeptRight(i)' = KeptRight(i)
  BY <1>2 DEF KeptLeft, KeptRight, Keeps
<1>6. /\ OfRoot = Nothing /\ OfRoot' = NodeRef(writer.made) /\ OfAt' = OfAt
      /\ OfMade = NodeRef(writer.made) /\ OfMade' = Nothing
  BY <1>1, <1>2 DEF OfRoot, OfAt, OfMade, RootHeld
<1>7. /\ \A r \in Readers : OfSnapshot(r)' = OfSnapshot(r) /\ OfPin(r)' = OfPin(r)
      /\ \A t \in Threads, j \in Nat : OfDropping(t, j)' = OfDropping(t, j)
  BY <1>1 DEF OfSnapshot, OfPin, OfDropping, Open
<1> DEFINE g == [[Pointer EXCEPT ![MadePlace] = Nothing] EXCEPT ![RootPlace] = Pointer[MadePlace]]
<1>8. Counts(Pointer, Count) /\ DOMAIN Pointer = Places /\ \A ref \in Refs : Count[ref] \in Nat
  BY CountAt, PointerAt DEF HeapInv, Tally, Types
<1>9. /\ RootPlace \in Places /\ MadePlace \in Places /\ MadePlace # RootPlace
      /\ Pointer[RootPlace] \notin Refs /\ Pointer[MadePlace] = NodeRef(writer.made)
  BY <1>6, PlaceFacts, PlacesDiffer, PointerAt, RefFacts
<1>10. Counts(g, Count)
  BY <1>8, <1>9, Hand
<1>11. /\ g = [p \in Places |-> g[p]] /\ g[MadePlace] = Nothing
       /\ g[RootPlace] = NodeRef(writer.made)
       /\ \A p \in Places : p \notin {RootPlace, MadePlace} => g[p] = Pointer[p]
  BY <1>9, IsFunction
<1> HIDE DEF g
<1>12. /\ \A x \in Nodes : /\ Pointer'[LeftLink(x)] = g[LeftLink(x)]
                           /\ Pointer'[RightLink(x)] = g[RightLink(x)]
                           /\ Pointer'[RecordLink(x)] = g[RecordLink(x)]
       /\ \A i \in Nat : /\ Pointer'[LeftKept(i)] = g[LeftKept(i)]
                         /\ Pointer'[RightKept(i)] = g[RightKept(i)]
  BY <1>4, <1>5, <1>11, PlaceFacts, PlacesDiffer, PointerAt, PointerNext
<1>13. /\ Pointer'[RootPlace] = g[RootPlace] /\ Pointer'[AtPlace] = g[AtPlace]
       /\ Pointer'[MadePlace] = g[MadePlace]
  BY <1>6, <1>11, PlaceFacts, PlacesDiffer, PointerAt, PointerNext
<1>14. /\ \A r \in Readers : /\ Pointer'[SnapshotPlace(r)] = g[SnapshotPlace(r)]
                             /\ Pointer'[PinPlace(r)] = g[PinPlace(r)]
       /\ \A t \in Threads, j \in Nat : Pointer'[DropPlace(t, j)] = g[DropPlace(t, j)]
  BY <1>7, <1>11, PlaceFacts, PlacesDiffer, PointerAt, PointerNext
<1>15. Pointer' = g
  BY <1>11, <1>12, <1>13, <1>14, IsFunction, SamePlaces
<1>16. Count' = Count
  BY <1>1 DEF Count
<1> QED
  BY <1>10, <1>15, <1>16 DEF Tally

-----------------------------------------------------------------------------
(* The readers *)

LEMMA WriterPlaces ==
    ASSUME HeapInv, UNCHANGED <<root, writer>>,
           \A x \in Nodes : /\ node'[x].key = node[x].key /\ node'[x].nb = node[x].nb
                            /\ node'[x].lc = node[x].lc /\ node'[x].rc = node[x].rc
    PROVE  /\ \A x \in Nodes : (Live(x)' <=> Live(x)) =>
                               /\ Pointer'[LeftLink(x)] = Pointer[LeftLink(x)]
                               /\ Pointer'[RightLink(x)] = Pointer[RightLink(x)]
                               /\ Pointer'[RecordLink(x)] = Pointer[RecordLink(x)]
           /\ \A i \in Nat : /\ Pointer'[LeftKept(i)] = Pointer[LeftKept(i)]
                             /\ Pointer'[RightKept(i)] = Pointer[RightKept(i)]
           /\ Pointer'[RootPlace] = Pointer[RootPlace] /\ Pointer'[AtPlace] = Pointer[AtPlace]
           /\ Pointer'[MadePlace] = Pointer[MadePlace]
<1>1. /\ Waiting' = Waiting /\ (Built' <=> Built) /\ Key' = Key
      /\ writer.pc = "build" => Frame' = Frame
  BY DEF Waiting, Built, Key, Frame
<1>2. \A x : Cut(x)' <=> Cut(x)
  BY <1>1 DEF Cut
<1>3. \A x \in Nodes : (Live(x)' <=> Live(x)) =>
                       /\ LeftOf(x)' = LeftOf(x) /\ RightOf(x)' = RightOf(x)
                       /\ RecordOf(x)' = RecordOf(x)
  BY <1>1, <1>2 DEF LeftOf, RightOf, RecordOf, StaleLeft, StaleRight
<1>4. ASSUME NEW i \in Nat
      PROVE  KeptLeft(i)' = KeptLeft(i) /\ KeptRight(i)' = KeptRight(i)
  <2>1. Keeps(i)' <=> Keeps(i)
    BY <1>1 DEF Keeps
  <2>2. Keeps(i) => writer.stack[i].a \in Nodes
    BY FrameFacts DEF Keeps
  <2> QED
    BY <1>1, <2>1, <2>2 DEF KeptLeft, KeptRight
<1>5. OfRoot' = OfRoot /\ OfAt' = OfAt /\ OfMade' = OfMade
  BY <1>1 DEF OfRoot, OfAt, OfMade, RootHeld
<1> QED
  BY <1>3, <1>4, <1>5, PointerAt, PointerNext

LEMMA TakeRootTally ==
    ASSUME HeapInv, NEW r \in Readers, TakeRoot(r)
    PROVE  Tally'
<1>1. UNCHANGED <<node, block, root, writer, dropping>>
  BY DEF TakeRoot, heapVars
<1>2. \A s \in Readers : OfSnapshot(s)' = OfSnapshot(s) /\ OfPin(s)' = OfPin(s)
  <2>1. /\ reader[r].pc = "none"
        /\ reader' = [reader EXCEPT ![r] = [Away EXCEPT !.pc = "count", !.root = root]]
        /\ DOMAIN reader = Readers
    BY DEF TakeRoot, HeapInv, Types, ReaderTypes
  <2>2. /\ reader'[r].pc = "count" /\ \A s \in Readers : s # r => reader'[s] = reader[s]
    BY <2>1 DEF Away
  <2> QED
    BY <2>1, <2>2 DEF OfSnapshot, OfPin, Open
<1>3. \A t \in Threads, j \in Nat : OfDropping(t, j)' = OfDropping(t, j)
  BY <1>1 DEF OfDropping
<1>4. /\ \A s \in Readers : /\ Pointer'[SnapshotPlace(s)] = Pointer[SnapshotPlace(s)]
                            /\ Pointer'[PinPlace(s)] = Pointer[PinPlace(s)]
      /\ \A t \in Threads, j \in Nat : Pointer'[DropPlace(t, j)] = Pointer[DropPlace(t, j)]
  BY <1>2, <1>3, PointerAt, PointerNext
<1>5. \A x \in Nodes : /\ node'[x].key = node[x].key /\ node'[x].nb = node[x].nb
                       /\ node'[x].lc = node[x].lc /\ node'[x].rc = node[x].rc
                       /\ Live(x)' <=> Live(x)
  BY <1>1 DEF Live
<1>6. Pointer' = Pointer
  BY <1>1, <1>4, <1>5, WriterPlaces, IsFunction, SamePlaces
<1>7. Count' = Count
  BY <1>1 DEF Count
<1> QED
  BY <1>6, <1>7 DEF HeapInv, Tally

LEMMA CountRootTally ==
    ASSUME HeapInv, NEW r \in Readers, CountRoot(r)
    PROVE  Tally'
<1>1. PICK a : a = reader[r].root
  OBVIOUS
<1>2. /\ reader[r].pc = "count" /\ writer.pc = "idle" /\ a = root
      /\ node' = Incremented(node, {a})
      /\ reader' = [reader EXCEPT ![r].pc = "open"]
      /\ UNCHANGED <<block, root, writer, dropping>>
  BY <1>1 DEF CountRoot, HeapInv, Snapshots
<1>3. a \in Nodes /\ Live(a)
  <2>1. a \in Nodes
    BY <1>2 DEF HeapInv, Types, HeapTypes
  <2>2. OfRoot = NodeRef(a)
    BY <1>2 DEF OfRoot, RootHeld, Built
  <2> QED
    BY <2>1, <2>2, PlaceFacts, PointerAt, Held DEF HeapInv, Types
<1>4. /\ reader'[r].pc = "open" /\ reader'[r].root = a
      /\ \A s \in Readers : s # r => reader'[s] = reader[s]
  BY <1>1, <1>2 DEF HeapInv, Types, ReaderTypes
<1>5. \A x \in Nodes : /\ node'[x].key = node[x].key /\ node'[x].nb = node[x].nb
                       /\ node'[x].lc = node[x].lc /\ node'[x].rc = node[x].rc
                       /\ node'[x].ref = node[x].ref + (IF x = a THEN 1 ELSE 0)
                       /\ node[x].ref \in Nat
  <2>1. HeapTypes
    BY DEF HeapInv, Types
  <2>2. \A x \in Nodes : node[x].ref \in Nat
    BY <2>1, NodeTypes
  <2>3. \A x \in Nodes :
           /\ node'[x].key = node[x].key /\ node'[x].nb = node[x].nb
           /\ node'[x].lc = node[x].lc /\ node'[x].rc = node[x].rc
           /\ node'[x].ref = node[x].ref + (IF x \in {a} THEN 1 ELSE 0)
    BY <1>2, <2>1, IncrementedFacts
  <2> QED
    BY <2>2, <2>3
<1>6. \A x \in Nodes : Live(x)' <=> Live(x)
  BY <1>3, <1>5 DEF Live
<1>7. /\ OfSnapshot(r) = Nothing /\ OfSnapshot(r)' = NodeRef(a)
      /\ \A s \in Readers : /\ s # r => OfSnapshot(s)' = OfSnapshot(s)
                            /\ OfPin(s)' = OfPin(s)
  BY <1>2, <1>4 DEF OfSnapshot, OfPin, Open
<1>8. \A t \in Threads, j \in Nat : OfDropping(t, j)' = OfDropping(t, j)
  BY <1>2 DEF OfDropping
<1>9. Counts(Pointer, Count) /\ DOMAIN Pointer = Places /\ \A ref \in Refs : Count[ref] \in Nat
  BY CountAt, PointerAt DEF HeapInv, Tally, Types
<1> DEFINE d == SnapshotPlace(r)
           g == [Pointer EXCEPT ![d] = NodeRef(a)]
           c == Plus(Count, NodeRef(a))
<1>10. d \in Places /\ Pointer[d] \notin Refs
  BY <1>7, PlaceFacts, PointerAt, RefFacts
<1> HIDE DEF d
<1>11. Counts(g, c)
  BY <1>9, <1>10, Give
<1>12. /\ g = [p \in Places |-> g[p]] /\ g[d] = NodeRef(a)
       /\ \A p \in Places : p # d => g[p] = Pointer[p]
  BY <1>10, IsFunction
<1> HIDE DEF g, c
<1>13. /\ \A x \in Nodes : /\ Pointer'[LeftLink(x)] = g[LeftLink(x)]
                           /\ Pointer'[RightLink(x)] = g[RightLink(x)]
                           /\ Pointer'[RecordLink(x)] = g[RecordLink(x)]
       /\ \A i \in Nat : /\ Pointer'[LeftKept(i)] = g[LeftKept(i)]
                         /\ Pointer'[RightKept(i)] = g[RightKept(i)]
       /\ Pointer'[RootPlace] = g[RootPlace] /\ Pointer'[AtPlace] = g[AtPlace]
       /\ Pointer'[MadePlace] = g[MadePlace]
  <2>1. /\ \A x : LeftLink(x) # d /\ RightLink(x) # d /\ RecordLink(x) # d
        /\ \A i : LeftKept(i) # d /\ RightKept(i) # d
        /\ RootPlace # d /\ AtPlace # d /\ MadePlace # d
    BY PlacesDiffer DEF d
  <2> QED
    BY <1>2, <1>5, <1>6, <1>12, <2>1, WriterPlaces, PlaceFacts, ZenonT(40)
<1>14. ASSUME NEW s \in Readers
       PROVE  /\ Pointer'[SnapshotPlace(s)] = g[SnapshotPlace(s)]
              /\ Pointer'[PinPlace(s)] = g[PinPlace(s)]
  <2>1. /\ SnapshotPlace(s) = d <=> s = r
        /\ PinPlace(s) # d /\ SnapshotPlace(s) \in Places /\ PinPlace(s) \in Places
    BY PlaceFacts, PlacesDiffer DEF d
  <2> QED
    BY <1>7, <1>12, <2>1, PointerAt, PointerNext
<1>15. ASSUME NEW t \in Threads, NEW j \in Nat
       PROVE  Pointer'[DropPlace(t, j)] = g[DropPlace(t, j)]
  <2>1. DropPlace(t, j) # d /\ DropPlace(t, j) \in Places
    BY PlaceFacts, PlacesDiffer DEF d
  <2> QED
    BY <1>8, <1>12, <2>1, PointerAt, PointerNext
<1>16. Pointer' = g
  BY <1>12, <1>13, <1>14, <1>15, IsFunction, SamePlaces
<1>17. \A ref \in Refs : Count'[ref] = c[ref]
  <2>1. \A ref \in Refs : c[ref] = IF ref = NodeRef(a) THEN Count[ref] + 1 ELSE Count[ref]
    BY DEF c, Plus
  <2>2. ASSUME NEW x \in Nodes
        PROVE  Count'[NodeRef(x)] = c[NodeRef(x)]
    <3>1. /\ NodeRef(x) \in Refs /\ (NodeRef(x) = NodeRef(a) <=> x = a)
          /\ Count'[NodeRef(x)] = node'[x].ref /\ Count[NodeRef(x)] = node[x].ref
      BY CountOf, RefFacts
    <3> QED
      BY <1>5, <2>1, <3>1
  <2>3. ASSUME NEW x \in Blocks
        PROVE  Count'[BlockRef(x)] = c[BlockRef(x)]
    <3>1. /\ BlockRef(x) \in Refs /\ BlockRef(x) # NodeRef(a)
          /\ Count'[BlockRef(x)] = block'[x].ref /\ Count[BlockRef(x)] = block[x].ref
      BY CountOf, RefFacts
    <3> QED
      BY <1>2, <2>1, <3>1
  <2> QED
    BY <2>2, <2>3, RefFacts
<1> QED
  BY <1>11, <1>16, <1>17, CountsSame DEF Tally

-----------------------------------------------------------------------------
(* What can be reached *)

LEMMA UpTo ==
    ASSUME NEW N \in Nat, NEW S, 0 \in S, \A n \in 1..N : n - 1 \in S => n \in S
    PROVE  \A n \in 0..N : n \in S
<1> DEFINE bad == {n \in 0..N : n \notin S}
<1>1. SUFFICES ASSUME bad # {}
               PROVE  FALSE
  OBVIOUS
<1>2. bad \subseteq Nat
  OBVIOUS
<1> HIDE DEF bad
<1>3. PICK i \in bad : \A j \in bad : i <= j
  BY <1>1, <1>2, LeastNumber
<1>4. i \in 0..N /\ i \notin S /\ i # 0
  BY <1>3 DEF bad
<1>5. i - 1 \in 0..N /\ i - 1 < i /\ i \in 1..N
  BY <1>4
<1>6. i - 1 \in bad
  BY <1>4, <1>5 DEF bad
<1>7. i <= i - 1
  BY <1>3, <1>6
<1> QED
  BY <1>5, <1>7

Spreads(g, links, a, k) ==
    g = [n \in 0..k |-> IF n = 0 THEN {a} ELSE g[n-1] \cup UNION {links[x] : x \in g[n-1]}]

Levels(g, links, N) == \A n \in 1..N : g[n] = g[n-1] \cup UNION {links[x] : x \in g[n-1]}

LEMMA SpreadExists ==
    ASSUME NEW links, NEW a, NEW N \in Nat
    PROVE  \E g : Spreads(g, links, a, N)
<1> DEFINE S == {k \in 0..N : \E g : Spreads(g, links, a, k)}
<1>1. 0 \in S
  <2> DEFINE g == [n \in 0..0 |-> {a}]
  <2>1. Spreads(g, links, a, 0)
    BY DEF Spreads
  <2> QED
    BY <2>1
<1>2. ASSUME NEW k \in 1..N, k - 1 \in S
      PROVE  k \in S
  <2>1. PICK g : Spreads(g, links, a, k - 1)
    BY <1>2
  <2> DEFINE h == [n \in 0..k |-> IF n = k THEN g[k-1] \cup UNION {links[x] : x \in g[k-1]} ELSE g[n]]
  <2>2. h = [n \in 0..k |-> IF n = 0 THEN {a} ELSE h[n-1] \cup UNION {links[x] : x \in h[n-1]}]
    <3>1. ASSUME NEW n \in 0..k
          PROVE  h[n] = IF n = 0 THEN {a} ELSE h[n-1] \cup UNION {links[x] : x \in h[n-1]}
      <4>1. CASE n = k
        <5>1. h[n-1] = g[k-1] /\ n # 0
          BY <4>1
        <5>2. h[n] = g[k-1] \cup UNION {links[x] : x \in g[k-1]}
          BY <4>1
        <5> HIDE DEF h
        <5> QED
          BY <4>1, <5>1, <5>2
      <4>2. CASE n # k
        <5>1. n \in 0..k-1 /\ h[n] = g[n] /\ (n # 0 => h[n-1] = g[n-1])
          BY <4>2
        <5>2. g[n] = IF n = 0 THEN {a} ELSE g[n-1] \cup UNION {links[x] : x \in g[n-1]}
          BY <2>1, <5>1 DEF Spreads
        <5> HIDE DEF h
        <5> QED
          BY <5>1, <5>2
      <4> QED
        BY <4>1, <4>2
    <3> QED
      BY <3>1
  <2> HIDE DEF h
  <2>3. Spreads(h, links, a, k)
    BY <2>2 DEF Spreads
  <2> QED
    BY <2>3
<1> HIDE DEF S
<1>3. \A k \in 0..N : k \in S
  BY <1>1, <1>2, UpTo
<1> QED
  BY <1>3 DEF S

LEMMA ReachIs ==
    ASSUME NEW links, NEW a
    PROVE  \E g : /\ Spreads(g, links, a, Cardinality(Vertices))
                  /\ Reach(links, a) = g[Cardinality(Vertices)]
<1> DEFINE N == Cardinality(Vertices)
<1>1. N \in Nat
  BY Constants
<1>2. \E g : Spreads(g, links, a, N)
  BY <1>1, SpreadExists
<1>3. Spreads((CHOOSE g : Spreads(g, links, a, N)), links, a, N)
  BY <1>2
<1>4. Reach(links, a) = (CHOOSE g : Spreads(g, links, a, N))[N]
  BY DEF Reach, Spreads
<1> QED
  BY <1>3, <1>4

\* How what is reached grows from one level to the next.
LEMMA SpreadFacts ==
    ASSUME NEW links, NEW a, NEW N \in Nat, NEW g, Spreads(g, links, a, N)
    PROVE  /\ g[0] = {a} /\ Levels(g, links, N)
           /\ \A n \in 1..N : g[n-1] \subseteq g[n] /\ \A x \in g[n-1] : links[x] \subseteq g[n]
           /\ \A n \in 0..N : g[n] \subseteq g[N]
<1>1. g[0] = {a}
  BY DEF Spreads
<1>2. ASSUME NEW n \in 1..N
      PROVE  g[n] = g[n-1] \cup UNION {links[x] : x \in g[n-1]}
  <2>1. n \in 0..N /\ n # 0
    OBVIOUS
  <2> QED
    BY <2>1 DEF Spreads
<1>3. \A n \in 1..N : g[n-1] \subseteq g[n] /\ \A x \in g[n-1] : links[x] \subseteq g[n]
  BY <1>2
<1>4. \A n \in 0..N : g[n] \subseteq g[N]
  <2> DEFINE S == {k \in 0..N : g[N-k] \subseteq g[N]}
  <2>1. 0 \in S
    OBVIOUS
  <2>2. ASSUME NEW k \in 1..N, k - 1 \in S
        PROVE  k \in S
    <3>1. N - (k - 1) \in 1..N /\ N - (k - 1) - 1 = N - k /\ k \in 0..N
      OBVIOUS
    <3>2. g[N - (k - 1) - 1] \subseteq g[N - (k - 1)]
      BY <1>3, <3>1
    <3>3. g[N - (k - 1)] \subseteq g[N]
      BY <2>2
    <3> QED
      BY <3>1, <3>2, <3>3
  <2> HIDE DEF S
  <2>3. \A k \in 0..N : k \in S
    BY <2>1, <2>2, UpTo
  <2>4. ASSUME NEW n \in 0..N
        PROVE  g[n] \subseteq g[N]
    <3>1. N - n \in 0..N /\ N - (N - n) = n
      OBVIOUS
    <3>2. g[N - (N - n)] \subseteq g[N]
      BY <2>3, <3>1 DEF S
    <3> QED
      BY <3>1, <3>2
  <2> QED
    BY <2>4
<1> QED
  BY <1>1, <1>2, <1>3, <1>4 DEF Levels

\* What is reached stays in a set that the links do not leave, and is the same for links
\* that agree on that set.
LEMMA ReachStays ==
    ASSUME NEW links, NEW a, NEW S, a \in S, \A x \in S : links[x] \subseteq S
    PROVE  a \in Reach(links, a) /\ Reach(links, a) \subseteq S
<1> DEFINE N == Cardinality(Vertices)
<1>1. N \in Nat
  BY Constants
<1>2. PICK g : Spreads(g, links, a, N) /\ Reach(links, a) = g[N]
  BY ReachIs
<1> HIDE DEF N
<1>3. g[0] = {a} /\ g[0] \subseteq g[N] /\ Levels(g, links, N)
  <2>1. 0 \in 0..N
    BY <1>1
  <2> QED
    BY <1>1, <1>2, <2>1, SpreadFacts
<1> DEFINE K == {n \in 0..N : g[n] \subseteq S}
<1>4. 0 \in K
  BY <1>1, <1>3
<1>5. ASSUME NEW n \in 1..N, n - 1 \in K
      PROVE  n \in K
  <2>1. g[n-1] \subseteq S /\ n \in 0..N
    BY <1>5
  <2>2. g[n] = g[n-1] \cup UNION {links[x] : x \in g[n-1]}
    BY <1>3 DEF Levels
  <2> QED
    BY <2>1, <2>2
<1> HIDE DEF K
<1>6. N \in K
  BY <1>1, <1>4, <1>5, UpTo
<1> QED
  BY <1>2, <1>3, <1>6 DEF K

LEMMA ReachSame ==
    ASSUME NEW links, NEW other, NEW a, NEW S, a \in S, \A x \in S : links[x] \subseteq S,
           \A x \in S : other[x] = links[x]
    PROVE  Reach(other, a) = Reach(links, a)
<1> DEFINE N == Cardinality(Vertices)
<1>1. N \in Nat
  BY Constants
<1>2. PICK g : Spreads(g, links, a, N) /\ Reach(links, a) = g[N]
  BY ReachIs
<1>3. PICK h : Spreads(h, other, a, N) /\ Reach(other, a) = h[N]
  BY ReachIs
<1> HIDE DEF N
<1>4. g[0] = {a} /\ Levels(g, links, N)
  BY <1>1, <1>2, SpreadFacts
<1>5. h[0] = {a} /\ Levels(h, other, N)
  BY <1>1, <1>3, SpreadFacts
<1> DEFINE K == {n \in 0..N : h[n] = g[n] /\ g[n] \subseteq S}
<1>6. 0 \in K
  <2>1. 0 \in 0..N /\ h[0] = g[0] /\ g[0] \subseteq S
    BY <1>1, <1>4, <1>5
  <2> QED
    BY <2>1
<1>7. ASSUME NEW n \in 1..N, n - 1 \in K
      PROVE  n \in K
  <2>1. h[n-1] = g[n-1] /\ g[n-1] \subseteq S /\ n \in 0..N
    BY <1>7
  <2>2. /\ g[n] = g[n-1] \cup UNION {links[x] : x \in g[n-1]}
        /\ h[n] = h[n-1] \cup UNION {other[x] : x \in h[n-1]}
    BY <1>4, <1>5 DEF Levels
  <2>3. UNION {other[x] : x \in g[n-1]} = UNION {links[x] : x \in g[n-1]}
    BY <2>1
  <2>4. UNION {links[x] : x \in g[n-1]} \subseteq S
    BY <2>1
  <2> QED
    BY <2>1, <2>2, <2>3, <2>4
<1> HIDE DEF K
<1>8. N \in K
  BY <1>1, <1>6, <1>7, UpTo
<1> QED
  BY <1>2, <1>3, <1>8 DEF K

\* The nodes that the writer does not change.
Still == {x \in Nodes : Live(x) /\ ~Opened(x)}

\* What the writer changes has one reference: the root's, its own, or one in a node that
\* it changes too.
LEMMA OpenedHeld ==
    ASSUME HeapInv, NEW y \in Nodes, Opened(y)
    PROVE  /\ node[y].ref = 1
           /\ \E p \in Places : /\ Pointer[p] = NodeRef(y)
                                /\ \/ p \in {RootPlace, AtPlace}
                                   \/ \E x : Opened(x) /\ p \in {LeftLink(x), RightLink(x)}
<1>1. CASE Built /\ y = writer.at
  BY <1>1, AtFacts
<1>2. CASE \E i \in 1..Waiting : y = writer.stack[i].a /\ ~writer.stack[i].copy
  <2>1. PICK i \in 1..Waiting : y = writer.stack[i].a /\ ~writer.stack[i].copy
    BY <1>2
  <2>2. /\ i \in Nat /\ i > 0 /\ i <= Len(writer.stack) /\ node[y].ref = 1
        /\ i > 1 => i - 1 \in 1..Waiting
    BY <2>1, FrameFacts
  <2>3. Holder(i) \in Places /\ Pointer[Holder(i)] = NodeRef(y)
    BY <2>1, HolderHolds
  <2>4. i \in DOMAIN writer.stack
    BY <2>2, StackFacts, ItemsOf DEF HeapInv, Types
  <2>5. ~(i > 1 /\ writer.stack[i-1].copy)
    BY <2>1, <2>4 DEF HeapInv, Path, Frames
  <2>6. CASE i = 1
    BY <2>2, <2>3, <2>6 DEF Holder
  <2>7. CASE i > 1
    <3>1. Opened(writer.stack[i-1].a)
      BY <2>2, <2>5, <2>7 DEF Opened
    <3>2. Holder(i) \in {LeftLink(writer.stack[i-1].a), RightLink(writer.stack[i-1].a)}
      BY <2>2, <2>7 DEF Holder
    <3> QED
      BY <2>2, <2>3, <3>1, <3>2
  <2> QED
    BY <2>2, <2>6, <2>7
<1> QED
  BY <1>1, <1>2 DEF Opened

LEMMA CutIsOpened ==
    ASSUME HeapInv, NEW x, Cut(x)
    PROVE  Opened(x)
<1>1. CASE Built /\ x = writer.at
  BY <1>1 DEF Opened
<1>2. CASE Built /\ Waiting > 0 /\ x = writer.stack[Waiting].a /\ ~writer.stack[Waiting].copy
  <2>1. Waiting \in 1..Waiting
    BY <1>2, AtFacts
  <2> QED
    BY <1>2, <2>1 DEF Opened
<1>3. CASE writer.pc = "build" /\ writer.made # Null /\ x = Frame.a /\ ~Frame.copy
  <2>1. writer.stack # <<>>
    BY <1>3 DEF HeapInv, Path
  <2>2. Frame = writer.stack[Waiting] /\ Waiting \in 1..Waiting
    BY <1>3, <2>1, StackFacts DEF HeapInv, Types, Waiting, Built
  <2> QED
    BY <1>3, <2>2 DEF Opened
<1> QED
  BY <1>1, <1>2, <1>3 DEF Cut

LEMMA StillClosed ==
    ASSUME HeapInv, NEW x \in Still
    PROVE  /\ x \in Nodes /\ Live(x) /\ ~StaleLeft(x) /\ ~StaleRight(x)
           /\ node[x].lc # Null => node[x].lc \in Still
           /\ node[x].rc # Null => node[x].rc \in Still
           /\ Children(x) \subseteq Still
<1>1. x \in Nodes /\ Live(x) /\ ~Opened(x)
  BY DEF Still
<1>2. ~StaleLeft(x) /\ ~StaleRight(x)
  BY <1>1, CutIsOpened DEF StaleLeft, StaleRight
<1>3. /\ node[x].lc # Null => /\ node[x].lc \in Nodes /\ Live(node[x].lc)
                              /\ Pointer[LeftLink(x)] = NodeRef(node[x].lc)
      /\ node[x].rc # Null => /\ node[x].rc \in Nodes /\ Live(node[x].rc)
                              /\ Pointer[RightLink(x)] = NodeRef(node[x].rc)
  BY <1>1, <1>2, Links DEF HeapInv, Types
<1>4. ASSUME NEW y \in Nodes, NEW q \in {LeftLink(x), RightLink(x)}, Pointer[q] = NodeRef(y)
      PROVE  ~Opened(y)
  <2>1. SUFFICES ASSUME Opened(y)
                 PROVE  FALSE
    OBVIOUS
  <2>2. PICK p \in Places : /\ Pointer[p] = NodeRef(y)
                            /\ \/ p \in {RootPlace, AtPlace}
                               \/ \E z : Opened(z) /\ p \in {LeftLink(z), RightLink(z)}
    BY <2>1, OpenedHeld
  <2>3. node[y].ref = 1
    BY <2>1, OpenedHeld
  <2>4. p # q
    BY <1>1, <2>2, PlacesDiffer
  <2>5. q \in Places
    BY <1>1, PlaceFacts
  <2>6. node[y].ref > 1
    BY <1>4, <2>2, <2>4, <2>5, Held DEF HeapInv, Types
  <2> QED
    BY <2>3, <2>6
<1>5. /\ node[x].lc # Null => node[x].lc \in Still
      /\ node[x].rc # Null => node[x].rc \in Still
  BY <1>3, <1>4 DEF Still
<1>6. Children(x) \subseteq Still
  BY <1>5 DEF Children
<1> QED
  BY <1>1, <1>2, <1>5, <1>6

LEMMA SnapshotStill ==
    ASSUME HeapInv, NEW r \in Readers, Open(r)
    PROVE  reader[r].root \in Still
<1>1. Pointer[SnapshotPlace(r)] = NodeRef(reader[r].root) /\ SnapshotPlace(r) \in Places
  BY PointerAt, PlaceFacts DEF OfSnapshot
<1>2. reader[r].root \in Nodes
  BY Constants DEF HeapInv, Types, ReaderTypes, Snapshots, Nodes
<1>3. Live(reader[r].root)
  BY <1>1, <1>2, Held DEF HeapInv, Types
<1>4. ~Opened(reader[r].root)
  <2>1. SUFFICES ASSUME Opened(reader[r].root)
                 PROVE  FALSE
    OBVIOUS
  <2>2. PICK p \in Places : /\ Pointer[p] = NodeRef(reader[r].root)
                            /\ \/ p \in {RootPlace, AtPlace}
                               \/ \E z : Opened(z) /\ p \in {LeftLink(z), RightLink(z)}
    BY <1>2, <2>1, OpenedHeld
  <2>3. p # SnapshotPlace(r)
    BY <2>2, PlacesDiffer
  <2>4. node[reader[r].root].ref > 1
    BY <1>1, <1>2, <2>2, <2>3, Held DEF HeapInv, Types
  <2> QED
    BY <1>2, <2>1, <2>4, OpenedHeld
<1> QED
  BY <1>2, <1>3, <1>4 DEF Still

LEMMA TreeStill ==
    ASSUME HeapInv, NEW a \in Still
    PROVE  a \in TreeNodes(a) /\ TreeNodes(a) \subseteq Still
<1> DEFINE links == [x \in DOMAIN node |-> Children(x)]
<1>1. \A x \in Still : links[x] \subseteq Still
  BY StillClosed DEF HeapInv, Types, HeapTypes
<1> HIDE DEF links
<1>2. a \in Reach(links, a) /\ Reach(links, a) \subseteq Still
  BY <1>1, ReachStays
<1> QED
  BY <1>2 DEF TreeNodes, links

\* Every vertex is found from the root of a whole tree.
LEMMA Found ==
    ASSUME HeapInv, NEW a \in Still, node[a].key = RootVertex, NEW u \in Vertices
    PROVE  Find(a, u) \in TreeNodes(a) /\ node[Find(a, u)].key = u
<1> DEFINE links == [x \in DOMAIN node |-> Children(x)]
           N == Cardinality(Vertices)
<1>1. N \in Nat
  BY Constants
<1>2. PICK g : Spreads(g, links, a, N) /\ Reach(links, a) = g[N]
  BY ReachIs
<1>3. TreeNodes(a) = g[N]
  BY <1>2 DEF TreeNodes
<1>4. \A x \in Still : links[x] = Children(x)
  BY DEF Still, HeapInv, Types, HeapTypes
<1> HIDE DEF links, N
<1>5. /\ g[0] = {a}
      /\ \A n \in 1..N : g[n-1] \subseteq g[n] /\ \A x \in g[n-1] : links[x] \subseteq g[n]
      /\ \A n \in 0..N : g[n] \subseteq g[N]
  <2>1. g[0] = {a} /\ Levels(g, links, N)
    BY <1>1, <1>2, SpreadFacts
  <2>2. \A n \in 0..N : g[n] \subseteq g[N]
    BY <1>1, <1>2, SpreadFacts
  <2>3. \A n \in 1..N : g[n-1] \subseteq g[n] /\ \A x \in g[n-1] : links[x] \subseteq g[n]
    BY <2>1 DEF Levels
  <2> QED
    BY <2>1, <2>2, <2>3
<1> DEFINE found == \E x \in g[N] : node[x].key = u
           At(x, d) == x \in Still /\ u \in Below[node[x].key] /\ Depth[node[x].key] = d
           K == {d \in 0..N : found \/ \E x \in g[d] : At(x, d)}
<1>6. 0 \in K
  <2>1. u \in Below[RootVertex] /\ Depth[RootVertex] = 0
    BY TreeFacts, Constants DEF IsBelow, IsDepth
  <2> QED
    BY <1>1, <1>5, <2>1
<1>7. ASSUME NEW d \in 1..N, d - 1 \in K
      PROVE  d \in K
  <2>1. CASE found
    BY <2>1
  <2>2. CASE ~found
    <3>1. PICK x \in g[d-1] : At(x, d-1)
      BY <1>7, <2>2
    <3> DEFINE v == node[x].key
    <3>2. /\ x \in Still /\ u \in Below[v] /\ Depth[v] = d - 1 /\ v \in Vertices /\ u \in Nat /\ v \in Nat
      BY <3>1, Constants DEF Still, HeapInv, Shape
    <3>3. x \in g[N] /\ v # u
      <4>1. d - 1 \in 0..N
        BY <1>1
      <4> QED
        BY <1>5, <2>2, <3>1, <4>1
    <3> HIDE DEF v
    <3>4. /\ x \in Nodes /\ Live(x) /\ ~StaleLeft(x) /\ ~StaleRight(x)
          /\ node[x].lc # Null => node[x].lc \in Still
          /\ node[x].rc # Null => node[x].rc \in Still
      BY <3>2, StillClosed
    <3>5. ASSUME NEW y \in Still, y \in Children(x), NEW w \in {Left[v], Right[v]}, node[y].key = w,
                 w \in Vertices, u \in Below[w]
          PROVE  d \in K
      <4>1. y \in g[d]
        BY <1>4, <1>5, <3>1, <3>2, <3>5
      <4>2. Depth[w] = Depth[v] + 1
        BY <3>2, <3>5, TreeFacts DEF IsDepth
      <4>3. Depth[w] = d
        BY <1>1, <3>2, <4>2
      <4>4. At(y, d) /\ d \in 0..N
        BY <3>5, <4>3
      <4> QED
        BY <4>1, <4>4
    <3>6. CASE u < v
      <4>1. Left[v] \in Vertices /\ u \in Below[Left[v]]
        BY <3>2, <3>6, SearchGoesDown
      <4>2. node[x].lc # Null /\ node[node[x].lc].key = Left[v]
        BY <3>4, <4>1, Links, Constants DEF HeapInv, Types, v
      <4>3. node[x].lc \in Still /\ node[x].lc \in Children(x)
        BY <3>4, <4>2 DEF Children
      <4> QED
        BY <3>5, <4>1, <4>2, <4>3
    <3>7. CASE v < u
      <4>1. Right[v] \in Vertices /\ u \in Below[Right[v]]
        BY <3>2, <3>7, SearchGoesDown
      <4>2. node[x].rc # Null /\ node[node[x].rc].key = Right[v]
        BY <3>4, <4>1, Links, Constants DEF HeapInv, Types, v
      <4>3. node[x].rc \in Still /\ node[x].rc \in Children(x)
        BY <3>4, <4>2 DEF Children
      <4> QED
        BY <3>5, <4>1, <4>2, <4>3
    <3> QED
      BY <3>2, <3>3, <3>6, <3>7
  <2> QED
    BY <2>1, <2>2
<1> HIDE DEF K
<1>8. N \in K
  BY <1>1, <1>6, <1>7, UpTo
<1>9. found
  <2>1. SUFFICES ASSUME NEW x \in g[N], At(x, N)
                 PROVE  FALSE
    BY <1>8 DEF K
  <2>2. node[x].key \in Vertices /\ Depth[node[x].key] = N
    BY <2>1 DEF Still, HeapInv, Shape
  <2>3. Depth[node[x].key] \in 0..N-1
    BY <2>2, TreeFacts DEF IsDepth, N
  <2> QED
    BY <1>1, <2>2, <2>3
<1>10. \E x \in TreeNodes(a) : node[x].key = u
  BY <1>3, <1>9
<1> QED
  BY <1>10 DEF Find

-----------------------------------------------------------------------------
(* What a reader takes and gives back *)

Raised(b) ==
    \A x \in Blocks : /\ block'[x].dests = block[x].dests
                       /\ block'[x].ref = block[x].ref + (IF x = b THEN 1 ELSE 0)
                       /\ block[x].ref \in Nat

Finding(r, op, b) == b = node[Find(reader[r].root, op.u)].nb

LEMMA FindRecordFacts ==
    ASSUME HeapInv, NEW r \in Readers, NEW op \in ReadOps, FindRecord(r, op),
           NEW b, Finding(r, op, b)
    PROVE  /\ reader[r].pc = "open" /\ dropping[r] = <<>> /\ b \in Blocks
           /\ reader'[r].pc = "read" /\ reader'[r].pin = b /\ reader'[r].op = op
           /\ reader'[r].root = reader[r].root
           /\ \A s \in Readers : s # r => reader'[s] = reader[s]
           /\ reader' = [reader EXCEPT ![r] = [reader[r] EXCEPT !.pc = "read", !.pin = b, !.op = op]]
           /\ Raised(b)
           /\ block' \in [Blocks -> [dests : SUBSET Vertices, ref : Nat]]
           /\ UNCHANGED <<node, root, writer, dropping>>
<1>1. /\ reader[r].pc = "open" /\ dropping[r] = <<>> /\ block' = Incremented(block, {b})
      /\ reader' = [reader EXCEPT ![r] = [reader[r] EXCEPT !.pc = "read", !.pin = b, !.op = op]]
      /\ UNCHANGED <<node, root, writer, dropping>>
  BY DEF FindRecord, Finding
<1>2. /\ reader[r].root \in Still /\ node[reader[r].root].key = RootVertex /\ op.u \in Vertices
  BY <1>1, SnapshotStill, Constants DEF Open, HeapInv, Snapshots
<1>3. Find(reader[r].root, op.u) \in Still
  BY <1>2, Found, TreeStill
<1>4. b \in Blocks
  BY <1>3 DEF Still, HeapInv, Shape, Finding
<1>5. /\ reader'[r].pc = "read" /\ reader'[r].pin = b /\ reader'[r].op = op
      /\ reader'[r].root = reader[r].root
      /\ \A s \in Readers : s # r => reader'[s] = reader[s]
  BY <1>1 DEF HeapInv, Types, ReaderTypes
<1>6. block \in [Blocks -> [dests : SUBSET Vertices, ref : Nat]]
  BY DEF HeapInv, Types, HeapTypes
<1>7. ASSUME NEW x \in Blocks
      PROVE  /\ block'[x] \in [dests : SUBSET Vertices, ref : Nat]
             /\ block'[x].dests = block[x].dests
             /\ block'[x].ref = block[x].ref + (IF x = b THEN 1 ELSE 0)
             /\ block[x].ref \in Nat
  <2>1. block[x] \in [dests : SUBSET Vertices, ref : Nat] /\ x \in DOMAIN block
    BY <1>6
  <2>2. block'[x] = IF x = b THEN [block[x] EXCEPT !.ref = block[x].ref + 1] ELSE block[x]
    BY <1>1, <2>1 DEF Incremented
  <2> QED
    BY <2>1, <2>2
<1>8. block' = [x \in Blocks |-> block'[x]]
  BY <1>1, <1>6 DEF Incremented
<1>9. block' \in [Blocks -> [dests : SUBSET Vertices, ref : Nat]]
  BY <1>7, <1>8
<1> QED
  BY <1>1, <1>4, <1>5, <1>7, <1>9 DEF Raised

LEMMA FindRecordTally ==
    ASSUME HeapInv, NEW r \in Readers, NEW op \in ReadOps, FindRecord(r, op)
    PROVE  Tally'
<1>1. PICK b : b = node[Find(reader[r].root, op.u)].nb
  OBVIOUS
<1>2. /\ reader[r].pc = "open" /\ b \in Blocks
      /\ reader'[r].pc = "read" /\ reader'[r].pin = b
      /\ reader'[r].root = reader[r].root
      /\ \A s \in Readers : s # r => reader'[s] = reader[s]
      /\ \A x \in Blocks : /\ block'[x].ref = block[x].ref + (IF x = b THEN 1 ELSE 0)
                           /\ block[x].ref \in Nat
      /\ UNCHANGED <<node, root, writer, dropping>>
  <2>1. Finding(r, op, b)
    BY <1>1 DEF Finding
  <2>2. /\ reader[r].pc = "open" /\ b \in Blocks
        /\ reader'[r].pc = "read" /\ reader'[r].pin = b
        /\ reader'[r].root = reader[r].root
        /\ UNCHANGED <<node, root, writer, dropping>>
    BY <2>1, FindRecordFacts
  <2>3. \A s \in Readers : s # r => reader'[s] = reader[s]
    BY <2>1, FindRecordFacts
  <2>4. \A x \in Blocks : /\ block'[x].ref = block[x].ref + (IF x = b THEN 1 ELSE 0)
                           /\ block[x].ref \in Nat
    <3>1. Raised(b)
      BY <2>1, FindRecordFacts
    <3> QED
      BY <3>1 DEF Raised
  <2> QED
    BY <2>2, <2>3, <2>4
<1>3. \A x \in Nodes : /\ node'[x].key = node[x].key /\ node'[x].nb = node[x].nb
                       /\ node'[x].lc = node[x].lc /\ node'[x].rc = node[x].rc
                       /\ Live(x)' <=> Live(x)
  BY <1>2 DEF Live
<1>4. /\ OfPin(r) = Nothing /\ OfPin(r)' = BlockRef(b)
      /\ \A s \in Readers : /\ s # r => OfPin(s)' = OfPin(s)
                            /\ OfSnapshot(s)' = OfSnapshot(s)
  BY <1>2 DEF OfSnapshot, OfPin, Open
<1>5. \A t \in Threads, j \in Nat : OfDropping(t, j)' = OfDropping(t, j)
  BY <1>2 DEF OfDropping
<1>6. Counts(Pointer, Count) /\ DOMAIN Pointer = Places /\ \A ref \in Refs : Count[ref] \in Nat
  BY CountAt, PointerAt DEF HeapInv, Tally, Types
<1> DEFINE d == PinPlace(r)
           g == [Pointer EXCEPT ![d] = BlockRef(b)]
           c == Plus(Count, BlockRef(b))
<1>7. d \in Places /\ Pointer[d] \notin Refs
  BY <1>4, PlaceFacts, PointerAt, RefFacts
<1> HIDE DEF d
<1>8. Counts(g, c)
  BY <1>6, <1>7, Give
<1>9. /\ g = [p \in Places |-> g[p]] /\ g[d] = BlockRef(b)
      /\ \A p \in Places : p # d => g[p] = Pointer[p]
  BY <1>7, IsFunction
<1> HIDE DEF g, c
<1>10. /\ \A x \in Nodes : /\ Pointer'[LeftLink(x)] = g[LeftLink(x)]
                           /\ Pointer'[RightLink(x)] = g[RightLink(x)]
                           /\ Pointer'[RecordLink(x)] = g[RecordLink(x)]
       /\ \A i \in Nat : /\ Pointer'[LeftKept(i)] = g[LeftKept(i)]
                         /\ Pointer'[RightKept(i)] = g[RightKept(i)]
       /\ Pointer'[RootPlace] = g[RootPlace] /\ Pointer'[AtPlace] = g[AtPlace]
       /\ Pointer'[MadePlace] = g[MadePlace]
  <2>1. /\ \A x : LeftLink(x) # d /\ RightLink(x) # d /\ RecordLink(x) # d
        /\ \A i : LeftKept(i) # d /\ RightKept(i) # d
        /\ RootPlace # d /\ AtPlace # d /\ MadePlace # d
    BY PlacesDiffer DEF d
  <2> QED
    BY <1>2, <1>3, <1>9, <2>1, WriterPlaces, PlaceFacts
<1>11. ASSUME NEW s \in Readers
       PROVE  /\ Pointer'[SnapshotPlace(s)] = g[SnapshotPlace(s)]
              /\ Pointer'[PinPlace(s)] = g[PinPlace(s)]
  <2>1. /\ PinPlace(s) = d <=> s = r
        /\ SnapshotPlace(s) # d /\ SnapshotPlace(s) \in Places /\ PinPlace(s) \in Places
    BY PlaceFacts, PlacesDiffer DEF d
  <2> QED
    BY <1>4, <1>9, <2>1, PointerAt, PointerNext
<1>12. ASSUME NEW t \in Threads, NEW j \in Nat
       PROVE  Pointer'[DropPlace(t, j)] = g[DropPlace(t, j)]
  <2>1. DropPlace(t, j) # d /\ DropPlace(t, j) \in Places
    BY PlaceFacts, PlacesDiffer DEF d
  <2> QED
    BY <1>5, <1>9, <2>1, PointerAt, PointerNext
<1>13. Pointer' = g
  BY <1>9, <1>10, <1>11, <1>12, IsFunction, SamePlaces
<1>14. \A ref \in Refs : Count'[ref] = c[ref]
  <2>1. \A ref \in Refs : c[ref] = IF ref = BlockRef(b) THEN Count[ref] + 1 ELSE Count[ref]
    BY DEF c, Plus
  <2>2. ASSUME NEW x \in Nodes
        PROVE  Count'[NodeRef(x)] = c[NodeRef(x)]
    <3>1. /\ NodeRef(x) \in Refs /\ NodeRef(x) # BlockRef(b)
          /\ Count'[NodeRef(x)] = node'[x].ref /\ Count[NodeRef(x)] = node[x].ref
      BY CountOf, RefFacts
    <3> QED
      BY <1>2, <2>1, <3>1
  <2>3. ASSUME NEW x \in Blocks
        PROVE  Count'[BlockRef(x)] = c[BlockRef(x)]
    <3>1. /\ BlockRef(x) \in Refs /\ (BlockRef(x) = BlockRef(b) <=> x = b)
          /\ Count'[BlockRef(x)] = block'[x].ref /\ Count[BlockRef(x)] = block[x].ref
      BY CountOf, RefFacts
    <3> QED
      BY <1>2, <2>1, <3>1
  <2> QED
    BY <2>2, <2>3, RefFacts
<1> QED
  BY <1>8, <1>13, <1>14, CountsSame DEF Tally

\* A reader hands what it holds in p over to what it has to give back.
LEMMA HandedBack ==
    ASSUME HeapInv, NEW r \in Readers, dropping[r] = <<>>, NEW ref,
           NEW p \in {SnapshotPlace(r), PinPlace(r)}, Pointer[p] = ref,
           UNCHANGED <<node, block, root, writer>>,
           dropping' = [dropping EXCEPT ![r] = <<ref>>],
           \A s \in Readers : /\ SnapshotPlace(s) # p => OfSnapshot(s)' = OfSnapshot(s)
                              /\ PinPlace(s) # p => OfPin(s)' = OfPin(s),
           p = SnapshotPlace(r) => OfSnapshot(r)' = Nothing,
           p = PinPlace(r) => OfPin(r)' = Nothing
    PROVE  Tally'
<1>1. r \in Threads /\ DOMAIN dropping = Threads
  BY DEF HeapInv, Types, HeapTypes, Threads
<1>2. \A x \in Nodes : /\ node'[x].key = node[x].key /\ node'[x].nb = node[x].nb
                       /\ node'[x].lc = node[x].lc /\ node'[x].rc = node[x].rc
                       /\ Live(x)' <=> Live(x)
  BY DEF Live
<1>3. Counts(Pointer, Count) /\ DOMAIN Pointer = Places /\ \A k \in Refs : Count[k] \in Nat
  BY CountAt, PointerAt DEF HeapInv, Tally, Types
<1> DEFINE d == DropPlace(r, 1)
           g == [[Pointer EXCEPT ![p] = Nothing] EXCEPT ![d] = Pointer[p]]
<1>4. d \in Places /\ p \in Places /\ p # d /\ Pointer[d] = Nothing
  <2>1. OfDropping(r, 1) = Nothing
    BY DEF OfDropping
  <2> QED
    BY <1>1, <2>1, PlaceFacts, PlacesDiffer, PointerAt
<1> HIDE DEF d
<1>5. Counts(g, Count)
  BY <1>3, <1>4, RefFacts, Hand
<1>6. /\ g = [q \in Places |-> g[q]] /\ g[p] = Nothing /\ g[d] = ref
      /\ \A q \in Places : q \notin {p, d} => g[q] = Pointer[q]
  BY <1>4, IsFunction
<1> HIDE DEF g
<1>7. /\ \A x \in Nodes : /\ Pointer'[LeftLink(x)] = g[LeftLink(x)]
                          /\ Pointer'[RightLink(x)] = g[RightLink(x)]
                          /\ Pointer'[RecordLink(x)] = g[RecordLink(x)]
      /\ \A i \in Nat : /\ Pointer'[LeftKept(i)] = g[LeftKept(i)]
                        /\ Pointer'[RightKept(i)] = g[RightKept(i)]
      /\ Pointer'[RootPlace] = g[RootPlace] /\ Pointer'[AtPlace] = g[AtPlace]
      /\ Pointer'[MadePlace] = g[MadePlace]
  <2>1. /\ \A x : LeftLink(x) \notin {p, d} /\ RightLink(x) \notin {p, d} /\ RecordLink(x) \notin {p, d}
        /\ \A i : LeftKept(i) \notin {p, d} /\ RightKept(i) \notin {p, d}
        /\ RootPlace \notin {p, d} /\ AtPlace \notin {p, d} /\ MadePlace \notin {p, d}
    BY PlacesDiffer DEF d
  <2> QED
    BY <1>2, <1>6, <2>1, WriterPlaces, PlaceFacts
<1>8. ASSUME NEW s \in Readers
      PROVE  /\ Pointer'[SnapshotPlace(s)] = g[SnapshotPlace(s)]
             /\ Pointer'[PinPlace(s)] = g[PinPlace(s)]
  <2>1. /\ SnapshotPlace(s) # d /\ SnapshotPlace(s) \in Places
        /\ PinPlace(s) # d /\ PinPlace(s) \in Places
        /\ SnapshotPlace(s) = SnapshotPlace(r) => s = r
        /\ PinPlace(s) = PinPlace(r) => s = r
        /\ SnapshotPlace(s) # PinPlace(r) /\ PinPlace(s) # SnapshotPlace(r)
    BY PlaceFacts, PlacesDiffer DEF d
  <2>2. Pointer'[SnapshotPlace(s)] = g[SnapshotPlace(s)]
    <3>1. CASE SnapshotPlace(s) = p
      BY <1>6, <2>1, <3>1, PointerNext
    <3>2. CASE SnapshotPlace(s) # p
      BY <1>6, <2>1, <3>2, PointerAt, PointerNext
    <3> QED
      BY <3>1, <3>2
  <2>3. Pointer'[PinPlace(s)] = g[PinPlace(s)]
    <3>1. CASE PinPlace(s) = p
      BY <1>6, <2>1, <3>1, PointerNext
    <3>2. CASE PinPlace(s) # p
      BY <1>6, <2>1, <3>2, PointerAt, PointerNext
    <3> QED
      BY <3>1, <3>2
  <2> QED
    BY <2>2, <2>3
<1>9. ASSUME NEW t \in Threads, NEW j \in Nat
      PROVE  Pointer'[DropPlace(t, j)] = g[DropPlace(t, j)]
  <2>1. dropping'[r] = <<ref>> /\ \A u \in Threads : u # r => dropping'[u] = dropping[u]
    BY <1>1
  <2>2. CASE t = r /\ j = 1
    <3>1. OfDropping(r, 1)' = ref
      BY <2>1 DEF OfDropping
    <3>2. Pointer'[DropPlace(r, 1)] = OfDropping(r, 1)'
      BY <1>1, PointerNext
    <3> QED
      BY <1>6, <2>2, <3>1, <3>2 DEF d
  <2>3. CASE ~ (t = r /\ j = 1)
    <3>1. OfDropping(t, j)' = OfDropping(t, j)
      <4>1. CASE t = r
        <5>1. j \notin 1..Len(dropping[r]) /\ j \notin 1..Len(dropping'[r])
          BY <2>1, <2>3, <4>1
        <5> QED
          BY <4>1, <5>1 DEF OfDropping
      <4>2. CASE t # r
        BY <2>1, <4>2 DEF OfDropping
      <4> QED
        BY <4>1, <4>2
    <3>2. DropPlace(t, j) \notin {p, d} /\ DropPlace(t, j) \in Places
      BY <2>3, PlaceFacts, PlacesDiffer DEF d
    <3> QED
      BY <1>6, <3>1, <3>2, PointerAt, PointerNext
  <2> QED
    BY <2>2, <2>3
<1>10. Pointer' = g
  <2>1. g = [q \in Places |-> g[q]] /\ Pointer' = [q \in Places |-> Pointer'[q]]
    BY <1>6, IsFunction
  <2> QED
    BY ONLY <1>7, <1>8, <1>9, <2>1, SamePlaces
<1>11. Count' = Count
  BY DEF Count
<1> QED
  BY <1>5, <1>10, <1>11 DEF Tally

LEMMA AnswerTally ==
    ASSUME HeapInv, NEW r \in Readers, Answer(r)
    PROVE  Tally'
<1>1. /\ reader[r].pc = "read" /\ dropping[r] = <<>>
      /\ dropping' = [dropping EXCEPT ![r] = <<BlockRef(reader[r].pin)>>]
      /\ reader' = [reader EXCEPT ![r] = [reader[r] EXCEPT !.pc = "open", !.pin = Null, !.op = NoAnswer]]
      /\ UNCHANGED <<node, block, root, writer>>
  BY DEF Answer, HeapInv, Snapshots, heapVars
<1>2. /\ reader'[r].pc = "open" /\ reader'[r].root = reader[r].root
      /\ \A s \in Readers : s # r => reader'[s] = reader[s]
  BY <1>1 DEF HeapInv, Types, ReaderTypes
<1>3. /\ Pointer[PinPlace(r)] = BlockRef(reader[r].pin)
      /\ OfPin(r)' = Nothing
      /\ \A s \in Readers : /\ OfSnapshot(s)' = OfSnapshot(s)
                            /\ s # r => OfPin(s)' = OfPin(s)
  BY <1>1, <1>2, PointerAt DEF OfPin, OfSnapshot, Open
<1>4. PinPlace(r) # SnapshotPlace(r)
  BY PlacesDiffer
<1> QED
  BY <1>1, <1>3, <1>4, HandedBack

LEMMA CloseTally ==
    ASSUME HeapInv, NEW r \in Readers, Close(r)
    PROVE  Tally'
<1>1. /\ reader[r].pc = "open" /\ dropping[r] = <<>>
      /\ dropping' = [dropping EXCEPT ![r] = <<NodeRef(reader[r].root)>>]
      /\ reader' = [reader EXCEPT ![r] = Away]
      /\ UNCHANGED <<node, block, root, writer>>
  BY DEF Close, heapVars
<1>2. /\ reader'[r].pc = "none"
      /\ \A s \in Readers : s # r => reader'[s] = reader[s]
  BY <1>1 DEF HeapInv, Types, ReaderTypes, Away
<1>3. /\ Pointer[SnapshotPlace(r)] = NodeRef(reader[r].root)
      /\ OfSnapshot(r)' = Nothing
      /\ \A s \in Readers : /\ OfPin(s)' = OfPin(s)
                            /\ s # r => OfSnapshot(s)' = OfSnapshot(s)
  BY <1>1, <1>2, PointerAt DEF OfPin, OfSnapshot, Open
<1>4. PinPlace(r) # SnapshotPlace(r)
  BY PlacesDiffer
<1> QED
  BY <1>1, <1>3, <1>4, HandedBack

-----------------------------------------------------------------------------
(* Giving references back *)

\* A sequence counted from its end.
End(s, j) == IF j \in 1..Len(s) THEN s[Len(s) + 1 - j] ELSE Nothing

Given(ref) == IF ref = Nothing THEN <<>> ELSE <<ref>>

LEMMA PushEnd ==
    ASSUME NEW s \in Seq(Refs), NEW e \in Refs
    PROVE  /\ <<e>> \o s \in Seq(Refs) /\ Len(s) \in Nat
           /\ End(s, Len(s) + 1) = Nothing
           /\ End(<<e>> \o s, Len(s) + 1) = e
           /\ \A j \in Nat : j # Len(s) + 1 => End(<<e>> \o s, j) = End(s, j)
<1>1. /\ <<e>> \in Seq(Refs) /\ Len(<<e>>) = 1 /\ <<e>>[1] = e /\ Len(s) \in Nat
  OBVIOUS
<1> DEFINE q == <<e>> \o s
<1>2. /\ q \in Seq(Refs) /\ Len(q) = Len(s) + 1
      /\ \A i \in 1..Len(q) : q[i] = IF i <= 1 THEN <<e>>[i] ELSE s[i - 1]
  BY <1>1, ConcatProperties
<1> HIDE DEF q
<1>3. /\ q[1] = e /\ \A i \in 1..Len(s) : q[i + 1] = s[i]
  <2>1. 1 \in 1..Len(q) /\ q[1] = <<e>>[1]
    BY <1>1, <1>2
  <2>2. ASSUME NEW i \in 1..Len(s)
        PROVE  q[i + 1] = s[i]
    <3>1. i + 1 \in 1..Len(q) /\ ~(i + 1 <= 1) /\ i + 1 - 1 = i
      BY <1>1, <1>2
    <3> QED
      BY <1>2, <3>1
  <2> QED
    BY <1>1, <2>1, <2>2
<1>4. End(s, Len(s) + 1) = Nothing
  BY <1>1 DEF End
<1>5. End(q, Len(s) + 1) = e
  <2>1. Len(s) + 1 \in 1..Len(q) /\ Len(q) + 1 - (Len(s) + 1) = 1
    BY <1>1, <1>2
  <2> QED
    BY <1>3, <2>1 DEF End
<1>6. ASSUME NEW j \in Nat, j # Len(s) + 1
      PROVE  End(q, j) = End(s, j)
  <2>1. CASE j \in 1..Len(s)
    <3>1. j \in 1..Len(q) /\ Len(s) + 1 - j \in 1..Len(s) /\ Len(q) + 1 - j = (Len(s) + 1 - j) + 1
      BY <1>1, <1>2, <2>1
    <3> QED
      BY <1>3, <2>1, <3>1 DEF End
  <2>2. CASE j \notin 1..Len(s)
    <3>1. j \notin 1..Len(q)
      BY <1>1, <1>2, <1>6, <2>2
    <3> QED
      BY <2>2, <3>1 DEF End
  <2> QED
    BY <2>1, <2>2
<1> QED
  BY <1>1, <1>2, <1>4, <1>5, <1>6 DEF q

LEMMA TailEnd ==
    ASSUME NEW s \in Seq(Refs), s # <<>>
    PROVE  /\ Len(s) \in Nat /\ Tail(s) \in Seq(Refs) /\ Head(s) \in Refs
           /\ End(s, Len(s)) = Head(s)
           /\ End(Tail(s), Len(s)) = Nothing
           /\ \A j \in Nat : j # Len(s) => End(Tail(s), j) = End(s, j)
<1>1. /\ Len(s) \in Nat /\ Len(s) > 0 /\ Head(s) = s[1] /\ s[1] \in Refs
      /\ Tail(s) \in Seq(Refs) /\ Len(Tail(s)) = Len(s) - 1
      /\ \A i \in 1..Len(s) - 1 : Tail(s)[i] = s[i + 1]
  OBVIOUS
<1>2. End(s, Len(s)) = Head(s) /\ End(Tail(s), Len(s)) = Nothing
  BY <1>1 DEF End
<1>3. ASSUME NEW j \in Nat, j # Len(s)
      PROVE  End(Tail(s), j) = End(s, j)
  <2>1. CASE j \in 1..Len(s) - 1
    <3>1. /\ j \in 1..Len(s) /\ Len(s) - j \in 1..Len(s) - 1
          /\ Len(Tail(s)) + 1 - j = Len(s) - j /\ Len(s) + 1 - j = (Len(s) - j) + 1
      BY <1>1, <2>1
    <3> QED
      BY <1>1, <2>1, <3>1 DEF End
  <2>2. CASE j \notin 1..Len(s) - 1
    <3>1. j \notin 1..Len(s)
      <4>1. PICK m : m = Len(s)
        OBVIOUS
      <4>2. m \in Nat /\ j \in Nat /\ j # m /\ j \notin 1..m - 1
        BY <1>1, <1>3, <2>2, <4>1
      <4>3. j \notin 1..m
        BY ONLY <4>2
      <4> QED
        BY <4>1, <4>3
    <3> QED
      BY <1>1, <2>2, <3>1 DEF End
  <2> QED
    BY <2>1, <2>2
<1> QED
  BY <1>1, <1>2, <1>3

\* What thread t still has to give back, in f.
Stacked(f, t, s) == \A j \in Nat : f[DropPlace(t, j)] = End(s, j)

NoDrop(p) == \A u, j : p # DropPlace(u, j)

\* The reference in p is put on top of what t has to give back.
Pushing(f, c, t, s, p) ==
    /\ f = [q \in Places |-> f[q]] /\ Counts(f, c) /\ \A ref \in Refs : c[ref] \in Nat
    /\ t \in Threads /\ s \in Seq(Refs) /\ Stacked(f, t, s)
    /\ p \in Places /\ NoDrop(p) /\ f[p] \in Refs \cup {Nothing}

Pushed(f, g, c, t, s, p) ==
    /\ g = [q \in Places |-> g[q]] /\ Counts(g, c) /\ s \in Seq(Refs) /\ Stacked(g, t, s)
    /\ g[p] = Nothing
    /\ \A q \in Places : q # p /\ (\A j \in Nat : q # DropPlace(t, j)) => g[q] = f[q]

LEMMA HandPush ==
    ASSUME NEW f, NEW c, NEW t, NEW s, NEW p, Pushing(f, c, t, s, p)
    PROVE  \E g : Pushed(f, g, c, t, Given(f[p]) \o s, p)
<1> USE DEF Pushing, Pushed
<1>1. CASE f[p] = Nothing
  <2>1. Given(f[p]) \o s = s
    BY <1>1 DEF Given
  <2> QED
    BY <1>1, <2>1
<1>2. CASE f[p] \in Refs
  <2>1. Given(f[p]) = <<f[p]>>
    BY <1>2, RefFacts DEF Given
  <2>2. /\ <<f[p]>> \o s \in Seq(Refs) /\ Len(s) \in Nat
        /\ End(s, Len(s) + 1) = Nothing
        /\ End(<<f[p]>> \o s, Len(s) + 1) = f[p]
        /\ \A j \in Nat : j # Len(s) + 1 => End(<<f[p]>> \o s, j) = End(s, j)
    BY <1>2, PushEnd
  <2> DEFINE d == DropPlace(t, Len(s) + 1)
             g == [[f EXCEPT ![p] = Nothing] EXCEPT ![d] = f[p]]
  <2>3. Len(s) + 1 \in Nat
    BY <2>2
  <2>4. d \in Places /\ d # p /\ f[d] = Nothing
    BY <2>2, <2>3, PlaceFacts DEF NoDrop, Stacked
  <2>5. \A j \in Nat : /\ DropPlace(t, j) \in Places /\ DropPlace(t, j) # p
                       /\ DropPlace(t, j) = d <=> j = Len(s) + 1
    BY PlaceFacts, PlacesDiffer DEF NoDrop
  <2> HIDE DEF d
  <2>6. Counts(g, c)
    BY <2>4, RefFacts, Hand
  <2>7. /\ g = [q \in Places |-> g[q]] /\ g[p] = Nothing /\ g[d] = f[p]
        /\ \A q \in Places : q \notin {p, d} => g[q] = f[q]
    BY <2>4
  <2> HIDE DEF g
  <2>8. Stacked(g, t, <<f[p]>> \o s)
    <3>1. ASSUME NEW j \in Nat
          PROVE  g[DropPlace(t, j)] = End(<<f[p]>> \o s, j)
      BY <2>2, <2>5, <2>7 DEF Stacked
    <3> QED
      BY <3>1 DEF Stacked
  <2>9. \A q \in Places : q # p /\ (\A j \in Nat : q # DropPlace(t, j)) => g[q] = f[q]
    BY <2>3, <2>7 DEF d
  <2> QED
    BY <2>1, <2>2, <2>6, <2>7, <2>8, <2>9
<1> QED
  BY <1>1, <1>2

LEMMA OfDroppingIs ==
    /\ \A t, j : OfDropping(t, j) = End(dropping[t], j) /\ OfDropping(t, j)' = End(dropping'[t], j)
BY DEF OfDropping, End

Returned(t, s, ref) == s = dropping[t] /\ ref = Head(s)

\* What t has to give back after that.
Remains(t, s, ref) ==
    \/ /\ ref.kind = "node" /\ node[ref.at].ref = 1
       /\ dropping'[t] = Freed(ref) \o Tail(s)
    \/ /\ ref.kind = "node" => node[ref.at].ref # 1
       /\ dropping'[t] = Tail(s)

LEMMA DropFacts ==
    ASSUME HeapInv, NEW t \in Threads, Drop(t), NEW s, NEW ref, Returned(t, s, ref)
    PROVE  /\ s \in Seq(Refs) /\ s # <<>> /\ ref \in Refs /\ t \in Threads
           /\ Tail(s) \in Seq(Refs) /\ Len(s) \in Nat
           /\ DropPlace(t, Len(s)) \in Places /\ Pointer[DropPlace(t, Len(s))] = ref
           /\ UNCHANGED <<root, writer, reader>>
           /\ \A u \in Threads : u # t => dropping'[u] = dropping[u]
           /\ Remains(t, s, ref)
           /\ DOMAIN dropping' = Threads
           /\ ref.kind = "node" => /\ ref.at \in Nodes /\ Live(ref.at) /\ UNCHANGED block
                                   /\ node' = [node EXCEPT ![ref.at].ref = node[ref.at].ref - 1]
           /\ ref.kind = "block" => /\ ref.at \in Blocks /\ block[ref.at].ref > 0 /\ UNCHANGED node
                                    /\ block' = [block EXCEPT ![ref.at].ref = block[ref.at].ref - 1]
<1> USE DEF Returned
<1>1. /\ s \in Seq(Refs) /\ s # <<>> /\ DOMAIN dropping = Threads
  BY DEF Drop, HeapInv, Types, HeapTypes
<1>2. /\ Tail(s) \in Seq(Refs) /\ Len(s) \in Nat /\ ref \in Refs /\ End(s, Len(s)) = ref
  BY <1>1, TailEnd
<1>3. DropPlace(t, Len(s)) \in Places /\ Pointer[DropPlace(t, Len(s))] = ref
  BY <1>2, OfDroppingIs, PlaceFacts, PointerAt
<1>4. \/ ref.kind = "node" /\ ref.at \in Nodes /\ ref = NodeRef(ref.at)
      \/ ref.kind = "block" /\ ref.at \in Blocks /\ ref = BlockRef(ref.at)
  BY <1>2, RefFacts
<1>5. UNCHANGED <<root, writer, reader>>
  BY DEF Drop
<1> DEFINE last == IF ref.kind = "node" THEN node[ref.at].ref = 1 ELSE block[ref.at].ref = 1
<1>6. /\ dropping' = [dropping EXCEPT ![t] = (IF last THEN Freed(ref) ELSE <<>>) \o Tail(s)]
      /\ IF ref.kind = "node"
         THEN /\ node' = [node EXCEPT ![ref.at].ref = node[ref.at].ref - 1]
              /\ UNCHANGED block
         ELSE /\ block' = [block EXCEPT ![ref.at].ref = block[ref.at].ref - 1]
              /\ UNCHANGED node
  BY DEF Drop
<1>7. /\ \A u \in Threads : u # t => dropping'[u] = dropping[u]
      /\ DOMAIN dropping' = Threads
      /\ dropping'[t] = (IF last THEN Freed(ref) ELSE <<>>) \o Tail(s)
  BY <1>1, <1>6
<1>8. <<>> \o Tail(s) = Tail(s)
  BY <1>2
<1>9. \/ /\ ref.kind = "node" /\ node[ref.at].ref = 1
         /\ dropping'[t] = Freed(ref) \o Tail(s)
      \/ /\ ref.kind = "node" => node[ref.at].ref # 1
         /\ dropping'[t] = Tail(s)
  <2>1. CASE ref.kind = "node" /\ node[ref.at].ref = 1
    BY <1>7, <2>1
  <2>2. CASE ref.kind = "node" /\ node[ref.at].ref # 1
    BY <1>7, <1>8, <2>2
  <2>3. CASE ref.kind = "block"
    <3>1. Freed(ref) = <<>> /\ ref.kind # "node"
      BY <2>3 DEF Freed
    <3> QED
      BY <1>7, <1>8, <3>1
  <2> QED
    BY <1>4, <2>1, <2>2, <2>3
<1>10. ref.kind = "node" => Live(ref.at)
  BY <1>3, <1>4, Held DEF HeapInv, Types
<1>11. ref.kind = "block" => block[ref.at].ref > 0
  BY <1>3, <1>4, Held DEF HeapInv, Types
<1> HIDE DEF last
<1>12. /\ ref.kind = "node" => /\ ref.at \in Nodes /\ UNCHANGED block
                               /\ node' = [node EXCEPT ![ref.at].ref = node[ref.at].ref - 1]
       /\ ref.kind = "block" => /\ ref.at \in Blocks /\ UNCHANGED node
                                /\ block' = [block EXCEPT ![ref.at].ref = block[ref.at].ref - 1]
  BY <1>4, <1>6
<1> QED
  BY <1>1, <1>2, <1>3, <1>5, <1>7, <1>9, <1>10, <1>11, <1>12 DEF Remains

\* The count of what is dropped goes down by one, and nothing else changes but what a last
\* reference frees.
LEMMA DropCounts ==
    ASSUME HeapInv, NEW t \in Threads, Drop(t), NEW s, NEW ref, Returned(t, s, ref)
    PROVE  /\ \A x \in Nodes : /\ node'[x].key = node[x].key /\ node'[x].nb = node[x].nb
                               /\ node'[x].lc = node[x].lc /\ node'[x].rc = node[x].rc
                               /\ node[x].ref \in Nat /\ node'[x].ref \in Nat
                               /\ NodeRef(x) # ref => node'[x].ref = node[x].ref
                               /\ NodeRef(x) = ref => node'[x].ref = node[x].ref - 1
           /\ \A b \in Blocks : /\ block'[b].dests = block[b].dests
                                /\ block[b].ref \in Nat /\ block'[b].ref \in Nat
                                /\ BlockRef(b) # ref => block'[b].ref = block[b].ref
                                /\ BlockRef(b) = ref => block'[b].ref = block[b].ref - 1
           /\ node' \in [Nodes -> [key : Vertices \cup {Null}, nb : 0..NumBlocks,
                                   lc : 0..NumNodes, rc : 0..NumNodes, ref : Nat]]
           /\ block' \in [Blocks -> [dests : SUBSET Vertices, ref : Nat]]
           /\ \A k \in Refs : Count'[k] = Minus(Count, ref)[k]
<1>1. /\ ref \in Refs
      /\ ref.kind = "node" => /\ ref.at \in Nodes /\ Live(ref.at) /\ UNCHANGED block
                              /\ node' = [node EXCEPT ![ref.at].ref = node[ref.at].ref - 1]
      /\ ref.kind = "block" => /\ ref.at \in Blocks /\ block[ref.at].ref > 0 /\ UNCHANGED node
                               /\ block' = [block EXCEPT ![ref.at].ref = block[ref.at].ref - 1]
  BY DropFacts
<1>2. \/ ref.kind = "node" /\ ref.at \in Nodes /\ ref = NodeRef(ref.at)
      \/ ref.kind = "block" /\ ref.at \in Blocks /\ ref = BlockRef(ref.at)
  BY <1>1, RefFacts
<1>3. /\ node \in [Nodes -> [key : Vertices \cup {Null}, nb : 0..NumBlocks,
                             lc : 0..NumNodes, rc : 0..NumNodes, ref : Nat]]
      /\ block \in [Blocks -> [dests : SUBSET Vertices, ref : Nat]]
  BY DEF HeapInv, Types, HeapTypes
<1>4. ref.kind = "node" <=> ref.kind # "block"
  BY <1>2
<1>5. \A x \in Nodes : /\ node'[x] \in [key : Vertices \cup {Null}, nb : 0..NumBlocks,
                                        lc : 0..NumNodes, rc : 0..NumNodes, ref : Nat]
                       /\ node'[x].key = node[x].key /\ node'[x].nb = node[x].nb
                       /\ node'[x].lc = node[x].lc /\ node'[x].rc = node[x].rc
                       /\ node[x].ref \in Nat /\ node'[x].ref \in Nat
                       /\ NodeRef(x) # ref => node'[x].ref = node[x].ref
                       /\ NodeRef(x) = ref => node'[x].ref = node[x].ref - 1
  <2>1. CASE ref.kind = "node"
    <3>1. /\ ref.at \in Nodes /\ node[ref.at].ref > 0
          /\ node' = [node EXCEPT ![ref.at].ref = node[ref.at].ref - 1]
      BY <1>1, <2>1 DEF Live
    <3>2. \A x : NodeRef(x) = ref <=> x = ref.at
      BY <1>2, <2>1, RefFacts
    <3> QED
      BY <1>3, <3>1, <3>2
  <2>2. CASE ref.kind = "block"
    <3>1. \A x : NodeRef(x) # ref
      BY <1>2, <2>2, RefFacts
    <3>2. node' = node
      BY <1>1, <2>2
    <3> QED
      BY <1>3, <3>1, <3>2
  <2> QED
    BY <1>2, <2>1, <2>2
<1>6. \A b \in Blocks : /\ block'[b] \in [dests : SUBSET Vertices, ref : Nat]
                        /\ block'[b].dests = block[b].dests
                        /\ block[b].ref \in Nat /\ block'[b].ref \in Nat
                        /\ BlockRef(b) # ref => block'[b].ref = block[b].ref
                        /\ BlockRef(b) = ref => block'[b].ref = block[b].ref - 1
  <2>1. CASE ref.kind = "block"
    <3>1. /\ ref.at \in Blocks /\ block[ref.at].ref > 0
          /\ block' = [block EXCEPT ![ref.at].ref = block[ref.at].ref - 1]
      BY <1>1, <2>1
    <3>2. \A x : BlockRef(x) = ref <=> x = ref.at
      BY <1>2, <2>1, RefFacts
    <3> QED
      BY <1>3, <3>1, <3>2
  <2>2. CASE ref.kind = "node"
    <3>1. \A x : BlockRef(x) # ref
      BY <1>2, <2>2, RefFacts
    <3>2. block' = block
      BY <1>1, <2>2
    <3> QED
      BY <1>3, <3>1, <3>2
  <2> QED
    BY <1>2, <2>1, <2>2
<1>7. /\ node' = [x \in Nodes |-> node'[x]]
      /\ block' = [x \in Blocks |-> block'[x]]
  BY <1>1, <1>2, <1>3
<1>8. /\ node' \in [Nodes -> [key : Vertices \cup {Null}, nb : 0..NumBlocks,
                              lc : 0..NumNodes, rc : 0..NumNodes, ref : Nat]]
      /\ block' \in [Blocks -> [dests : SUBSET Vertices, ref : Nat]]
  BY <1>5, <1>6, <1>7
<1>9. \A k \in Refs : Count'[k] = Minus(Count, ref)[k]
  <2>1. \A k \in Refs : Minus(Count, ref)[k] = IF k = ref THEN Count[k] - 1 ELSE Count[k]
    BY DEF Minus
  <2>2. ASSUME NEW x \in Nodes
        PROVE  Count'[NodeRef(x)] = Minus(Count, ref)[NodeRef(x)]
    BY <1>5, <2>1, CountOf, RefFacts
  <2>3. ASSUME NEW x \in Blocks
        PROVE  Count'[BlockRef(x)] = Minus(Count, ref)[BlockRef(x)]
    BY <1>6, <2>1, CountOf, RefFacts
  <2> QED
    BY <2>2, <2>3, RefFacts
<1> QED
  BY <1>5, <1>6, <1>8, <1>9

\* The places when only what t has to give back gets shorter.
LEMMA DropOneTally ==
    ASSUME HeapInv, NEW t \in Threads, Drop(t), NEW s, NEW ref, Returned(t, s, ref),
           dropping'[t] = Tail(s), \A x \in Nodes : Live(x)' <=> Live(x)
    PROVE  Tally'
<1>1. /\ s \in Seq(Refs) /\ s # <<>> /\ Len(s) \in Nat
      /\ DropPlace(t, Len(s)) \in Places /\ Pointer[DropPlace(t, Len(s))] = ref
      /\ UNCHANGED <<root, writer, reader>> /\ s = dropping[t]
      /\ \A u \in Threads : u # t => dropping'[u] = dropping[u]
  <2>1. /\ s \in Seq(Refs) /\ s # <<>> /\ Len(s) \in Nat
        /\ DropPlace(t, Len(s)) \in Places /\ Pointer[DropPlace(t, Len(s))] = ref
        /\ UNCHANGED <<root, writer, reader>>
    BY DropFacts
  <2>2. \A u \in Threads : u # t => dropping'[u] = dropping[u]
    BY DropFacts
  <2> QED
    BY <2>1, <2>2 DEF Returned
<1>2. /\ \A x \in Nodes : /\ node'[x].key = node[x].key /\ node'[x].nb = node[x].nb
                          /\ node'[x].lc = node[x].lc /\ node'[x].rc = node[x].rc
      /\ \A k \in Refs : Count'[k] = Minus(Count, ref)[k]
  BY DropCounts
<1>3. Counts(Pointer, Count) /\ DOMAIN Pointer = Places /\ \A k \in Refs : Count[k] \in Nat
  BY CountAt, PointerAt DEF HeapInv, Tally, Types
<1> DEFINE d == DropPlace(t, Len(s))
           g == [Pointer EXCEPT ![d] = Nothing]
<1>4. d \in Places /\ Pointer[d] = ref
  BY <1>1
<1> HIDE DEF d
<1>5. Counts(g, Minus(Count, ref))
  BY <1>3, <1>4, Take
<1>6. /\ g = [p \in Places |-> g[p]] /\ g[d] = Nothing
      /\ \A p \in Places : p # d => g[p] = Pointer[p]
  BY <1>4, IsFunction
<1> HIDE DEF g
<1>7. /\ \A x \in Nodes : /\ Pointer'[LeftLink(x)] = g[LeftLink(x)]
                          /\ Pointer'[RightLink(x)] = g[RightLink(x)]
                          /\ Pointer'[RecordLink(x)] = g[RecordLink(x)]
      /\ \A i \in Nat : /\ Pointer'[LeftKept(i)] = g[LeftKept(i)]
                        /\ Pointer'[RightKept(i)] = g[RightKept(i)]
      /\ Pointer'[RootPlace] = g[RootPlace] /\ Pointer'[AtPlace] = g[AtPlace]
      /\ Pointer'[MadePlace] = g[MadePlace]
  <2>1. /\ \A x : LeftLink(x) # d /\ RightLink(x) # d /\ RecordLink(x) # d
        /\ \A i : LeftKept(i) # d /\ RightKept(i) # d
        /\ RootPlace # d /\ AtPlace # d /\ MadePlace # d
    BY PlacesDiffer DEF d
  <2> QED
    BY <1>1, <1>2, <1>6, <2>1, WriterPlaces, PlaceFacts
<1>8. /\ \A r \in Readers : /\ Pointer'[SnapshotPlace(r)] = g[SnapshotPlace(r)]
                            /\ Pointer'[PinPlace(r)] = g[PinPlace(r)]
  <2>1. \A r : SnapshotPlace(r) # d /\ PinPlace(r) # d
    BY PlacesDiffer DEF d
  <2>2. \A r \in Readers : OfSnapshot(r)' = OfSnapshot(r) /\ OfPin(r)' = OfPin(r)
    BY <1>1 DEF OfSnapshot, OfPin, Open
  <2> QED
    BY <1>6, <2>1, <2>2, PlaceFacts, PointerAt, PointerNext
<1>9. ASSUME NEW u \in Threads, NEW j \in Nat
      PROVE  Pointer'[DropPlace(u, j)] = g[DropPlace(u, j)]
  <2>1. /\ End(Tail(s), Len(s)) = Nothing
        /\ \A i \in Nat : i # Len(s) => End(Tail(s), i) = End(s, i)
    BY <1>1, TailEnd
  <2>2. /\ DropPlace(u, j) \in Places
        /\ DropPlace(u, j) = d <=> u = t /\ j = Len(s)
        /\ Pointer[DropPlace(u, j)] = End(dropping[u], j)
        /\ Pointer'[DropPlace(u, j)] = End(dropping'[u], j)
    BY PlaceFacts, PlacesDiffer, PointerAt, PointerNext, OfDroppingIs DEF d
  <2>3. CASE u # t
    BY <1>1, <1>6, <2>2, <2>3
  <2>4. CASE u = t
    BY <1>1, <1>6, <2>1, <2>2, <2>4
  <2> QED
    BY <2>3, <2>4
<1>10. Pointer' = g
  <2>1. g = [q \in Places |-> g[q]] /\ Pointer' = [q \in Places |-> Pointer'[q]]
    BY <1>6, IsFunction
  <2> QED
    BY ONLY <1>7, <1>8, <1>9, <2>1, SamePlaces
<1> QED
  BY <1>2, <1>5, <1>10, CountsSame DEF Tally

\* The node whose last reference is dropped is not one the writer changes.
LEMMA DroppedNotOpened ==
    ASSUME HeapInv, NEW t \in Threads, NEW j \in Nat, NEW x \in Nodes, node[x].ref = 1,
           Pointer[DropPlace(t, j)] = NodeRef(x)
    PROVE  ~Opened(x)
<1>1. SUFFICES ASSUME Opened(x)
               PROVE  FALSE
  OBVIOUS
<1>2. PICK p \in Places : /\ Pointer[p] = NodeRef(x)
                          /\ \/ p \in {RootPlace, AtPlace}
                             \/ \E z : Opened(z) /\ p \in {LeftLink(z), RightLink(z)}
  BY <1>1, OpenedHeld
<1>3. p # DropPlace(t, j) /\ DropPlace(t, j) \in Places
  BY <1>2, PlacesDiffer, PlaceFacts
<1>4. node[x].ref > 1
  BY <1>2, <1>3, Held DEF HeapInv, Types
<1> QED
  BY <1>4

Flat(s, u, v, w) == (s \o (u \o v)) \o w = s \o (u \o (v \o w))

LEMMA ConcatThree ==
    ASSUME NEW s \in Seq(Refs), NEW u \in Seq(Refs), NEW v \in Seq(Refs), NEW w \in Seq(Refs)
    PROVE  Flat(s, u, v, w)
<1>1. PICK uv : uv = u \o v
  OBVIOUS
<1>2. uv \in Seq(Refs)
  BY <1>1, ConcatProperties
<1>3. (s \o uv) \o w = s \o (uv \o w)
  BY <1>2, ConcatAssociative
<1>4. uv \o w = u \o (v \o w)
  BY <1>1, ConcatAssociative
<1> QED
  BY <1>1, <1>3, <1>4 DEF Flat

\* The last reference to a node is dropped: its record and its children are handed over.
LEMMA DropLastTally ==
    ASSUME HeapInv, NEW t \in Threads, Drop(t), NEW s, NEW ref, Returned(t, s, ref),
           NEW x \in Nodes, ref = NodeRef(x), node[x].ref = 1,
           dropping'[t] = Freed(ref) \o Tail(s)
    PROVE  Tally'
<1>1. /\ s \in Seq(Refs) /\ s # <<>> /\ Len(s) \in Nat /\ Tail(s) \in Seq(Refs)
      /\ DropPlace(t, Len(s)) \in Places /\ Pointer[DropPlace(t, Len(s))] = ref
      /\ UNCHANGED <<root, writer, reader>> /\ s = dropping[t]
      /\ \A u \in Threads : u # t => dropping'[u] = dropping[u]
  <2>1. /\ s \in Seq(Refs) /\ s # <<>> /\ Len(s) \in Nat /\ Tail(s) \in Seq(Refs)
        /\ DropPlace(t, Len(s)) \in Places /\ Pointer[DropPlace(t, Len(s))] = ref
        /\ UNCHANGED <<root, writer, reader>>
    BY DropFacts
  <2>2. \A u \in Threads : u # t => dropping'[u] = dropping[u]
    BY DropFacts
  <2> QED
    BY <2>1, <2>2 DEF Returned
<1>2. /\ \A y \in Nodes : /\ node'[y].key = node[y].key /\ node'[y].nb = node[y].nb
                          /\ node'[y].lc = node[y].lc /\ node'[y].rc = node[y].rc
                          /\ NodeRef(y) # ref => node'[y].ref = node[y].ref
                          /\ NodeRef(y) = ref => node'[y].ref = node[y].ref - 1
      /\ \A k \in Refs : Count'[k] = Minus(Count, ref)[k]
  BY DropCounts
<1>3. /\ \A y \in Nodes : y # x => (Live(y)' <=> Live(y))
      /\ Live(x) /\ ~Live(x)'
  BY <1>2, RefFacts DEF Live
<1>4. ~StaleLeft(x) /\ ~StaleRight(x)
  <2>1. ~Opened(x)
    BY <1>1, DroppedNotOpened
  <2> QED
    BY <2>1, CutIsOpened DEF StaleLeft, StaleRight
<1>5. /\ Pointer[LeftLink(x)] = NodeRef(node[x].lc) /\ Pointer[RightLink(x)] = NodeRef(node[x].rc)
      /\ Pointer[RecordLink(x)] = BlockRef(node[x].nb)
  BY <1>3, <1>4, PointerAt DEF LeftOf, RightOf, RecordOf
<1>6. /\ NodeRef(node[x].lc) \in Refs \cup {Nothing} /\ NodeRef(node[x].rc) \in Refs \cup {Nothing}
      /\ BlockRef(node[x].nb) \in Refs
  <2>1. node[x].nb \in Blocks
    BY <1>3 DEF HeapInv, Shape
  <2>2. node[x].lc \in Nodes \cup {Null} /\ node[x].rc \in Nodes \cup {Null}
    BY NodeTypes DEF HeapInv, Types
  <2> QED
    BY <2>1, <2>2, RefFacts DEF Nothing
<1>7. PICK ll : ll = NodeRef(node[x].lc)
  OBVIOUS
<1>8. PICK rl : rl = NodeRef(node[x].rc)
  OBVIOUS
<1>9. PICK rec : rec = BlockRef(node[x].nb)
  OBVIOUS
<1>10. PICK c : c = Minus(Count, ref)
  OBVIOUS
<1> DEFINE d == DropPlace(t, Len(s))
           g == [Pointer EXCEPT ![d] = Nothing]
<1>11. PICK f0 : /\ f0 = [p \in Places |-> f0[p]] /\ Counts(f0, c) /\ \A k \in Refs : c[k] \in Nat
                 /\ Stacked(f0, t, Tail(s))
                 /\ \A p \in Places : (\A j \in Nat : p # DropPlace(t, j)) => f0[p] = Pointer[p]
  <2>1. Counts(Pointer, Count) /\ DOMAIN Pointer = Places /\ \A k \in Refs : Count[k] \in Nat
    BY CountAt, PointerAt DEF HeapInv, Tally, Types
  <2>2. d \in Places /\ Pointer[d] = ref
    BY <1>1
  <2>3. Counts(g, c) /\ \A k \in Refs : c[k] \in Nat
    <3> HIDE DEF d
    <3> QED
      BY <1>10, <2>1, <2>2, Take
  <2>4. /\ g = [p \in Places |-> g[p]] /\ g[d] = Nothing
        /\ \A p \in Places : p # d => g[p] = Pointer[p]
    <3> HIDE DEF d
    <3> QED
      BY <2>2, IsFunction
  <2> HIDE DEF g
  <2>5. ASSUME NEW j \in Nat
        PROVE  g[DropPlace(t, j)] = End(Tail(s), j)
    <3>1. /\ End(Tail(s), Len(s)) = Nothing
          /\ \A i \in Nat : i # Len(s) => End(Tail(s), i) = End(s, i)
      BY <1>1, TailEnd
    <3>2. /\ DropPlace(t, j) \in Places
          /\ DropPlace(t, j) = d <=> j = Len(s)
          /\ Pointer[DropPlace(t, j)] = End(dropping[t], j)
      BY PlaceFacts, PlacesDiffer, PointerAt, OfDroppingIs
    <3> HIDE DEF d
    <3> QED
      BY <1>1, <2>4, <3>1, <3>2
  <2>6. \A p \in Places : (\A j \in Nat : p # DropPlace(t, j)) => g[p] = Pointer[p]
    BY <1>1, <2>4
  <2> QED
    BY <2>3, <2>4, <2>5, <2>6 DEF Stacked
<1> HIDE DEF d, g
<1>12. /\ LeftLink(x) \in Places /\ RightLink(x) \in Places /\ RecordLink(x) \in Places
       /\ NoDrop(LeftLink(x)) /\ NoDrop(RightLink(x)) /\ NoDrop(RecordLink(x))
       /\ LeftLink(x) # RightLink(x) /\ LeftLink(x) # RecordLink(x) /\ RightLink(x) # RecordLink(x)
       /\ \A j \in Nat : DropPlace(t, j) \notin {LeftLink(x), RightLink(x), RecordLink(x)}
  BY PlaceFacts, PlacesDiffer DEF NoDrop
<1>13. f0[LeftLink(x)] = ll /\ f0[RightLink(x)] = rl /\ f0[RecordLink(x)] = rec
  BY <1>5, <1>7, <1>8, <1>9, <1>11, <1>12
<1>14. ll \in Refs \cup {Nothing} /\ rl \in Refs \cup {Nothing} /\ rec \in Refs
  BY <1>6, <1>7, <1>8, <1>9
<1>15. PICK s1 : s1 = Given(rl) \o Tail(s)
  OBVIOUS
<1>16. PICK s2 : s2 = Given(ll) \o s1
  OBVIOUS
<1>17. PICK s3 : s3 = Given(rec) \o s2
  OBVIOUS
<1>18. PICK f1 : Pushed(f0, f1, c, t, s1, RightLink(x))
  <2>1. Pushing(f0, c, t, Tail(s), RightLink(x))
    BY <1>1, <1>11, <1>12, <1>13, <1>14 DEF Pushing
  <2>2. \E h : Pushed(f0, h, c, t, Given(f0[RightLink(x)]) \o Tail(s), RightLink(x))
    BY <2>1, HandPush
  <2> QED
    BY <1>13, <1>15, <2>2
<1>19. PICK f2 : Pushed(f1, f2, c, t, s2, LeftLink(x))
  <2>1. f1[LeftLink(x)] = ll
    BY <1>12, <1>13, <1>18 DEF Pushed
  <2>2. Pushing(f1, c, t, s1, LeftLink(x))
    BY <1>11, <1>12, <1>14, <1>18, <2>1 DEF Pushing, Pushed
  <2>3. \E h : Pushed(f1, h, c, t, Given(f1[LeftLink(x)]) \o s1, LeftLink(x))
    BY <2>2, HandPush
  <2> QED
    BY <1>16, <2>1, <2>3
<1>20. PICK f3 : Pushed(f2, f3, c, t, s3, RecordLink(x))
  <2>1. f2[RecordLink(x)] = rec
    BY <1>12, <1>13, <1>18, <1>19 DEF Pushed
  <2>2. Pushing(f2, c, t, s2, RecordLink(x))
    BY <1>11, <1>12, <1>14, <1>19, <2>1 DEF Pushing, Pushed
  <2>3. \E h : Pushed(f2, h, c, t, Given(f2[RecordLink(x)]) \o s2, RecordLink(x))
    BY <2>2, HandPush
  <2> QED
    BY <1>17, <2>1, <2>3
<1>21. /\ \A p \in Places : p \notin {LeftLink(x), RightLink(x), RecordLink(x)}
                            /\ (\A j \in Nat : p # DropPlace(t, j)) => f3[p] = Pointer[p]
       /\ f3[LeftLink(x)] = Nothing /\ f3[RightLink(x)] = Nothing /\ f3[RecordLink(x)] = Nothing
  <2>1. /\ f3[RecordLink(x)] = Nothing
        /\ \A p \in Places : p # RecordLink(x) /\ (\A j \in Nat : p # DropPlace(t, j)) => f3[p] = f2[p]
    BY <1>20 DEF Pushed
  <2>2. /\ f2[LeftLink(x)] = Nothing
        /\ \A p \in Places : p # LeftLink(x) /\ (\A j \in Nat : p # DropPlace(t, j)) => f2[p] = f1[p]
    BY <1>19 DEF Pushed
  <2>3. /\ f1[RightLink(x)] = Nothing
        /\ \A p \in Places : p # RightLink(x) /\ (\A j \in Nat : p # DropPlace(t, j)) => f1[p] = f0[p]
    BY <1>18 DEF Pushed
  <2>4. /\ f3[LeftLink(x)] = Nothing /\ f3[RightLink(x)] = Nothing
    BY <1>12, <2>1, <2>2, <2>3
  <2>5. ASSUME NEW p \in Places, p \notin {LeftLink(x), RightLink(x), RecordLink(x)},
               \A j \in Nat : p # DropPlace(t, j)
        PROVE  f3[p] = Pointer[p]
    BY <1>11, <2>1, <2>2, <2>3, <2>5
  <2> QED
    BY <2>1, <2>4, <2>5
<1>22. dropping'[t] = s3
  <2>1. /\ Given(rl) \in Seq(Refs) /\ Given(ll) \in Seq(Refs) /\ Given(rec) \in Seq(Refs)
        /\ Given(rec) = <<rec>>
    BY <1>14, RefFacts DEF Given
  <2>2. /\ ChildRef(node[x].lc) = Given(ll) /\ ChildRef(node[x].rc) = Given(rl)
    BY <1>7, <1>8, RefFacts DEF ChildRef, Given, Nothing
  <2>3. ref.kind = "node" /\ ref.at = x
    BY DEF NodeRef
  <2>4. Freed(ref) = Given(rec) \o (Given(ll) \o Given(rl))
    BY <1>9, <2>1, <2>2, <2>3 DEF Freed
  <2>5. Freed(ref) \o Tail(s) = Given(rec) \o (Given(ll) \o (Given(rl) \o Tail(s)))
    <3>1. (Given(rec) \o (Given(ll) \o Given(rl))) \o Tail(s)
             = Given(rec) \o (Given(ll) \o (Given(rl) \o Tail(s)))
      <4>1. Flat(Given(rec), Given(ll), Given(rl), Tail(s))
        BY <1>1, <2>1, ConcatThree
      <4> QED
        BY <4>1, Zenon DEF Flat
    <3> QED
      BY <2>4, <3>1, Zenon
  <2> QED
    BY <1>15, <1>16, <1>17, <2>5
<1>23. ASSUME NEW y \in Nodes
       PROVE  /\ Pointer'[LeftLink(y)] = f3[LeftLink(y)]
              /\ Pointer'[RightLink(y)] = f3[RightLink(y)]
              /\ Pointer'[RecordLink(y)] = f3[RecordLink(y)]
  <2>1. CASE y = x
    <3>1. LeftOf(x)' = Nothing /\ RightOf(x)' = Nothing /\ RecordOf(x)' = Nothing
      BY <1>3 DEF LeftOf, RightOf, RecordOf
    <3> QED
      BY <1>21, <2>1, <3>1, PointerNext
  <2>2. CASE y # x
    <3>1. /\ Pointer'[LeftLink(y)] = Pointer[LeftLink(y)]
          /\ Pointer'[RightLink(y)] = Pointer[RightLink(y)]
          /\ Pointer'[RecordLink(y)] = Pointer[RecordLink(y)]
      BY <1>1, <1>2, <1>3, <2>2, WriterPlaces
    <3>2. /\ LeftLink(y) \notin {LeftLink(x), RightLink(x), RecordLink(x)}
          /\ RightLink(y) \notin {LeftLink(x), RightLink(x), RecordLink(x)}
          /\ RecordLink(y) \notin {LeftLink(x), RightLink(x), RecordLink(x)}
          /\ LeftLink(y) \in Places /\ RightLink(y) \in Places /\ RecordLink(y) \in Places
          /\ \A j \in Nat : DropPlace(t, j) \notin {LeftLink(y), RightLink(y), RecordLink(y)}
      BY <2>2, PlaceFacts, PlacesDiffer
    <3> QED
      BY <1>21, <3>1, <3>2
  <2> QED
    BY <2>1, <2>2
<1>24. /\ \A i \in Nat : /\ Pointer'[LeftKept(i)] = f3[LeftKept(i)]
                         /\ Pointer'[RightKept(i)] = f3[RightKept(i)]
       /\ Pointer'[RootPlace] = f3[RootPlace] /\ Pointer'[AtPlace] = f3[AtPlace]
       /\ Pointer'[MadePlace] = f3[MadePlace]
  <2>1. /\ \A i \in Nat : /\ Pointer'[LeftKept(i)] = Pointer[LeftKept(i)]
                          /\ Pointer'[RightKept(i)] = Pointer[RightKept(i)]
        /\ Pointer'[RootPlace] = Pointer[RootPlace] /\ Pointer'[AtPlace] = Pointer[AtPlace]
        /\ Pointer'[MadePlace] = Pointer[MadePlace]
    BY <1>1, <1>2, WriterPlaces
  <2>2. /\ \A i : LeftKept(i) \notin {LeftLink(x), RightLink(x), RecordLink(x)}
        /\ \A i : RightKept(i) \notin {LeftLink(x), RightLink(x), RecordLink(x)}
        /\ \A i, j : DropPlace(t, j) # LeftKept(i) /\ DropPlace(t, j) # RightKept(i)
        /\ RootPlace \notin {LeftLink(x), RightLink(x), RecordLink(x)}
        /\ AtPlace \notin {LeftLink(x), RightLink(x), RecordLink(x)}
        /\ MadePlace \notin {LeftLink(x), RightLink(x), RecordLink(x)}
        /\ \A j : DropPlace(t, j) \notin {RootPlace, AtPlace, MadePlace}
    BY PlacesDiffer
  <2> QED
    BY <1>21, <2>1, <2>2, PlaceFacts
<1>25. /\ \A r \in Readers : /\ Pointer'[SnapshotPlace(r)] = f3[SnapshotPlace(r)]
                             /\ Pointer'[PinPlace(r)] = f3[PinPlace(r)]
  <2>1. /\ \A r : SnapshotPlace(r) \notin {LeftLink(x), RightLink(x), RecordLink(x)}
        /\ \A r : PinPlace(r) \notin {LeftLink(x), RightLink(x), RecordLink(x)}
        /\ \A r, j : DropPlace(t, j) # SnapshotPlace(r) /\ DropPlace(t, j) # PinPlace(r)
    BY PlacesDiffer
  <2>2. \A r \in Readers : OfSnapshot(r)' = OfSnapshot(r) /\ OfPin(r)' = OfPin(r)
    BY <1>1 DEF OfSnapshot, OfPin, Open
  <2> QED
    BY <1>21, <2>1, <2>2, PlaceFacts, PointerAt, PointerNext
<1>26. ASSUME NEW u \in Threads, NEW j \in Nat
       PROVE  Pointer'[DropPlace(u, j)] = f3[DropPlace(u, j)]
  <2>1. /\ DropPlace(u, j) \in Places
        /\ Pointer[DropPlace(u, j)] = End(dropping[u], j)
        /\ Pointer'[DropPlace(u, j)] = End(dropping'[u], j)
    BY PlaceFacts, PointerAt, PointerNext, OfDroppingIs
  <2>2. CASE u # t
    <3>1. /\ DropPlace(u, j) \notin {LeftLink(x), RightLink(x), RecordLink(x)}
          /\ \A i \in Nat : DropPlace(u, j) # DropPlace(t, i)
      BY <2>2, PlacesDiffer
    <3> QED
      BY <1>1, <1>21, <2>1, <2>2, <3>1
  <2>3. CASE u = t
    BY <1>20, <1>22, <2>1, <2>3 DEF Stacked, Pushed
  <2> QED
    BY <2>2, <2>3
<1>27. Pointer' = f3
  <2>1. f3 = [q \in Places |-> f3[q]] /\ Pointer' = [q \in Places |-> Pointer'[q]]
    BY <1>20, IsFunction DEF Pushed
  <2> QED
    BY ONLY <1>23, <1>24, <1>25, <1>26, <2>1, SamePlaces
<1> QED
  BY <1>2, <1>10, <1>20, <1>27, CountsSame DEF Tally, Pushed

LEMMA DropTally ==
    ASSUME HeapInv, NEW t \in Threads, Drop(t)
    PROVE  Tally'
<1>1. PICK s : s = dropping[t]
  OBVIOUS
<1>2. PICK ref : ref = Head(s)
  OBVIOUS
<1>3. Returned(t, s, ref)
  BY <1>1, <1>2 DEF Returned
<1>4. \/ /\ ref.kind = "node" /\ node[ref.at].ref = 1
         /\ dropping'[t] = Freed(ref) \o Tail(s)
      \/ /\ ref.kind = "node" => node[ref.at].ref # 1
         /\ dropping'[t] = Tail(s)
  <2>1. Remains(t, s, ref)
    BY <1>3, DropFacts
  <2> QED
    BY <2>1 DEF Remains
<1>5. ref \in Refs
  BY <1>3, DropFacts
<1>6. CASE ref.kind = "node" /\ node[ref.at].ref = 1 /\ dropping'[t] = Freed(ref) \o Tail(s)
  <2>1. ref.at \in Nodes /\ ref = NodeRef(ref.at)
    BY <1>5, <1>6, RefFacts
  <2> QED
    BY <1>3, <1>6, <2>1, DropLastTally
<1>7. CASE (ref.kind = "node" => node[ref.at].ref # 1) /\ dropping'[t] = Tail(s)
  <2>1. \A x \in Nodes : /\ node[x].ref \in Nat /\ node'[x].ref \in Nat
                         /\ NodeRef(x) # ref => node'[x].ref = node[x].ref
                         /\ NodeRef(x) = ref => node'[x].ref = node[x].ref - 1
    BY <1>3, DropCounts
  <2>2. \A x : NodeRef(x) = ref => ref.kind = "node" /\ ref.at = x
    BY DEF NodeRef
  <2>3. ref.kind = "node" => Live(ref.at)
    BY <1>3, DropFacts
  <2>4. ASSUME NEW x \in Nodes
        PROVE  Live(x)' <=> Live(x)
    BY <1>7, <2>1, <2>2, <2>3 DEF Live
  <2> QED
    BY <1>3, <1>7, <2>4, DropOneTally
<1> QED
  BY <1>4, <1>6, <1>7

-----------------------------------------------------------------------------
(* The first state *)

\* Every vertex but the root is the child of one vertex, and the root is nobody's.
LEMMA ParentOf ==
    /\ \A v \in Vertices : RootVertex \notin {Left[v], Right[v]}
    /\ \A v, u, c \in Vertices : c \in {Left[v], Right[v]} /\ c \in {Left[u], Right[u]} => v = u
    /\ \A c \in Vertices : c # RootVertex => \E v \in Vertices : c \in {Left[v], Right[v]}
<1>1. \A v \in Vertices : RootVertex \notin {Left[v], Right[v]}
  <2>1. SUFFICES ASSUME NEW v \in Vertices, RootVertex \in {Left[v], Right[v]}
                 PROVE  FALSE
    OBVIOUS
  <2>2. Depth[RootVertex] = Depth[v] + 1 /\ Depth[RootVertex] = 0 /\ Depth[v] \in Nat
    BY <2>1, TreeFacts, Constants DEF IsDepth
  <2> QED
    BY <2>2
<1>2. \A v, u, c \in Vertices : c \in {Left[v], Right[v]} /\ c \in {Left[u], Right[u]} => v = u
  BY HeapAssumption DEF SearchTree
<1>3. ASSUME NEW c \in Vertices, c # RootVertex
      PROVE  \E v \in Vertices : c \in {Left[v], Right[v]}
  <2> DEFINE N == Cardinality(Vertices)
             done == \E v \in Vertices : c \in {Left[v], Right[v]}
             K == {n \in 0..N : done \/ \E v \in Vertices : Depth[v] = n /\ c \in Below[v] /\ c # v}
  <2>1. N \in Nat
    BY Constants
  <2>2. 0 \in K
    <3>1. /\ RootVertex \in Vertices /\ Depth[RootVertex] = 0 /\ c \in Below[RootVertex]
      BY TreeFacts, Constants DEF IsDepth, IsBelow
    <3> QED
      BY <1>3, <2>1, <3>1
  <2>3. ASSUME NEW n \in 1..N, n - 1 \in K
        PROVE  n \in K
    <3>1. n \in 0..N
      BY <2>1
    <3>2. CASE done
      BY <3>1, <3>2
    <3>3. CASE ~done
      <4>1. PICK v \in Vertices : Depth[v] = n - 1 /\ c \in Below[v] /\ c # v
        BY <2>3, <3>3
      <4>2. PICK u \in {Left[v], Right[v]} : u \in Vertices /\ c \in Below[u]
        BY <4>1, SearchGoesDown
      <4>3. Depth[u] = n
        BY <4>1, <4>2, TreeFacts DEF IsDepth
      <4>4. c # u
        BY <3>3, <4>2
      <4> HIDE DEF done
      <4> QED
        BY <3>1, <4>2, <4>3, <4>4
    <3> QED
      BY <3>2, <3>3
  <2> HIDE DEF K
  <2>4. N \in K
    BY <2>1, <2>2, <2>3, UpTo
  <2>5. ASSUME NEW v \in Vertices, Depth[v] = N
        PROVE  FALSE
    <3>1. Depth[v] \in 0..N-1
      BY TreeFacts DEF IsDepth
    <3> QED
      BY <2>1, <2>5, <3>1
  <2> QED
    BY <2>4, <2>5 DEF K
<1> QED
  BY <1>1, <1>2, <1>3

LEMMA InitFacts ==
    ASSUME Init
    PROVE  /\ \A x \in Nodes : /\ x \in Vertices => /\ node[x].key = x /\ node[x].nb = x
                                                    /\ node[x].lc = Left[x] /\ node[x].rc = Right[x]
                                                    /\ node[x].ref = 1
                               /\ x \notin Vertices => node[x].ref = 0
           /\ \A b \in Blocks : block[b].ref = IF b \in Vertices THEN 1 ELSE 0
           /\ writer.pc = "idle" /\ writer.stack = <<>> /\ writer.made = Null
           /\ root = RootVertex /\ Waiting = 0 /\ ~Built
           /\ \A r \in Readers : reader[r] = Away
           /\ \A t \in Threads : dropping[t] = <<>>
<1>1. \A x \in Nodes : /\ x \in Vertices => /\ node[x].key = x /\ node[x].nb = x
                                            /\ node[x].lc = Left[x] /\ node[x].rc = Right[x]
                                            /\ node[x].ref = 1
                       /\ x \notin Vertices => node[x].ref = 0
  BY DEF Init, Nodes, NoNode
<1>2. \A b \in Blocks : block[b].ref = IF b \in Vertices THEN 1 ELSE 0
  BY DEF Init, Blocks, NoBlock
<1>3. /\ writer.pc = "idle" /\ writer.stack = <<>> /\ writer.made = Null
      /\ root = RootVertex /\ Waiting = 0 /\ ~Built
      /\ \A r \in Readers : reader[r] = Away
      /\ \A t \in Threads : dropping[t] = <<>>
  BY DEF Init, Resting, Waiting, Built
<1> QED
  BY <1>1, <1>2, <1>3

LEMMA InitTypes ==
    ASSUME Init
    PROVE  Types
<1>1. \A x \in Nodes : node[x] \in [key : Vertices \cup {Null}, nb : 0..NumBlocks,
                                    lc : 0..NumNodes, rc : 0..NumNodes, ref : Nat]
  <2>1. ASSUME NEW x \in Nodes, x \in Vertices
        PROVE  node[x] \in [key : Vertices \cup {Null}, nb : 0..NumBlocks,
                            lc : 0..NumNodes, rc : 0..NumNodes, ref : Nat]
    <3>1. node[x] = [key |-> x, nb |-> x, lc |-> Left[x], rc |-> Right[x], ref |-> 1]
      BY <2>1 DEF Init, Nodes
    <3>2. /\ x \in 0..NumBlocks /\ Left[x] \in 0..NumNodes /\ Right[x] \in 0..NumNodes
      <4>1. /\ Left[x] \in Vertices \cup {Null} /\ Right[x] \in Vertices \cup {Null}
            /\ Vertices \subseteq Nodes /\ Vertices \subseteq Blocks
        BY <2>1, Constants
      <4>2. /\ Nodes \cup {Null} \subseteq 0..NumNodes /\ Blocks \subseteq 0..NumBlocks
        BY Constants DEF Nodes, Blocks
      <4> QED
        BY <2>1, <4>1, <4>2
    <3> QED
      BY <2>1, <3>1, <3>2
  <2>2. ASSUME NEW x \in Nodes, x \notin Vertices
        PROVE  node[x] \in [key : Vertices \cup {Null}, nb : 0..NumBlocks,
                            lc : 0..NumNodes, rc : 0..NumNodes, ref : Nat]
    <3>1. node[x] = NoNode
      BY <2>2 DEF Init, Nodes
    <3>2. Null \in 0..NumBlocks /\ Null \in 0..NumNodes
      BY Constants
    <3> QED
      BY <3>1, <3>2 DEF NoNode
  <2> QED
    BY <2>1, <2>2
<1>2. \A b \in Blocks : block[b] \in [dests : SUBSET Vertices, ref : Nat]
  BY DEF Init, Blocks, NoBlock
<1>3. /\ node = [x \in Nodes |-> node[x]] /\ block = [b \in Blocks |-> block[b]]
  BY DEF Init, Nodes, Blocks
<1>4. root \in Nodes /\ dropping \in [Threads -> Seq(Refs)]
  BY Constants DEF Init
<1>5. HeapTypes
  BY <1>1, <1>2, <1>3, <1>4 DEF HeapTypes
<1>6. WriterTypes
  <2>1. Null \in 0..NumNodes
    BY Constants
  <2> QED
    BY <2>1 DEF Init, Resting, WriterTypes
<1>7. ReaderTypes
  <2>1. Null \in 0..NumNodes /\ Null \in 0..NumBlocks
    BY Constants
  <2> QED
    BY <2>1 DEF Init, Away, ReaderTypes
<1> QED
  BY <1>5, <1>6, <1>7 DEF Types

LEMMA InitPlaces ==
    ASSUME Init
    PROVE  /\ \A x \in Nodes :
                 /\ Pointer[LeftLink(x)] = IF x \in Vertices THEN NodeRef(Left[x]) ELSE Nothing
                 /\ Pointer[RightLink(x)] = IF x \in Vertices THEN NodeRef(Right[x]) ELSE Nothing
                 /\ Pointer[RecordLink(x)] = IF x \in Vertices THEN BlockRef(x) ELSE Nothing
           /\ \A i \in Nat : Pointer[LeftKept(i)] = Nothing /\ Pointer[RightKept(i)] = Nothing
           /\ Pointer[RootPlace] = NodeRef(RootVertex)
           /\ Pointer[AtPlace] = Nothing /\ Pointer[MadePlace] = Nothing
           /\ \A r \in Readers : Pointer[SnapshotPlace(r)] = Nothing /\ Pointer[PinPlace(r)] = Nothing
           /\ \A t \in Threads, j \in Nat : Pointer[DropPlace(t, j)] = Nothing
<1>1. /\ \A x \in Nodes : /\ x \in Vertices => /\ node[x].key = x /\ node[x].nb = x
                                              /\ node[x].lc = Left[x] /\ node[x].rc = Right[x]
                                              /\ node[x].ref = 1
                          /\ x \notin Vertices => node[x].ref = 0
      /\ writer.pc = "idle" /\ Waiting = 0 /\ ~Built /\ root = RootVertex
      /\ \A r \in Readers : reader[r] = Away
      /\ \A t \in Threads : dropping[t] = <<>>
  BY InitFacts
<1>2. \A x : ~Cut(x)
  BY <1>1 DEF Cut
<1>3. \A x \in Nodes : Live(x) <=> x \in Vertices
  BY <1>1 DEF Live
<1>4. \A x \in Nodes :
         /\ LeftOf(x) = IF x \in Vertices THEN NodeRef(Left[x]) ELSE Nothing
         /\ RightOf(x) = IF x \in Vertices THEN NodeRef(Right[x]) ELSE Nothing
         /\ RecordOf(x) = IF x \in Vertices THEN BlockRef(x) ELSE Nothing
  BY <1>1, <1>2, <1>3 DEF LeftOf, RightOf, RecordOf, StaleLeft, StaleRight
<1>5. \A i \in Nat : KeptLeft(i) = Nothing /\ KeptRight(i) = Nothing
  BY <1>1 DEF KeptLeft, KeptRight, Keeps
<1>6. OfRoot = NodeRef(RootVertex) /\ OfAt = Nothing /\ OfMade = Nothing
  BY <1>1 DEF OfRoot, OfAt, OfMade, RootHeld
<1>7. \A r \in Readers : OfSnapshot(r) = Nothing /\ OfPin(r) = Nothing
  BY <1>1 DEF OfSnapshot, OfPin, Open, Away
<1>8. \A t \in Threads, j \in Nat : OfDropping(t, j) = Nothing
  BY <1>1 DEF OfDropping
<1> QED
  BY <1>4, <1>5, <1>6, <1>7, <1>8, PointerAt

LEMMA InitTally ==
    ASSUME Init
    PROVE  Tally
<1>1. /\ \A x \in Nodes :
           /\ Pointer[LeftLink(x)] = IF x \in Vertices THEN NodeRef(Left[x]) ELSE Nothing
           /\ Pointer[RightLink(x)] = IF x \in Vertices THEN NodeRef(Right[x]) ELSE Nothing
           /\ Pointer[RecordLink(x)] = IF x \in Vertices THEN BlockRef(x) ELSE Nothing
      /\ \A i \in Nat : Pointer[LeftKept(i)] = Nothing /\ Pointer[RightKept(i)] = Nothing
      /\ Pointer[RootPlace] = NodeRef(RootVertex)
      /\ Pointer[AtPlace] = Nothing /\ Pointer[MadePlace] = Nothing
      /\ \A r \in Readers : Pointer[SnapshotPlace(r)] = Nothing /\ Pointer[PinPlace(r)] = Nothing
      /\ \A t \in Threads, j \in Nat : Pointer[DropPlace(t, j)] = Nothing
  BY InitPlaces
\* Only links and the root hold anything.
<1>2. ASSUME NEW ref \in Refs, NEW p \in Places, Pointer[p] = ref
      PROVE  \/ p = RootPlace /\ ref = NodeRef(RootVertex)
             \/ \E v \in Vertices : \/ p = LeftLink(v) /\ ref = NodeRef(Left[v])
                                    \/ p = RightLink(v) /\ ref = NodeRef(Right[v])
                                    \/ p = RecordLink(v) /\ ref = BlockRef(v)
  <2>1. ref # Nothing
    BY RefFacts
  <2>2. ASSUME NEW x \in Nodes, p \in {LeftLink(x), RightLink(x), RecordLink(x)}
        PROVE  \E v \in Vertices : \/ p = LeftLink(v) /\ ref = NodeRef(Left[v])
                                   \/ p = RightLink(v) /\ ref = NodeRef(Right[v])
                                   \/ p = RecordLink(v) /\ ref = BlockRef(v)
    <3>1. x \in Vertices
      BY <1>1, <1>2, <2>1, <2>2
    <3> QED
      BY <1>1, <1>2, <2>2, <3>1
  <2>3. p \in {RootPlace, AtPlace, MadePlace} => p = RootPlace /\ ref = NodeRef(RootVertex)
    BY <1>1, <1>2, <2>1
  <2>4. /\ \A i \in Nat : p \notin {LeftKept(i), RightKept(i)}
        /\ \A r \in Readers : p \notin {SnapshotPlace(r), PinPlace(r)}
        /\ \A t \in Threads, j \in Nat : p # DropPlace(t, j)
    BY <1>1, <1>2, <2>1
  <2> QED
    BY <2>2, <2>3, <2>4, PlaceCases
<1>3. ASSUME NEW ref \in Refs, NEW p \in Places, Holding(Pointer, ref) = {p}, Count[ref] = 1
      PROVE  /\ IsFiniteSet(Holding(Pointer, ref))
             /\ Count[ref] = Cardinality(Holding(Pointer, ref))
  BY <1>3, FS_Singleton
<1>4. ASSUME NEW ref \in Refs, Holding(Pointer, ref) = {}, Count[ref] = 0
      PROVE  /\ IsFiniteSet(Holding(Pointer, ref))
             /\ Count[ref] = Cardinality(Holding(Pointer, ref))
  BY <1>4, FS_EmptySet
<1>5. /\ \A x \in Nodes : node[x].ref = IF x \in Vertices THEN 1 ELSE 0
      /\ \A b \in Blocks : block[b].ref = IF b \in Vertices THEN 1 ELSE 0
  BY InitFacts
<1>6. /\ Vertices \subseteq Nodes /\ Vertices \subseteq Blocks /\ RootVertex \in Vertices
      /\ Null \notin Vertices
  BY Constants
<1>7. ASSUME NEW b \in Blocks
      PROVE  /\ IsFiniteSet(Holding(Pointer, BlockRef(b)))
             /\ Count[BlockRef(b)] = Cardinality(Holding(Pointer, BlockRef(b)))
  <2>1. BlockRef(b) \in Refs /\ Count[BlockRef(b)] = block[b].ref
    BY RefFacts, CountOf
  <2>2. ASSUME NEW p \in Places, Pointer[p] = BlockRef(b)
        PROVE  b \in Vertices /\ p = RecordLink(b)
    <3>1. /\ \A a : BlockRef(b) # NodeRef(a)
          /\ \A a : BlockRef(b) = BlockRef(a) => a = b
      BY RefFacts
    <3> QED
      BY <1>2, <2>1, <2>2, <3>1
  <2>3. CASE b \in Vertices
    <3>1. RecordLink(b) \in Places /\ Pointer[RecordLink(b)] = BlockRef(b)
      BY <1>1, <1>6, <2>3, PlaceFacts
    <3>2. Holding(Pointer, BlockRef(b)) = {RecordLink(b)}
      BY <2>2, <3>1 DEF Holding
    <3> QED
      BY <1>3, <1>5, <2>1, <2>3, <3>1, <3>2
  <2>4. CASE b \notin Vertices
    <3>1. Holding(Pointer, BlockRef(b)) = {}
      BY <2>2, <2>4 DEF Holding
    <3> QED
      BY <1>4, <1>5, <2>1, <2>4, <3>1
  <2> QED
    BY <2>3, <2>4
<1>8. ASSUME NEW a \in Nodes
      PROVE  /\ IsFiniteSet(Holding(Pointer, NodeRef(a)))
             /\ Count[NodeRef(a)] = Cardinality(Holding(Pointer, NodeRef(a)))
  <2>1. NodeRef(a) \in Refs /\ Count[NodeRef(a)] = node[a].ref
    BY RefFacts, CountOf
  <2>2. ASSUME NEW p \in Places, Pointer[p] = NodeRef(a)
        PROVE  \/ p = RootPlace /\ a = RootVertex
               \/ \E v \in Vertices : \/ p = LeftLink(v) /\ a = Left[v]
                                      \/ p = RightLink(v) /\ a = Right[v]
    <3>1. /\ \A b : NodeRef(a) # BlockRef(b)
          /\ \A b : NodeRef(a) = NodeRef(b) => a = b
      BY RefFacts
    <3> QED
      BY <1>2, <2>1, <2>2, <3>1
  <2>3. a \in Nodes => a # Null
    BY Constants DEF Nodes
  <2>4. \A v \in Vertices : Left[v] \in Vertices \cup {Null} /\ Right[v] \in Vertices \cup {Null}
    BY Constants
  <2>5. CASE a \notin Vertices
    <3>1. Holding(Pointer, NodeRef(a)) = {}
      BY <1>6, <2>2, <2>3, <2>4, <2>5 DEF Holding
    <3> QED
      BY <1>4, <1>5, <2>1, <2>5, <3>1
  <2>6. CASE a = RootVertex
    <3>1. Holding(Pointer, NodeRef(a)) = {RootPlace} /\ RootPlace \in Places
      BY <1>1, <2>2, <2>6, ParentOf, PlaceFacts DEF Holding
    <3> QED
      BY <1>3, <1>5, <1>6, <2>1, <2>6, <3>1
  <2>7. CASE a \in Vertices /\ a # RootVertex
    <3>1. PICK v \in Vertices : a \in {Left[v], Right[v]}
      BY <2>7, ParentOf
    <3>2. \A u \in Vertices : a \in {Left[u], Right[u]} => u = v
      BY <2>7, <3>1, ParentOf
    <3>3. ~(a = Left[v] /\ a = Right[v])
      BY <2>3, ChildrenDiffer
    <3>4. /\ LeftLink(v) \in Places /\ RightLink(v) \in Places
          /\ Pointer[LeftLink(v)] = NodeRef(Left[v]) /\ Pointer[RightLink(v)] = NodeRef(Right[v])
      BY <1>1, <1>6, PlaceFacts
    <3>5. CASE a = Left[v]
      <4>1. Holding(Pointer, NodeRef(a)) = {LeftLink(v)}
        BY <2>2, <2>7, <3>2, <3>3, <3>4, <3>5 DEF Holding
      <4> QED
        BY <1>3, <1>5, <2>1, <2>7, <3>4, <4>1
    <3>6. CASE a = Right[v]
      <4>1. Holding(Pointer, NodeRef(a)) = {RightLink(v)}
        BY <2>2, <2>7, <3>2, <3>3, <3>4, <3>6 DEF Holding
      <4> QED
        BY <1>3, <1>5, <2>1, <2>7, <3>4, <4>1
    <3> QED
      BY <3>1, <3>5, <3>6
  <2> QED
    BY <2>5, <2>6, <2>7
<1> QED
  BY <1>7, <1>8, RefFacts DEF Tally, Counts

LEMMA InitHolds ==
    ASSUME Init
    PROVE  HeapInv
<1>1. Shape
  <2>1. \A x : ~Cut(x)
    BY InitFacts DEF Cut
  <2>2. ASSUME NEW x \in Nodes, Live(x)
        PROVE  /\ node[x].key \in Vertices /\ node[x].nb \in Blocks
               /\ KeyOf(node[x].lc) = Left[node[x].key]
               /\ KeyOf(node[x].rc) = Right[node[x].key]
    <3>1. x \in Vertices
      BY <2>2, InitFacts DEF Live
    <3>2. /\ node[x].key = x /\ node[x].nb = x /\ node[x].lc = Left[x] /\ node[x].rc = Right[x]
      BY <3>1, InitFacts
    <3>3. /\ Left[x] \in Vertices \cup {Null} /\ Right[x] \in Vertices \cup {Null}
          /\ Vertices \subseteq Nodes /\ Vertices \subseteq Blocks
      BY <3>1, Constants
    <3>4. \A v \in Vertices : KeyOf(v) = v
      BY <3>3, InitFacts, Constants DEF KeyOf
    <3> QED
      BY <3>1, <3>2, <3>3, <3>4 DEF KeyOf
  <2> QED
    BY <2>2 DEF Shape
<1>2. Path
  <2>1. /\ writer.pc = "idle" /\ writer.stack = <<>> /\ writer.made = Null
        /\ root = RootVertex /\ Waiting = 0 /\ ~Built
    BY InitFacts
  <2>2. node[root].key = RootVertex
    BY <2>1, InitFacts, Constants
  <2> QED
    BY <2>1, <2>2 DEF Path, Frames
<1>3. Snapshots
  BY InitFacts DEF Snapshots, Away, Open
<1> QED
  BY <1>1, <1>2, <1>3, InitTypes, InitTally DEF HeapInv

-----------------------------------------------------------------------------
(* The trees and the search, step by step *)

NodeRecords == [key : Vertices \cup {Null}, nb : 0..NumBlocks,
                lc : 0..NumNodes, rc : 0..NumNodes, ref : Nat]

Frozen(x) == /\ node'[x].key = node[x].key /\ node'[x].nb = node[x].nb
             /\ node'[x].lc = node[x].lc /\ node'[x].rc = node[x].rc

\* Steps that are not the writer's only change counts.
LEMMA ShapeStays ==
    ASSUME HeapInv, HeapTypes', UNCHANGED writer,
           \A x \in Nodes : Frozen(x) /\ (Live(x)' => Live(x))
    PROVE  Shape'
<1>1. /\ Waiting' = Waiting /\ (Built' <=> Built) /\ Key' = Key
      /\ writer.pc = "build" => Frame' = Frame
  BY DEF Waiting, Built, Key, Frame
<1>2. \A x : Cut(x)' <=> Cut(x)
  BY <1>1 DEF Cut
<1>3. ASSUME NEW x \in Nodes, Live(x)'
      PROVE  /\ node'[x].key \in Vertices /\ node'[x].nb \in Blocks
             /\ ~StaleLeft(x)' => KeyOf(node[x].lc)' = Left[node'[x].key]
             /\ ~StaleRight(x)' => KeyOf(node[x].rc)' = Right[node'[x].key]
  <2>1. Live(x) /\ Frozen(x)
    BY <1>3
  <2>2. /\ StaleLeft(x)' <=> StaleLeft(x)
        /\ StaleRight(x)' <=> StaleRight(x)
    BY <1>1, <1>2, <2>1 DEF StaleLeft, StaleRight, Frozen
  <2>3. node[x].lc \in Nodes \cup {Null} /\ node[x].rc \in Nodes \cup {Null}
    BY NodeTypes DEF HeapInv, Types
  <2>4. KeyOf(node[x].lc)' = KeyOf(node[x].lc) /\ KeyOf(node[x].rc)' = KeyOf(node[x].rc)
    BY <2>1, <2>3 DEF KeyOf, Frozen
  <2> QED
    BY <2>1, <2>2, <2>4 DEF HeapInv, Shape, Frozen
<1> QED
  BY <1>3 DEF Shape

LEMMA PathStays ==
    ASSUME HeapInv, HeapTypes', UNCHANGED <<writer, root>>, \A x \in Nodes : Frozen(x),
           \A i \in 1..Waiting : /\ Live(writer.stack[i].a)'
                                 /\ ~writer.stack[i].copy => node'[writer.stack[i].a].ref = 1,
           Built => Live(writer.at)' /\ node'[writer.at].ref = 1,
           writer.pc = "put" => /\ dropping'[Writer] = <<>>
                                /\ writer.extra \/ block'[node[writer.at].nb].ref = 1
    PROVE  Path'
<1>1. /\ Waiting' = Waiting /\ (Built' <=> Built) /\ Key' = Key
      /\ writer.stack # <<>> => Frame' = Frame
      /\ RootHeld' <=> RootHeld
  BY DEF Waiting, Built, Key, Frame, RootHeld
<1>2. \A x \in Nodes : node'[x].key = node[x].key /\ Down(x)' = Down(x)
  BY <1>1 DEF Frozen, Down
<1>3. root \in Nodes
  BY DEF HeapInv, Types, HeapTypes
<1>4. writer.stack # <<>> => /\ Frame.a \in Nodes
                             /\ Waiting > 0 => writer.stack[Waiting].a \in Nodes
  <2>1. ASSUME writer.stack # <<>>
        PROVE  /\ Frame.a \in Nodes
               /\ Waiting > 0 => writer.stack[Waiting].a \in Nodes
    <3>1. /\ Frame = writer.stack[Len(writer.stack)] /\ Waiting \in 0..Len(writer.stack)
          /\ Len(writer.stack) \in 1..Len(writer.stack)
      BY <2>1, StackFacts DEF HeapInv, Types
    <3>2. Waiting > 0 => Waiting \in 1..Len(writer.stack)
      BY <3>1
    <3> QED
      BY <3>1, <3>2, StackFacts DEF HeapInv, Types
  <2> QED
    BY <2>1
<1>5. writer.made # Null => writer.made \in Nodes
  BY Constants DEF HeapInv, Types, WriterTypes, Nodes
<1>6. Frames'
  <2>1. ASSUME NEW i \in 1..Waiting
        PROVE  FrameHolds(i)'
    <3>1. FrameHolds(i)
      BY DEF HeapInv, Path, Frames
    <3>2. writer.stack[i].a \in Nodes /\ (i > 1 => writer.stack[i-1].a \in Nodes)
      BY FrameFacts
    <3> QED
      BY <1>1, <1>2, <3>1, <3>2 DEF FrameHolds
  <2>2. \A i \in DOMAIN writer.stack :
          /\ writer.stack[i].extra <=> (i > 1 /\ writer.stack[i-1].copy)
          /\ writer.stack[i].extra => writer.stack[i].copy
    BY DEF HeapInv, Path, Frames
  <2> QED
    BY <1>1, <2>1, <2>2 DEF Frames
<1>7. /\ writer.pc = "enter" =>
          /\ writer.extra <=> (Waiting > 0 /\ Frame'.copy)
          /\ IF Waiting = 0 THEN writer.at = root
             ELSE node'[Frame'.a].key # Key /\ writer.at = Down(Frame.a)'
  <2>1. ASSUME writer.pc = "enter"
        PROVE  /\ writer.extra <=> (Waiting > 0 /\ Frame'.copy)
               /\ IF Waiting = 0 THEN writer.at = root
                  ELSE node'[Frame'.a].key # Key /\ writer.at = Down(Frame.a)'
    <3>1. Waiting = Len(writer.stack) /\ Waiting \in Nat
      BY <2>1, StackFacts DEF HeapInv, Types, Waiting, Built
    <3>2. CASE Waiting = 0
      BY <2>1, <3>2 DEF HeapInv, Path
    <3>3. CASE Waiting # 0
      <4>1. writer.stack # <<>> /\ Waiting > 0
        BY <3>1, <3>3, StackFacts DEF HeapInv, Types
      <4> QED
        BY <1>1, <1>2, <1>4, <2>1, <3>3, <4>1 DEF HeapInv, Path
    <3> QED
      BY <3>2, <3>3
  <2> QED
    BY <2>1
<1>8. writer.pc = "build" =>
          /\ writer.made = Null <=> node'[Frame'.a].key = Key
          /\ writer.made # Null => node'[writer.made].key = KeyMade'
  <2>1. ASSUME writer.pc = "build"
        PROVE  /\ writer.made = Null <=> node'[Frame'.a].key = Key
               /\ writer.made # Null => node'[writer.made].key = KeyMade'
    <3>1. writer.stack # <<>> /\ KeyMade' = KeyMade
      BY <1>1, <1>2, <1>4, <2>1 DEF HeapInv, Path, KeyMade, KeyDown
    <3> QED
      BY <1>1, <1>2, <1>4, <1>5, <2>1, <3>1 DEF HeapInv, Path
  <2> QED
    BY <2>1
<1>9. Built =>
          /\ node'[writer.at].key = KeyMade'
          /\ Waiting > 0 => node'[writer.stack[Waiting].a].key # Key
          /\ writer.made = Null <=> node'[writer.at].key = Key
          /\ writer.made # Null => node'[writer.made].key = KeyDown(node[writer.at].key)'
          /\ writer.pc \in {"look", "put"} => node'[writer.at].key = Key
  <2>1. ASSUME Built
        PROVE  /\ node'[writer.at].key = KeyMade'
               /\ Waiting > 0 => node'[writer.stack[Waiting].a].key # Key
               /\ writer.made = Null <=> node'[writer.at].key = Key
               /\ writer.made # Null => node'[writer.made].key = KeyDown(node[writer.at].key)'
               /\ writer.pc \in {"look", "put"} => node'[writer.at].key = Key
    <3>1. writer.stack # <<>> /\ writer.at \in Nodes
      BY <2>1, AtFacts DEF HeapInv, Path, Built
    <3>2. KeyMade' = KeyMade /\ node'[writer.at].key = node[writer.at].key
          /\ KeyDown(node[writer.at].key)' = KeyDown(node[writer.at].key)
      BY <1>1, <1>2, <1>4, <2>1, <3>1 DEF KeyMade, KeyDown
    <3> QED
      BY <1>1, <1>2, <1>4, <1>5, <2>1, <3>1, <3>2 DEF HeapInv, Path
  <2> QED
    BY <2>1
<1>10. /\ writer.pc \in {"idle", "root"} => writer.stack = <<>>
       /\ writer.pc \in {"descend", "build", "look", "put", "join"} => writer.stack # <<>>
       /\ writer.pc # "idle" => writer.edges # <<>>
       /\ writer.pc \in {"enter", "descend"} => writer.made = Null
       /\ RootHeld' => node'[root].key = RootVertex
       /\ writer.pc = "root" => writer.made # Null /\ node'[writer.made].key = RootVertex
  BY <1>1, <1>2, <1>3, <1>5 DEF HeapInv, Path
<1>11. writer.pc = "put" => /\ dropping'[Writer] = <<>>
                            /\ writer.extra \/ block'[node'[writer.at].nb].ref = 1
  <2>1. writer.pc = "put" => writer.at \in Nodes
    BY AtFacts DEF Built
  <2> QED
    BY <2>1 DEF Frozen
<1> QED
  BY <1>1, <1>6, <1>7, <1>8, <1>9, <1>10, <1>11 DEF Path

\* The writer's own nodes and its block are as they were when no count of theirs changes.
LEMMA SameHeapPath ==
    ASSUME HeapInv, UNCHANGED <<node, root, writer>>, HeapTypes',
           writer.pc = "put" => /\ dropping'[Writer] = <<>>
                                /\ block'[node[writer.at].nb].ref = block[node[writer.at].nb].ref
    PROVE  Shape' /\ Path'
<1>1. \A x \in Nodes : Frozen(x) /\ (Live(x)' <=> Live(x))
  BY DEF Frozen, Live
<1>2. \A i \in 1..Waiting : /\ Live(writer.stack[i].a)'
                            /\ ~writer.stack[i].copy => node'[writer.stack[i].a].ref = 1
  BY <1>1, FrameFacts
<1>3. Built => Live(writer.at)' /\ node'[writer.at].ref = 1
  BY <1>1, AtFacts
<1>4. writer.pc = "put" => /\ dropping'[Writer] = <<>>
                           /\ writer.extra \/ block'[node[writer.at].nb].ref = 1
  BY DEF HeapInv, Path
<1> QED
  BY <1>1, <1>2, <1>3, <1>4, ShapeStays, PathStays

LEMMA TakeRootStep ==
    ASSUME HeapInv, Quiet, NEW r \in Readers, TakeRoot(r)
    PROVE  HeapInv'
<1>1. /\ UNCHANGED <<node, block, root, writer, dropping>> /\ writer.pc = "idle"
      /\ reader' = [reader EXCEPT ![r] = [Away EXCEPT !.pc = "count", !.root = root]]
  BY DEF TakeRoot, heapVars
<1>2. Types'
  <2>1. HeapTypes' /\ WriterTypes'
    BY <1>1 DEF HeapInv, Types, HeapTypes, WriterTypes
  <2>2. root \in 0..NumNodes
    BY DEF HeapInv, Types, HeapTypes, Nodes
  <2>3. ReaderTypes'
    <3>1. Null \in 0..NumBlocks
      BY Constants
    <3>2. [Away EXCEPT !.pc = "count", !.root = root] \in
             [pc : {"none", "count", "open", "read"}, root : 0..NumNodes,
              pin : 0..NumBlocks, op : ReadOps \cup {NoAnswer}]
      BY <2>2, <3>1 DEF Away
    <3> QED
      BY <1>1, <3>2 DEF HeapInv, Types, ReaderTypes
  <2> QED
    BY <2>1, <2>3 DEF Types
<1>3. Shape' /\ Path'
  BY <1>1, <1>2, SameHeapPath DEF Types
<1>4. Snapshots'
  <2>1. /\ reader'[r].pc = "count" /\ reader'[r].root = root
        /\ \A s \in Readers : s # r => reader'[s] = reader[s]
    BY <1>1 DEF HeapInv, Types, ReaderTypes, Away
  <2> QED
    BY <1>1, <2>1 DEF HeapInv, Snapshots, Open
<1> QED
  BY <1>2, <1>3, <1>4, TakeRootTally DEF HeapInv

LEMMA CountRootStep ==
    ASSUME HeapInv, NEW r \in Readers, CountRoot(r)
    PROVE  HeapInv'
<1>1. /\ reader[r].pc = "count" /\ writer.pc = "idle" /\ reader[r].root = root
      /\ node' = Incremented(node, {reader[r].root})
      /\ reader' = [reader EXCEPT ![r].pc = "open"]
      /\ UNCHANGED <<block, root, writer, dropping>>
  BY DEF CountRoot, HeapInv, Snapshots
<1>2. /\ node' \in [Nodes -> NodeRecords]
      /\ \A x \in Nodes : /\ Frozen(x) /\ node[x].ref \in Nat
                          /\ node'[x].ref = node[x].ref + (IF x = root THEN 1 ELSE 0)
  <2>1. /\ node' \in [Nodes -> NodeRecords]
        /\ \A x \in Nodes : /\ Frozen(x)
                            /\ node'[x].ref = node[x].ref + (IF x \in {root} THEN 1 ELSE 0)
    BY <1>1, IncrementedFacts DEF NodeRecords, Frozen, HeapInv, Types
  <2>2. \A x \in Nodes : node[x].ref \in Nat
    BY NodeTypes DEF HeapInv, Types
  <2> QED
    BY <2>1, <2>2
<1>3. root \in Nodes /\ Live(root)
  <2>1. root \in Nodes
    BY DEF HeapInv, Types, HeapTypes
  <2>2. OfRoot = NodeRef(root)
    BY <1>1 DEF OfRoot, RootHeld, Built
  <2> QED
    BY <2>1, <2>2, PlaceFacts, PointerAt, Held DEF HeapInv, Types
<1>4. /\ reader'[r].pc = "open" /\ reader'[r].root = root /\ reader'[r] \in
            [pc : {"none", "count", "open", "read"}, root : 0..NumNodes,
             pin : 0..NumBlocks, op : ReadOps \cup {NoAnswer}]
      /\ \A s \in Readers : s # r => reader'[s] = reader[s]
      /\ DOMAIN reader' = Readers
  BY <1>1 DEF HeapInv, Types, ReaderTypes
<1>5. Types'
  <2>1. HeapTypes' /\ WriterTypes'
    BY <1>1, <1>2 DEF HeapInv, Types, HeapTypes, WriterTypes, NodeRecords
  <2>2. ReaderTypes'
    BY <1>1, <1>4 DEF HeapInv, Types, ReaderTypes
  <2> QED
    BY <2>1, <2>2 DEF Types
<1>6. \A x \in Nodes : Live(x)' <=> Live(x)
  BY <1>2, <1>3 DEF Live
<1>7. Shape'
  BY <1>1, <1>2, <1>5, <1>6, ShapeStays DEF Types
<1>8. Waiting = 0 /\ ~Built
  BY <1>1 DEF Waiting, Built, HeapInv, Path
<1>9. Path'
  BY <1>1, <1>2, <1>5, <1>8, PathStays DEF Types
<1>10. Snapshots'
  <2>1. node'[root].key = RootVertex /\ root # Null
    <3>1. node[root].key = RootVertex
      BY <1>1, <1>8 DEF HeapInv, Path, RootHeld
    <3> QED
      BY <1>2, <1>3, <3>1, Constants DEF Frozen, Nodes
  <2>2. \A s \in Readers : Open(s) => reader[s].root \in Nodes
    BY SnapshotStill DEF Still
  <2>3. ASSUME NEW s \in Readers
        PROVE  /\ reader'[s].pc = "none" => reader'[s].root = Null
               /\ reader'[s].pc = "count" => writer'.pc = "idle" /\ reader'[s].root = root'
               /\ Open(s)' => reader'[s].root # Null /\ node'[reader'[s].root].key = RootVertex
               /\ reader'[s].pc = "read" => /\ reader'[s].pin # Null /\ reader'[s].op \in ReadOps
                                            /\ dropping'[s] = <<>>
    <3>1. CASE s = r
      BY <1>1, <1>4, <2>1, <3>1
    <3>2. CASE s # r
      BY <1>1, <1>2, <1>4, <2>2, <3>2, ZenonT(40) DEF HeapInv, Snapshots, Open, Frozen
    <3> QED
      BY <3>1, <3>2
  <2> QED
    BY <2>3 DEF Snapshots
<1> QED
  BY <1>5, <1>7, <1>9, <1>10, CountRootTally DEF HeapInv

LEMMA FindRecordStep ==
    ASSUME HeapInv, NEW r \in Readers, NEW op \in ReadOps, FindRecord(r, op)
    PROVE  HeapInv'
<1>1. PICK b : b = node[Find(reader[r].root, op.u)].nb
  OBVIOUS
<1>2. Finding(r, op, b)
  BY <1>1 DEF Finding
<1>3. /\ reader[r].pc = "open" /\ dropping[r] = <<>> /\ b \in Blocks
      /\ reader'[r].pc = "read" /\ reader'[r].pin = b /\ reader'[r].op = op
      /\ reader'[r].root = reader[r].root
      /\ reader' = [reader EXCEPT ![r] = [reader[r] EXCEPT !.pc = "read", !.pin = b, !.op = op]]
      /\ Raised(b)
      /\ UNCHANGED <<node, root, writer, dropping>>
  BY <1>2, FindRecordFacts
<1>4. /\ \A s \in Readers : s # r => reader'[s] = reader[s]
      /\ block' \in [Blocks -> [dests : SUBSET Vertices, ref : Nat]]
  BY <1>2, FindRecordFacts
<1>5. Types'
  <2>1. HeapTypes' /\ WriterTypes'
    BY <1>3, <1>4 DEF HeapInv, Types, HeapTypes, WriterTypes
  <2>2. b \in 0..NumBlocks
    BY <1>3 DEF Blocks
  <2>3. ReaderTypes'
    BY <1>3, <2>2 DEF HeapInv, Types, ReaderTypes
  <2> QED
    BY <2>1, <2>3 DEF Types
\* The block the writer is about to change is not in a tree that can be read.
<1>6. writer.pc = "put" => /\ dropping'[Writer] = <<>>
                           /\ writer.extra \/ block'[node[writer.at].nb].ref = 1
  <2>1. SUFFICES ASSUME writer.pc = "put", ~writer.extra
                 PROVE  block'[node[writer.at].nb].ref = 1
    BY <1>3 DEF HeapInv, Path
  <2>2. /\ Built /\ block[node[writer.at].nb].ref = 1
    BY <2>1 DEF HeapInv, Path, Built
  <2>3. /\ writer.at \in Nodes /\ Live(writer.at) /\ Opened(writer.at)
        /\ node[writer.at].nb \in Blocks
        /\ Pointer[RecordLink(writer.at)] = BlockRef(node[writer.at].nb)
        /\ RecordLink(writer.at) \in Places
    BY <2>2, AtFacts, Links, PlaceFacts DEF HeapInv, Types, Opened
  <2>4. PICK x \in Still : b = node[x].nb
    <3>1. /\ reader[r].root \in Still /\ node[reader[r].root].key = RootVertex /\ op.u \in Vertices
      BY <1>3, SnapshotStill, Constants DEF Open, HeapInv, Snapshots
    <3>2. Find(reader[r].root, op.u) \in Still
      BY <3>1, Found, TreeStill
    <3> QED
      BY <1>1, <3>2
  <2>5. /\ x \in Nodes /\ x # writer.at /\ RecordLink(x) \in Places
        /\ Pointer[RecordLink(x)] = BlockRef(b)
    BY <2>3, <2>4, Links, PlaceFacts DEF Still, HeapInv, Types
  <2>6. b # node[writer.at].nb
    <3>1. RecordLink(x) # RecordLink(writer.at)
      BY <2>5, PlacesDiffer
    <3> QED
      BY <2>2, <2>3, <2>5, <3>1, Held DEF HeapInv, Types
  <2> QED
    BY <1>3, <2>2, <2>3, <2>6 DEF Raised
<1>7. Shape' /\ Path'
  <2>1. \A x \in Nodes : Frozen(x) /\ (Live(x)' <=> Live(x))
    BY <1>3 DEF Frozen, Live
  <2>2. \A i \in 1..Waiting : /\ Live(writer.stack[i].a)'
                              /\ ~writer.stack[i].copy => node'[writer.stack[i].a].ref = 1
    BY <1>3, <2>1, FrameFacts
  <2>3. Built => Live(writer.at)' /\ node'[writer.at].ref = 1
    BY <1>3, <2>1, AtFacts
  <2> QED
    BY <1>3, <1>5, <1>6, <2>1, <2>2, <2>3, ShapeStays, PathStays DEF Types
<1>8. Snapshots'
  <2>1. b # Null
    BY <1>3, Constants DEF Blocks
  <2> QED
    BY <1>3, <1>4, <2>1 DEF HeapInv, Snapshots, Open
<1> QED
  BY <1>5, <1>7, <1>8, FindRecordTally DEF HeapInv

LEMMA AnswerStep ==
    ASSUME HeapInv, NEW r \in Readers, Answer(r)
    PROVE  HeapInv'
<1>1. /\ reader[r].pc = "read"
      /\ dropping' = [dropping EXCEPT ![r] = <<BlockRef(reader[r].pin)>>]
      /\ reader' = [reader EXCEPT ![r] = [reader[r] EXCEPT !.pc = "open", !.pin = Null, !.op = NoAnswer]]
      /\ UNCHANGED <<node, block, root, writer>>
  BY DEF Answer, heapVars
<1>2. /\ reader'[r].pc = "open" /\ reader'[r].root = reader[r].root
      /\ \A s \in Readers : s # r => reader'[s] = reader[s]
  BY <1>1 DEF HeapInv, Types, ReaderTypes
<1>3. r \in Threads /\ r # Writer
  BY Constants DEF Threads
<1>4. /\ dropping'[Writer] = dropping[Writer] /\ DOMAIN dropping = Threads
      /\ \A s \in Readers : s # r => dropping'[s] = dropping[s]
  <2>1. DOMAIN dropping = Threads /\ Writer \in Threads /\ Readers \subseteq Threads
    BY DEF HeapInv, Types, HeapTypes, Threads
  <2> QED
    BY <1>1, <1>3, <2>1
<1>5. Types'
  <2>1. HeapTypes'
    <3>1. reader[r].pin \in Blocks
      BY <1>1, Constants DEF HeapInv, Snapshots, Types, ReaderTypes, Blocks
    <3>2. <<BlockRef(reader[r].pin)>> \in Seq(Refs)
      BY <3>1, RefFacts
    <3>3. dropping' \in [Threads -> Seq(Refs)]
      BY <1>1, <3>2 DEF HeapInv, Types, HeapTypes
    <3> QED
      BY <1>1, <3>3 DEF HeapInv, Types, HeapTypes
  <2>2. WriterTypes' /\ ReaderTypes'
    <3>1. Null \in 0..NumBlocks
      BY Constants
    <3> QED
      BY <1>1, <3>1, ZenonT(40) DEF HeapInv, Types, WriterTypes, ReaderTypes
  <2> QED
    BY <2>1, <2>2 DEF Types
<1>6. Shape' /\ Path'
  <2>1. writer.pc = "put" => dropping'[Writer] = <<>>
    BY <1>4 DEF HeapInv, Path
  <2> QED
    BY <1>1, <1>5, <2>1, SameHeapPath DEF Types
<1>7. Snapshots'
  BY <1>1, <1>2, <1>4 DEF HeapInv, Snapshots, Open
<1> QED
  BY <1>5, <1>6, <1>7, AnswerTally DEF HeapInv

LEMMA CloseStep ==
    ASSUME HeapInv, NEW r \in Readers, Close(r)
    PROVE  HeapInv'
<1>1. /\ reader[r].pc = "open"
      /\ dropping' = [dropping EXCEPT ![r] = <<NodeRef(reader[r].root)>>]
      /\ reader' = [reader EXCEPT ![r] = Away]
      /\ UNCHANGED <<node, block, root, writer>>
  BY DEF Close, heapVars
<1>2. /\ reader'[r] = Away /\ Away.pc = "none" /\ Away.root = Null
      /\ \A s \in Readers : s # r => reader'[s] = reader[s]
  BY <1>1 DEF HeapInv, Types, ReaderTypes, Away
<1>3. r \in Threads /\ r # Writer
  BY Constants DEF Threads
<1>4. /\ dropping'[Writer] = dropping[Writer] /\ DOMAIN dropping = Threads
      /\ \A s \in Readers : s # r => dropping'[s] = dropping[s]
  <2>1. DOMAIN dropping = Threads /\ Writer \in Threads /\ Readers \subseteq Threads
    BY DEF HeapInv, Types, HeapTypes, Threads
  <2> QED
    BY <1>1, <1>3, <2>1
<1>5. Types'
  <2>1. HeapTypes'
    <3>1. reader[r].root \in Nodes
      BY <1>1, SnapshotStill DEF Open, Still
    <3>2. <<NodeRef(reader[r].root)>> \in Seq(Refs)
      BY <3>1, RefFacts
    <3>3. dropping' \in [Threads -> Seq(Refs)]
      BY <1>1, <3>2 DEF HeapInv, Types, HeapTypes
    <3> QED
      BY <1>1, <3>3 DEF HeapInv, Types, HeapTypes
  <2>2. WriterTypes' /\ ReaderTypes'
    <3>1. Null \in 0..NumBlocks /\ Null \in 0..NumNodes
      BY Constants
    <3>2. Away \in [pc : {"none", "count", "open", "read"}, root : 0..NumNodes,
                    pin : 0..NumBlocks, op : ReadOps \cup {NoAnswer}]
      BY <3>1 DEF Away
    <3> QED
      BY <1>1, <3>2 DEF HeapInv, Types, WriterTypes, ReaderTypes
  <2> QED
    BY <2>1, <2>2 DEF Types
<1>6. Shape' /\ Path'
  <2>1. writer.pc = "put" => dropping'[Writer] = <<>>
    BY <1>4 DEF HeapInv, Path
  <2> QED
    BY <1>1, <1>5, <2>1, SameHeapPath DEF Types
<1>7. Snapshots'
  BY <1>1, <1>2, <1>4 DEF HeapInv, Snapshots, Open
<1> QED
  BY <1>5, <1>6, <1>7, CloseTally DEF HeapInv

LEMMA DropStep ==
    ASSUME HeapInv, NEW t \in Threads, Drop(t)
    PROVE  HeapInv'
<1>1. PICK s : s = dropping[t]
  OBVIOUS
<1>2. PICK ref : ref = Head(s)
  OBVIOUS
<1>3. Returned(t, s, ref)
  BY <1>1, <1>2 DEF Returned
<1>4. /\ s \in Seq(Refs) /\ s # <<>> /\ ref \in Refs /\ Tail(s) \in Seq(Refs)
      /\ Remains(t, s, ref) /\ DOMAIN dropping' = Threads
      /\ DropPlace(t, Len(s)) \in Places /\ Pointer[DropPlace(t, Len(s))] = ref
      /\ UNCHANGED <<root, writer, reader>>
  BY <1>3, DropFacts
<1>5. \A u \in Threads : u # t => dropping'[u] = dropping[u]
  BY <1>3, DropFacts
<1>6. \A x \in Nodes : /\ Frozen(x) /\ node[x].ref \in Nat /\ node'[x].ref \in Nat
                       /\ NodeRef(x) # ref => node'[x].ref = node[x].ref
                       /\ NodeRef(x) = ref => node'[x].ref = node[x].ref - 1
  BY <1>3, DropCounts DEF Frozen
<1>7. \A b \in Blocks : BlockRef(b) # ref => block'[b].ref = block[b].ref
  BY <1>3, DropCounts
<1>8. Types'
  <2>1. Freed(ref) \o Tail(s) \in Seq(Refs) \/ dropping'[t] = Tail(s)
    <3>1. SUFFICES ASSUME ref.kind = "node"
                   PROVE  Freed(ref) \o Tail(s) \in Seq(Refs)
      BY <1>4 DEF Remains
    <3>2. ref.at \in Nodes /\ Live(ref.at)
      <4>1. ref.at \in Nodes /\ ref = NodeRef(ref.at)
        BY <1>4, <3>1, RefFacts
      <4> QED
        BY <1>4, <4>1, Held DEF HeapInv, Types
    <3>3. BlockRef(node[ref.at].nb) \in Refs
      BY <3>2, RefFacts DEF HeapInv, Shape
    <3>4. \A c \in Nodes \cup {Null} : ChildRef(c) \in Seq(Refs)
      BY RefFacts DEF ChildRef
    <3>5. ChildRef(node[ref.at].lc) \in Seq(Refs) /\ ChildRef(node[ref.at].rc) \in Seq(Refs)
      BY <3>2, <3>4, NodeTypes DEF HeapInv, Types
    <3>6. Freed(ref) \in Seq(Refs)
      <4>1. ChildRef(node[ref.at].lc) \o ChildRef(node[ref.at].rc) \in Seq(Refs)
        BY <3>5, ConcatProperties
      <4>2. <<BlockRef(node[ref.at].nb)>> \in Seq(Refs)
        BY <3>3
      <4>3. <<BlockRef(node[ref.at].nb)>> \o (ChildRef(node[ref.at].lc) \o ChildRef(node[ref.at].rc))
              \in Seq(Refs)
        BY <4>1, <4>2, ConcatProperties
      <4> QED
        BY <3>1, <4>3 DEF Freed
    <3> QED
      BY <1>4, <3>6, ConcatProperties
  <2>2. dropping'[t] \in Seq(Refs)
    BY <1>4, <2>1 DEF Remains
  <2>3. \A u \in Threads : dropping'[u] \in Seq(Refs)
    BY <1>5, <2>2 DEF HeapInv, Types, HeapTypes
  <2>4. dropping' = [u \in Threads |-> dropping'[u]]
    <3>1. \E g : dropping' = [dropping EXCEPT ![t] = g]
      BY DEF Drop
    <3> QED
      BY <3>1 DEF HeapInv, Types, HeapTypes
  <2>5. dropping' \in [Threads -> Seq(Refs)]
    BY <2>3, <2>4
  <2>6. /\ node' \in [Nodes -> NodeRecords]
        /\ block' \in [Blocks -> [dests : SUBSET Vertices, ref : Nat]]
    BY <1>3, DropCounts DEF NodeRecords
  <2>7. HeapTypes'
    BY <1>4, <2>5, <2>6 DEF HeapInv, Types, HeapTypes, NodeRecords
  <2> QED
    BY <1>4, <2>7 DEF HeapInv, Types, WriterTypes, ReaderTypes
\* A node or block with two holders, or with one that is not the thread, lives on.
<1>9. ASSUME NEW x \in Nodes, NEW p \in Places, Pointer[p] = NodeRef(x), p # DropPlace(t, Len(s))
      PROVE  /\ node'[x].ref > 0
             /\ node[x].ref = 1 => node'[x].ref = 1
  <2>1. node[x].ref > 0
    BY <1>9, Held DEF HeapInv, Types
  <2>2. CASE NodeRef(x) # ref
    BY <1>6, <2>1, <2>2 DEF Live
  <2>3. CASE NodeRef(x) = ref
    <3>1. node[x].ref > 1
      BY <1>4, <1>9, <2>3, Held DEF HeapInv, Types
    <3> QED
      BY <1>6, <2>3, <3>1 DEF Live
  <2> QED
    BY <2>2, <2>3
<1>10. \A x \in Nodes : Live(x)' => Live(x)
  BY <1>6 DEF Live
<1>11. Shape'
  BY <1>4, <1>6, <1>8, <1>10, ShapeStays DEF Types
<1>12. \A i \in 1..Waiting : /\ Live(writer.stack[i].a)'
                             /\ ~writer.stack[i].copy => node'[writer.stack[i].a].ref = 1
  <2>1. ASSUME NEW i \in 1..Waiting
        PROVE  /\ Live(writer.stack[i].a)'
               /\ ~writer.stack[i].copy => node'[writer.stack[i].a].ref = 1
    <3>1. Holder(i) \in Places /\ Pointer[Holder(i)] = NodeRef(writer.stack[i].a)
      BY HolderHolds
    <3>2. Holder(i) # DropPlace(t, Len(s))
      BY PlacesDiffer DEF Holder
    <3>3. writer.stack[i].a \in Nodes /\ (~writer.stack[i].copy => node[writer.stack[i].a].ref = 1)
      BY FrameFacts
    <3>4. PICK x : x = writer.stack[i].a
      OBVIOUS
    <3>5. PICK p : p = Holder(i)
      OBVIOUS
    <3>6. node'[x].ref > 0 /\ (node[x].ref = 1 => node'[x].ref = 1)
      BY ONLY <1>9, <3>1, <3>2, <3>3, <3>4, <3>5
    <3>7. writer'.stack[i].a = x
      BY <1>4, <3>4
    <3>8. Live(writer.stack[i].a)'
      BY <3>3, <3>4, <3>6, <3>7 DEF Live
    <3> QED
      BY <3>3, <3>4, <3>6, <3>8
  <2> QED
    BY <2>1
<1>13. Built => Live(writer.at)' /\ node'[writer.at].ref = 1
  <2>1. AtPlace # DropPlace(t, Len(s))
    BY PlacesDiffer
  <2>2. SUFFICES ASSUME Built
                 PROVE  Live(writer.at)' /\ node'[writer.at].ref = 1
    OBVIOUS
  <2>3. PICK x : x = writer.at
    OBVIOUS
  <2>4. PICK p : p = AtPlace
    OBVIOUS
  <2>5. /\ x \in Nodes /\ p \in Places /\ Pointer[p] = NodeRef(x) /\ node[x].ref = 1
        /\ p # DropPlace(t, Len(s))
    BY <2>1, <2>2, <2>3, <2>4, AtFacts
  <2>6. node'[x].ref > 0 /\ node'[x].ref = 1
    BY ONLY <1>9, <2>5
  <2>7. writer'.at = x
    BY <1>4, <2>3
  <2> QED
    BY <2>3, <2>5, <2>6, <2>7 DEF Live
<1>14. writer.pc = "put" => /\ dropping'[Writer] = <<>>
                            /\ writer.extra \/ block'[node[writer.at].nb].ref = 1
  <2>1. SUFFICES ASSUME writer.pc = "put"
                 PROVE  /\ dropping'[Writer] = <<>>
                        /\ writer.extra \/ block'[node[writer.at].nb].ref = 1
    OBVIOUS
  <2>2. /\ Built /\ dropping[Writer] = <<>>
        /\ writer.extra \/ block[node[writer.at].nb].ref = 1
    BY <2>1 DEF HeapInv, Path, Built
  <2>3. t # Writer /\ Writer \in Threads
    BY <1>1, <1>4, <2>2 DEF Threads
  <2>4. /\ node[writer.at].nb \in Blocks /\ RecordLink(writer.at) \in Places
        /\ Pointer[RecordLink(writer.at)] = BlockRef(node[writer.at].nb)
    BY <2>2, AtFacts, Links, PlaceFacts DEF HeapInv, Types
  <2>5. RecordLink(writer.at) # DropPlace(t, Len(s))
    BY PlacesDiffer
  <2>6. block[node[writer.at].nb].ref = 1 => ref # BlockRef(node[writer.at].nb)
    BY <1>4, <2>4, <2>5, Held DEF HeapInv, Types
  <2> QED
    BY <1>5, <1>7, <2>2, <2>3, <2>4, <2>6
<1>15. Path'
  BY <1>4, <1>6, <1>8, <1>12, <1>13, <1>14, PathStays DEF Types
<1>16. Snapshots'
  <2>1. \A r \in Readers : Open(r) => reader[r].root \in Nodes
    BY SnapshotStill DEF Still
  <2>2. \A r \in Readers : dropping[r] = <<>> => dropping'[r] = <<>>
    BY <1>1, <1>4, <1>5 DEF Threads
  <2> QED
    BY <1>4, <1>6, <2>1, <2>2 DEF HeapInv, Snapshots, Open, Frozen
<1> QED
  BY <1>8, <1>11, <1>15, <1>16, DropTally DEF HeapInv

-----------------------------------------------------------------------------
(* The steps of the writer *)

\* A node that is alive after a step was so before it, with the links it has.
Alike(x) ==
    Live(x)' => /\ Live(x) /\ node'[x].nb \in Blocks
                /\ node'[x].lc = node[x].lc /\ node'[x].rc = node[x].rc
                /\ StaleLeft(x) => StaleLeft(x)'
                /\ StaleRight(x) => StaleRight(x)'

LEMMA ShapeKept ==
    ASSUME HeapInv, \A x \in Nodes : node'[x].key = node[x].key /\ Alike(x)
    PROVE  Shape'
<1>1. ASSUME NEW x \in Nodes, Live(x)'
      PROVE  /\ node'[x].key \in Vertices /\ node'[x].nb \in Blocks
             /\ ~StaleLeft(x)' => KeyOf(node[x].lc)' = Left[node'[x].key]
             /\ ~StaleRight(x)' => KeyOf(node[x].rc)' = Right[node'[x].key]
  <2>1. /\ Live(x) /\ node'[x].nb \in Blocks
        /\ node'[x].lc = node[x].lc /\ node'[x].rc = node[x].rc
        /\ StaleLeft(x) => StaleLeft(x)'
        /\ StaleRight(x) => StaleRight(x)'
    BY <1>1 DEF Alike
  <2>2. node[x].lc \in Nodes \cup {Null} /\ node[x].rc \in Nodes \cup {Null}
    BY NodeTypes DEF HeapInv, Types
  <2>3. KeyOf(node[x].lc)' = KeyOf(node[x].lc) /\ KeyOf(node[x].rc)' = KeyOf(node[x].rc)
    BY <2>1, <2>2 DEF KeyOf
  <2>4. /\ node[x].key \in Vertices
        /\ ~StaleLeft(x) => KeyOf(node[x].lc) = Left[node[x].key]
        /\ ~StaleRight(x) => KeyOf(node[x].rc) = Right[node[x].key]
    BY <2>1 DEF HeapInv, Shape
  <2>5. node'[x].key = node[x].key
    OBVIOUS
  <2> QED
    BY <2>1, <2>3, <2>4, <2>5
<1> QED
  BY <1>1 DEF Shape

\* The writer leaves the frames, or all but the last one, as they are.
FrameKept(i) ==
    LET x == writer.stack[i].a IN
    /\ writer'.stack[i] = writer.stack[i]
    /\ node'[x].key = node[x].key /\ node'[x].ref = node[x].ref
    /\ i < Waiting' => node'[x].lc = node[x].lc /\ node'[x].rc = node[x].rc

LEMMA FramesKept ==
    ASSUME HeapInv, UNCHANGED root, Key' = Key, NEW k \in 0..Waiting,
           Waiting' \in Nat, k <= Waiting',
           \A i \in 1..k : FrameKept(i)
    PROVE  \A i \in 1..k : FrameHolds(i)'
<1>1. SUFFICES ASSUME NEW i \in 1..k
               PROVE  FrameHolds(i)'
  OBVIOUS
<1>2. Waiting \in Nat
  BY StackFacts DEF HeapInv, Types, Waiting
<1>3. i \in 1..Waiting /\ (i > 1 => i - 1 \in 1..k /\ i - 1 \in 1..Waiting)
  BY <1>2
<1>4. FrameHolds(i) /\ FrameKept(i) /\ (i > 1 => FrameKept(i - 1))
  BY <1>1, <1>3 DEF HeapInv, Path, Frames
<1>5. PICK x : x = writer.stack[i].a
  OBVIOUS
<1>6. /\ x \in Nodes /\ writer'.stack[i] = writer.stack[i]
      /\ node'[x].key = node[x].key /\ node'[x].ref = node[x].ref
  BY <1>3, <1>4, <1>5, FrameFacts DEF FrameKept
<1>7. /\ Live(x)' /\ Key' \in Below[node'[x].key] /\ Depth[node'[x].key] = i - 1
      /\ ~writer'.stack[i].copy => node'[x].ref = 1
      /\ i = 1 => x = root'
  BY <1>4, <1>5, <1>6 DEF FrameHolds, Live
<1>8. i > 1 => /\ node'[writer'.stack[i-1].a].key # Key'
               /\ x = Down(writer.stack[i-1].a)'
  <2>1. SUFFICES ASSUME i > 1
                 PROVE  /\ node'[writer'.stack[i-1].a].key # Key'
                        /\ x = Down(writer.stack[i-1].a)'
    OBVIOUS
  <2>2. PICK y : y = writer.stack[i-1].a
    OBVIOUS
  <2>3. k \in Nat /\ i \in Nat /\ i - 1 \in Nat /\ i - 1 < k
    BY <1>2, <1>3
  <2>4. i - 1 < Waiting'
    BY <2>3
  <2>5. /\ writer'.stack[i-1] = writer.stack[i-1] /\ node'[y].key = node[y].key
        /\ node'[y].lc = node[y].lc /\ node'[y].rc = node[y].rc
    BY <1>4, <2>1, <2>2, <2>4 DEF FrameKept
  <2>6. node[y].key # Key /\ x = Down(y)
    BY <1>4, <1>5, <2>1, <2>2 DEF FrameHolds
  <2> QED
    BY <2>2, <2>5, <2>6 DEF Down
<1> QED
  BY <1>5, <1>6, <1>7, <1>8 DEF FrameHolds

LEMMA NobodyCounts ==
    ASSUME HeapInv, writer.pc # "idle"
    PROVE  \A r \in Readers : reader[r].pc # "count"
BY DEF HeapInv, Snapshots

LEMMA SnapshotsStay ==
    ASSUME HeapInv, UNCHANGED reader, \A r \in Readers : reader[r].pc # "count",
           \A r \in Readers : dropping[r] = <<>> => dropping'[r] = <<>>,
           \A x \in Still : node'[x].key = node[x].key
    PROVE  Snapshots'
<1>1. SUFFICES ASSUME NEW r \in Readers
               PROVE  /\ reader[r].pc = "none" => reader[r].root = Null
                      /\ Open(r) => reader[r].root # Null /\ node'[reader[r].root].key = RootVertex
                      /\ reader[r].pc = "read" => /\ reader[r].pin # Null /\ reader[r].op \in ReadOps
                                                  /\ dropping'[r] = <<>>
  BY DEF Snapshots, Open
<1>2. Open(r) => reader[r].root \in Still
  BY SnapshotStill
<1> QED
  BY <1>2 DEF HeapInv, Snapshots

LEMMA BeginStep ==
    ASSUME HeapInv, Quiet, NEW tx \in Txs, Begin(tx)
    PROVE  HeapInv'
<1>1. /\ writer' = [Resting EXCEPT !.pc = "enter", !.edges = tx.edges, !.at = root]
      /\ UNCHANGED <<node, block, root, reader, dropping>> /\ writer.pc = "idle"
      /\ \A r \in Readers : reader[r].pc # "count"
  BY DEF Begin, heapVars
<1>2. /\ writer'.pc = "enter" /\ writer'.edges = tx.edges /\ writer'.at = root
      /\ writer'.extra = FALSE /\ writer'.stack = <<>> /\ writer'.made = Null
  BY <1>1 DEF Resting
<1>3. tx.edges \in Seq(Vertices \X Vertices) /\ tx.edges # <<>>
  <2>1. PICK e \in Vertices \X Vertices : tx = [edges |-> <<e, <<e[2], e[1]>>>>]
    BY DEF Txs
  <2>2. <<e[2], e[1]>> \in Vertices \X Vertices
    OBVIOUS
  <2>3. tx.edges = <<e, <<e[2], e[1]>>>>
    BY <2>1
  <2> QED
    BY <2>2, <2>3
<1>4. ~Built /\ ~Built' /\ Waiting = 0 /\ Waiting' = 0 /\ RootHeld /\ RootHeld'
  BY <1>1, <1>2 DEF Built, Waiting, RootHeld, HeapInv, Path
<1>5. Types'
  <2>1. HeapTypes' /\ ReaderTypes'
    BY <1>1 DEF HeapInv, Types, HeapTypes, ReaderTypes
  <2>2. root \in 0..NumNodes /\ Null \in 0..NumNodes
    BY Constants DEF HeapInv, Types, HeapTypes, Nodes
  <2>3. WriterTypes'
    <3>1. writer' = [pc |-> "enter", edges |-> tx.edges, at |-> root, extra |-> FALSE,
                     stack |-> <<>>, made |-> Null]
      BY <1>1 DEF Resting
    <3>2. <<>> \in Seq([a : Nodes, extra : BOOLEAN, copy : BOOLEAN])
      OBVIOUS
    <3> QED
      BY <1>3, <2>2, <3>1, <3>2 DEF WriterTypes
  <2> QED
    BY <2>1, <2>3 DEF Types
<1>6. Shape'
  <2>1. \A x : ~Cut(x)
    BY <1>1, <1>4 DEF Cut
  <2>2. \A x \in Nodes : node'[x].key = node[x].key /\ Alike(x)
    BY <1>1, <2>1 DEF Alike, StaleLeft, StaleRight, Live, HeapInv, Shape
  <2> QED
    BY <2>2, ShapeKept
<1>7. Path'
  <2>1. Frames'
    BY <1>2, <1>4 DEF Frames
  <2>2. node'[root].key = RootVertex
    BY <1>1, <1>4 DEF HeapInv, Path
  <2> QED
    BY <1>1, <1>2, <1>3, <1>4, <2>1, <2>2 DEF Path
<1>8. Snapshots'
  BY <1>1, SnapshotsStay
<1> QED
  BY <1>5, <1>6, <1>7, <1>8, BeginTally DEF HeapInv

LEMMA BelowRoot == Below[RootVertex] = Vertices /\ Depth[RootVertex] = 0
BY TreeFacts, Constants DEF IsBelow, IsDepth

\* The link down from a frame that is not cut leads to the next node of the search.
LEMMA DownFacts ==
    ASSUME HeapInv, NEW i \in 1..Waiting, ~Cut(writer.stack[i].a),
           node[writer.stack[i].a].key # Key
    PROVE  LET a == writer.stack[i].a  b == Down(a) IN
           /\ b \in Nodes /\ Live(b) /\ b # Null /\ node[b].key = KeyDown(node[a].key)
           /\ Key \in Below[node[b].key] /\ Depth[node[b].key] = i
<1> DEFINE a == writer.stack[i].a  b == Down(a)
<1>1. /\ a \in Nodes /\ Live(a) /\ node[a].key \in Vertices /\ Key \in Below[node[a].key]
      /\ Depth[node[a].key] = i - 1 /\ Key \in Vertices /\ Key \in Nat /\ node[a].key \in Nat
      /\ i \in Nat
  BY FrameFacts
<1>2. ~StaleLeft(a) /\ ~StaleRight(a)
  BY DEF StaleLeft, StaleRight
<1>3. /\ Key < node[a].key => Left[node[a].key] \in Vertices /\ Key \in Below[Left[node[a].key]]
      /\ node[a].key < Key => Right[node[a].key] \in Vertices /\ Key \in Below[Right[node[a].key]]
      /\ Key < node[a].key \/ node[a].key < Key
  BY <1>1, SearchGoesDown
<1>4. Null \notin Vertices /\ Null \notin Nodes
  BY Constants DEF Nodes
<1>5. CASE Key < node[a].key
  <2>1. b = node[a].lc /\ KeyDown(node[a].key) = Left[node[a].key]
    BY <1>5 DEF Down, KeyDown
  <2>2. /\ b \in Nodes /\ Live(b) /\ b # Null /\ node[b].key = Left[node[a].key]
    BY <1>1, <1>2, <1>3, <1>4, <1>5, <2>1, Links DEF HeapInv, Types
  <2>3. Depth[Left[node[a].key]] = Depth[node[a].key] + 1
    BY <1>1, <1>3, <1>5, TreeFacts DEF IsDepth
  <2>4. Key \in Below[Left[node[a].key]] /\ Depth[Left[node[a].key]] = i
    <3>1. Key \in Below[Left[node[a].key]]
      BY <1>3, <1>5
    <3>2. Depth[node[a].key] = i - 1 /\ i \in Int
      BY <1>1
    <3> HIDE DEF a, b
    <3> QED
      BY ONLY <2>3, <3>1, <3>2
  <2> HIDE DEF a, b
  <2>5. /\ b \in Nodes /\ Live(b) /\ b # Null /\ node[b].key = KeyDown(node[a].key)
        /\ Key \in Below[node[b].key] /\ Depth[node[b].key] = i
    BY ONLY <2>1, <2>2, <2>4
  <2> QED
    BY <2>5 DEF a, b
<1>6. CASE node[a].key < Key
  <2>1. b = node[a].rc /\ KeyDown(node[a].key) = Right[node[a].key]
    BY <1>1, <1>6 DEF Down, KeyDown
  <2>2. /\ b \in Nodes /\ Live(b) /\ b # Null /\ node[b].key = Right[node[a].key]
    BY <1>1, <1>2, <1>3, <1>4, <1>6, <2>1, Links DEF HeapInv, Types
  <2>3. Depth[Right[node[a].key]] = Depth[node[a].key] + 1
    BY <1>1, <1>3, <1>6, TreeFacts DEF IsDepth
  <2>4. Key \in Below[Right[node[a].key]] /\ Depth[Right[node[a].key]] = i
    <3>1. Key \in Below[Right[node[a].key]]
      BY <1>3, <1>6
    <3>2. Depth[node[a].key] = i - 1 /\ i \in Int
      BY <1>1
    <3> HIDE DEF a, b
    <3> QED
      BY ONLY <2>3, <3>1, <3>2
  <2> HIDE DEF a, b
  <2>5. /\ b \in Nodes /\ Live(b) /\ b # Null /\ node[b].key = KeyDown(node[a].key)
        /\ Key \in Below[node[b].key] /\ Depth[node[b].key] = i
    BY ONLY <2>1, <2>2, <2>4
  <2> QED
    BY <2>5 DEF a, b
<1> QED
  BY <1>3, <1>5, <1>6

\* The root that the writer starts from is counted.
LEMMA RootFacts ==
    ASSUME HeapInv, RootHeld
    PROVE  root \in Nodes /\ Live(root) /\ node[root].key = RootVertex
<1>1. root \in Nodes /\ node[root].key = RootVertex
  BY DEF HeapInv, Types, HeapTypes, Path
<1>2. RootPlace \in Places /\ Pointer[RootPlace] = NodeRef(root)
  BY PlaceFacts, PointerAt DEF OfRoot
<1> QED
  BY <1>1, <1>2, Held DEF HeapInv, Types

LEMMA EnterStep ==
    ASSUME HeapInv, Enter
    PROVE  HeapInv'
<1>1. PICK n : n = Len(writer.stack)
  OBVIOUS
<1>2. PICK f : f = [a |-> writer.at, extra |-> writer.extra,
                    copy |-> writer.extra \/ node[writer.at].ref > 1]
  OBVIOUS
<1>3. /\ WriterTypes /\ HeapTypes /\ ReaderTypes /\ writer.pc = "enter" /\ writer.made = Null
      /\ writer.edges # <<>>
      /\ writer' = [writer EXCEPT !.pc = "descend", !.stack = Append(writer.stack, f)]
      /\ UNCHANGED <<node, block, root, reader, dropping>>
  BY <1>2 DEF HeapInv, Types, Path, Enter, heapVars
<1>4. /\ writer'.pc = "descend" /\ writer'.edges = writer.edges /\ writer'.made = writer.made
      /\ writer'.at = writer.at /\ writer'.extra = writer.extra
      /\ writer'.stack = Append(writer.stack, f)
  BY <1>3 DEF WriterTypes
<1>5. /\ n \in Nat /\ (writer.stack # <<>> <=> n > 0)
      /\ writer.stack \in Seq([a : Nodes, extra : BOOLEAN, copy : BOOLEAN])
      /\ n > 0 => Frame = writer.stack[n]
  BY <1>1, <1>3, StackFacts
<1>6. /\ Len(writer'.stack) = n + 1 /\ writer'.stack[n + 1] = f
      /\ \A i \in 1..n : writer'.stack[i] = writer.stack[i]
  BY <1>1, <1>4, <1>5, AppendFacts
<1>7. ~Built /\ ~Built' /\ Waiting = n /\ Waiting' = n + 1 /\ Key' = Key /\ RootHeld /\ RootHeld'
  BY <1>1, <1>3, <1>4, <1>6 DEF Built, Waiting, Key, RootHeld
<1>8. \A x : ~Cut(x) /\ ~Cut(x)'
  BY <1>3, <1>4, <1>7 DEF Cut
<1>9. /\ writer.extra <=> (n > 0 /\ writer.stack[n].copy)
      /\ n = 0 => writer.at = root
      /\ n > 0 => /\ node[writer.stack[n].a].key # Key
                  /\ writer.at = Down(writer.stack[n].a)
  BY <1>3, <1>5, <1>7 DEF HeapInv, Path
<1>10. PICK a : a = writer.at
  OBVIOUS
<1>11. /\ a \in Nodes /\ Live(a) /\ Key \in Below[node[a].key] /\ Depth[node[a].key] = n
  <2>1. CASE n = 0
    <3>1. Key \in Vertices
      BY <1>3, KeyFacts
    <3> QED
      BY <1>7, <1>9, <1>10, <2>1, <3>1, RootFacts, BelowRoot
  <2>2. CASE n > 0
    <3>1. n \in 1..Waiting
      BY <1>5, <1>7, <2>2
    <3> QED
      BY <1>8, <1>9, <1>10, <2>2, <3>1, DownFacts
  <2> QED
    BY <1>5, <2>1, <2>2
<1>12. /\ f.a = a /\ f.extra = writer.extra /\ f.copy = (writer.extra \/ node[a].ref > 1)
       /\ f \in [a : Nodes, extra : BOOLEAN, copy : BOOLEAN]
  <2>1. writer.extra \in BOOLEAN
    BY <1>3 DEF WriterTypes
  <2>2. (writer.extra \/ node[a].ref > 1) \in BOOLEAN
    BY <2>1
  <2> QED
    BY <1>2, <1>10, <1>11, <2>1, <2>2
<1>13. Types'
  <2>1. HeapTypes' /\ ReaderTypes'
    BY <1>3 DEF HeapTypes, ReaderTypes
  <2>2. Append(writer.stack, f) \in Seq([a : Nodes, extra : BOOLEAN, copy : BOOLEAN])
    BY <1>5, <1>12, AppendFacts
  <2>3. WriterTypes'
    BY <1>3, <2>2 DEF WriterTypes
  <2> QED
    BY <2>1, <2>3 DEF Types
<1>14. Shape'
  <2>1. \A x \in Nodes : node'[x].key = node[x].key /\ Alike(x)
    BY <1>3, <1>8 DEF Alike, StaleLeft, StaleRight, Live, HeapInv, Shape
  <2> QED
    BY <2>1, ShapeKept
<1>15. Frames'
  <2>1. \A i \in 1..n : FrameHolds(i)'
    <3>1. \A i \in 1..n : FrameKept(i)
      BY <1>3, <1>6 DEF FrameKept
    <3>2. n \in 0..Waiting /\ Waiting' \in Nat /\ n <= Waiting'
      BY <1>5, <1>7
    <3> QED
      BY <1>3, <1>7, <3>1, <3>2, FramesKept
  <2>2. FrameHolds(n + 1)'
    <3>1. /\ Live(a)' /\ Key' \in Below[node'[a].key] /\ Depth[node'[a].key] = (n + 1) - 1
      BY <1>3, <1>5, <1>7, <1>11 DEF Live
    <3>2. ~f.copy => node'[a].ref = 1
      <4>1. node[a].ref \in Nat /\ node[a].ref > 0
        BY <1>3, <1>11, NodeTypes DEF Live
      <4>2. ~f.copy => ~(node[a].ref > 1)
        BY <1>12
      <4> QED
        BY <1>3, <4>1, <4>2
    <3>3. n + 1 = 1 => a = root'
      BY <1>3, <1>5, <1>9, <1>10
    <3>4. n + 1 > 1 => /\ node'[writer'.stack[n].a].key # Key'
                       /\ a = Down(writer.stack[n].a)'
      <4>1. SUFFICES ASSUME n > 0
                     PROVE  /\ node'[writer'.stack[n].a].key # Key'
                            /\ a = Down(writer.stack[n].a)'
        BY <1>5
      <4>2. writer'.stack[n] = writer.stack[n]
        BY <1>5, <1>6, <4>1
      <4> QED
        BY <1>3, <1>7, <1>9, <1>10, <4>1, <4>2 DEF Down
    <3>5. (n + 1) - 1 = n
      BY <1>5
    <3> QED
      BY <1>6, <1>12, <3>1, <3>2, <3>3, <3>4, <3>5 DEF FrameHolds
  <2>3. \A i \in 1..(n + 1) : FrameHolds(i)'
    <3>1. \A i \in 1..(n + 1) : i \in 1..n \/ i = n + 1
      BY <1>5
    <3> QED
      BY <2>1, <2>2, <3>1
  <2>4. \A i \in 1..(n + 1) : /\ writer'.stack[i].extra <=> (i > 1 /\ writer'.stack[i-1].copy)
                              /\ writer'.stack[i].extra => writer'.stack[i].copy
    <3>1. ASSUME NEW i \in 1..n
          PROVE  /\ writer'.stack[i].extra <=> (i > 1 /\ writer'.stack[i-1].copy)
                 /\ writer'.stack[i].extra => writer'.stack[i].copy
      <4>1. i \in DOMAIN writer.stack /\ (i > 1 => i - 1 \in 1..n)
        BY <1>1, <1>5, ItemsOf
      <4>2. /\ writer.stack[i].extra <=> (i > 1 /\ writer.stack[i-1].copy)
            /\ writer.stack[i].extra => writer.stack[i].copy
        BY <4>1 DEF HeapInv, Path, Frames
      <4> QED
        BY <1>6, <4>1, <4>2
    <3>2. /\ f.extra <=> (n > 0 /\ writer.stack[n].copy)
          /\ f.extra => f.copy
      BY <1>9, <1>12
    <3>3. /\ writer'.stack[n+1].extra <=> (n + 1 > 1 /\ writer'.stack[(n+1)-1].copy)
          /\ writer'.stack[n+1].extra => writer'.stack[n+1].copy
      <4>1. (n + 1) - 1 = n /\ (n + 1 > 1 <=> n > 0)
        BY <1>5
      <4>2. n > 0 => writer'.stack[n] = writer.stack[n]
        BY <1>5, <1>6
      <4> QED
        BY <1>6, <3>2, <4>1, <4>2
    <3>4. \A i \in 1..(n + 1) : i \in 1..n \/ i = n + 1
      BY <1>5
    <3> QED
      BY <3>1, <3>3, <3>4
  <2>5. DOMAIN writer'.stack = 1..(n + 1)
    BY <1>4, <1>5, <1>6, <1>12, AppendFacts, ItemsOf
  <2> QED
    BY <1>7, <2>3, <2>4, <2>5 DEF Frames
<1>16. Path'
  <2>1. writer'.stack # <<>>
    BY <1>4, <1>5
  <2>2. node'[root'].key = RootVertex
    BY <1>3, <1>7, RootFacts
  <2> QED
    BY <1>3, <1>4, <1>7, <1>15, <2>1, <2>2 DEF Path
<1>17. Snapshots'
  BY <1>3, NobodyCounts, SnapshotsStay
<1> QED
  BY <1>13, <1>14, <1>16, <1>17, EnterTally DEF HeapInv

\* What a frame remembers of the one before it.
LEMMA ExtrasStay ==
    ASSUME HeapInv, writer'.stack = writer.stack
    PROVE  \A i \in DOMAIN writer'.stack :
              /\ writer'.stack[i].extra <=> (i > 1 /\ writer'.stack[i-1].copy)
              /\ writer'.stack[i].extra => writer'.stack[i].copy
BY DEF HeapInv, Path, Frames

LEMMA LookStep ==
    ASSUME HeapInv, Look
    PROVE  HeapInv'
<1>1. PICK e : e = (block[node[writer.at].nb].ref > 1)
  OBVIOUS
<1>2. /\ WriterTypes /\ HeapTypes /\ ReaderTypes /\ writer.pc = "look"
      /\ writer' = [writer EXCEPT !.pc = "put", !.extra = e]
      /\ UNCHANGED <<node, block, root, reader, dropping>> /\ dropping[Writer] = <<>>
  BY <1>1 DEF HeapInv, Types, Look, heapVars
<1>3. /\ writer'.pc = "put" /\ writer'.extra = e
      /\ writer'.edges = writer.edges /\ writer'.at = writer.at
      /\ writer'.stack = writer.stack /\ writer'.made = writer.made
  BY <1>2 DEF WriterTypes
<1>4. /\ Built /\ Built' /\ Waiting' = Waiting /\ Key' = Key /\ (RootHeld' <=> RootHeld)
  BY <1>2, <1>3 DEF Built, Waiting, Key, RootHeld
<1>5. \A x : Cut(x)' <=> Cut(x)
  BY <1>2, <1>3, <1>4 DEF Cut
<1>6. Types'
  <2>1. HeapTypes' /\ ReaderTypes'
    BY <1>2 DEF HeapTypes, ReaderTypes
  <2>2. e \in BOOLEAN
    BY <1>1
  <2>3. WriterTypes'
    BY <1>2, <2>2 DEF WriterTypes
  <2> QED
    BY <2>1, <2>3 DEF Types
<1>7. Shape'
  <2>1. \A x \in Nodes : node'[x].key = node[x].key /\ Alike(x)
    BY <1>2, <1>4, <1>5 DEF Alike, StaleLeft, StaleRight, Live, HeapInv, Shape
  <2> QED
    BY <2>1, ShapeKept
<1>8. Frames'
  <2>1. Waiting \in Nat
    BY <1>4, AtFacts
  <2>2. \A i \in 1..Waiting : FrameKept(i)
    BY <1>2, <1>3 DEF FrameKept
  <2>3. Waiting \in 0..Waiting /\ Waiting' \in Nat /\ Waiting <= Waiting'
    BY <1>4, <2>1
  <2>4. \A i \in 1..Waiting : FrameHolds(i)'
    BY <1>2, <1>4, <2>2, <2>3, FramesKept
  <2> QED
    BY <1>3, <1>4, <2>4, ExtrasStay DEF Frames
<1>9. e \/ block[node[writer.at].nb].ref = 1
  <2>1. writer.at \in Nodes /\ Live(writer.at)
    BY <1>4, AtFacts
  <2>2. node[writer.at].nb \in Blocks /\ block[node[writer.at].nb].ref > 0
    BY <1>2, <2>1, Links DEF HeapInv
  <2>3. block[node[writer.at].nb].ref \in Nat
    BY <1>2, <2>2 DEF HeapTypes
  <2>4. CASE block[node[writer.at].nb].ref > 1
    BY <1>1, <2>4
  <2>5. CASE block[node[writer.at].nb].ref = 1
    BY <2>5
  <2> QED
    BY <2>2, <2>3, <2>4, <2>5
<1>10. Path'
  <2>1. /\ Live(writer.at)' /\ node'[writer'.at].ref = 1
        /\ KeyMade' = KeyMade /\ KeyDown(node[writer.at].key)' = KeyDown(node[writer.at].key)
    BY <1>2, <1>3, <1>4, AtFacts DEF Live, KeyMade, KeyDown
  <2>2. /\ node[writer.at].key = KeyMade
        /\ Waiting > 0 => node[writer.stack[Waiting].a].key # Key
        /\ writer.made = Null <=> node[writer.at].key = Key
        /\ writer.made # Null => node[writer.made].key = KeyDown(node[writer.at].key)
        /\ node[writer.at].key = Key
        /\ writer.stack # <<>> /\ writer.edges # <<>>
        /\ RootHeld => node[root].key = RootVertex
    BY <1>2, <1>4 DEF HeapInv, Path
  <2> QED
    BY <1>2, <1>3, <1>4, <1>8, <1>9, <2>1, <2>2 DEF Path
<1>11. Snapshots'
  BY <1>2, NobodyCounts, SnapshotsStay
<1> QED
  BY <1>6, <1>7, <1>10, <1>11, LookTally DEF HeapInv

LEMMA LongTail ==
    ASSUME NEW S, NEW s \in Seq(S), Len(s) > 1
    PROVE  Tail(s) \in Seq(S) /\ Tail(s) # <<>>
<1>1. PICK k : k = Len(s)
  OBVIOUS
<1>2. k \in Nat /\ k > 1 /\ s # <<>>
  BY <1>1
<1>3. Tail(s) \in Seq(S) /\ Len(Tail(s)) = k - 1
  BY <1>1, <1>2, HeadTailProperties
<1>4. k - 1 # 0
  BY <1>2
<1>5. Len(<<>>) = 0
  OBVIOUS
<1> QED
  BY <1>3, <1>4, <1>5

LEMMA SetRootStep ==
    ASSUME HeapInv, NEW tx \in Txs, SetRoot(tx)
    PROVE  HeapInv'
<1>1. /\ WriterTypes /\ HeapTypes /\ ReaderTypes /\ writer.pc = "root"
      /\ writer.stack = <<>> /\ writer.made # Null /\ node[writer.made].key = RootVertex
      /\ root' = writer.made /\ UNCHANGED <<node, block, reader, dropping>>
      /\ writer.made \in Nodes
  <2>1. writer.made # Null => writer.made \in Nodes
    BY Constants DEF HeapInv, Types, WriterTypes, Nodes
  <2> QED
    BY <2>1 DEF HeapInv, Types, Path, SetRoot
<1>2. /\ writer'.stack = <<>> /\ writer'.made = Null /\ writer'.extra = FALSE
      /\ writer'.pc \in {"idle", "enter"}
      /\ writer'.pc = "enter" => writer'.at = root' /\ writer'.edges # <<>>
      /\ WriterTypes'
  <2>1. CASE Len(writer.edges) > 1
    <3>1. writer' = [pc |-> "enter", edges |-> Tail(writer.edges), at |-> writer.made,
                     extra |-> FALSE, stack |-> <<>>, made |-> Null]
      BY <2>1 DEF SetRoot, Resting
    <3>2. writer.edges \in Seq(Vertices \X Vertices)
      BY <1>1 DEF WriterTypes
    <3>3. Tail(writer.edges) \in Seq(Vertices \X Vertices) /\ Tail(writer.edges) # <<>>
      BY <2>1, <3>2, LongTail
    <3>4. /\ <<>> \in Seq([a : Nodes, extra : BOOLEAN, copy : BOOLEAN])
          /\ Null \in 0..NumNodes /\ writer.made \in 0..NumNodes
      BY <1>1, Constants DEF WriterTypes
    <3>5. WriterTypes'
      BY <3>1, <3>3, <3>4 DEF WriterTypes
    <3> QED
      BY <1>1, <3>1, <3>3, <3>5
  <2>2. CASE ~(Len(writer.edges) > 1)
    <3>1. writer' = [pc |-> "idle", edges |-> <<>>, at |-> Null,
                     extra |-> FALSE, stack |-> <<>>, made |-> Null]
      BY <2>2 DEF SetRoot, Resting
    <3>2. /\ <<>> \in Seq([a : Nodes, extra : BOOLEAN, copy : BOOLEAN])
          /\ <<>> \in Seq(Vertices \X Vertices)
          /\ Null \in 0..NumNodes
      BY Constants
    <3>3. WriterTypes'
      BY <3>1, <3>2 DEF WriterTypes
    <3> QED
      BY <3>1, <3>3
  <2> QED
    BY <2>1, <2>2
<1>3. ~Built /\ ~Built' /\ Waiting = 0 /\ Waiting' = 0
  BY <1>1, <1>2 DEF Built, Waiting
<1>4. \A x : ~Cut(x) /\ ~Cut(x)'
  BY <1>1, <1>2, <1>3 DEF Cut
<1>5. Types'
  BY <1>1, <1>2 DEF Types, HeapTypes, ReaderTypes
<1>6. Shape'
  <2>1. \A x \in Nodes : node'[x].key = node[x].key /\ Alike(x)
    BY <1>1, <1>4 DEF Alike, StaleLeft, StaleRight, Live, HeapInv, Shape
  <2> QED
    BY <2>1, ShapeKept
<1>7. Path'
  <2>1. Frames'
    BY <1>2, <1>3 DEF Frames
  <2> QED
    BY <1>1, <1>2, <1>3, <2>1 DEF Path
<1>8. Snapshots'
  BY <1>1, NobodyCounts, SnapshotsStay
<1> QED
  BY <1>5, <1>6, <1>7, <1>8, SetRootTally DEF HeapInv

LEMMA DescendStep ==
    ASSUME HeapInv, Descend
    PROVE  HeapInv'
<1>1. PICK n : n = Len(writer.stack)
  OBVIOUS
<1>2. PICK a : a = Frame.a
  OBVIOUS
<1>3. PICK kept : kept = IF node[a].key < Key THEN {node[a].lc}
                         ELSE IF node[a].key = Key THEN {node[a].lc, node[a].rc} ELSE {}
  OBVIOUS
<1>4. /\ WriterTypes /\ HeapTypes /\ ReaderTypes /\ writer.pc = "descend" /\ writer.made = Null
      /\ writer.stack # <<>> /\ writer.edges # <<>>
      /\ UNCHANGED <<block, root, reader, dropping>>
      /\ node' = IF Frame.copy THEN Incremented(node, kept) ELSE node
      /\ writer' = IF node[a].key = Key THEN [writer EXCEPT !.pc = "build"]
                   ELSE [writer EXCEPT !.pc = "enter", !.extra = Frame.copy,
                                       !.at = IF node[a].key < Key THEN node[a].rc ELSE node[a].lc]
  BY <1>2, <1>3 DEF HeapInv, Types, Path, Descend
<1>5. /\ n \in Nat /\ n > 0 /\ Frame = writer.stack[n] /\ Frame.copy \in BOOLEAN
  BY <1>1, <1>4, StackFacts
<1>6. /\ writer'.stack = writer.stack /\ writer'.edges = writer.edges
      /\ writer'.made = writer.made
      /\ node[a].key = Key => writer'.pc = "build"
      /\ node[a].key # Key => writer'.pc = "enter" /\ writer'.extra = Frame.copy
                              /\ writer'.at = IF node[a].key < Key THEN node[a].rc ELSE node[a].lc
  BY <1>4 DEF WriterTypes
<1>7. ~Built /\ ~Built' /\ Waiting = n /\ Waiting' = n /\ Key' = Key /\ RootHeld /\ RootHeld'
  <2>1. writer'.pc \in {"build", "enter"}
    BY <1>6
  <2> QED
    BY <1>1, <1>4, <1>6, <2>1 DEF Built, Waiting, Key, RootHeld
<1>8. \A x : ~Cut(x) /\ ~Cut(x)'
  BY <1>4, <1>6, <1>7 DEF Cut
<1>9. n \in 1..Waiting
  BY <1>5, <1>7
<1>10. /\ a \in Nodes /\ Live(a) /\ node[a].key \in Vertices /\ Depth[node[a].key] = n - 1
       /\ Key \in Vertices /\ Key \in Nat /\ node[a].key \in Nat
  BY <1>2, <1>5, <1>9, FrameFacts
<1>11. \A x \in Nodes : /\ node[x].ref \in Nat /\ node'[x].ref \in Nat
                        /\ node'[x].key = node[x].key /\ node'[x].nb = node[x].nb
                        /\ node'[x].lc = node[x].lc /\ node'[x].rc = node[x].rc
                        /\ node'[x].ref = node[x].ref + (IF Frame.copy /\ x \in kept THEN 1 ELSE 0)
  <2>1. \A x \in Nodes : node[x].ref \in Nat
    BY <1>4, NodeTypes
  <2>2. CASE Frame.copy
    BY <1>4, <2>1, <2>2, IncrementedFacts
  <2>3. CASE ~Frame.copy
    BY <1>4, <2>1, <2>3
  <2> QED
    BY <2>2, <2>3
<1>12. \A x \in Nodes \cap kept : Live(x) /\ Depth[node[x].key] = n
  <2>1. SUFFICES ASSUME NEW x \in Nodes, x \in kept
                 PROVE  Live(x) /\ Depth[node[x].key] = n
    OBVIOUS
  <2>2. x # Null /\ x \in {node[a].lc, node[a].rc}
    BY <1>3, <2>1, Constants DEF Nodes
  <2>3. ~StaleLeft(a) /\ ~StaleRight(a)
    BY <1>8 DEF StaleLeft, StaleRight
  <2>4. /\ Live(x) /\ node[x].key \in {Left[node[a].key], Right[node[a].key]}
        /\ node[x].key \in Vertices
    BY <1>4, <1>10, <2>2, <2>3, Links DEF HeapInv
  <2>5. Depth[node[x].key] = Depth[node[a].key] + 1
    BY <1>10, <2>4, TreeFacts DEF IsDepth
  <2> QED
    BY <1>5, <1>10, <2>4, <2>5
<1>13. \A x \in Nodes : Live(x)' <=> Live(x)
  <2>1. SUFFICES ASSUME NEW x \in Nodes
                 PROVE  node'[x].ref > 0 <=> node[x].ref > 0
    BY DEF Live
  <2>2. CASE Frame.copy /\ x \in kept
    BY <1>11, <1>12, <2>2 DEF Live
  <2>3. CASE ~(Frame.copy /\ x \in kept)
    BY <1>11, <2>3
  <2> QED
    BY <2>2, <2>3
<1>14. \A i \in 1..n : node'[writer.stack[i].a].ref = node[writer.stack[i].a].ref
  <2>1. SUFFICES ASSUME NEW i \in 1..n
                 PROVE  node'[writer.stack[i].a].ref = node[writer.stack[i].a].ref
    OBVIOUS
  <2>2. PICK x : x = writer.stack[i].a
    OBVIOUS
  <2>3. x \in Nodes /\ Depth[node[x].key] = i - 1 /\ i - 1 # n
    BY <1>5, <1>7, <2>2, FrameFacts
  <2>4. x \notin kept
    BY <1>12, <2>3
  <2> QED
    BY <1>11, <2>2, <2>3, <2>4
<1>15. Types'
  <2>1. node' \in [Nodes -> NodeRecords]
    BY <1>4, IncrementedFacts DEF HeapTypes, NodeRecords
  <2>2. HeapTypes' /\ ReaderTypes'
    BY <1>4, <2>1 DEF HeapTypes, ReaderTypes, NodeRecords
  <2>3. node[a].rc \in 0..NumNodes /\ node[a].lc \in 0..NumNodes
    BY <1>4, <1>10, NodeTypes DEF HeapTypes
  <2>4. WriterTypes'
    <3>1. CASE node[a].key = Key
      BY <1>4, <3>1 DEF WriterTypes
    <3>2. CASE node[a].key # Key
      BY <1>4, <1>5, <2>3, <3>2 DEF WriterTypes
    <3> QED
      BY <3>1, <3>2
  <2> QED
    BY <2>2, <2>4 DEF Types
<1>16. Shape'
  <2>1. \A x \in Nodes : node'[x].key = node[x].key /\ Alike(x)
    BY <1>8, <1>11, <1>13 DEF Alike, StaleLeft, StaleRight, HeapInv, Shape
  <2> QED
    BY <2>1, ShapeKept
<1>17. Frames'
  <2>1. \A i \in 1..n : FrameKept(i)
    <3>1. \A i \in 1..n : writer.stack[i].a \in Nodes
      BY <1>1, <1>4, StackFacts
    <3> QED
      BY <1>6, <1>11, <1>14, <3>1 DEF FrameKept
  <2>2. n \in 0..Waiting /\ Waiting' \in Nat /\ n <= Waiting'
    BY <1>5, <1>7
  <2>3. \A i \in 1..n : FrameHolds(i)'
    BY <1>4, <1>7, <2>1, <2>2, FramesKept
  <2> QED
    BY <1>6, <1>7, <2>3, ExtrasStay DEF Frames
<1>18. Path'
  <2>1. Frame' = Frame /\ Frame'.a = a
    BY <1>2, <1>6 DEF Frame
  <2>2. node'[a].key = node[a].key /\ Down(a)' = Down(a)
    BY <1>7, <1>10, <1>11 DEF Down
  <2>3. node[a].key # Key => writer'.at = Down(a)
    BY <1>6, <1>10 DEF Down
  <2>4. writer'.pc = "enter" => /\ node[a].key # Key
                                /\ writer'.extra <=> (Waiting' > 0 /\ Frame'.copy)
                                /\ Waiting' # 0 /\ writer'.at = Down(Frame.a)'
    BY <1>5, <1>6, <1>7, <2>1, <2>2, <2>3
  <2>5. writer'.pc = "build" => node[a].key = Key
    BY <1>6
  <2>6. writer'.pc \in {"build", "enter"}
    BY <1>6
  <2>7. node'[root'].key = RootVertex
    BY <1>4, <1>7, <1>11, RootFacts
  <2> QED
    BY <1>4, <1>6, <1>7, <1>17, <2>1, <2>2, <2>4, <2>5, <2>6, <2>7 DEF Path
<1>19. Snapshots'
  <2>1. \A x \in Still : node'[x].key = node[x].key
    BY <1>11 DEF Still
  <2> QED
    BY <1>4, <2>1, NobodyCounts, SnapshotsStay
<1> QED
  BY <1>15, <1>16, <1>18, <1>19, DescendTally DEF HeapInv

LEMMA PutStep ==
    ASSUME HeapInv, Put
    PROVE  HeapInv'
<1>1. PICK a : a = writer.at
  OBVIOUS
<1>2. PICK b : b = node[a].nb
  OBVIOUS
<1>3. Putting(a, b)
  BY <1>1, <1>2 DEF Putting
<1>4. /\ a \in Nodes /\ Live(a) /\ node[a].ref = 1 /\ b \in Blocks /\ node[a].key = Key
      /\ Built /\ Built' /\ Waiting' = Waiting /\ writer.made = Null
      /\ writer.pc = "put" /\ writer'.pc = "join" /\ writer'.at = a
      /\ writer'.stack = writer.stack /\ writer'.edges = writer.edges
      /\ writer'.made = writer.made /\ Key' = Key
      /\ UNCHANGED <<root, reader>>
  BY <1>3, PutFacts
<1>5. /\ \A x \in Nodes : /\ node'[x].key = node[x].key /\ node'[x].lc = node[x].lc
                          /\ node'[x].rc = node[x].rc /\ node'[x].ref = node[x].ref
                          /\ x # a => node'[x].nb = node[x].nb
      /\ \A x : Cut(x)' <=> Cut(x)
  BY <1>3, PutFacts
<1>6. /\ WriterTypes /\ HeapTypes /\ ReaderTypes
  BY DEF HeapInv, Types
<1>7. Dest \in Vertices
  BY <1>4, <1>6, KeyFacts DEF HeapInv, Path
<1>8. /\ node' \in [Nodes -> NodeRecords] /\ node'[a].nb \in Blocks
      /\ block' \in [Blocks -> [dests : SUBSET Vertices, ref : Nat]]
      /\ dropping' \in [Threads -> Seq(Refs)]
      /\ \A r \in Readers : dropping'[r] = dropping[r]
  <2>1. block[b].dests \cup {Dest} \in SUBSET Vertices
    BY <1>4, <1>6, <1>7 DEF HeapTypes
  <2>2. CASE ~writer.extra
    <3>1. /\ UNCHANGED <<node, dropping>>
          /\ block' = [block EXCEPT ![b].dests = block[b].dests \cup {Dest}]
      BY <1>3, <2>2, PutFacts
    <3>2. block' \in [Blocks -> [dests : SUBSET Vertices, ref : Nat]]
      BY <1>6, <2>1, <3>1 DEF HeapTypes
    <3> QED
      BY <1>2, <1>4, <1>6, <3>1, <3>2 DEF HeapTypes, NodeRecords
  <2>3. CASE writer.extra
    <3>1. /\ Fresh(block) \in Blocks
          /\ block' = [block EXCEPT ![Fresh(block)] = [dests |-> block[b].dests \cup {Dest}, ref |-> 1]]
          /\ node' = [node EXCEPT ![a].nb = Fresh(block)]
          /\ dropping' = [dropping EXCEPT ![Writer] = <<BlockRef(b)>>]
      BY <1>3, <2>3, PutFacts
    <3>2. [dests |-> block[b].dests \cup {Dest}, ref |-> 1] \in [dests : SUBSET Vertices, ref : Nat]
      BY <2>1
    <3>3. block' \in [Blocks -> [dests : SUBSET Vertices, ref : Nat]]
      BY <1>6, <3>1, <3>2 DEF HeapTypes
    <3>4. node' \in [Nodes -> NodeRecords] /\ node'[a].nb \in Blocks
      <4>1. PICK o : o = Fresh(block)
        OBVIOUS
      <4>2. node' = [node EXCEPT ![a].nb = o] /\ o \in Blocks /\ o \in 0..NumBlocks
        BY <3>1, <4>1 DEF Blocks
      <4>3. node \in [Nodes -> NodeRecords] /\ a \in Nodes
        BY <1>4, <1>6 DEF HeapTypes, NodeRecords
      <4>4. /\ [node[a] EXCEPT !.nb = o] \in NodeRecords
            /\ [node[a] EXCEPT !.nb = o].nb = o
        <5>1. node[a] \in NodeRecords
          BY <4>3
        <5> QED
          BY <4>2, <5>1 DEF NodeRecords
      <4>5. PICK new : new = [node[a] EXCEPT !.nb = o]
        OBVIOUS
      <4>6. node' = [node EXCEPT ![a] = new] /\ new \in NodeRecords /\ new.nb \in Blocks
        BY <4>2, <4>4, <4>5
      <4> QED
        BY <4>3, <4>6
    <3>5. <<BlockRef(b)>> \in Seq(Refs)
      BY <1>4, RefFacts
    <3>6. dropping' \in [Threads -> Seq(Refs)] /\ \A r \in Readers : dropping'[r] = dropping[r]
      BY <1>6, <3>1, <3>5, Constants DEF HeapTypes, Threads
    <3> QED
      BY <3>3, <3>4, <3>6
  <2> QED
    BY <2>2, <2>3
<1>9. Types'
  <2>1. HeapTypes' /\ ReaderTypes'
    BY <1>4, <1>6, <1>8 DEF HeapTypes, ReaderTypes, NodeRecords
  <2>2. WriterTypes'
    <3>1. writer' = [writer EXCEPT !.pc = "join"]
      BY DEF Put
    <3> QED
      BY <1>6, <3>1 DEF WriterTypes
  <2> QED
    BY <2>1, <2>2 DEF Types
<1>10. Shape'
  <2>1. ASSUME NEW x \in Nodes
        PROVE  node'[x].key = node[x].key /\ Alike(x)
    <3>1. Live(x)' <=> Live(x)
      BY <1>5 DEF Live
    <3>2. Live(x) => node'[x].nb \in Blocks
      BY <1>5, <1>8 DEF HeapInv, Shape
    <3>3. (StaleLeft(x)' <=> StaleLeft(x)) /\ (StaleRight(x)' <=> StaleRight(x))
      BY <1>4, <1>5 DEF StaleLeft, StaleRight
    <3> QED
      BY <1>5, <3>1, <3>2, <3>3 DEF Alike
  <2> QED
    BY <2>1, ShapeKept
<1>11. Waiting \in Nat /\ Waiting = Len(writer.stack) - 1
  BY <1>4, AtFacts
<1>12. Frames'
  <2>1. \A i \in 1..Waiting : FrameKept(i)
    <3>1. \A i \in 1..Waiting : writer.stack[i].a \in Nodes
      BY FrameFacts
    <3> QED
      BY <1>4, <1>5, <3>1 DEF FrameKept
  <2>2. Waiting \in 0..Waiting /\ Waiting' \in Nat /\ Waiting <= Waiting'
    BY <1>4, <1>11
  <2>3. \A i \in 1..Waiting : FrameHolds(i)'
    BY <1>4, <2>1, <2>2, FramesKept
  <2> QED
    BY <1>4, <2>3, ExtrasStay DEF Frames
<1>13. Path'
  <2>1. Waiting > 0 => writer.stack[Waiting].a \in Nodes
    BY <1>11, FrameFacts
  <2>2. KeyMade' = KeyMade /\ KeyDown(node[a].key)' = KeyDown(node[a].key)
    BY <1>4, <1>5, <2>1 DEF KeyMade, KeyDown
  <2>3. /\ node[a].key = KeyMade
        /\ Waiting > 0 => node[writer.stack[Waiting].a].key # Key
        /\ writer.stack # <<>> /\ writer.edges # <<>>
    BY <1>1, <1>4 DEF HeapInv, Path
  <2>4. RootHeld' => node'[root'].key = RootVertex
    BY <1>4, <1>5, RootFacts DEF RootHeld
  <2>5. Live(a)' /\ node'[a].ref = 1
    BY <1>4, <1>5 DEF Live
  <2> QED
    BY <1>4, <1>5, <1>12, <2>1, <2>2, <2>3, <2>4, <2>5 DEF Path
<1>14. Snapshots'
  <2>1. \A x \in Still : node'[x].key = node[x].key
    BY <1>5 DEF Still
  <2> QED
    BY <1>4, <1>8, <2>1, NobodyCounts, SnapshotsStay
<1> QED
  BY <1>9, <1>10, <1>13, <1>14, PutTally DEF HeapInv

LEMMA JoinStep ==
    ASSUME HeapInv, Join
    PROVE  HeapInv'
<1>1. PICK n : n = Len(writer.stack)
  OBVIOUS
<1>2. PICK a : a = writer.at
  OBVIOUS
<1>3. PICK m : m = writer.made
  OBVIOUS
<1>4. Joining(n, a, m)
  BY <1>1, <1>2, <1>3, AtFacts, StackFacts DEF Joining, HeapInv, Types
<1>5. /\ n > 0 /\ a \in Nodes /\ Live(a) /\ a # Null
      /\ node[a].key \in Nat /\ Key \in Nat
      /\ Built /\ ~Built' /\ Waiting = n - 1 /\ Waiting' = n - 1
      /\ writer.pc = "join" /\ writer'.pc = IF n = 1 THEN "root" ELSE "build"
      /\ writer'.made = a /\ writer'.edges = writer.edges /\ Key' = Key
      /\ Len(writer'.stack) = n - 1
      /\ writer'.stack \in Seq([a : Nodes, extra : BOOLEAN, copy : BOOLEAN])
      /\ UNCHANGED <<block, root, reader, dropping>>
  BY <1>4, JoinFacts
<1>6. /\ \A i \in 1..n-1 : writer'.stack[i] = writer.stack[i]
      /\ n > 1 => Frame' = writer.stack[n-1]
      /\ n \in Nat
  BY <1>4, JoinFacts DEF Joining
<1>7. /\ m = Null <=> node[a].key = Key
      /\ m # Null => m \in Nodes /\ Live(m) /\ node[m].key = KeyDown(node[a].key)
  BY <1>4, JoinFacts
<1>8. \A x \in Nodes :
         /\ node'[x].key = node[x].key /\ node'[x].nb = node[x].nb
         /\ node'[x].ref = node[x].ref
         /\ node'[x].lc = IF x = a /\ Key < node[a].key THEN m ELSE node[x].lc
         /\ node'[x].rc = IF x = a /\ node[a].key < Key THEN m ELSE node[x].rc
  BY <1>4, JoinFacts
<1>9. node' \in [Nodes -> NodeRecords]
  BY <1>4, JoinFacts DEF NodeRecords
<1>10. (\A x : Cut(x) <=> x = a \/ Cut(x)') /\ ~Cut(a)'
  BY <1>4, JoinFacts
<1>11. Types'
  <2>1. HeapTypes' /\ ReaderTypes'
    BY <1>5, <1>9 DEF HeapInv, Types, HeapTypes, ReaderTypes, NodeRecords
  <2>2. WriterTypes'
    <3>1. WriterTypes
      BY DEF HeapInv, Types
    <3>2. writer' = [writer EXCEPT !.made = a, !.stack = Front(writer.stack),
                                   !.pc = IF Len(writer.stack) = 1 THEN "root" ELSE "build"]
      BY <1>2 DEF Join
    <3>3. writer'.stack = Front(writer.stack)
      BY <3>1, <3>2 DEF WriterTypes
    <3>4. a \in 0..NumNodes
      BY <1>5 DEF Nodes
    <3>5. Front(writer.stack) \in Seq([a : Nodes, extra : BOOLEAN, copy : BOOLEAN])
      BY <1>5, <3>3
    <3> QED
      BY <3>1, <3>2, <3>4, <3>5 DEF WriterTypes
  <2> QED
    BY <2>1, <2>2 DEF Types
<1>12. Shape'
  <2>1. ASSUME NEW x \in Nodes, Live(x)'
        PROVE  /\ node'[x].key \in Vertices /\ node'[x].nb \in Blocks
               /\ ~StaleLeft(x)' => KeyOf(node[x].lc)' = Left[node'[x].key]
               /\ ~StaleRight(x)' => KeyOf(node[x].rc)' = Right[node'[x].key]
    <3>1. Live(x)
      BY <1>8, <2>1 DEF Live
    <3>2. /\ node[x].key \in Vertices /\ node[x].nb \in Blocks
          /\ ~StaleLeft(x) => KeyOf(node[x].lc) = Left[node[x].key]
          /\ ~StaleRight(x) => KeyOf(node[x].rc) = Right[node[x].key]
      BY <3>1 DEF HeapInv, Shape
    <3>3. node[x].lc \in Nodes \cup {Null} /\ node[x].rc \in Nodes \cup {Null}
      BY NodeTypes DEF HeapInv, Types
    <3>4. \A y \in Nodes \cup {Null} :
             /\ node'[x].lc = y => KeyOf(node[x].lc)' = KeyOf(y)
             /\ node'[x].rc = y => KeyOf(node[x].rc)' = KeyOf(y)
      BY <1>8 DEF KeyOf
    <3>5. CASE x # a
      <4>1. (StaleLeft(x)' <=> StaleLeft(x)) /\ (StaleRight(x)' <=> StaleRight(x))
        BY <1>5, <1>8, <1>10, <3>5 DEF StaleLeft, StaleRight
      <4>2. node'[x].lc = node[x].lc /\ node'[x].rc = node[x].rc
        BY <1>8, <3>5
      <4>3. KeyOf(node[x].lc)' = KeyOf(node[x].lc) /\ KeyOf(node[x].rc)' = KeyOf(node[x].rc)
        <5>1. PICK l : l = node[x].lc
          OBVIOUS
        <5>2. PICK r : r = node[x].rc
          OBVIOUS
        <5> QED
          BY <3>3, <3>4, <4>2, <5>1, <5>2
      <4> QED
        BY <1>8, <3>2, <4>1, <4>3
    <3>6. CASE x = a
      <4>1. (StaleLeft(a) <=> Key < node[a].key) /\ (StaleRight(a) <=> node[a].key < Key)
        BY <1>10 DEF StaleLeft, StaleRight
      <4>2. \A y \in Nodes \cup {Null} :
               /\ node'[a].lc = y => KeyOf(node[a].lc)' = KeyOf(y)
               /\ node'[a].rc = y => KeyOf(node[a].rc)' = KeyOf(y)
        BY <3>4, <3>6
      <4>3. m # Null => KeyOf(m) = KeyDown(node[a].key) /\ m \in Nodes
        BY <1>7 DEF KeyOf
      <4>4. KeyOf(node[a].lc)' = Left[node[a].key]
        <5>1. CASE Key < node[a].key
          <6>1. node'[a].lc = m /\ m # Null
            BY <1>5, <1>7, <1>8, <5>1
          <6>2. KeyDown(node[a].key) = Left[node[a].key]
            BY <5>1 DEF KeyDown
          <6> QED
            BY <4>2, <4>3, <6>1, <6>2
        <5>2. CASE ~(Key < node[a].key)
          <6>1. node'[a].lc = node[a].lc
            BY <1>5, <1>8, <5>2
          <6>2. KeyOf(node[a].lc) = Left[node[a].key]
            BY <3>2, <3>6, <4>1, <5>2
          <6>3. PICK y : y = node[a].lc
            OBVIOUS
          <6> QED
            BY <3>3, <3>6, <4>2, <6>1, <6>2, <6>3
        <5> QED
          BY <5>1, <5>2
      <4>5. KeyOf(node[a].rc)' = Right[node[a].key]
        <5>1. CASE node[a].key < Key
          <6>1. node'[a].rc = m /\ m # Null
            BY <1>5, <1>7, <1>8, <5>1
          <6>2. KeyDown(node[a].key) = Right[node[a].key]
            BY <1>5, <5>1 DEF KeyDown
          <6> QED
            BY <4>2, <4>3, <6>1, <6>2
        <5>2. CASE ~(node[a].key < Key)
          <6>1. node'[a].rc = node[a].rc
            BY <1>5, <1>8, <5>2
          <6>2. KeyOf(node[a].rc) = Right[node[a].key]
            BY <3>2, <3>6, <4>1, <5>2
          <6>3. PICK y : y = node[a].rc
            OBVIOUS
          <6> QED
            BY <3>3, <3>6, <4>2, <6>1, <6>2, <6>3
        <5> QED
          BY <5>1, <5>2
      <4> QED
        BY <1>8, <3>2, <3>6, <4>4, <4>5
    <3> QED
      BY <3>5, <3>6
  <2> QED
    BY <2>1 DEF Shape
<1>13. \A i \in 1..n-1 : writer.stack[i].a # a /\ writer.stack[i].a \in Nodes
  BY <1>2, <1>5, AtIsNoFrame, FrameFacts
<1>14. Frames'
  <2>1. \A i \in 1..n-1 : FrameKept(i)
    BY <1>6, <1>8, <1>13 DEF FrameKept
  <2>2. n-1 \in 0..Waiting /\ Waiting' \in Nat /\ n-1 <= Waiting'
    BY <1>5, <1>6
  <2>3. \A i \in 1..n-1 : FrameHolds(i)'
    BY <1>5, <2>1, <2>2, FramesKept
  <2>4. ASSUME NEW i \in 1..n-1
        PROVE  /\ writer'.stack[i].extra <=> (i > 1 /\ writer'.stack[i-1].copy)
               /\ writer'.stack[i].extra => writer'.stack[i].copy
    <3>1. /\ i \in DOMAIN writer.stack /\ (i > 1 => i - 1 \in 1..n-1)
      BY <1>1, <1>6, StackFacts, ItemsOf DEF HeapInv, Types
    <3>2. /\ writer.stack[i].extra <=> (i > 1 /\ writer.stack[i-1].copy)
          /\ writer.stack[i].extra => writer.stack[i].copy
      BY <3>1 DEF HeapInv, Path, Frames
    <3> QED
      BY <1>6, <3>1, <3>2
  <2>5. DOMAIN writer'.stack = 1..n-1
    BY <1>5, ItemsOf
  <2> QED
    BY <1>5, <2>3, <2>4, <2>5 DEF Frames
<1>15. Path'
  <2>1. /\ node[a].key = KeyMade /\ writer.edges # <<>>
        /\ Waiting > 0 => node[writer.stack[Waiting].a].key # Key
    BY <1>2, <1>5 DEF HeapInv, Path
  <2>2. CASE n = 1
    <3>1. writer'.stack = <<>> /\ writer'.pc = "root" /\ ~RootHeld'
      BY <1>5, <2>2 DEF RootHeld
    <3>2. node'[a].key = RootVertex
      BY <1>5, <1>8, <2>1, <2>2 DEF KeyMade
    <3> QED
      BY <1>5, <1>14, <2>1, <3>1, <3>2 DEF Path
  <2>3. CASE n > 1
    <3>1. writer'.stack # <<>> /\ writer'.pc = "build" /\ RootHeld
      BY <1>5, <1>6, <2>3 DEF RootHeld
    <3>2. Frame'.a = writer.stack[n-1].a /\ n-1 \in 1..n-1
      BY <1>6, <2>3
    <3>3. node'[Frame'.a].key = node[writer.stack[n-1].a].key
      BY <1>8, <1>13, <3>2
    <3>4. node[writer.stack[n-1].a].key # Key
      BY <1>5, <1>6, <2>1, <2>3
    <3>5. node'[a].key = KeyMade'
      <4>1. writer'.stack[n-1] = writer.stack[n-1] /\ n-1 > 0
        BY <1>6, <2>3, <3>2
      <4>2. node'[writer.stack[n-1].a].key = node[writer.stack[n-1].a].key
        BY <1>8, <1>13, <3>2
      <4>3. KeyMade' = KeyMade
        BY <1>5, <4>1, <4>2 DEF KeyMade, KeyDown
      <4> QED
        BY <1>5, <1>8, <2>1, <4>3
    <3>6. node'[root'].key = RootVertex
      BY <1>5, <1>8, <3>1, RootFacts
    <3> QED
      BY <1>5, <1>14, <2>1, <3>1, <3>3, <3>4, <3>5, <3>6 DEF Path
  <2> QED
    BY <1>5, <1>6, <2>2, <2>3
<1>16. Snapshots'
  <2>1. \A x \in Still : node'[x].key = node[x].key
    BY <1>8 DEF Still
  <2> QED
    BY <1>5, <2>1, NobodyCounts, SnapshotsStay
<1> QED
  BY <1>11, <1>12, <1>15, <1>16, JoinTally DEF HeapInv

\* What becomes of the nodes when the writer has the node it changes, be it a copy
\* or the old one.
Replaced(a, o) ==
    /\ \A x \in Nodes : x # o \/ o = a =>
          /\ node'[x].key = node[x].key /\ node'[x].nb = node[x].nb
          /\ node'[x].lc = node[x].lc /\ node'[x].rc = node[x].rc
          /\ Live(x)' <=> Live(x)
    /\ node'[o].key = node[a].key /\ node'[o].nb = node[a].nb
    /\ node'[o].lc = node[a].lc /\ node'[o].rc = node[a].rc
    /\ Live(o)' /\ node'[o].ref = 1
    /\ o # a => ~Live(o) /\ \A x : ~Cut(x)

LEMMA BuildReplaces ==
    ASSUME HeapInv, Build, NEW n, NEW a, NEW o, Building(n, a, o)
    PROVE  /\ Replaced(a, o)
           /\ node' \in [Nodes -> NodeRecords]
           /\ block' \in [Blocks -> [dests : SUBSET Vertices, ref : Nat]]
           /\ \A i \in 1..n-1 : node'[writer.stack[i].a].ref = node[writer.stack[i].a].ref
<1>1. /\ n > 0 /\ Frame = writer.stack[n] /\ n \in 1..Waiting /\ a \in Nodes /\ Live(a)
      /\ node[a].key \in Vertices /\ Key \in Vertices /\ node[a].key \in Nat /\ Key \in Nat
      /\ o \in Nodes /\ (writer.stack[n].copy => ~Live(o) /\ node[o].ref = 0 /\ o # a)
      /\ o = IF writer.stack[n].copy THEN Fresh(node) ELSE a
      /\ Waiting = n
  BY BuildFacts
<1>2. /\ WriterTypes /\ HeapTypes /\ ReaderTypes /\ n \in Nat /\ Frame.a = a
  BY <1>1 DEF HeapInv, Types, Building
<1>3. CASE ~Frame.copy
  <2>1. UNCHANGED <<node, block>> /\ o = a
    BY <1>1, <1>3 DEF Build
  <2>2. node[a].ref = 1
    BY <1>1, <1>2, <1>3, FrameFacts
  <2>3. \A x : Live(x)' <=> Live(x)
    BY <2>1 DEF Live
  <2>4. Replaced(a, o)
    BY <1>1, <2>1, <2>2, <2>3 DEF Replaced
  <2> QED
    BY <1>2, <2>1, <2>4 DEF HeapTypes, NodeRecords
<1>4. CASE Frame.copy
  <2>1. /\ node'[o].key = node[a].key /\ node'[o].nb = node[a].nb
        /\ node'[o].lc = node[a].lc /\ node'[o].rc = node[a].rc
        /\ node'[o].ref = 1
        /\ node' \in [Nodes -> NodeRecords]
        /\ block' \in [Blocks -> [dests : SUBSET Vertices, ref : Nat]]
        /\ \A x : ~Cut(x)
    BY <1>4, CopyFacts DEF NodeRecords
  <2>2. \A x \in Nodes : x # o =>
           /\ node'[x].key = node[x].key /\ node'[x].nb = node[x].nb
           /\ node'[x].lc = node[x].lc /\ node'[x].rc = node[x].rc
           /\ node[x].ref \in Nat
           /\ node'[x].ref = node[x].ref + (IF Key < node[a].key /\ x = node[a].rc THEN 1 ELSE 0)
    BY <1>4, CopyFacts
  <2>3. node[a].rc # Null => Live(node[a].rc)
    BY <1>4, CopyFacts
  <2>4. o # a /\ ~Live(o) /\ Live(o)'
    BY <1>1, <1>4, <2>1 DEF Live
  <2>5. ASSUME NEW x \in Nodes, x # o
        PROVE  Live(x)' <=> Live(x)
    <3>1. CASE x = node[a].rc
      <4>1. Live(x)
        BY <2>3, <3>1, Constants DEF Nodes
      <4>2. node[x].ref \in Nat /\ node'[x].ref \in {node[x].ref, node[x].ref + 1}
        BY <2>2, <2>5
      <4> QED
        BY <4>1, <4>2 DEF Live
    <3>2. CASE x # node[a].rc
      BY <2>2, <2>5, <3>2 DEF Live
    <3> QED
      BY <3>1, <3>2
  <2>6. Replaced(a, o)
    BY <2>1, <2>2, <2>4, <2>5 DEF Replaced
  <2>7. ASSUME NEW i \in 1..n-1
        PROVE  node'[writer.stack[i].a].ref = node[writer.stack[i].a].ref
    <3>1. PICK x : x = writer.stack[i].a
      OBVIOUS
    <3>2. i \in 1..Waiting /\ i \in Nat /\ i # n + 1
      BY <1>1, <1>2
    <3>3. x \in Nodes /\ Live(x) /\ Depth[node[x].key] = i - 1
      BY <3>1, <3>2, FrameFacts
    <3>4. x # o
      BY <2>4, <3>3
    <3>5. x = node[a].rc => node[a].rc # Null
      BY <3>3, Constants DEF Nodes
    <3>6. x # node[a].rc
      <4>1. SUFFICES ASSUME x = node[a].rc
                     PROVE  FALSE
        OBVIOUS
      <4>2. ~StaleRight(a)
        BY <2>1 DEF StaleRight
      <4>3. node[x].key = Right[node[a].key] /\ node[x].key \in Vertices
        BY <1>1, <1>2, <3>5, <4>1, <4>2, Links DEF HeapInv
      <4>4. Depth[node[x].key] = Depth[node[a].key] + 1
        BY <1>1, <4>3, TreeFacts DEF IsDepth
      <4>5. Depth[node[a].key] = n - 1
        BY <1>1, <1>2, FrameFacts
      <4>6. (n - 1) + 1 = n /\ i - 1 # n
        BY <1>2, <3>2
      <4> QED
        BY <3>3, <4>4, <4>5, <4>6
    <3> QED
      BY <2>2, <3>1, <3>3, <3>4, <3>6
  <2> QED
    BY <2>1, <2>6, <2>7
<1>5. Frame.copy \in BOOLEAN
  BY <1>1, <1>2, StackFacts DEF Building
<1> QED
  BY <1>3, <1>4, <1>5

LEMMA BuildShape ==
    ASSUME HeapInv, Build, NEW n, NEW a, NEW o, Building(n, a, o)
    PROVE  Shape'
<1>1. /\ a \in Nodes /\ Live(a) /\ o \in Nodes
  BY BuildFacts
<1>2. Replaced(a, o)
  BY BuildReplaces
<1>3. /\ WriterTypes /\ HeapTypes /\ Tally /\ Shape
  BY DEF HeapInv, Types
<1>4. \A x \in Nodes : x # o \/ o = a =>
         /\ StaleLeft(x) => StaleLeft(x)'
         /\ StaleRight(x) => StaleRight(x)'
  <2>1. \A x \in Nodes : x # o \/ o = a => node'[x].key = node[x].key
    BY <1>2 DEF Replaced
  <2> QED
    BY <2>1, BuildReleases
\* A link that is not stale leads to a node that was alive, so not to the copy.
<1>5. ASSUME NEW y \in Nodes \cup {Null}, y # Null => Live(y)
      PROVE  KeyOf(y)' = KeyOf(y)
  <2>1. y # Null => y \in Nodes /\ (y # o \/ o = a)
    BY <1>2, <1>5 DEF Replaced
  <2> QED
    BY <1>2, <2>1 DEF Replaced, KeyOf
<1>6. ASSUME NEW x \in Nodes, NEW z \in Nodes, Live(z),
             node'[x].key = node[z].key, node'[x].nb = node[z].nb,
             node'[x].lc = node[z].lc, node'[x].rc = node[z].rc,
             StaleLeft(z) => StaleLeft(x)', StaleRight(z) => StaleRight(x)'
      PROVE  /\ node'[x].key \in Vertices /\ node'[x].nb \in Blocks
             /\ ~StaleLeft(x)' => KeyOf(node[x].lc)' = Left[node'[x].key]
             /\ ~StaleRight(x)' => KeyOf(node[x].rc)' = Right[node'[x].key]
  <2>1. /\ node[z].key \in Vertices /\ node[z].nb \in Blocks
        /\ ~StaleLeft(z) => KeyOf(node[z].lc) = Left[node[z].key]
        /\ ~StaleRight(z) => KeyOf(node[z].rc) = Right[node[z].key]
    BY <1>3, <1>6 DEF Shape
  <2>2. node[z].lc \in Nodes \cup {Null} /\ node[z].rc \in Nodes \cup {Null}
    BY <1>3, NodeTypes
  <2>3. PICK l : l = node[z].lc
    OBVIOUS
  <2>4. PICK r : r = node[z].rc
    OBVIOUS
  <2>5. KeyOf(node[x].lc)' = KeyOf(l)' /\ KeyOf(node[x].rc)' = KeyOf(r)'
    BY <1>6, <2>3, <2>4 DEF KeyOf
  <2>6. ~StaleLeft(z) => KeyOf(l)' = KeyOf(l)
    <3>1. ~StaleLeft(z) /\ l # Null => Live(l)
      BY <1>3, <1>6, <2>3, Links
    <3> QED
      BY <1>5, <2>2, <2>3, <3>1
  <2>7. ~StaleRight(z) => KeyOf(r)' = KeyOf(r)
    <3>1. ~StaleRight(z) /\ r # Null => Live(r)
      BY <1>3, <1>6, <2>4, Links
    <3> QED
      BY <1>5, <2>2, <2>4, <3>1
  <2>8. ~StaleLeft(x)' => KeyOf(node[x].lc)' = Left[node'[x].key]
    BY <1>6, <2>1, <2>3, <2>5, <2>6
  <2>9. ~StaleRight(x)' => KeyOf(node[x].rc)' = Right[node'[x].key]
    BY <1>6, <2>1, <2>4, <2>5, <2>7
  <2> QED
    BY <1>6, <2>1, <2>8, <2>9
<1>7. ASSUME NEW x \in Nodes, Live(x)'
      PROVE  /\ node'[x].key \in Vertices /\ node'[x].nb \in Blocks
             /\ ~StaleLeft(x)' => KeyOf(node[x].lc)' = Left[node'[x].key]
             /\ ~StaleRight(x)' => KeyOf(node[x].rc)' = Right[node'[x].key]
  <2>1. CASE x # o \/ o = a
    <3>1. /\ Live(x) /\ node'[x].key = node[x].key /\ node'[x].nb = node[x].nb
          /\ node'[x].lc = node[x].lc /\ node'[x].rc = node[x].rc
          /\ StaleLeft(x) => StaleLeft(x)'
          /\ StaleRight(x) => StaleRight(x)'
      BY <1>2, <1>4, <1>7, <2>1 DEF Replaced
    <3> QED
      BY <1>6, <3>1
  <2>2. CASE x = o /\ o # a
    <3>1. ~StaleLeft(a) /\ ~StaleRight(a)
      BY <1>2, <2>2 DEF Replaced, StaleLeft, StaleRight
    <3>2. /\ node'[x].key = node[a].key /\ node'[x].nb = node[a].nb
          /\ node'[x].lc = node[a].lc /\ node'[x].rc = node[a].rc
      BY <1>2, <2>2 DEF Replaced
    <3> QED
      BY <1>1, <1>6, <3>1, <3>2
  <2> QED
    BY <2>1, <2>2
<1> QED
  BY <1>7 DEF Shape

LEMMA BuildPath ==
    ASSUME HeapInv, Build, NEW n, NEW a, NEW o, Building(n, a, o)
    PROVE  Path'
<1>1. /\ n > 0 /\ Frame = writer.stack[n] /\ n \in 1..Waiting /\ a \in Nodes /\ Live(a)
      /\ node[a].key \in Vertices /\ Key \in Vertices /\ node[a].key \in Nat /\ Key \in Nat
      /\ ~Built /\ Built' /\ Waiting = n /\ Waiting' = n - 1
      /\ writer.pc = "build"
      /\ writer'.pc = IF node[a].key = Key THEN "look" ELSE "join"
      /\ writer'.stack = writer.stack /\ writer'.edges = writer.edges
      /\ writer'.made = writer.made /\ Key' = Key
      /\ UNCHANGED <<root, reader>>
      /\ o \in Nodes
      /\ writer.made = Null <=> node[a].key = Key
      /\ writer.made # Null => node[writer.made].key = KeyMade
  BY BuildFacts
<1>2. /\ \A i \in 1..n : writer.stack[i].a \in Nodes /\ Live(writer.stack[i].a)
      /\ n \in Nat /\ n = Len(writer.stack) /\ a = writer.stack[n].a /\ o = writer'.at
  BY BuildFacts DEF Building
<1>3. /\ Replaced(a, o)
      /\ \A i \in 1..n-1 : node'[writer.stack[i].a].ref = node[writer.stack[i].a].ref
  BY BuildReplaces
<1>4. \A x \in Nodes : Live(x) =>
         /\ node'[x].key = node[x].key
         /\ node'[x].lc = node[x].lc /\ node'[x].rc = node[x].rc
  BY <1>3 DEF Replaced
<1>5. Frames'
  <2>1. \A i \in 1..n-1 : FrameKept(i)
    <3>1. \A i \in 1..n-1 : writer.stack[i].a \in Nodes /\ Live(writer.stack[i].a)
      BY <1>2
    <3> QED
      BY <1>1, <1>3, <1>4, <3>1 DEF FrameKept
  <2>2. n-1 \in 0..Waiting /\ Waiting' \in Nat /\ n-1 <= Waiting'
    BY <1>1, <1>2
  <2>3. \A i \in 1..n-1 : FrameHolds(i)'
    BY <1>1, <2>1, <2>2, FramesKept
  <2> QED
    BY <1>1, <2>3, ExtrasStay DEF Frames
<1>6. RootHeld /\ root \in Nodes /\ Live(root) /\ node[root].key = RootVertex
  BY <1>1, RootFacts DEF RootHeld
<1>7. n > 1 => /\ n-1 \in 1..n /\ writer.stack[n-1].a \in Nodes /\ Live(writer.stack[n-1].a)
               /\ node[writer.stack[n-1].a].key # Key
               /\ node[a].key = KeyDown(node[writer.stack[n-1].a].key)
  <2>1. SUFFICES ASSUME n > 1
                 PROVE  /\ n-1 \in 1..n /\ writer.stack[n-1].a \in Nodes /\ Live(writer.stack[n-1].a)
                        /\ node[writer.stack[n-1].a].key # Key
                        /\ node[a].key = KeyDown(node[writer.stack[n-1].a].key)
    OBVIOUS
  <2>2. n-1 \in 1..n /\ n-1 \in 1..Waiting /\ n-1 < Waiting
    BY <1>1, <1>2, <2>1
  <2>3. node[writer.stack[n-1].a].key # Key /\ a = Down(writer.stack[n-1].a)
    BY <1>1, <1>2, <2>1, FrameFacts
  <2>4. ~Cut(writer.stack[n-1].a)
    BY <2>2, CutFacts
  <2>5. node[Down(writer.stack[n-1].a)].key = KeyDown(node[writer.stack[n-1].a].key)
    BY <2>2, <2>3, <2>4, DownFacts
  <2> QED
    BY <1>2, <2>2, <2>3, <2>5
<1>8. node'[o].key = node[a].key /\ Live(o)' /\ node'[o].ref = 1
  BY <1>3 DEF Replaced
<1>9. node'[o].key = KeyMade'
  <2>1. CASE n = 1
    <3>1. a = root
      BY <1>1, <1>2, <2>1, FrameFacts
    <3> QED
      BY <1>1, <1>6, <1>8, <2>1, <3>1 DEF KeyMade
  <2>2. CASE n > 1
    <3>1. node'[writer.stack[n-1].a].key = node[writer.stack[n-1].a].key
      BY <1>4, <1>7, <2>2
    <3>2. KeyMade' = KeyDown(node[writer.stack[n-1].a].key)
      <4>1. Waiting' > 0 /\ writer'.stack[Waiting'].a = writer.stack[n-1].a
        BY <1>1, <1>2, <2>2
      <4> QED
        BY <1>1, <3>1, <4>1 DEF KeyMade, KeyDown
    <3> QED
      BY <1>7, <1>8, <2>2, <3>2
  <2>3. n = 1 \/ n > 1
    BY <1>1, <1>2, OneOrMore
  <2> QED
    BY <2>1, <2>2, <2>3
<1>10. n - 1 > 0 => node'[writer'.stack[n-1].a].key # Key
  <2>1. n - 1 > 0 => n > 1
    BY <1>2
  <2> QED
    BY <1>1, <1>4, <1>7, <2>1
<1>11. writer.made # Null => node'[writer.made].key = KeyDown(node[writer.at].key)'
  <2>1. SUFFICES ASSUME writer.made # Null
                 PROVE  node'[writer.made].key = KeyDown(node[writer.at].key)'
    OBVIOUS
  <2>2. writer.made \in Nodes
    BY <2>1, Constants DEF HeapInv, Types, WriterTypes, Nodes
  <2>3. Live(writer.made)
    <3>1. MadePlace \in Places /\ Pointer[MadePlace] = NodeRef(writer.made)
      BY <1>1, PlaceFacts, PointerAt DEF OfMade
    <3> QED
      BY <2>2, <3>1, Held DEF HeapInv, Types
  <2>4. node'[writer.made].key = node[writer.made].key
    BY <1>4, <2>2, <2>3
  <2>5. KeyMade = KeyDown(node[a].key)
    BY <1>1, <1>2 DEF KeyMade
  <2>6. KeyDown(node[writer.at].key)' = KeyDown(node[a].key)
    BY <1>1, <1>2, <1>8 DEF KeyDown
  <2> QED
    BY <1>1, <2>1, <2>4, <2>5, <2>6
<1>12. /\ writer'.stack # <<>> /\ writer'.edges # <<>>
       /\ RootHeld' => node'[root'].key = RootVertex
  <2>1. writer.stack # <<>> /\ writer.edges # <<>>
    BY <1>1 DEF HeapInv, Path
  <2>2. node'[root'].key = RootVertex
    BY <1>1, <1>4, <1>6
  <2> QED
    BY <1>1, <2>1, <2>2
<1> QED
  BY <1>1, <1>2, <1>5, <1>8, <1>9, <1>10, <1>11, <1>12 DEF Path

LEMMA BuildStep ==
    ASSUME HeapInv, Build
    PROVE  HeapInv'
<1>1. PICK n : n = Len(writer.stack)
  OBVIOUS
<1>2. PICK a : a = writer.stack[n].a
  OBVIOUS
<1>3. PICK o : o = writer'.at
  OBVIOUS
<1>4. Building(n, a, o)
  BY <1>1, <1>2, <1>3, StackFacts DEF Building, HeapInv, Types
<1>5. Shape' /\ Path'
  BY <1>4, BuildShape, BuildPath
<1>6. /\ a \in Nodes /\ o \in Nodes /\ writer.pc = "build"
      /\ UNCHANGED <<root, reader>>
      /\ dropping' = [dropping EXCEPT ![Writer] =
            IF writer.stack[n].copy /\ ~writer.stack[n].extra THEN <<NodeRef(a)>> ELSE <<>>]
  BY <1>4, BuildFacts
<1>7. Replaced(a, o) /\ node' \in [Nodes -> NodeRecords]
      /\ block' \in [Blocks -> [dests : SUBSET Vertices, ref : Nat]]
  BY <1>4, BuildReplaces
<1>8. /\ WriterTypes /\ HeapTypes /\ ReaderTypes
  BY DEF HeapInv, Types
<1>9. \A r \in Readers : dropping'[r] = dropping[r]
  BY <1>6, <1>8, Constants DEF HeapTypes, Threads
<1>10. Types'
  <2>1. dropping' \in [Threads -> Seq(Refs)]
    <3>1. <<NodeRef(a)>> \in Seq(Refs) /\ <<>> \in Seq(Refs)
      BY <1>6, RefFacts
    <3> QED
      BY <1>6, <1>8, <3>1 DEF HeapTypes
  <2>2. HeapTypes' /\ ReaderTypes'
    BY <1>6, <1>7, <1>8, <2>1 DEF HeapTypes, ReaderTypes, NodeRecords
  <2>3. WriterTypes'
    <3>1. \E p \in {"look", "join"} : writer' = [writer EXCEPT !.at = o, !.pc = p]
      <4>1. \E z : \E p \in {"look", "join"} : writer' = [writer EXCEPT !.at = z, !.pc = p]
        BY DEF Build
      <4> QED
        BY <1>3, <1>8, <4>1 DEF WriterTypes
    <3>2. o \in 0..NumNodes
      BY <1>6 DEF Nodes
    <3> QED
      BY <1>8, <3>1, <3>2 DEF WriterTypes
  <2> QED
    BY <2>2, <2>3 DEF Types
<1>11. Snapshots'
  <2>1. \A x \in Still : node'[x].key = node[x].key
    BY <1>7 DEF Still, Replaced
  <2> QED
    BY <1>6, <1>9, <2>1, NobodyCounts, SnapshotsStay
<1> QED
  BY <1>5, <1>10, <1>11, BuildTally DEF HeapInv

LEMMA StutterStep ==
    ASSUME HeapInv, UNCHANGED vars
    PROVE  HeapInv'
<1>1. UNCHANGED <<node, block, root, writer, reader, dropping>>
  BY DEF vars, heapVars
<1>2. Types'
  BY <1>1 DEF HeapInv, Types, HeapTypes, WriterTypes, ReaderTypes
<1>3. Tally'
  <2>1. \A x \in Nodes : /\ node'[x].key = node[x].key /\ node'[x].nb = node[x].nb
                         /\ node'[x].lc = node[x].lc /\ node'[x].rc = node[x].rc
                         /\ Live(x)' <=> Live(x)
    BY <1>1 DEF Live
  <2>2. \A x \in Nodes : /\ Pointer'[LeftLink(x)] = Pointer[LeftLink(x)]
                         /\ Pointer'[RightLink(x)] = Pointer[RightLink(x)]
                         /\ Pointer'[RecordLink(x)] = Pointer[RecordLink(x)]
    BY <1>1, <2>1, WriterPlaces
  <2>3. /\ \A i \in Nat : /\ Pointer'[LeftKept(i)] = Pointer[LeftKept(i)]
                          /\ Pointer'[RightKept(i)] = Pointer[RightKept(i)]
        /\ Pointer'[RootPlace] = Pointer[RootPlace] /\ Pointer'[AtPlace] = Pointer[AtPlace]
        /\ Pointer'[MadePlace] = Pointer[MadePlace]
    BY <1>1, <2>1, WriterPlaces
  <2>4. /\ \A r \in Readers : OfSnapshot(r)' = OfSnapshot(r) /\ OfPin(r)' = OfPin(r)
        /\ \A t \in Threads, j \in Nat : OfDropping(t, j)' = OfDropping(t, j)
    BY <1>1 DEF OfSnapshot, OfPin, OfDropping, Open
  <2>5. /\ \A r \in Readers : /\ Pointer'[SnapshotPlace(r)] = Pointer[SnapshotPlace(r)]
                              /\ Pointer'[PinPlace(r)] = Pointer[PinPlace(r)]
        /\ \A t \in Threads, j \in Nat : Pointer'[DropPlace(t, j)] = Pointer[DropPlace(t, j)]
    BY <2>4, PointerAt, PointerNext
  <2>6. Pointer' = Pointer
    BY ONLY <2>2, <2>3, <2>5, IsFunction, SamePlaces
  <2>7. Count' = Count
    BY <1>1 DEF Count
  <2> QED
    BY <2>6, <2>7 DEF HeapInv, Tally
<1>4. Shape' /\ Path'
  <2>1. writer.pc = "put" => dropping'[Writer] = <<>>
    BY <1>1 DEF HeapInv, Path
  <2> QED
    BY <1>1, <1>2, <2>1, SameHeapPath DEF Types
<1>5. Snapshots'
  BY <1>1 DEF HeapInv, Snapshots, Open
<1> QED
  BY <1>2, <1>3, <1>4, <1>5 DEF HeapInv

\* The counts are exact, the trees are the ones that were loaded and the writer is on
\* its way down one of them, whatever the threads have done.
THEOREM HeapInvHolds ==
    ASSUME Quiet
    PROVE  Spec => []HeapInv
<1>1. Init => HeapInv
  BY InitHolds
<1>2. HeapInv /\ [Next]_vars => HeapInv'
  <2>1. SUFFICES ASSUME HeapInv, [Next]_vars
                 PROVE  HeapInv'
    OBVIOUS
  <2>2. ASSUME NEW tx \in Txs, Begin(tx)
        PROVE  HeapInv'
    BY <2>1, <2>2, BeginStep
  <2>3. ASSUME NEW tx \in Txs, SetRoot(tx)
        PROVE  HeapInv'
    BY <2>1, <2>3, SetRootStep
  <2>4. CASE Enter
    BY <2>1, <2>4, EnterStep
  <2>5. CASE Descend
    BY <2>1, <2>5, DescendStep
  <2>6. CASE Build
    BY <2>1, <2>6, BuildStep
  <2>7. CASE Look
    BY <2>1, <2>7, LookStep
  <2>8. CASE Put
    BY <2>1, <2>8, PutStep
  <2>9. CASE Join
    BY <2>1, <2>9, JoinStep
  <2>10. ASSUME NEW r \in Readers, TakeRoot(r)
         PROVE  HeapInv'
    BY <2>1, <2>10, TakeRootStep
  <2>11. ASSUME NEW r \in Readers, CountRoot(r)
         PROVE  HeapInv'
    BY <2>1, <2>11, CountRootStep
  <2>12. ASSUME NEW r \in Readers, Answer(r)
         PROVE  HeapInv'
    BY <2>1, <2>12, AnswerStep
  <2>13. ASSUME NEW r \in Readers, Close(r)
         PROVE  HeapInv'
    BY <2>1, <2>13, CloseStep
  <2>14. ASSUME NEW r \in Readers, NEW op \in ReadOps, FindRecord(r, op)
         PROVE  HeapInv'
    BY <2>1, <2>14, FindRecordStep
  <2>15. ASSUME NEW t \in Threads, Drop(t)
         PROVE  HeapInv'
    BY <2>1, <2>15, DropStep
  <2>16. CASE UNCHANGED vars
    BY <2>1, <2>16, StutterStep
  <2> QED
    BY <2>1, <2>2, <2>3, <2>4, <2>5, <2>6, <2>7, <2>8, <2>9, <2>10, <2>11, <2>12, <2>13, <2>14,
       <2>15, <2>16 DEF Next
<1> QED
  BY <1>1, <1>2, PTL DEF Spec

-----------------------------------------------------------------------------
(* A snapshot is kept *)

\* What a step leaves alone of a node and of its record.
Untouched(x) == Frozen(x) /\ block'[node[x].nb].dests = block[node[x].nb].dests

LEMMA PutUntouched ==
    ASSUME HeapInv, Put, NEW x \in Nodes, Live(x), x # writer.at
    PROVE  Untouched(x)
<1>1. PICK a : a = writer.at
  OBVIOUS
<1>2. PICK b : b = node[a].nb
  OBVIOUS
<1>3. Putting(a, b)
  BY <1>1, <1>2 DEF Putting
<1>4. /\ a \in Nodes /\ Live(a) /\ b \in Blocks /\ Built
      /\ block[b].ref > 0 /\ Pointer[RecordLink(a)] = BlockRef(b)
  BY <1>3, PutFacts
<1>5. x \in Nodes /\ Live(x)
  OBVIOUS
<1>6. x # a
  BY <1>1
<1>7. Frozen(x)
  BY <1>3, <1>5, <1>6, PutFacts DEF Frozen
<1>8. PICK d : d = node[x].nb
  OBVIOUS
<1>9. d \in Blocks /\ block[d].ref > 0 /\ Pointer[RecordLink(x)] = BlockRef(d)
  BY <1>5, <1>8, Links DEF HeapInv, Types
<1>10. block'[d].dests = block[d].dests
  <2>1. CASE ~writer.extra
    <3>1. /\ block[b].ref = 1
          /\ block' = [block EXCEPT ![b].dests = block[b].dests \cup {Dest}]
      BY <1>3, <2>1, PutFacts
    <3>2. RecordLink(x) \in Places /\ RecordLink(a) \in Places /\ RecordLink(x) # RecordLink(a)
      BY <1>4, <1>5, <1>6, PlaceFacts, PlacesDiffer
    <3>3. d # b
      BY <1>4, <1>9, <3>1, <3>2, Held DEF HeapInv, Types
    <3> QED
      BY <1>9, <3>1, <3>3 DEF HeapInv, Types, HeapTypes
  <2>2. CASE writer.extra
    <3>1. /\ block[Fresh(block)].ref = 0
          /\ block' = [block EXCEPT ![Fresh(block)] = [dests |-> block[b].dests \cup {Dest}, ref |-> 1]]
      BY <1>3, <2>2, PutFacts
    <3>2. d # Fresh(block)
      BY <1>9, <3>1
    <3> QED
      BY <1>9, <3>1, <3>2 DEF HeapInv, Types, HeapTypes
  <2> QED
    BY <2>1, <2>2
<1> QED
  BY <1>7, <1>8, <1>10 DEF Untouched

LEMMA BuildUntouched ==
    ASSUME HeapInv, Build, NEW x \in Nodes, Live(x)
    PROVE  Untouched(x)
<1>1. PICK n : n = Len(writer.stack)
  OBVIOUS
<1>2. PICK a : a = writer.stack[n].a
  OBVIOUS
<1>3. PICK o : o = writer'.at
  OBVIOUS
<1>4. Building(n, a, o)
  BY <1>1, <1>2, <1>3, StackFacts DEF Building, HeapInv, Types
<1>5. x \in Nodes /\ Live(x)
  OBVIOUS
<1>6. Frozen(x)
  <2>1. Replaced(a, o)
    BY <1>4, BuildReplaces
  <2> QED
    BY <1>5, <2>1 DEF Replaced, Frozen
<1>7. node[x].nb \in Blocks
  BY <1>5 DEF HeapInv, Shape
<1>8. block'[node[x].nb].dests = block[node[x].nb].dests
  <2>1. CASE Frame.copy
    BY <1>4, <1>7, <2>1, CopyFacts
  <2>2. CASE ~Frame.copy
    BY <2>2 DEF Build
  <2> QED
    BY <2>1, <2>2
<1> QED
  BY <1>6, <1>8 DEF Untouched

LEMMA JoinUntouched ==
    ASSUME HeapInv, Join, NEW x \in Nodes, x # writer.at
    PROVE  Untouched(x)
<1>1. PICK n : n = Len(writer.stack)
  OBVIOUS
<1>2. PICK a : a = writer.at
  OBVIOUS
<1>3. PICK m : m = writer.made
  OBVIOUS
<1>4. Joining(n, a, m)
  BY <1>1, <1>2, <1>3, AtFacts, StackFacts DEF Joining, HeapInv, Types
<1>5. Built /\ UNCHANGED block
  BY <1>4, JoinFacts
<1>6. x \in Nodes /\ x # a
  BY <1>2
<1>7. Frozen(x)
  BY <1>4, <1>6, JoinFacts DEF Frozen
<1> QED
  BY <1>5, <1>7 DEF Untouched

LEMMA IncrementedUntouched ==
    ASSUME HeapInv, NEW S, node' = Incremented(node, S) \/ node' = node, UNCHANGED block,
           NEW x \in Nodes
    PROVE  Untouched(x)
BY IncrementedFacts DEF HeapInv, Types, Untouched, Frozen

LEMMA DropUntouched ==
    ASSUME HeapInv, NEW t \in Threads, Drop(t), NEW x \in Nodes, Live(x)
    PROVE  Untouched(x)
<1>1. PICK s : s = dropping[t]
  OBVIOUS
<1>2. PICK ref : ref = Head(s)
  OBVIOUS
<1>3. Returned(t, s, ref)
  BY <1>1, <1>2 DEF Returned
<1>4. x \in Nodes /\ node[x].nb \in Blocks
  BY DEF HeapInv, Shape
<1>5. Frozen(x)
  BY <1>3, <1>4, DropCounts DEF Frozen
<1>6. block'[node[x].nb].dests = block[node[x].nb].dests
  BY <1>3, <1>4, DropCounts
<1> QED
  BY <1>5, <1>6 DEF Untouched

LEMMA FindUntouched ==
    ASSUME HeapInv, NEW r \in Readers, NEW op \in ReadOps, FindRecord(r, op), NEW x \in Nodes,
           Live(x)
    PROVE  Untouched(x)
<1>1. PICK b : Finding(r, op, b)
  BY DEF Finding
<1>2. Raised(b) /\ UNCHANGED node
  BY <1>1, FindRecordFacts
<1>3. node[x].nb \in Blocks
  BY DEF HeapInv, Shape
<1> QED
  BY <1>2, <1>3 DEF Untouched, Frozen, Raised

\* No step touches a node that is alive, or its record, but Put and Join the one the
\* writer has in its hands.
LEMMA LiveUntouched ==
    ASSUME HeapInv, [Next]_vars, NEW x \in Nodes, Live(x), x = writer.at => ~Put /\ ~Join
    PROVE  Untouched(x)
<1>1. x \in Nodes
  OBVIOUS
<1>2. CASE UNCHANGED <<node, block>>
  BY <1>2 DEF Untouched, Frozen
<1>3. ASSUME NEW tx \in Txs, Begin(tx) \/ SetRoot(tx)
      PROVE  Untouched(x)
  BY <1>2, <1>3 DEF Begin, SetRoot, heapVars
<1>4. CASE Enter \/ Look
  BY <1>2, <1>4 DEF Enter, Look, heapVars
<1>5. CASE Descend
  <2>1. \E S : node' = Incremented(node, S) \/ node' = node
    BY <1>5 DEF Descend
  <2> QED
    BY <1>1, <1>5, <2>1, IncrementedUntouched DEF Descend
<1>6. CASE Build
  BY <1>6, BuildUntouched
<1>7. CASE Put
  BY <1>7, PutUntouched
<1>8. CASE Join
  BY <1>8, JoinUntouched
<1>9. ASSUME NEW r \in Readers, TakeRoot(r) \/ Answer(r) \/ Close(r)
      PROVE  Untouched(x)
  BY <1>2, <1>9 DEF TakeRoot, Answer, Close, heapVars
<1>10. ASSUME NEW r \in Readers, CountRoot(r)
       PROVE  Untouched(x)
  BY <1>1, <1>10, IncrementedUntouched DEF CountRoot
<1>11. ASSUME NEW r \in Readers, NEW op \in ReadOps, FindRecord(r, op)
       PROVE  Untouched(x)
  BY <1>11, FindUntouched
<1>12. ASSUME NEW t \in Threads, Drop(t)
       PROVE  Untouched(x)
  BY <1>12, DropUntouched
<1>13. CASE UNCHANGED vars
  BY <1>2, <1>13 DEF vars, heapVars
<1> QED
  BY <1>3, <1>4, <1>5, <1>6, <1>7, <1>8, <1>9, <1>10, <1>11, <1>12, <1>13 DEF Next

\* So none touches a node that the writer has not opened.
LEMMA StillUntouched ==
    ASSUME HeapInv, [Next]_vars, NEW x \in Still
    PROVE  Untouched(x)
<1>1. x \in Nodes /\ Live(x) /\ ~Opened(x)
  BY DEF Still
<1>2. Put \/ Join => Built
  BY DEF Put, Join, Built
<1> QED
  BY <1>1, <1>2, LiveUntouched DEF Opened

\* A tree of nodes that no step touches holds the edges it held.
LEMMA ContentStays ==
    ASSUME HeapInv, HeapTypes', NEW a \in Still, \A x \in Still : Untouched(x)
    PROVE  Content(a)' = Content(a)
<1>1. PICK links : links = [x \in DOMAIN node |-> Children(x)]
  OBVIOUS
<1>2. PICK other : other = [x \in DOMAIN node' |-> Children(x)']
  OBVIOUS
<1>3. DOMAIN node = Nodes /\ DOMAIN node' = Nodes
  BY DEF HeapInv, Types, HeapTypes
<1>4. \A x \in Still : /\ links[x] = Children(x) /\ other[x] = Children(x)'
                       /\ Children(x)' = Children(x) /\ links[x] \subseteq Still
  <2>1. SUFFICES ASSUME NEW x \in Still
                 PROVE  /\ links[x] = Children(x) /\ other[x] = Children(x)'
                        /\ Children(x)' = Children(x) /\ links[x] \subseteq Still
    OBVIOUS
  <2>2. x \in Nodes /\ Children(x) \subseteq Still
    BY StillClosed
  <2>3. Children(x)' = Children(x)
    BY DEF Untouched, Frozen, Children
  <2> QED
    BY <1>1, <1>2, <1>3, <2>2, <2>3
<1>5. Reach(other, a) = Reach(links, a)
  <2>1. \A x \in Still : links[x] \subseteq Still
    BY <1>4
  <2>2. \A x \in Still : other[x] = links[x]
    BY <1>4
  <2> QED
    BY <2>1, <2>2, ReachSame
<1>6. TreeNodes(a) = Reach(links, a) /\ TreeNodes(a)' = Reach(other, a)
  BY <1>1, <1>2 DEF TreeNodes
<1>7. TreeNodes(a)' = TreeNodes(a) /\ TreeNodes(a) \subseteq Still
  BY <1>5, <1>6, TreeStill
<1>8. \A x \in TreeNodes(a) :
         ({node[x].key} \X block[node[x].nb].dests)' = {node[x].key} \X block[node[x].nb].dests
  BY <1>7 DEF Untouched, Frozen
<1> QED
  BY <1>7, <1>8 DEF Content

\* Which snapshots are open after a step, and which edges they are to have.
LEMMA OpenedOrCounted ==
    ASSUME HeapInv, DOMAIN seen = Readers, [Next]_vars, NEW r \in Readers, Open(r)'
    PROVE  \/ Open(r) /\ reader'[r].root = reader[r].root /\ seen'[r] = seen[r]
           \/ /\ reader[r].pc = "count" /\ reader'[r].root = reader[r].root
              /\ seen'[r] = Content(reader[r].root)
<1>1. ReaderTypes
  BY DEF HeapInv, Types
<1>2. ASSUME reader'[r] = reader[r], seen'[r] = seen[r]
      PROVE  Open(r) /\ reader'[r].root = reader[r].root /\ seen'[r] = seen[r]
  BY <1>2 DEF Open
<1>3. ASSUME NEW tx \in Txs, Begin(tx) \/ SetRoot(tx)
      PROVE  reader'[r] = reader[r] /\ seen'[r] = seen[r]
  BY <1>3 DEF Begin, SetRoot, storeVars
<1>4. CASE Enter \/ Descend \/ Build \/ Look \/ Put \/ Join
  BY <1>2, <1>4 DEF Enter, Descend, Build, Look, Put, Join, storeVars
<1>5. ASSUME NEW s \in Readers, TakeRoot(s)
      PROVE  reader'[r] = reader[r] /\ seen'[r] = seen[r]
  <2>1. seen' = seen /\ \A q \in Readers : q # s => reader'[q] = reader[q]
    BY <1>1, <1>5 DEF TakeRoot, ReaderTypes, storeVars
  <2>2. reader'[s].pc = "count"
    BY <1>1, <1>5 DEF TakeRoot, ReaderTypes, Away
  <2> QED
    BY <2>1, <2>2 DEF Open
<1>6. ASSUME NEW s \in Readers, CountRoot(s)
      PROVE  \/ reader'[r] = reader[r] /\ seen'[r] = seen[r]
             \/ /\ reader[r].pc = "count" /\ reader'[r].root = reader[r].root
                /\ seen'[r] = Content(reader[r].root)
  <2>1. CASE s = r
    BY <1>1, <1>6, <2>1 DEF CountRoot, ReaderTypes
  <2>2. CASE s # r
    BY <1>1, <1>6, <2>2 DEF CountRoot, ReaderTypes
  <2> QED
    BY <2>1, <2>2
<1>7. ASSUME NEW s \in Readers, Answer(s)
      PROVE  Open(r) /\ reader'[r].root = reader[r].root /\ seen'[r] = seen[r]
  <2>1. CASE s = r
    BY <1>1, <1>7, <2>1 DEF Answer, ReaderTypes, Open
  <2>2. CASE s # r
    BY <1>1, <1>7, <2>2 DEF Answer, ReaderTypes, Open
  <2> QED
    BY <2>1, <2>2
<1>8. ASSUME NEW s \in Readers, Close(s)
      PROVE  reader'[r] = reader[r] /\ seen'[r] = seen[r]
  <2>1. \A q \in Readers : q # s => reader'[q] = reader[q] /\ seen'[q] = seen[q]
    BY <1>1, <1>8 DEF Close, ReaderTypes
  <2>2. reader'[s].pc = "none"
    BY <1>1, <1>8 DEF Close, ReaderTypes, Away
  <2> QED
    BY <2>1, <2>2 DEF Open
<1>9. ASSUME NEW s \in Readers, NEW op \in ReadOps, FindRecord(s, op)
      PROVE  Open(r) /\ reader'[r].root = reader[r].root /\ seen'[r] = seen[r]
  <2>1. seen' = seen
    BY <1>9 DEF FindRecord, storeVars
  <2>2. CASE s = r
    <3>1. PICK b : Finding(s, op, b)
      BY DEF Finding
    <3> QED
      BY <1>9, <2>1, <2>2, <3>1, FindRecordFacts DEF Open
  <2>3. CASE s # r
    <3>1. PICK b : Finding(s, op, b)
      BY DEF Finding
    <3>2. reader'[r] = reader[r]
      BY <1>9, <2>3, <3>1, FindRecordFacts
    <3> QED
      BY <1>2, <2>1, <3>2
  <2> QED
    BY <2>2, <2>3
<1>10. ASSUME NEW t \in Threads, Drop(t)
       PROVE  reader'[r] = reader[r] /\ seen'[r] = seen[r]
  BY <1>10 DEF Drop, storeVars
<1>11. CASE UNCHANGED vars
  BY <1>2, <1>11 DEF vars, storeVars
<1> QED
  BY <1>2, <1>3, <1>4, <1>5, <1>6, <1>7, <1>8, <1>9, <1>10, <1>11 DEF Next

LEMMA SeenDomain ==
    ASSUME DOMAIN seen = Readers, [Next]_vars
    PROVE  DOMAIN seen' = Readers
<1>1. seen' = seen \/ \E r \in Readers : \E e : seen' = [seen EXCEPT ![r] = e]
  BY DEF Next, vars, storeVars, Begin, SetRoot, Enter, Descend, Build, Look, Put, Join, TakeRoot,
         CountRoot, Answer, Close, FindRecord, Drop
<1> QED
  BY <1>1

\* A snapshot keeps its edges: the writer changes in place only what is its own, so
\* what the edges of a snapshot were made of stays as it was (copy_if, inc_if, GC).
THEOREM SnapshotStaysAsTaken ==
    ASSUME Quiet
    PROVE  Spec => []SnapshotKept
<1>1. Init => DOMAIN seen = Readers /\ SnapshotKept
  <2>1. SUFFICES ASSUME Init
                 PROVE  DOMAIN seen = Readers /\ SnapshotKept
    OBVIOUS
  <2>2. \A r \in Readers : reader[r].pc = "none"
    BY <2>1 DEF Init, Away
  <2> QED
    BY <2>1, <2>2 DEF Init, SnapshotKept, Open
<1>2. HeapInv /\ HeapInv' /\ (DOMAIN seen = Readers /\ SnapshotKept) /\ [Next]_vars
         => (DOMAIN seen = Readers /\ SnapshotKept)'
  <2>1. SUFFICES ASSUME HeapInv, HeapInv', DOMAIN seen = Readers, SnapshotKept, [Next]_vars
                 PROVE  DOMAIN seen' = Readers /\ SnapshotKept'
    OBVIOUS
  <2>2. ASSUME NEW a \in Still
        PROVE  Content(a)' = Content(a)
    <3>1. HeapTypes'
      BY <2>1 DEF HeapInv, Types
    <3>2. \A x \in Still : Untouched(x)
      BY <2>1, StillUntouched
    <3> QED
      BY <2>1, <3>1, <3>2, ContentStays
  <2>3. ASSUME NEW r \in Readers, Open(r)'
        PROVE  Content(reader[r].root)' = seen'[r]
    <3>1. PICK a : a = reader[r].root
      OBVIOUS
    <3>2. /\ reader'[r].root = a
          /\ \/ Open(r) /\ seen'[r] = seen[r]
             \/ reader[r].pc = "count" /\ seen'[r] = Content(a)
      BY <2>1, <2>3, <3>1, OpenedOrCounted
    <3>3. Content(reader[r].root)' = Content(a)'
      BY <3>2 DEF Content
    <3>4. CASE Open(r) /\ seen'[r] = seen[r]
      <4>1. a \in Still
        BY <2>1, <3>1, <3>4, SnapshotStill
      <4>2. Content(a) = seen[r]
        BY <2>1, <3>1, <3>4 DEF SnapshotKept
      <4> QED
        BY <2>2, <3>3, <3>4, <4>1, <4>2
    <3>5. CASE reader[r].pc = "count" /\ seen'[r] = Content(a)
      <4>1. writer.pc = "idle" /\ a = root /\ writer.stack = <<>>
        BY <2>1, <3>1, <3>5 DEF HeapInv, Snapshots, Path
      <4>2. ~Built /\ Waiting = 0 /\ RootHeld
        BY <4>1 DEF Built, Waiting, RootHeld
      <4>3. a \in Still
        BY <2>1, <4>1, <4>2, RootFacts DEF Still, Opened
      <4> QED
        BY <2>2, <3>3, <3>5, <4>3
    <3> QED
      BY <3>2, <3>4, <3>5
  <2> QED
    BY <2>1, <2>3, SeenDomain DEF SnapshotKept
<1>3. Spec => []HeapInv
  BY HeapInvHolds
<1> QED
  BY <1>1, <1>2, <1>3, PTL DEF Spec

-----------------------------------------------------------------------------
(* Nothing that is walked is freed *)

LEMMA MadeFacts ==
    ASSUME HeapInv, writer.pc \in {"build", "join", "root"}, writer.made # Null
    PROVE  writer.made \in Nodes /\ Live(writer.made)
<1>1. writer.made \in Nodes
  BY Constants DEF HeapInv, Types, WriterTypes, Nodes
<1>2. MadePlace \in Places /\ Pointer[MadePlace] = NodeRef(writer.made)
  BY PlaceFacts, PointerAt DEF OfMade
<1> QED
  BY <1>1, <1>2, Held DEF HeapInv, Types

Deep(d) == {x \in Nodes : Live(x) /\ Depth[node[x].key] >= d}

\* Below the nodes whose link down is given up the tree is whole.
LEMMA DeepTree ==
    ASSUME HeapInv, NEW d \in Nat, \A x : Cut(x) => Depth[node[x].key] < d, NEW a \in Deep(d)
    PROVE  \A x \in TreeNodes(a) : Live(x)
<1>1. PICK links : links = [x \in DOMAIN node |-> Children(x)]
  OBVIOUS
<1>2. DOMAIN node = Nodes
  BY DEF HeapInv, Types, HeapTypes
<1>3. \A x \in Deep(d) : links[x] \subseteq Deep(d)
  <2>1. SUFFICES ASSUME NEW x \in Deep(d), NEW c \in Children(x)
                 PROVE  c \in Deep(d)
    BY <1>1, <1>2 DEF Deep
  <2>2. x \in Nodes /\ Live(x) /\ Depth[node[x].key] >= d
    BY DEF Deep
  <2>3. node[x].key \in Vertices /\ Depth[node[x].key] \in Int
    BY <2>2, TreeFacts DEF HeapInv, Shape, IsDepth
  <2>4. ~Cut(x)
    BY <2>2, <2>3
  <2>5. ~StaleLeft(x) /\ ~StaleRight(x)
    BY <2>4 DEF StaleLeft, StaleRight
  <2>6. c # Null /\ (c = node[x].lc \/ c = node[x].rc)
    BY DEF Children
  <2>7. /\ c \in Nodes /\ Live(c) /\ node[c].key \in {Left[node[x].key], Right[node[x].key]}
        /\ node[c].key \in Vertices
    BY <2>2, <2>5, <2>6, Links DEF HeapInv, Types
  <2>8. Depth[node[c].key] = Depth[node[x].key] + 1
    BY <2>3, <2>7, TreeFacts DEF IsDepth
  <2> QED
    BY <2>2, <2>3, <2>7, <2>8 DEF Deep
<1>4. Reach(links, a) \subseteq Deep(d)
  BY <1>3, ReachStays
<1> QED
  BY <1>1, <1>4 DEF TreeNodes, Deep

LEMMA DepthFacts ==
    /\ \A v \in Vertices : Depth[v] \in Int /\ Depth[v] >= 0
    /\ \A v, c \in Vertices : c \in {Left[v], Right[v], KeyDown(v)} => Depth[c] = Depth[v] + 1
<1>1. \A v \in Vertices : KeyDown(v) \in {Left[v], Right[v]}
  BY DEF KeyDown
<1> QED
  BY <1>1, TreeFacts DEF IsDepth

\* Where the writer does not hold a node with a stale link, all trees are whole.
LEMMA WholeTree ==
    ASSUME HeapInv, \A x : ~Cut(x), NEW a \in Nodes, Live(a)
    PROVE  \A x \in TreeNodes(a) : Live(x)
<1>1. a \in Deep(0)
  BY DepthFacts DEF HeapInv, Shape, Deep
<1> QED
  BY <1>1, DeepTree

LEMMA SnapshotTree ==
    ASSUME HeapInv, NEW r \in Readers, Open(r)
    PROVE  \A x \in TreeNodes(reader[r].root) : Live(x)
BY SnapshotStill, TreeStill DEF Still

WriterTrees ==
    CASE writer.pc = "idle"            -> {root}
      [] writer.pc = "enter"           -> {writer.at}
      [] writer.pc = "descend"         -> {Frame.a}
      [] writer.pc \in {"look", "put"} -> {}
      [] writer.pc = "join"            -> {writer.made} \ {Null}
      [] writer.pc = "root"            -> {writer.made}
      [] writer.pc = "build"           ->
           ({writer.made} \cup (IF Key < node[Frame.a].key THEN {} ELSE {node[Frame.a].lc})
                          \cup (IF node[Frame.a].key < Key THEN {} ELSE {node[Frame.a].rc}))
             \ {Null}

LEMMA WriterTreesAre ==
    /\ writer.pc = "idle" => WriterTrees = {root}
    /\ writer.pc = "enter" => WriterTrees = {writer.at}
    /\ writer.pc = "descend" => WriterTrees = {Frame.a}
    /\ writer.pc \in {"look", "put"} => WriterTrees = {}
    /\ writer.pc = "join" => WriterTrees = {writer.made} \ {Null}
    /\ writer.pc = "root" => WriterTrees = {writer.made}
    /\ writer.pc = "build" =>
          WriterTrees = ({writer.made}
              \cup (IF Key < node[Frame.a].key THEN {} ELSE {node[Frame.a].lc})
              \cup (IF node[Frame.a].key < Key THEN {} ELSE {node[Frame.a].rc})) \ {Null}
BY DEF WriterTrees

LEMMA WriterTreesLive ==
    ASSUME HeapInv, NEW a \in WriterTrees
    PROVE  \A x \in TreeNodes(a) : Live(x)
<1>1. /\ WriterTypes /\ HeapTypes /\ Shape /\ Tally
      /\ writer.pc \in {"idle", "enter", "descend", "build", "look", "put", "join", "root"}
  BY DEF HeapInv, Types, WriterTypes
<1>2. writer.pc \in {"idle", "enter", "descend", "root"} => ~Built /\ \A x : ~Cut(x)
  BY DEF Cut, Built
<1>3. CASE writer.pc = "idle"
  <2>1. a = root /\ Live(root) /\ root \in Nodes
    BY <1>2, <1>3, WriterTreesAre, RootFacts DEF RootHeld
  <2> QED
    BY <1>2, <1>3, <2>1, WholeTree
<1>4. CASE writer.pc = "enter"
  <2>1. a = writer.at /\ RootHeld
    BY <1>2, <1>4, WriterTreesAre DEF RootHeld
  <2>2. a \in Nodes /\ Live(a)
    <3>1. CASE Waiting = 0
      BY <1>4, <2>1, <3>1, RootFacts DEF HeapInv, Path
    <3>2. CASE Waiting # 0
      <4>1. Waiting = Len(writer.stack) /\ Waiting \in 1..Waiting /\ Frame = writer.stack[Waiting]
        BY <1>1, <1>2, <1>4, <3>2, StackFacts DEF Waiting
      <4>2. node[writer.stack[Waiting].a].key # Key /\ a = Down(writer.stack[Waiting].a)
        BY <1>4, <2>1, <3>2, <4>1 DEF HeapInv, Path
      <4> QED
        BY <1>2, <1>4, <4>1, <4>2, DownFacts
    <3> QED
      BY <3>1, <3>2
  <2> QED
    BY <1>2, <1>4, <2>2, WholeTree
<1>5. CASE writer.pc = "descend"
  <2>1. writer.stack # <<>>
    BY <1>5 DEF HeapInv, Path
  <2>2. Waiting = Len(writer.stack) /\ Waiting \in 1..Waiting /\ Frame = writer.stack[Waiting]
    BY <1>1, <1>2, <1>5, <2>1, StackFacts DEF Waiting
  <2>3. a \in Nodes /\ Live(a)
    BY <1>5, <2>2, FrameFacts, WriterTreesAre
  <2> QED
    BY <1>2, <1>5, <2>3, WholeTree
<1>6. CASE writer.pc \in {"look", "put"}
  BY <1>6, WriterTreesAre
<1>7. CASE writer.pc = "root"
  <2>1. a = writer.made /\ writer.made # Null
    BY <1>7, WriterTreesAre DEF HeapInv, Path
  <2>2. a \in Nodes /\ Live(a)
    BY <1>7, <2>1, MadeFacts
  <2> QED
    BY <1>2, <1>7, <2>2, WholeTree
<1>8. CASE writer.pc = "join"
  <2>1. Built /\ a = writer.made /\ writer.made # Null
    BY <1>8, WriterTreesAre DEF Built
  <2>2. PICK w : w = Waiting
    OBVIOUS
  <2>3. /\ w \in Nat /\ node[writer.at].key \in Vertices /\ Depth[node[writer.at].key] = w
    BY <2>1, <2>2, AtFacts
  <2>4. /\ a \in Nodes /\ Live(a) /\ node[a].key = KeyDown(node[writer.at].key)
        /\ node[a].key \in Vertices
    <3>1. a \in Nodes /\ Live(a)
      BY <1>8, <2>1, MadeFacts
    <3> QED
      BY <1>1, <2>1, <3>1 DEF HeapInv, Path, Shape
  <2>5. Depth[node[a].key] = w + 1
    BY <2>3, <2>4, DepthFacts
  <2>6. \A x : Cut(x) => Depth[node[x].key] < w + 1
    <3>1. SUFFICES ASSUME NEW x, Cut(x)
                   PROVE  Depth[node[x].key] < w + 1
      OBVIOUS
    <3>2. x = writer.at \/ (w > 0 /\ x = writer.stack[w].a)
      BY <1>8, <2>2, <3>1 DEF Cut
    <3>3. w > 0 /\ x = writer.stack[w].a => Depth[node[x].key] = w - 1
      BY <2>2, <2>3, FrameFacts
    <3> QED
      BY <2>3, <3>2, <3>3
  <2>7. w + 1 \in Nat /\ a \in Deep(w + 1)
    BY <2>3, <2>4, <2>5 DEF Deep
  <2> QED
    BY <2>6, <2>7, DeepTree
<1>9. CASE writer.pc = "build"
  <2>1. PICK n : n = Waiting
    OBVIOUS
  <2>2. PICK f : f = Frame.a
    OBVIOUS
  <2>3. ~Built /\ writer.stack # <<>>
    BY <1>9 DEF Built, HeapInv, Path
  <2>4. n = Len(writer.stack) /\ n \in 1..Waiting /\ n \in Nat /\ f = writer.stack[n].a
    BY <1>1, <2>1, <2>2, <2>3, StackFacts DEF Waiting
  <2>5. /\ f \in Nodes /\ Live(f) /\ node[f].key \in Vertices /\ Depth[node[f].key] = n - 1
        /\ Key \in Nat /\ node[f].key \in Nat
    BY <2>4, FrameFacts
  <2>6. \A x : Cut(x) => x = f
    BY <2>2, <2>3 DEF Cut
  <2>7. \/ a = writer.made /\ a # Null
        \/ a = node[f].lc /\ a # Null /\ ~(Key < node[f].key)
        \/ a = node[f].rc /\ a # Null /\ ~(node[f].key < Key)
    BY <1>9, <2>2, WriterTreesAre
  <2>8. /\ a \in Nodes /\ Live(a) /\ node[a].key \in Vertices
        /\ node[a].key \in {Left[node[f].key], Right[node[f].key], KeyDown(node[f].key)}
    <3>1. CASE a = writer.made /\ a # Null
      <4>1. a \in Nodes /\ Live(a)
        BY <1>9, <3>1, MadeFacts
      <4>2. KeyMade = KeyDown(node[f].key)
        BY <2>1, <2>4 DEF KeyMade
      <4>3. node[a].key = KeyDown(node[f].key)
        BY <1>9, <3>1, <4>2 DEF HeapInv, Path
      <4> QED
        BY <1>1, <4>1, <4>3 DEF Shape
    <3>2. CASE a = node[f].lc /\ a # Null /\ ~(Key < node[f].key)
      <4>1. ~StaleLeft(f)
        BY <3>2 DEF StaleLeft
      <4> QED
        BY <1>1, <2>5, <3>2, <4>1, Links
    <3>3. CASE a = node[f].rc /\ a # Null /\ ~(node[f].key < Key)
      <4>1. ~StaleRight(f)
        BY <3>3 DEF StaleRight
      <4> QED
        BY <1>1, <2>5, <3>3, <4>1, Links
    <3> QED
      BY <2>7, <3>1, <3>2, <3>3
  <2>9. Depth[node[a].key] = n
    <3>1. Depth[node[a].key] = Depth[node[f].key] + 1
      BY <2>5, <2>8, DepthFacts
    <3> QED
      BY <2>4, <2>5, <3>1
  <2>10. a \in Deep(n) /\ \A x : Cut(x) => Depth[node[x].key] < n
    <3>1. Depth[node[a].key] >= n
      BY <2>4, <2>9
    <3>2. \A x : Cut(x) => Depth[node[x].key] < n
      BY <2>4, <2>5, <2>6
    <3> QED
      BY <2>8, <3>1, <3>2 DEF Deep
  <2> QED
    BY <2>4, <2>10, DeepTree
<1> QED
  BY <1>1, <1>3, <1>4, <1>5, <1>6, <1>7, <1>8, <1>9

LEMMA HeldNodesLive ==
    ASSUME HeapInv
    PROVE  NothingDangling
<1>1. ASSUME NEW x, Live(x)
      PROVE  node[x].ref > 0 /\ block[node[x].nb].ref > 0
  <2>1. x \in Nodes
    BY <1>1 DEF Live
  <2> QED
    BY <1>1, <2>1, Links DEF HeapInv, Types, Live
<1>2. HeldTrees = {reader[r].root : r \in {r \in Readers : Open(r)}} \cup WriterTrees
  BY DEF HeldTrees, WriterTrees
<1>3. ASSUME NEW a \in HeldTrees
      PROVE  \A x \in TreeNodes(a) : Live(x)
  <2>1. CASE a \in WriterTrees
    BY <2>1, WriterTreesLive
  <2>2. CASE \E r \in Readers : Open(r) /\ a = reader[r].root
    BY <2>2, SnapshotTree
  <2> QED
    BY <1>2, <2>1, <2>2
<1>4. ASSUME NEW i \in DOMAIN writer.stack,
             i < Len(writer.stack) \/ writer.pc \notin {"look", "put", "join"}
      PROVE  Live(writer.stack[i].a)
  <2>1. Len(writer.stack) \in Nat /\ i \in 1..Len(writer.stack)
    BY StackFacts, ItemsOf DEF HeapInv, Types
  <2>2. i \in 1..Waiting
    BY <1>4, <2>1 DEF Waiting, Built
  <2> QED
    BY <2>2, FrameFacts
<1>5. writer.pc \in {"look", "put", "join"} => Live(writer.at)
  BY AtFacts DEF Built
<1>6. \A x \in HeldNodes : Live(x)
  <2>1. SUFFICES ASSUME NEW x \in HeldNodes
                 PROVE  Live(x)
    OBVIOUS
  <2>2. \/ \E a \in HeldTrees : x \in TreeNodes(a)
        \/ \E i \in DOMAIN writer.stack :
              /\ i < Len(writer.stack) \/ writer.pc \notin {"look", "put", "join"}
              /\ x = writer.stack[i].a
        \/ writer.pc \in {"look", "put", "join"} /\ x = writer.at
    <3> DEFINE frames == {i \in DOMAIN writer.stack :
                             i < Len(writer.stack) \/ writer.pc \notin {"look", "put", "join"}}
               A == UNION {TreeNodes(a) : a \in HeldTrees}
               B == {writer.stack[i].a : i \in frames}
               C == IF writer.pc \in {"look", "put", "join"} THEN {writer.at} ELSE {}
    <3>1. HeldNodes = A \cup B \cup C
      BY DEF HeldNodes
    <3>2. x \in A => \E a \in HeldTrees : x \in TreeNodes(a)
      OBVIOUS
    <3>3. x \in B => \E i \in DOMAIN writer.stack :
                         /\ i < Len(writer.stack) \/ writer.pc \notin {"look", "put", "join"}
                         /\ x = writer.stack[i].a
      OBVIOUS
    <3>4. x \in C => writer.pc \in {"look", "put", "join"} /\ x = writer.at
      OBVIOUS
    <3> HIDE DEF A, B, C
    <3> QED
      BY <3>1, <3>2, <3>3, <3>4
  <2>3. CASE \E a \in HeldTrees : x \in TreeNodes(a)
    BY <1>3, <2>3
  <2>4. CASE \E i \in DOMAIN writer.stack :
                /\ i < Len(writer.stack) \/ writer.pc \notin {"look", "put", "join"}
                /\ x = writer.stack[i].a
    BY <1>4, <2>4
  <2>5. CASE writer.pc \in {"look", "put", "join"} /\ x = writer.at
    BY <1>5, <2>5
  <2> QED
    BY <2>2, <2>3, <2>4, <2>5
<1>7. ASSUME NEW r \in Readers, reader[r].pc = "read"
      PROVE  block[reader[r].pin].ref > 0
  <2>1. reader[r].pin \in Blocks
    BY <1>7, Constants DEF HeapInv, Types, ReaderTypes, Snapshots, Blocks
  <2>2. PinPlace(r) \in Places /\ Pointer[PinPlace(r)] = BlockRef(reader[r].pin)
    BY <1>7, PlaceFacts, PointerAt DEF OfPin
  <2> QED
    BY <2>1, <2>2, Held DEF HeapInv, Types
<1> QED
  BY <1>1, <1>6, <1>7 DEF NothingDangling

\* No release frees (decrement_recursive, at the last count) what the writer, or a reader
\* through the root of its snapshot or with a record in its hands, is about to walk.  The
\* reads of a snapshot that walk the live index uncounted are not in the module.
THEOREM NothingWalkedIsFreed ==
    ASSUME Quiet
    PROVE  Spec => []NothingDangling
<1>1. HeapInv => NothingDangling
  BY HeldNodesLive
<1>2. Spec => []HeapInv
  BY HeapInvHolds
<1> QED
  BY <1>1, <1>2, PTL

-----------------------------------------------------------------------------
(* At rest the counts are exact *)

AtRest == /\ writer.pc = "idle"
          /\ \A t \in Threads : dropping[t] = <<>>
          /\ \A r \in Readers : reader[r].pc \in {"none", "open"}

LEMMA SameNumber ==
    ASSUME NEW H, IsFiniteSet(H), NEW T, NEW f, f = [p \in H |-> f[p]],
           \A p \in H : f[p] \in T, \A p, q \in H : f[p] = f[q] => p = q,
           \A t \in T : \E p \in H : f[p] = t
    PROVE  IsFiniteSet(T) /\ Cardinality(T) = Cardinality(H) /\ Cardinality(H) \in Nat
<1>1. f \in [H -> T]
  OBVIOUS
<1>2. f \in Bijection(H, T)
  BY <1>1 DEF Bijection, Injection, Surjection, IsInjective
<1> QED
  BY <1>2, FS_Bijection, FS_CardinalityType DEF ExistsBijection

\* What holds a node or a block when no thread is on its way.
RestHolds(p, x) ==
    \/ p = RootPlace /\ x = root
    \/ \E r \in Readers : p = SnapshotPlace(r) /\ Open(r) /\ x = reader[r].root
    \/ \E y \in Nodes : /\ Live(y)
                        /\ \/ p = LeftLink(y) /\ x = node[y].lc
                           \/ p = RightLink(y) /\ x = node[y].rc

LEMMA RestFacts ==
    ASSUME HeapInv, AtRest
    PROVE  /\ ~Built /\ Waiting = 0 /\ RootHeld /\ (\A x : ~Cut(x))
           /\ \A x : ~StaleLeft(x) /\ ~StaleRight(x)
           /\ \A r \in Readers : reader[r].pc # "read"
<1>1. writer.pc = "idle" /\ writer.stack = <<>>
  BY DEF AtRest, HeapInv, Path
<1>2. ~Built /\ Waiting = 0 /\ RootHeld
  BY <1>1 DEF Built, Waiting, RootHeld
<1>3. \A x : ~Cut(x)
  BY <1>1, <1>2 DEF Cut
<1> QED
  BY <1>2, <1>3 DEF StaleLeft, StaleRight, AtRest

LEMMA RestPlaces ==
    ASSUME HeapInv, AtRest, NEW p \in Places
    PROVE  /\ \A x \in Nodes : Pointer[p] = NodeRef(x) <=> RestHolds(p, x)
           /\ \A b \in Blocks : Pointer[p] = BlockRef(b) <=>
                 \E y \in Nodes : Live(y) /\ p = RecordLink(y) /\ b = node[y].nb
<1>1. /\ ~Built /\ Waiting = 0 /\ RootHeld /\ (\A x : ~StaleLeft(x) /\ ~StaleRight(x))
      /\ \A r \in Readers : reader[r].pc # "read"
      /\ writer.pc = "idle" /\ \A t \in Threads : dropping[t] = <<>>
  BY RestFacts DEF AtRest
<1>2. /\ \A x \in Nodes : Nothing # NodeRef(x)
      /\ \A b \in Blocks : Nothing # BlockRef(b)
      /\ \A x, y : NodeRef(x) # BlockRef(y)
      /\ \A x, y : NodeRef(x) = NodeRef(y) <=> x = y
      /\ \A x, y : BlockRef(x) = BlockRef(y) <=> x = y
  BY RefFacts
<1>3. ASSUME NEW z \in Nodes, p = LeftLink(z)
      PROVE  /\ Pointer[p] = IF Live(z) THEN NodeRef(node[z].lc) ELSE Nothing
             /\ \A x \in Nodes : RestHolds(p, x) <=> Live(z) /\ x = node[z].lc
             /\ \A y : p # RecordLink(y)
  <2>1. Pointer[p] = IF Live(z) THEN NodeRef(node[z].lc) ELSE Nothing
    BY <1>1, <1>3, PointerAt DEF LeftOf
  <2>2. /\ p # RootPlace /\ \A r : p # SnapshotPlace(r)
        /\ \A y : p # RightLink(y) /\ p # RecordLink(y)
        /\ \A y : p = LeftLink(y) => y = z
    BY <1>3, PlacesDiffer
  <2>3. \A x \in Nodes : RestHolds(p, x) <=> Live(z) /\ x = node[z].lc
    BY <1>3, <2>2 DEF RestHolds
  <2> QED
    BY <2>1, <2>2, <2>3
<1>4. ASSUME NEW z \in Nodes, p = RightLink(z)
      PROVE  /\ Pointer[p] = IF Live(z) THEN NodeRef(node[z].rc) ELSE Nothing
             /\ \A x \in Nodes : RestHolds(p, x) <=> Live(z) /\ x = node[z].rc
             /\ \A y : p # RecordLink(y)
  <2>1. Pointer[p] = IF Live(z) THEN NodeRef(node[z].rc) ELSE Nothing
    BY <1>1, <1>4, PointerAt DEF RightOf
  <2>2. /\ p # RootPlace /\ \A r : p # SnapshotPlace(r)
        /\ \A y : p # LeftLink(y) /\ p # RecordLink(y)
        /\ \A y : p = RightLink(y) => y = z
    BY <1>4, PlacesDiffer
  <2>3. \A x \in Nodes : RestHolds(p, x) <=> Live(z) /\ x = node[z].rc
    BY <1>4, <2>2 DEF RestHolds
  <2> QED
    BY <2>1, <2>2, <2>3
<1>5. ASSUME NEW z \in Nodes, p = RecordLink(z)
      PROVE  /\ Pointer[p] = IF Live(z) THEN BlockRef(node[z].nb) ELSE Nothing
             /\ \A x : ~RestHolds(p, x)
             /\ \A b : (\E y \in Nodes : Live(y) /\ p = RecordLink(y) /\ b = node[y].nb)
                          <=> Live(z) /\ b = node[z].nb
  <2>1. Pointer[p] = IF Live(z) THEN BlockRef(node[z].nb) ELSE Nothing
    BY <1>1, <1>5, PointerAt DEF RecordOf
  <2>2. /\ p # RootPlace /\ \A r : p # SnapshotPlace(r)
        /\ \A y : p # LeftLink(y) /\ p # RightLink(y)
        /\ \A y : p = RecordLink(y) => y = z
    BY <1>5, PlacesDiffer
  <2>3. \A x : ~RestHolds(p, x)
    BY <2>2 DEF RestHolds
  <2> QED
    BY <1>5, <2>1, <2>2, <2>3
<1>6. ASSUME p = RootPlace
      PROVE  /\ Pointer[p] = NodeRef(root) /\ \A x \in Nodes : RestHolds(p, x) <=> x = root
             /\ \A y : p # RecordLink(y)
  <2>1. Pointer[p] = NodeRef(root)
    BY <1>1, <1>6, PointerAt DEF OfRoot
  <2>2. /\ \A r : p # SnapshotPlace(r)
        /\ \A y : p # LeftLink(y) /\ p # RightLink(y) /\ p # RecordLink(y)
    BY <1>6, PlacesDiffer
  <2>3. \A x \in Nodes : RestHolds(p, x) <=> x = root
    BY <1>6, <2>2 DEF RestHolds
  <2> QED
    BY <2>1, <2>2, <2>3
<1>7. ASSUME NEW s \in Readers, p = SnapshotPlace(s)
      PROVE  /\ Pointer[p] = IF Open(s) THEN NodeRef(reader[s].root) ELSE Nothing
             /\ \A x \in Nodes : RestHolds(p, x) <=> Open(s) /\ x = reader[s].root
             /\ \A y : p # RecordLink(y)
  <2>1. Pointer[p] = IF Open(s) THEN NodeRef(reader[s].root) ELSE Nothing
    BY <1>7, PointerAt DEF OfSnapshot
  <2>2. /\ p # RootPlace /\ \A r : p = SnapshotPlace(r) => r = s
        /\ \A y : p # LeftLink(y) /\ p # RightLink(y) /\ p # RecordLink(y)
    BY <1>7, PlacesDiffer
  <2>3. \A x \in Nodes : RestHolds(p, x) <=> Open(s) /\ x = reader[s].root
    BY <1>7, <2>2 DEF RestHolds
  <2> QED
    BY <2>1, <2>2, <2>3
<1>8. ASSUME \/ \E i \in Nat : p \in {LeftKept(i), RightKept(i)}
             \/ p \in {AtPlace, MadePlace}
             \/ \E r \in Readers : p = PinPlace(r)
             \/ \E t \in Threads, j \in Nat : p = DropPlace(t, j)
      PROVE  /\ Pointer[p] = Nothing /\ (\A x : ~RestHolds(p, x)) /\ (\A y : p # RecordLink(y))
  <2>1. Pointer[p] = Nothing
    <3>1. CASE \E i \in Nat : p \in {LeftKept(i), RightKept(i)}
      <4>1. \A i : ~Keeps(i)
        BY <1>1 DEF Keeps
      <4> QED
        BY <3>1, <4>1, PointerAt DEF KeptLeft, KeptRight
    <3>2. CASE p \in {AtPlace, MadePlace}
      BY <1>1, <3>2, PointerAt DEF OfAt, OfMade
    <3>3. CASE \E r \in Readers : p = PinPlace(r)
      BY <1>1, <3>3, PointerAt DEF OfPin
    <3>4. CASE \E t \in Threads, j \in Nat : p = DropPlace(t, j)
      <4>1. PICK t \in Threads, j \in Nat : p = DropPlace(t, j)
        BY <3>4
      <4>2. dropping[t] = <<>>
        BY <1>1
      <4>3. OfDropping(t, j) = Nothing
        BY <4>2 DEF OfDropping
      <4> QED
        BY <4>1, <4>3, PointerAt
    <3> QED
      BY <1>8, <3>1, <3>2, <3>3, <3>4
  <2>2. /\ p # RootPlace /\ \A r : p # SnapshotPlace(r)
        /\ \A y : p # LeftLink(y) /\ p # RightLink(y) /\ p # RecordLink(y)
    BY <1>8, PlacesDiffer
  <2> QED
    BY <2>1, <2>2 DEF RestHolds
<1>9. CASE \E z \in Nodes : p = LeftLink(z)
  BY <1>2, <1>3, <1>9
<1>10. CASE \E z \in Nodes : p = RightLink(z)
  BY <1>2, <1>4, <1>10
<1>11. CASE \E z \in Nodes : p = RecordLink(z)
  BY <1>2, <1>5, <1>11
<1>12. CASE p = RootPlace
  BY <1>2, <1>6, <1>12
<1>13. CASE \E r \in Readers : p = SnapshotPlace(r)
  BY <1>2, <1>7, <1>13
<1>14. CASE \/ \E i \in Nat : p \in {LeftKept(i), RightKept(i)}
            \/ p \in {AtPlace, MadePlace}
            \/ \E r \in Readers : p = PinPlace(r)
            \/ \E t \in Threads, j \in Nat : p = DropPlace(t, j)
  BY <1>2, <1>8, <1>14
<1> QED
  BY <1>9, <1>10, <1>11, <1>12, <1>13, <1>14, PlaceCases

Used == UNION {TreeNodes(x) : x \in HeldTrees}

\* At rest no node is lost: each one that is counted is in the tree of a root.
LEMMA UsedLive ==
    ASSUME HeapInv, AtRest
    PROVE  Used = {x \in Nodes : Live(x)}
<1>1. WriterTrees = {root}
  BY WriterTreesAre DEF AtRest
<1>2. HeldTrees = {reader[r].root : r \in {r \in Readers : Open(r)}} \cup WriterTrees
  BY DEF HeldTrees, WriterTrees
<1>3. /\ root \in HeldTrees
      /\ \A r \in Readers : Open(r) => reader[r].root \in HeldTrees
      /\ \A a \in HeldTrees : a \in WriterTrees \/ \E r \in Readers : Open(r) /\ a = reader[r].root
  BY <1>1, <1>2
<1>4. ASSUME NEW a \in HeldTrees, NEW x \in TreeNodes(a)
      PROVE  Live(x)
  BY <1>3, <1>4, WriterTreesLive, SnapshotTree
<1>5. PICK N : N = Cardinality(Vertices)
  OBVIOUS
<1>6. N \in Nat /\ \A v \in Vertices : Depth[v] \in 0..N
  BY <1>5, Constants, TreeFacts DEF IsDepth
<1>7. PICK links : links = [x \in DOMAIN node |-> Children(x)]
  OBVIOUS
<1> DEFINE W(a) == CHOOSE g : Spreads(g, links, a, N) /\ Reach(links, a) = g[N]
<1>8. \A a : Spreads(W(a), links, a, N) /\ Reach(links, a) = W(a)[N]
  BY <1>5, ReachIs
<1> HIDE DEF W
<1>9. ASSUME NEW a
      PROVE  /\ W(a)[0] = {a}
             /\ \A n \in 1..N : \A x \in W(a)[n-1] : links[x] \subseteq W(a)[n]
             /\ \A n \in 0..N : W(a)[n] \subseteq TreeNodes(a)
  <2>1. Spreads(W(a), links, a, N) /\ TreeNodes(a) = W(a)[N]
    BY <1>7, <1>8 DEF TreeNodes
  <2>2. /\ W(a)[0] = {a}
        /\ \A n \in 1..N : W(a)[n-1] \subseteq W(a)[n] /\ \A x \in W(a)[n-1] : links[x] \subseteq W(a)[n]
        /\ \A n \in 0..N : W(a)[n] \subseteq W(a)[N]
    <3>1. PICK g : g = W(a)
      OBVIOUS
    <3>2. Spreads(g, links, a, N)
      BY <2>1, <3>1
    <3>3. g[0] = {a} /\ \A n \in 0..N : g[n] \subseteq g[N]
      BY ONLY <1>6, <3>2, SpreadFacts
    <3>4. \A n \in 1..N : g[n-1] \subseteq g[n] /\ \A x \in g[n-1] : links[x] \subseteq g[n]
      <4>1. N \in Nat
        BY <1>6
      <4>2. \A n \in 1..N : g[n] = g[n-1] \cup UNION {links[x] : x \in g[n-1]}
        <5>1. Levels(g, links, N)
          BY ONLY <4>1, <3>2, SpreadFacts
        <5>2. ASSUME NEW n \in 1..N
              PROVE  n \in 0..N /\ n # 0
          BY ONLY <4>1, <5>2
        <5> QED
          BY ONLY <5>1, <5>2 DEF Levels
      <4> QED
        BY ONLY <4>2
    <3> QED
      BY <3>1, <3>3, <3>4
  <2> QED
    BY <2>1, <2>2
\* A node hangs under a root or under a node that is one level up.
<1>10. ASSUME NEW x \in Nodes, Live(x)
       PROVE  \/ x \in HeldTrees /\ node[x].key = RootVertex
              \/ \E y \in Nodes : /\ Live(y) /\ x \in Children(y)
                                  /\ Depth[node[x].key] = Depth[node[y].key] + 1
  <2>1. \E p \in Places : Pointer[p] = NodeRef(x)
    <3>1. NodeRef(x) \in Refs /\ Count[NodeRef(x)] \in Nat /\ Count[NodeRef(x)] > 0
      BY <1>10, RefFacts, CountAt DEF HeapInv, Types, Live
    <3> QED
      BY <3>1, HeldCounts DEF HeapInv, Tally
  <2>2. PICK p \in Places : RestHolds(p, x)
    BY <2>1, RestPlaces
  <2>3. CASE x = root
    BY <1>3, <2>3, RestFacts, RootFacts
  <2>4. CASE \E r \in Readers : Open(r) /\ x = reader[r].root
    BY <1>3, <2>4 DEF HeapInv, Snapshots
  <2>5. CASE \E y \in Nodes : Live(y) /\ (x = node[y].lc \/ x = node[y].rc)
    <3>1. PICK y \in Nodes : Live(y) /\ (x = node[y].lc \/ x = node[y].rc)
      BY <2>5
    <3>2. x # Null /\ ~StaleLeft(y) /\ ~StaleRight(y)
      BY RestFacts, Constants DEF Nodes
    <3>3. /\ node[y].key \in Vertices /\ node[x].key \in Vertices
          /\ node[x].key \in {Left[node[y].key], Right[node[y].key]}
      BY <3>1, <3>2, Links DEF HeapInv, Types
    <3>4. Depth[node[x].key] = Depth[node[y].key] + 1
      BY <3>3, DepthFacts
    <3> QED
      BY <3>1, <3>2, <3>4 DEF Children
  <2> QED
    BY <2>2, <2>3, <2>4, <2>5 DEF RestHolds
<1> DEFINE S == {n \in 0..N : \A x \in Nodes : Live(x) /\ Depth[node[x].key] = n =>
                                 \E a \in HeldTrees : x \in W(a)[n]}
<1>11. 0 \in S
  <2>1. SUFFICES ASSUME NEW x \in Nodes, Live(x), Depth[node[x].key] = 0
                 PROVE  \E a \in HeldTrees : x \in W(a)[0]
    BY <1>6
  <2>2. \A y \in Nodes : Live(y) => Depth[node[y].key] \in Int /\ Depth[node[y].key] >= 0
    BY DepthFacts DEF HeapInv, Shape
  <2>3. x \in HeldTrees
    BY <1>10, <2>1, <2>2
  <2> QED
    BY <1>9, <2>3
<1>12. \A n \in 1..N : n - 1 \in S => n \in S
  <2>1. SUFFICES ASSUME NEW n \in 1..N, n - 1 \in S,
                        NEW x \in Nodes, Live(x), Depth[node[x].key] = n
                 PROVE  \E a \in HeldTrees : x \in W(a)[n]
    BY <1>6
  <2>2. node[x].key # RootVertex
    <3>1. n # 0
      BY <1>6
    <3> QED
      BY <2>1, <3>1, BelowRoot
  <2>3. PICK y \in Nodes : /\ Live(y) /\ x \in Children(y)
                           /\ Depth[node[x].key] = Depth[node[y].key] + 1
    BY <1>10, <2>1, <2>2
  <2>4. Depth[node[y].key] = n - 1
    <3>1. Depth[node[y].key] \in Int
      BY <2>3, DepthFacts DEF HeapInv, Shape
    <3> QED
      BY <1>6, <2>1, <2>3, <3>1
  <2>5. PICK a \in HeldTrees : y \in W(a)[n-1]
    BY <2>1, <2>3, <2>4
  <2>6. links[y] = Children(y)
    BY <1>7, <2>3 DEF HeapInv, Types, HeapTypes
  <2>7. links[y] \subseteq W(a)[n]
    BY <1>9, <2>5
  <2> QED
    BY <2>3, <2>5, <2>6, <2>7
<1>13. \A n \in 0..N : n \in S
  <2> HIDE DEF S
  <2> QED
    BY ONLY <1>6, <1>11, <1>12, UpTo
<1>14. ASSUME NEW x \in Nodes, Live(x)
       PROVE  \E a \in HeldTrees : x \in TreeNodes(a)
  <2>1. PICK n : n = Depth[node[x].key]
    OBVIOUS
  <2>2. n \in 0..N
    BY <1>6, <1>14, <2>1 DEF HeapInv, Shape
  <2>3. PICK a \in HeldTrees : x \in W(a)[n]
    BY <1>13, <1>14, <2>1, <2>2
  <2> QED
    BY <1>9, <2>2, <2>3
<1> QED
  BY <1>4, <1>14 DEF Used, Live

\* The places of one kind are as many as what they belong to.
LEMMA NodesHeldAtRest ==
    ASSUME HeapInv, AtRest, NEW a \in Nodes
    PROVE  node[a].ref = (IF root = a THEN 1 ELSE 0)
                         + Cardinality({r \in Readers : reader[r].root = a})
                         + Cardinality({x \in Used : a \in Children(x)})
<1> DEFINE H == Holding(Pointer, NodeRef(a))
           R == {r \in Readers : reader[r].root = a}
           X == {x \in Used : a \in Children(x)}
           H1 == {p \in H : p = RootPlace}
           H2 == {p \in H : \E r \in Readers : p = SnapshotPlace(r)}
           H3 == {p \in H : \E y \in Nodes : p \in {LeftLink(y), RightLink(y)}}
<1>1. IsFiniteSet(H) /\ node[a].ref = Cardinality(H)
  <2>1. NodeRef(a) \in Refs /\ Count[NodeRef(a)] = node[a].ref
    BY RefFacts, CountAt DEF HeapInv, Types
  <2> QED
    BY <2>1 DEF HeapInv, Tally, Counts
<1>2. \A p : p \in H <=> p \in Places /\ RestHolds(p, a)
  BY RestPlaces DEF Holding
<1>3. a # Null
  BY Constants DEF Nodes
<1>4. /\ RootPlace \in Places /\ \A r \in Readers : SnapshotPlace(r) \in Places
      /\ \A y \in Nodes : LeftLink(y) \in Places /\ RightLink(y) \in Places
  BY PlaceFacts
<1>5. /\ \A r, y : /\ RootPlace # SnapshotPlace(r) /\ RootPlace \notin {LeftLink(y), RightLink(y)}
                   /\ SnapshotPlace(r) \notin {LeftLink(y), RightLink(y)}
      /\ \A y, z : LeftLink(y) # RightLink(z)
  BY PlacesDiffer
<1>6. /\ H = H1 \cup (H2 \cup H3) /\ H1 \cap (H2 \cup H3) = {} /\ H2 \cap H3 = {}
      /\ H1 \subseteq H /\ H2 \subseteq H /\ H3 \subseteq H
  <2>1. ASSUME NEW p \in H
        PROVE  p \in H1 \/ p \in H2 \/ p \in H3
    <3>1. RestHolds(p, a)
      BY <1>2
    <3> QED
      BY <3>1 DEF RestHolds
  <2>2. H1 \cap (H2 \cup H3) = {} /\ H2 \cap H3 = {}
    BY <1>5
  <2> QED
    BY <2>1, <2>2
<1>7. Cardinality(H1) = (IF root = a THEN 1 ELSE 0)
  <2>1. CASE root = a
    <3>1. RootPlace \in H
      BY <1>2, <1>4, <2>1 DEF RestHolds
    <3>2. H1 = {RootPlace}
      BY <3>1
    <3> QED
      BY <2>1, <3>2, FS_Singleton
  <2>2. CASE root # a
    <3>1. RootPlace \notin H
      BY <1>2, <1>5, <2>2 DEF RestHolds
    <3>2. H1 = {}
      BY <3>1
    <3> QED
      BY <2>2, <3>2, FS_EmptySet
  <2> QED
    BY <2>1, <2>2
<1>8. IsFiniteSet(H1) /\ IsFiniteSet(H2) /\ IsFiniteSet(H3)
  BY <1>1, <1>6, FS_Subset
<1>9. Cardinality(R) = Cardinality(H2)
  <2> DEFINE f == [p \in H2 |-> p[2]]
  <2>1. \A r \in Readers : SnapshotPlace(r)[2] = r
    BY DEF SnapshotPlace
  <2>2. \A r \in Readers : SnapshotPlace(r) \in H <=> Open(r) /\ a = reader[r].root
    <3>1. ASSUME NEW r \in Readers
          PROVE  RestHolds(SnapshotPlace(r), a) <=> Open(r) /\ a = reader[r].root
      <4>1. \A s : SnapshotPlace(r) = SnapshotPlace(s) => r = s
        BY PlacesDiffer
      <4> QED
        BY <1>5, <4>1 DEF RestHolds
    <3> QED
      BY <1>2, <1>4, <3>1
  <2>3. \A r \in Readers : reader[r].root = a => Open(r)
    BY <1>3 DEF HeapInv, Snapshots, AtRest, Open
  <2>4. \A p \in H2 : f[p] \in R
    BY <2>1, <2>2
  <2>5. \A p, q \in H2 : f[p] = f[q] => p = q
    BY <2>1
  <2>6. \A r \in R : \E p \in H2 : f[p] = r
    BY <2>1, <2>2, <2>3
  <2>7. f = [p \in H2 |-> f[p]]
    OBVIOUS
  <2> HIDE DEF f, R, H2
  <2> QED
    BY <1>8, <2>4, <2>5, <2>6, <2>7, SameNumber
<1>10. Cardinality(X) = Cardinality(H3)
  <2> DEFINE f == [p \in H3 |-> p[2]]
  <2>1. \A y \in Nodes : LeftLink(y)[2] = y /\ RightLink(y)[2] = y
    BY DEF LeftLink, RightLink
  <2>2. \A y \in Nodes : /\ LeftLink(y) \in H <=> Live(y) /\ a = node[y].lc
                         /\ RightLink(y) \in H <=> Live(y) /\ a = node[y].rc
    <3>1. ASSUME NEW y \in Nodes
          PROVE  /\ RestHolds(LeftLink(y), a) <=> Live(y) /\ a = node[y].lc
                 /\ RestHolds(RightLink(y), a) <=> Live(y) /\ a = node[y].rc
      <4>1. \A z : /\ LeftLink(y) = LeftLink(z) => y = z
                   /\ RightLink(y) = RightLink(z) => y = z
        BY PlacesDiffer
      <4> QED
        BY <1>5, <4>1 DEF RestHolds
    <3> QED
      BY <1>2, <1>4, <3>1
  <2>3. \A y \in Nodes : Live(y) => ~(a = node[y].lc /\ a = node[y].rc)
    BY <1>3, RestFacts, Links DEF HeapInv, Types
  <2>4. \A x : x \in X <=> x \in Nodes /\ Live(x) /\ (a = node[x].lc \/ a = node[x].rc)
    BY <1>3, UsedLive DEF Children
  <2>5. ASSUME NEW p \in H3
        PROVE  /\ p[2] \in Nodes /\ Live(p[2])
               /\ \/ p = LeftLink(p[2]) /\ a = node[p[2]].lc
                  \/ p = RightLink(p[2]) /\ a = node[p[2]].rc
    <3>1. PICK y \in Nodes : p \in H /\ p \in {LeftLink(y), RightLink(y)}
      OBVIOUS
    <3>2. p[2] = y
      BY <2>1, <3>1
    <3> QED
      BY <2>2, <3>1, <3>2
  <2>6. \A p \in H3 : f[p] \in X
    BY <2>4, <2>5
  <2>7. \A p, q \in H3 : f[p] = f[q] => p = q
    <3>1. SUFFICES ASSUME NEW p \in H3, NEW q \in H3, p[2] = q[2]
                   PROVE  p = q
      OBVIOUS
    <3>2. PICK y : y = p[2]
      OBVIOUS
    <3>3. /\ y \in Nodes /\ Live(y)
          /\ \/ p = LeftLink(y) /\ a = node[y].lc
             \/ p = RightLink(y) /\ a = node[y].rc
      BY <2>5, <3>2
    <3>4. \/ q = LeftLink(y) /\ a = node[y].lc
          \/ q = RightLink(y) /\ a = node[y].rc
      BY <2>5, <3>1, <3>2
    <3> QED
      BY <2>3, <3>3, <3>4
  <2>8. ASSUME NEW x \in X
        PROVE  \E p \in H3 : f[p] = x
    <3>1. x \in Nodes /\ Live(x) /\ (a = node[x].lc \/ a = node[x].rc)
      BY <2>4
    <3>2. CASE a = node[x].lc
      BY <2>1, <2>2, <3>1, <3>2
    <3>3. CASE a = node[x].rc
      BY <2>1, <2>2, <3>1, <3>3
    <3> QED
      BY <3>1, <3>2, <3>3
  <2>9. f = [p \in H3 |-> f[p]]
    OBVIOUS
  <2> HIDE DEF f, X, H3
  <2> QED
    BY <1>8, <2>6, <2>7, <2>8, <2>9, SameNumber
<1> HIDE DEF H, H1, H2, H3, R, X
<1>11. Cardinality(H) = Cardinality(H1) + Cardinality(H2) + Cardinality(H3)
  <2>1. /\ Cardinality(H1) \in Nat /\ Cardinality(H2) \in Nat /\ Cardinality(H3) \in Nat
        /\ Cardinality({}) = 0
    BY <1>8, FS_CardinalityType, FS_EmptySet
  <2>2. IsFiniteSet(H2 \cup H3) /\ Cardinality(H2 \cup H3) = Cardinality(H2) + Cardinality(H3)
    <3>1. /\ IsFiniteSet(H2 \cup H3)
          /\ Cardinality(H2 \cup H3) = Cardinality(H2) + Cardinality(H3) - Cardinality(H2 \cap H3)
      BY <1>8, FS_Union
    <3>2. Cardinality(H2 \cap H3) = 0
      BY <1>6, <2>1
    <3>3. PICK m, n \in Nat : m = Cardinality(H2) /\ n = Cardinality(H3)
      BY <2>1
    <3>4. m + n - 0 = m + n
      BY ONLY <3>3
    <3> QED
      BY <3>1, <3>2, <3>3, <3>4
  <2>3. Cardinality(H1 \cup (H2 \cup H3)) =
           Cardinality(H1) + Cardinality(H2 \cup H3) - Cardinality(H1 \cap (H2 \cup H3))
    BY <1>8, <2>2, FS_Union
  <2>4. Cardinality(H1 \cap (H2 \cup H3)) = 0
    BY <1>6, <2>1
  <2>5. Cardinality(H) = Cardinality(H1 \cup (H2 \cup H3))
    BY <1>6
  <2>6. PICK k, m, n \in Nat : /\ k = Cardinality(H1) /\ m = Cardinality(H2)
                             /\ n = Cardinality(H3)
    BY <2>1
  <2>7. k + (m + n) - 0 = k + m + n
    BY ONLY <2>6
  <2> QED
    BY <2>2, <2>3, <2>4, <2>5, <2>6, <2>7
<1>12. node[a].ref = (IF root = a THEN 1 ELSE 0) + Cardinality(R) + Cardinality(X)
  BY <1>1, <1>7, <1>9, <1>10, <1>11
<1> QED
  BY <1>12 DEF R, X

LEMMA BlocksHeldAtRest ==
    ASSUME HeapInv, AtRest, NEW b \in Blocks
    PROVE  block[b].ref = Cardinality({x \in Used : node[x].nb = b})
<1> DEFINE H == Holding(Pointer, BlockRef(b))
           X == {x \in Used : node[x].nb = b}
           f == [p \in H |-> p[2]]
<1>1. IsFiniteSet(H) /\ block[b].ref = Cardinality(H)
  <2>1. BlockRef(b) \in Refs /\ Count[BlockRef(b)] = block[b].ref
    BY RefFacts, CountAt DEF HeapInv, Types
  <2> QED
    BY <2>1 DEF HeapInv, Tally, Counts
<1>2. \A p : p \in H <=> /\ p \in Places
                         /\ \E y \in Nodes : Live(y) /\ p = RecordLink(y) /\ b = node[y].nb
  BY RestPlaces DEF Holding
<1>3. \A y \in Nodes : RecordLink(y) \in Places /\ RecordLink(y)[2] = y
  BY PlaceFacts DEF RecordLink
<1>4. \A x : x \in X <=> x \in Nodes /\ Live(x) /\ b = node[x].nb
  BY UsedLive
<1>5. \A p \in H : f[p] \in X
  BY <1>2, <1>3, <1>4
<1>6. \A p, q \in H : f[p] = f[q] => p = q
  BY <1>2, <1>3
<1>7. \A x \in X : \E p \in H : f[p] = x
  BY <1>2, <1>3, <1>4
<1>8. f = [p \in H |-> f[p]]
  OBVIOUS
<1>9. Cardinality(X) = Cardinality(H)
  <2> HIDE DEF f, X, H
  <2> QED
    BY <1>1, <1>5, <1>6, <1>7, <1>8, SameNumber
<1> QED
  BY <1>1, <1>9

\* At rest a node has as many references as there are parents, snapshots and roots that
\* point to it, and one that nothing points to is free: no reference is lost or given
\* back twice on any way through update_j (inc_if, copy_if, decrement_recursive).
THEOREM CountsExactAtRest ==
    ASSUME Quiet
    PROVE  Spec => []CountsExact
<1>1. HeapInv => CountsExact
  <2>1. SUFFICES ASSUME HeapInv, AtRest
                 PROVE  /\ \A a \in DOMAIN node : node[a].ref =
                              (IF root = a THEN 1 ELSE 0)
                               + Cardinality({r \in Readers : reader[r].root = a})
                               + Cardinality({x \in Used : a \in Children(x)})
                        /\ \A b \in DOMAIN block :
                              block[b].ref = Cardinality({x \in Used : node[x].nb = b})
    BY DEF CountsExact, AtRest, Used
  <2>2. DOMAIN node = Nodes /\ DOMAIN block = Blocks
    BY <2>1 DEF HeapInv, Types, HeapTypes
  <2> QED
    BY <2>1, <2>2, NodesHeldAtRest, BlocksHeldAtRest
<1>2. Spec => []HeapInv
  BY HeapInvHolds
<1> QED
  BY <1>1, <1>2, PTL
=============================================================================
