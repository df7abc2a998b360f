--------------------------- MODULE CowStoreProofs ---------------------------
(***************************************************************************)
(* CowHeap implements SnapshotStore, if no snapshot is taken while a write *)
(* runs (Quiet): the trees hold the edges of the log, and a snapshot those *)
(* of the log when it was taken.                                           *)
(*                                                                         *)
(* A tree holds edges W if it lies in a set of nodes that no link leaves   *)
(* and whose records have the destinations that W gives their keys         *)
(* (Holds).  What the writer has not passed holds the edges from before    *)
(* the insertion (Now), what it has made those after it (Then).            *)
(***************************************************************************)
EXTENDS CowHeapProofs

\* The neighbours of every vertex after the first ts transactions.
Had(ts) == [v \in Vertices |-> Store!NeighborsAt(log, v, ts)]

\* The edge that is in the live tree before its transaction is in the log: the
\* other direction of the one that is being inserted.
Half == IF writer.pc # "idle" /\ Len(writer.edges) = 1 THEN {<<Dest, Key>>} ELSE {}

Now  == [v \in Vertices |-> Had(Len(log))[v] \cup {d \in Vertices : <<v, d>> \in Half}]
Then == [v \in Vertices |-> Now[v] \cup (IF v = Key THEN {Dest} ELSE {})]

Records(x, W) == block[node[x].nb].dests = W[node[x].key]

\* No link leaves S and the records in it are those of W.
Closed(S, W) == \A x \in S : Children(x) \subseteq S /\ Records(x, W)

Holds(a, W) == \E S \in SUBSET Nodes : a \in S /\ Closed(S, W)

\* The children that are not on the way to Key.
Aside(x) == ((IF Key < node[x].key THEN {} ELSE {node[x].lc})
                \cup (IF node[x].key < Key THEN {} ELSE {node[x].rc})) \ {Null}

AsideHolds(x, W) == \A c \in Aside(x) : Holds(c, W)

\* W is what the trees held before the insertion, V what they are to hold after it.
WriterHolds(W, V) ==
    /\ writer.pc = "idle" => Holds(root, W)
    /\ writer.pc = "enter" => Holds(writer.at, W)
    /\ writer.pc = "descend" /\ node[Frame.a].key # Key => Holds(Down(Frame.a), W)
    /\ \A i \in 1..Waiting : Records(writer.stack[i].a, W) /\ AsideHolds(writer.stack[i].a, W)
    /\ writer.pc \in {"build", "join", "root"} /\ writer.made # Null => Holds(writer.made, V)
    /\ Built => AsideHolds(writer.at, W)
    /\ writer.pc \in {"look", "put"} => Records(writer.at, W)
    /\ writer.pc = "join" => Records(writer.at, V)

\* The edge that is being inserted is the last one, or the other direction is left.
TwoEdges ==
    writer.pc # "idle" => \/ Len(writer.edges) = 1
                          \/ Len(writer.edges) = 2 /\ writer.edges[2] = <<Dest, Key>>

ReaderHas(r) ==
    /\ ~Open(r) => snapshot[r] = NoSnapshot
    /\ Open(r) => snapshot[r] \in 0..Len(log) /\ Holds(reader[r].root, Had(snapshot[r]))
    /\ reader[r].pc = "read" => block[reader[r].pin].dests = Had(snapshot[r])[reader[r].op.u]

StoreTypes ==
    /\ log \in Seq(Txs)
    /\ DOMAIN snapshot = Readers /\ DOMAIN answer = Readers

StoreInv == StoreTypes /\ WriterHolds(Now, Then) /\ TwoEdges /\ \A r \in Readers : ReaderHas(r)

-----------------------------------------------------------------------------
(* Trees that hold edges *)

\* A tree that is not touched lies in a set of nodes that are not.
LEMMA HoldsStill ==
    ASSUME HeapInv, NEW a \in Still, NEW W, Holds(a, W)
    PROVE  \E S \in SUBSET Still : a \in S /\ Closed(S, W)
<1>1. PICK S \in SUBSET Nodes : a \in S /\ Closed(S, W)
  BY DEF Holds
<1>2. \A x \in Still : Children(x) \subseteq Still
  BY StillClosed
<1>3. a \in S \cap Still /\ Closed(S \cap Still, W)
  BY <1>1, <1>2 DEF Closed
<1> QED
  BY <1>3

\* Whatever step is taken, it holds the same edges.
LEMMA HoldsStays ==
    ASSUME HeapInv, [Next]_vars, NEW a \in Still, NEW W, Holds(a, W)
    PROVE  Holds(a, W)'
<1>1. PICK S \in SUBSET Still : a \in S /\ Closed(S, W)
  BY HoldsStill
<1>2. ASSUME NEW x \in S
      PROVE  Children(x)' \subseteq S /\ Records(x, W)'
  <2>1. Untouched(x)
    BY StillUntouched
  <2>2. Children(x) \subseteq S /\ Records(x, W)
    BY <1>1 DEF Closed
  <2>3. Children(x)' = Children(x)
    BY <2>1 DEF Untouched, Frozen, Children
  <2>4. Records(x, W)'
    BY <2>1, <2>2 DEF Untouched, Frozen, Records
  <2> QED
    BY <2>2, <2>3, <2>4
<1>3. S \in SUBSET Nodes
  BY DEF Still
<1> QED
  BY <1>1, <1>2, <1>3 DEF Holds, Closed

LEMMA HoldsParts ==
    ASSUME NEW a, NEW W, Holds(a, W)
    PROVE  /\ Records(a, W)
           /\ \A c \in Children(a) : Holds(c, W)
           /\ AsideHolds(a, W)
<1>1. PICK S \in SUBSET Nodes : a \in S /\ Closed(S, W)
  BY DEF Holds
<1>2. Records(a, W) /\ \A c \in Children(a) : Holds(c, W)
  BY <1>1 DEF Holds, Closed
<1>3. Aside(a) \subseteq Children(a)
  BY DEF Aside, Children
<1> QED
  BY <1>2, <1>3 DEF AsideHolds

\* A node whose record and children hold edges after a step holds them.
LEMMA NodeHolds ==
    ASSUME NEW a \in Nodes, NEW W, Records(a, W)', \A c \in Children(a)' : Holds(c, W)'
    PROVE  Holds(a, W)'
<1>1. PICK T : T = UNION {S \in SUBSET Nodes : Closed(S, W)'}
  OBVIOUS
<1>2. ASSUME NEW x \in T
      PROVE  Children(x)' \subseteq T /\ Records(x, W)'
  <2>1. PICK S \in SUBSET Nodes : x \in S /\ Closed(S, W)'
    BY <1>1
  <2>2. Children(x)' \subseteq S /\ Records(x, W)'
    BY <2>1 DEF Closed
  <2>3. S \subseteq T
    BY <1>1, <2>1
  <2> QED
    BY <2>2, <2>3
<1>3. Children(a)' \subseteq T
  <2>1. SUFFICES ASSUME NEW c \in Children(a)'
                 PROVE  c \in T
    OBVIOUS
  <2>2. PICK S \in SUBSET Nodes : c \in S /\ Closed(S, W)'
    BY DEF Holds
  <2> QED
    BY <1>1, <2>2
<1>4. Closed({a} \cup T, W)'
  BY <1>2, <1>3 DEF Closed
<1>5. {a} \cup T \in SUBSET Nodes
  BY <1>1
<1> QED
  BY <1>4, <1>5 DEF Holds

\* W and V differ only at Key.
Grown(W, V) ==
    \A v \in Vertices : /\ v # Key => V[v] = W[v]
                        /\ v = Key => V[v] = W[v] \cup {Dest}

\* Where Key is not below, the edges are the same before and after the insertion.
LEMMA HoldsEither ==
    ASSUME HeapInv, NEW a \in Still, Key \notin Below[node[a].key], NEW W, NEW V, Grown(W, V),
           Holds(a, W)
    PROVE  Holds(a, V)
<1>1. PICK S \in SUBSET Still : a \in S /\ Closed(S, W)
  BY HoldsStill
<1>2. PICK T : T = {x \in S : Key \notin Below[node[x].key]}
  OBVIOUS
<1>3. ASSUME NEW x \in T
      PROVE  Children(x) \subseteq T /\ Records(x, V)
  <2>1. x \in Still /\ x \in S /\ Key \notin Below[node[x].key] /\ Records(x, W)
        /\ Children(x) \subseteq S
    BY <1>1, <1>2 DEF Closed
  <2>2. x \in Nodes /\ Live(x) /\ ~StaleLeft(x) /\ ~StaleRight(x)
    BY <2>1, StillClosed
  <2>3. PICK v : v = node[x].key
    OBVIOUS
  <2>4. /\ v \in Vertices
        /\ node[x].lc # Null => node[node[x].lc].key = Left[v] /\ Left[v] \in Vertices
        /\ node[x].rc # Null => node[node[x].rc].key = Right[v] /\ Right[v] \in Vertices
    BY <2>2, <2>3, Links DEF HeapInv, Types
  <2>5. Below[v] = {v} \cup Below[Left[v]] \cup Below[Right[v]]
    BY <2>4, TreeFacts DEF IsBelow
  <2>6. Children(x) \subseteq T
    BY <1>2, <2>1, <2>3, <2>4, <2>5 DEF Children
  <2>7. V[v] = W[v]
    BY <2>1, <2>3, <2>4, <2>5 DEF Grown
  <2> QED
    BY <2>1, <2>3, <2>6, <2>7 DEF Records
<1>4. a \in T /\ T \in SUBSET Nodes
  BY <1>1, <1>2 DEF Still
<1> QED
  BY <1>3, <1>4 DEF Holds, Closed

-----------------------------------------------------------------------------
(* Trees that are not touched *)

\* What the writer changes in place is on the way to Key.
LEMMA OpenedOnPath ==
    ASSUME HeapInv, NEW x, Opened(x)
    PROVE  Key \in Below[node[x].key]
<1>1. CASE \E i \in 1..Waiting : x = writer.stack[i].a
  BY <1>1, FrameFacts
<1>2. CASE Built /\ x = writer.at
  <2>1. node[x].key = KeyMade /\ Key \in Vertices /\ Waiting \in Nat
        /\ (Waiting > 0 => node[writer.stack[Waiting].a].key # Key)
    BY <1>2, AtFacts DEF HeapInv, Path
  <2>2. CASE Waiting = 0
    BY <2>1, <2>2, BelowRoot DEF KeyMade
  <2>3. CASE Waiting > 0
    <3>1. PICK v : v = node[writer.stack[Waiting].a].key
      OBVIOUS
    <3>2. Waiting \in 1..Waiting
      BY <2>1, <2>3
    <3>3. v \in Vertices /\ Key \in Below[v] /\ v # Key /\ v \in Nat /\ Key \in Nat
      BY <2>1, <2>3, <3>1, <3>2, FrameFacts
    <3>4. node[x].key = KeyDown(v)
      BY <2>1, <2>3, <3>1 DEF KeyMade
    <3>5. /\ Key < v => Key \in Below[Left[v]]
          /\ v < Key => Key \in Below[Right[v]]
      BY <3>3, SearchGoesDown
    <3> QED
      BY <3>3, <3>4, <3>5 DEF KeyDown
  <2> QED
    BY <2>1, <2>2, <2>3
<1> QED
  BY <1>1, <1>2 DEF Opened

\* What is not on the way is not touched.
LEMMA AsideStill ==
    ASSUME HeapInv, NEW x \in Nodes, Live(x), Key \in Vertices, NEW c \in Aside(x)
    PROVE  c \in Still /\ Key \notin Below[node[c].key]
<1>1. PICK v : v = node[x].key
  OBVIOUS
<1>2. v \in Vertices /\ v \in Nat /\ Key \in Nat
  BY <1>1, Constants DEF HeapInv, Shape
<1>3. /\ \A u \in Below[Left[v]] : u < v
      /\ \A u \in Below[Right[v]] : v < u
  BY <1>2, TreeFacts DEF IsBelow
<1>4. c \in Nodes /\ Live(c) /\ Key \notin Below[node[c].key]
  <2>1. CASE ~(Key < v) /\ c = node[x].lc /\ c # Null
    <3>1. ~StaleLeft(x)
      BY <1>1, <2>1 DEF StaleLeft
    <3>2. c \in Nodes /\ Live(c) /\ node[c].key = Left[v]
      BY <1>1, <2>1, <3>1, Links DEF HeapInv, Types
    <3> QED
      BY <1>3, <2>1, <3>2
  <2>2. CASE ~(v < Key) /\ c = node[x].rc /\ c # Null
    <3>1. ~StaleRight(x)
      BY <1>1, <2>2 DEF StaleRight
    <3>2. c \in Nodes /\ Live(c) /\ node[c].key = Right[v]
      BY <1>1, <2>2, <3>1, Links DEF HeapInv, Types
    <3> QED
      BY <1>3, <2>2, <3>2
  <2> QED
    BY <1>1, <2>1, <2>2 DEF Aside
<1> QED
  BY <1>4, OpenedOnPath DEF Still

LEMMA MadeStill ==
    ASSUME HeapInv, writer.pc \in {"build", "join", "root"}, writer.made # Null
    PROVE  writer.made \in Still
<1>1. PICK m : m = writer.made
  OBVIOUS
<1>2. m \in Nodes /\ Live(m)
  BY <1>1, MadeFacts
<1>3. MadePlace \in Places /\ Pointer[MadePlace] = NodeRef(m)
  BY <1>1, PlaceFacts, PointerAt DEF OfMade
<1>4. ASSUME Opened(m)
      PROVE  FALSE
  <2>1. PICK p \in Places : /\ Pointer[p] = NodeRef(m)
                            /\ \/ p \in {RootPlace, AtPlace}
                               \/ \E z : Opened(z) /\ p \in {LeftLink(z), RightLink(z)}
    BY <1>2, <1>4, OpenedHeld
  <2>2. p # MadePlace
    BY <2>1, PlacesDiffer
  <2>3. node[m].ref > 1
    BY <1>2, <1>3, <2>1, <2>2, Held DEF HeapInv, Types
  <2> QED
    BY <1>2, <1>4, <2>3, OpenedHeld
<1> QED
  BY <1>1, <1>2, <1>4 DEF Still

\* Neither is the way on that has not been gone yet.
LEMMA DownStill ==
    ASSUME HeapInv, ~Built, NEW i, i = Waiting, i > 0, i \in Nat,
           ~Cut(writer.stack[i].a), node[writer.stack[i].a].key # Key
    PROVE  Down(writer.stack[i].a) \in Still
<1>1. i \in 1..Waiting
  OBVIOUS
<1>2. PICK b : b = Down(writer.stack[i].a)
  OBVIOUS
<1>3. b \in Nodes /\ Live(b) /\ Depth[node[b].key] = i
  BY <1>1, <1>2, DownFacts
<1>4. ASSUME NEW j \in 1..Waiting
      PROVE  b # writer.stack[j].a
  <2>1. Depth[node[writer.stack[j].a].key] = j - 1 /\ j \in Nat /\ j <= i
    BY FrameFacts
  <2> QED
    BY <1>3, <2>1
<1> QED
  BY <1>2, <1>3, <1>4 DEF Still, Opened

LEMMA EnterStill ==
    ASSUME HeapInv, writer.pc = "enter"
    PROVE  writer.at \in Still
<1>1. ~Built /\ RootHeld /\ WriterTypes
      /\ IF Waiting = 0 THEN writer.at = root
         ELSE node[Frame.a].key # Key /\ writer.at = Down(Frame.a)
  BY DEF HeapInv, Types, Path, Built, RootHeld
<1>2. Waiting = Len(writer.stack) /\ Waiting \in Nat
  BY <1>1, StackFacts DEF Waiting
<1>3. CASE Waiting = 0
  BY <1>1, <1>3, RootFacts DEF Still, Opened
<1>4. CASE Waiting > 0
  <2>1. Frame = writer.stack[Waiting]
    BY <1>1, <1>2, <1>4, StackFacts
  <2>2. ~Cut(writer.stack[Waiting].a)
    BY <1>1 DEF Cut
  <2>3. Down(writer.stack[Waiting].a) \in Still
    BY <1>1, <1>2, <1>4, <2>1, <2>2, DownStill
  <2> QED
    BY <1>1, <1>4, <2>1, <2>3
<1> QED
  BY <1>2, <1>3, <1>4

LEMMA RootStill ==
    ASSUME HeapInv, writer.pc = "idle"
    PROVE  root \in Still /\ ~Built /\ Waiting = 0 /\ RootHeld
<1>1. ~Built /\ Waiting = 0 /\ RootHeld
  BY DEF HeapInv, Path, Built, Waiting, RootHeld
<1> QED
  BY <1>1, RootFacts DEF Still, Opened

-----------------------------------------------------------------------------
(* The writer's steps *)

\* A node that a step does not touch, and what is aside from it, hold what they held.
LEMMA AsideStays ==
    ASSUME HeapInv, [Next]_vars, NEW x \in Nodes, Live(x), Untouched(x), Key \in Vertices,
           Key' = Key, NEW W
    PROVE  /\ Records(x, W) => Records(x, W)'
           /\ AsideHolds(x, W) => AsideHolds(x, W)'
           /\ Down(x)' = Down(x) /\ node'[x].key = node[x].key
<1>1. Frozen(x)
  BY DEF Untouched
<1>2. Records(x, W) => Records(x, W)'
  BY DEF Untouched, Frozen, Records
<1>3. Aside(x)' = Aside(x) /\ Down(x)' = Down(x) /\ node'[x].key = node[x].key
  BY <1>1 DEF Frozen, Aside, Down
<1>4. ASSUME AsideHolds(x, W), NEW c \in Aside(x)
      PROVE  Holds(c, W)'
  <2>1. c \in Still /\ Holds(c, W)
    BY <1>4, AsideStill DEF AsideHolds
  <2> QED
    BY <2>1, HoldsStays
<1>5. AsideHolds(x, W) => AsideHolds(x, W)'
  BY <1>3, <1>4 DEF AsideHolds
<1> QED
  BY <1>2, <1>3, <1>5

FramesHold(W) ==
    \A i \in 1..Waiting : Records(writer.stack[i].a, W) /\ AsideHolds(writer.stack[i].a, W)

\* So do the frames that stay.
LEMMA FramesHoldStill ==
    ASSUME HeapInv, [Next]_vars, NEW W, FramesHold(W), Key' = Key, NEW i, i \in 1..Waiting,
           NEW x, x = writer.stack[i].a
    PROVE  Records(x, W)' /\ AsideHolds(x, W)'
<1>1. x \in Nodes /\ Live(x) /\ Key \in Vertices
  BY FrameFacts
<1>2. Built => x # writer.at
  BY AtIsNoFrame
<1>3. Put \/ Join => Built
  BY DEF Put, Join, Built
<1>4. Untouched(x)
  BY <1>1, <1>2, <1>3, LiveUntouched
<1>5. Records(x, W) /\ AsideHolds(x, W)
  BY DEF FramesHold
<1> QED
  BY <1>1, <1>4, <1>5, AsideStays

LEMMA FramesHoldNext ==
    ASSUME HeapInv, [Next]_vars, NEW W, FramesHold(W), Key' = Key, NEW n, Waiting' = n,
           \A i \in 1..n : i \in 1..Waiting /\ writer'.stack[i] = writer.stack[i]
    PROVE  FramesHold(W)'
<1>1. SUFFICES ASSUME NEW i \in 1..n
               PROVE  Records(writer.stack[i].a, W)' /\ AsideHolds(writer.stack[i].a, W)'
  BY DEF FramesHold
<1>2. PICK x : x = writer.stack[i].a
  OBVIOUS
<1>3. x = writer'.stack[i].a
  BY <1>2
<1>4. Records(x, W)' /\ AsideHolds(x, W)'
  BY <1>2, FramesHoldStill
<1> QED
  BY <1>3, <1>4 DEF Records, AsideHolds, Aside

\* A step of another thread changes nothing of this.
LEMMA OthersHold ==
    ASSUME HeapInv, [Next]_vars, NEW W, NEW V, WriterHolds(W, V), UNCHANGED <<writer, root>>
    PROVE  WriterHolds(W, V)'
<1>1. /\ ~Put /\ ~Join
      /\ Key' = Key /\ Waiting' = Waiting /\ Built' = Built /\ Frame' = Frame
  <2>1. ~Put /\ ~Join
    <3>1. WriterTypes
      BY DEF HeapInv, Types
    <3>2. Put => writer'.pc = "join" /\ writer.pc = "put"
      BY <3>1 DEF Put, WriterTypes
    <3>3. Join => writer'.pc # "join" /\ writer.pc = "join"
      BY <3>1 DEF Join, WriterTypes
    <3> QED
      BY <3>2, <3>3
  <2> QED
    BY <2>1 DEF Key, Waiting, Built, Frame
<1>2. ASSUME NEW x \in Nodes, Live(x), Key \in Vertices
      PROVE  /\ Untouched(x)
             /\ \A U : Records(x, U) => Records(x, U)'
             /\ \A U : AsideHolds(x, U) => AsideHolds(x, U)'
             /\ Down(x)' = Down(x) /\ node'[x].key = node[x].key
  <2>1. Untouched(x)
    BY <1>1, <1>2, LiveUntouched
  <2> QED
    BY <1>1, <1>2, <2>1, AsideStays
<1>3. FramesHold(W)'
  <2>1. FramesHold(W)
    BY DEF WriterHolds, FramesHold
  <2> QED
    BY <1>1, <2>1, FramesHoldNext
<1>4. writer.pc = "idle" => Holds(root, W)'
  <2>1. SUFFICES ASSUME writer.pc = "idle"
                 PROVE  Holds(root, W)'
    OBVIOUS
  <2>2. PICK a : a = root
    OBVIOUS
  <2>3. a \in Still /\ Holds(a, W)
    BY <2>1, <2>2, RootStill DEF WriterHolds
  <2>4. Holds(a, W)'
    BY <2>3, HoldsStays
  <2> QED
    BY <2>2, <2>4 DEF Holds
<1>5. writer.pc = "enter" => Holds(writer.at, W)'
  <2>1. SUFFICES ASSUME writer.pc = "enter"
                 PROVE  Holds(writer.at, W)'
    OBVIOUS
  <2>2. PICK a : a = writer.at
    OBVIOUS
  <2>3. a \in Still /\ Holds(a, W)
    BY <2>1, <2>2, EnterStill DEF WriterHolds
  <2>4. Holds(a, W)'
    BY <2>3, HoldsStays
  <2> QED
    BY <2>2, <2>4 DEF Holds
<1>6. writer.pc = "descend" /\ node'[Frame'.a].key # Key => Holds(Down(Frame.a), W)'
  <2>1. SUFFICES ASSUME writer.pc = "descend", node'[Frame'.a].key # Key
                 PROVE  Holds(Down(Frame.a), W)'
    OBVIOUS
  <2>2. PICK a : a = Frame.a
    OBVIOUS
  <2>3. Frame = writer.stack[Waiting] /\ Waiting \in 1..Waiting /\ ~Built
    BY <2>1, StackFacts DEF HeapInv, Types, Path, Waiting, Built
  <2>4. a \in Nodes /\ Live(a) /\ Key \in Vertices /\ Waiting \in Nat /\ Waiting > 0
    BY <2>2, <2>3, FrameFacts
  <2>5. node[a].key # Key /\ Down(a)' = Down(a)
    BY <1>1, <1>2, <2>1, <2>2, <2>4
  <2>6. ~Cut(a)
    BY <2>1, <2>3 DEF Cut
  <2>7. PICK b : b = Down(a)
    OBVIOUS
  <2>8. b \in Still
    BY <2>2, <2>3, <2>4, <2>5, <2>6, <2>7, DownStill
  <2>9. Holds(b, W)
    BY <2>1, <2>2, <2>5, <2>7 DEF WriterHolds
  <2>10. Holds(b, W)'
    BY <2>8, <2>9, HoldsStays
  <2>11. Down(Frame.a)' = b
    BY <1>1, <2>2, <2>5, <2>7 DEF Down
  <2> QED
    BY <2>10, <2>11 DEF Holds
<1>7. writer.pc \in {"build", "join", "root"} /\ writer.made # Null => Holds(writer.made, V)'
  <2>1. SUFFICES ASSUME writer.pc \in {"build", "join", "root"}, writer.made # Null
                 PROVE  Holds(writer.made, V)'
    OBVIOUS
  <2>2. PICK a : a = writer.made
    OBVIOUS
  <2>3. a \in Still /\ Holds(a, V)
    BY <2>1, <2>2, MadeStill DEF WriterHolds
  <2>4. Holds(a, V)'
    BY <2>3, HoldsStays
  <2> QED
    BY <2>2, <2>4 DEF Holds
<1>8. Built => /\ AsideHolds(writer.at, W)'
               /\ writer.pc \in {"look", "put"} => Records(writer.at, W)'
               /\ writer.pc = "join" => Records(writer.at, V)'
  <2>1. SUFFICES ASSUME Built
                 PROVE  /\ AsideHolds(writer.at, W)'
                        /\ writer.pc \in {"look", "put"} => Records(writer.at, W)'
                        /\ writer.pc = "join" => Records(writer.at, V)'
    OBVIOUS
  <2>2. PICK a : a = writer.at
    OBVIOUS
  <2>3. a \in Nodes /\ Live(a) /\ Key \in Vertices
    BY <2>1, <2>2, AtFacts
  <2>4. /\ AsideHolds(a, W)
        /\ writer.pc \in {"look", "put"} => Records(a, W)
        /\ writer.pc = "join" => Records(a, V)
    BY <2>1, <2>2 DEF WriterHolds
  <2>5. /\ AsideHolds(a, W)'
        /\ writer.pc \in {"look", "put"} => Records(a, W)'
        /\ writer.pc = "join" => Records(a, V)'
    BY <1>2, <2>3, <2>4
  <2>6. writer'.at = a
    BY <2>2
  <2> QED
    BY <2>5, <2>6 DEF AsideHolds, Aside, Records
<1>9. writer' = writer
  OBVIOUS
<1>10. /\ writer'.pc = "idle" => Holds(root, W)'
       /\ writer'.pc = "enter" => Holds(writer.at, W)'
  BY <1>4, <1>5, <1>9
<1>11. writer'.pc = "descend" /\ node'[Frame'.a].key # Key' => Holds(Down(Frame.a), W)'
  BY <1>1, <1>6, <1>9
<1>12. /\ writer'.pc \in {"build", "join", "root"} /\ writer'.made # Null => Holds(writer.made, V)'
       /\ Built' => AsideHolds(writer.at, W)'
       /\ writer'.pc \in {"look", "put"} => Records(writer.at, W)'
       /\ writer'.pc = "join" => Records(writer.at, V)'
  BY <1>7, <1>8, <1>9 DEF Built
<1> QED
  BY <1>3, <1>10, <1>11, <1>12 DEF WriterHolds, FramesHold

LEMMA BeginHolds ==
    ASSUME HeapInv, NEW tx \in Txs, Begin(tx), NEW W, NEW U, WriterHolds(W, U), NEW V
    PROVE  WriterHolds(W, V)'
<1>1. /\ writer.pc = "idle" /\ writer'.pc = "enter" /\ writer'.at = root /\ writer'.stack = <<>>
      /\ root' = root /\ [Next]_vars
  BY DEF Begin, Resting, heapVars, Next
<1>2. ~Built' /\ Waiting' = 0
  BY <1>1 DEF Built, Waiting
<1>3. PICK a : a = root
  OBVIOUS
<1>4. a \in Still /\ Holds(a, W)
  BY <1>1, <1>3, RootStill DEF WriterHolds
<1>5. Holds(a, W)'
  BY <1>1, <1>4, HoldsStays
<1>6. Holds(writer.at, W)'
  BY <1>1, <1>3, <1>5 DEF Holds
<1> QED
  BY <1>1, <1>2, <1>6 DEF WriterHolds

LEMMA SetRootHolds ==
    ASSUME HeapInv, NEW tx \in Txs, SetRoot(tx), NEW W, NEW V, WriterHolds(W, V), NEW U
    PROVE  WriterHolds(V, U)'
<1>1. /\ writer.pc = "root" /\ root' = writer.made /\ writer.made # Null
      /\ writer'.pc \in {"idle", "enter"} /\ (writer'.pc = "enter" => writer'.at = writer.made)
      /\ writer'.stack = <<>> /\ [Next]_vars
  <2>1. writer.pc = "root" /\ root' = writer.made /\ writer.made # Null /\ [Next]_vars
    BY DEF SetRoot, Next, HeapInv, Path
  <2>2. CASE Len(writer.edges) > 1
    <3>1. writer' = [Resting EXCEPT !.pc = "enter", !.edges = Tail(writer.edges),
                                    !.at = writer.made]
      BY <2>2 DEF SetRoot
    <3> QED
      BY <2>1, <3>1 DEF Resting
  <2>3. CASE ~(Len(writer.edges) > 1)
    <3>1. writer' = Resting
      BY <2>3 DEF SetRoot
    <3> QED
      BY <2>1, <3>1 DEF Resting
  <2> QED
    BY <2>2, <2>3
<1>2. ~Built' /\ Waiting' = 0
  BY <1>1 DEF Built, Waiting
<1>3. PICK a : a = writer.made
  OBVIOUS
<1>4. a \in Still /\ Holds(a, V)
  BY <1>1, <1>3, MadeStill DEF WriterHolds
<1>5. Holds(a, V)'
  BY <1>1, <1>4, HoldsStays
<1>6. Holds(root, V)' /\ (writer'.pc = "enter" => Holds(writer.at, V)')
  BY <1>1, <1>3, <1>5 DEF Holds
<1> QED
  BY <1>1, <1>2, <1>6 DEF WriterHolds

\* update_j() is called on a node on the way to Key.
LEMMA EnterHolds ==
    ASSUME HeapInv, HeapInv', Enter, NEW W, NEW V, WriterHolds(W, V)
    PROVE  WriterHolds(W, V)'
<1>1. PICK n : n = Len(writer.stack)
  OBVIOUS
<1>2. PICK a : a = writer.at
  OBVIOUS
<1>3. PICK f : f = [a |-> writer.at, extra |-> writer.extra,
                    copy |-> writer.extra \/ node[writer.at].ref > 1]
  OBVIOUS
<1>4. /\ WriterTypes /\ writer.pc = "enter" /\ writer.edges # <<>> /\ [Next]_vars
      /\ writer' = [writer EXCEPT !.pc = "descend", !.stack = Append(writer.stack, f)]
      /\ UNCHANGED <<node, block, root, reader, dropping>>
  BY <1>3 DEF HeapInv, Types, Path, Enter, heapVars, Next
<1>5. /\ writer'.pc = "descend" /\ writer'.edges = writer.edges
      /\ writer'.stack = Append(writer.stack, f)
  BY <1>4 DEF WriterTypes
<1>6. /\ n \in Nat /\ writer.stack \in Seq([a : Nodes, extra : BOOLEAN, copy : BOOLEAN])
      /\ Len(writer'.stack) = n + 1 /\ writer'.stack[n + 1] = f
      /\ \A i \in 1..n : writer'.stack[i] = writer.stack[i]
  BY <1>1, <1>4, <1>5, StackFacts, AppendFacts
<1>7. ~Built /\ ~Built' /\ Waiting = n /\ Waiting' = n + 1 /\ Key' = Key
  BY <1>1, <1>4, <1>5, <1>6 DEF Built, Waiting, Key
<1>8. Frame' = f /\ f.a = a
  <2>1. writer'.stack # <<>> /\ Last(writer'.stack) = writer'.stack[n + 1]
    BY <1>5, <1>6 DEF Last
  <2> QED
    BY <1>2, <1>3, <1>6, <2>1 DEF Frame
<1>9. a \in Still /\ Holds(a, W) /\ Key \in Vertices
  BY <1>2, <1>4, EnterStill, KeyFacts DEF WriterHolds
<1>10. Records(a, W) /\ AsideHolds(a, W) /\ \A c \in Children(a) : Holds(c, W)
  BY <1>9, HoldsParts
<1>11. a \in Nodes /\ Live(a) /\ Untouched(a)
  BY <1>4, <1>9, StillUntouched DEF Still
<1>12. Records(a, W)' /\ AsideHolds(a, W)' /\ Down(a)' = Down(a)
  BY <1>4, <1>7, <1>9, <1>10, <1>11, AsideStays
<1>13. FramesHold(W)'
  <2>1. SUFFICES ASSUME NEW i \in 1..n + 1
                 PROVE  Records(writer.stack[i].a, W)' /\ AsideHolds(writer.stack[i].a, W)'
    BY <1>7 DEF FramesHold
  <2>2. PICK x : x = writer'.stack[i].a
    OBVIOUS
  <2>3. CASE i = n + 1
    <3>1. x = a
      BY <1>6, <1>8, <2>2, <2>3
    <3>2. Records(x, W)' /\ AsideHolds(x, W)'
      BY <1>12, <3>1
    <3> QED
      BY <2>2, <3>2 DEF Records, AsideHolds, Aside
  <2>4. CASE i # n + 1
    <3>1. i \in 1..n
      BY <1>6, <2>4
    <3>2. x = writer.stack[i].a /\ i \in 1..Waiting
      BY <1>6, <1>7, <2>2, <3>1
    <3>3. FramesHold(W)
      BY DEF WriterHolds, FramesHold
    <3>4. Records(x, W)' /\ AsideHolds(x, W)'
      BY <1>4, <1>7, <3>2, <3>3, FramesHoldStill
    <3> QED
      BY <2>2, <3>4 DEF Records, AsideHolds, Aside
  <2> QED
    BY <2>3, <2>4
<1>14. node[a].key # Key => Holds(Down(Frame.a), W)'
  <2>1. SUFFICES ASSUME node[a].key # Key
                 PROVE  Holds(Down(Frame.a), W)'
    OBVIOUS
  <2>2. Key \in Below[node[a].key]
    <3>1. FrameHolds(n + 1)'
      BY <1>6, <1>7 DEF HeapInv, Path, Frames
    <3>2. Key' \in Below[node'[writer'.stack[n + 1].a].key]
      BY <3>1 DEF FrameHolds
    <3> QED
      BY <1>4, <1>6, <1>7, <1>8, <3>2
  <2>3. PICK v : v = node[a].key
    OBVIOUS
  <2>4. v \in Vertices /\ v # Key /\ Key \in Below[v] /\ v \in Nat /\ Key \in Nat
    BY <1>9, <1>11, <2>1, <2>2, <2>3, Constants DEF HeapInv, Shape
  <2>5. /\ Key < v => Left[v] # Null
        /\ v < Key => Right[v] # Null
        /\ Key < v \/ v < Key
    BY <2>4, SearchGoesDown, Constants
  <2>6. ~StaleLeft(a) /\ ~StaleRight(a)
    BY <1>9, StillClosed
  <2>7. /\ Key < v => node[a].lc # Null
        /\ v < Key => node[a].rc # Null
    BY <1>11, <2>3, <2>5, <2>6, Links DEF HeapInv, Types
  <2>8. PICK b : b = Down(a)
    OBVIOUS
  <2>9. b \in Children(a)
    BY <2>3, <2>4, <2>5, <2>7, <2>8 DEF Down, Children
  <2>10. b \in Still /\ Holds(b, W)
    BY <1>9, <1>10, <2>9, StillClosed
  <2>11. Holds(b, W)'
    BY <1>4, <2>10, HoldsStays
  <2>12. Down(Frame.a)' = b
    BY <1>8, <1>12, <2>8 DEF Down
  <2> QED
    BY <2>11, <2>12 DEF Holds
<1>15. writer'.pc = "descend" /\ node'[Frame'.a].key # Key' => Holds(Down(Frame.a), W)'
  BY <1>4, <1>7, <1>8, <1>14
<1> QED
  BY <1>5, <1>7, <1>13, <1>15 DEF WriterHolds, FramesHold

LEMMA DescendHolds ==
    ASSUME HeapInv, Descend, NEW W, NEW V, WriterHolds(W, V)
    PROVE  WriterHolds(W, V)'
<1>1. PICK n : n = Len(writer.stack)
  OBVIOUS
<1>2. PICK a : a = Frame.a
  OBVIOUS
<1>3. /\ WriterTypes /\ writer.pc = "descend" /\ writer.stack # <<>> /\ writer.made = Null
      /\ [Next]_vars
      /\ writer' = IF node[a].key = Key THEN [writer EXCEPT !.pc = "build"]
                   ELSE [writer EXCEPT !.pc = "enter", !.extra = Frame.copy,
                             !.at = IF node[a].key < Key THEN node[a].rc ELSE node[a].lc]
  BY <1>2 DEF HeapInv, Types, Path, Descend, Next
<1>4. /\ writer'.stack = writer.stack /\ writer'.edges = writer.edges
      /\ writer'.made = Null
      /\ writer'.pc = IF node[a].key = Key THEN "build" ELSE "enter"
      /\ node[a].key # Key => writer'.at = IF node[a].key < Key THEN node[a].rc ELSE node[a].lc
  BY <1>3 DEF WriterTypes
<1>5. ~Built /\ ~Built' /\ Waiting = n /\ Waiting' = n /\ Key' = Key
  BY <1>1, <1>3, <1>4 DEF Built, Waiting, Key
<1>6. n \in 1..n /\ n \in Nat /\ n > 0 /\ Frame = writer.stack[n]
  BY <1>1, <1>3, StackFacts
<1>7. FramesHold(W)'
  <2>1. FramesHold(W)
    BY DEF WriterHolds, FramesHold
  <2>2. \A i \in 1..n : i \in 1..Waiting /\ writer'.stack[i] = writer.stack[i]
    BY <1>4, <1>5
  <2> QED
    BY <1>3, <1>5, <2>1, <2>2, FramesHoldNext
<1>8. writer'.pc = "enter" => Holds(writer.at, W)'
  <2>1. SUFFICES ASSUME node[a].key # Key
                 PROVE  Holds(writer.at, W)'
    BY <1>4
  <2>2. PICK b : b = Down(a)
    OBVIOUS
  <2>3. ~Cut(a)
    BY <1>3, <1>5 DEF Cut
  <2>4. b \in Still
    BY <1>2, <1>5, <1>6, <2>1, <2>2, <2>3, DownStill
  <2>5. Holds(b, W)
    BY <1>2, <1>3, <2>1, <2>2 DEF WriterHolds
  <2>6. Holds(b, W)'
    BY <1>3, <2>4, <2>5, HoldsStays
  <2>7. node[a].key \in Nat /\ Key \in Nat
    BY <1>2, <1>5, <1>6, FrameFacts
  <2>8. writer'.at = b
    BY <1>4, <2>1, <2>2, <2>7 DEF Down
  <2> QED
    BY <2>6, <2>8 DEF Holds
<1>9. writer'.pc \in {"build", "enter"}
  BY <1>4
<1> QED
  BY <1>4, <1>5, <1>7, <1>8, <1>9 DEF WriterHolds, FramesHold

LEMMA LookHolds ==
    ASSUME HeapInv, Look, NEW W, NEW V, WriterHolds(W, V)
    PROVE  WriterHolds(W, V)'
<1>1. /\ WriterTypes /\ writer.pc = "look" /\ [Next]_vars /\ ~Put /\ ~Join
      /\ writer' = [writer EXCEPT !.pc = "put",
                                  !.extra = block[node[writer.at].nb].ref > 1]
  BY DEF HeapInv, Types, Look, Next, Put, Join
<1>2. /\ writer'.pc = "put" /\ UNCHANGED <<writer.edges, writer.at, writer.stack, writer.made>>
  BY <1>1 DEF WriterTypes
<1>3. Built /\ Built' /\ Waiting' = Waiting /\ Key' = Key
  BY <1>1, <1>2 DEF Built, Waiting, Key
<1>4. FramesHold(W)'
  <2>1. FramesHold(W)
    BY DEF WriterHolds, FramesHold
  <2> QED
    BY <1>1, <1>2, <1>3, <2>1, FramesHoldNext
<1>5. PICK a : a = writer.at
  OBVIOUS
<1>6. a \in Nodes /\ Live(a) /\ Key \in Vertices
  BY <1>3, <1>5, AtFacts
<1>7. Untouched(a)
  BY <1>1, <1>6, LiveUntouched
<1>8. Records(a, W) /\ AsideHolds(a, W)
  BY <1>1, <1>3, <1>5 DEF WriterHolds
<1>9. Records(a, W)' /\ AsideHolds(a, W)'
  BY <1>1, <1>3, <1>6, <1>7, <1>8, AsideStays
<1>10. writer'.at = a
  BY <1>2, <1>5
<1>11. Records(writer.at, W)' /\ AsideHolds(writer.at, W)'
  BY <1>9, <1>10 DEF Records, AsideHolds, Aside
<1> QED
  BY <1>2, <1>4, <1>11 DEF WriterHolds, FramesHold

\* The node that is changed holds what the old one held.
LEMMA BuildHolds ==
    ASSUME HeapInv, Build, NEW W, NEW V, Grown(W, V), WriterHolds(W, V)
    PROVE  WriterHolds(W, V)'
<1>1. PICK n : n = Len(writer.stack)
  OBVIOUS
<1>2. PICK a : a = writer.stack[n].a
  OBVIOUS
<1>3. PICK o : o = writer'.at
  OBVIOUS
<1>4. Building(n, a, o)
  BY <1>1, <1>2, <1>3, StackFacts DEF Building, HeapInv, Types
<1>5. /\ n \in 1..Waiting /\ a \in Nodes /\ Live(a) /\ node[a].key \in Vertices /\ Key \in Vertices
      /\ Built' /\ Waiting = n /\ Waiting' = n - 1
      /\ writer'.pc = IF node[a].key = Key THEN "look" ELSE "join"
      /\ writer'.stack = writer.stack /\ writer'.made = writer.made /\ Key' = Key
      /\ o \in Nodes
  BY <1>4, BuildFacts
<1>6. [Next]_vars /\ writer.pc = "build" /\ n \in Nat
  BY <1>4 DEF Next, Build, Building
<1>7. FramesHold(W)'
  <2>1. FramesHold(W)
    BY DEF WriterHolds, FramesHold
  <2>2. \A i \in 1..n-1 : i \in 1..Waiting /\ writer'.stack[i] = writer.stack[i]
    BY <1>5, <1>6
  <2> QED
    BY <1>5, <1>6, <2>1, <2>2, FramesHoldNext
<1>8. Records(a, W) /\ AsideHolds(a, W)
  BY <1>2, <1>5 DEF WriterHolds
<1>9. /\ node'[o].key = node[a].key /\ node'[o].nb = node[a].nb
      /\ node'[o].lc = node[a].lc /\ node'[o].rc = node[a].rc
  <2>1. Replaced(a, o)
    BY <1>4, BuildReplaces
  <2> QED
    BY <2>1 DEF Replaced
<1>10. Records(o, W)'
  <2>1. block'[node[a].nb].dests = block[node[a].nb].dests
    BY <1>5, BuildUntouched DEF Untouched
  <2> QED
    BY <1>8, <1>9, <2>1 DEF Records
<1>11. AsideHolds(o, W)'
  <2>1. Aside(o)' = Aside(a)
    BY <1>5, <1>9 DEF Aside
  <2>2. ASSUME NEW c \in Aside(a)
        PROVE  Holds(c, W)'
    <3>1. c \in Still /\ Holds(c, W)
      BY <1>5, <1>8, AsideStill DEF AsideHolds
    <3> QED
      BY <1>6, <3>1, HoldsStays
  <2> QED
    BY <2>1, <2>2 DEF AsideHolds
<1>12. node[a].key # Key => Records(o, V)'
  BY <1>5, <1>9, <1>10 DEF Records, Grown
<1>13. writer'.made # Null => Holds(writer.made, V)'
  <2>1. SUFFICES ASSUME writer.made # Null
                 PROVE  Holds(writer.made, V)'
    BY <1>5
  <2>2. PICK m : m = writer.made
    OBVIOUS
  <2>3. m \in Still /\ Holds(m, V)
    BY <1>6, <2>1, <2>2, MadeStill DEF WriterHolds
  <2>4. Holds(m, V)'
    BY <1>6, <2>3, HoldsStays
  <2>5. writer'.made = m
    BY <1>5, <2>2
  <2> QED
    BY <2>4, <2>5 DEF Holds
<1>14. /\ AsideHolds(writer.at, W)' /\ Records(writer.at, W)'
       /\ node[a].key # Key => Records(writer.at, V)'
  BY <1>3, <1>10, <1>11, <1>12 DEF Records, AsideHolds, Aside
<1>15. /\ writer'.pc \in {"look", "join"}
       /\ writer'.pc = "join" => node[a].key # Key
  BY <1>5
<1> QED
  BY <1>7, <1>13, <1>14, <1>15 DEF WriterHolds, FramesHold

\* update_value: the record of Key gets its destination.
LEMMA PutHolds ==
    ASSUME HeapInv, Put, NEW W, NEW V, Grown(W, V), WriterHolds(W, V)
    PROVE  WriterHolds(W, V)'
<1>1. PICK a : a = writer.at
  OBVIOUS
<1>2. PICK b : b = node[a].nb
  OBVIOUS
<1>3. Putting(a, b)
  BY <1>1, <1>2 DEF Putting
<1>4. /\ a \in Nodes /\ Live(a) /\ b \in Blocks /\ node[a].key = Key
      /\ Built /\ Waiting' = Waiting /\ writer.made = Null
      /\ writer.pc = "put" /\ writer'.pc = "join" /\ writer'.at = a
      /\ writer'.stack = writer.stack /\ writer'.made = writer.made /\ Key' = Key
  BY <1>3, PutFacts
<1>5. [Next]_vars /\ Key \in Vertices
  BY <1>4, AtFacts DEF Next
<1>6. FramesHold(W)'
  <2>1. FramesHold(W)
    BY DEF WriterHolds, FramesHold
  <2> QED
    BY <1>4, <1>5, <2>1, FramesHoldNext
<1>7. Records(a, W) /\ AsideHolds(a, W)
  BY <1>1, <1>4 DEF WriterHolds
<1>8. AsideHolds(a, W)'
  <2>1. node'[a].key = node[a].key /\ node'[a].lc = node[a].lc /\ node'[a].rc = node[a].rc
    BY <1>3, <1>4, PutFacts
  <2>2. Aside(a)' = Aside(a)
    BY <1>4, <2>1 DEF Aside
  <2>3. ASSUME NEW c \in Aside(a)
        PROVE  Holds(c, W)'
    <3>1. c \in Still /\ Holds(c, W)
      BY <1>4, <1>5, <1>7, AsideStill DEF AsideHolds
    <3> QED
      BY <1>5, <3>1, HoldsStays
  <2> QED
    BY <2>2, <2>3 DEF AsideHolds
<1>9. block[b].dests \cup {Dest} = V[Key]
  BY <1>2, <1>4, <1>5, <1>7 DEF Records, Grown
<1>10. Records(a, V)'
  <2>1. HeapTypes /\ node'[a].key = Key
    BY <1>3, <1>4, PutFacts DEF HeapInv, Types
  <2>2. CASE ~writer.extra
    <3>1. /\ UNCHANGED node
          /\ block' = [block EXCEPT ![b].dests = block[b].dests \cup {Dest}]
      BY <1>3, <2>2, PutFacts
    <3>2. block'[b].dests = block[b].dests \cup {Dest}
      BY <1>4, <2>1, <3>1 DEF HeapTypes
    <3> QED
      BY <1>2, <1>9, <2>1, <3>1, <3>2 DEF Records
  <2>3. CASE writer.extra
    <3>1. PICK f : f = Fresh(block)
      OBVIOUS
    <3>2. /\ f \in Blocks
          /\ block' = [block EXCEPT ![f] = [dests |-> block[b].dests \cup {Dest}, ref |-> 1]]
          /\ node' = [node EXCEPT ![a].nb = f]
      BY <1>3, <2>3, <3>1, PutFacts
    <3>3. node'[a].nb = f /\ block'[f].dests = block[b].dests \cup {Dest}
      BY <1>4, <2>1, <3>2 DEF HeapTypes
    <3> QED
      BY <1>9, <2>1, <3>3 DEF Records
  <2> QED
    BY <2>2, <2>3
<1>11. AsideHolds(writer.at, W)' /\ Records(writer.at, V)'
  BY <1>4, <1>8, <1>10 DEF Records, AsideHolds, Aside
<1> QED
  BY <1>4, <1>6, <1>11 DEF WriterHolds, FramesHold

\* join(): the node has its children, and the tree under it the new edge.
LEMMA JoinHolds ==
    ASSUME HeapInv, Join, NEW W, NEW V, Grown(W, V), WriterHolds(W, V)
    PROVE  WriterHolds(W, V)'
<1>1. PICK n : n = Len(writer.stack)
  OBVIOUS
<1>2. PICK a : a = writer.at
  OBVIOUS
<1>3. PICK m : m = writer.made
  OBVIOUS
<1>4. Joining(n, a, m)
  BY <1>1, <1>2, <1>3, AtFacts, StackFacts DEF Joining, HeapInv, Types
<1>5. /\ n > 0 /\ a \in Nodes /\ Live(a) /\ node[a].key \in Nat /\ Key \in Nat
      /\ Built /\ ~Built' /\ Waiting = n - 1 /\ Waiting' = n - 1
      /\ writer.pc = "join" /\ writer'.pc = IF n = 1 THEN "root" ELSE "build"
      /\ writer'.made = a /\ Key' = Key
      /\ UNCHANGED block
  BY <1>4, JoinFacts
<1>6. /\ \A i \in 1..n-1 : writer'.stack[i] = writer.stack[i]
      /\ node'[a].key = node[a].key /\ node'[a].nb = node[a].nb
      /\ node'[a].lc = IF Key < node[a].key THEN m ELSE node[a].lc
      /\ node'[a].rc = IF node[a].key < Key THEN m ELSE node[a].rc
  BY <1>4, <1>5, JoinFacts
<1>7. [Next]_vars /\ Key \in Vertices
  BY <1>5, AtFacts DEF Next
<1>8. FramesHold(W)'
  <2>1. FramesHold(W)
    BY DEF WriterHolds, FramesHold
  <2> QED
    BY <1>5, <1>6, <1>7, <2>1, FramesHoldNext
<1>9. Records(a, V)'
  <2>1. Records(a, V)
    BY <1>2, <1>5 DEF WriterHolds
  <2> QED
    BY <1>5, <1>6, <2>1 DEF Records
<1>10. ASSUME NEW c \in Aside(a)
       PROVE  Holds(c, V)'
  <2>1. c \in Still /\ Key \notin Below[node[c].key]
    BY <1>5, <1>7, AsideStill
  <2>2. Holds(c, W)
    BY <1>2, <1>5, <1>10 DEF WriterHolds, AsideHolds
  <2>3. Holds(c, V)
    BY <2>1, <2>2, HoldsEither
  <2> QED
    BY <1>7, <2>1, <2>3, HoldsStays
<1>11. m # Null => Holds(m, V)'
  <2>1. m # Null => m \in Still /\ Holds(m, V)
    BY <1>3, <1>5, MadeStill DEF WriterHolds
  <2> QED
    BY <1>7, <2>1, HoldsStays
<1>12. Holds(a, V)'
  <2>1. SUFFICES ASSUME NEW c \in Children(a)'
                 PROVE  Holds(c, V)'
    BY <1>5, <1>9, NodeHolds
  <2>2. c # Null /\ (c = m \/ c \in Aside(a))
    BY <1>5, <1>6 DEF Children, Aside
  <2> QED
    BY <1>10, <1>11, <2>2
<1>13. Holds(writer.made, V)'
  BY <1>5, <1>12 DEF Holds
<1>14. writer'.pc \in {"root", "build"}
  BY <1>5
<1> QED
  BY <1>5, <1>8, <1>13, <1>14 DEF WriterHolds, FramesHold

-----------------------------------------------------------------------------
(* The log *)

LEMMA HadStays ==
    ASSUME log \in Seq(Txs), log' = log \/ \E tx \in Txs : log' = Append(log, tx)
    PROVE  /\ Len(log) \in Nat /\ Len(log') \in Nat /\ Len(log) <= Len(log')
           /\ log' \in Seq(Txs)
           /\ \A ts \in 0..Len(log) : Had(ts)' = Had(ts)
<1>1. /\ Len(log) \in Nat /\ Len(log') \in Nat /\ Len(log) <= Len(log') /\ log' \in Seq(Txs)
      /\ \A i \in 1..Len(log) : log'[i] = log[i]
  <2>1. CASE log' = log
    BY <2>1
  <2>2. CASE \E tx \in Txs : log' = Append(log, tx)
    BY <2>2, AppendFacts
  <2> QED
    BY <2>1, <2>2
<1>2. ASSUME NEW ts \in 0..Len(log)
      PROVE  Had(ts)' = Had(ts)
  <2>1. \A i \in 1..ts : i \in 1..Len(log)
    BY <1>1
  <2>2. \A v : Store!NeighborsAt(log', v, ts) = Store!NeighborsAt(log, v, ts)
    BY <1>1, <2>1 DEF Store!NeighborsAt
  <2> QED
    BY <2>2 DEF Had
<1> QED
  BY <1>1, <1>2

LEMMA GrownThen == Grown(Now, Then)
BY DEF Grown, Then

\* The writer's part of the invariant after a step, for the edges of the new log.
LEMMA WriterHoldsNext ==
    ASSUME NEW W, NEW V, W = Now', V = Then', WriterHolds(W, V)'
    PROVE  WriterHolds(Now, Then)'
<1>1. \A x : Records(x, W)' => Records(x, Now)'
  BY DEF Records
<1>2. \A x : Records(x, V)' => Records(x, Then)'
  BY DEF Records
<1>3. \A x : Holds(x, W)' => Holds(x, Now)'
  BY <1>1 DEF Holds, Closed
<1>4. \A x : Holds(x, V)' => Holds(x, Then)'
  BY <1>2 DEF Holds, Closed
<1>5. \A x : AsideHolds(x, W)' => AsideHolds(x, Now)'
  BY <1>3 DEF AsideHolds
<1> QED
  BY <1>1, <1>2, <1>3, <1>4, <1>5 DEF WriterHolds

\* No step of another thread, and none below the root, changes what the trees are to hold.
LEMMA NowStays ==
    ASSUME log' = log, writer'.edges = writer.edges, writer.pc # "idle" <=> writer'.pc # "idle"
    PROVE  Now' = Now /\ Then' = Then /\ (TwoEdges => TwoEdges')
<1>1. Key' = Key /\ Dest' = Dest
  BY DEF Key, Dest
<1>2. Half' = Half
  BY <1>1 DEF Half
<1>3. Now' = Now
  BY <1>2 DEF Now, Had
<1> QED
  BY <1>1, <1>3 DEF Then, TwoEdges

LEMMA BeginNow ==
    ASSUME NEW tx \in Txs, Begin(tx)
    PROVE  Now' = Now /\ TwoEdges'
<1>1. /\ writer.pc = "idle" /\ log' = log /\ writer'.edges = tx.edges
  BY DEF Begin, Resting, storeVars
<1>2. PICK e \in Vertices \X Vertices : tx.edges = <<e, <<e[2], e[1]>>>>
  BY DEF Txs
<1>3. Len(writer'.edges) = 2 /\ writer'.edges[2] = <<e[2], e[1]>> /\ Head(writer'.edges) = e
  BY <1>1, <1>2
<1>4. Half = {} /\ Half' = {}
  BY <1>1, <1>3 DEF Half
<1>5. Key' = e[1] /\ Dest' = e[2]
  BY <1>3 DEF Key, Dest
<1> QED
  BY <1>1, <1>3, <1>4, <1>5 DEF Now, Had, TwoEdges

\* After the root is set the log owes, with the half that is left, what has been inserted.
LEMMA SetRootNow ==
    ASSUME HeapInv, log \in Seq(Txs), TwoEdges, NEW tx \in Txs, SetRoot(tx)
    PROVE  /\ Now' = Then /\ TwoEdges'
           /\ log' = log \/ log' = Append(log, tx)
<1>1. /\ writer.pc = "root" /\ writer.edges \in Seq(Vertices \X Vertices) /\ writer.edges # <<>>
  BY DEF SetRoot, HeapInv, Types, WriterTypes, Path
<1>2. Len(writer.edges) \in Nat /\ writer.edges[1] \in Vertices \X Vertices
  BY <1>1
<1>3. Key = writer.edges[1][1] /\ Dest = writer.edges[1][2] /\ writer.edges[1] = <<Key, Dest>>
      /\ Key \in Vertices /\ Dest \in Vertices
  BY <1>1, <1>2 DEF Key, Dest
<1>4. CASE Len(writer.edges) > 1
  <2>1. Len(writer.edges) = 2 /\ writer.edges[2] = <<Dest, Key>>
    BY <1>1, <1>4 DEF TwoEdges
  <2>2. log' = log /\ writer'.pc = "enter" /\ writer'.edges = Tail(writer.edges)
    BY <1>4 DEF SetRoot, Resting
  <2>3. Len(Tail(writer.edges)) = 1 /\ Head(Tail(writer.edges)) = <<Dest, Key>>
    BY <1>1, <2>1
  <2>4. Key' = Dest /\ Dest' = Key
    BY <2>2, <2>3, SMTT(40) DEF Key, Dest
  <2>5. Half = {} /\ Half' = {<<Key, Dest>>}
    BY <2>1, <2>2, <2>3, <2>4 DEF Half
  <2>6. Now' = Then
    <3>1. \A v \in Vertices : {d \in Vertices : <<v, d>> \in {<<Key, Dest>>}}
                                  = IF v = Key THEN {Dest} ELSE {}
      BY <1>3
    <3> QED
      BY <2>2, <2>5, <3>1 DEF Now, Then, Had
  <2> QED
    BY <2>2, <2>3, <2>6 DEF TwoEdges
<1>5. CASE ~(Len(writer.edges) > 1)
  <2>1. Len(writer.edges) = 1
    BY <1>1, <1>2, <1>5 DEF TwoEdges
  <2>2. log' = Append(log, tx) /\ writer'.pc = "idle" /\ tx.edges[2] = <<Key, Dest>>
    BY <1>3, <1>5 DEF SetRoot, Resting
  <2>3. PICK e \in Vertices \X Vertices : tx.edges = <<e, <<e[2], e[1]>>>>
    BY DEF Txs
  <2>4. e = <<Dest, Key>>
    BY <2>2, <2>3
  <2>5. Store!EdgesOf(tx) = {<<Dest, Key>>, <<Key, Dest>>}
    BY <2>2, <2>3, <2>4 DEF Store!EdgesOf
  <2>6. Half = {<<Dest, Key>>} /\ Half' = {}
    BY <1>1, <2>1, <2>2 DEF Half
  <2>7. PICK n \in Nat : n = Len(log)
    OBVIOUS
  <2>8. Len(log') = n + 1 /\ log'[n + 1] = tx /\ \A i \in 1..n : log'[i] = log[i]
    BY <2>2, <2>7, AppendFacts
  <2>9. ASSUME NEW v \in Vertices
        PROVE  Store!NeighborsAt(log', v, n + 1)
                  = (Store!NeighborsAt(log, v, n) \cup {d \in Vertices : <<v, d>> \in Half})
                       \cup (IF v = Key THEN {Dest} ELSE {})
    <3>1. ASSUME NEW d \in Vertices
          PROVE  (\E i \in 1..n + 1 : <<v, d>> \in Store!EdgesOf(log'[i]))
                    <=> \/ \E i \in 1..n : <<v, d>> \in Store!EdgesOf(log[i])
                        \/ <<v, d>> \in Store!EdgesOf(tx)
      <4>1. 1..n + 1 = (1..n) \cup {n + 1}
        BY <2>7
      <4> QED
        BY <2>8, <4>1
    <3>2. ASSUME NEW d \in Vertices
          PROVE  <<v, d>> \in Store!EdgesOf(tx) <=> <<v, d>> \in Half \/ (v = Key /\ d = Dest)
      BY <2>5, <2>6
    <3> QED
      BY <1>3, <3>1, <3>2 DEF Store!NeighborsAt
  <2>10. Now' = Then
    BY <2>6, <2>7, <2>8, <2>9 DEF Now, Then, Had
  <2> QED
    BY <2>2, <2>10 DEF TwoEdges
<1> QED
  BY <1>4, <1>5

\* The writer's part of the invariant.
LEMMA WriterStep ==
    ASSUME HeapInv, HeapInv', [Next]_vars, log \in Seq(Txs), TwoEdges, WriterHolds(Now, Then)
    PROVE  /\ WriterHolds(Now, Then)' /\ TwoEdges'
           /\ log' = log \/ \E tx \in Txs : log' = Append(log, tx)
<1>1. PICK W : W = Now
  OBVIOUS
<1>2. PICK V : V = Then
  OBVIOUS
<1>3. WriterHolds(W, V) /\ Grown(W, V) /\ WriterTypes
  BY <1>1, <1>2, GrownThen DEF HeapInv, Types
<1>4. ASSUME NEW tx \in Txs, Begin(tx)
      PROVE  WriterHolds(Now, Then)' /\ TwoEdges' /\ log' = log
  <2>1. PICK U : U = Then'
    OBVIOUS
  <2>2. WriterHolds(W, U)' /\ W = Now' /\ TwoEdges'
    BY <1>1, <1>3, <1>4, BeginHolds, BeginNow
  <2> QED
    BY <1>4, <2>1, <2>2, WriterHoldsNext DEF Begin, storeVars
<1>5. ASSUME NEW tx \in Txs, SetRoot(tx)
      PROVE  /\ WriterHolds(Now, Then)' /\ TwoEdges'
             /\ log' = log \/ log' = Append(log, tx)
  <2>1. PICK U : U = Then'
    OBVIOUS
  <2>2. WriterHolds(V, U)'
    BY <1>3, <1>5, SetRootHolds
  <2>3. V = Now' /\ TwoEdges' /\ (log' = log \/ log' = Append(log, tx))
    BY <1>2, <1>5, SetRootNow
  <2> QED
    BY <2>1, <2>2, <2>3, WriterHoldsNext
<1>6. ASSUME WriterHolds(W, V)', log' = log, writer'.edges = writer.edges,
             writer.pc # "idle" <=> writer'.pc # "idle"
      PROVE  WriterHolds(Now, Then)' /\ TwoEdges'
  <2>1. Now' = W /\ Then' = V /\ TwoEdges'
    BY <1>1, <1>2, <1>6, NowStays
  <2> QED
    BY <1>6, <2>1, WriterHoldsNext
<1>7. ASSUME Enter \/ Descend \/ Build \/ Look \/ Put \/ Join
      PROVE  /\ log' = log /\ writer'.edges = writer.edges
             /\ writer.pc # "idle" /\ writer'.pc # "idle"
  <2>1. CASE Enter
    BY <1>3, <2>1 DEF Enter, WriterTypes, storeVars
  <2>2. CASE Descend
    BY <1>3, <2>2 DEF Descend, WriterTypes, storeVars
  <2>3. CASE Build
    BY <1>3, <2>3 DEF Build, WriterTypes, storeVars
  <2>4. CASE Look
    BY <1>3, <2>4 DEF Look, WriterTypes, storeVars
  <2>5. CASE Put
    BY <1>3, <2>5 DEF Put, WriterTypes, storeVars
  <2>6. CASE Join
    BY <1>3, <2>6 DEF Join, WriterTypes, storeVars
  <2> QED
    BY <1>7, <2>1, <2>2, <2>3, <2>4, <2>5, <2>6
<1>8. ASSUME Enter \/ Descend \/ Build \/ Look \/ Put \/ Join
      PROVE  WriterHolds(W, V)'
  BY <1>3, <1>8, EnterHolds, DescendHolds, BuildHolds, LookHolds, PutHolds, JoinHolds
<1>9. CASE Enter \/ Descend \/ Build \/ Look \/ Put \/ Join
  BY <1>6, <1>7, <1>8, <1>9
<1>10. CASE UNCHANGED <<writer, root, log>>
  <2>1. WriterHolds(W, V)'
    BY <1>3, <1>10, OthersHold
  <2> QED
    BY <1>6, <1>10, <2>1
<1>11. ASSUME NEW r \in Readers, TakeRoot(r) \/ CountRoot(r) \/ Answer(r) \/ Close(r)
       PROVE  UNCHANGED <<writer, root, log>>
  BY <1>11 DEF TakeRoot, CountRoot, Answer, Close, heapVars, storeVars
<1>12. ASSUME NEW r \in Readers, NEW op \in ReadOps, FindRecord(r, op)
       PROVE  UNCHANGED <<writer, root, log>>
  BY <1>12 DEF FindRecord, storeVars
<1>13. ASSUME NEW t \in Threads, Drop(t)
       PROVE  UNCHANGED <<writer, root, log>>
  BY <1>13 DEF Drop, storeVars
<1>14. UNCHANGED vars => UNCHANGED <<writer, root, log>>
  BY DEF vars, heapVars, storeVars
<1>15. \/ \E tx \in Txs : Begin(tx) \/ SetRoot(tx)
       \/ Enter \/ Descend \/ Build \/ Look \/ Put \/ Join
       \/ UNCHANGED <<writer, root, log>>
  BY <1>11, <1>12, <1>13, <1>14 DEF Next
<1> QED
  BY <1>4, <1>5, <1>7, <1>9, <1>10, <1>15

-----------------------------------------------------------------------------
(* The readers *)

\* A record in a reader's hands is not changed: its tree is counted.
LEMMA PinKept ==
    ASSUME HeapInv, [Next]_vars, NEW r \in Readers, reader[r].pc = "read",
           NEW c, c = reader[r].pin
    PROVE  block'[c].dests = block[c].dests
<1>1. c \in Blocks /\ Pointer[PinPlace(r)] = BlockRef(c) /\ PinPlace(r) \in Places
  BY PointerAt, PlaceFacts, Constants DEF OfPin, HeapInv, Types, ReaderTypes, Snapshots, Blocks
<1>2. block[c].ref > 0
  BY <1>1, Held DEF HeapInv, Types
<1>3. CASE UNCHANGED block
  BY <1>3
<1>4. ASSUME NEW tx \in Txs, Begin(tx) \/ SetRoot(tx)
      PROVE  UNCHANGED block
  BY <1>4 DEF Begin, SetRoot, heapVars
<1>5. CASE Enter \/ Descend \/ Look \/ Join
  BY <1>3, <1>5 DEF Enter, Descend, Look, Join, heapVars
<1>6. CASE Build
  <2>1. PICK n : n = Len(writer.stack)
    OBVIOUS
  <2>2. PICK a : a = writer.stack[n].a
    OBVIOUS
  <2>3. PICK o : o = writer'.at
    OBVIOUS
  <2>4. Building(n, a, o)
    BY <2>1, <2>2, <2>3, StackFacts DEF Building, HeapInv, Types
  <2>5. CASE Frame.copy
    BY <1>1, <1>6, <2>4, <2>5, CopyFacts
  <2>6. CASE ~Frame.copy
    BY <1>6, <2>6 DEF Build
  <2> QED
    BY <2>5, <2>6
<1>7. CASE Put
  <2>1. PICK a : a = writer.at
    OBVIOUS
  <2>2. PICK b : b = node[a].nb
    OBVIOUS
  <2>3. Putting(a, b)
    BY <2>1, <2>2 DEF Putting
  <2>4. /\ a \in Nodes /\ b \in Blocks /\ Pointer[RecordLink(a)] = BlockRef(b)
    BY <1>7, <2>3, PutFacts
  <2>5. HeapTypes
    BY DEF HeapInv, Types
  <2>6. CASE ~writer.extra
    <3>1. /\ block[b].ref = 1
          /\ block' = [block EXCEPT ![b].dests = block[b].dests \cup {Dest}]
      BY <1>7, <2>3, <2>6, PutFacts
    <3>2. RecordLink(a) \in Places /\ RecordLink(a) # PinPlace(r)
      BY <2>4, PlaceFacts, PlacesDiffer
    <3>3. c # b
      BY <1>1, <2>4, <3>1, <3>2, Held DEF HeapInv, Types
    <3> QED
      BY <1>1, <2>5, <3>1, <3>3 DEF HeapTypes
  <2>7. CASE writer.extra
    <3>1. /\ block[Fresh(block)].ref = 0
          /\ block' = [block EXCEPT ![Fresh(block)] = [dests |-> block[b].dests \cup {Dest}, ref |-> 1]]
      BY <1>7, <2>3, <2>7, PutFacts
    <3>2. c # Fresh(block)
      BY <1>2, <3>1
    <3> QED
      BY <1>1, <2>5, <3>1, <3>2 DEF HeapTypes
  <2> QED
    BY <2>6, <2>7
<1>8. ASSUME NEW s \in Readers, TakeRoot(s) \/ CountRoot(s) \/ Answer(s) \/ Close(s)
      PROVE  UNCHANGED block
  BY <1>8 DEF TakeRoot, CountRoot, Answer, Close, heapVars
<1>9. ASSUME NEW s \in Readers, NEW op \in ReadOps, FindRecord(s, op)
      PROVE  block'[c].dests = block[c].dests
  <2>1. PICK b : Finding(s, op, b)
    BY DEF Finding
  <2>2. Raised(b)
    BY <1>9, <2>1, FindRecordFacts
  <2> QED
    BY <1>1, <2>2 DEF Raised
<1>10. ASSUME NEW t \in Threads, Drop(t)
       PROVE  block'[c].dests = block[c].dests
  <2>1. PICK s : s = dropping[t]
    OBVIOUS
  <2>2. PICK ref : ref = Head(s)
    OBVIOUS
  <2>3. Returned(t, s, ref)
    BY <2>1, <2>2 DEF Returned
  <2> QED
    BY <1>1, <1>10, <2>3, DropCounts
<1>11. CASE UNCHANGED vars
  BY <1>3, <1>11 DEF vars, heapVars
<1> QED
  BY <1>3, <1>4, <1>5, <1>6, <1>7, <1>8, <1>9, <1>10, <1>11 DEF Next

LogGrows == log' = log \/ \E tx \in Txs : log' = Append(log, tx)

\* What a snapshot has is not changed by a step that does not open, answer or close it.
LEMMA ReaderStays ==
    ASSUME HeapInv, [Next]_vars, log \in Seq(Txs), LogGrows, NEW r \in Readers, ReaderHas(r),
           reader'[r].root = reader[r].root, snapshot'[r] = snapshot[r],
           reader'[r].pc = reader[r].pc, reader'[r].pin = reader[r].pin,
           reader'[r].op = reader[r].op
    PROVE  ReaderHas(r)'
<1>1. /\ Len(log) \in Nat /\ Len(log') \in Nat /\ Len(log) <= Len(log')
      /\ \A ts \in 0..Len(log) : Had(ts)' = Had(ts)
  BY HadStays DEF LogGrows
<1>2. (Open(r)' <=> Open(r)) /\ (reader[r].pc = "read" => Open(r))
  BY DEF Open
<1>3. CASE ~Open(r)
  BY <1>2, <1>3 DEF ReaderHas, Open
<1>4. CASE Open(r)
  <2>1. PICK ts : ts = snapshot[r]
    OBVIOUS
  <2>2. PICK D : D = Had(ts)
    OBVIOUS
  <2>3. PICK a : a = reader[r].root
    OBVIOUS
  <2>4. ts \in 0..Len(log) /\ a \in Still /\ Holds(a, D)
    BY <1>4, <2>1, <2>2, <2>3, SnapshotStill DEF ReaderHas
  <2>5. Holds(a, D)' /\ Had(ts)' = D /\ ts \in 0..Len(log')
    BY <1>1, <2>2, <2>4, HoldsStays
  <2>6. Holds(reader[r].root, Had(snapshot[r]))'
    BY <2>1, <2>3, <2>5 DEF Holds, Closed, Records
  <2>7. reader[r].pc = "read" => block'[reader'[r].pin].dests = D[reader[r].op.u]
    BY <2>1, <2>2, PinKept DEF ReaderHas
  <2> QED
    BY <1>2, <1>4, <2>1, <2>5, <2>6, <2>7 DEF ReaderHas
<1> QED
  BY <1>3, <1>4

\* A snapshot has the edges of the log when it is taken, since nobody writes then.
LEMMA CountRootHas ==
    ASSUME HeapInv, NEW r \in Readers, CountRoot(r), log \in Seq(Txs), DOMAIN snapshot = Readers,
           WriterHolds(Now, Then)
    PROVE  ReaderHas(r)'
<1>1. /\ reader[r].pc = "count" /\ reader' = [reader EXCEPT ![r].pc = "open"]
      /\ snapshot' = [snapshot EXCEPT ![r] = Len(log)] /\ log' = log /\ [Next]_vars /\ ReaderTypes
  BY DEF CountRoot, Next, HeapInv, Types
<1>2. /\ reader'[r].pc = "open" /\ reader'[r].root = reader[r].root
      /\ snapshot'[r] = Len(log) /\ Len(log) \in Nat
  BY <1>1 DEF ReaderTypes
<1>3. writer.pc = "idle" /\ reader[r].root = root
  BY <1>1 DEF HeapInv, Snapshots
<1>4. PICK a : a = root
  OBVIOUS
<1>5. PICK D : D = Had(Len(log))
  OBVIOUS
<1>6. Now = D
  BY <1>3, <1>5 DEF Now, Half, Had
<1>7. a \in Still /\ Holds(a, D)
  <2>1. Holds(root, Now)
    BY <1>3 DEF WriterHolds
  <2> QED
    BY <1>3, <1>4, <1>6, <2>1, RootStill
<1>8. Holds(a, D)'
  BY <1>1, <1>7, HoldsStays
<1>9. Had(Len(log))' = D
  BY <1>1, <1>5 DEF Had
<1>10. Holds(reader[r].root, Had(snapshot[r]))'
  <2>1. D = (Had(snapshot[r]))'
    BY <1>1, <1>2, <1>9 DEF Had
  <2> QED
    BY <1>2, <1>3, <1>4, <1>8, <2>1 DEF Holds, Closed, Records
<1> QED
  BY <1>1, <1>2, <1>10 DEF ReaderHas, Open

\* The record that is found is that of the vertex, with the edges of the snapshot.
LEMMA FindRecordHas ==
    ASSUME HeapInv, NEW r \in Readers, NEW op \in ReadOps, FindRecord(r, op), log \in Seq(Txs),
           ReaderHas(r)
    PROVE  ReaderHas(r)'
<1>1. PICK b : Finding(r, op, b)
  BY DEF Finding
<1>2. /\ reader[r].pc = "open" /\ b \in Blocks
      /\ reader'[r].pc = "read" /\ reader'[r].pin = b /\ reader'[r].op = op
      /\ reader'[r].root = reader[r].root /\ Raised(b)
  BY <1>1, FindRecordFacts
<1>3. log' = log /\ snapshot' = snapshot /\ [Next]_vars /\ Open(r) /\ Open(r)'
  BY <1>2 DEF FindRecord, storeVars, Next, Open
<1>4. PICK ts : ts = snapshot[r]
  OBVIOUS
<1>5. PICK D : D = Had(ts)
  OBVIOUS
<1>6. PICK a : a = reader[r].root
  OBVIOUS
<1>7. ts \in 0..Len(log) /\ a \in Still /\ Holds(a, D) /\ node[a].key = RootVertex
  BY <1>3, <1>4, <1>5, <1>6, SnapshotStill DEF ReaderHas, HeapInv, Snapshots
<1>8. PICK x : x = Find(a, op.u)
  OBVIOUS
<1>9. x \in TreeNodes(a) /\ node[x].key = op.u /\ op.u \in Vertices
  BY <1>7, <1>8, Found, Constants
<1>10. block[b].dests = D[op.u]
  <2>1. PICK S \in SUBSET Nodes : a \in S /\ Closed(S, D)
    BY <1>7 DEF Holds
  <2>2. PICK links : links = [y \in DOMAIN node |-> Children(y)]
    OBVIOUS
  <2>3. \A y \in S : links[y] \subseteq S
    BY <2>1, <2>2 DEF Closed, HeapInv, Types, HeapTypes
  <2>4. Reach(links, a) \subseteq S
    BY <2>1, <2>3, ReachStays
  <2>5. x \in S
    BY <1>9, <2>2, <2>4 DEF TreeNodes
  <2>6. b = node[x].nb
    BY <1>1, <1>6, <1>8 DEF Finding
  <2> QED
    BY <1>9, <2>1, <2>5, <2>6 DEF Closed, Records
<1>11. block'[b].dests = D[op.u]
  BY <1>2, <1>10 DEF Raised
<1>12. Holds(a, D)' /\ Had(ts)' = D
  BY <1>3, <1>5, <1>7, HoldsStays DEF Had
<1>13. (Had(snapshot[r]))' = D
  BY <1>3, <1>4, <1>12 DEF Had
<1>14. Holds(reader[r].root, Had(snapshot[r]))'
  BY <1>2, <1>6, <1>12, <1>13 DEF Holds, Closed, Records
<1> QED
  BY <1>2, <1>3, <1>4, <1>7, <1>11, <1>13, <1>14 DEF ReaderHas

\* The readers' part of the invariant.
LEMMA ReaderStep ==
    ASSUME HeapInv, [Next]_vars, StoreTypes, WriterHolds(Now, Then), LogGrows,
           NEW r \in Readers, ReaderHas(r)
    PROVE  ReaderHas(r)'
<1>1. ReaderTypes /\ log \in Seq(Txs) /\ DOMAIN snapshot = Readers
  BY DEF HeapInv, Types, StoreTypes
<1>2. CASE reader'[r] = reader[r] /\ snapshot'[r] = snapshot[r]
  BY <1>1, <1>2, ReaderStays
<1>3. ASSUME NEW tx \in Txs, Begin(tx) \/ SetRoot(tx)
      PROVE  reader'[r] = reader[r] /\ snapshot'[r] = snapshot[r]
  BY <1>3 DEF Begin, SetRoot, storeVars
<1>4. CASE Enter \/ Descend \/ Build \/ Look \/ Put \/ Join
  BY <1>2, <1>4 DEF Enter, Descend, Build, Look, Put, Join, storeVars
<1>5. ASSUME NEW s \in Readers, TakeRoot(s)
      PROVE  ReaderHas(r)'
  <2>1. CASE s = r
    <3>1. reader[r].pc = "none" /\ reader'[r].pc = "count" /\ snapshot' = snapshot
      BY <1>1, <1>5, <2>1 DEF TakeRoot, ReaderTypes, Away, storeVars
    <3> QED
      BY <3>1 DEF ReaderHas, Open
  <2>2. CASE s # r
    BY <1>1, <1>2, <1>5, <2>2 DEF TakeRoot, ReaderTypes, storeVars
  <2> QED
    BY <2>1, <2>2
<1>6. ASSUME NEW s \in Readers, CountRoot(s)
      PROVE  ReaderHas(r)'
  <2>1. CASE s = r
    BY <1>1, <1>6, <2>1, CountRootHas
  <2>2. CASE s # r
    BY <1>1, <1>2, <1>6, <2>2 DEF CountRoot, ReaderTypes
  <2> QED
    BY <2>1, <2>2
<1>7. ASSUME NEW s \in Readers, Answer(s)
      PROVE  ReaderHas(r)'
  <2>1. CASE s = r
    <3>1. /\ reader[r].pc = "read" /\ reader'[r].pc = "open" /\ reader'[r].root = reader[r].root
          /\ snapshot' = snapshot /\ log' = log
      BY <1>1, <1>7, <2>1 DEF Answer, ReaderTypes
    <3>2. PICK ts : ts = snapshot[r]
      OBVIOUS
    <3>3. PICK D : D = Had(ts)
      OBVIOUS
    <3>4. PICK a : a = reader[r].root
      OBVIOUS
    <3>5. ts \in 0..Len(log) /\ a \in Still /\ Holds(a, D)
      BY <3>1, <3>2, <3>3, <3>4, SnapshotStill DEF ReaderHas, Open
    <3>6. Holds(a, D)'
      BY <3>5, HoldsStays
    <3>7. D = (Had(snapshot[r]))'
      BY <3>1, <3>2, <3>3 DEF Had
    <3>8. Holds(reader[r].root, Had(snapshot[r]))'
      BY <3>1, <3>4, <3>6, <3>7 DEF Holds, Closed, Records
    <3> QED
      BY <3>1, <3>2, <3>5, <3>8 DEF ReaderHas, Open
  <2>2. CASE s # r
    BY <1>1, <1>2, <1>7, <2>2 DEF Answer, ReaderTypes
  <2> QED
    BY <2>1, <2>2
<1>8. ASSUME NEW s \in Readers, Close(s)
      PROVE  ReaderHas(r)'
  <2>1. CASE s = r
    <3>1. reader'[r].pc = "none" /\ snapshot'[r] = NoSnapshot
      BY <1>1, <1>8, <2>1 DEF Close, ReaderTypes, Away
    <3> QED
      BY <3>1 DEF ReaderHas, Open
  <2>2. CASE s # r
    BY <1>1, <1>2, <1>8, <2>2 DEF Close, ReaderTypes
  <2> QED
    BY <2>1, <2>2
<1>9. ASSUME NEW s \in Readers, NEW op \in ReadOps, FindRecord(s, op)
      PROVE  ReaderHas(r)'
  <2>1. CASE s = r
    BY <1>1, <1>9, <2>1, FindRecordHas
  <2>2. CASE s # r
    BY <1>1, <1>2, <1>9, <2>2 DEF FindRecord, ReaderTypes, storeVars
  <2> QED
    BY <2>1, <2>2
<1>10. ASSUME NEW t \in Threads, Drop(t)
       PROVE  reader'[r] = reader[r] /\ snapshot'[r] = snapshot[r]
  BY <1>10 DEF Drop, storeVars
<1>11. CASE UNCHANGED vars
  BY <1>2, <1>11 DEF vars, storeVars
<1> QED
  BY <1>2, <1>3, <1>4, <1>5, <1>6, <1>7, <1>8, <1>9, <1>10, <1>11 DEF Next

LEMMA DomainsStay ==
    ASSUME StoreTypes, LogGrows, [Next]_vars
    PROVE  StoreTypes'
<1>1. log' \in Seq(Txs)
  BY HadStays DEF StoreTypes, LogGrows
<1>2. snapshot' = snapshot \/ \E r \in Readers : \E e : snapshot' = [snapshot EXCEPT ![r] = e]
  BY DEF Next, vars, storeVars, Begin, SetRoot, Enter, Descend, Build, Look, Put, Join, TakeRoot,
         CountRoot, Answer, Close, FindRecord, Drop
<1>3. answer' = answer \/ \E r \in Readers : \E e : answer' = [answer EXCEPT ![r] = e]
  BY DEF Next, vars, storeVars, Begin, SetRoot, Enter, Descend, Build, Look, Put, Join, TakeRoot,
         CountRoot, Answer, Close, FindRecord, Drop
<1> QED
  BY <1>1, <1>2, <1>3 DEF StoreTypes

LEMMA StoreStep ==
    ASSUME HeapInv, HeapInv', StoreInv, [Next]_vars
    PROVE  StoreInv' /\ LogGrows
<1>1. StoreTypes /\ log \in Seq(Txs) /\ TwoEdges /\ WriterHolds(Now, Then)
      /\ \A r \in Readers : ReaderHas(r)
  BY DEF StoreInv, StoreTypes
<1>2. WriterHolds(Now, Then)' /\ TwoEdges' /\ LogGrows
  BY <1>1, WriterStep DEF LogGrows
<1>3. StoreTypes'
  BY <1>1, <1>2, DomainsStay
<1>4. ASSUME NEW r \in Readers
      PROVE  ReaderHas(r)'
  BY <1>1, <1>2, ReaderStep
<1> QED
  BY <1>2, <1>3, <1>4 DEF StoreInv

LEMMA StoreInit ==
    ASSUME Init
    PROVE  StoreInv
<1>1. /\ log = <<>> /\ root = RootVertex /\ writer = Resting
      /\ snapshot = [r \in Readers |-> NoSnapshot] /\ answer = [r \in Readers |-> NoAnswer]
      /\ \A r \in Readers : reader[r].pc = "none"
  BY DEF Init, Away
<1>2. writer.pc = "idle" /\ ~Built /\ Waiting = 0
  BY <1>1 DEF Resting, Built, Waiting
<1>3. StoreTypes
  BY <1>1 DEF StoreTypes
<1>4. \A v \in Vertices : Now[v] = {}
  <2>1. Half = {} /\ Len(log) = 0
    BY <1>1, <1>2 DEF Half
  <2>2. \A v : Store!NeighborsAt(log, v, 0) = {}
    BY DEF Store!NeighborsAt
  <2> QED
    BY <2>1, <2>2 DEF Now, Had
<1>5. ASSUME NEW x \in Vertices
      PROVE  Children(x) \subseteq Vertices /\ Records(x, Now)
  <2>1. x \in 1..NumNodes /\ x \in 1..NumBlocks
    BY Constants DEF Nodes, Blocks
  <2>2. node[x] = [key |-> x, nb |-> x, lc |-> Left[x], rc |-> Right[x], ref |-> 1]
    BY <2>1 DEF Init
  <2>3. block[x] = [dests |-> {}, ref |-> 1]
    BY <2>1 DEF Init
  <2>4. Left[x] \in Vertices \cup {Null} /\ Right[x] \in Vertices \cup {Null}
    BY Constants
  <2> QED
    BY <1>4, <2>2, <2>3, <2>4 DEF Children, Records
<1>6. Holds(root, Now)
  <2>1. RootVertex \in Vertices /\ Vertices \in SUBSET Nodes
    BY Constants
  <2>2. Closed(Vertices, Now)
    BY <1>5 DEF Closed
  <2> QED
    BY <1>1, <2>1, <2>2 DEF Holds
<1>7. WriterHolds(Now, Then)
  BY <1>2, <1>6 DEF WriterHolds
<1>8. \A r \in Readers : ReaderHas(r)
  BY <1>1 DEF ReaderHas, Open
<1> QED
  BY <1>2, <1>3, <1>7, <1>8 DEF StoreInv, TwoEdges

-----------------------------------------------------------------------------
(* The trees are a store *)

\* What a reader is told is what the store owes it.
LEMMA AnswerIsOwed ==
    ASSUME HeapInv, StoreInv, NEW r \in Readers, Answer(r)
    PROVE  Store!Answer(r, reader[r].op) /\ reader[r].op \in ReadOps
<1>1. PICK op : op = reader[r].op
  OBVIOUS
<1>2. PICK ts : ts = snapshot[r]
  OBVIOUS
<1>3. PICK dests : dests = block[reader[r].pin].dests
  OBVIOUS
<1>4. /\ reader[r].pc = "read" /\ ReaderHas(r) /\ log' = log /\ snapshot' = snapshot
      /\ answer' = [answer EXCEPT ![r] =
            [op |-> op, ts |-> ts, value |-> IF op.kind = "edges" THEN dests ELSE op.v \in dests]]
  BY <1>1, <1>2, <1>3 DEF Answer, StoreInv
<1>5. op \in ReadOps
  BY <1>1, <1>4 DEF HeapInv, Snapshots
<1>6. op.kind \in {"edges", "has_edge"} /\ op.u \in Vertices
  BY <1>5, HeapAssumption
<1>7. dests = Store!NeighborsAt(log, op.u, ts)
  BY <1>1, <1>2, <1>3, <1>4, <1>6 DEF ReaderHas, Had
<1>8. ts # NoSnapshot
  BY <1>2, <1>4, HeapAssumption DEF ReaderHas, Open
<1>9. Store!Owed(log, op, ts) = IF op.kind = "edges" THEN dests ELSE op.v \in dests
  <2>1. CASE op.kind = "edges"
    BY <1>7, <2>1 DEF Store!Owed
  <2>2. CASE op.kind = "has_edge"
    BY <1>7, <2>2 DEF Store!Owed
  <2> QED
    BY <1>6, <2>1, <2>2
<1> QED
  BY <1>1, <1>2, <1>4, <1>5, <1>8, <1>9 DEF Store!Answer

LEMMA StepIsStoreStep ==
    ASSUME HeapInv, HeapInv', StoreInv, [Next]_vars
    PROVE  [Store!Next]_(Store!storeVars)
<1>1. CASE UNCHANGED <<log, snapshot, answer>>
  BY <1>1 DEF Store!storeVars
<1>2. ASSUME NEW tx \in Txs, Begin(tx)
      PROVE  UNCHANGED <<log, snapshot, answer>>
  BY <1>2 DEF Begin, storeVars
<1>3. ASSUME NEW tx \in Txs, SetRoot(tx)
      PROVE  UNCHANGED <<log, snapshot, answer>> \/ Store!Commit(tx)
  BY <1>3 DEF SetRoot, Store!Commit
<1>4. CASE Enter \/ Descend \/ Build \/ Look \/ Put \/ Join
  BY <1>1, <1>4 DEF Enter, Descend, Build, Look, Put, Join, storeVars
<1>5. ASSUME NEW r \in Readers, TakeRoot(r)
      PROVE  UNCHANGED <<log, snapshot, answer>>
  BY <1>5 DEF TakeRoot, storeVars
<1>6. ASSUME NEW r \in Readers, CountRoot(r)
      PROVE  Store!Begin(r)
  <2>1. snapshot[r] = NoSnapshot
    BY <1>6 DEF CountRoot, StoreInv, ReaderHas, Open
  <2> QED
    BY <1>6, <2>1 DEF CountRoot, Store!Begin
<1>7. ASSUME NEW r \in Readers, Answer(r)
      PROVE  \E op \in ReadOps : Store!Answer(r, op)
  BY <1>7, AnswerIsOwed
<1>8. ASSUME NEW r \in Readers, Close(r)
      PROVE  Store!End(r)
  <2>1. snapshot[r] # NoSnapshot
    BY <1>8, HeapAssumption DEF Close, StoreInv, ReaderHas, Open
  <2> QED
    BY <1>8, <2>1 DEF Close, Store!End
<1>9. ASSUME NEW r \in Readers, NEW op \in ReadOps, FindRecord(r, op)
      PROVE  UNCHANGED <<log, snapshot, answer>>
  BY <1>9 DEF FindRecord, storeVars
<1>10. ASSUME NEW t \in Threads, Drop(t)
       PROVE  UNCHANGED <<log, snapshot, answer>>
  BY <1>10 DEF Drop, storeVars
<1>11. CASE UNCHANGED vars
  BY <1>1, <1>11 DEF vars, storeVars
<1> QED
  BY <1>1, <1>2, <1>3, <1>4, <1>5, <1>6, <1>7, <1>8, <1>9, <1>10, <1>11 DEF Next, Store!Next

\* What the live tree and the snapshots hold is what the log says they hold, however the
\* readers and the collector interleave with an update (update_j, copy_if, join, GC).
THEOREM TreesHoldTheLog ==
    ASSUME Quiet
    PROVE  Spec => []StoreInv
<1>1. Init => StoreInv
  BY StoreInit
<1>2. HeapInv /\ HeapInv' /\ StoreInv /\ [Next]_vars => StoreInv'
  BY StoreStep
<1>3. Spec => []HeapInv
  BY HeapInvHolds
<1> QED
  BY <1>1, <1>2, <1>3, PTL DEF Spec

\* The reference-counted trees implement the store with snapshots: every answer of
\* has_edge and edges is the one that the transactions committed before the snapshot owe,
\* for every loaded tree and any number of readers and writes.
THEOREM TreesAreAStore ==
    ASSUME Quiet
    PROVE  Spec => TreesImplementStore
<1>1. Init => Store!Init
  BY DEF Init, Store!Init
<1>2. HeapInv /\ HeapInv' /\ StoreInv /\ [Next]_vars => [Store!Next]_(Store!storeVars)
  BY StepIsStoreStep
<1>3. Spec => []HeapInv
  BY HeapInvHolds
<1>4. Spec => []StoreInv
  BY TreesHoldTheLog
<1> QED
  BY <1>1, <1>2, <1>3, <1>4, PTL DEF Spec, TreesImplementStore, Store!Spec
=============================================================================
