------------------------------ MODULE CowHeap ------------------------------
(***************************************************************************)
(* The trees of the copy-on-write container, avl_tree2pam_cow: a tree of   *)
(* vertices whose nodes hold the neighbour records, a record holding a     *)
(* tree of its own, every node of both with a reference count.  An update  *)
(* changes a node in place when its count is 1 and copies it otherwise; a  *)
(* snapshot is one more reference to the root.  Every read of a count,     *)
(* increment, decrement and store that other threads can see is a step of  *)
(* its own.                                                                *)
(*                                                                         *)
(* The vertices are loaded: inserting them rotates, inserting edges does   *)
(* not.  The tree of a record is one node, its block.  There is one        *)
(* writer at a time (see CowTx); its edges are new.                        *)
(*                                                                         *)
(* Readers go through the root of their snapshot, which they have counted: *)
(* edges() and has_edge().  has_vertex(), degree(), begin() and            *)
(* intersect() of a snapshot walk the live index without counting anything *)
(* (avl2pam_cow.cpp:350, 356, 387, 403) and are not in the module: beside  *)
(* a writer they may well reach a node that was freed.                     *)
(***************************************************************************)
EXTENDS Integers, Sequences, FiniteSets, SequencesExt

CONSTANTS
    Vertices,      \* the loaded vertices, numbers from 1
    Left, Right,   \* the shape of the loaded tree: the child of a vertex, or Null
    RootVertex,
    NumNodes, NumBlocks,     \* bounds on the memory: enough not to be met
    Writer, Readers,
    Quiet,         \* snapshots are taken while no write runs, as the driver does
    MaxWrites,     \* bound on the committed transactions
    ReadOps,       \* the reads a snapshot is asked
    NoSnapshot, NoAnswer     \* also: no read

Null == 0

\* The loaded tree is a search tree: every vertex hangs once under the root, what
\* is below its left child is smaller and what is below its right child greater.
SearchTree ==
    /\ RootVertex \in Vertices
    /\ Left \in [Vertices -> Vertices \cup {Null}] /\ Right \in [Vertices -> Vertices \cup {Null}]
    /\ \E below \in [Vertices \cup {Null} -> SUBSET Vertices] :
          /\ below[Null] = {} /\ below[RootVertex] = Vertices
          /\ \A v \in Vertices :
                /\ below[v] = {v} \cup below[Left[v]] \cup below[Right[v]]
                /\ \A u \in below[Left[v]] : u < v
                /\ \A u \in below[Right[v]] : v < u
    /\ \E depth \in [Vertices -> 0..Cardinality(Vertices) - 1] :
          /\ \A v \in Vertices : depth[v] = 0 <=> v = RootVertex
          /\ \A v \in Vertices, c \in Vertices :
                c \in {Left[v], Right[v]} => depth[c] = depth[v] + 1
    /\ \A v, u, c \in Vertices :
          c \in {Left[v], Right[v]} /\ c \in {Left[u], Right[u]} => v = u

ASSUME HeapAssumption ==
    /\ Quiet \in BOOLEAN /\ Writer \notin Readers
    /\ NumNodes \in Nat /\ NumBlocks \in Nat
    /\ Vertices \subseteq 1..NumNodes /\ Vertices \subseteq 1..NumBlocks
    /\ SearchTree
    /\ \A op \in ReadOps : op.kind \in {"edges", "has_edge"} /\ op.u \in Vertices
    /\ NoSnapshot \notin Nat

VARIABLES
    node,       \* node[a]: key, record (nb), children and count; 0 when free
    block,      \* block[b]: destinations and count
    root,       \* m_vertex_index
    writer,     \* where the writer is in update()
    reader,     \* per reader: pc, its root, the block it holds
    dropping,   \* per thread: references it still has to give back
    log, snapshot, answer,   \* committed transactions, what readers hold and were told
    seen        \* the edges a snapshot had when it was taken

heapVars  == <<node, block, root>>
storeVars == <<log, snapshot, answer, seen>>
vars      == <<heapVars, writer, reader, dropping, storeVars>>

Threads == Readers \cup {Writer}

-----------------------------------------------------------------------------
(* What the trees hold *)

Children(a) == {node[a].lc, node[a].rc} \ {Null}

\* What can be reached from a along the links.
Reach(links, a) ==
    LET within[n \in 0..Cardinality(Vertices)] ==
            IF n = 0 THEN {a}
            ELSE within[n-1] \cup UNION {links[x] : x \in within[n-1]}
    IN  within[Cardinality(Vertices)]

\* The nodes of the tree under a.
TreeNodes(a) == Reach([x \in DOMAIN node |-> Children(x)], a)

\* find(key): a walk along the search tree.
Find(a, key) == CHOOSE x \in TreeNodes(a) : node[x].key = key

Content(a) ==
    UNION {{node[x].key} \X block[node[x].nb].dests : x \in TreeNodes(a)}

NodeRef(a)  == [kind |-> "node", at |-> a]
BlockRef(b) == [kind |-> "block", at |-> b]

Fresh(heap) == CHOOSE a \in DOMAIN heap :
    heap[a].ref = 0 /\ \A x \in DOMAIN heap : heap[x].ref = 0 => a <= x

\* GC::increment on each node of a set.
Incremented(heap, S) ==
    [a \in DOMAIN heap |-> IF a \in S THEN [heap[a] EXCEPT !.ref = @ + 1] ELSE heap[a]]

NoNode  == [key |-> Null, nb |-> Null, lc |-> Null, rc |-> Null, ref |-> 0]
NoBlock == [dests |-> {}, ref |-> 0]
Resting == [pc |-> "idle", edges |-> <<>>, at |-> Null, extra |-> FALSE,
            stack |-> <<>>, made |-> Null]
Away    == [pc |-> "none", root |-> Null, pin |-> Null, op |-> NoAnswer]

Init ==
    /\ node = [a \in 1..NumNodes |->
                IF a \in Vertices
                THEN [key |-> a, nb |-> a, lc |-> Left[a], rc |-> Right[a], ref |-> 1]
                ELSE NoNode]
    /\ block = [b \in 1..NumBlocks |->
                IF b \in Vertices THEN [dests |-> {}, ref |-> 1] ELSE NoBlock]
    /\ root = RootVertex
    /\ writer = Resting
    /\ reader = [r \in Readers |-> Away]
    /\ dropping = [t \in Threads |-> <<>>]
    /\ log = <<>>
    /\ snapshot = [r \in Readers |-> NoSnapshot]
    /\ answer = [r \in Readers |-> NoAnswer]
    /\ seen = [r \in Readers |-> {}]

-----------------------------------------------------------------------------
(* Giving references back *)

\* Mutant: the children of a freed node keep its references.
Freed_Node(ref) ==
    IF ref.kind = "block" THEN <<>> ELSE <<BlockRef(node[ref.at].nb)>>

ChildRef(a) == IF a = Null THEN <<>> ELSE <<NodeRef(a)>>

\* What freeing a node gives back: its record, then its children.
Freed(ref) ==
    IF ref.kind = "block" THEN <<>>
    ELSE <<BlockRef(node[ref.at].nb)>> \o (ChildRef(node[ref.at].lc) \o ChildRef(node[ref.at].rc))

\* One decrement of decrement_recursive; the last one frees.
Drop(t) ==
    /\ dropping[t] # <<>>
    /\ LET ref  == Head(dropping[t])
           last == IF ref.kind = "node" THEN node[ref.at].ref = 1 ELSE block[ref.at].ref = 1
       IN  /\ dropping' = [dropping EXCEPT ![t] =
                            (IF last THEN Freed(ref) ELSE <<>>) \o Tail(@)]
           /\ IF ref.kind = "node"
              THEN /\ node' = [node EXCEPT ![ref.at].ref = @ - 1]
                   /\ UNCHANGED block
              ELSE /\ block' = [block EXCEPT ![ref.at].ref = @ - 1]
                   /\ UNCHANGED node
    /\ UNCHANGED <<root, writer, reader, storeVars>>

-----------------------------------------------------------------------------
(* The writer: insert_edge of the wrapper, two updates of the tree *)

Key   == Head(writer.edges)[1]
Dest  == Head(writer.edges)[2]
Frame == Last(writer.stack)

Txs == {[edges |-> <<e, <<e[2], e[1]>>>>] : e \in {e \in Vertices \X Vertices : e[1] < e[2]}}

Begin(tx) ==
    /\ writer.pc = "idle" /\ Len(log) < MaxWrites
    /\ Quiet => \A r \in Readers : reader[r].pc # "count"
    /\ \A i \in DOMAIN log : log[i] # tx
    /\ writer' = [Resting EXCEPT !.pc = "enter", !.edges = tx.edges, !.at = root]
    /\ UNCHANGED <<heapVars, reader, dropping, storeVars>>

\* Mutant: the children of a shared node are not known to be shared.
Enter_Forgets ==
    /\ writer.pc = "enter"
    /\ writer' = [writer EXCEPT !.pc = "descend", !.stack = Append(@,
            [a |-> writer.at, extra |-> writer.extra, copy |-> node[writer.at].ref > 1])]
    /\ UNCHANGED <<heapVars, reader, dropping, storeVars>>

\* update_j() is called on a node: copy = extra_ptr || b->ref_cnt > 1, read once.
Enter ==
    /\ writer.pc = "enter"
    /\ writer' = [writer EXCEPT !.pc = "descend", !.stack = Append(@,
            [a |-> writer.at, extra |-> writer.extra,
             copy |-> writer.extra \/ node[writer.at].ref > 1])]
    /\ UNCHANGED <<heapVars, reader, dropping, storeVars>>

\* The children that stay are shared with the copy: inc_if, before the call on
\* the right child, at the key both.  (The one on the way left comes in Build.)
Descend ==
    /\ writer.pc = "descend"
    /\ LET b == node[Frame.a]
           kept == IF b.key < Key THEN {b.lc} ELSE IF b.key = Key THEN {b.lc, b.rc} ELSE {}
       IN  /\ node' = IF Frame.copy THEN Incremented(node, kept) ELSE node
           /\ writer' = IF b.key = Key THEN [writer EXCEPT !.pc = "build"]
                        ELSE [writer EXCEPT !.pc = "enter", !.extra = Frame.copy,
                                            !.at = IF b.key < Key THEN b.rc ELSE b.lc]
    /\ UNCHANGED <<block, root, reader, dropping, storeVars>>

\* inc_if of the right child after a call on the left one, then copy_if: the copy
\* shares the record's tree, and the old node loses the reference of the caller,
\* unless that reference is the one of another node.
Build ==
    /\ writer.pc = "build" /\ dropping[Writer] = <<>>
    /\ \E a \in DOMAIN node : node[a].ref = 0   \* bound: NumNodes
    /\ LET b == node[Frame.a]
           o == IF Frame.copy THEN Fresh(node) ELSE Frame.a
           late == IF Key < b.key THEN {b.rc} ELSE {}
       IN  /\ IF Frame.copy
              THEN /\ node' = Incremented([node EXCEPT ![o] = [b EXCEPT !.ref = 1]], late)
                   /\ block' = Incremented(block, {b.nb})
              ELSE UNCHANGED <<node, block>>
           /\ dropping' = [dropping EXCEPT ![Writer] =
                IF Frame.copy /\ ~Frame.extra THEN <<NodeRef(Frame.a)>> ELSE <<>>]
           /\ writer' = [writer EXCEPT !.at = o,
                                       !.pc = IF b.key = Key THEN "look" ELSE "join"]
    /\ UNCHANGED <<root, reader, storeVars>>

\* Mutant: the copy of a record is taken to own its tree.
Look_Owned ==
    /\ writer.pc = "look" /\ dropping[Writer] = <<>>
    /\ writer' = [writer EXCEPT !.pc = "put", !.extra = ~Frame.copy /\ block[node[writer.at].nb].ref > 1]
    /\ UNCHANGED <<heapVars, reader, dropping, storeVars>>

\* update_value: insert_edge on the record; its tree is updated as this one is.
Look ==
    /\ writer.pc = "look" /\ dropping[Writer] = <<>>
    /\ writer' = [writer EXCEPT !.pc = "put", !.extra = block[node[writer.at].nb].ref > 1]
    /\ UNCHANGED <<heapVars, reader, dropping, storeVars>>

Put ==
    /\ writer.pc = "put"
    /\ \E b \in DOMAIN block : block[b].ref = 0   \* bound: NumBlocks
    /\ LET b == node[writer.at].nb
           more == block[b].dests \cup {Dest}
       IN  IF writer.extra
           THEN LET o == Fresh(block) IN
                /\ block' = [block EXCEPT ![o] = [dests |-> more, ref |-> 1]]
                /\ node' = [node EXCEPT ![writer.at].nb = o]
                /\ dropping' = [dropping EXCEPT ![Writer] = <<BlockRef(b)>>]
           ELSE /\ block' = [block EXCEPT ![b].dests = more]
                /\ UNCHANGED <<node, dropping>>
    /\ writer' = [writer EXCEPT !.pc = "join"]
    /\ UNCHANGED <<root, reader, storeVars>>

\* join(l, r, o): o gets its children and is returned to the caller.
Join ==
    /\ writer.pc = "join" /\ dropping[Writer] = <<>>
    /\ LET o == node[writer.at] IN
       node' = [node EXCEPT ![writer.at] =
                 [o EXCEPT !.lc = IF Key < o.key THEN writer.made ELSE o.lc,
                           !.rc = IF o.key < Key THEN writer.made ELSE o.rc]]
    /\ writer' = [writer EXCEPT !.made = writer.at, !.stack = Front(@),
                                !.pc = IF Len(writer.stack) = 1 THEN "root" ELSE "build"]
    /\ UNCHANGED <<block, root, reader, dropping, storeVars>>

\* root = Tree::update(...).  After the last edge the transaction is committed.
SetRoot(tx) ==
    /\ writer.pc = "root"
    /\ root' = writer.made
    /\ IF Len(writer.edges) > 1
       THEN /\ writer' = [Resting EXCEPT !.pc = "enter", !.edges = Tail(writer.edges),
                                         !.at = writer.made]
            /\ UNCHANGED log
       ELSE /\ tx.edges[2] = writer.edges[1]
            /\ writer' = Resting
            /\ log' = Append(log, tx)
    /\ UNCHANGED <<node, block, reader, dropping, snapshot, answer, seen>>

-----------------------------------------------------------------------------
(* A snapshot: the root is read, then counted *)

TakeRoot(r) ==
    /\ reader[r].pc = "none" /\ dropping[r] = <<>>
    /\ Quiet => writer.pc = "idle"
    /\ reader' = [reader EXCEPT ![r] = [Away EXCEPT !.pc = "count", !.root = root]]
    /\ UNCHANGED <<heapVars, writer, dropping, storeVars>>

CountRoot(r) ==
    /\ reader[r].pc = "count"
    /\ node' = Incremented(node, {reader[r].root})
    /\ reader' = [reader EXCEPT ![r].pc = "open"]
    /\ snapshot' = [snapshot EXCEPT ![r] = Len(log)]
    /\ seen' = [seen EXCEPT ![r] = Content(reader[r].root)]
    /\ UNCHANGED <<block, root, writer, dropping, log, answer>>

\* Mutant: the record is found, its tree is not counted.
FindRecord_Uncounted(r, op) ==
    /\ reader[r].pc = "open" /\ dropping[r] = <<>>
    /\ LET b == node[Find(reader[r].root, op.u)].nb IN
       reader' = [reader EXCEPT ![r] = [@ EXCEPT !.pc = "read", !.pin = b, !.op = op]]
    /\ UNCHANGED <<heapVars, writer, dropping, storeVars>>

\* vertex_root.find(u) copies the record, which counts its tree.
FindRecord(r, op) ==
    /\ reader[r].pc = "open" /\ dropping[r] = <<>>
    /\ LET b == node[Find(reader[r].root, op.u)].nb IN
       /\ block' = Incremented(block, {b})
       /\ reader' = [reader EXCEPT ![r] = [@ EXCEPT !.pc = "read", !.pin = b, !.op = op]]
    /\ UNCHANGED <<node, root, writer, dropping, storeVars>>

Answer(r) ==
    /\ reader[r].pc = "read"
    /\ LET op == reader[r].op
           dests == block[reader[r].pin].dests
       IN  answer' = [answer EXCEPT ![r] =
                [op |-> op, ts |-> snapshot[r],
                 value |-> IF op.kind = "edges" THEN dests ELSE op.v \in dests]]
    /\ dropping' = [dropping EXCEPT ![r] = <<BlockRef(reader[r].pin)>>]
    /\ reader' = [reader EXCEPT ![r] = [@ EXCEPT !.pc = "open", !.pin = Null, !.op = NoAnswer]]
    /\ UNCHANGED <<heapVars, writer, log, snapshot, seen>>

Close(r) ==
    /\ reader[r].pc = "open" /\ dropping[r] = <<>>
    /\ dropping' = [dropping EXCEPT ![r] = <<NodeRef(reader[r].root)>>]
    /\ reader' = [reader EXCEPT ![r] = Away]
    /\ snapshot' = [snapshot EXCEPT ![r] = NoSnapshot]
    /\ seen' = [seen EXCEPT ![r] = {}]
    /\ UNCHANGED <<heapVars, writer, log, answer>>

Next ==
    \/ \E tx \in Txs : Begin(tx) \/ SetRoot(tx)
    \/ Enter \/ Descend \/ Build \/ Look \/ Put \/ Join
    \/ \E r \in Readers : TakeRoot(r) \/ CountRoot(r) \/ Answer(r) \/ Close(r)
    \/ \E r \in Readers, op \in ReadOps : FindRecord(r, op)
    \/ \E t \in Threads : Drop(t)

Spec == Init /\ [][Next]_vars

-----------------------------------------------------------------------------
(* Properties *)

Open(r) == reader[r].pc \in {"open", "read"}

\* A snapshot never changes: whatever the writer updates in place or copies, the
\* edges under its root are those it had when it was taken.
SnapshotKept == \A r \in Readers : Open(r) => Content(reader[r].root) = seen[r]

\* The trees a thread is about to walk: a snapshot's, the live one, the one update_j
\* is called on, the one it returned, and what stays of the node it is at.  (The link
\* it went down may dangle until join() overwrites it, which nobody reads.)
HeldTrees ==
    {reader[r].root : r \in {r \in Readers : Open(r)}} \cup
    (CASE writer.pc = "idle"            -> {root}
       [] writer.pc = "enter"           -> {writer.at}
       [] writer.pc = "descend"         -> {Frame.a}
       [] writer.pc \in {"look", "put"} -> {}
       [] writer.pc = "join"            -> {writer.made} \ {Null}
       [] writer.pc = "root"            -> {writer.made}
       [] writer.pc = "build"           ->
            ({writer.made} \cup (IF Key < node[Frame.a].key THEN {} ELSE {node[Frame.a].lc})
                           \cup (IF node[Frame.a].key < Key THEN {} ELSE {node[Frame.a].rc}))
              \ {Null})

HeldNodes ==
    (UNION {TreeNodes(a) : a \in HeldTrees})
        \cup {writer.stack[i].a : i \in {i \in DOMAIN writer.stack :
                 i < Len(writer.stack) \/ writer.pc \notin {"look", "put", "join"}}}
        \cup (IF writer.pc \in {"look", "put", "join"} THEN {writer.at} ELSE {})

\* Nothing the writer, or a reader that goes through the root of its snapshot, is about
\* to walk was freed: what the live tree, a snapshot or the writer reaches is counted,
\* its records too.  A read that walks the live index uncounted is not such a reader.
NothingDangling ==
    /\ \A a \in HeldNodes : node[a].ref > 0 /\ block[node[a].nb].ref > 0
    /\ \A r \in Readers : reader[r].pc = "read" => block[reader[r].pin].ref > 0

\* At rest the counts are exact: a node has as many references as there are
\* parents, snapshots and roots that point to it, and one without is free.
CountsExact ==
    (/\ writer.pc = "idle"
     /\ \A t \in Threads : dropping[t] = <<>>
     /\ \A r \in Readers : reader[r].pc \in {"none", "open"}) =>
        LET used    == UNION {TreeNodes(x) : x \in HeldTrees}
            held(a) == (IF root = a THEN 1 ELSE 0)
                        + Cardinality({r \in Readers : reader[r].root = a})
                        + Cardinality({x \in used : a \in Children(x)})
        IN  /\ \A a \in DOMAIN node : node[a].ref = held(a)
            /\ \A b \in DOMAIN block :
                    block[b].ref = Cardinality({x \in used : node[x].nb = b})

Store == INSTANCE SnapshotStore WITH
    Clients <- Readers, Updates <- Txs, Preloaded <- <<>>

\* The trees are a store with snapshots: every answer is the one the transactions
\* committed before the snapshot owe, whatever was written since.
TreesImplementStore == Store!Spec
=============================================================================
