-------------------------------- MODULE Bfs --------------------------------
(***************************************************************************)
(* Direction-optimizing breadth-first search, bfs() of BFS.h, over the     *)
(* SlidingQueue, QueueBuffer and Bitmap of gapbs.h.  The threads of a step *)
(* run concurrently: claiming a vertex is one atomic compare-and-swap, the *)
(* flush of a local buffer reserves room in the queue with fetch_and_add,  *)
(* and a bit of the bitmap is set by a load and a store of its word.  The  *)
(* claim's load before the compare-and-swap is in the same step: all       *)
(* threads of a step swap in one value, so a claim whose value changed     *)
(* after the load fails, as it would with the load at the swap.            *)
(***************************************************************************)
EXTENDS Workload, Sequences, SequencesExt, Functions

CONSTANTS
    Sources,       \* vertices a search may start from
    Alphas,        \* values of m_alpha, 15 in the driver
    Beta,          \* m_beta, 18 in the driver
    WordBits       \* bits of a word of the bitmap, 64 in the code

ASSUME BfsAssumption ==
    /\ Sources \subseteq Vertices
    /\ Alphas \subseteq Nat \ {0} /\ Beta \in Nat \ {0} /\ WordBits \in Nat \ {0}

VARIABLES
    source, alpha,                        \* the argument of bfs() and m_alpha
    distances, distance,
    shared, sharedIn, outStart, outEnd,   \* the SlidingQueue
    front, curr,                          \* the bitmaps, as sets of vertices
    scout, toCheck, awake,                \* scout_count, edges_to_check, awake_count
    bfsMain,                              \* "off", "loop", "td", "bu" or "done"
    lost,                                 \* a store dropped another thread's (history)
    walker                                \* the locals of the threads

queueVars == <<shared, sharedIn, outStart, outEnd>>
mapVars   == <<front, curr>>
loopVars  == <<source, alpha, distance, scout, toCheck, awake, lost>>
bfsVars   == <<workload, distances, queueVars, mapVars, loopVars, bfsMain, walker>>

Unwritten == -1   \* an entry of shared[] nothing was stored to

\* at: the queue position or vertex in hand; nbrs: its neighbours not yet seen;
\* buf: the QueueBuffer; hits: set_bit calls left; room: copy_start; word: the
\* word loaded; found: results[thread_id].
Idle == [pc |-> "end", at |-> 0, nbrs |-> {}, buf |-> <<>>, hits |-> 0,
         room |-> 0, word |-> {}, found |-> 0]

Found == FoldFunction(LAMBDA w, n : w.found + n, 0, walker)

BfsInit ==
    /\ WorkloadInit
    /\ source = 0 /\ alpha = 1 /\ distances = [v \in Vertices |-> -1] /\ distance = 0
    /\ shared = [i \in Vertices |-> Unwritten]
    /\ sharedIn = 0 /\ outStart = 0 /\ outEnd = 0
    /\ front = {} /\ curr = {}
    /\ scout = 0 /\ toCheck = 0 /\ awake = 0
    /\ bfsMain = "off" /\ lost = FALSE
    /\ walker = [t \in Threads |-> Idle]

-----------------------------------------------------------------------------
\* init_distances and the head of bfs(): an unvisited vertex holds its degree,
\* negated, or -1.
BfsStart ==
    /\ bfsMain = "off"
    /\ source' \in Sources /\ alpha' \in Alphas
    /\ distances' = [v \in Vertices |->
           IF v = source' THEN 0 ELSE IF Degree(v) = 0 THEN -1 ELSE -Degree(v)]
    /\ shared' = [shared EXCEPT ![0] = source']
    /\ sharedIn' = 1 /\ outStart' = 0 /\ outEnd' = 1
    /\ toCheck' = Cardinality(edges) /\ scout' = Degree(source') /\ distance' = 1
    /\ bfsMain' = "loop"
    /\ UNCHANGED <<workload, awake, lost, mapVars, walker>>

QueueSize   == outEnd - outStart
QueueEmpty  == outStart = outEnd
SlideWindow == outStart' = outEnd /\ outEnd' = sharedIn

\* C++ division rounds towards zero.
Quotient(a, b) == IF a < 0 THEN -((-a) \div b) ELSE a \div b
BottomUp == scout > Quotient(toCheck, alpha)

BfsDone ==
    /\ bfsMain = "loop" /\ QueueEmpty
    /\ bfsMain' = "done"
    /\ UNCHANGED <<workload, distances, queueVars, mapVars, loopVars, walker>>

\* TDStep: a thread with a chunk walks from its beginning to the end of the queue.
SpawnTopDown ==
    /\ bfsMain = "loop" /\ ~QueueEmpty /\ ~BottomUp
    /\ toCheck' = toCheck - scout
    /\ bfsMain' = "td"
    /\ walker' = [t \in Threads |->
           IF ChunkBegin(t, QueueSize) < ChunkEnd(t, QueueSize)
           THEN [Idle EXCEPT !.pc = "vertex", !.at = outStart + ChunkBegin(t, QueueSize)]
           ELSE Idle]
    /\ UNCHANGED <<workload, distances, queueVars, mapVars, source, alpha, distance, scout, awake, lost>>

\* Mutant: a thread that has walked its queue leaves its buffer as it is.
TakeVertex_NoFlush(t) ==
    /\ walker[t].pc = "vertex" /\ walker[t].nbrs = {}
    /\ LET at == walker[t].at IN
       walker' = [walker EXCEPT ![t] =
           IF at = outEnd THEN [walker[t] EXCEPT !.pc = "end", !.buf = <<>>]
           ELSE [walker[t] EXCEPT !.at = at + 1, !.nbrs = Neighbors(shared[at]) \ {shared[at]}]]
    /\ UNCHANGED <<workload, distances, queueVars, mapVars, loopVars, bfsMain>>

\* The next vertex of the queue; the buffer is flushed after the last one.
TakeVertex(t) ==
    /\ walker[t].pc = "vertex" /\ walker[t].nbrs = {}
    /\ LET at == walker[t].at IN
       walker' = [walker EXCEPT ![t] =
           IF at = outEnd THEN [walker[t] EXCEPT !.pc = "reserve"]
           ELSE [walker[t] EXCEPT !.at = at + 1, !.nbrs = Neighbors(shared[at]) \ {shared[at]}]]
    /\ UNCHANGED <<workload, distances, queueVars, mapVars, loopVars, bfsMain>>

\* Mutant: the result of the compare-and-swap is not looked at.
Claim_NoSwap(t) ==
    /\ walker[t].pc = "vertex"
    /\ \E v \in walker[t].nbrs :
          LET free == distances[v] < 0 \/ distances[v] = distance IN
          /\ distances' = [distances EXCEPT ![v] = IF free THEN distance ELSE @]
          /\ walker' = [walker EXCEPT ![t] =
                [@ EXCEPT !.nbrs = @ \ {v}, !.buf = IF free THEN Append(@, v) ELSE @,
                          !.found = IF free THEN @ + 1 ELSE @]]
    /\ UNCHANGED <<workload, queueVars, mapVars, loopVars, bfsMain>>

\* compare_exchange_strong: the thread that turns the distance gets the vertex.
Claim(t) ==
    /\ walker[t].pc = "vertex"
    /\ \E v \in walker[t].nbrs :
          LET free == distances[v] < 0
              w    == walker[t] IN
          /\ distances' = [distances EXCEPT ![v] = IF free THEN distance ELSE @]
          /\ walker' = [walker EXCEPT ![t] =
                [w EXCEPT !.nbrs = w.nbrs \ {v},
                          !.buf = IF free THEN Append(w.buf, v) ELSE w.buf,
                          !.found = IF free THEN w.found - distances[v] ELSE w.found]]
    /\ UNCHANGED <<workload, queueVars, mapVars, loopVars, bfsMain>>

\* QueueBuffer::flush: copy_start = fetch_and_add(shared_in, in).
Reserve(t) ==
    /\ walker[t].pc = "reserve"
    /\ walker' = [walker EXCEPT ![t] =
           [@ EXCEPT !.pc = IF openMP THEN "copy" ELSE "add", !.room = sharedIn]]
    /\ sharedIn' = IF openMP THEN sharedIn + Len(walker[t].buf) ELSE sharedIn
    /\ UNCHANGED <<workload, distances, shared, outStart, outEnd, mapVars, loopVars, bfsMain>>

\* The serial fallback stores the sum after another thread may have stored its own.
ReserveStore(t) ==
    /\ walker[t].pc = "add"
    /\ sharedIn' = walker[t].room + Len(walker[t].buf)
    /\ lost' = (lost \/ sharedIn # walker[t].room)
    /\ walker' = [walker EXCEPT ![t].pc = "copy"]
    /\ UNCHANGED <<workload, distances, shared, outStart, outEnd, mapVars,
                   source, alpha, distance, scout, toCheck, awake, bfsMain>>

Stored(seq, room) ==
    [i \in Vertices |-> IF i - room \in 0..Len(seq) - 1 THEN seq[i - room + 1] ELSE shared[i]]

CopyBuffer(t) ==
    /\ walker[t].pc = "copy"
    /\ shared' = Stored(walker[t].buf, walker[t].room)
    /\ walker' = [walker EXCEPT ![t].pc = "end"]
    /\ UNCHANGED <<workload, distances, sharedIn, outStart, outEnd, mapVars, loopVars, bfsMain>>

\* Mutant: the turn ends without distance++.
JoinTopDown_SameDistance ==
    /\ bfsMain = "td" /\ \A t \in Threads : walker[t].pc = "end"
    /\ SlideWindow
    /\ scout' = Found
    /\ bfsMain' = "loop"
    /\ UNCHANGED <<workload, distances, distance, shared, sharedIn, mapVars, source, alpha,
                   toCheck, awake, lost, walker>>

JoinTopDown ==
    /\ bfsMain = "td" /\ \A t \in Threads : walker[t].pc = "end"
    /\ SlideWindow
    /\ scout' = Found /\ distance' = distance + 1
    /\ bfsMain' = "loop"
    /\ UNCHANGED <<workload, distances, shared, sharedIn, mapVars, source, alpha, toCheck, awake,
                   lost, walker>>

-----------------------------------------------------------------------------
\* BUStep: a thread looks at the vertices of its chunk.
SpawnBottomUp ==
    walker' = [t \in Threads |->
                 [Idle EXCEPT !.pc = "look", !.at = ChunkBegin(t, NumVertices)]]

\* QueueToBitmap adds to what an earlier turn left in the bitmap.
StartBottomUp ==
    /\ bfsMain = "loop" /\ ~QueueEmpty /\ BottomUp
    /\ front' = front \cup {shared[i] : i \in outStart..outEnd - 1}
    /\ curr' = {}
    /\ awake' = QueueSize
    /\ SlideWindow
    /\ SpawnBottomUp
    /\ bfsMain' = "bu"
    /\ UNCHANGED <<workload, distances, shared, sharedIn, source, alpha, distance, scout, toCheck, lost>>

\* An unvisited vertex gets the distance, and its bit once per neighbour in front.
Look(t) ==
    /\ walker[t].pc = "look" /\ walker[t].at < ChunkEnd(t, NumVertices)
    /\ LET u == walker[t].at
           hits == Cardinality(Neighbors(u) \cap front)
           visit == distances[u] < 0 /\ hits > 0 IN
       /\ distances' = [distances EXCEPT ![u] = IF visit THEN distance ELSE @]
       /\ walker' = [walker EXCEPT ![t] =
             IF visit THEN [walker[t] EXCEPT !.pc = "load", !.hits = hits, !.found = walker[t].found + hits]
             ELSE [walker[t] EXCEPT !.at = u + 1]]
    /\ UNCHANGED <<workload, queueVars, mapVars, loopVars, bfsMain>>

\* next.set_bit(u): the load and the store of |=.
Word(u) == {v \in Vertices : v \div WordBits = u \div WordBits}

LoadWord(t) ==
    /\ walker[t].pc = "load"
    /\ walker' = [walker EXCEPT ![t] =
           [@ EXCEPT !.pc = "store", !.word = curr \cap Word(walker[t].at)]]
    /\ UNCHANGED <<workload, distances, queueVars, mapVars, loopVars, bfsMain>>

StoreWord(t) ==
    /\ walker[t].pc = "store"
    /\ LET u == walker[t].at IN
       /\ curr' = (curr \ Word(u)) \cup walker[t].word \cup {u}
       /\ lost' = (lost \/ ~ (curr \cap Word(u) \subseteq walker[t].word))
       /\ walker' = [walker EXCEPT ![t] =
             IF walker[t].hits > 1 THEN [walker[t] EXCEPT !.pc = "load", !.hits = walker[t].hits - 1]
             ELSE [walker[t] EXCEPT !.pc = "look", !.hits = 0, !.at = u + 1]]
    /\ UNCHANGED <<workload, distances, queueVars, front,
                   source, alpha, distance, scout, toCheck, awake, bfsMain>>

Scanned(t) == walker[t].pc = "look" /\ walker[t].at >= ChunkEnd(t, NumVertices)

\* while (awake_count >= old_awake_count || awake_count > vertex_count / beta)
Onward(found) == found >= awake \/ found > NumVertices \div Beta

JoinBottomUp ==
    /\ bfsMain = "bu" /\ \A t \in Threads : Scanned(t)
    /\ Onward(Found)
    /\ awake' = Found /\ distance' = distance + 1
    /\ front' = curr /\ curr' = {}
    /\ SpawnBottomUp
    /\ UNCHANGED <<workload, distances, queueVars, source, alpha, scout, toCheck, lost, bfsMain>>

Ascending(seq) == \A i, j \in DOMAIN seq : i < j => seq[i] < seq[j]

\* BitmapToQueue, in one buffer per OpenMP thread: their order is any.
LeaveBottomUp ==
    /\ bfsMain = "bu" /\ \A t \in Threads : Scanned(t)
    /\ ~Onward(Found)
    /\ awake' = Found /\ distance' = distance + 1
    /\ front' = curr /\ curr' = front
    /\ \E seq \in {q \in SetToSeqs(curr) : openMP \/ Ascending(q)} :
          shared' = Stored(seq, sharedIn)
    /\ sharedIn' = sharedIn + Cardinality(curr)
    /\ outStart' = outEnd /\ outEnd' = sharedIn'
    /\ scout' = 1
    /\ bfsMain' = "loop"
    /\ walker' = [t \in Threads |-> Idle]
    /\ UNCHANGED <<workload, distances, source, alpha, toCheck, lost>>

-----------------------------------------------------------------------------
WalkerStep(t) ==
    \/ TakeVertex(t) \/ Claim(t) \/ Reserve(t) \/ ReserveStore(t) \/ CopyBuffer(t)
    \/ Look(t) \/ LoadWord(t) \/ StoreWord(t)
BfsStep ==
    \/ BfsDone \/ SpawnTopDown \/ JoinTopDown
    \/ StartBottomUp \/ JoinBottomUp \/ LeaveBottomUp

BfsNext == BfsStart \/ BfsStep \/ \E t \in Threads : WalkerStep(t)

BfsSpec == BfsInit /\ [][BfsNext]_bfsVars

BfsFairness == WF_bfsVars(BfsStep) /\ \A t \in Threads : WF_bfsVars(WalkerStep(t))

-----------------------------------------------------------------------------
\* Vertices within n edges of the source.
Within[n \in 0..NumVertices] ==
    IF n = 0 THEN {source}
    ELSE Within[n - 1] \cup UNION {Neighbors(u) : u \in Within[n - 1]}

\* What bfs() is for, SlidingQueue and QueueBuffer being made to be used in parallel:
\* a finished search has the exact distance of every vertex it can reach, whichever
\* directions it took, and a negative number for the others.
DistancesExact ==
    bfsMain = "done" => \A v \in Vertices :
        IF v \in Within[NumVertices]
        THEN /\ distances[v] \in 0..NumVertices
             /\ v \in Within[distances[v]]
             /\ distances[v] > 0 => v \notin Within[distances[v] - 1]
        ELSE distances[v] < 0

\* Nothing else can go wrong, in either build and for every width of a word: unless a
\* store dropped the reservation or the bit of another thread, distances are exact.
BfsExact == ~ lost => DistancesExact

\* And if one did, a distance is still the length of a walk from the source: what was
\* lost makes distances too large or leaves vertices out, never the reverse.
BfsSound ==
    bfsMain = "done" => \A v \in Vertices :
        distances[v] >= 0 => v \in Within[IF distances[v] < NumVertices THEN distances[v] ELSE NumVertices]

\* shared[] has room for vertex_count entries and shared_in is never reset: no
\* sequence of turns between the directions queues a vertex twice, so no flush
\* writes past the end, and no thread reads an entry nothing was stored to.
QueueFits ==
    /\ sharedIn <= NumVertices
    /\ bfsMain = "loop" => \A i \in outStart..outEnd - 1 : shared[i] # Unwritten
=============================================================================
