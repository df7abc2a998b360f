-------------------------------- MODULE Wcc --------------------------------
(***************************************************************************)
(* Weakly connected components, wcc() of WCC.h.  In each round the threads *)
(* hook components along the edges of their vertices with plain reads and  *)
(* writes of the shared array comp: every access of another component's    *)
(* entry is a step of its own.  After the join one loop shortens the       *)
(* paths; the pragma before it is inert, for no executable is built with   *)
(* -fopenmp.                                                               *)
(***************************************************************************)
EXTENDS Workload

VARIABLES
    comp,      \* comp[v], the component of a vertex
    change,    \* some thread hooked in this round
    wccMain,   \* where wcc() is: "off", "hook", "jump" or "done"
    jumpAt,    \* the index of the last loop
    hooker     \* per thread: pc, the edges left, the edge in hand, comp_u, comp_v

wccVars == <<workload, comp, change, wccMain, jumpAt, hooker>>

AtRest == [pc |-> "next", left |-> {}, e |-> <<0, 0>>, cu |-> 0, cv |-> 0]

WccInit ==
    /\ WorkloadInit
    /\ comp = [v \in Vertices |-> v]
    /\ change = FALSE /\ wccMain = "off" /\ jumpAt = 0
    /\ hooker = [t \in Threads |-> AtRest]

-----------------------------------------------------------------------------
High(t) == IF hooker[t].cu > hooker[t].cv THEN hooker[t].cu ELSE hooker[t].cv
Low(t)  == IF hooker[t].cu > hooker[t].cv THEN hooker[t].cv ELSE hooker[t].cu

\* The head of the loop: clear the flag, start the threads.
SpawnHookers ==
    /\ change' = FALSE
    /\ wccMain' = "hook"
    /\ hooker' = [t \in Threads |->
                    [AtRest EXCEPT !.left = {e \in edges : e[1] \in Chunk(t, NumVertices)}]]

WccStart ==
    /\ wccMain = "off"
    /\ SpawnHookers
    /\ UNCHANGED <<workload, comp, jumpAt>>

\* The next edge, sources ascending: comp_u = comp[u].
ReadSource(t) ==
    /\ wccMain = "hook" /\ hooker[t].pc = "next"
    /\ \E e \in hooker[t].left :
          /\ \A x \in hooker[t].left : e[1] <= x[1]
          /\ hooker' = [hooker EXCEPT ![t] =
                [hooker[t] EXCEPT !.pc = "dest", !.left = hooker[t].left \ {e},
                                  !.e = e, !.cu = comp[e[1]]]]
    /\ UNCHANGED <<workload, comp, change, wccMain, jumpAt>>

\* comp_v = comp[v]; nothing to do when they are equal.
ReadDest(t) ==
    /\ hooker[t].pc = "dest"
    /\ LET cv == comp[hooker[t].e[2]] IN
       hooker' = [hooker EXCEPT ![t] =
            [@ EXCEPT !.pc = IF cv = hooker[t].cu THEN "next" ELSE "root", !.cv = cv]]
    /\ UNCHANGED <<workload, comp, change, wccMain, jumpAt>>

\* if (high_comp == comp[high_comp])
CheckRoot(t) ==
    /\ hooker[t].pc = "root"
    /\ hooker' = [hooker EXCEPT ![t].pc = IF comp[High(t)] = High(t) THEN "hook" ELSE "next"]
    /\ UNCHANGED <<workload, comp, change, wccMain, jumpAt>>

\* Mutant: the component of the source is hooked, whichever is the higher.
Hook_Source(t) ==
    /\ hooker[t].pc = "hook"
    /\ change' = TRUE
    /\ comp' = [comp EXCEPT ![hooker[t].cu] = hooker[t].cv]
    /\ hooker' = [hooker EXCEPT ![t].pc = "next"]
    /\ UNCHANGED <<workload, wccMain, jumpAt>>

\* Mutant: only a hook that another thread has not overtaken sets the flag.
Hook_LateFlag(t) ==
    /\ hooker[t].pc = "hook"
    /\ change' = (change \/ (comp[High(t)] = High(t) /\ hooker[t].left = {}))
    /\ comp' = [comp EXCEPT ![High(t)] = Low(t)]
    /\ hooker' = [hooker EXCEPT ![t].pc = "next"]
    /\ UNCHANGED <<workload, wccMain, jumpAt>>

\* The flag is read after the join only, so its write and the hook are one step.
Hook(t) ==
    /\ hooker[t].pc = "hook"
    /\ change' = TRUE
    /\ comp' = [comp EXCEPT ![High(t)] = Low(t)]
    /\ hooker' = [hooker EXCEPT ![t].pc = "next"]
    /\ UNCHANGED <<workload, wccMain, jumpAt>>

JoinHookers ==
    /\ wccMain = "hook"
    /\ \A t \in Threads : hooker[t].pc = "next" /\ hooker[t].left = {}
    /\ wccMain' = "jump" /\ jumpAt' = 0
    /\ UNCHANGED <<workload, comp, change, hooker>>

\* while (comp[i] != comp[comp[i]]) comp[i] = comp[comp[i]]
Jump ==
    /\ wccMain = "jump" /\ jumpAt < NumVertices
    /\ comp[jumpAt] # comp[comp[jumpAt]]
    /\ comp' = [comp EXCEPT ![jumpAt] = comp[comp[jumpAt]]]
    /\ UNCHANGED <<workload, change, wccMain, jumpAt, hooker>>

JumpNext ==
    /\ wccMain = "jump" /\ jumpAt < NumVertices
    /\ comp[jumpAt] = comp[comp[jumpAt]]
    /\ jumpAt' = jumpAt + 1
    /\ UNCHANGED <<workload, comp, change, wccMain, hooker>>

\* Mutant: the loop goes on for ever.
NextRound_Always ==
    /\ wccMain = "jump" /\ jumpAt = NumVertices
    /\ SpawnHookers
    /\ UNCHANGED <<workload, comp, jumpAt>>

\* while (change)
NextRound ==
    /\ wccMain = "jump" /\ jumpAt = NumVertices
    /\ IF change
       THEN SpawnHookers /\ UNCHANGED <<workload, comp, jumpAt>>
       ELSE wccMain' = "done" /\ UNCHANGED <<workload, comp, change, jumpAt, hooker>>

HookerStep(t) == ReadSource(t) \/ ReadDest(t) \/ CheckRoot(t) \/ Hook(t)
WccStep == JoinHookers \/ Jump \/ JumpNext \/ NextRound

WccNext == WccStart \/ WccStep \/ \E t \in Threads : HookerStep(t)

WccSpec == WccInit /\ [][WccNext]_wccVars

\* The operating system runs every thread and join returns.
WccFairness == WF_wccVars(WccStep) /\ \A t \in Threads : WF_wccVars(HookerStep(t))

-----------------------------------------------------------------------------
\* The types of the shared state and of the locals of the threads.
WccTypeOK ==
    /\ WorkloadInit
    /\ comp \in [Vertices -> Vertices]
    /\ change \in BOOLEAN
    /\ wccMain \in {"off", "hook", "jump", "done"}
    /\ jumpAt \in 0..NumVertices
    /\ hooker \in [Threads -> [pc : {"next", "dest", "root", "hook"},
                               left : SUBSET (Vertices \X Vertices),
                               e : Vertices \X Vertices, cu : Vertices, cv : Vertices]]

\* Hooks that race store into one entry one after the other, and still no path
\* of comp[] turns back: the loop that shortens the paths ends.
PathsDescend == \A v \in Vertices : comp[v] <= v

\* A set of vertices no edge leaves or enters.
Closed(S) == \A e \in edges : e[1] \in S <=> e[2] \in S

\* Hooks that race overwrite each other, yet what wcc() returns are the weakly
\* connected components, each named by its smallest vertex: the two ends of an
\* edge have one name, a name is in every closed set its vertex is in, and no
\* vertex of a component is below the name.
ComponentsFound ==
    wccMain = "done" =>
        /\ \A e \in edges : comp[e[1]] = comp[e[2]]
        /\ \A S \in SUBSET Vertices : Closed(S) => \A v \in S : comp[v] \in S
        /\ \A v \in Vertices : comp[v] <= v
=============================================================================
