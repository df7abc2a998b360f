---------------------------- MODULE MCAlgorithms ----------------------------
(***************************************************************************)
(* An instance of the graph algorithms for TLC.  The driver runs one       *)
(* algorithm on a snapshot; which one is open until the first of them      *)
(* starts.                                                                 *)
(***************************************************************************)
EXTENDS Wcc, Bfs, Sssp

vars == <<wccVars, bfsVars, ssspVars>>

Init == WccInit /\ BfsInit /\ SsspInit

wccOnly  == <<comp, change, wccMain, jumpAt, hooker>>
bfsOnly  == <<distances, queueVars, mapVars, loopVars, bfsMain, walker>>
ssspOnly == <<start, dist, frontier, bin, bins, ssspMain, relaxer>>

\* Wcc uses nothing of gapbs.h: one build is enough.
RunWcc  == openMP /\ bfsMain = "off" /\ ssspMain = "off" /\ WccNext
           /\ UNCHANGED <<bfsOnly, ssspOnly>>
RunBfs  == wccMain = "off" /\ ssspMain = "off" /\ BfsNext /\ UNCHANGED <<wccOnly, ssspOnly>>
RunSssp == wccMain = "off" /\ bfsMain = "off" /\ SsspNext /\ UNCHANGED <<wccOnly, bfsOnly>>

Next == RunWcc \/ RunBfs \/ RunSssp

Spec == Init /\ [][Next]_vars
FairSpec == Spec /\ WccFairness /\ BfsFairness /\ SsspFairness

-----------------------------------------------------------------------------
Undirected(pairs) == pairs \cup {<<p[2], p[1]>> : p \in pairs}

\* A tree whose second level two threads may claim and whose third hangs on one
\* of them, a cycle, two components whose smallest
\* vertices meet late, a triangle with a tail and a self-loop, a path that climbs and falls,
\* two branches whose first vertices share a chunk and a word of the bitmap.  Words of
\* four bits span two of the threads' chunks of two vertices.
Shapes == {Undirected(g) : g \in
    {{<<0, 1>>, <<0, 2>>, <<1, 3>>, <<2, 4>>, <<4, 5>>},
     {<<5, 1>>, <<1, 4>>, <<4, 2>>, <<2, 5>>},
     {<<0, 5>>, <<2, 5>>, <<1, 4>>, <<3, 4>>},
     {<<0, 1>>, <<0, 2>>, <<1, 2>>, <<2, 5>>, <<3, 3>>},
     {<<0, 3>>, <<3, 1>>, <<1, 4>>, <<4, 2>>, <<2, 5>>},
     {<<0, 2>>, <<0, 3>>, <<2, 4>>, <<3, 5>>}}}

\* An algorithm that was started returns: every round of WCC lowers a component,
\* every turn of BFS visits a vertex or empties the queue, every bin is left.
Started  == wccMain # "off" \/ bfsMain # "off" \/ ssspMain # "off"
Returned == "done" \in {wccMain, bfsMain, ssspMain}
AlgorithmsReturn == Started ~> Returned
=============================================================================
