-------------------------------- MODULE Sssp --------------------------------
(***************************************************************************)
(* Single-source shortest paths by delta-stepping, sssp() of SSSP.h, which *)
(* counts every edge as 1.  The threads relax edges concurrently: the two  *)
(* reads before a relaxation and the compare-and-swap are steps; without   *)
(* OpenMP the latter is a comparison and a later store (gapbs.h).          *)
(***************************************************************************)
EXTENDS Workload, Sequences, SequencesExt

CONSTANTS
    Starts,    \* vertices a search may start from
    Delta      \* m_delta

ASSUME SsspAssumption ==
    Starts \subseteq Vertices /\ Delta \in Nat \ {0}

VARIABLES
    start, dist,
    frontier,   \* the frontier up to its tail
    bin,        \* shared_indexes of this iteration: the bin the frontier came from
    bins,       \* local_bins, which the threads share under m_mutex
    ssspMain,   \* "off", "relax" or "done"
    relaxer     \* the locals of the threads

ssspVars == <<workload, start, dist, frontier, bin, bins, ssspMain, relaxer>>

Infinity == NumVertices   \* no path is that long

NoRelax == [pc |-> "take", at |-> 0, u |-> 0, v |-> 0, nbrs |-> {}, old |-> 0, new |-> 0]

SsspInit ==
    /\ WorkloadInit
    /\ start = 0 /\ dist = [v \in Vertices |-> Infinity]
    /\ frontier = <<>> /\ bin = 0 /\ bins = <<>>
    /\ ssspMain = "off"
    /\ relaxer = [t \in Threads |-> NoRelax]

-----------------------------------------------------------------------------
SpawnRelaxers(size) ==
    relaxer' = [t \in Threads |-> [NoRelax EXCEPT !.at = ChunkBegin(t, size)]]

\* frontier has num_edges entries: a snapshot without an edge has no frontier[0].
SsspStart ==
    /\ ssspMain = "off" /\ edges # {}
    /\ start' \in Starts
    /\ dist' = [dist EXCEPT ![start'] = 0]
    /\ frontier' = <<start'>>
    /\ SpawnRelaxers(1)
    /\ ssspMain' = "relax"
    /\ UNCHANGED <<workload, bin, bins>>

\* u = frontier[i], relaxed unless an earlier bin has settled it.
Take(t) ==
    /\ ssspMain = "relax" /\ relaxer[t].pc = "take"
    /\ relaxer[t].at < ChunkEnd(t, Len(frontier))
    /\ LET u == frontier[relaxer[t].at + 1] IN
       relaxer' = [relaxer EXCEPT ![t] =
           [relaxer[t] EXCEPT !.at = relaxer[t].at + 1, !.u = u, !.pc = "edge",
                     !.nbrs = IF dist[u] >= Delta * bin THEN Neighbors(u) \ {u} ELSE {}]]
    /\ UNCHANGED <<workload, start, dist, frontier, bin, bins, ssspMain>>

\* old_dist = dist[v]
ReadOld(t) ==
    /\ relaxer[t].pc = "edge"
    /\ \/ /\ relaxer[t].nbrs = {}
          /\ relaxer' = [relaxer EXCEPT ![t].pc = "take"]
       \/ \E v \in relaxer[t].nbrs :
             relaxer' = [relaxer EXCEPT ![t] =
                 [relaxer[t] EXCEPT !.pc = "new", !.nbrs = relaxer[t].nbrs \ {v},
                                    !.v = v, !.old = dist[v]]]
    /\ UNCHANGED <<workload, start, dist, frontier, bin, bins, ssspMain>>

Shorter(new, old) == new < old

\* new_dist = dist[u] + 1, and the test
ReadNew(t) ==
    /\ relaxer[t].pc = "new"
    /\ LET r == relaxer[t]
           new == dist[r.u] + 1 IN
       relaxer' = [relaxer EXCEPT ![t] =
           [r EXCEPT !.pc = IF Shorter(new, r.old) THEN "cas" ELSE "edge", !.new = new]]
    /\ UNCHANGED <<workload, start, dist, frontier, bin, bins, ssspMain>>

\* compare_and_swap(dist[v], old_dist, new_dist)
CompareAndSwap(t) ==
    /\ relaxer[t].pc = "cas"
    /\ LET r == relaxer[t]
           equal == dist[r.v] = r.old IN
       /\ dist' = IF equal /\ openMP THEN [dist EXCEPT ![r.v] = r.new] ELSE dist
       /\ relaxer' = [relaxer EXCEPT ![t].pc =
              IF ~equal THEN "again" ELSE IF openMP THEN "push" ELSE "store"]
    /\ UNCHANGED <<workload, start, frontier, bin, bins, ssspMain>>

\* The serial fallback: x = new_val, whatever x is by now.
StoreNew(t) ==
    /\ relaxer[t].pc = "store"
    /\ dist' = [dist EXCEPT ![relaxer[t].v] = relaxer[t].new]
    /\ relaxer' = [relaxer EXCEPT ![t].pc = "push"]
    /\ UNCHANGED <<workload, start, frontier, bin, bins, ssspMain>>

\* old_dist = dist[v] after a failed swap; give up when it is no longer an improvement.
TryAgain(t) ==
    /\ relaxer[t].pc = "again"
    /\ LET r == relaxer[t]
           old == dist[r.v] IN
       relaxer' = [relaxer EXCEPT ![t] =
           [r EXCEPT !.pc = IF Shorter(r.new, old) THEN "cas" ELSE "edge", !.old = old]]
    /\ UNCHANGED <<workload, start, dist, frontier, bin, bins, ssspMain>>

\* Under m_mutex: local_bins grows up to the bin and v is added to it.
Push(t) ==
    /\ relaxer[t].pc = "push"
    /\ LET b == relaxer[t].new \div Delta + 1 IN
       bins' = [i \in 1..(IF b > Len(bins) THEN b ELSE Len(bins)) |->
                   (IF i <= Len(bins) THEN bins[i] ELSE <<>>)
                     \o IF i = b THEN <<relaxer[t].v>> ELSE <<>>]
    /\ relaxer' = [relaxer EXCEPT ![t].pc = "edge"]
    /\ UNCHANGED <<workload, start, dist, frontier, bin, ssspMain>>

Relaxed == \A t \in Threads :
    relaxer[t].pc = "take" /\ relaxer[t].at >= ChunkEnd(t, Len(frontier))

\* Mutant: the search for the next bin begins after the current one.
PendingBins_Skips == {i \in bin + 1..Len(bins) - 1 : bins[i + 1] # <<>>}

\* The bins from the current one on that are not empty.
PendingBins == {i \in bin..Len(bins) - 1 : bins[i + 1] # <<>>}

\* The first of them becomes the frontier of the next iteration.
NextBin ==
    /\ ssspMain = "relax" /\ Relaxed
    /\ \E i \in PendingBins :
          /\ \A j \in PendingBins : i <= j
          /\ bin' = i /\ frontier' = bins[i + 1]
          /\ bins' = [bins EXCEPT ![i + 1] = <<>>]
          /\ SpawnRelaxers(Len(frontier'))
    /\ UNCHANGED <<workload, start, dist, ssspMain>>

\* next_bin_index is still kMaxBin.
SsspDone ==
    /\ ssspMain = "relax" /\ Relaxed /\ PendingBins = {}
    /\ ssspMain' = "done"
    /\ UNCHANGED <<workload, start, dist, frontier, bin, bins, relaxer>>

-----------------------------------------------------------------------------
RelaxerStep(t) ==
    \/ Take(t) \/ ReadOld(t) \/ ReadNew(t) \/ CompareAndSwap(t)
    \/ StoreNew(t) \/ TryAgain(t) \/ Push(t)
SsspStep == NextBin \/ SsspDone

SsspNext == SsspStart \/ SsspStep \/ \E t \in Threads : RelaxerStep(t)

SsspSpec == SsspInit /\ [][SsspNext]_ssspVars

SsspFairness == WF_ssspVars(SsspStep) /\ \A t \in Threads : WF_ssspVars(RelaxerStep(t))

-----------------------------------------------------------------------------
\* Vertices within n edges of the start.
Around[n \in 0..NumVertices] ==
    IF n = 0 THEN {start}
    ELSE Around[n - 1] \cup UNION {Neighbors(u) : u \in Around[n - 1]}

\* Even with the compare-and-swap of the serial fallback, which may overwrite a
\* distance stored meanwhile, sssp() returns the exact distances: all vertices of
\* a frontier have one distance, so racing threads store one value.
SsspExact ==
    ssspMain = "done" => \A v \in Vertices :
        /\ dist[v] < Infinity => v \in Around[dist[v]] /\ \A n \in 0..dist[v] - 1 : v \notin Around[n]
        /\ dist[v] = Infinity => v \notin Around[NumVertices]
=============================================================================
