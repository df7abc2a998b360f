---------------------------- MODULE MCEdgeIndexes ----------------------------
(***************************************************************************)
(* An instance of EdgeIndexes for TLC.  Blocks of two: six insertions in   *)
(* any order split the blocks of the skip list.  Segments of four: nine    *)
(* insertions in any order and then descending ones double the array four  *)
(* times and rebalance it; the 28th leaves an empty segment before an      *)
(* occupied one, and up to three more go into such an array.               *)
(***************************************************************************)
EXTENDS EdgeIndexes

PerKind(skiplist, pma, logblock) ==
    [k \in IndexKinds |-> CASE k = "skiplist" -> skiplist [] k = "pma" -> pma [] k = "logblock" -> logblock]

\* Blocks 2 to 6 are linked on the lowest level only or on all of them.
Heights == {[n \in 1..6 |-> IF n \in tall THEN SkipLevels ELSE 1] : tall \in SUBSET (2..6)}

DestMC == PerKind(1..6, 1..30, 1..3)
DescendingMC == PerKind({}, 1..21, {})
InsertsMC == PerKind(6, 31, 6)
RepeatsMC == PerKind(1, 1, 4)
LateMC    == PerKind(3, 1, 3)
=============================================================================
