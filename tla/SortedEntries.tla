---------------------------- MODULE SortedEntries ----------------------------
(***************************************************************************)
(* Sorted vectors of VersionedEdgeEntry, the leaves of the edge indexes:   *)
(* the blocks of the skip list, the segments of the packed memory array,   *)
(* the vector a NeighborEntry starts with.  An entry is its destination    *)
(* and its version chain.                                                  *)
(***************************************************************************)
EXTENDS VersionChain, FiniteSets

Entries == Seq([dest : Nat, chain : Seq(Nat)])

Entry(dest, ts) == [dest |-> dest, chain |-> PushVersion(<<>>, ts)]

Dests(ents) == {ents[i].dest : i \in DOMAIN ents}

\* std::lower_bound: the first index whose destination is not less.
LowerBound(ents, dest) == Cardinality({i \in DOMAIN ents : ents[i].dest < dest}) + 1

\* update_version of the entry that is there, or a new entry at its place.
InsertEntry(ents, dest, ts) ==
    LET pos == LowerBound(ents, dest) IN
    IF dest \in Dests(ents)
    THEN [ents EXCEPT ![pos] = [dest |-> dest, chain |-> PushVersion(ents[pos].chain, ts)]]
    ELSE InsertAt(ents, pos, Entry(dest, ts))

FindEntry(ents, dest, ts) ==
    /\ dest \in Dests(ents)
    /\ CheckVersion(ents[LowerBound(ents, dest)].chain, ts)

\* The elements of s at the positions of keep, in order.
Picked(s, keep) ==
    LET out[n \in 0..Len(s)] ==
            IF n = 0 THEN <<>> ELSE IF n \in keep THEN Append(out[n-1], s[n]) ELSE out[n-1]
    IN  out[Len(s)]

\* The destinations a scan yields at ts, in its order.
Visible(ents, ts) ==
    Picked([i \in DOMAIN ents |-> ents[i].dest],
           {i \in DOMAIN ents : CheckVersion(ents[i].chain, ts)})
=============================================================================
