---------------------------- MODULE VersionChain ----------------------------
(***************************************************************************)
(* The version lists of the timestamped builds (ENABLE_TIMESTAMP), newest  *)
(* first.                                                                  *)
(*                                                                         *)
(*  - a chain belongs to one edge entry (VersionedEdgeEntry): the          *)
(*    timestamps of the insertions of that edge.  The entry itself is the  *)
(*    head, `next` the rest.  The empty chain stands for "no entry".       *)
(*  - a degree list belongs to one VertexEntry: pairs (degree, timestamp)  *)
(*    in a forward_list.                                                   *)
(***************************************************************************)
EXTENDS Integers, Sequences, SequencesExt

\* The pairs of VertexEntry::degree.
DegreeNode == [deg : Nat, ts : Nat]

-----------------------------------------------------------------------------
(* Edge chains *)

\* A new entry {dest, ts}, or update_version(ts) on the existing one: the old
\* head moves to `next`, the entry takes the new timestamp.
PushVersion(chain, ts) == <<ts>> \o chain

\* Mutant: a version is seen by later timestamps only.
CheckVersion_Strict(chain, ts) == \E i \in DOMAIN chain : chain[i] < ts

\* check_version(ts): some version of the entry is not newer than ts.
CheckVersion(chain, ts) == \E i \in DOMAIN chain : chain[i] <= ts

\* VersionedEdgeEntry::gc(min): the head stays, every later version older than
\* min is unlinked, whatever the head's timestamp is.
GcChain(chain, min) ==
    LET kept[n \in 0..Len(chain)] ==
            IF n = 0 THEN <<>>
            ELSE IF n = 1 \/ chain[n] >= min THEN Append(kept[n-1], chain[n])
            ELSE kept[n-1]
    IN  kept[Len(chain)]

-----------------------------------------------------------------------------
(* Degree lists *)

\* get_degree(ts) has an answer; without one the code throws "Invalid timestamp".
HasDegree(list, ts) == \E i \in DOMAIN list : list[i].ts <= ts

\* get_degree(ts): the first node whose timestamp is not newer than ts.
GetDegree(list, ts) ==
    LET first == CHOOSE i \in DOMAIN list :
                    /\ list[i].ts <= ts
                    /\ \A j \in DOMAIN list : j < i => list[j].ts > ts
    IN  list[first].deg

\* Mutant: the newest node is overwritten instead of pushed in front of.
UpdateDegree_InPlace(list, deg, ts) ==
    <<[deg |-> deg, ts |-> ts]>> \o (IF list = <<>> THEN <<>> ELSE Tail(list))

\* update_degree(deg, ts): push_front.
UpdateDegree(list, deg, ts) == <<[deg |-> deg, ts |-> ts]>> \o list

\* VertexEntry::gc(min) erases one node only: the first one behind the head
\* that is older than min.
GcDegree(list, min) ==
    LET old == {i \in DOMAIN list : i > 1 /\ list[i].ts < min}
    IN  IF old = {} THEN list
        ELSE RemoveAt(list, CHOOSE i \in old : \A j \in old : i <= j)
=============================================================================
