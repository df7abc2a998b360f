------------------------------ MODULE LogBlock ------------------------------
(***************************************************************************)
(* The log block of edge_index/log_block.hpp: an append-only vector of     *)
(* LogEdgeEntry and a Bloom filter of their destinations.  A destination   *)
(* the filter reports by mistake has no log: the scan answers as if the    *)
(* filter had not reported it, so the filter is the set of those added.    *)
(***************************************************************************)
EXTENDS SortedEntries

CONSTANTS
    FilterSizes,   \* numbers of logs at which the filter is rebuilt: 2^8, 2^12, ...
    Open           \* e_timestamp of a log that was not closed: the greatest uint64_t

\* No transaction commits at the last timestamp.
ASSUME LogAssumption == Open \notin Nat

EmptyLogBlock == [logs |-> <<>>, filter |-> {}]

LogDests(logs) == {logs[i].dest : i \in DOMAIN logs}

\* LogEdgeEntry::check_version
LogVisible(entry, ts) == entry.b <= ts /\ (entry.e = Open \/ entry.e > ts)

\* Mutant: the rebuilt filter starts with the logs to come.
RebuiltFilter_Empty(logs) == {}

\* The new filter gets every log there is.
RebuiltFilter(logs) == LogDests(logs)

\* The logs insert_edge may close.  The first log is never looked at (idx > 0).
OldLogs(block, dest, ts) ==
    IF dest \notin block.filter THEN {}
    ELSE {i \in 2..Len(block.logs) :
            /\ block.logs[i].dest = dest
            /\ block.logs[i].b <= ts /\ block.logs[i].e = Open}

\* insert_edge: close the latest of them, append the new log.
LogInsert(block, dest, ts) ==
    LET old    == OldLogs(block, dest, ts)
        closed == IF old = {} THEN block.logs
                  ELSE [block.logs EXCEPT ![CHOOSE i \in old : \A j \in old : j <= i].e = ts]
        logs   == Append(closed, [dest |-> dest, b |-> ts, e |-> Open])
    IN  [logs   |-> logs,
         filter |-> IF Len(logs) \in FilterSizes THEN RebuiltFilter(logs)
                    ELSE block.filter \cup {dest}]

\* new_edge_flag
LogIsNew(block, dest, ts) == OldLogs(block, dest, ts) = {}

LogHasEdge(block, dest, ts) ==
    /\ dest \in block.filter
    /\ \E i \in DOMAIN block.logs : block.logs[i].dest = dest /\ LogVisible(block.logs[i], ts)

\* edges(callback, timestamp): the latest log first.
LogEdges(block, ts) ==
    LET latest == Reverse(block.logs)
    IN  Picked([i \in DOMAIN latest |-> latest[i].dest],
               {i \in DOMAIN latest : LogVisible(latest[i], ts)})
=============================================================================
