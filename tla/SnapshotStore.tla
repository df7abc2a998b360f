---------------------------- MODULE SnapshotStore ----------------------------
(***************************************************************************)
(* What a dynamic graph store with timestamps promises its users, with no  *)
(* lock, version list or intermediate state: a log of committed update     *)
(* transactions, the commit timestamp being the position in the log, and   *)
(* snapshots that answer every read from the prefix of the log that was    *)
(* committed when they were taken.                                         *)
(***************************************************************************)
EXTENDS Integers, Sequences, FiniteSets

CONSTANTS
    Clients,     \* threads that hold a snapshot
    Vertices,    \* vertex ids an edge may name
    Updates,     \* the update transactions that may be committed
    ReadOps,     \* the reads a snapshot may be asked
    Preloaded,   \* the update transactions committed before the first client
    NoSnapshot,  \* a client without a snapshot
    NoAnswer     \* a client that was not answered yet

VARIABLES
    log,         \* committed update transactions, in timestamp order
    snapshot,    \* snapshot[c]: length of the prefix c reads, or NoSnapshot
    answer       \* answer[c]: the last answer c was given, or NoAnswer

storeVars == <<log, snapshot, answer>>

\* The directed edges u -> v an update transaction inserts.
EdgesOf(tx) == {tx.edges[i] : i \in DOMAIN tx.edges}

\* The neighbours of u after the first ts transactions of a log.
NeighborsAt(txs, u, ts) ==
    {v \in Vertices : \E i \in 1..ts : <<u, v>> \in EdgesOf(txs[i])}

EdgesAt(txs, ts) ==
    {e \in Vertices \X Vertices : e[2] \in NeighborsAt(txs, e[1], ts)}

\* The answer a snapshot at ts owes the read op.
Owed(txs, op, ts) ==
    CASE op.kind = "has_edge"   -> op.v \in NeighborsAt(txs, op.u, ts)
      [] op.kind = "edges"      -> NeighborsAt(txs, op.u, ts)
      [] op.kind = "iterate"    -> NeighborsAt(txs, op.u, ts)
      [] op.kind = "degree"     -> Cardinality(NeighborsAt(txs, op.u, ts))
      [] op.kind = "edge_count" -> Cardinality(EdgesAt(txs, ts))

-----------------------------------------------------------------------------
Commit(tx) ==
    /\ log' = Append(log, tx)
    /\ UNCHANGED <<snapshot, answer>>

Begin(c) ==
    /\ snapshot[c] = NoSnapshot
    /\ snapshot' = [snapshot EXCEPT ![c] = Len(log)]
    /\ UNCHANGED <<log, answer>>

Answer(c, op) ==
    /\ snapshot[c] # NoSnapshot
    /\ answer' = [answer EXCEPT ![c] =
                    [op |-> op, ts |-> snapshot[c], value |-> Owed(log, op, snapshot[c])]]
    /\ UNCHANGED <<log, snapshot>>

End(c) ==
    /\ snapshot[c] # NoSnapshot
    /\ snapshot' = [snapshot EXCEPT ![c] = NoSnapshot]
    /\ UNCHANGED <<log, answer>>

Init ==
    /\ log = Preloaded
    /\ snapshot = [c \in Clients |-> NoSnapshot]
    /\ answer = [c \in Clients |-> NoAnswer]

Next ==
    \/ \E tx \in Updates : Commit(tx)
    \/ \E c \in Clients : Begin(c) \/ End(c)
    \/ \E c \in Clients, op \in ReadOps : Answer(c, op)

Spec == Init /\ [][Next]_storeVars
=============================================================================
