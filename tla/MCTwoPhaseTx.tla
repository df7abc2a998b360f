---------------------------- MODULE MCTwoPhaseTx ----------------------------
(***************************************************************************)
(* Instances of TwoPhaseTx for TLC.  The transactions are those the        *)
(* wrapper builds: insert_edge of an undirected edge adds both directions, *)
(* run_batch_edge_update both directions of each edge of a chunk,          *)
(* insert_vertex and run_batch_vertex_update vertices only.                *)
(***************************************************************************)
EXTENDS TwoPhaseTx

EdgeTx(a, b)   == [verts |-> 0, edges |-> <<<<a, b>>, <<b, a>>>>]
BatchTx(pairs) == [verts |-> 0, edges |->
                    [i \in 1..2 * Len(pairs) |->
                        IF i % 2 = 1 THEN pairs[(i + 1) \div 2]
                        ELSE <<pairs[i \div 2][2], pairs[i \div 2][1]>>]]
VertexTx(n)    == [verts |-> n, edges |-> <<>>]

Op(kind, u, v) == [kind |-> kind, u |-> u, v |-> v]

\* An edge, a self loop, and a batch that has the edge again and asks for its
\* sources in another order; container_test.cpp loads vertices and then lists them.
EdgeTxs == {EdgeTx(0, 1), EdgeTx(0, 0), BatchTx(<<<<1, 2>>, <<0, 1>>>>)}
EdgeOps == {Op("edges", 1, 0), Op("has_edge", 0, 1), Op("edge_count", 0, 0),
            Op("get_vertices", 0, 0), Op("get_neighbor_ptr", 0, 0)}

\* Loading the vertices while others already run; an edge to a vertex that may
\* not be there yet; every read that takes locks.
FaultTxs == {VertexTx(2), EdgeTx(0, 1)}
FaultOps == {Op("degree", 1, 0), Op("has_vertex", 0, 0), Op("get_neighbor_ptr", 0, 0),
             Op("get_vertices", 0, 0), Op("intersect", 0, 1), Op("edge_count", 0, 0)}

OneEdgeTxs == {EdgeTx(0, 1)}
IterateOps == {Op("iterate", 0, 0)}
=============================================================================
