------------------------------ MODULE MCCowTx ------------------------------
(***************************************************************************)
(* Instances of CowTx for TLC: blocks of two, so that 0, 2 and 4 are heads *)
(* that split the blocks of the others; two writers, one of which may      *)
(* insert an edge the other one has inserted already, and throw.           *)
(***************************************************************************)
EXTENDS CowTx

Vertex(vs)  == [vertices |-> vs, edges |-> <<>>, batch |-> <<>>]
Insert(e)   == [vertices |-> <<>>, edges |-> <<e>>, batch |-> <<>>]
Batch(es)   == [vertices |-> <<>>, edges |-> <<>>, batch |-> es]

FreeEdges == {<<0, 1>>, <<1, 2>>, <<1, 3>>, <<1, 4>>, <<3, 4>>}

\* Any two edges, one by one, against any two in a batch; vertex 4 comes late.
TwoWriters ==
    {[w \in Writers |->
        IF w = CHOOSE x \in Writers : TRUE
        THEN <<Insert(e), Insert(f), Vertex(<<4>>)>>
        ELSE <<Batch(<<g, h>>), Batch(<<e>>)>>]
        : e \in FreeEdges, f \in FreeEdges, g \in FreeEdges, h \in FreeEdges}

\* Batches without duplicates.
SmallBatches ==
    {[w \in Writers |-> <<Insert(<<1, 2>>), Insert(<<1, 3>>), Batch(<<g>>), Insert(<<0, 3>>)>>]
        : g \in FreeEdges \ {<<1, 2>>, <<1, 3>>}}
=============================================================================
