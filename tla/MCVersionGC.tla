----------------------------- MODULE MCVersionGC -----------------------------
(***************************************************************************)
(* Instances of VersionGC for TLC: directed edges over two vertices, an    *)
(* edge that is inserted again alone or with another one, so that a round  *)
(* of the collector meets chains and degree lists of several nodes; or two *)
(* edges of two vertices, so that one may be inserted again when a         *)
(* snapshot was taken after a commit of the other.                         *)
(***************************************************************************)
EXTENDS VersionGC

AgainAndMore == {{<<0, 1>>}, {<<0, 0>>, <<0, 1>>}}
TwoEdges     == {{<<0, 1>>}, {<<1, 0>>}}

AllKinds == {"shared", "unique", "clone", "failed"}
Shared   == {"shared"}
=============================================================================
