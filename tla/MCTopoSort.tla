----------------------------- MODULE MCTopoSort -----------------------------
(* Finite instances of TopoSort: every dependency relation of a few nodes.  *)
EXTENDS TopoSort

\* The nodes are their own keys.
MCKey == [n \in Node |-> n]

\* All of them are sorted, or all but the last, which is then unknown.
MCNodeSets == {Node, Node \ {Cardinality(Node)}}
=============================================================================
