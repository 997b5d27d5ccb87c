-------------------------- MODULE MCPriorityQueue --------------------------
(* PriorityQueue on a small instance.                                       *)
EXTENDS PriorityQueue

\* Streams are interchangeable.
StreamSymmetry == Permutations(Streams)
============================================================================
