--------------------------- MODULE MCQuerySession ---------------------------
(* Instances of QuerySession for TLC. *)
EXTENDS QuerySession, TLC

\* The service's query ids are interchangeable.
Symmetric == Permutations(QueryIds)
=============================================================================
