--------------------------- MODULE MCAuthRegistry ---------------------------
(* Instances of AuthRegistry for TLC. *)
EXTENDS AuthRegistry, TLC

\* Ids and connections are interchangeable where only safety is checked and all
\* connections are alike.
Symmetric == Permutations(Ids) \cup Permutations(Conns)
=============================================================================
