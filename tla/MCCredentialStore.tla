------------------------- MODULE MCCredentialStore -------------------------
(* Instances of CredentialStore for TLC. *)
EXTENDS CredentialStore, TLC

CONSTANT n1

\* Every name has a replacement mutex of its own.
OwnStripe == [n \in Names |-> IF n = n1 THEN 1 ELSE 2]

\* Credential ids, connections and queries are interchangeable.
Symmetric == Permutations(Creds) \cup Permutations(Conns) \cup Permutations(Queries)
=============================================================================
