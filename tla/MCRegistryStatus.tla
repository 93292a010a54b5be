--------------------------- MODULE MCRegistryStatus ---------------------------
(* Two executions on one record with at most two versions, two nodes that  *)
(* must agree, and reports delivered late, twice and in any order.         *)
EXTENDS RegistryStatus, TLC

CONSTANTS c1, c2, e1, e2, n1, n2

Interchangeable == Permutations(Content) \cup Permutations(Node)
                   \cup Permutations(Elsewhere) \cup Permutations(Execution \ Elsewhere)
=============================================================================
