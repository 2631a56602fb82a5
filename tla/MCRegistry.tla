------------------------------ MODULE MCRegistry ------------------------------
(* Registry for TLC's safety runs: connections and names may be permuted.  *)
EXTENDS Registry

Symmetry == Permutations(Conn) \cup Permutations(Name)
=============================================================================
