------------------------------ MODULE MCCAStore ------------------------------
(* Small instances of the CA files for TLC. *)
EXTENDS CAStore, TLC

\* Servers are interchangeable.
Symmetry == Permutations(Servers)
=============================================================================
