---------------------------- MODULE MCCertCache ------------------------------
(* Small instances of the certificate cache for TLC. *)
EXTENDS CertCache, TLC

\* Goroutines are interchangeable; SNIs are not (Unasked names one).
Symmetry == Permutations(Procs)
=============================================================================
