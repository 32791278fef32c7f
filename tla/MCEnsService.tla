---------------------------- MODULE MCEnsService ----------------------------
(* Small instances of EnsService. *)
EXTENDS EnsService, TLC

CONSTANTS n1, n2, r1, r2

Symmetry == Permutations({n1, n2}) \cup Permutations({r1, r2})
=============================================================================
