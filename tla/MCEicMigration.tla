--------------------------- MODULE MCEicMigration ---------------------------
(* Small instances of EicMigration. *)
EXTENDS EicMigration, TLC

CONSTANTS e1, e2

Symmetry == Permutations({e1, e2})
=============================================================================
