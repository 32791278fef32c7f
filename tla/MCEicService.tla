---------------------------- MODULE MCEicService ----------------------------
(* Small instances of EicService. *)
EXTENDS EicService, TLC

CONSTANTS r1, r2, c1, c2, e1, e2

Symmetry == Permutations({r1, r2}) \cup Permutations({c1, c2})
                \cup Permutations({e1, e2})
=============================================================================
