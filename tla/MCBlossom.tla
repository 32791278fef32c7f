------------------------------ MODULE MCBlossom ------------------------------
(* A small instance of Blossom: two requests at once, a good blob that takes
   two chunks, one that is larger than the limit and one that is not
   encrypted, and one database failure. *)
EXTENDS Blossom

CONSTANTS good, large, plain

MCSize == [b \in {good, large, plain} |-> IF b = large THEN 4 ELSE 2]
=============================================================================
