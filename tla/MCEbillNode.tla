---------------------------- MODULE MCEbillNode ----------------------------
(* A small instance of EbillNode: two seeds, two networks and configurations
   that differ in each of their parts, two requests and one event. *)
EXTENDS EbillNode

CONSTANTS s1, s2, n1, n2

Start1 == [mnemonic |-> s1, network |-> n1, create |-> FALSE]

MCConfig == {Start1,
             [Start1 EXCEPT !.create = TRUE],
             [Start1 EXCEPT !.mnemonic = s2],
             [Start1 EXCEPT !.network = n2]}
=============================================================================
