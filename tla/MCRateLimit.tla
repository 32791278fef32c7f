----------------------------- MODULE MCRateLimit -----------------------------
(* A small instance of RateLimit.  As in the code the e-mail window is as
   long as MAX_IDLE, the node window is shorter, and pruning runs more often
   than windows become idle.  One address and one node give the three maps
   a window each; five units of time let an e-mail window expire, be pruned
   and be used again. *)
EXTENDS RateLimit
=============================================================================
