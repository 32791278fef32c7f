------------------------------ MODULE MCFaucet ------------------------------
(* A small instance of Faucet: three quotes of one holder, who may ask for two
   in a retention period.  Times are short enough for quotes to expire and to
   be handled in any order.  For discounts, days of every kind, and words so
   short that the greater sums overflow. *)
EXTENDS Faucet

CONSTANTS holder, q1, q2, q3

MCHolderOf == [q \in Quote |-> holder]

MCDue == {-30, 1, 2, 180, 362}
=============================================================================
