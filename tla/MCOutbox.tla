------------------------------ MODULE MCOutbox ------------------------------
(* Instances of Outbox for TLC: two drains over a few rows. *)
EXTENDS Outbox, TLC

CONSTANTS w1, w2

DrainSymmetry == Permutations(Workers)
=============================================================================
