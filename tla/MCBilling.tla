----------------------------- MODULE MCBilling -----------------------------
(* Instances of Billing for TLC: one workspace, two plans. *)
EXTENDS Billing, TLC

CONSTANTS s1, h1, h2

RequestSymmetry == Permutations(Handlers)
=============================================================================
