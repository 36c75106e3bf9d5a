--------------------------- MODULE MCRedirectCache ---------------------------
(* Instances of RedirectCache for TLC. *)
EXTENDS RedirectCache, TLC

CONSTANTS q1, q2

RequestSymmetry == Permutations(Requests)
=============================================================================
