-------------------------- MODULE MCLinkProjection --------------------------
(* Instances of LinkProjection for TLC. *)
EXTENDS LinkProjection, TLC

CONSTANTS w1, w2, plain, other, gated

DrainSymmetry == Permutations(Workers)

\* A scan finds a link that was taken for clean pending, or a pending one clean.
CleanAndPending == {<<plain, gated>>, <<gated, plain>>}
=============================================================================
