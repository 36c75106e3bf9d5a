---------------------------- MODULE MCDomainMeta ----------------------------
(* Instances of DomainMeta for TLC. *)
EXTENDS DomainMeta, TLC

CONSTANTS w1, w2, home

DrainSymmetry == Permutations(Workers)

\* bound: how many puts whose answer was lost are outstanding at once
OneStray == Cardinality(stray) <= 1
=============================================================================
