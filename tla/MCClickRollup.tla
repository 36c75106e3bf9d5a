--------------------------- MODULE MCClickRollup ---------------------------
(* Instances of ClickRollup for TLC: two visitors of one link whose limit is *)
(* one click, and two rollups.                                               *)
EXTENDS ClickRollup, TLC

CONSTANTS c1, c2, w1, w2, promo

MCLinkOf == [c \in Clicks |-> promo]
MCVisitorOf == [c \in Clicks |-> c]
MCLimit == [l \in Links |-> 1]

ClickSymmetry == Permutations(Rollups) \cup Permutations(Clicks)
=============================================================================
