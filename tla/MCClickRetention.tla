-------------------------- MODULE MCClickRetention --------------------------
(* Instances of ClickRetention for TLC: two clicks, one of a workspace that  *)
(* keeps less than the install and one of a workspace that asked for more.   *)
EXTENDS ClickRetention

CONSTANTS r1, r2

MCKeepOf == [r \in Rows |-> IF r = r1 THEN 1 ELSE 3]
=============================================================================
