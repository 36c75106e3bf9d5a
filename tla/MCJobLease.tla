----------------------------- MODULE MCJobLease -----------------------------
(* Instances of JobLease for TLC: three passes that may be alive together.  *)
EXTENDS JobLease

CONSTANTS p1, p2, p3
=============================================================================
