------------------------------ MODULE JobLease ------------------------------
(***************************************************************************)
(* A named job lease (apps/worker/src/jobs/lease.ts): run a job that spans *)
(* several transactions at most once at a time.  The lease is one row of   *)
(* job_leases; it is taken by one guarded upsert, lapses by the clock, and *)
(* is released by an update guarded on the holder's token.                 *)
(*                                                                         *)
(* Time is kept relative to the clock, so that no bound is needed: `left'  *)
(* is locked_until - now(), and age[p] is the time since p took the lease. *)
(***************************************************************************)
EXTENDS Integers

CONSTANTS
    Passes,     \* passes of the job that may be alive at the same time
    Nobody,     \* the null holder
    Ttl,        \* ttlSeconds, in clock ticks
    Ceiling     \* a pass is killed at this age (the worker's own time limit)

ASSUME JobLeaseAssumption ==
    /\ Nobody \notin Passes
    /\ Ttl \in Nat \ {0}
    /\ Ceiling \in Nat

VARIABLES
    phase,      \* phase[p]: where pass p stands in withLease
    age,        \* age[p]: ticks since p took the lease
    holder,     \* job_leases.holder
    left        \* job_leases.locked_until - now(); Lapsed once below now

vars == <<phase, age, holder, left>>

Lapsed == -1

TypeOK ==
    /\ phase \in [Passes -> {"idle", "running", "releasing"}]
    /\ age \in [Passes -> Nat]
    /\ holder \in Passes \cup {Nobody}
    /\ left \in Lapsed .. Ttl

\* No row yet is the same as a lapsed one: the upsert lands in both cases.
Init ==
    /\ phase = [p \in Passes |-> "idle"]
    /\ age = [p \in Passes |-> 0]
    /\ holder = Nobody
    /\ left = Lapsed

-----------------------------------------------------------------------------
\* The token is drawn per acquisition, so two live passes never share one.
HolderToken(p) == p

\* on conflict do update ... where job_leases.locked_until < now()
MayTake_Inclusive == left <= 0          \* mutant: locked_until <= now()
MayTake_NeverLapses == holder = Nobody  \* mutant: a lock that does not expire
MayTake == left < 0

\* mutant: the lease is taken for longer than the caller asked
Acquire_LongTtl(p) ==
    /\ phase[p] = "idle"
    /\ MayTake
    /\ left' = Ttl + 1
    /\ holder' = HolderToken(p)
    /\ age' = [age EXCEPT ![p] = 0]
    /\ phase' = [phase EXCEPT ![p] = "running"]

\* The insert ... on conflict do update ... returning.  A pass whose update is
\* filtered out returns {acquired: false} and changes nothing.
Acquire(p) ==
    /\ phase[p] = "idle"
    /\ MayTake
    /\ left' = Ttl
    /\ holder' = HolderToken(p)
    /\ age' = [age EXCEPT ![p] = 0]
    /\ phase' = [phase EXCEPT ![p] = "running"]

\* job() returned or threw: the finally block is next.
JobEnds(p) ==
    /\ phase[p] = "running"
    /\ phase' = [phase EXCEPT ![p] = "releasing"]
    /\ UNCHANGED <<age, holder, left>>

\* mutant: the release is not guarded on the holder
Release_Unguarded(p) ==
    /\ phase[p] = "releasing"
    /\ phase' = [phase EXCEPT ![p] = "idle"]
    /\ left' = 0
    /\ holder' = Nobody
    /\ UNCHANGED age

\* update job_leases set locked_until = now(), holder = null
\*  where name = ... and holder = mine
Release(p) ==
    /\ phase[p] = "releasing"
    /\ phase' = [phase EXCEPT ![p] = "idle"]
    /\ IF holder = HolderToken(p)
       THEN left' = 0 /\ holder' = Nobody
       ELSE UNCHANGED <<left, holder>>
    /\ UNCHANGED age

\* The process dies, or the release fails and its error is swallowed.
Vanish(p) ==
    /\ phase[p] # "idle"
    /\ phase' = [phase EXCEPT ![p] = "idle"]
    /\ UNCHANGED <<age, holder, left>>

\* The clock.  A pass is killed at its ceiling, so time does not get past it
\* while the pass is still there.
Tick ==
    /\ \A p \in Passes : phase[p] # "idle" => age[p] < Ceiling
    /\ age' = [p \in Passes |-> IF phase[p] = "idle" THEN 0 ELSE age[p] + 1]
    /\ left' = IF left = Lapsed THEN Lapsed ELSE left - 1
    /\ UNCHANGED <<phase, holder>>

Next ==
    \/ Tick
    \/ \E p \in Passes : Acquire(p) \/ JobEnds(p) \/ Release(p) \/ Vanish(p)

\* The clock runs, a pass ends or is killed at its ceiling, and the schedule
\* keeps starting passes (one of them, whichever gets there).
Fairness ==
    /\ WF_vars(Tick)
    /\ \A p \in Passes : WF_vars(JobEnds(p)) /\ WF_vars(Release(p) \/ Vanish(p))
    /\ WF_vars(\E p \in Passes : Acquire(p))

Spec == Init /\ [][Next]_vars
FairSpec == Spec /\ Fairness

-----------------------------------------------------------------------------
\* lease.ts:48 "Two callers racing cannot both come away believing they hold
\* it", and lease.ts:51: two passes run the job at the same time only if one of
\* them has outlived the TTL it asked for, whatever crashes or overruns.
MutualExclusion ==
    \A p, q \in Passes :
        /\ phase[p] = "running" /\ age[p] <= Ttl
        /\ phase[q] = "running" /\ age[q] <= Ttl
        => p = q

\* lease.ts:85 the release is guarded on the holder: a pass that is running and
\* still owns the row loses it to another pass only by outliving its own TTL,
\* never because a pass that overran gave away a lease it no longer had.
LeaseLostOnlyByLapse ==
    [][\A p \in Passes :
          (phase[p] = "running" /\ holder = p /\ holder' # p) => left < 0]_vars

\* lease.ts:16 "the failure mode is 'late' rather than 'never again'": however
\* passes crash without releasing, the job is run again and again.
JobKeepsRunning == []<>(\E p \in Passes : phase[p] = "running")
=============================================================================
