--------------------------- MODULE JobLeaseProofs ---------------------------
(***************************************************************************)
(* The lease keeps apart the passes that stay within their TTL, for any    *)
(* number of passes, any TTL and any ceiling; and all of them when the TTL *)
(* is no shorter than the worker's own ceiling.                            *)
(***************************************************************************)
EXTENDS JobLease, TLAPS

\* What makes mutual exclusion inductive: a pass that is still within its TTL
\* owns the row, and the row lapses exactly a TTL after the pass took it.
LiveInv ==
    \A p \in Passes :
        phase[p] # "idle" =>
            /\ age[p] <= Ceiling
            /\ age[p] <= Ttl => holder = p /\ left = Ttl - age[p]

IInv == TypeOK /\ LiveInv

\* Nobody runs and nobody holds the lease.
LEMMA InitIInv == ASSUME JobLeaseAssumption, Init PROVE IInv
  BY DEF JobLeaseAssumption, Init, IInv, TypeOK, LiveInv, Lapsed

\* Every step keeps the types.
LEMMA NextTypeOK ==
    ASSUME JobLeaseAssumption, TypeOK, [Next]_vars PROVE TypeOK'
<1> USE DEF JobLeaseAssumption, TypeOK, Lapsed
<1>1. CASE Tick
  BY <1>1 DEF Tick
<1>2. ASSUME NEW p \in Passes, Acquire(p) PROVE TypeOK'
  BY <1>2 DEF Acquire, HolderToken
<1>3. ASSUME NEW p \in Passes, JobEnds(p) PROVE TypeOK'
  BY <1>3 DEF JobEnds
<1>4. ASSUME NEW p \in Passes, Release(p) PROVE TypeOK'
  BY <1>4 DEF Release, HolderToken
<1>5. ASSUME NEW p \in Passes, Vanish(p) PROVE TypeOK'
  BY <1>5 DEF Vanish
<1>6. CASE UNCHANGED vars
  BY <1>6 DEF vars
<1> QED BY <1>1, <1>2, <1>3, <1>4, <1>5, <1>6 DEF Next

\* Every step keeps the lease of whoever is within its TTL: the guarded upsert takes
\* it only when it has lapsed, and the release only drops one that is its own.
LEMMA NextLiveInv ==
    ASSUME JobLeaseAssumption, IInv, [Next]_vars
    PROVE  LiveInv'
<1> USE DEF JobLeaseAssumption, IInv, TypeOK, Lapsed
<1>1. CASE Tick
  BY <1>1 DEF Tick, LiveInv
<1>2. ASSUME NEW p \in Passes, Acquire(p) PROVE LiveInv'
  <2>1. \A q \in Passes : phase[q] # "idle" => age[q] > Ttl
    BY <1>2 DEF Acquire, MayTake, LiveInv
  <2> QED BY <1>2, <2>1 DEF Acquire, HolderToken, LiveInv
<1>3. ASSUME NEW p \in Passes, JobEnds(p) PROVE LiveInv'
  BY <1>3 DEF JobEnds, LiveInv
<1>4. ASSUME NEW p \in Passes, Release(p) PROVE LiveInv'
  <2>1. \A q \in Passes \ {p} :
           holder = p /\ phase[q] # "idle" => age[q] > Ttl
    BY <1>4 DEF Release, LiveInv
  <2> QED BY <1>4, <2>1 DEF Release, HolderToken, LiveInv
<1>5. ASSUME NEW p \in Passes, Vanish(p) PROVE LiveInv'
  BY <1>5 DEF Vanish, LiveInv
<1>6. CASE UNCHANGED vars
  BY <1>6 DEF vars, LiveInv
<1> QED BY <1>1, <1>2, <1>3, <1>4, <1>5, <1>6 DEF Next

\* Two passes within their TTL would both be the holder.
LEMMA MutexFromIInv == ASSUME IInv PROVE MutualExclusion
  BY DEF IInv, LiveInv, MutualExclusion

-----------------------------------------------------------------------------
\* lease.ts:46-54 the guarded upsert: passes that stay within their TTL never
\* run the job at the same time, whatever the others do.
THEOREM LeaseExcludes ==
    ASSUME JobLeaseAssumption PROVE Spec => []MutualExclusion
<1>1. Init => IInv
  BY InitIInv
<1>2. IInv /\ [Next]_vars => IInv'
  BY NextTypeOK, NextLiveInv DEF IInv
<1>3. IInv => MutualExclusion
  BY MutexFromIInv
<1> QED BY <1>1, <1>2, <1>3, PTL DEF Spec

\* lease.ts:51-54 sizing the TTL against the worker's own ceiling makes the
\* lease exclusive outright: no two passes ever run the job at once.
THEOREM SizedLeaseExcludes ==
    ASSUME JobLeaseAssumption, Ceiling <= Ttl
    PROVE  Spec => [](\A p, q \in Passes :
                        phase[p] = "running" /\ phase[q] = "running" => p = q)
<1> DEFINE OnePass == \A p, q \in Passes :
                        phase[p] = "running" /\ phase[q] = "running" => p = q
<1>1. Init => IInv
  BY InitIInv
<1>2. IInv /\ [Next]_vars => IInv'
  BY NextTypeOK, NextLiveInv DEF IInv
<1>3. IInv => OnePass
  BY DEF JobLeaseAssumption, IInv, TypeOK, LiveInv
<1> QED BY <1>1, <1>2, <1>3, PTL DEF Spec

\* The state keeps its types, with or without overrun.
THEOREM LeaseTypes == ASSUME JobLeaseAssumption PROVE Spec => []TypeOK
<1>1. Init => TypeOK
  BY InitIInv DEF IInv
<1>2. TypeOK /\ [Next]_vars => TypeOK'
  BY NextTypeOK
<1> QED BY <1>1, <1>2, PTL DEF Spec

\* lease.ts:85-98 the guard on the holder: whatever overruns, a running pass
\* that owns the row loses it only after its own TTL has gone by.
THEOREM LiveLeaseKept ==
    ASSUME JobLeaseAssumption PROVE Spec => LeaseLostOnlyByLapse
<1> DEFINE Lost == \A p \in Passes :
             (phase[p] = "running" /\ holder = p /\ holder' # p) => left < 0
<1>1. TypeOK /\ [Next]_vars => [Lost]_vars
  <2> SUFFICES ASSUME TypeOK, Next, NEW q \in Passes,
                      phase[q] = "running", holder = q, holder' # q
               PROVE  left < 0
    OBVIOUS
  <2>1. CASE Tick
    BY <2>1 DEF Tick
  <2>2. ASSUME NEW p \in Passes,
               Acquire(p) \/ JobEnds(p) \/ Release(p) \/ Vanish(p)
        PROVE  left < 0
    BY <2>2 DEF Acquire, MayTake, JobEnds, Release, HolderToken, Vanish
  <2> QED BY <2>1, <2>2 DEF Next
<1> QED BY <1>1, LeaseTypes, PTL DEF Spec, LeaseLostOnlyByLapse
=============================================================================
