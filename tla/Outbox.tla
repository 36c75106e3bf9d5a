------------------------------- MODULE Outbox -------------------------------
(***************************************************************************)
(* The rows of projection_outbox and the drain's claim of them             *)
(* (apps/worker/src/jobs/outbox.ts).  What a row asks for and what the     *)
(* target does with it is left to the modules that extend this one: here a *)
(* worker that was handed a row ends by marking it processed or failed.    *)
(*                                                                         *)
(* Rows are numbered by created_at, the start of the transaction that      *)
(* wrote them: transactions may commit in another order, so Enqueue takes  *)
(* any number not used yet.                                                *)
(***************************************************************************)
EXTENDS Integers, FiniteSets

CONSTANTS
    Rows,           \* numbers of the outbox rows, in created_at order
    Workers,        \* drains that may be in progress at the same time
    MaxAttempts,    \* MAX_ATTEMPTS
    BatchSize,      \* the claim's limit
    Overrun,        \* may a live drain outlast CLAIM_LEASE?
    MaxRetries      \* bound: how often the administrator re-queues dead rows

ASSUME OutboxAssumption ==
    /\ Rows \subseteq Nat
    /\ MaxAttempts \in Nat \ {0}
    /\ BatchSize \in Nat \ {0}
    /\ Overrun \in BOOLEAN
    /\ MaxRetries \in Nat

VARIABLES
    row,        \* row[r]: "absent", "queued" (processed_at null), "processed", "pruned"
    attempts,   \* attempts[r]
    claim,      \* claimed_at: "none", "fresh" or "stale" (past CLAIM_LEASE)
    batch,      \* batch[w]: the rows drain w was handed and has not marked yet
    retries     \* bound on AdminRetry

outboxVars == <<row, attempts, claim, batch, retries>>

OutboxTypeOK ==
    /\ row \in [Rows -> {"absent", "queued", "processed", "pruned"}]
    /\ attempts \in [Rows -> Nat]
    /\ claim \in [Rows -> {"none", "fresh", "stale"}]
    /\ batch \in [Workers -> SUBSET Rows]
    /\ retries \in 0 .. MaxRetries

OutboxInit ==
    /\ row = [r \in Rows |-> "absent"]
    /\ attempts = [r \in Rows |-> 0]
    /\ claim = [r \in Rows |-> "none"]
    /\ batch = [w \in Workers |-> {}]
    /\ retries = 0

-----------------------------------------------------------------------------
Pending(r) == row[r] = "queued"
DeadLettered(r) == Pending(r) /\ attempts[r] >= MaxAttempts
Idle(w) == batch[w] = {}

\* insert into projection_outbox, in the transaction that changes the row
Enqueue(r) ==
    /\ row[r] = "absent"
    /\ row' = [row EXCEPT ![r] = "queued"]
    /\ UNCHANGED <<attempts, claim, batch, retries>>

\* The where clause of the claim.
Claimable_AnyClaim(r) ==            \* mutant: claimed_at is not looked at
    Pending(r) /\ attempts[r] < MaxAttempts
Claimable_NoCeiling(r) ==           \* mutant: attempts is not looked at
    Pending(r) /\ claim[r] # "fresh"
Claimable_NullOnly(r) ==            \* mutant: no stale-lease reclaim
    Pending(r) /\ attempts[r] < MaxAttempts /\ claim[r] = "none"
Claimable(r) ==
    /\ Pending(r)
    /\ attempts[r] < MaxAttempts
    /\ claim[r] \in {"none", "stale"}

\* order by created_at limit batchSize
OldestClaimable(S) ==
    LET all == {r \in Rows : Claimable(r)}
    IN  /\ S \subseteq all
        /\ S # {}
        /\ Cardinality(S) <= BatchSize
        /\ S # all => Cardinality(S) = BatchSize
        /\ \A r \in S, q \in all \ S : r < q

\* update ... set claimed_at = now() where id in (select ... for update skip
\* locked) returning: one statement, so two drains never take the same row.
Claim(w, S) ==
    /\ Idle(w)
    /\ OldestClaimable(S)
    /\ claim' = [r \in Rows |-> IF r \in S THEN "fresh" ELSE claim[r]]
    /\ batch' = [batch EXCEPT ![w] = S]
    /\ UNCHANGED <<row, attempts, retries>>

Done(w, r) == batch' = [batch EXCEPT ![w] = @ \ {r}]

\* markProcessed: claimed_at is left as it is.
MarkProcessed(w, r) ==
    /\ r \in batch[w]
    /\ row' = [row EXCEPT ![r] = IF @ = "queued" THEN "processed" ELSE @]
    /\ Done(w, r)
    /\ UNCHANGED <<attempts, claim, retries>>

MarkFailed_Decrement(w, r) ==       \* mutant: attempts counts the other way
    /\ r \in batch[w]
    /\ attempts' = [attempts EXCEPT ![r] = @ - 1]
    /\ claim' = [claim EXCEPT ![r] = "none"]
    /\ Done(w, r)
    /\ UNCHANGED <<row, retries>>

\* markFailed: the update is on the id alone, so it also lands on a row that
\* another drain has taken over or has processed meanwhile; on a pruned row
\* it updates nothing.
MarkFailed(w, r) ==
    /\ r \in batch[w]
    /\ IF row[r] = "pruned"
       THEN UNCHANGED <<attempts, claim>>
       ELSE /\ attempts' = [attempts EXCEPT ![r] = @ + 1]
            /\ claim' = [claim EXCEPT ![r] = "none"]
    /\ Done(w, r)
    /\ UNCHANGED <<row, retries>>

\* The process dies, or a mark throws and ends the drain: what it had not
\* marked stays claimed.
Crash(w) ==
    /\ ~Idle(w)
    /\ batch' = [batch EXCEPT ![w] = {}]
    /\ UNCHANGED <<row, attempts, claim, retries>>

\* CLAIM_LEASE goes by.  Under the worker's own five-minute limit the drain
\* that made the claim is dead by then; a long-running worker has no limit.
Lapse(r) ==
    /\ claim[r] = "fresh"
    /\ Overrun \/ \A w \in Workers : r \notin batch[w]
    /\ claim' = [claim EXCEPT ![r] = "stale"]
    /\ UNCHANGED <<row, attempts, batch, retries>>

\* retryProjectionOutbox: every dead-lettered row at once.
AdminRetry ==
    /\ retries < MaxRetries
    /\ \E r \in Rows : DeadLettered(r)
    /\ attempts' = [r \in Rows |-> IF DeadLettered(r) THEN 0 ELSE attempts[r]]
    /\ claim' = [r \in Rows |-> IF DeadLettered(r) THEN "none" ELSE claim[r]]
    /\ retries' = retries + 1
    /\ UNCHANGED <<row, batch>>

\* pruneOutbox drops every row processed more than a day ago; which rows are
\* that old is any set of them.
Prune(S) ==
    /\ S # {}
    /\ \A r \in S : row[r] = "processed"
    /\ row' = [r \in Rows |-> IF r \in S THEN "pruned" ELSE row[r]]
    /\ UNCHANGED <<attempts, claim, batch, retries>>

OutboxNext ==
    \/ \E r \in Rows : Enqueue(r) \/ Lapse(r)
    \/ \E w \in Workers, S \in SUBSET Rows : Claim(w, S)
    \/ \E w \in Workers, r \in Rows : MarkProcessed(w, r) \/ MarkFailed(w, r)
    \/ \E w \in Workers : Crash(w)
    \/ \E S \in SUBSET Rows : Prune(S)
    \/ AdminRetry

OutboxSpec == OutboxInit /\ [][OutboxNext]_outboxVars

\* The schedule starts a drain every minute, a lease lapses, and a row that is
\* handed out over and over is not met by a crash every single time.
OutboxFairness ==
    /\ SF_outboxVars(\E w \in Workers, S \in SUBSET Rows : Claim(w, S))
    /\ \A r \in Rows :
        /\ WF_outboxVars(Lapse(r))
        /\ SF_outboxVars(\E w \in Workers : MarkProcessed(w, r) \/ MarkFailed(w, r))

OutboxFairSpec == OutboxSpec /\ OutboxFairness

-----------------------------------------------------------------------------
\* outbox.ts:24 "the drain must guarantee a row is handled by at most one
\* worker at a time".  It does as long as no live drain outlasts its lease.
OneHandler ==
    \A v, w \in Workers : batch[v] \cap batch[w] # {} => v = w

\* outbox.ts:46 a poisonous row stops being retried: however the unguarded
\* markFailed of drains that overran interleaves, the failures counted and the
\* attempts still in flight exceed MAX_ATTEMPTS by less than the drains there
\* can be.
AttemptsBounded ==
    \A r \in Rows :
        attempts[r] + Cardinality({w \in Workers : r \in batch[w]})
            <= MaxAttempts - 1 + Cardinality(Workers)

\* outbox.ts:41 "a dead worker cannot strand them", and one poisonous row does
\* not hold up the rows behind it: every row is processed or gives up.
EveryRowSettles ==
    \A r \in Rows :
        Pending(r) ~> (row[r] \in {"processed", "pruned"} \/ DeadLettered(r))
=============================================================================
