---------------------------- MODULE OutboxProofs ----------------------------
(***************************************************************************)
(* The claim hands a row to at most one drain at a time as long as no live *)
(* drain outlasts its lease, and MAX_ATTEMPTS bounds the retries even when *)
(* drains do; for any number of rows and of drains.                        *)
(***************************************************************************)
EXTENDS Outbox, FiniteSetTheorems, TLAPS

\* The outbox starts empty.
LEMMA OutboxInitType == ASSUME OutboxAssumption, OutboxInit PROVE OutboxTypeOK
  BY DEF OutboxAssumption, OutboxInit, OutboxTypeOK

\* Every step keeps the types of the rows, the claims and the drains.
LEMMA OutboxNextType ==
    ASSUME OutboxAssumption, OutboxTypeOK, [OutboxNext]_outboxVars
    PROVE  OutboxTypeOK'
<1> USE DEF OutboxAssumption, OutboxTypeOK
<1>1. ASSUME NEW r \in Rows, Enqueue(r) PROVE OutboxTypeOK'
  BY <1>1 DEF Enqueue
<1>2. ASSUME NEW r \in Rows, Lapse(r) PROVE OutboxTypeOK'
  BY <1>2 DEF Lapse
<1>3. ASSUME NEW w \in Workers, NEW S \in SUBSET Rows, Claim(w, S)
      PROVE  OutboxTypeOK'
  BY <1>3 DEF Claim
<1>4. ASSUME NEW w \in Workers, NEW r \in Rows, MarkProcessed(w, r)
      PROVE  OutboxTypeOK'
  BY <1>4 DEF MarkProcessed, Done
<1>5. ASSUME NEW w \in Workers, NEW r \in Rows, MarkFailed(w, r)
      PROVE  OutboxTypeOK'
  BY <1>5 DEF MarkFailed, Done
<1>6. ASSUME NEW w \in Workers, Crash(w) PROVE OutboxTypeOK'
  BY <1>6 DEF Crash
<1>7. ASSUME NEW S \in SUBSET Rows, Prune(S) PROVE OutboxTypeOK'
  BY <1>7 DEF Prune
<1>8. CASE AdminRetry
  BY <1>8 DEF AdminRetry
<1>9. CASE UNCHANGED outboxVars
  BY <1>9 DEF outboxVars
<1> QED
  BY <1>1, <1>2, <1>3, <1>4, <1>5, <1>6, <1>7, <1>8, <1>9 DEF OutboxNext

\* The outbox keeps its types.
THEOREM OutboxTypes == ASSUME OutboxAssumption PROVE OutboxSpec => []OutboxTypeOK
<1>1. OutboxInit => OutboxTypeOK
  BY OutboxInitType
<1>2. OutboxTypeOK /\ [OutboxNext]_outboxVars => OutboxTypeOK'
  BY OutboxNextType
<1> QED BY <1>1, <1>2, PTL DEF OutboxSpec

-----------------------------------------------------------------------------
\* A row in a drain's hands is claimed by it, not processed and not given up:
\* nothing makes it claimable to another until the drain lets go of it.
HandInv ==
    \A w \in Workers : \A r \in batch[w] :
        row[r] = "queued" /\ claim[r] = "fresh" /\ attempts[r] < MaxAttempts

\* While no live drain outlasts its lease, every step leaves a handed row fresh and
\* with one drain.
LEMMA HandNext ==
    ASSUME OutboxAssumption, ~Overrun, OutboxTypeOK, HandInv, OneHandler,
           [OutboxNext]_outboxVars
    PROVE  HandInv' /\ OneHandler'
<1> USE DEF OutboxAssumption, OutboxTypeOK, HandInv, OneHandler
<1>1. ASSUME NEW r \in Rows, Enqueue(r) PROVE HandInv' /\ OneHandler'
  BY <1>1 DEF Enqueue
<1>2. ASSUME NEW r \in Rows, Lapse(r) PROVE HandInv' /\ OneHandler'
  BY <1>2 DEF Lapse
<1>3. ASSUME NEW w \in Workers, NEW S \in SUBSET Rows, Claim(w, S)
      PROVE  HandInv' /\ OneHandler'
  <2>1. \A r \in S : Claimable(r)
    BY <1>3 DEF Claim, OldestClaimable
  <2>2. \A v \in Workers : batch[v] \cap S = {}
    BY <2>1 DEF Claimable
  <2>3. \A v \in Workers : batch'[v] = IF v = w THEN S ELSE batch[v]
    BY <1>3 DEF Claim
  <2>4. HandInv'
    BY <1>3, <2>1, <2>2, <2>3 DEF Claim, Claimable, Pending
  <2>5. OneHandler'
    BY <2>2, <2>3
  <2> QED BY <2>4, <2>5
<1>4. ASSUME NEW w \in Workers, NEW r \in Rows, MarkProcessed(w, r)
      PROVE  HandInv' /\ OneHandler'
  <2>1. \A v \in Workers : batch'[v] = IF v = w THEN batch[v] \ {r} ELSE batch[v]
    BY <1>4 DEF MarkProcessed, Done
  <2>2. \A v \in Workers : r \notin batch'[v]
    BY <1>4, <2>1 DEF MarkProcessed
  <2>3. \A q \in Rows : q # r =>
            row'[q] = row[q] /\ claim'[q] = claim[q] /\ attempts'[q] = attempts[q]
    BY <1>4 DEF MarkProcessed
  <2>4. ASSUME NEW v \in Workers, NEW q \in batch'[v]
        PROVE  row'[q] = "queued" /\ claim'[q] = "fresh" /\ attempts'[q] < MaxAttempts
    <3>1. q \in batch[v] /\ q # r /\ q \in Rows
      BY <2>1, <2>2
    <3> QED BY <2>3, <3>1
  <2>5. OneHandler'
    BY <2>1
  <2> QED BY <2>4, <2>5
<1>5. ASSUME NEW w \in Workers, NEW r \in Rows, MarkFailed(w, r)
      PROVE  HandInv' /\ OneHandler'
  <2>1. \A v \in Workers : batch'[v] = IF v = w THEN batch[v] \ {r} ELSE batch[v]
    BY <1>5 DEF MarkFailed, Done
  <2>2. \A v \in Workers : r \notin batch'[v]
    BY <1>5, <2>1 DEF MarkFailed
  <2>3. \A q \in Rows : q # r =>
            row'[q] = row[q] /\ claim'[q] = claim[q] /\ attempts'[q] = attempts[q]
    BY <1>5 DEF MarkFailed
  <2>4. ASSUME NEW v \in Workers, NEW q \in batch'[v]
        PROVE  row'[q] = "queued" /\ claim'[q] = "fresh" /\ attempts'[q] < MaxAttempts
    <3>1. q \in batch[v] /\ q # r /\ q \in Rows
      BY <2>1, <2>2
    <3> QED BY <2>3, <3>1
  <2>5. OneHandler'
    BY <2>1
  <2> QED BY <2>4, <2>5
<1>6. ASSUME NEW w \in Workers, Crash(w) PROVE HandInv' /\ OneHandler'
  BY <1>6 DEF Crash
<1>7. ASSUME NEW S \in SUBSET Rows, Prune(S) PROVE HandInv' /\ OneHandler'
  BY <1>7 DEF Prune
<1>8. CASE AdminRetry
  BY <1>8 DEF AdminRetry, DeadLettered
<1>9. CASE UNCHANGED outboxVars
  BY <1>9 DEF outboxVars
<1> QED
  BY <1>1, <1>2, <1>3, <1>4, <1>5, <1>6, <1>7, <1>8, <1>9 DEF OutboxNext

\* outbox.ts:24 "the drain must guarantee a row is handled by at most one
\* worker at a time".
THEOREM OneHandlerAlways ==
    ASSUME OutboxAssumption, ~Overrun PROVE OutboxSpec => []OneHandler
<1>1. OutboxInit => HandInv /\ OneHandler
  BY DEF OutboxInit, HandInv, OneHandler
<1>2. OutboxTypeOK /\ HandInv /\ OneHandler /\ [OutboxNext]_outboxVars
        => (HandInv /\ OneHandler)'
  BY HandNext
<1> QED BY <1>1, <1>2, OutboxTypes, PTL DEF OutboxSpec

-----------------------------------------------------------------------------
\* The drains that have row r in their hands.
Holders(r) == {w \in Workers : r \in batch[w]}
Bounded(r) ==
    attempts[r] + Cardinality(Holders(r)) <= MaxAttempts - 1 + Cardinality(Workers)

\* With finitely many drains the holders of a row can be counted.
LEMMA HoldersFinite ==
    ASSUME IsFiniteSet(Workers), NEW r
    PROVE  /\ IsFiniteSet(Holders(r))
           /\ Cardinality(Holders(r)) \in Nat
           /\ Cardinality(Workers) \in Nat
           /\ Cardinality(Holders(r)) <= Cardinality(Workers)
  BY FS_Subset, FS_CardinalityType DEF Holders

\* A step that hands out nothing and counts nothing.
LEMMA FewerHolders ==
    ASSUME IsFiniteSet(Workers), OutboxAssumption, OutboxTypeOK, NEW r \in Rows,
           Bounded(r), Holders(r)' \subseteq Holders(r),
           attempts'[r] \in Nat, attempts'[r] <= attempts[r]
    PROVE  Bounded(r)'
<1>1. /\ Cardinality(Holders(r)') <= Cardinality(Holders(r))
      /\ Cardinality(Holders(r)') \in Nat
  BY HoldersFinite, FS_Subset, FS_CardinalityType
<1> QED BY <1>1, HoldersFinite DEF Bounded, OutboxTypeOK, OutboxAssumption

\* A mark takes one drain's hand off the row, and counts at most one attempt.
LEMMA OneHolderLess ==
    ASSUME IsFiniteSet(Workers), OutboxAssumption, OutboxTypeOK, NEW r \in Rows,
           Bounded(r), NEW w \in Holders(r), Holders(r)' = Holders(r) \ {w},
           attempts'[r] \in {attempts[r], attempts[r] + 1}
    PROVE  Bounded(r)'
<1>1. /\ Cardinality(Holders(r)') = Cardinality(Holders(r)) - 1
      /\ Cardinality(Holders(r)') \in Nat
  BY HoldersFinite, FS_RemoveElement, FS_CardinalityType
<1> QED BY <1>1, HoldersFinite DEF Bounded, OutboxTypeOK, OutboxAssumption

\* A row is taken only below the ceiling, and a failure that is counted gives up
\* the hand it was taken by.
LEMMA BoundedNext ==
    ASSUME IsFiniteSet(Workers), OutboxAssumption, OutboxTypeOK,
           \A r \in Rows : Bounded(r), [OutboxNext]_outboxVars, NEW r \in Rows
    PROVE  Bounded(r)'
<1> USE DEF OutboxTypeOK, OutboxAssumption
<1>1. ASSUME NEW q \in Rows, Enqueue(q) \/ Lapse(q) PROVE Bounded(r)'
  BY <1>1, FewerHolders DEF Enqueue, Lapse, Holders
<1>2. ASSUME NEW w \in Workers, NEW S \in SUBSET Rows, Claim(w, S)
      PROVE  Bounded(r)'
  <2>1. attempts' = attempts
    BY <1>2 DEF Claim
  <2>2. CASE r \in S
    <3>1. attempts[r] <= MaxAttempts - 1
      BY <1>2, <2>2 DEF Claim, OldestClaimable, Claimable
    <3>2. /\ Holders(r)' \subseteq Workers
          /\ Cardinality(Holders(r)') \in Nat
          /\ Cardinality(Holders(r)') <= Cardinality(Workers)
      BY FS_Subset, FS_CardinalityType DEF Holders
    <3> QED BY <2>1, <3>1, <3>2, HoldersFinite DEF Bounded
  <2>3. CASE r \notin S
    <3>1. Holders(r)' \subseteq Holders(r)
      BY <1>2, <2>3 DEF Claim, Holders
    <3> QED BY <2>1, <3>1, FewerHolders
  <2> QED BY <2>2, <2>3
<1>3. ASSUME NEW w \in Workers, NEW q \in Rows,
             MarkProcessed(w, q) \/ MarkFailed(w, q)
      PROVE  Bounded(r)'
  <2>1. \A v \in Workers : batch'[v] = IF v = w THEN batch[v] \ {q} ELSE batch[v]
    BY <1>3 DEF MarkProcessed, MarkFailed, Done
  <2>2. CASE q = r
    <3>1. w \in Holders(r)
      BY <1>3, <2>2 DEF MarkProcessed, MarkFailed, Holders
    <3>2. Holders(r)' = Holders(r) \ {w}
      BY <2>1, <2>2 DEF Holders
    <3>3. attempts'[r] \in {attempts[r], attempts[r] + 1}
      BY <1>3, <2>2 DEF MarkProcessed, MarkFailed
    <3> QED BY <3>1, <3>2, <3>3, OneHolderLess
  <2>3. CASE q # r
    <3>1. Holders(r)' \subseteq Holders(r)
      BY <2>1, <2>3 DEF Holders
    <3>2. attempts'[r] = attempts[r]
      BY <1>3, <2>3 DEF MarkProcessed, MarkFailed
    <3> QED BY <3>1, <3>2, FewerHolders
  <2> QED BY <2>2, <2>3
<1>4. ASSUME NEW w \in Workers, Crash(w) PROVE Bounded(r)'
  BY <1>4, FewerHolders DEF Crash, Holders
<1>5. ASSUME NEW S \in SUBSET Rows, Prune(S) PROVE Bounded(r)'
  BY <1>5, FewerHolders DEF Prune, Holders
<1>6. CASE AdminRetry
  BY <1>6, FewerHolders DEF AdminRetry, Holders
<1>7. CASE UNCHANGED outboxVars
  BY <1>7, FewerHolders DEF outboxVars, Holders
<1> QED BY <1>1, <1>2, <1>3, <1>4, <1>5, <1>6, <1>7 DEF OutboxNext

\* outbox.ts:158 "a permanently poisonous row stops being retried forever":
\* with any overruns, the attempts made and in flight stay within the bound.
THEOREM AttemptsAlwaysBounded ==
    ASSUME OutboxAssumption, IsFiniteSet(Workers)
    PROVE  OutboxSpec => []AttemptsBounded
<1> DEFINE Inv == \A r \in Rows : Bounded(r)
<1>1. OutboxInit => Inv
  <2> SUFFICES ASSUME OutboxInit, NEW r \in Rows
               PROVE  Bounded(r)
    OBVIOUS
  <2>1. Holders(r) = {}
    BY DEF Holders, OutboxInit
  <2> QED
    BY <2>1, FS_EmptySet, HoldersFinite DEF Bounded, OutboxInit, OutboxAssumption
<1>2. OutboxTypeOK /\ Inv /\ [OutboxNext]_outboxVars => Inv'
  BY BoundedNext
<1>3. Inv => AttemptsBounded
  BY DEF Bounded, Holders, AttemptsBounded
<1> QED BY <1>1, <1>2, <1>3, OutboxTypes, PTL DEF OutboxSpec
=============================================================================
