----------------------------- MODULE DomainMeta -----------------------------
(***************************************************************************)
(* The DOMAIN-META item of one host: the redirects of a connected domain,  *)
(* as the API changes them in Postgres (domains.service.ts) and as the     *)
(* worker projects them into DynamoDB through the outbox                   *)
(* (dynamo-projection.ts, apply()).                                        *)
(*                                                                         *)
(* A worker's reads and its conditional put are steps of their own, so what*)
(* it read may be stale when it lands; a put whose answer is lost may land *)
(* later still.  A host may be disconnected and connected again, each time *)
(* as a domain with a greater id (uuidv7).                                 *)
(***************************************************************************)
EXTENDS Outbox

CONSTANTS
    Redirects,      \* values of (root_redirect, not_found_redirect)
    NoRedirect,     \* both of them null
    MaxId,          \* bound: how often the host is connected
    MaxVersion      \* bound: how often one domain row is changed

ASSUME DomainMetaAssumption ==
    /\ NoRedirect \in Redirects
    /\ MaxId \in Nat
    /\ MaxVersion \in Nat

VARIABLES
    dom,        \* the domains row of the host; with status "none", its last id
    op,         \* op[r]: what outbox row r asks for
    stage,      \* stage[w]: where drain w stands in apply()
    todo,       \* todo[w]: claimed rows that w has not resolved yet
    held,       \* held[w]: the newest meta item w has resolved (metaByKey)
    owners,     \* owners[w]: the rows that contributed to held[w]
    failed,     \* failed[w]: the rows whose result is not ok
    stored,     \* the item in DynamoDB
    stray       \* puts whose answer was lost and that may still be carried out

drainVars == <<stage, todo, held, owners, failed>>
metaVars == <<dom, op, drainVars, stored, stray>>
vars == <<outboxVars, metaVars>>

\* Id 0 stands for no item: attribute_not_exists(id), and the least of all.
NoItem == [id |-> 0, deleted |-> FALSE, version |-> 0, redirect |-> NoRedirect]
Items == [id : Nat, deleted : BOOLEAN, version : Nat, redirect : Redirects]
Tombstone(i) == [id |-> i, deleted |-> TRUE, version |-> 0, redirect |-> NoRedirect]

NoOp == [kind |-> "none", id |-> 0]
Ops == [kind : {"none", "domain", "upsert"}, id : Nat]
Domains == [id : Nat, status : {"none", "verifying", "live"}, version : Nat,
            redirect : Redirects]

TypeOK ==
    /\ OutboxTypeOK
    /\ dom \in Domains
    /\ op \in [Rows -> Ops]
    /\ stage \in [Workers -> {"idle", "resolve", "write", "mark"}]
    /\ todo \in [Workers -> SUBSET Rows]
    /\ held \in [Workers -> Items]
    /\ owners \in [Workers -> SUBSET Rows]
    /\ failed \in [Workers -> SUBSET Rows]
    /\ stored \in Items
    /\ stray \in SUBSET Items

\* The host was never connected, or it is live and projected, its rows pruned.
Init ==
    /\ OutboxInit
    /\ \/ /\ dom = [id |-> 0, status |-> "none", version |-> 0,
                  redirect |-> NoRedirect]
          /\ stored = NoItem
       \/ \E v \in Redirects :
            /\ dom = [id |-> 1, status |-> "live", version |-> 2, redirect |-> v]
            /\ stored = [id |-> 1, deleted |-> FALSE, version |-> 2, redirect |-> v]
    /\ op = [r \in Rows |-> NoOp]
    /\ stage = [w \in Workers |-> "idle"]
    /\ todo = [w \in Workers |-> {}]
    /\ held = [w \in Workers |-> NoItem]
    /\ owners = [w \in Workers |-> {}]
    /\ failed = [w \in Workers |-> {}]
    /\ stray = {}

-----------------------------------------------------------------------------
(* The API.  Every transaction that changes what the host should serve     *)
(* writes an outbox row with it.                                           *)

EnqueueOp(r, kind, i) ==
    /\ Enqueue(r)
    /\ op' = [op EXCEPT ![r] = [kind |-> kind, id |-> i]]
    /\ UNCHANGED <<drainVars, stored, stray>>

\* nextVersionSql: strictly greater than the version of the row it updates.
NextVersion == dom.version + 1

\* add() without a redirect: no meta item to write, no op.
Connect ==
    /\ dom.status = "none"
    /\ dom.id < MaxId
    /\ dom' = [id |-> dom.id + 1, status |-> "verifying", version |-> 1,
               redirect |-> NoRedirect]
    /\ UNCHANGED <<outboxVars, op, drainVars, stored, stray>>

\* add() with a redirect.
ConnectWith(r, v) ==
    /\ dom.status = "none"
    /\ dom.id < MaxId
    /\ v # NoRedirect
    /\ dom' = [id |-> dom.id + 1, status |-> "verifying", version |-> 1,
               redirect |-> v]
    /\ EnqueueOp(r, "domain", dom.id + 1)

\* verify(): only the call that flips the row writes anything.
Verify(r) ==
    /\ dom.status = "verifying"
    /\ dom.version < MaxVersion
    /\ dom' = [dom EXCEPT !.status = "live", !.version = NextVersion]
    /\ EnqueueOp(r, "domain", dom.id)

\* update(): set, change or clear the redirects, verified or not.
Update(r, v) ==
    /\ dom.status # "none"
    /\ dom.version < MaxVersion
    /\ dom' = [dom EXCEPT !.redirect = v, !.version = NextVersion]
    /\ EnqueueOp(r, "domain", dom.id)

\* remove(), or the removal of the whole workspace.
Disconnect(r) ==
    /\ dom.status # "none"
    /\ dom' = [dom EXCEPT !.status = "none", !.redirect = NoRedirect]
    /\ EnqueueOp(r, "domain", dom.id)

\* A link of the domain is written: its upsert projects the domain's meta too.
WriteLink(r) ==
    /\ dom.status = "live"
    /\ EnqueueOp(r, "upsert", dom.id)
    /\ UNCHANGED dom

\* A link of the domain is removed: a domain op goes with the delete.  The
\* domain was read before the transaction: another call may have removed the
\* same link, and then disconnected the domain, in between.
RemoveLink(r, i) ==
    /\ i < dom.id \/ (i = dom.id /\ dom.status # "verifying")
    /\ EnqueueOp(r, "domain", i)
    /\ UNCHANGED dom

\* backfillDomainMeta: live domains with a redirect and no op that the drain
\* is still going to process.
Backfill(r) ==
    /\ dom.status = "live"
    /\ dom.redirect # NoRedirect
    /\ ~\E q \in Rows : /\ Pending(q)
                        /\ attempts[q] < MaxAttempts
                        /\ op[q] = [kind |-> "domain", id |-> dom.id]
    /\ EnqueueOp(r, "domain", dom.id)
    /\ UNCHANGED dom

Api(r) ==
    \/ Verify(r)
    \/ Disconnect(r)
    \/ WriteLink(r)
    \/ Backfill(r)
    \/ \E i \in 1 .. dom.id : RemoveLink(r, i)
    \/ \E v \in Redirects : ConnectWith(r, v) \/ Update(r, v)

-----------------------------------------------------------------------------
(* The drain: DynamoProjection.apply() on the claimed batch.               *)

RowItem ==
    [id |-> dom.id, deleted |-> FALSE, version |-> dom.version,
     redirect |-> IF dom.status = "live" THEN dom.redirect ELSE NoRedirect]

\* buildDomainMeta: the row as it is now, neutral unless live, or a tombstone.
DomainOpItem(i) ==
    IF dom.id = i /\ dom.status # "none" THEN RowItem ELSE Tombstone(i)

\* buildUpsertRequests: the meta item of a link upsert.  The link may be gone.
UpsertItems(i) ==
    {NoItem} \cup IF dom.id = i /\ dom.status = "live" THEN {RowItem} ELSE {}

Resolutions(r) ==
    IF op[r].kind = "domain" THEN {DomainOpItem(op[r].id)} ELSE UpsertItems(op[r].id)

\* supersedes(a, b)
Supersedes(a, b) ==
    \/ a.id > b.id
    \/ a.id = b.id /\ a.deleted /\ ~b.deleted
    \/ a.id = b.id /\ a.deleted = b.deleted /\ a.version >= b.version

\* metaCondition(item), against the stored item
Lands_NoTombstone(item) ==              \* mutant: a tombstone is overwritten
    \/ stored.id < item.id
    \/ stored.id = item.id /\ (item.deleted \/ stored.version <= item.version)
Lands(item) ==
    \/ stored = NoItem
    \/ item.deleted /\ stored.id <= item.id
    \/ ~item.deleted /\ stored.id < item.id
    \/ ~item.deleted /\ stored.id = item.id /\ ~stored.deleted
                     /\ stored.version <= item.version

Put(item) == stored' = IF Lands(item) THEN item ELSE stored

Drain(w, S) ==
    /\ stage[w] = "idle"
    /\ Claim(w, S)
    /\ stage' = [stage EXCEPT ![w] = "resolve"]
    /\ todo' = [todo EXCEPT ![w] = S]
    /\ UNCHANGED <<dom, op, held, owners, failed, stored, stray>>

\* One op is resolved, and addMeta keeps the newest item.
Resolve(w, r) ==
    /\ stage[w] = "resolve"
    /\ r \in todo[w]
    /\ todo' = [todo EXCEPT ![w] = @ \ {r}]
    /\ \E item \in Resolutions(r) :
         /\ held' = [held EXCEPT ![w] = IF Supersedes(item, @) THEN item ELSE @]
         /\ owners' = [owners EXCEPT ![w] = IF item = NoItem THEN @ ELSE @ \cup {r}]
    /\ UNCHANGED <<outboxVars, dom, op, stage, failed, stored, stray>>

\* The read fails: this row alone fails.
ResolveFails(w, r) ==
    /\ stage[w] = "resolve"
    /\ r \in todo[w]
    /\ todo' = [todo EXCEPT ![w] = @ \ {r}]
    /\ failed' = [failed EXCEPT ![w] = @ \cup {r}]
    /\ UNCHANGED <<outboxVars, dom, op, stage, held, owners, stored, stray>>

\* The LINK batches and the edge steps: any of the link rows may fail there.
WriteLinks(w, F) ==
    /\ stage[w] = "resolve"
    /\ todo[w] = {}
    /\ F \subseteq {r \in batch[w] : op[r].kind = "upsert"}
    /\ failed' = [failed EXCEPT ![w] = @ \cup F]
    /\ stage' = [stage EXCEPT ![w] = IF held[w] = NoItem THEN "mark" ELSE "write"]
    /\ UNCHANGED <<outboxVars, dom, op, todo, held, owners, stored, stray>>

\* writeMeta: losing the condition is success.
WriteMeta(w) ==
    /\ stage[w] = "write"
    /\ Put(held[w])
    /\ stage' = [stage EXCEPT ![w] = "mark"]
    /\ UNCHANGED <<outboxVars, dom, op, todo, held, owners, failed, stray>>

\* The put throws: every row that contributed fails.  DynamoDB may have carried
\* it out already, may do so later, or never.
WriteMetaFails(w) ==
    /\ stage[w] = "write"
    /\ failed' = [failed EXCEPT ![w] = @ \cup owners[w]]
    /\ stray' = stray \cup {held[w]}
    /\ stage' = [stage EXCEPT ![w] = "mark"]
    /\ UNCHANGED <<outboxVars, dom, op, todo, held, owners, stored>>

\* A put whose answer was lost is carried out.
StrayLands(item) ==
    /\ item \in stray
    /\ Put(item)
    /\ stray' = stray \ {item}
    /\ UNCHANGED <<outboxVars, dom, op, drainVars>>

\* What the drain remembers goes with it when its last row is marked.
Forget(w) ==
    /\ stage' = [stage EXCEPT ![w] = "idle"]
    /\ todo' = [todo EXCEPT ![w] = {}]
    /\ held' = [held EXCEPT ![w] = NoItem]
    /\ owners' = [owners EXCEPT ![w] = {}]
    /\ failed' = [failed EXCEPT ![w] = {}]

Mark_Blindly(w, r) ==                   \* mutant: the results are not looked at
    /\ stage[w] = "mark"
    /\ MarkProcessed(w, r)
    /\ IF batch[w] = {r} THEN Forget(w) ELSE UNCHANGED drainVars
    /\ UNCHANGED <<dom, op, stored, stray>>

\* drainOutbox marks row r by its result.
Mark(w, r) ==
    /\ stage[w] = "mark"
    /\ IF r \in failed[w] THEN MarkFailed(w, r) ELSE MarkProcessed(w, r)
    /\ IF batch[w] = {r} THEN Forget(w) ELSE UNCHANGED drainVars
    /\ UNCHANGED <<dom, op, stored, stray>>

\* The process dies; a put it had sent may still be carried out.
Die(w) ==
    /\ Crash(w)
    /\ Forget(w)
    /\ stray' \in {stray} \cup
                  IF stage[w] = "write" THEN {stray \cup {held[w]}} ELSE {}
    /\ UNCHANGED <<dom, op, stored>>

\* The outbox's own steps.
Upkeep ==
    /\ \/ \E r \in Rows : Lapse(r)
       \/ \E S \in SUBSET Rows : Prune(S)
       \/ AdminRetry
    /\ UNCHANGED metaVars

DrainStep(w) ==
    \/ \E S \in SUBSET Rows : Drain(w, S)
    \/ \E r \in Rows : Resolve(w, r) \/ ResolveFails(w, r) \/ Mark(w, r)
    \/ \E F \in SUBSET Rows : WriteLinks(w, F)
    \/ WriteMeta(w)
    \/ WriteMetaFails(w)
    \/ Die(w)

Next ==
    \/ Connect
    \/ \E r \in Rows : Api(r)
    \/ \E w \in Workers : DrainStep(w)
    \/ \E item \in stray : StrayLands(item)
    \/ Upkeep

Spec == Init /\ [][Next]_vars

\* As for the outbox: the schedule starts drains and leases lapse; no step of a
\* drain is met by a crash every single time.  Nobody has to change the host.
Fairness ==
    /\ SF_vars(\E w \in Workers, S \in SUBSET Rows : Drain(w, S))
    /\ SF_vars(\E w \in Workers : WriteMeta(w) \/ WriteMetaFails(w))
    /\ SF_vars(\E w \in Workers, F \in SUBSET Rows : WriteLinks(w, F))
    /\ \A r \in Rows :
        /\ WF_vars(Lapse(r) /\ UNCHANGED metaVars)
        /\ SF_vars(\E w \in Workers : Resolve(w, r) \/ ResolveFails(w, r))
        /\ SF_vars(\E w \in Workers : Mark(w, r))

FairSpec == Spec /\ Fairness

-----------------------------------------------------------------------------
\* What the host should serve (the dashboard's value, once it is live), and
\* what the redirect service does serve: a missing item, a tombstone and a null
\* redirect read the same.
Wanted == IF dom.status = "live" THEN dom.redirect ELSE NoRedirect
Served == stored.redirect

\* outbox.ts:10 "the two writes cannot diverge silently": while the edge serves
\* anything but what Postgres says, a domain op for the host is unprocessed,
\* whatever workers, stale reads, lost puts and re-connections are under way.
NoSilentDivergence ==
    Served # Wanted =>
        \E r \in Rows : /\ Pending(r)
                        /\ op[r].kind = "domain"
                        /\ op[r].id \in {dom.id, dom.id - 1}

\* outbox.ts:39 and :46: the host ends up serving what the dashboard says, unless
\* a domain op has given up, which is the alert that counts it.
HostConverges ==
    []<>(\/ Served = Wanted
         \/ \E r \in Rows : DeadLettered(r) /\ op[r].kind = "domain")

\* dynamo-projection.ts:67 "only land if they are not older than what is
\* stored": the stored item never goes back to an earlier state of the host,
\* in particular a disconnected domain's redirects never come back.
StoredNeverOlder == [][stored' # stored => Supersedes(stored', stored)]_vars
=============================================================================
