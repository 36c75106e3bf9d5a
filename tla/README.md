# SnapURL in TLA+

SnapURL is a URL shortener: an API that owns the links, a redirect service that
answers for them, and a worker that carries what the API wrote to the stores
the redirect reads. This directory holds its TLA+ model, the TLC instances that
check it, and proofs of its safety properties for every value of the constants.

The interesting part of the system is what happens between those three
processes: one fact (a link, a domain's redirects) lives in Postgres, in
DynamoDB, in CloudFront's KeyValueStore and in a cache, and no transaction
spans two of them. The model follows that path first. Two more paths cross
process borders the same way: a click, from the redirect's gate through a queue
and a rollup to the numbers of the dashboards, and a payment, from the provider's
webhook to the plan of a workspace.

## 1. Inventory

| Part | State it keeps | Operations | Talks to | What is hard | What makes it correct |
|---|---|---|---|---|---|
| **Projection outbox** `apps/worker/src/jobs/outbox.ts` | `projection_outbox`: processed_at, attempts, claimed_at | enqueue (API transactions), claim, mark processed, mark failed, retry, prune, sweep, backfill | API writes, worker drains | overlapping drains, crashes between claim and mark, a lease that lapses under a live drain, poison rows | one handler a row; bounded attempts; every row settles |
| **Domain redirects** `dynamo-projection.ts`, `domains.service.ts` | `domains` row, DOMAIN-META item | connect, verify, update, disconnect; resolve, merge, conditional put | outbox, DynamoDB | stale reads, lost answers, a host connected again, unordered batches | no silent divergence; the item never goes back; it converges |
| **Links** `links.service.ts`, `dynamo-projection.ts`, `kvs-projection.ts` | `links` row, LINK item, index on linkId, KVS entry | create, update, remove, sweep; batch write, edge write | outbox, DynamoDB, KVS | unconditional writes, partial failure of two stores, a lagging index, changes that write no outbox row | item and entry never stay behind a change that wrote a row |
| **Job leases** `lease.ts` | `job_leases` row | acquire, run, release | worker's passes | overruns, crashes, release after loss | mutual exclusion within the TTL; it never locks up |
| **Redirect cache** `caching-resolver.ts`, `link-cache-bust.service.ts`, `cache-bust-listener.ts` | one entry per (host, slug) | get, fill, expire, evict | resolver, API, worker | fill racing an eviction, lost notifications | bounded age of an answer; no remembered miss |
| **Click recording and limit** `click-sink.ts`, `click-reservation.ts`, `lambda.ts`, `click-events.ts` | `click_events`, `link_counters.reserved` | gate, reserve, send, insert and retry, redrive | SQS, partitions | at-least-once delivery, a burst at the limit, an insert racing an attach | limit never exceeded; a message leaves the queue stored or dead |
| **Rollups, retention** `rollup.ts`, `hll.ts`, migrations 0007, 0014, 0015 | day counts, sketches, counters, partitions | claim, add, merge, sum, mark; provision, backfill, drop, delete | click_events, leases | two rollups on one key, aborts, drops against inserts and rollups, windows that end within a day | each row counted once; a sketch keeps its visitors; nothing goes early, everything goes |
| Visitor salts `salt.ts` | the day's salt | get or create, rotate | cache or Postgres | two creators | one salt a day |
| Rate limits `cache-throttler-storage.ts`, cache stores | fixed-window counters | increment, expire | three stores | expiry that is not deletion | a window closes on time |
| Sessions `token.service.ts`, `auth.service.ts` | refresh and reset tokens | issue, rotate, revoke | requests in parallel | replay, revocation racing rotation | a revoked family stays revoked |
| **Billing** `billing.service.ts`, `plan-management.service.ts`, `plan-changes.ts` | subscriptions, billing events, workspaces.plan, change requests | checkout, change, cancel, webhook, comp, schedule, sweep | payment provider | redelivery, crash after the event is recorded, order of events, a plan that nobody takes back | an event moves the plan once; no plan is granted unpaid |
| Webhook delivery `webhooks.ts` | deliveries, health | pick, send, retry, give up | receivers | two passes on one row, stale attempts | sent at least once or failed; bounded attempts |
| Routing `routing.ts`, `expiry.ts` | none | evaluate | redirect | first match, weights, boundaries of time | equal to the reference implementation |
| Reports, moderation, scans | reports, flags, kill switches | report, review, disable, rescan | links, outbox, cache | thresholds under concurrency | a disabled link stops answering |
| Members, workspaces, admin | memberships, invitations | invite, accept, change role, remove | everything a workspace owns | the last owner | a workspace keeps an owner |
| Analytics, bio pages, forms, conversions, mail, telemetry, web, extension, infra | rows of their own, or none | request-scoped | – | little | queries, user interface, deployment |

How they interact: an API transaction changes a row and inserts an outbox row
with it. A schedule (`everyN`, `apps/worker/src/main.ts:723`; one minute on AWS)
starts a drain, which claims rows and brings DynamoDB and the KeyValueStore up
to date from what Postgres says *then*; the row carries only an id. The redirect
reads the projection (or Postgres) through a short-lived cache. The API evicts
the cache entry of a withdrawn link after its commit, the worker after
projecting a change. The redirect records a click in Postgres, or on AWS in a
queue the worker drains; every minute a rollup adds new clicks to the daily
tables, whose sums are the count a link's limit is compared with where no
reservation is possible; every hour a maintenance pass provisions and drops the
partitions of the raw clicks and applies due plan changes. The provider's
webhooks reach the API and are the only thing that moves a paid plan.

`PROJECT.json` lists each part with its status and, under `hazards`, the places
where this code is hard to test, by line, with the property that covers each.

## 2. Modules

| Module | Models | Proofs | Instances |
|---|---|---|---|
| `Outbox` | the rows and the drain's claim of them; the two modules below extend it | `OutboxProofs` | `MCOutbox` |
| `DomainMeta` (extends `Outbox`) | one host: API, drain, DOMAIN-META item | `DomainMetaProofs` | `MCDomainMeta` |
| `LinkProjection` (extends `Outbox`) | one (host, slug): API, drain, LINK item, index, KVS entry | `LinkProjectionProofs` | `MCLinkProjection` |
| `JobLease` | one named lease | `JobLeaseProofs` | `MCJobLease` |
| `RedirectCache` | one cache entry, requests, evictions | `RedirectCacheProofs` | `MCRedirectCache` |
| `ClickLedger` | abstract specification: a click is recorded, counted once, and only then expires | – | through the next two |
| `ClickRollup` | the gate, both sinks, the queue, and the rollup's transaction; implements `ClickLedger` | `ClickRollupProofs` | `MCClickRollup` |
| `ClickRetention` | inserts, partitions and the maintenance pass; implements `ClickLedger` | `ClickRetentionProofs` | `MCClickRetention` |
| `Billing` | one workspace's subscription, plan and change requests | `BillingProofs` | `MCBilling` |

How state and actions correspond to the code is written beside each definition,
and `PROJECT.json` `map` gives the lines.

**Outbox.** `row`, `attempts` and `claim` are the three columns; `claim` is
`fresh` within CLAIM_LEASE and `stale` past it. `Claim` is the one
`update ... where id in (select ... for update skip locked)` statement:
the oldest claimable rows up to the batch size. `MarkFailed` keeps the code's
peculiarity that the update is on the id alone, so a drain that overran also
counts against a row another drain has taken, or processed. `Overrun` says
whether a live drain can outlast its lease: not on AWS, where the function is
killed at five minutes, which is the lease; possibly in a long-running worker.

**DomainMeta.** `dom` is the `domains` row (its version is the monotone stamp of
`nextVersionSql`), `stored` the item. A drain is `Drain`, one `Resolve` or
`ResolveFails` per row, `WriteLinks`, `WriteMeta` or `WriteMetaFails`, then one
`Mark` per row; `Die` may come anywhere. `stray` holds puts whose answer was
lost and that DynamoDB may still carry out. The merge in a batch is
`supersedes`, the write is `metaCondition`, each translated as written.

**LinkProjection.** The same drain, with the LINK item's unconditional
`BatchWriteItem` and the KVS write after it, per op, in the order of the ops.
`index` is the index on linkId through which a delete finds its key;
`IndexLags` lets it lag. The history variable `missed` records that a delete
looked in vain for an item that was there. Most changes of a link write an outbox
row in their transaction (`Update` and the other actions of `Api`). Some do not
(`ChangeUnannounced`): a rescan that finds the destination clean or cannot tell
(`link-scanning.ts:148`), and what moves the projected `ownerUnverified` without
touching a link, a member's role or removal (`members.service.ts:236`, `:267`) or
the deletion of an account. `Unannounced` says between which contents that may
happen, and the history variable `since` what the link has said since a row was
last written for it. `Contents` leaves out the projected click count, which is a
count of some moment in both stores.

**JobLease.** Time is relative to the clock: `left` is `locked_until - now()`
and `age[p]` the time since pass `p` acquired the lease, so a discrete clock
needs no bound. A pass is killed at `Ceiling`.

**RedirectCache.** Every change of the link makes a version; `past[v]` is the
time since version `v` was replaced. A request is `Hit`, or `Miss` followed by
`ReadLink` and `ReadRules` (two queries in any order), and `Fill`, `NotFound` or
`Abort`. `owed` is a bust on its way, `Bust` and `BustLost` its two ends. The
history variable `floor` is the version the last bust made way for when no
request's read straddled it.

**ClickLedger, ClickRollup, ClickRetention.** The two detailed modules cut one
pipeline at the table `click_events`. `ClickRollup` follows a click to its row and
the row into the totals: `Reserve` is the one upsert whose predicate is evaluated
under the row's lock, `GateByCount` the verdict from a projected count of any age,
`Record`, `Receive`, `Store`, `Acknowledge` and `Redrive` the way over SQS, where
the k-th delivery of a click inserts a row of its own (the id is the server's).
A rollup is one READ COMMITTED transaction in five steps, each reading what is
committed when it runs; its locks are the conditions under which the others wait
(`Holds`, `CounterLocked`), and `Commit` applies all it wrote. `ClickRetention`
keeps the claim and the commit of the rollup and follows the row out again:
`Route` pins an insert to the partition its day has then, `Misrouted` is the
refusal of the DEFAULT partition's constraint after an attach, and a pass is
`EnsureDay`s, the list of spent days, their drops, the drops over the volume cap
and the row-level `DELETE`, each under the lock its SQL function takes. In both,
`Ledger` maps a row to an entry (`INSTANCE ClickLedger WITH`) and `LedgerSpec` is
checked as a property.

**Billing.** `Offers` are the plans a checkout or a change may ask for, `Grants` those an
administrator may give. `sub` is the subscriptions row (one a workspace), `plan` the label
that every entitlement check reads. A webhook is `ReadSub`, `RecordEvent`,
`MovePlan`, `MarkProcessed`, one step for each statement or transaction; what
`MovePlan` writes comes from the row as `ReadSub` found it, as in the code. An
owner's or administrator's call is the provider's part and the row's part in
separate steps. The provider emits events that report its state of that moment;
they are delivered in any order and any number of times. `moves` and `earned` are
history variables.

## 3. What the runs check

| Run | Instance | Shows |
|---|---|---|
| `lease_mutex` | 3 passes, TTL 4, ceiling 7 | `MutualExclusion`: passes within their TTL never run together. `LeaseLostOnlyByLapse`: the guarded release. `JobKeepsRunning`: no crash locks the job out. |
| `outbox` | 2 drains, 3 rows, batches of 2, 2 attempts, one retry by the administrator, no overrun | `OneHandler`, `EveryRowSettles`. |
| `meta_race` | 2 drains that may overrun, 2 rows in batches of up to 2, host connected twice, 3 versions, one stray put at a time | `NoSilentDivergence` (two drains, and the in-process merge in any order), `StoredNeverOlder`, `AttemptsBounded`. |
| `meta_converges` | 1 drain, failures, crashes, dead letters, one retry | `HostConverges`. |
| `link_single` | 1 drain, batches of 3, lagging index, 3 contents of which the edge may answer one; a scan may turn that one into another and back without a row | `LinkSinceLastRow`, `EdgeSinceLastRow`: no store stays behind the last change that wrote a row. |
| `link_edge_orphan` | 1 drain | `RemovedLeavesEdge` is **violated**. |
| `link_two_drains` | 2 drains, neither overrunning | `LinkSinceLastRow` is **violated**. |
| `redirect_cache` | 2 requests, TTL 2, ceiling 2 (ticks of 5 s give the deployed 10 s and 10 s), 3 versions | `BoundedStaleness`, `NewLinkAnswers`, `EvictedStaysGone`. |
| `click_rollup` | 2 clicks of 2 visitors on a link limited to one, either deployment, 2 deliveries, 2 rollups, 2 days | `CountedOnce`, `SketchesKeepVisitors`, `CounterNeverAhead`, `HardCap`, `DeliveredOrDead`; `LedgerSpec`: the rollups implement the ledger. |
| `click_retention` | 2 clicks (one workspace below, one above the install's window of 2 days), 4 days, cap of 2 partitions, 2 drops a pass | `InsertSurvivesAttach`, `KeptForItsWindow`, `CapDropsOnlyExcess`; `LedgerSpec`: nothing expires uncounted; `ExpiredGoes`. |
| `billing` | 1 checkout, 2 events, 2 requests at a time, 1 change request, 2 plans of which one is sold and the other granted; a recorded event is not sent again | `MovedOnce`, `ProcessedMeansMoved`, `PaidPlanIsEarned`. |
| `billing_lapse` | 1 plan, 2 events, no administrator | `LapsesToFree` is **violated**. |

Each run but the three violations also checks the module's type invariant where
the table of `PROJECT.json` says so. Each property is shown to depend on the
code by a mutant: a definition with a plausible bug (a dropped tombstone test,
an inclusive comparison, an unguarded release) under which the run fails.

### The three disagreements

*An entry of a removed link stays at the edge.* A delete op finds its key by
looking the LINK item up. If DynamoDB took the delete and the KeyValueStore did
not (or the worker died in between), the retry finds no item, writes nothing
and is marked processed. `dynamo-projection.ts:461` says that a failure has the outbox
retry "the whole op". The run needs one drain and one failure.

*Two drains put a link's old item back.* Each row has one handler, but a link
has several rows, and a LINK item is written without a condition. A drain that
read the link before a change can write after the drain that read it
afterwards. The worker may run twice at a time
(`infra/lib/snapurl-stack.ts:935`). `outbox.ts:10` says "the two writes cannot
diverge silently"; for DOMAIN-META, whose put is conditional, that is proved.

*A plan does not lapse when its grace window does.* A failed payment opens a
window of seven days. `schema/billing.ts:71` says that the plan stays "until this
moment, then reverts to free", and the contract says the same. Only a webhook's
transaction writes `workspaces.plan` for a subscriber, and no job looks at
`grace_ends_at`; the rule `isEntitled` is evaluated when an event arrives and for
the notice. The run fails one payment and lets time pass, with every webhook and
the sweep fair. The end of a cancelled period is the same case.

### A fourth, by one step

*A change without a row is not projected.* `outbox.ts:10` says "the two writes
cannot diverge silently", and `schema/links.ts:236` to `:241` that the write and its
outbox row commit together. A rescan's clean or pending verdict
(`link-scanning.ts:148`) updates `safe_browsing_status`, which is projected and which
`isEdgeEligible` wants clean, and writes no row; its test says so
(`link-scanning.integration.test.ts:121`: "A clean rescan does not project."). So a
link that turns pending goes on being answered at the edge, and one that turns
clean stays off it, until something else writes a row for the link. Likewise, when
a workspace's unverified owner is removed, its links are no longer held in
Postgres and still are in DynamoDB. In `LinkProjection` this is one step,
`ChangeUnannounced` from a state with no row, so there is no run for it: that the
item *is* what Postgres says, or a row is unprocessed, is false, and nothing here
claims it. What is claimed, and is true with one drain, is that the stores never
stay behind the last change that did write a row: the item is what the link was
at some time *since* (`LinkSinceLastRow`), whatever a drain had read before. The
properties say no more than the code promises with the rows it writes.

Further cases are visible in the models and not listed as runs. With
`MaxId = 2` and a batch of two, the delete of a link and the upsert of the next
link of its slug compete for one key, and the one resolved last wins. And a
delete drained before the index lists the item does nothing: `link_single`
excepts that case by name (`missed`).

In `ClickRollup`, two rollups of one link on different days that overlap leave
`link_counters` below the sum of `click_daily` until the link's next rollup
(`rollup.ts:219` sums before it waits for the row), so only the other direction,
`CounterNeverAhead`, is an invariant; a message that is delivered again after its
insert is counted twice, which the ledger allows since it is a row of its own; and
a reservation is spent by a request whose click is then lost or sent to the
password page, so `HardCap` bounds the count from above only. A reservation waits
for a rollup that holds the row of `link_counters`.

In `Billing`, a request that dies between the record of an event and its
transaction leaves the event unmoved for good, because the redelivery is a
duplicate: `ProcessedMeansMoved` says that `processed_at` tells. A webhook that
comes between the provider's checkout and the row is consumed without effect. If
the write of a pending change is lost after the provider accepted it, the customer
pays for one plan and has the other. The sweep and a comp look for a live
subscription before they write, and can set a customer back who paid in between,
until the next webhook. And a second checkout reuses the row with the period and
grace window of the first one, and with it a plan can be granted that was never
charged: `PaidPlanIsEarned` says "checked out once" for that reason, and fails
without it on two subscriptions.

### Bounds, and why they are enough

- Drains and rows: two drains are what the deployment allows. Two rows of one object
  are what it takes for two drains to disagree, three for a batch to hold every
  pair of orders with one more behind it. Row numbers are never reused, so `Rows`
  bounds the changes of one behaviour.
- `MaxAttempts` is 1 or 2 rather than the code's 8: what matters is the step from
  below to at the ceiling.
- A host connected twice and a row changed to version 3 give every pair of (older,
  newer) in identity and in version. `meta_race` explores at most one stray put
  under way at a time (the constraint `OneStray`); the proof is for any number.
- `link_single` changes the link between two of its contents without a row, one that
  the edge may answer and one that it may not; the third stands for every other
  change.
- Two clicks and two rollups give every pair of concurrent reservations and of
  transactions on one key, two days a pair of keys of one link, and two deliveries
  one more than one.
- Four days are the install's window, a day on either side of it and one for the
  pass. Two drops a pass are one by age and one by the cap after it, of a count that
  has to know of the first; a budget that drops by age alone use up is not reached,
  and the safety theorems are for every budget.
- `billing` sells one plan and grants the other, and with `Replays` off the provider
  does not send an event again that is recorded: the code's answer to one is a
  duplicate insert, after which it stops. So the run covers deliveries of one event
  that overlap, and `MovedOnceAlways` those after a death. With both plans on sale
  and such repetitions the instance outgrows a run. A third event or a second
  change request would exercise the replacement of a pending request, which
  `billing` does not reach.
- The bounds in guards, each named in its module, are `MaxId`, `MaxVersion`,
  `MaxRetries`, `MaxDay`, `MaxReceive`, `MaxEvents`, `MaxRequests` and `MaxTime`. The
  clock's ages are capped at `Horizon` (`RedirectCache`), past which no property
  tells them apart.

The proofs remove all these bounds for everything they cover.

Deadlock is checked for the lease and the cache. The other instances stop when
their rows are used up, so their configurations switch it off.

### Fairness

`OutboxFairness` and `DomainMeta`'s `Fairness` ask three things. A drain that can
start does start again and again: the schedule runs every minute for ever. A
lease lapses: it is the clock. And a drain's own steps are not pre-empted by a
crash every single time (strong fairness on them, since a crash disables them):
the worker fails now and then, not always. Nothing is asked of the API's users,
and whether a step fails is never under fairness, so a row that fails every
time is among the behaviours: it is dead-lettered, which both liveness
properties allow. `JobLease` asks the clock to run, a pass to end or be killed,
and the schedule to keep starting passes. `EveryRowSettles` is checked without
overrun, where each drain ends before its lease does.

`ClickRetention` asks that inserts and rollups end, that the schedule starts
passes, that a drop is not contended every time it is tried, and that at some
point no pass dies any more; `ExpiredGoes` needs the last one because a pass that
always dies before its `DELETE` expires nothing. An insert that failed once is
taken to end before the next hourly pass or midnight (`InsertsSettled`): that is
why one retry is enough. `BillingFairSpec` asks that time passes, that the
provider repeats an event until it is recorded, that requests run on and that the
sweep runs; the counterexample of `billing_lapse` keeps all of it.

## 4. What is proved

Every safety property that a passing run checks is a theorem, for arbitrary
constants under the named assumption of the module, which says no more than what
kind of value each constant is. Where a theorem has a hypothesis beyond that, it
is named below.

### The lease, the outbox, domains and the cache

| Theorem | Property | Argument |
|---|---|---|
| `LeaseExcludes`, `SizedLeaseExcludes`, `LeaseTypes`, `LiveLeaseKept` | `MutualExclusion`, `TypeOK`, `LeaseLostOnlyByLapse` | `LiveInv`: a pass within its TTL owns the row, and what is left of the lock is the TTL less the pass's age. Two such passes would both be the holder. A TTL no shorter than the ceiling puts every pass within its TTL. |
| `OutboxTypes`, `OneHandlerAlways`, `AttemptsAlwaysBounded` | `OutboxTypeOK`, `OneHandler`, `AttemptsBounded` | A row in a live drain's hands is queued and freshly claimed when drains do not overrun (`HandInv`). For the bound, failures plus attempts in flight are counted over a finite set of drains; each claim needs a count below the ceiling. |
| `DomainMetaTypes`, `StoredNeverOlderAlways`, `NoSilentDivergenceAlways` | `TypeOK`, `StoredNeverOlder`, `NoSilentDivergence` | Below. |
| `MetaAttemptsBounded` | `AttemptsBounded` | The count of `OutboxProofs` above holds of drains that stall, put and lose answers: what they do besides claiming and marking leaves it alone (`DrainsTheOutbox`). |
| `CacheTypes`, `AnswersAreRecent`, `NewLinksAnswer`, `CleanBustIsFinal` | `TypeOK`, `BoundedStaleness`, `NewLinkAnswers`, `EvictedStaysGone` | What a request has read was replaced no longer ago than the request is old; what is cached, no longer ago than the ceiling and what is gone of the TTL. Both grow with the clock in step. |

`NoSilentDivergence` is not inductive: that the item is wrong while a row is
unprocessed says nothing about why that row's drain will put it right. The
inductive invariant `IInv` of `DomainMetaProofs` has seven parts:

- `TypeOK`;
- `DomInv`: a connected host has an id and a version, a live one was changed at
  least once since;
- `OpInv`: no domain op names a domain later than the last *announced* one.
  `Announced` is the state of the host that Postgres last wrote an op for (a
  domain connected without redirects writes none, and changes nothing served);
- `ItemInv`: every item anywhere (stored, held by a drain, stray) is the
  announced one or older;
- `FormInv`: tombstones of one id are equal;
- `DrainInv`: a drain's rows exist, and it writes only when all are resolved;
- `CoverInv`: the stored item is the announced one, or some row is a *witness*:
  an unprocessed domain op of the announced domain that every drain holding it
  still carries, because it has not resolved it yet, has failed it, or holds
  the announced item and has not put it yet.

The steps that carry the weight: an API call announces a new state and its row
is the witness, since no drain holds it; a drain that resolves the witness now
reads the announced state; and its conditional put lands, because everything
stored is older (`ItemInv`), after which no witness is needed. A stale put by
any other drain, or a stray one, cannot undo it.

### Links

| Theorem of `LinkProjectionProofs` | Property | Hypotheses beyond the assumptions |
|---|---|---|
| `LinkTypes` | `TypeOK` | – |
| `OneHandlerOfLinks` | `OneHandler` | `~Overrun` |
| `LinkSinceLastRowAlways` | `LinkSinceLastRow` | `[]DrainsApart`, `FirstLink` |
| `EdgeSinceLastRowAlways` | `EdgeSinceLastRow` | `[]DrainsApart`, `FirstLink` |

`DrainsApart` says that one drain at a time holds rows of the link; drains of other
links, and drains of this one after each other, are not restricted. The two safety
theorems need it: without it the property is false, which is the run
`link_two_drains`, and the deployment allows two drains, so what they say is what
is left of the promise. `FirstLink` holds until the slug is taken a second time;
the two links of one slug compete for a key (section 3), and with `MaxId = 2` the
property is false then. Within these limits the theorems are for any number of
drains, rows, attempts and retries, any batch size and contents, for leases that
are overrun or not, and for an index that lags or not.

Neither is inductive, for the reason given above for domains, and the witness is
a different one, because the LINK item is written without a condition. All the
link has said since a row was last written for it (`Recent`) is as good as the
present: whoever reads the link from that write on reads one of them, whichever
changes without a row come before or after. `LinkCover` says: the item is in
`Recent` and so is whatever a drain is about to write, or a delete was `missed`, or
some queued row of the link asks for the right thing and whoever holds it has not
resolved it, has failed it, or will write something in `Recent`. Writing a row
shrinks `Recent` to the present and makes that row the witness; a change without
one enlarges it, and no witness is lost. It needs `ItemInv` (the present is recent;
what is stored or under way is of this link; no row asks for a delete while the
link exists) so that every request that is resolved is in `Recent`, `PutInv` (a put
is never resolved in a batch with a delete still to come) and `DrainInv` (what a
drain remembers at each stage of `apply()`, so that nothing is left to write when
the marks begin). `EdgeCover` is the same for the KeyValueStore, whose writes are
done one by one: a witness's own write is still to come, and all writes from it on
bring what the link has said since (`Brings`).

### Clicks

| Theorem | Property | Argument |
|---|---|---|
| `TypesAlways`, `DeliveredOrDeadAlways` | `ClickTypeOK`, `DeliveredOrDead` | `PathInv`: what each stage of a click implies for its deliveries and its rows. |
| `CountedOnceAlways`, `SketchesKeepVisitorsAlways`, `CounterNeverAheadAlways` | the same names | `RollInv`, below. |
| `HardCapAlways` | `HardCap` | `ReservedInv`: the clicks let through are no more than what is reserved, which the upsert's predicate keeps within the limit. Each click of the total has been let through and, without a queue, has one row. |
| `ClickRollupProofs!ImplementsLedger` | `LedgerSpec` | Every step inserts a row, counts a batch with its marks, or leaves the ledger alone. |
| `ClickRetentionProofs!TypesAlways`, `InsertSurvivesAttachAlways` | `TypeOK`, `InsertSurvivesAttach` | `RowInv`: an insert that was refused once is retried against the partition that refused it, and no day arrives a second time. |
| `KeptForItsWindowAlways`, `CapDropsOnlyExcessAlways` | `KeptForItsWindow`, `CapDropsOnlyExcess` | `PassInv`: what a pass has listed is still past its cutoff when it comes to drop it; what is over the cap still is, since nothing else detaches a day. Both are action properties. |
| `ClickRetentionProofs!ImplementsLedger` | `LedgerSpec` | `BatchInv`: a rollup holds rows that are still to be counted; a drop or `DELETE` reaches counted rows only. |

The counts are sums over sets of days and of rows, folds in the model, and
induction over a set is not available to the provers. `SumFacts` and the lemmas
after it (a sum of naturals is one; sums of sums and of more; counting the parts
of a set is counting the set) are proved by a minimal counterexample instead: the
recursion the fold stands for is shown to have a solution on every finite
set because otherwise there would be a least cardinality without one.

None of the three properties of the rollup is inductive alone. `RollInv` adds what
a transaction in the middle of its five statements has in hand: rows that are still
pending and nobody else's (`PairInv`), sketches that it has merged into what is
*still* stored, because its lock on `click_daily` keeps other writers of the key
away, and sums no larger than the total as it will be when it commits, because
totals only grow. `CounterNeverAhead` depends on the last; that a counter may be
*behind* is why it says no more.

### Billing

| Theorem | Property | Argument |
|---|---|---|
| `TypesAlways` | `BillingTypeOK` | – |
| `MovedOnceAlways`, `MovesFollowTheRecord` | `MovedOnce`; no step moves the plan for an event that has moved it or is not recorded | `HandlerOK`: a request about to move the plan holds a recorded event that has not moved it, and no other request holds the same. |
| `ProcessedMeansMovedAlways` | `ProcessedMeansMoved` | The request that marks an event is the one that has moved it. |
| `PaidPlanIsEarnedAlways` | `PaidPlanIsEarned` | Below. |

For `PaidPlanIsEarned` the invariant follows a plan key from wherever it is held to
where it was earned: `ProviderOK` (a subscription that was charged has earned its
plan), `EventsBacked` and `RowBacked` (what an event or the row names is earned or
will be by the first charge of its subscription), the copies that requests hold
between two statements (`HandlerOK`, `CallerOK`), and `PaidFor`: a period on the row
is one that was charged, and every label that an administrator's comp or a change
request may bring back is earned. The last two hold for one checkout, as the
property says, because a second one reuses the row with its period.

### What is only model-checked

- Every liveness property (`JobKeepsRunning`, `EveryRowSettles`, `HostConverges`,
  `ExpiredGoes`): the prover does not handle fairness. The violated `LapsesToFree` is one
  of them.
- The two violated properties of links, as counterexamples; of a slug that is taken
  twice, and of two drains with different rows of one link, nothing is claimed.
- That the sets and folds of TLC's library compute what their definitions say is
  TLC's; the proofs are about the definitions.

## 5. What the model leaves out

- One host, one (host, slug), one lease per instance: objects share nothing but
  the order in which rows are claimed, which `Rows` of other objects would not
  change, and the batch size, which `Outbox` covers.
- Ids are drawn in increasing order. They are uuidv7 from an API instance's
  clock; the code logs, and does not prevent, the case where a clock is set
  back (`dynamo-projection.ts:69`, `:670`).
- A LINK batch write whose answer is lost takes effect at once or never; one
  that lands later is left out (it would add to the disagreement of
  `link_two_drains`).
- DynamoDB reads by the redirect are eventually consistent; `RedirectCache`'s
  `source` is what such a read returns, taken to move forward only. Ages there
  are counted from that.
- The cache of `RedirectCache` is the in-process one or Redis, where a `get` after
  a `del` misses. With `CACHE_DRIVER=dynamodb` the `get` is an eventually consistent
  read (`dynamodb-cache-store.ts:81`) and may return an entry for a moment after its
  `del`; `EvictedStaysGone` is not claimed for that driver.
- A link's click limit is constant in `ClickRollup`: `HardCap` says nothing of a limit
  that is added or lowered once clicks were let through.
- The KVS ETag loop is one step that may fail; the three attempts inside it
  change nothing outside.
- A sketch is the set of its visitors: the estimate of `hll.ts` and its error are
  arithmetic on data. `breakdown_daily` and the scans are added to as
  `click_daily` is, and left out.
- A rollup that waits for several rows gets them together; two that wait for each
  other are a deadlock Postgres resolves by an `Abort`.
- Two maintenance passes at once are left out: the lease keeps them apart while it
  holds (`lease_mutex`). A pass that outlives it and finds a day "missing" does not
  count it towards the cap (`rollup.ts:841`) and may drop a day too many.
- Of billing: payments, refunds, coupons, invoices, trial lengths, the catalogue,
  and the reconciliation job, which flags and never moves a plan.
- Webhook delivery, sessions, salts, rate limits and routing are read, not modelled.
  They share no state with the modules above; what a model of each has to settle,
  from a reading of the code and not from any check:
  - `webhooks.ts`: an overlapping pass records its outcome from the attempts it read
    at its start (`:103`), and an error of the second statement after a delivery
    (`:82`) is caught and recorded as a failure of it (`:94`), so a delivered row may
    be sent again. The first wait is `BACKOFF_MINUTES[1]` (`:105`): of the documented
    1, 5, 25, 120, 600 minutes the first is never used.
  - `dynamodb-cache-store.ts:102`: `incr` adds to an item whose `expiresAt` has passed
    and that DynamoDB has not deleted yet, and keeps its expiry, so a rate-limit
    window closes at the deletion; `memory-cache-store.ts` and the Redis script
    close it at the expiry.
  - `salt.ts:137`: the re-read after a last-write-wins `set` agrees with the other
    instance only if both sets come before both re-reads; the Postgres source,
    which inserts once, always agrees.
  - `token.service.ts:110`: the read, the insert and the update of a rotation are
    three statements.
  - `routing.ts`: `evaluateRouting` against `routing.reference.ts`, and whether every
    rule of a chain `validateRoutingChain` accepts can be reached.
- Everything with status `not_modelled` in `PROJECT.json`, with the reason.

## 6. Plan

Done: the outbox, the two projections, the lease, the redirect cache, the click
pipeline against its ledger and billing, each with its safety properties proved.
Next, in this order:

1. Proofs: `LinkSinceLastRow` for a slug that is taken again once the rows
   of the link before it are processed (`FirstLink` weakened to that).
2. Proofs: that a row is handed to at most `MaxAttempts` drains between two retries
   of the administrator when none of them dies.
3. `WebhookDelivery`, `Throttle`, `Salt` and `Session`, on the questions of section 5.
4. `Routing` as operators, against the reference implementation, over all
   inputs of a small instance.
