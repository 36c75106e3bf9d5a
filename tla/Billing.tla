------------------------------ MODULE Billing ------------------------------
(***************************************************************************)
(* One workspace's plan: the subscriptions row, the label workspaces.plan   *)
(* that every entitlement check reads, the provider's webhooks, the owner's *)
(* checkout, change and cancel, an administrator's comp or scheduled        *)
(* change, and the worker's sweep of due changes.                           *)
(*                                                                          *)
(* Statuses are the classes the code tells apart: "healthy" is active or    *)
(* trialing, "failed" is past_due or halted, "idle" is created,             *)
(* authenticated, completed or expired.  A plan is its rank, 0 is Free; a   *)
(* plan change keeps its interval in the plan.  What no entitlement rule    *)
(* reads (payments, coupons, history and audit rows, the cancellation       *)
(* notice) is left out, and a kill switch that is off is an action not      *)
(* taken.                                                                   *)
(***************************************************************************)
EXTENDS Integers, Sequences

CONSTANTS Plans,        \* the paid plans, by rank
          Offers,       \* bound: the plans a checkout starts on
          Grants,       \* bound: the plans an administrator moves to
          Subs,         \* ids of subscriptions at the provider
          NoSub,        \* no such id
          Handlers,     \* webhook requests in progress at once
          Replays,      \* bound: is a recorded event delivered again?
          MaxEvents,    \* bound: events the provider emits
          MaxRequests,  \* bound: plan_change_requests rows
          MaxTime,      \* bound: the clock
          Grace,        \* GRACE_PERIOD_DAYS
          Period        \* a billing period

ASSUME BillingAssumption ==
    /\ Plans \subseteq Nat \ {0}
    /\ Offers \subseteq Plans
    /\ Grants \subseteq Plans \cup {0}
    /\ NoSub \notin Subs
    /\ Replays \in BOOLEAN
    /\ {MaxEvents, MaxRequests, MaxTime, Grace, Period} \subseteq Nat

VARIABLES clock,
          sub,          \* the subscriptions row
          plan,         \* workspaces.plan
          requests,     \* plan_change_requests
          recorded,     \* billing_events, by event
          processed,    \* those with processed_at
          handler,      \* what each webhook request holds
          caller,       \* the owner's or administrator's request
          sweep,        \* applyDuePlanChanges, what it holds
          provider,     \* the provider's side of each subscription
          events,       \* the events it has emitted
          moves,        \* history: how often each event moved the plan
          earned        \* history: plans charged, trialled or granted

rowVars == <<sub, plan, requests>>
eventVars == <<recorded, processed>>
providerVars == <<provider, events>>
vars == <<clock, sub, plan, requests, recorded, processed, handler, caller,
          sweep, provider, events, moves, earned>>

Free == 0
NoTime == -1            \* a null timestamp, in the past of every instant
Times == NoTime .. MaxTime + Grace + Period
Keys == Plans \cup {Free}
Statuses == {"idle", "healthy", "failed", "cancelled"}
Requests == 1 .. MaxRequests

SubRows == [ps : Subs \cup {NoSub}, planKey : Keys, pending : Keys,
            status : Statuses, periodEnd : Times, graceEnd : Times]
NoRow == [ps |-> NoSub, planKey |-> Free, pending |-> Free, status |-> "idle",
          periodEnd |-> NoTime, graceEnd |-> NoTime]

EventRows == [ps : Subs, plan : Keys, status : Statuses \cup {"none"}, end : Times]
IdleHandler == [at |-> "idle", event |-> 0, sub |-> NoRow, now |-> NoTime]
Marking(e) == [IdleHandler EXCEPT !.at = "mark", !.event = e]
IdleCaller == [at |-> "idle", ps |-> NoSub, plan |-> Free, when |-> "now",
               from |-> Free]
IdleSweep == [at |-> "idle", batch |-> {}, live |-> FALSE]
NoRequest == [state |-> "none", kind |-> "comp_revert", to |-> Free, due |-> NoTime]
Spent == [NoRequest EXCEPT !.state = "spent"]      \* applied_at set, or deleted
UnusedSub == [status |-> "unused", plan |-> Free, next |-> Free, end |-> NoTime]

BillingInit ==
    /\ clock = 0
    /\ sub = NoRow
    /\ plan = Free
    /\ requests = [r \in Requests |-> NoRequest]
    /\ recorded = {} /\ processed = {}
    /\ handler = [h \in Handlers |-> IdleHandler]
    /\ caller = IdleCaller
    /\ sweep = IdleSweep
    /\ provider = [s \in Subs |-> UnusedSub]
    /\ events = <<>>
    /\ moves = [e \in 1 .. MaxEvents |-> 0]
    /\ earned = {}

-----------------------------------------------------------------------------
(* The entitlement rule, billing-lifecycle.ts.                              *)

isEntitled(status, periodEnd, graceEnd, now) ==
    \/ status = "healthy"
    \/ status = "failed" /\ graceEnd > now
    \/ status = "cancelled" /\ periodEnd > now

Entitled == isEntitled(sub.status, sub.periodEnd, sub.graceEnd, clock)

\* hasLiveProviderSubscription: the statuses whose next webhook sets the label.
Live == sub.status = "healthy"

-----------------------------------------------------------------------------
(* handleWebhook, one step for each statement.                              *)

\* A delivery of any event emitted so far, in any order and any number of
\* times: the row is looked up by the provider's subscription id.  Nothing
\* below uses the status it had.
ReadSub(h, e) ==
    /\ handler[h].at = "idle"
    /\ e \in DOMAIN events
    /\ handler' = [handler EXCEPT ![h] =
            [at |-> "record", event |-> e, now |-> NoTime,
             sub |-> IF events[e].ps = sub.ps THEN [sub EXCEPT !.status = "idle"]
                                              ELSE NoRow]]
    /\ UNCHANGED <<clock, rowVars, eventVars, caller, sweep, providerVars, moves, earned>>

RecordEvent_UnknownSub(h) ==        \* mutant: an event about no row goes on
    /\ handler[h].at = "record"
    /\ LET e == handler[h].event IN
        /\ recorded' = recorded \cup {e}
        /\ handler' = [handler EXCEPT ![h] =
              IF e \in recorded THEN IdleHandler
              ELSE IF events[e].status = "none" THEN Marking(e)
              ELSE [@ EXCEPT !.at = "move", !.now = clock]]
    /\ UNCHANGED <<clock, rowVars, processed, caller, sweep, providerVars, moves, earned>>

RecordEvent_AsProcessed(h) ==       \* mutant: stored with processed_at set
    /\ handler[h].at = "record"
    /\ LET e == handler[h].event IN
        /\ recorded' = recorded \cup {e}
        /\ processed' = processed \cup {e}
        /\ handler' = [handler EXCEPT ![h] =
              IF e \in recorded \/ @.sub = NoRow THEN IdleHandler
              ELSE IF events[e].status = "none" THEN Marking(e)
              ELSE [@ EXCEPT !.at = "move", !.now = clock]]
    /\ UNCHANGED <<clock, rowVars, caller, sweep, providerVars, moves, earned>>

RecordEvent_NoConflict(h) ==        \* mutant: no unique index on the event id
    /\ handler[h].at = "record"
    /\ LET e == handler[h].event IN
        /\ recorded' = recorded \cup {e}
        /\ handler' = [handler EXCEPT ![h] =
              IF @.sub = NoRow THEN IdleHandler
              ELSE IF events[e].status = "none" THEN Marking(e)
              ELSE [@ EXCEPT !.at = "move", !.now = clock]]
    /\ UNCHANGED <<clock, rowVars, processed, caller, sweep, providerVars, moves, earned>>

\* The insert that a replay conflicts with ("duplicate"); an event about no row
\* ends here ("ignored"), one without a lifecycle meaning moves nothing.
RecordEvent(h) ==
    /\ handler[h].at = "record"
    /\ LET e == handler[h].event IN
        /\ recorded' = recorded \cup {e}
        /\ handler' = [handler EXCEPT ![h] =
              IF e \in recorded \/ @.sub = NoRow THEN IdleHandler
              ELSE IF events[e].status = "none" THEN Marking(e)
              ELSE [@ EXCEPT !.at = "move", !.now = clock]]
    /\ UNCHANGED <<clock, rowVars, processed, caller, sweep, providerVars, moves, earned>>

\* Everything the transaction writes comes from the row read at the start; it
\* lands on that row whatever it has become.
MovePlan(h) ==
    /\ handler[h].at = "move"
    /\ LET e == events[handler[h].event]
           s == handler[h].sub
           now == handler[h].now
           graceEnd == IF e.status # "failed" THEN NoTime
                       ELSE IF s.graceEnd # NoTime THEN s.graceEnd ELSE now + Grace
           periodEnd == IF e.end # NoTime THEN e.end ELSE s.periodEnd
           entitled == isEntitled(e.status, periodEnd, graceEnd, now)
           applyPending == entitled /\ s.pending # Free /\ e.plan = s.pending
           key == IF applyPending THEN s.pending ELSE s.planKey
       IN /\ sub' = [sub EXCEPT !.status = e.status, !.periodEnd = periodEnd,
                                !.graceEnd = graceEnd,
                                !.planKey = IF applyPending THEN key ELSE @,
                                !.pending = IF applyPending THEN Free ELSE @]
          /\ plan' = IF entitled THEN key ELSE Free
    /\ moves' = [moves EXCEPT ![handler[h].event] = @ + 1]
    /\ handler' = [handler EXCEPT ![h] = Marking(@.event)]
    /\ UNCHANGED <<clock, requests, eventVars, caller, sweep, providerVars, earned>>

\* markEventProcessed.
MarkProcessed(h) ==
    /\ handler[h].at = "mark"
    /\ processed' = processed \cup {handler[h].event}
    /\ handler' = [handler EXCEPT ![h] = IdleHandler]
    /\ UNCHANGED <<clock, rowVars, recorded, caller, sweep, providerVars, moves, earned>>

\* The process dies or a statement fails.
HandlerDies(h) ==
    /\ handler[h].at # "idle"
    /\ handler' = [handler EXCEPT ![h] = IdleHandler]
    /\ UNCHANGED <<clock, rowVars, eventVars, caller, sweep, providerVars, moves, earned>>

-----------------------------------------------------------------------------
(* The owner and the administrator.  The provider is asked first, outside   *)
(* the database, and the row is written afterwards.                         *)

Answer == /\ caller' = IdleCaller
          /\ UNCHANGED <<clock, eventVars, handler, sweep, moves>>

\* startCheckout up to provider.createCheckout.
CreateCheckout(s, p) ==
    /\ caller.at = "idle"
    /\ provider[s].status = "unused"
    /\ provider' = [provider EXCEPT ![s] = [@ EXCEPT !.status = "idle", !.plan = p]]
    /\ caller' = [IdleCaller EXCEPT !.at = "checkout", !.ps = s, !.plan = p]
    /\ UNCHANGED <<clock, rowVars, eventVars, handler, sweep, events, moves, earned>>

\* ... and its upsert: a row that is there keeps its id, its pending change,
\* its period and its grace window.
WriteCheckout ==
    /\ caller.at = "checkout"
    /\ sub' = [sub EXCEPT !.ps = caller.ps, !.planKey = caller.plan, !.status = "idle"]
    /\ Answer
    /\ UNCHANGED <<plan, requests, providerVars, earned>>

\* changePlan up to the provider call: an upgrade is asked for now, anything
\* else at the end of the cycle.  An administrator's charge picks the moment
\* and wants a healthy subscription.
AskChange(p, when) ==
    /\ caller.at = "idle"
    /\ sub.ps # NoSub
    /\ p # sub.planKey
    /\ \/ Entitled /\ when = IF p > sub.planKey THEN "now" ELSE "at_cycle_end"
       \/ Live
    /\ caller' = [IdleCaller EXCEPT !.at = "change", !.ps = sub.ps, !.plan = p, !.when = when]
    /\ UNCHANGED <<clock, rowVars, eventVars, handler, sweep, providerVars, moves, earned>>

\* provider.updateSubscription, accepted.
ProviderChanges ==
    /\ caller.at = "change"
    /\ provider[caller.ps].status = "healthy"
    /\ LET now == caller.when = "now" IN
        /\ provider' = [provider EXCEPT ![caller.ps] =
                           IF now THEN [@ EXCEPT !.plan = caller.plan, !.next = Free]
                                  ELSE [@ EXCEPT !.next = caller.plan]]
        /\ earned' = earned \cup (IF now THEN {caller.plan} ELSE {})
    /\ caller' = [IdleCaller EXCEPT !.at = "changed", !.plan = caller.plan]
    /\ UNCHANGED <<clock, rowVars, eventVars, handler, sweep, events, moves>>

WriteChange_AsPlan ==               \* mutant: the target is written as the plan
    /\ caller.at = "changed"
    /\ sub' = [sub EXCEPT !.planKey = caller.plan]
    /\ Answer
    /\ UNCHANGED <<plan, requests, providerVars, earned>>

\* The request is recorded, the plan of record stays.
WriteChange ==
    /\ caller.at = "changed"
    /\ sub' = [sub EXCEPT !.pending = caller.plan]
    /\ Answer
    /\ UNCHANGED <<plan, requests, providerVars, earned>>

Unused == {r \in Requests : requests[r].state = "none"}

\* adminChangePlan without a charge: refused on a healthy subscription.  The
\* plan a comp goes back to is the label of that moment (its reads are one step).
AskAdmin(p) ==
    /\ caller.at = "idle"
    /\ Unused # {}
    /\ ~Live
    /\ caller' = [IdleCaller EXCEPT !.at = "admin", !.plan = p, !.from = plan]
    /\ UNCHANGED <<clock, rowVars, eventVars, handler, sweep, providerVars, moves, earned>>

\* upsertPendingRequest: the pending request of this kind is deleted.
Schedule(kind, to, due) ==
    requests' = [r \in Requests |->
          IF r = (CHOOSE u \in Unused : \A v \in Unused : u <= v)
          THEN [state |-> "pending", kind |-> kind, to |-> to, due |-> due]
          ELSE IF requests[r].state = "pending" /\ requests[r].kind = kind
               THEN Spent
               ELSE requests[r]]

Grant == earned' = earned \cup {caller.plan}

\* applyComp: the label moves at once, and back at the end date if there is one.
ApplyComp(dated) ==
    /\ caller.at = "admin"
    /\ plan' = caller.plan
    /\ IF dated THEN Schedule("comp_revert", caller.from, clock + Period)
                ELSE UNCHANGED requests
    /\ Grant
    /\ Answer
    /\ UNCHANGED <<sub, providerVars>>

\* schedulePeriodEnd.
SchedulePeriodEnd ==
    /\ caller.at = "admin"
    /\ Schedule("period_end", caller.plan,
                IF sub.periodEnd > clock THEN sub.periodEnd ELSE clock + Period)
    /\ Grant
    /\ Answer
    /\ UNCHANGED <<sub, plan, providerVars>>

\* The provider or a check refuses, or the process dies.
CallerStops ==
    /\ caller.at # "idle"
    /\ Answer
    /\ UNCHANGED <<rowVars, providerVars, earned>>

-----------------------------------------------------------------------------
(* applyDuePlanChanges.                                                     *)

Due(r, now) == requests[r].state = "pending" /\ requests[r].due <= now

SelectDue ==
    /\ sweep.at = "idle"
    /\ \E r \in Requests : Due(r, clock)
    /\ sweep' = [at |-> "check", batch |-> {r \in Requests : Due(r, clock)},
                 live |-> FALSE]
    /\ UNCHANGED <<clock, rowVars, eventVars, handler, caller, providerVars, moves, earned>>

\* Before the transaction: does a subscription own the plan?
CheckLive ==
    /\ sweep.at = "check"
    /\ sweep' = [sweep EXCEPT !.at = "claim", !.live = Live]
    /\ UNCHANGED <<clock, rowVars, eventVars, handler, caller, providerVars, moves, earned>>

\* The oldest of the batch: claimed if it is still there and unapplied, then
\* skipped or applied, in one transaction.
ClaimDue(r) ==
    /\ sweep.at = "claim"
    /\ r \in sweep.batch
    /\ \A q \in sweep.batch : requests[r].due <= requests[q].due
    /\ sweep' = IF sweep.batch = {r} THEN IdleSweep
                ELSE [sweep EXCEPT !.at = "check", !.batch = @ \ {r}, !.live = FALSE]
    /\ IF requests[r].state = "pending"
       THEN /\ requests' = [requests EXCEPT ![r] = Spent]
            /\ plan' = IF sweep.live THEN plan ELSE requests[r].to
       ELSE UNCHANGED <<plan, requests>>
    /\ UNCHANGED <<clock, sub, eventVars, handler, caller, providerVars, moves, earned>>

SweepDies ==
    /\ sweep.at # "idle"
    /\ sweep' = IdleSweep
    /\ UNCHANGED <<clock, rowVars, eventVars, handler, caller, providerVars, moves, earned>>

-----------------------------------------------------------------------------
(* The provider: what its subscriptions go through, and the event that      *)
(* reports each change with the plan and the period of that moment.         *)

Emit(s, to, status) ==
    /\ Len(events) < MaxEvents
    /\ provider' = [provider EXCEPT ![s] = to]
    /\ events' = Append(events, [ps |-> s, plan |-> to.plan, status |-> status,
                                 end |-> to.end])
    /\ UNCHANGED <<clock, rowVars, eventVars, handler, caller, sweep, moves>>

\* The first charge or the trial, and every renewal; a change left for the
\* end of the cycle happens here.
Charged(s) ==
    /\ provider[s].status \in {"idle", "healthy", "failed"}
    /\ LET p == IF provider[s].next = Free THEN provider[s].plan ELSE provider[s].next
       IN /\ Emit(s, [status |-> "healthy", plan |-> p, next |-> Free,
                      end |-> clock + Period], "healthy")
          /\ earned' = earned \cup {p}

Failed(s) ==
    /\ provider[s].status \in {"healthy", "failed"}
    /\ Emit(s, [provider[s] EXCEPT !.status = "failed"], "failed")
    /\ UNCHANGED earned

\* Asked for by the owner (cancelSubscription, which writes nothing but the
\* notice shown meanwhile), or at the provider, also before the first charge.
Cancelled(s) ==
    /\ provider[s].status \in {"idle", "healthy", "failed"}
    /\ Emit(s, [provider[s] EXCEPT !.status = "cancelled"], "cancelled")
    /\ UNCHANGED earned

Ended(s) ==
    /\ provider[s].status \in {"idle", "healthy", "failed", "cancelled"}
    /\ Emit(s, [provider[s] EXCEPT !.status = "ended"], "idle")
    /\ UNCHANGED earned

\* An event without a lifecycle meaning: a captured payment, an update.
PaymentOnly(s) ==
    /\ provider[s].status # "unused"
    /\ Emit(s, provider[s], "none")
    /\ UNCHANGED earned

Tick ==
    /\ clock < MaxTime
    /\ clock' = clock + 1
    /\ UNCHANGED <<rowVars, eventVars, handler, caller, sweep, providerVars, moves, earned>>

Webhook(h) == RecordEvent(h) \/ MovePlan(h) \/ MarkProcessed(h)

BillingNext ==
    \/ \E h \in Handlers, e \in 1 .. MaxEvents : (Replays \/ e \notin recorded) /\ ReadSub(h, e)
    \/ \E h \in Handlers : Webhook(h) \/ HandlerDies(h)
    \/ \E s \in Subs, p \in Offers : CreateCheckout(s, p)
    \/ WriteCheckout
    \/ \E p \in Plans, when \in {"now", "at_cycle_end"} : AskChange(p, when)
    \/ ProviderChanges \/ WriteChange
    \/ \E p \in Grants : AskAdmin(p)
    \/ \E dated \in BOOLEAN : ApplyComp(dated)
    \/ SchedulePeriodEnd \/ CallerStops
    \/ SelectDue \/ CheckLive \/ SweepDies
    \/ \E r \in Requests : ClaimDue(r)
    \/ \E s \in Subs : Charged(s) \/ Failed(s) \/ Cancelled(s) \/ Ended(s) \/ PaymentOnly(s)
    \/ Tick

BillingSpec == BillingInit /\ [][BillingNext]_vars

\* Time passes, the provider delivers an event until it is answered, a request
\* runs on unless it dies, and the hourly maintenance sweeps what is due.
BillingFairSpec ==
    /\ BillingSpec
    /\ WF_vars(Tick)
    /\ \A e \in 1 .. MaxEvents : SF_vars(e \notin recorded /\ \E h \in Handlers : ReadSub(h, e))
    /\ \A h \in Handlers : WF_vars(Webhook(h))
    /\ WF_vars(SelectDue \/ CheckLive \/ \E r \in Requests : ClaimDue(r))

-----------------------------------------------------------------------------
Emitted == DOMAIN events

\* One type invariant; a workspace without a subscriptions row has nothing in
\* it, whatever the webhooks say.
BillingTypeOK ==
    /\ clock \in 0 .. MaxTime
    /\ sub \in SubRows /\ (sub.ps = NoSub => sub = NoRow)
    /\ plan \in Keys
    /\ requests \in [Requests -> [state : {"none", "pending", "spent"},
                        kind : {"comp_revert", "period_end"}, to : Keys, due : Times]]
    /\ processed \subseteq recorded /\ recorded \subseteq Emitted
    /\ handler \in [Handlers -> [at : {"idle", "record", "move", "mark"},
                        event : Emitted \cup {0}, sub : SubRows, now : Times]]
    /\ caller \in [at : {"idle", "checkout", "change", "changed", "admin"},
                   ps : Subs \cup {NoSub}, plan : Keys, when : {"now", "at_cycle_end"},
                   from : Keys]
    /\ sweep \in [at : {"idle", "check", "claim"}, batch : SUBSET Requests,
                  live : BOOLEAN]
    /\ provider \in [Subs -> [status : Statuses \cup {"unused", "ended"}, plan : Keys,
                              next : Keys, end : Times]]
    /\ Len(events) <= MaxEvents /\ \A e \in Emitted : events[e] \in EventRows
    /\ moves \in [1 .. MaxEvents -> Nat]
    /\ earned \subseteq Keys

\* billing.service.ts:548 "Idempotent on the provider event id": however often
\* an event is delivered, and while a delivery of it is still being handled or
\* has died, it moves the plan at most once.
MovedOnce == \A e \in 1 .. MaxEvents : moves[e] <= 1

\* billing.service.ts:712 the mark comes last: an event that was stored but died
\* before it moved the plan (its redelivery is a duplicate) can be told by its
\* empty processed_at, so a marked event with a lifecycle meaning has moved it.
ProcessedMeansMoved ==
    \A e \in processed : events[e].status # "none" => moves[e] = 1

OneCheckout ==
    \A s, t \in Subs : provider[s].status # "unused" /\ provider[t].status # "unused" => s = t

\* billing.service.ts:528-534 and plan-management.service.ts:57: a change that is
\* only asked for is never granted.  A workspace that has checked out once is on
\* a plan that the provider has charged (or trialled, or switched a paying
\* customer to) or that an administrator has granted, in whatever order events
\* and requests overlap.  (A second checkout inherits the period and the grace
\* window of the first in its row, and a plan nobody paid for can then be granted.)
PaidPlanIsEarned == OneCheckout => plan \in earned \cup {Free}

\* packages/database/src/schema/billing.ts:71 "the plan stays ENTITLED until
\* this moment, then reverts to free": a workspace whose grace window is over
\* gets off the paid plan.
LapsesToFree ==
    (sub.status = "failed" /\ ~Entitled) ~> (plan = Free \/ Entitled)
=============================================================================
