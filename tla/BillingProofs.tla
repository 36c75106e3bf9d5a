---------------------------- MODULE BillingProofs ----------------------------
(***************************************************************************)
(* Types, idempotence of the webhooks and the plan's being paid for, for   *)
(* any number of webhook requests, subscriptions, plans and events.        *)
(*                                                                         *)
(* Behind the last one is a single idea.  As long as the provider has not  *)
(* charged a subscription, whoever holds a plan key on its account (the    *)
(* row, an event, a webhook request, a checkout) holds the key it was      *)
(* created with; once it has been charged, all of these keys are earned.   *)
(***************************************************************************)
EXTENDS Billing, TLAPS

Used(s) == provider[s].status # "unused"
EverCharged(s) == provider[s].end # NoTime

\* A key that is earned, or will be by the first charge of subscription s.
Backed(p, s) == p \in earned \cup {provider[s].plan}

ProviderRows == [status : Statuses \cup {"unused", "ended"}, plan : Keys,
                 next : Keys, end : Times]
RequestRows == [state : {"none", "pending", "spent"},
                kind : {"comp_revert", "period_end"}, to : Keys, due : Times]

RowOK ==
    /\ clock \in 0 .. MaxTime
    /\ sub \in SubRows
    /\ sub.ps = NoSub => sub = NoRow
    /\ plan \in Keys
    /\ requests \in [Requests -> RequestRows]

SweepOK == sweep \in [at : {"idle", "check", "claim"}, batch : SUBSET Requests,
                      live : BOOLEAN]

\* An event that is not recorded has not moved the plan, and none has twice.
RecordOK ==
    /\ events \in Seq(EventRows)
    /\ Len(events) <= MaxEvents
    /\ processed \subseteq recorded
    /\ recorded \subseteq Emitted
    /\ moves \in [1 .. MaxEvents -> {0, 1}]
    /\ \A e \in 1 .. MaxEvents : e \notin recorded => moves[e] = 0
    /\ ProcessedMeansMoved

ProviderOK ==
    /\ provider \in [Subs -> ProviderRows]
    /\ earned \subseteq Keys
    /\ \A s \in Subs :
        /\ EverCharged(s) => Used(s) /\ provider[s].plan \in earned
        /\ ~EverCharged(s) => /\ provider[s].status \notin {"healthy", "failed"}
                              /\ provider[s].next = Free

EventsBacked ==
    \A e \in Emitted :
        /\ Used(events[e].ps)
        /\ Backed(events[e].plan, events[e].ps)
        /\ events[e].end # NoTime => EverCharged(events[e].ps)
        /\ events[e].status \in {"healthy", "failed"} => events[e].end # NoTime

RowBacked == sub.ps \in Subs => Used(sub.ps) /\ Backed(sub.planKey, sub.ps)

HandlerRows == [at : {"idle", "record", "move", "mark"}, event : Nat,
                sub : SubRows, now : Times]

\* What a webhook request holds: an event of the subscription it has read, and,
\* from the insert on, sole charge of moving the plan for it.
HandlerOK(h) ==
    LET e == handler[h].event
        s == handler[h].sub
    IN  /\ e \in Emitted \cup {0}
        /\ handler[h].at # "idle" => e \in Emitted
        /\ handler[h].at \in {"record", "move"} /\ s # NoRow =>
              /\ sub.ps # NoSub
              /\ s.ps \in Subs /\ s.ps = events[e].ps
              /\ OneCheckout => Backed(s.planKey, s.ps)
        /\ handler[h].at = "move" =>
              /\ s # NoRow
              /\ handler[h].now \in 0 .. MaxTime
              /\ e \in recorded /\ moves[e] = 0
              /\ events[e].status # "none"
              /\ \A g \in Handlers : handler[g].at = "move" /\ handler[g].event = e => g = h
        /\ handler[h].at = "mark" =>
              /\ e \in recorded
              /\ events[e].status # "none" => moves[e] = 1

HandlersOK ==
    /\ handler \in [Handlers -> HandlerRows]
    /\ \A h \in Handlers : HandlerOK(h)

CallerRows == [at : {"idle", "checkout", "change", "changed", "admin"},
               ps : Subs \cup {NoSub}, plan : Keys, when : {"now", "at_cycle_end"},
               from : Keys]

CallerOK ==
    /\ caller \in CallerRows
    /\ caller.at = "checkout" =>
          caller.ps \in Subs /\ Used(caller.ps) /\ Backed(caller.plan, caller.ps)
    /\ caller.at = "change" => caller.ps \in Subs
    /\ caller.at \in {"change", "changed"} => sub.ps # NoSub

\* With one checkout, a period on the row is a period that was charged for, and
\* every label that may come back is earned.
PaidFor ==
    /\ sub.periodEnd # NoTime => EverCharged(sub.ps)
    /\ \A h \in Handlers :
          handler[h].at \in {"record", "move"} /\ handler[h].sub.periodEnd # NoTime
              => EverCharged(handler[h].sub.ps)
    /\ plan \in earned \cup {Free}
    /\ caller.at = "admin" => caller.from \in earned \cup {Free}
    /\ \A r \in Requests : requests[r].to \in earned \cup {Free}

IInv ==
    /\ RowOK /\ SweepOK /\ RecordOK
    /\ ProviderOK /\ EventsBacked
    /\ HandlersOK /\ CallerOK
    /\ OneCheckout => RowBacked /\ PaidFor

-----------------------------------------------------------------------------
\* Instants: what the clock and a period or a grace window make of each other.
LEMMA TimeFacts ==
    /\ NoTime \in Times
    /\ \A t \in 0 .. MaxTime : t \in Times /\ t + Grace \in Times /\ t + Period \in Times
    /\ \A t \in 0 .. MaxTime : t + Period # NoTime
    /\ \A t \in Times, n \in 0 .. MaxTime : t > n => t # NoTime
    /\ Times \subseteq Int
  BY BillingAssumption DEF BillingAssumption, Times, NoTime

\* No plan is a key, too.
LEMMA KeyFacts == Free \in Keys
  BY DEF Keys, Free

\* The rows that stand for nothing have the types of rows.
LEMMA EmptyRows ==
    /\ NoRow \in SubRows /\ NoRow.ps = NoSub /\ NoRow.periodEnd = NoTime
    /\ IdleHandler \in HandlerRows /\ IdleHandler.at = "idle"
    /\ IdleHandler.event = 0
    /\ IdleCaller \in CallerRows /\ IdleCaller.at = "idle"
    /\ Spent \in RequestRows /\ NoRequest \in RequestRows
    /\ Spent.to = Free /\ NoRequest.to = Free
    /\ UnusedSub \in ProviderRows
<1>1. NoTime \in Times /\ Free \in Keys
  BY TimeFacts, KeyFacts
<1>2. NoRow \in SubRows /\ NoRow.ps = NoSub /\ NoRow.periodEnd = NoTime
  BY <1>1 DEF NoRow, SubRows, Statuses
<1>3. IdleHandler \in HandlerRows /\ IdleHandler.at = "idle" /\ IdleHandler.event = 0
  BY <1>1, <1>2 DEF IdleHandler, HandlerRows
<1>4. IdleCaller \in CallerRows /\ IdleCaller.at = "idle"
  BY <1>1 DEF IdleCaller, CallerRows
<1>5. /\ Spent \in RequestRows /\ NoRequest \in RequestRows
      /\ Spent.to = Free /\ NoRequest.to = Free
  BY <1>1 DEF Spent, NoRequest, RequestRows
<1>6. UnusedSub \in ProviderRows
  BY <1>1 DEF UnusedSub, ProviderRows
<1> QED BY <1>2, <1>3, <1>4, <1>5, <1>6

\* Initially nobody holds anything.
LEMMA InitIInv == ASSUME BillingInit PROVE IInv
<1> USE DEF BillingInit
<1>1. RowOK /\ SweepOK
  BY EmptyRows, KeyFacts, BillingAssumption DEF RowOK, SweepOK, IdleSweep, BillingAssumption
<1>2. Emitted = {} /\ events \in Seq(EventRows) /\ Len(events) = 0
  BY DEF Emitted
<1>3. RecordOK
  BY <1>2, BillingAssumption DEF RecordOK, ProcessedMeansMoved, BillingAssumption
<1>4. ProviderOK /\ EventsBacked
  BY <1>2, EmptyRows DEF ProviderOK, EventsBacked, EverCharged, UnusedSub
<1>5. RowBacked
  BY EmptyRows, BillingAssumption DEF RowBacked, BillingAssumption
<1>6. HandlersOK /\ CallerOK
  BY EmptyRows DEF HandlersOK, HandlerOK, CallerOK
<1>7. PaidFor
  BY EmptyRows DEF PaidFor
<1> QED BY <1>1, <1>3, <1>4, <1>5, <1>6, <1>7 DEF IInv

-----------------------------------------------------------------------------
(* What a step does not disturb.                                            *)

\* No subscription is forgotten, and what was earned, charged or backed stays so.
Kept ==
    /\ OneCheckout' => OneCheckout
    /\ earned \subseteq earned'
    /\ \A s \in Subs :
        /\ Used(s) => Used(s)'
        /\ EverCharged(s) => EverCharged(s)'
        /\ \A p : Used(s) /\ Backed(p, s) => Backed(p, s)'

\* Events are only ever added.
EventsKept == Emitted \subseteq Emitted' /\ \A e \in Emitted : events'[e] = events[e]

\* A workspace that has a row keeps it.
RowKept == sub.ps # NoSub => sub'.ps # NoSub

\* A step that leaves the provider and the earned plans alone keeps them in order.
LEMMA ProviderAlone ==
    ASSUME IInv, UNCHANGED <<provider, earned>>
    PROVE  Kept /\ ProviderOK'
<1>1. OneCheckout' => OneCheckout
  BY DEF OneCheckout
<1>2. Kept
  BY <1>1 DEF Kept, Used, EverCharged, Backed
<1>3. ProviderOK'
  BY DEF IInv, ProviderOK, Used, EverCharged
<1> QED BY <1>2, <1>3

\* An event that was emitted has the type of one, and is about a subscription.
LEMMA EventTypes ==
    ASSUME IInv
    PROVE  /\ Emitted = 1 .. Len(events) /\ Len(events) \in Nat
           /\ Emitted \subseteq 1 .. MaxEvents
           /\ \A e \in Emitted : events[e] \in EventRows /\ events[e].ps \in Subs
<1>1. events \in Seq(EventRows) /\ Len(events) <= MaxEvents
  BY DEF IInv, RecordOK
<1>2. Emitted = 1 .. Len(events) /\ Len(events) \in Nat
  BY <1>1 DEF Emitted
<1>3. \A e \in 1 .. Len(events) : events[e] \in EventRows
  BY <1>1
<1>4. \A x \in EventRows : x.ps \in Subs
  BY DEF EventRows
<1>5. Emitted \subseteq 1 .. MaxEvents
  BY <1>1, <1>2, BillingAssumption DEF BillingAssumption
<1> QED BY <1>2, <1>3, <1>4, <1>5

\* Without a new event, those there are stay as well backed as they were.
LEMMA EventsAlone ==
    ASSUME IInv, UNCHANGED events, Kept
    PROVE  EventsKept /\ EventsBacked'
<1>1. Emitted' = Emitted
  BY DEF Emitted
<1>2. ASSUME NEW e \in Emitted PROVE events[e].ps \in Subs
  BY EventTypes
<1>3. EventsKept
  BY <1>1 DEF EventsKept
<1>4. EventsBacked'
  <2> SUFFICES ASSUME NEW e \in Emitted
               PROVE  /\ Used(events[e].ps)'
                      /\ Backed(events[e].plan, events[e].ps)'
                      /\ events[e].end # NoTime => EverCharged(events[e].ps)'
                      /\ events[e].status \in {"healthy", "failed"} => events[e].end # NoTime
    BY <1>1 DEF EventsBacked, Used, Backed, EverCharged
  <2> QED BY <1>2 DEF IInv, EventsBacked, Kept
<1> QED BY <1>3, <1>4

\* A row that is not written keeps its backing.
LEMMA RowAlone ==
    ASSUME IInv, UNCHANGED sub, Kept
    PROVE  RowKept /\ (OneCheckout' => RowBacked')
  BY DEF RowKept, RowBacked, IInv, Kept

\* Without a new event, record or move, the records stay in order.
LEMMA RecordsAlone ==
    ASSUME IInv, UNCHANGED <<events, recorded, processed, moves>>
    PROVE  RecordOK'
  BY DEF IInv, RecordOK, ProcessedMeansMoved, Emitted

\* A request that did not move keeps what it holds.
LEMMA HandlerAlone ==
    ASSUME IInv, Kept, EventsKept, RowKept, UNCHANGED <<recorded, moves>>,
           NEW h \in Handlers, handler'[h] = handler[h],
           \A g \in Handlers : handler'[g].at = "move" => handler'[g] = handler[g]
    PROVE  HandlerOK(h)'
<1>1. HandlerOK(h) /\ handler[h] \in HandlerRows
  BY DEF IInv, HandlersOK
<1>2. EventsBacked /\ \A e \in Emitted : events[e].ps \in Subs
  BY EventTypes DEF IInv
<1>3. ASSUME handler[h].at # "idle" PROVE Used(events[handler[h].event].ps)
  BY <1>1, <1>2, <1>3 DEF HandlerOK, EventsBacked
<1> QED BY <1>1, <1>2, <1>3 DEF HandlerOK, EventsKept, RowKept, Kept

\* So do all of them, when none moves.
LEMMA HandlersAlone ==
    ASSUME IInv, Kept, EventsKept, RowKept, UNCHANGED <<recorded, moves, handler>>
    PROVE  HandlersOK'
<1>1. handler' \in [Handlers -> HandlerRows]
  BY DEF IInv, HandlersOK
<1>2. \A h \in Handlers : HandlerOK(h)'
  BY HandlerAlone
<1> QED BY <1>1, <1>2 DEF HandlersOK

\* The request of the owner or the administrator keeps what it holds.
LEMMA CallerAlone ==
    ASSUME IInv, Kept, RowKept, UNCHANGED caller
    PROVE  CallerOK'
  BY DEF IInv, CallerOK, Kept, RowKept

\* A period on a row is on the row of a subscription.
LEMMA PeriodOwned ==
    ASSUME IInv
    PROVE  /\ sub.periodEnd # NoTime => sub.ps \in Subs
           /\ \A h \in Handlers :
                handler[h].at \in {"record", "move"} /\ handler[h].sub.periodEnd # NoTime
                    => handler[h].sub.ps \in Subs
<1>1. sub.periodEnd # NoTime => sub.ps \in Subs
  BY EmptyRows DEF IInv, RowOK, SubRows
<1>2. \A h \in Handlers : HandlerOK(h)
  BY DEF IInv, HandlersOK
<1> QED BY <1>1, <1>2, EmptyRows DEF HandlerOK

\* The handlers' half of PaidFor, and the rows' half.
LEMMA PeriodsAlone ==
    ASSUME IInv, Kept, PaidFor
    PROVE  /\ UNCHANGED sub => (sub.periodEnd # NoTime => EverCharged(sub.ps))'
           /\ \A h \in Handlers : handler'[h] = handler[h] =>
                (handler[h].at \in {"record", "move"} /\ handler[h].sub.periodEnd # NoTime
                    => EverCharged(handler[h].sub.ps))'
  BY PeriodOwned DEF PaidFor, Kept

\* A label, one to come back to, or one to go to, stays earned while it is not written.
LEMMA LabelsAlone ==
    ASSUME Kept, PaidFor
    PROVE  /\ UNCHANGED plan => (plan \in earned \cup {Free})'
           /\ UNCHANGED caller => (caller.at = "admin" => caller.from \in earned \cup {Free})'
           /\ UNCHANGED requests => (\A r \in Requests : requests[r].to \in earned \cup {Free})'
  BY DEF Kept, PaidFor

-----------------------------------------------------------------------------
(* The webhook requests.                                                    *)

\* What every step of request h but MovePlan leaves alone.
HandlerStep(h) ==
    UNCHANGED <<clock, rowVars, caller, sweep, providerVars, moves, earned>>

\* So a step keeps the invariant that keeps it for the records and the requests.
LEMMA HandlerStepIInv ==
    ASSUME IInv, NEW h \in Handlers, HandlerStep(h),
           RecordOK', HandlersOK',
           \A g \in Handlers : g # h => handler'[g] = handler[g],
           PaidFor /\ handler'[h].at \in {"record", "move"}
                   /\ handler'[h].sub.periodEnd # NoTime => EverCharged(handler'[h].sub.ps)
    PROVE  IInv'
<1> USE DEF HandlerStep, rowVars, providerVars
<1>1. Kept /\ ProviderOK'
  BY ProviderAlone
<1>2. EventsKept /\ EventsBacked' /\ RowKept /\ (OneCheckout' => RowBacked')
  BY <1>1, EventsAlone, RowAlone
<1>3. CallerOK'
  BY <1>1, <1>2, CallerAlone
<1>4. RowOK' /\ SweepOK'
  BY DEF IInv, RowOK, SweepOK
<1>5. ASSUME OneCheckout' PROVE PaidFor'
  <2>1. PaidFor
    BY <1>1, <1>5 DEF IInv, Kept
  <2>2. \A g \in Handlers :
          (handler[g].at \in {"record", "move"} /\ handler[g].sub.periodEnd # NoTime
              => EverCharged(handler[g].sub.ps))'
    <3> SUFFICES ASSUME NEW g \in Handlers
                 PROVE  (handler[g].at \in {"record", "move"} /\ handler[g].sub.periodEnd # NoTime
                            => EverCharged(handler[g].sub.ps))'
      OBVIOUS
    <3>1. CASE g = h
      BY <2>1, <3>1 DEF EverCharged
    <3>2. CASE g # h
      BY <1>1, <2>1, <3>2, PeriodsAlone
    <3> QED BY <3>1, <3>2
  <2> QED BY <1>1, <2>1, <2>2, PeriodsAlone, LabelsAlone DEF PaidFor
<1> QED BY <1>1, <1>2, <1>3, <1>4, <1>5 DEF IInv

\* The subscription's row is the row it has read, under the name of the event.
LEMMA ReadSubIInv ==
    ASSUME IInv, NEW h \in Handlers, NEW e \in 1 .. MaxEvents, ReadSub(h, e)
    PROVE  IInv'
<1>0. PICK row : row = IF events[e].ps = sub.ps THEN [sub EXCEPT !.status = "idle"]
                                                ELSE NoRow
  OBVIOUS
<1> DEFINE new == [at |-> "record", event |-> e, now |-> NoTime, sub |-> row]
<1>1. /\ handler' = [handler EXCEPT ![h] = new]
      /\ e \in Emitted /\ HandlerStep(h) /\ UNCHANGED eventVars
  BY <1>0 DEF ReadSub, HandlerStep, Emitted
<1>2. handler \in [Handlers -> HandlerRows] /\ sub \in SubRows
  BY DEF IInv, HandlersOK, RowOK
<1>3. handler'[h] = new /\ \A g \in Handlers : g # h => handler'[g] = handler[g]
  BY <1>1, <1>2
<1>4. Kept /\ EventsKept /\ RowKept /\ UNCHANGED <<recorded, moves>>
  BY <1>1, ProviderAlone, EventsAlone, RowAlone
     DEF HandlerStep, rowVars, providerVars, eventVars
<1>5. new.sub \in SubRows /\ new \in HandlerRows
  <2>1. [sub EXCEPT !.status = "idle"] \in SubRows
    BY <1>2 DEF SubRows, Statuses
  <2>2. row \in SubRows
    BY <2>1, <1>0, EmptyRows
  <2> QED BY <2>2, TimeFacts DEF HandlerRows
<1>6. RecordOK'
  BY <1>1, RecordsAlone DEF HandlerStep, eventVars, providerVars
<1>7. HandlerOK(h)'
  <2>1. row # NoRow => row.ps = sub.ps /\ row.planKey = sub.planKey
                           /\ events[e].ps = sub.ps
    BY <1>0, <1>2 DEF SubRows
  <2>2. events[e].ps \in Subs /\ e \in Emitted' /\ NoSub \notin Subs
    BY <1>1, <1>4, EventTypes, BillingAssumption DEF EventsKept, BillingAssumption
  <2>3. row # NoRow /\ OneCheckout => Used(sub.ps) /\ Backed(sub.planKey, sub.ps)
    BY <2>1, <2>2 DEF IInv, RowBacked
  <2>4. row # NoRow /\ OneCheckout' => Backed(row.planKey, row.ps)'
    BY <2>1, <2>2, <2>3, <1>4 DEF Kept
  <2>5. row # NoRow => sub'.ps # NoSub /\ events'[e].ps = row.ps
    BY <2>1, <2>2, <1>1 DEF HandlerStep, rowVars, providerVars
  <2> HIDE DEF new
  <2>6. new.at = "record" /\ new.event = e /\ new.sub = row
    BY DEF new
  <2> QED BY <1>3, <2>1, <2>2, <2>4, <2>5, <2>6 DEF HandlerOK
<1>8. \A g \in Handlers : HandlerOK(g)'
  <2>1. \A g \in Handlers : handler'[g].at = "move" => handler'[g] = handler[g]
    BY <1>3
  <2>2. \A g \in Handlers : g # h => HandlerOK(g)'
    BY <1>3, <1>4, <2>1, HandlerAlone
  <2> QED BY <1>7, <2>2
<1>9. HandlersOK'
  BY <1>1, <1>2, <1>5, <1>8 DEF HandlersOK
<1>10. PaidFor /\ row.periodEnd # NoTime => EverCharged(row.ps)
  <2>1. CASE events[e].ps = sub.ps
    BY <1>0, <2>1, <1>2 DEF PaidFor, SubRows
  <2>2. CASE events[e].ps # sub.ps
    BY <1>0, <2>2, EmptyRows
  <2> QED BY <2>1, <2>2
<1>11. new.sub = row
  OBVIOUS
<1> HIDE DEF new
<1> QED BY <1>11, <1>1, <1>3, <1>6, <1>9, <1>10, HandlerStepIInv

\* A request that stops, or that goes on to its mark, holds nothing of a row.
LEMMA MarkingFacts ==
    ASSUME NEW e \in Nat
    PROVE  Marking(e) \in HandlerRows /\ Marking(e).at = "mark" /\ Marking(e).event = e
  BY TimeFacts, EmptyRows DEF Marking, IdleHandler, HandlerRows

\* The insert: the first to record the event is the only one to go on with it.
LEMMA RecordEventIInv ==
    ASSUME IInv, NEW h \in Handlers, RecordEvent(h)
    PROVE  IInv'
<1>1. PICK e : e = handler[h].event
  OBVIOUS
<1>2. handler \in [Handlers -> HandlerRows] /\ clock \in 0 .. MaxTime
      /\ handler[h] \in HandlerRows
  BY DEF IInv, HandlersOK, RowOK
<1>3. HandlerOK(h) /\ e \in Emitted /\ e \in Nat
  BY <1>1, <1>2, EventTypes DEF IInv, HandlersOK, HandlerOK, RecordEvent, HandlerRows
<1>4. PICK new : new = IF e \in recorded \/ handler[h].sub = NoRow THEN IdleHandler
                       ELSE IF events[e].status = "none" THEN Marking(e)
                       ELSE [handler[h] EXCEPT !.at = "move", !.now = clock]
  OBVIOUS
<1>5. /\ handler' = [handler EXCEPT ![h] = new]
      /\ recorded' = recorded \cup {e} /\ HandlerStep(h) /\ UNCHANGED processed
      /\ handler[h].at = "record"
  BY <1>1, <1>4 DEF RecordEvent, HandlerStep
<1>6. handler'[h] = new /\ \A g \in Handlers : g # h => handler'[g] = handler[g]
  BY <1>2, <1>5
<1>7. \/ new = IdleHandler
      \/ new = Marking(e) /\ events[e].status = "none"
      \/ /\ new.at = "move" /\ new.now = clock /\ new.event = e /\ new.sub = handler[h].sub
         /\ new \in HandlerRows
         /\ e \notin recorded /\ handler[h].sub # NoRow /\ events[e].status # "none"
  BY <1>1, <1>2, <1>4, TimeFacts DEF HandlerRows
<1>8. new \in HandlerRows
  BY <1>3, <1>7, EmptyRows, MarkingFacts
<1>9. Kept /\ EventsKept /\ RowKept
  BY <1>5, ProviderAlone, EventsAlone, RowAlone DEF HandlerStep, rowVars, providerVars
<1>10. RecordOK'
  <2>1. Emitted' = Emitted /\ UNCHANGED <<events, moves>>
    BY <1>5 DEF HandlerStep, providerVars, Emitted
  <2> QED BY <1>3, <1>5, <2>1 DEF IInv, RecordOK, ProcessedMeansMoved
<1>11. \A g \in Handlers : handler[g].at = "move" => handler[g].event \in recorded
  BY DEF IInv, HandlersOK, HandlerOK
<1>12. HandlerOK(h)'
  <2>1. CASE new = IdleHandler
    BY <1>6, <2>1, EmptyRows DEF HandlerOK
  <2>2. CASE new = Marking(e) /\ events[e].status = "none"
    <3>1. e \in Emitted' /\ events'[e].status = "none" /\ e \in recorded'
      BY <1>3, <1>5, <1>9, <2>2 DEF EventsKept
    <3> QED BY <1>3, <1>6, <2>2, <3>1, MarkingFacts DEF HandlerOK
  <2>3. CASE /\ new.at = "move" /\ new.now = clock /\ new.event = e /\ new.sub = handler[h].sub
             /\ e \notin recorded /\ handler[h].sub # NoRow /\ events[e].status # "none"
    <3>1. PICK row : row = handler[h].sub
      OBVIOUS
    <3>2. /\ sub.ps # NoSub /\ row.ps \in Subs /\ row.ps = events[e].ps
          /\ OneCheckout => Backed(row.planKey, row.ps)
      BY <1>1, <1>3, <1>5, <2>3, <3>1 DEF HandlerOK
    <3>3. Used(row.ps)
      BY <1>3, <3>2 DEF IInv, EventsBacked
    <3>4. /\ OneCheckout' => Backed(row.planKey, row.ps)'
          /\ sub'.ps # NoSub /\ events'[e] = events[e]
          /\ e \in Emitted' /\ e \in recorded'
      BY <1>3, <1>5, <1>9, <3>2, <3>3 DEF Kept, RowKept, EventsKept
    <3>5. moves'[e] = 0
      BY <1>3, <1>5, <2>3, EventTypes DEF HandlerStep, IInv, RecordOK
    <3>6. \A g \in Handlers : handler'[g].at = "move" /\ handler'[g].event = e => g = h
      BY <1>6, <1>11, <2>3
    <3> QED BY <1>2, <1>6, <2>3, <3>1, <3>2, <3>4, <3>5, <3>6 DEF HandlerOK
  <2> QED BY <1>7, <2>1, <2>2, <2>3
<1>13. ASSUME NEW g \in Handlers, g # h PROVE HandlerOK(g)'
  <2>1. HandlerOK(g) /\ handler'[g] = handler[g] /\ UNCHANGED moves
    BY <1>5, <1>6, <1>13 DEF IInv, HandlersOK, HandlerStep
  <2>2. handler[g].at # "idle" => Used(events[handler[g].event].ps)
    BY <2>1 DEF HandlerOK, IInv, EventsBacked
  <2>3. handler[g].at = "move" => new.at # "move" \/ new.event # handler[g].event
    BY <1>7, <1>11, EmptyRows, MarkingFacts, <1>3
  <2>4. recorded \subseteq recorded'
    BY <1>5
  <2>5. handler[g].at = "move" =>
           \A q \in Handlers : handler'[q].at = "move" /\ handler'[q].event = handler[g].event => q = g
    BY <1>6, <2>1, <2>3 DEF HandlerOK
  <2> QED BY <1>9, <2>1, <2>2, <2>4, <2>5 DEF HandlerOK, EventsKept, RowKept, Kept
<1>14. HandlersOK'
  BY <1>2, <1>5, <1>8, <1>12, <1>13 DEF HandlersOK
<1>15. PaidFor /\ new.at \in {"record", "move"} /\ new.sub.periodEnd # NoTime
          => EverCharged(new.sub.ps)
  BY <1>5, <1>7, EmptyRows, MarkingFacts, <1>3 DEF PaidFor
<1> QED BY <1>5, <1>6, <1>10, <1>14, <1>15, HandlerStepIInv

\* The mark frees the request; an event with a lifecycle meaning has moved.
LEMMA MarkProcessedIInv ==
    ASSUME IInv, NEW h \in Handlers, MarkProcessed(h)
    PROVE  IInv'
<1>1. handler \in [Handlers -> HandlerRows] /\ HandlerOK(h)
  BY DEF IInv, HandlersOK
<1>2. HandlerStep(h) /\ UNCHANGED recorded /\ handler' = [handler EXCEPT ![h] = IdleHandler]
  BY DEF MarkProcessed, HandlerStep
<1>3. handler'[h] = IdleHandler /\ \A g \in Handlers : g # h => handler'[g] = handler[g]
  BY <1>1, <1>2
<1>4. Kept /\ EventsKept /\ RowKept /\ UNCHANGED <<recorded, moves>>
  BY <1>2, ProviderAlone, EventsAlone, RowAlone DEF HandlerStep, rowVars, providerVars
<1>5. RecordOK'
  <2>1. Emitted' = Emitted /\ UNCHANGED <<events, moves>>
    BY <1>2 DEF HandlerStep, providerVars, Emitted
  <2> QED BY <1>1, <1>2, <2>1 DEF MarkProcessed, HandlerOK, IInv, RecordOK, ProcessedMeansMoved
<1>6. HandlerOK(h)'
  BY <1>3, EmptyRows DEF HandlerOK
<1>7. \A g \in Handlers : HandlerOK(g)'
  <2>1. \A g \in Handlers : handler'[g].at = "move" => handler'[g] = handler[g]
    BY <1>3, EmptyRows
  <2>2. \A g \in Handlers : g # h => HandlerOK(g)'
    BY <1>3, <1>4, <2>1, HandlerAlone
  <2> QED BY <1>6, <2>2
<1>8. HandlersOK'
  BY <1>1, <1>2, <1>7, EmptyRows DEF HandlersOK
<1> QED BY <1>2, <1>3, <1>5, <1>8, EmptyRows, HandlerStepIInv

\* A request that dies holds nothing any more.
LEMMA HandlerDiesIInv ==
    ASSUME IInv, NEW h \in Handlers, HandlerDies(h)
    PROVE  IInv'
<1>1. handler \in [Handlers -> HandlerRows]
  BY DEF IInv, HandlersOK
<1>2. HandlerStep(h) /\ UNCHANGED eventVars /\ handler' = [handler EXCEPT ![h] = IdleHandler]
  BY DEF HandlerDies, HandlerStep
<1>3. handler'[h] = IdleHandler /\ \A g \in Handlers : g # h => handler'[g] = handler[g]
  BY <1>1, <1>2
<1>4. Kept /\ EventsKept /\ RowKept /\ UNCHANGED <<recorded, moves>>
  BY <1>2, ProviderAlone, EventsAlone, RowAlone DEF HandlerStep, rowVars, providerVars, eventVars
<1>5. RecordOK'
  BY <1>2, RecordsAlone DEF HandlerStep, eventVars, providerVars
<1>6. \A g \in Handlers : HandlerOK(g)'
  <2>1. \A g \in Handlers : handler'[g].at = "move" => handler'[g] = handler[g]
    BY <1>3, EmptyRows
  <2>2. HandlerOK(h)'
    BY <1>3, EmptyRows DEF HandlerOK
  <2>3. \A g \in Handlers : g # h => HandlerOK(g)'
    BY <1>3, <1>4, <2>1, HandlerAlone
  <2> QED BY <2>2, <2>3
<1>7. HandlersOK'
  BY <1>1, <1>2, <1>6, EmptyRows DEF HandlersOK
<1> QED BY <1>2, <1>3, <1>5, <1>7, EmptyRows, HandlerStepIInv

\* The row, the label and the event move together.  What makes the label's key
\* earned: an entitled event's subscription has been charged.
LEMMA MovePlanIInv ==
    ASSUME IInv, NEW h \in Handlers, MovePlan(h)
    PROVE  IInv'
<1>1. PICK e, s, now : /\ e = handler[h].event /\ s = handler[h].sub
                       /\ now = handler[h].now
  OBVIOUS
<1>2. PICK ev : ev = events[e]
  OBVIOUS
<1>3. PICK graceEnd, periodEnd :
        /\ graceEnd = IF ev.status # "failed" THEN NoTime
                      ELSE IF s.graceEnd # NoTime THEN s.graceEnd ELSE now + Grace
        /\ periodEnd = IF ev.end # NoTime THEN ev.end ELSE s.periodEnd
  OBVIOUS
<1>4. PICK entitled, key, apply :
        /\ entitled = isEntitled(ev.status, periodEnd, graceEnd, now)
        /\ apply = (entitled /\ s.pending # Free /\ ev.plan = s.pending)
        /\ key = IF apply THEN s.pending ELSE s.planKey
  OBVIOUS
<1>5. /\ handler[h].at = "move"
      /\ sub' = [sub EXCEPT !.status = ev.status, !.periodEnd = periodEnd,
                            !.graceEnd = graceEnd,
                            !.planKey = IF apply THEN key ELSE @,
                            !.pending = IF apply THEN Free ELSE @]
      /\ plan' = IF entitled THEN key ELSE Free
      /\ moves' = [moves EXCEPT ![e] = @ + 1]
      /\ handler' = [handler EXCEPT ![h] = Marking(e)]
      /\ UNCHANGED <<clock, requests, eventVars, caller, sweep, providerVars, earned>>
  BY <1>1, <1>2, <1>3, <1>4 DEF MovePlan
<1>6. handler \in [Handlers -> HandlerRows] /\ handler[h] \in HandlerRows /\ HandlerOK(h)
  BY DEF IInv, HandlersOK
<1>7. /\ e \in Emitted /\ e \in 1 .. MaxEvents /\ e \in Nat
      /\ s \in SubRows /\ s # NoRow /\ s.ps \in Subs /\ s.ps = ev.ps
      /\ OneCheckout => Backed(s.planKey, s.ps)
      /\ now \in 0 .. MaxTime
      /\ e \in recorded /\ moves[e] = 0 /\ ev.status # "none"
      /\ sub.ps # NoSub
  BY <1>1, <1>2, <1>5, <1>6, EventTypes DEF HandlerOK, HandlerRows
<1>8. ev \in EventRows
  BY <1>2, <1>7, EventTypes
<1>9. Kept /\ ProviderOK'
  BY <1>5, ProviderAlone DEF providerVars
<1>10. /\ Used(s.ps) /\ Backed(ev.plan, s.ps)
       /\ ev.end # NoTime => EverCharged(s.ps)
       /\ ev.status \in {"healthy", "failed"} => ev.end # NoTime
  BY <1>2, <1>7 DEF IInv, EventsBacked
<1>11. ASSUME OneCheckout, EverCharged(s.ps) PROVE key \in earned
  <2>1. provider[s.ps].plan \in earned
    BY <1>7, <1>11 DEF IInv, ProviderOK
  <2> QED BY <1>4, <1>7, <1>10, <1>11, <2>1 DEF Backed
<1>12. sub \in SubRows /\ sub' \in SubRows /\ sub'.ps = sub.ps /\ sub'.periodEnd = periodEnd
  <2>1. graceEnd \in Times /\ periodEnd \in Times
    BY <1>3, <1>7, <1>8, TimeFacts DEF SubRows, EventRows
  <2>2. key \in Keys /\ ev.status \in Statuses
    BY <1>4, <1>7, <1>8 DEF SubRows, EventRows
  <2>3. sub \in SubRows
    BY DEF IInv, RowOK
  <2> QED BY <1>5, <2>1, <2>2, <2>3, KeyFacts DEF SubRows
<1>13. plan' \in Keys
  <2>1. key \in Keys
    BY <1>4, <1>7 DEF SubRows
  <2> QED BY <1>5, <2>1, KeyFacts
<1>14. RowOK' /\ SweepOK'
  BY <1>5, <1>7, <1>12, <1>13 DEF IInv, RowOK, SweepOK
<1>15. EventsKept /\ EventsBacked' /\ RowKept
  BY <1>5, <1>9, <1>12, EventsAlone DEF providerVars, RowKept
<1>16. ASSUME OneCheckout PROVE s.ps = sub.ps /\ Used(sub.ps)
  BY <1>7, <1>10, <1>12, <1>16 DEF IInv, RowBacked, SubRows, OneCheckout, Used
<1>17. ASSUME OneCheckout' PROVE RowBacked'
  <2>1. OneCheckout /\ sub.ps \in Subs /\ Used(sub.ps) /\ Backed(sub.planKey, sub.ps)
    BY <1>7, <1>9, <1>12, <1>17 DEF IInv, RowBacked, SubRows, Kept
  <2>2. CASE ~apply
    <3>1. sub'.planKey = sub.planKey
      BY <1>5, <1>12, <2>2 DEF SubRows
    <3> QED BY <1>9, <1>12, <2>1, <3>1 DEF RowBacked, Kept
  <2>3. CASE apply
    <3>1. sub'.planKey = key /\ key = ev.plan
      BY <1>4, <1>5, <1>12, <2>3 DEF SubRows
    <3>2. Backed(ev.plan, sub.ps)
      BY <1>10, <1>16, <2>1
    <3> QED BY <1>9, <1>12, <2>1, <3>1, <3>2 DEF RowBacked, Kept
  <2> QED BY <2>2, <2>3
<1>18. Emitted' = Emitted /\ UNCHANGED <<events, recorded, processed>>
  BY <1>5 DEF eventVars, providerVars, Emitted
<1>19. moves'[e] = 1 /\ moves' \in [1 .. MaxEvents -> {0, 1}]
       /\ \A f \in 1 .. MaxEvents : f # e => moves'[f] = moves[f]
  BY <1>5, <1>7 DEF IInv, RecordOK
<1>20. RecordOK'
  <2>1. processed \subseteq 1 .. MaxEvents /\ recorded \subseteq Emitted
    BY EventTypes DEF IInv, RecordOK
  <2>2. ProcessedMeansMoved'
    BY <1>7, <1>18, <1>19, <2>1 DEF IInv, RecordOK, ProcessedMeansMoved
  <2> QED BY <1>7, <1>18, <1>19, <2>2 DEF IInv, RecordOK
<1>21. handler'[h] = Marking(e) /\ \A g \in Handlers : g # h => handler'[g] = handler[g]
  BY <1>5, <1>6
<1>22. ASSUME NEW g \in Handlers PROVE HandlerOK(g)'
  <2>1. CASE g = h
    BY <1>7, <1>18, <1>19, <1>21, <2>1, MarkingFacts DEF HandlerOK
  <2>2. CASE g # h
    <3>1. HandlerOK(g) /\ handler'[g] = handler[g]
      BY <1>21, <2>2 DEF IInv, HandlersOK
    <3>2. handler[g].at # "idle" => Used(events[handler[g].event].ps)
      BY <3>1 DEF HandlerOK, IInv, EventsBacked
    <3>3. handler[g].at = "move" => handler[g].event # e
      BY <1>1, <1>5, <1>6, <2>2 DEF HandlerOK
    <3>4. /\ handler[g].at = "move" => moves'[handler[g].event] = 0
          /\ handler[g].at = "mark" /\ moves[handler[g].event] = 1
                => moves'[handler[g].event] = 1
      BY <1>19, <3>1, <3>3, EventTypes DEF HandlerOK
    <3>5. handler[g].at = "move" =>
             \A q \in Handlers : handler'[q].at = "move" /\ handler'[q].event = handler[g].event
                                    => q = g
      BY <1>7, <1>21, <3>1, MarkingFacts DEF HandlerOK
    <3> QED BY <1>9, <1>15, <1>18, <3>1, <3>2, <3>4, <3>5
            DEF HandlerOK, EventsKept, RowKept, Kept
  <2> QED BY <2>1, <2>2
<1>23. HandlersOK'
  BY <1>5, <1>6, <1>7, <1>22, MarkingFacts DEF HandlersOK
<1>24. CallerOK'
  BY <1>5, <1>9, <1>15, CallerAlone
<1>25. ASSUME OneCheckout' PROVE PaidFor'
  <2>1. OneCheckout /\ PaidFor /\ s.ps = sub.ps
    BY <1>9, <1>16, <1>25 DEF IInv, Kept
  <2>2. periodEnd # NoTime => EverCharged(s.ps)
    BY <1>1, <1>3, <1>5, <1>10, <2>1 DEF PaidFor
  <2>3. (sub.periodEnd # NoTime => EverCharged(sub.ps))'
    BY <1>7, <1>9, <1>12, <2>1, <2>2 DEF Kept
  <2>4. plan' \in earned' \cup {Free}
    <3>1. CASE ~entitled
      BY <1>5, <3>1
    <3>2. CASE entitled
      <4>1. ev.end # NoTime \/ periodEnd # NoTime
        <5>1. ev.status = "cancelled" => periodEnd > now
          BY <1>4, <1>10, <3>2 DEF isEntitled
        <5>2. ev.status \in {"healthy", "failed", "cancelled"}
          BY <1>4, <3>2 DEF isEntitled
        <5>3. now \in 0 .. MaxTime /\ periodEnd \in Times
          BY <1>7, <1>12 DEF SubRows
        <5> QED BY <1>10, <5>1, <5>2, <5>3, TimeFacts
      <4>2. key \in earned
        BY <1>10, <1>11, <2>1, <2>2, <4>1
      <4> QED BY <1>5, <3>2, <4>2
    <3> QED BY <3>1, <3>2
  <2>5. \A g \in Handlers :
          (handler[g].at \in {"record", "move"} /\ handler[g].sub.periodEnd # NoTime
              => EverCharged(handler[g].sub.ps))'
    <3> SUFFICES ASSUME NEW g \in Handlers
                 PROVE  (handler[g].at \in {"record", "move"} /\ handler[g].sub.periodEnd # NoTime
                            => EverCharged(handler[g].sub.ps))'
      OBVIOUS
    <3>1. CASE g = h
      BY <1>7, <1>21, <3>1, MarkingFacts
    <3>2. CASE g # h
      BY <1>9, <1>21, <2>1, <3>2, PeriodsAlone
    <3> QED BY <3>1, <3>2
  <2> QED BY <1>5, <1>9, <2>1, <2>3, <2>4, <2>5, LabelsAlone DEF PaidFor
<1> QED BY <1>14, <1>15, <1>17, <1>20, <1>9, <1>23, <1>24, <1>25 DEF IInv

-----------------------------------------------------------------------------
(* The provider.                                                            *)

\* A subscription moves on: it is not forgotten, and its plan changes only from
\* an earned one or on the way to being charged.
LEMMA ProviderMoves ==
    ASSUME IInv, NEW s \in Subs, NEW to \in ProviderRows,
           provider' = [provider EXCEPT ![s] = to],
           earned \subseteq earned', earned' \subseteq Keys,
           to.status # "unused",
           EverCharged(s) => to.end # NoTime,
           Used(s) => to.plan = provider[s].plan \/ provider[s].plan \in earned',
           to.end # NoTime => to.plan \in earned',
           to.end = NoTime => to.status \notin {"healthy", "failed"} /\ to.next = Free
    PROVE  Kept /\ ProviderOK' /\ Used(s)' /\ Backed(to.plan, s)'
<1>1. provider \in [Subs -> ProviderRows]
  BY DEF IInv, ProviderOK
<1>2. provider'[s] = to /\ \A t \in Subs : t # s => provider'[t] = provider[t]
  BY <1>1
<1>3. \A t \in Subs : /\ Used(t) => Used(t)'
                      /\ EverCharged(t) => EverCharged(t)'
                      /\ \A p : Used(t) /\ Backed(p, t) => Backed(p, t)'
  BY <1>2 DEF Used, EverCharged, Backed
<1>4. OneCheckout' => OneCheckout
  BY <1>3 DEF OneCheckout, Used
<1>5. ASSUME NEW t \in Subs
      PROVE  /\ EverCharged(t)' => Used(t)' /\ provider'[t].plan \in earned'
             /\ ~EverCharged(t)' => /\ provider'[t].status \notin {"healthy", "failed"}
                                    /\ provider'[t].next = Free
  <2>1. CASE t = s
    BY <1>2, <2>1 DEF EverCharged, Used
  <2>2. CASE t # s
    BY <1>2, <2>2 DEF EverCharged, Used, IInv, ProviderOK
  <2> QED BY <2>1, <2>2
<1>6. provider' \in [Subs -> ProviderRows]
  BY <1>1
<1>7. ProviderOK'
  BY <1>5, <1>6 DEF ProviderOK
<1> QED BY <1>2, <1>3, <1>4, <1>7 DEF Kept, Used, Backed

\* An event is added at the end.
LEMMA AppendFacts ==
    ASSUME NEW S, NEW q \in Seq(S), NEW x \in S
    PROVE  /\ Append(q, x) \in Seq(S) /\ Len(Append(q, x)) = Len(q) + 1
           /\ DOMAIN Append(q, x) = (DOMAIN q) \cup {Len(q) + 1}
           /\ \A i \in DOMAIN q : Append(q, x)[i] = q[i]
           /\ Append(q, x)[Len(q) + 1] = x
<1>1. DOMAIN q = 1 .. Len(q) /\ Len(q) \in Nat
  OBVIOUS
<1>2. Append(q, x) \in Seq(S) /\ Len(Append(q, x)) = Len(q) + 1
  OBVIOUS
<1>3. DOMAIN Append(q, x) = 1 .. Len(q) + 1
  BY <1>2
<1> QED BY <1>1, <1>2, <1>3

\* The provider reports a change: nothing of the workspace moves yet.
LEMMA EmitIInv ==
    ASSUME IInv, NEW s \in Subs, NEW to \in ProviderRows,
           NEW status \in Statuses \cup {"none"}, Emit(s, to, status),
           earned \subseteq earned', earned' \subseteq Keys,
           to.status # "unused",
           EverCharged(s) => to.end # NoTime,
           Used(s) => to.plan = provider[s].plan \/ provider[s].plan \in earned',
           to.end # NoTime => to.plan \in earned',
           to.end = NoTime => to.status \notin {"healthy", "failed"} /\ to.next = Free,
           status \in {"healthy", "failed"} => to.end # NoTime
    PROVE  IInv'
<1> DEFINE new == [ps |-> s, plan |-> to.plan, status |-> status, end |-> to.end]
           n == Len(events) + 1
<1>1. /\ Len(events) < MaxEvents
      /\ provider' = [provider EXCEPT ![s] = to]
      /\ events' = Append(events, new)
      /\ UNCHANGED <<clock, rowVars, eventVars, handler, caller, sweep, moves>>
  BY DEF Emit
<1>2. Kept /\ ProviderOK' /\ Used(s)' /\ Backed(to.plan, s)'
  BY <1>1, ProviderMoves
<1>3. new \in EventRows
  BY DEF EventRows, ProviderRows
<1>4. events \in Seq(EventRows)
  BY DEF IInv, RecordOK
<1>5. /\ events' \in Seq(EventRows) /\ Len(events') = n
      /\ Emitted' = Emitted \cup {n} /\ events'[n] = new
      /\ \A e \in Emitted : events'[e] = events[e]
  BY <1>1, <1>3, <1>4, AppendFacts DEF Emitted
<1>6. EventsKept
  BY <1>5 DEF EventsKept
<1>7. RowKept /\ RowOK' /\ SweepOK' /\ (OneCheckout' => RowBacked')
  BY <1>1, <1>2, RowAlone DEF IInv, RowOK, SweepOK, rowVars
<1>8. RecordOK'
  <2>1. Len(events') <= MaxEvents /\ recorded' \subseteq Emitted'
    BY <1>1, <1>4, <1>5, BillingAssumption DEF IInv, RecordOK, eventVars, BillingAssumption
  <2>2. ProcessedMeansMoved'
    <3>1. processed \subseteq Emitted /\ ProcessedMeansMoved
      BY DEF IInv, RecordOK
    <3> QED BY <1>1, <1>5, <3>1 DEF ProcessedMeansMoved, eventVars
  <2> QED BY <1>1, <1>5, <2>1, <2>2 DEF IInv, RecordOK, eventVars
<1>9. EventsBacked'
  <2> SUFFICES ASSUME NEW e \in Emitted'
               PROVE  (/\ Used(events[e].ps)
                       /\ Backed(events[e].plan, events[e].ps)
                       /\ events[e].end # NoTime => EverCharged(events[e].ps)
                       /\ events[e].status \in {"healthy", "failed"} => events[e].end # NoTime)'
    BY DEF EventsBacked
  <2>1. CASE events'[e] = new
    <3>1. EverCharged(s)' <=> to.end # NoTime
      BY <1>1 DEF EverCharged, IInv, ProviderOK
    <3> QED BY <1>2, <2>1, <3>1
  <2>2. CASE e \in Emitted
    BY <1>2, <1>5, <2>2, EventTypes DEF IInv, EventsBacked, Kept
  <2> QED BY <1>5, <2>1, <2>2
<1>10. HandlersOK'
  BY <1>1, <1>2, <1>6, <1>7, HandlersAlone DEF eventVars
<1>11. CallerOK'
  BY <1>1, <1>2, <1>7, CallerAlone
<1>12. ASSUME OneCheckout' PROVE PaidFor'
  <2>1. PaidFor
    BY <1>2, <1>12 DEF IInv, Kept
  <2> QED BY <1>1, <1>2, <2>1, PeriodsAlone, LabelsAlone DEF PaidFor, rowVars
<1> QED BY <1>2, <1>7, <1>8, <1>9, <1>10, <1>11, <1>12 DEF IInv

\* What the steps of a subscription need of its row.
LEMMA ProviderTypes ==
    ASSUME IInv, NEW s \in Subs
    PROVE  /\ provider[s] \in ProviderRows /\ earned \subseteq Keys
           /\ EverCharged(s) => Used(s) /\ provider[s].plan \in earned
           /\ ~EverCharged(s) => provider[s].status \notin {"healthy", "failed"}
                                 /\ provider[s].next = Free
           /\ clock \in 0 .. MaxTime
  BY DEF IInv, ProviderOK, RowOK

\* Everything but a charge leaves the plan and the period of the subscription.
LEMMA ReportIInv ==
    ASSUME IInv, NEW s \in Subs, Failed(s) \/ Cancelled(s) \/ Ended(s) \/ PaymentOnly(s)
    PROVE  IInv'
<1> USE DEF EverCharged
<1>1. /\ provider[s] \in ProviderRows /\ Used(s) /\ earned \subseteq Keys
  BY ProviderTypes DEF Failed, Cancelled, Ended, PaymentOnly, Used
<1>2. CASE Failed(s)
  <2>1. [provider[s] EXCEPT !.status = "failed"] \in ProviderRows
    BY <1>1 DEF ProviderRows, Statuses
  <2> QED BY <1>1, <1>2, <2>1, ProviderTypes, EmitIInv DEF Failed, ProviderRows, Statuses
<1>3. CASE Cancelled(s)
  <2>1. [provider[s] EXCEPT !.status = "cancelled"] \in ProviderRows
    BY <1>1 DEF ProviderRows, Statuses
  <2> QED BY <1>1, <1>3, <2>1, ProviderTypes, EmitIInv DEF Cancelled, ProviderRows, Statuses
<1>4. CASE Ended(s)
  <2>1. [provider[s] EXCEPT !.status = "ended"] \in ProviderRows
    BY <1>1 DEF ProviderRows
  <2> QED BY <1>1, <1>4, <2>1, ProviderTypes, EmitIInv DEF Ended, ProviderRows, Statuses
<1>5. CASE PaymentOnly(s)
  BY <1>1, <1>5, ProviderTypes, EmitIInv DEF PaymentOnly
<1> QED BY <1>2, <1>3, <1>4, <1>5

\* A charge earns the plan the subscription is on from then on.
LEMMA ChargedIInv ==
    ASSUME IInv, NEW s \in Subs, Charged(s)
    PROVE  IInv'
<1>1. PICK p : p = IF provider[s].next = Free THEN provider[s].plan ELSE provider[s].next
  OBVIOUS
<1>2. PICK to : to = [status |-> "healthy", plan |-> p, next |-> Free, end |-> clock + Period]
  OBVIOUS
<1>3. /\ provider[s].status \in {"idle", "healthy", "failed"}
      /\ Emit(s, to, "healthy") /\ earned' = earned \cup {p}
  BY <1>1, <1>2 DEF Charged
<1>4. p \in Keys
  BY <1>1, ProviderTypes DEF ProviderRows
<1>5. to \in ProviderRows /\ to.end # NoTime
  BY <1>2, <1>4, ProviderTypes, TimeFacts, KeyFacts DEF ProviderRows, Statuses
<1>6. to.plan = provider[s].plan \/ provider[s].plan \in earned'
  BY <1>1, <1>2, <1>3, ProviderTypes
<1>7. earned' \subseteq Keys
  BY <1>3, <1>4, ProviderTypes
<1> QED BY <1>2, <1>3, <1>5, <1>6, <1>7, EmitIInv DEF Statuses

-----------------------------------------------------------------------------
(* The owner and the administrator.                                         *)

\* What a step of the caller may move, and what it then owes: the handlers and
\* the events are the others'.
LEMMA CallerStepIInv ==
    ASSUME IInv, UNCHANGED <<clock, eventVars, handler, sweep, events, moves>>,
           Kept, ProviderOK', RowOK', RowKept, CallerOK',
           OneCheckout' => RowBacked',
           OneCheckout' /\ PaidFor =>
              (/\ sub.periodEnd # NoTime => EverCharged(sub.ps)
               /\ plan \in earned \cup {Free}
               /\ caller.at = "admin" => caller.from \in earned \cup {Free}
               /\ \A r \in Requests : requests[r].to \in earned \cup {Free})'
    PROVE  IInv'
<1> USE DEF eventVars
<1>1. EventsKept /\ EventsBacked' /\ RecordOK' /\ SweepOK'
  BY EventsAlone, RecordsAlone DEF IInv, SweepOK
<1>2. HandlersOK'
  BY <1>1, HandlersAlone
<1>3. ASSUME OneCheckout' PROVE PaidFor'
  <2>1. PaidFor
    BY <1>3 DEF IInv, Kept
  <2> QED BY <1>3, <2>1, PeriodsAlone DEF PaidFor
<1> QED BY <1>1, <1>2, <1>3 DEF IInv

\* What the caller, the row and the instant are.
LEMMA CallerTypes ==
    ASSUME IInv
    PROVE  /\ caller \in CallerRows /\ caller.plan \in Keys /\ caller.from \in Keys
           /\ sub \in SubRows /\ sub.periodEnd \in Times /\ sub.ps \in Subs \cup {NoSub}
           /\ sub.ps = NoSub => sub = NoRow
           /\ clock \in 0 .. MaxTime /\ plan \in Keys
           /\ requests \in [Requests -> RequestRows]
           /\ NoSub \notin Subs
  BY BillingAssumption DEF IInv, CallerOK, RowOK, CallerRows, SubRows, BillingAssumption

\* A subscription that is created has not been charged.
LEMMA CreateCheckoutIInv ==
    ASSUME IInv, NEW s \in Subs, NEW p \in Plans, CreateCheckout(s, p)
    PROVE  IInv'
<1>1. PICK to : to = [provider[s] EXCEPT !.status = "idle", !.plan = p]
  OBVIOUS
<1>2. /\ ~Used(s) /\ provider' = [provider EXCEPT ![s] = to]
      /\ caller' = [IdleCaller EXCEPT !.at = "checkout", !.ps = s, !.plan = p]
      /\ UNCHANGED <<clock, rowVars, eventVars, handler, sweep, events, moves, earned>>
  BY <1>1, ProviderTypes DEF CreateCheckout, Used, IInv, ProviderOK
<1>3. to \in ProviderRows /\ to.plan = p /\ to.status = "idle" /\ p \in Keys
      /\ to.end = provider[s].end /\ to.next = provider[s].next
  BY <1>1, ProviderTypes DEF ProviderRows, Statuses, Keys
<1>4. to.end = NoTime /\ to.next = Free /\ ~EverCharged(s)
  BY <1>2, <1>3, ProviderTypes DEF EverCharged
<1>5. Kept /\ ProviderOK' /\ Used(s)' /\ Backed(p, s)'
  BY <1>2, <1>3, <1>4, ProviderTypes, ProviderMoves
<1>6. RowOK' /\ RowKept /\ (OneCheckout' => RowBacked')
  BY <1>2, <1>5, RowAlone DEF rowVars, IInv, RowOK
<1>7. caller' \in CallerRows /\ caller'.at = "checkout" /\ caller'.ps = s /\ caller'.plan = p
  BY <1>2, <1>3, EmptyRows DEF CallerRows
<1>8. CallerOK'
  BY <1>5, <1>7 DEF CallerOK
<1>9. PaidFor => (/\ sub.periodEnd # NoTime => EverCharged(sub.ps)
                  /\ plan \in earned \cup {Free}
                  /\ \A r \in Requests : requests[r].to \in earned \cup {Free})'
  BY <1>2, <1>5, PeriodsAlone, LabelsAlone DEF rowVars
<1> QED BY <1>2, <1>5, <1>6, <1>7, <1>8, <1>9, CallerStepIInv

\* The row takes the name of the new subscription and keeps its period.
LEMMA WriteCheckoutIInv == ASSUME IInv, WriteCheckout PROVE IInv'
<1>1. /\ caller.at = "checkout" /\ caller' = IdleCaller
      /\ sub' = [sub EXCEPT !.ps = caller.ps, !.planKey = caller.plan, !.status = "idle"]
      /\ UNCHANGED <<clock, eventVars, handler, sweep, moves, plan, requests,
                     providerVars, earned>>
  BY DEF WriteCheckout, Answer
<1>2. caller.ps \in Subs /\ Used(caller.ps) /\ Backed(caller.plan, caller.ps)
  BY <1>1 DEF IInv, CallerOK
<1>3. Kept /\ ProviderOK'
  BY <1>1, ProviderAlone DEF providerVars
<1>4. sub' \in SubRows /\ sub'.ps = caller.ps /\ sub'.planKey = caller.plan
      /\ sub'.periodEnd = sub.periodEnd
  BY <1>1, <1>2, CallerTypes DEF SubRows, Statuses
<1>5. RowOK' /\ RowKept /\ RowBacked'
  BY <1>1, <1>2, <1>3, <1>4, CallerTypes DEF RowOK, RowKept, RowBacked, Kept
<1>6. CallerOK'
  BY <1>1, EmptyRows DEF CallerOK
<1>7. ASSUME OneCheckout', PaidFor
      PROVE  (sub.periodEnd # NoTime => EverCharged(sub.ps))'
  <2>1. ASSUME sub.periodEnd # NoTime PROVE sub.ps = caller.ps
    <3>1. sub.ps \in Subs /\ EverCharged(sub.ps)
      BY <1>7, <2>1, PeriodOwned DEF PaidFor
    <3> QED BY <1>2, <1>3, <1>7, <3>1, ProviderTypes DEF Kept, OneCheckout, Used
  <2> QED BY <1>2, <1>3, <1>4, <1>7, <2>1 DEF PaidFor, Kept
<1> QED BY <1>1, <1>3, <1>5, <1>6, <1>7, EmptyRows, LabelsAlone, CallerStepIInv
        DEF providerVars

\* The steps that only the caller sees.
LEMMA CallerWaitsIInv ==
    ASSUME IInv, CallerOK',
           UNCHANGED <<clock, rowVars, eventVars, handler, sweep, providerVars, moves, earned>>,
           caller'.at = "admin" => caller'.from = plan
    PROVE  IInv'
<1> USE DEF rowVars, providerVars
<1>1. Kept /\ ProviderOK'
  BY ProviderAlone
<1>2. RowOK' /\ RowKept /\ (OneCheckout' => RowBacked')
  BY <1>1, RowAlone DEF IInv, RowOK
<1>3. PaidFor => (/\ sub.periodEnd # NoTime => EverCharged(sub.ps)
                  /\ plan \in earned \cup {Free}
                  /\ caller.at = "admin" => caller.from \in earned \cup {Free}
                  /\ \A r \in Requests : requests[r].to \in earned \cup {Free})'
  BY <1>1, PeriodsAlone, LabelsAlone DEF PaidFor
<1> QED BY <1>1, <1>2, <1>3, CallerStepIInv

\* A change is asked for on the subscription of the row.
LEMMA AskChangeIInv ==
    ASSUME IInv, NEW p \in Plans, NEW when \in {"now", "at_cycle_end"}, AskChange(p, when)
    PROVE  IInv'
<1>1. /\ sub.ps # NoSub
      /\ caller' = [IdleCaller EXCEPT !.at = "change", !.ps = sub.ps, !.plan = p, !.when = when]
      /\ UNCHANGED <<clock, rowVars, eventVars, handler, sweep, providerVars, moves, earned>>
  BY DEF AskChange
<1>2. caller' \in CallerRows /\ caller'.at = "change" /\ caller'.ps = sub.ps
  BY <1>1, CallerTypes, EmptyRows DEF CallerRows, Keys
<1>3. CallerOK'
  BY <1>1, <1>2, CallerTypes DEF CallerOK, rowVars
<1> QED BY <1>1, <1>2, <1>3, CallerWaitsIInv

\* The label a comp goes back to is the one of that moment, which is earned.
LEMMA AskAdminIInv == ASSUME IInv, NEW p \in Grants, AskAdmin(p) PROVE IInv'
<1>1. /\ caller' = [IdleCaller EXCEPT !.at = "admin", !.plan = p, !.from = plan]
      /\ UNCHANGED <<clock, rowVars, eventVars, handler, sweep, providerVars, moves, earned>>
  BY DEF AskAdmin
<1>2. p \in Keys
  BY BillingAssumption DEF BillingAssumption, Keys, Free
<1>3. caller' \in CallerRows /\ caller'.at = "admin" /\ caller'.from = plan
  BY <1>1, <1>2, CallerTypes, EmptyRows DEF CallerRows
<1>4. CallerOK'
  BY <1>3 DEF CallerOK
<1> QED BY <1>1, <1>3, <1>4, CallerWaitsIInv

\* A caller that stops leaves everything as it is.
LEMMA CallerStopsIInv == ASSUME IInv, CallerStops PROVE IInv'
<1>1. /\ caller' = IdleCaller
      /\ UNCHANGED <<clock, rowVars, eventVars, handler, sweep, providerVars, moves, earned>>
  BY DEF CallerStops, Answer
<1>2. CallerOK'
  BY <1>1, EmptyRows DEF CallerOK
<1> QED BY <1>1, <1>2, EmptyRows, CallerWaitsIInv

\* The provider changes only what it charges: the plan it leaves was earned, and
\* the one it moves to is from now on.
LEMMA ProviderChangesIInv == ASSUME IInv, ProviderChanges PROVE IInv'
<1>1. PICK s, p : s = caller.ps /\ p = caller.plan
  OBVIOUS
<1>2. PICK to : to = IF caller.when = "now" THEN [provider[s] EXCEPT !.plan = p, !.next = Free]
                                           ELSE [provider[s] EXCEPT !.next = p]
  OBVIOUS
<1>3. /\ caller.at = "change" /\ provider[s].status = "healthy"
      /\ provider' = [provider EXCEPT ![s] = to]
      /\ earned' = earned \cup (IF caller.when = "now" THEN {p} ELSE {})
      /\ caller' = [IdleCaller EXCEPT !.at = "changed", !.plan = p]
      /\ UNCHANGED <<clock, rowVars, eventVars, handler, sweep, events, moves>>
  <2>1. s \in Subs /\ provider \in [Subs -> ProviderRows]
    BY <1>1 DEF ProviderChanges, IInv, CallerOK, ProviderOK
  <2> QED BY <1>1, <1>2, <2>1 DEF ProviderChanges
<1>4. s \in Subs /\ sub.ps # NoSub /\ p \in Keys
  BY <1>1, <1>3, CallerTypes DEF IInv, CallerOK
<1>5. /\ EverCharged(s) /\ Used(s) /\ provider[s].plan \in earned
      /\ provider[s] \in ProviderRows /\ earned \subseteq Keys
  BY <1>3, <1>4, ProviderTypes
<1>6. /\ to \in ProviderRows /\ to.status = "healthy" /\ to.end # NoTime
      /\ to.plan \in earned'
  BY <1>2, <1>3, <1>4, <1>5, KeyFacts DEF ProviderRows, EverCharged
<1>7. earned \subseteq earned' /\ earned' \subseteq Keys
  BY <1>3, <1>4, <1>5
<1>8. Kept /\ ProviderOK'
  BY <1>3, <1>4, <1>5, <1>6, <1>7, ProviderMoves
<1>9. RowOK' /\ RowKept /\ (OneCheckout' => RowBacked')
  BY <1>3, <1>8, RowAlone DEF rowVars, IInv, RowOK
<1>10. caller' \in CallerRows /\ caller'.at = "changed"
  BY <1>3, <1>4, EmptyRows DEF CallerRows
<1>11. CallerOK'
  BY <1>3, <1>4, <1>9, <1>10 DEF CallerOK, RowKept
<1>12. PaidFor => (/\ sub.periodEnd # NoTime => EverCharged(sub.ps)
                   /\ plan \in earned \cup {Free}
                   /\ \A r \in Requests : requests[r].to \in earned \cup {Free})'
  BY <1>3, <1>8, PeriodsAlone, LabelsAlone DEF rowVars
<1> QED BY <1>3, <1>8, <1>9, <1>10, <1>11, <1>12, CallerStepIInv

\* The change is recorded as pending, which nothing of the invariant reads.
LEMMA WriteChangeIInv == ASSUME IInv, WriteChange PROVE IInv'
<1>1. /\ caller.at = "changed" /\ caller' = IdleCaller
      /\ sub' = [sub EXCEPT !.pending = caller.plan]
      /\ UNCHANGED <<clock, eventVars, handler, sweep, moves, plan, requests,
                     providerVars, earned>>
  BY DEF WriteChange, Answer
<1>2. sub.ps # NoSub
  BY <1>1 DEF IInv, CallerOK
<1>3. Kept /\ ProviderOK'
  BY <1>1, ProviderAlone DEF providerVars
<1>4. sub' \in SubRows /\ sub'.ps = sub.ps /\ sub'.planKey = sub.planKey
      /\ sub'.periodEnd = sub.periodEnd
  BY <1>1, CallerTypes DEF SubRows
<1>5. RowOK' /\ RowKept
  BY <1>1, <1>2, <1>4, CallerTypes DEF RowOK, RowKept
<1>6. OneCheckout' => RowBacked'
  BY <1>3, <1>4 DEF IInv, RowBacked, Kept
<1>7. CallerOK'
  BY <1>1, EmptyRows DEF CallerOK
<1>8. PaidFor => (sub.periodEnd # NoTime => EverCharged(sub.ps))'
  BY <1>3, <1>4, PeriodOwned DEF PaidFor, Kept
<1> QED BY <1>1, <1>3, <1>5, <1>6, <1>7, <1>8, EmptyRows, LabelsAlone, CallerStepIInv
        DEF providerVars

\* A new request goes back or on to one plan; the one it replaces is spent.
LEMMA ScheduleFacts ==
    ASSUME IInv, NEW kind \in {"comp_revert", "period_end"}, NEW to \in Keys,
           NEW due \in Times, Schedule(kind, to, due)
    PROVE  /\ requests' \in [Requests -> RequestRows]
           /\ \A r \in Requests : requests'[r].to \in {to, Free, requests[r].to}
<1>1. PICK new : new = [state |-> "pending", kind |-> kind, to |-> to, due |-> due]
  OBVIOUS
<1>2. new \in RequestRows /\ new.to = to
  BY <1>1 DEF RequestRows
<1>3. requests' = [r \in Requests |-> requests'[r]]
  BY DEF Schedule
<1>4. \A r \in Requests : requests'[r] \in {new, Spent, requests[r]}
  BY <1>1 DEF Schedule
<1>5. requests \in [Requests -> RequestRows]
  BY CallerTypes
<1>6. \A r \in Requests : requests'[r] \in RequestRows
  BY <1>2, <1>4, <1>5, EmptyRows
<1> QED BY <1>2, <1>3, <1>4, <1>6, EmptyRows

\* What an administrator writes is granted by that.
LEMMA GrantIInv ==
    ASSUME IInv, caller.at = "admin", Grant, Answer, UNCHANGED <<sub, providerVars>>,
           plan' \in {plan, caller.plan},
           requests' \in [Requests -> RequestRows],
           \A r \in Requests : requests'[r].to \in {caller.plan, caller.from, Free, requests[r].to}
    PROVE  IInv'
<1> USE DEF Grant, Answer, providerVars
<1>1. Kept
  BY DEF Kept, OneCheckout, Used, EverCharged, Backed
<1>2. earned' = earned \cup {caller.plan} /\ earned' \subseteq Keys
  BY CallerTypes DEF IInv, ProviderOK
<1>3. ProviderOK'
  <2>1. provider \in [Subs -> ProviderRows]
    BY DEF IInv, ProviderOK
  <2>2. \A s \in Subs :
          /\ EverCharged(s) => Used(s) /\ provider[s].plan \in earned
          /\ ~EverCharged(s) => /\ provider[s].status \notin {"healthy", "failed"}
                                /\ provider[s].next = Free
    BY DEF IInv, ProviderOK
  <2> QED BY <1>2, <2>1, <2>2 DEF ProviderOK, EverCharged, Used
<1>4. RowOK' /\ RowKept /\ (OneCheckout' => RowBacked')
  BY <1>1, CallerTypes, RowAlone DEF RowOK
<1>5. CallerOK' /\ caller'.at = "idle"
  BY EmptyRows DEF CallerOK
<1>6. PaidFor => (/\ sub.periodEnd # NoTime => EverCharged(sub.ps)
                  /\ plan \in earned \cup {Free}
                  /\ \A r \in Requests : requests[r].to \in earned \cup {Free})'
  <2> SUFFICES ASSUME PaidFor
               PROVE  (/\ sub.periodEnd # NoTime => EverCharged(sub.ps)
                       /\ plan \in earned \cup {Free}
                       /\ \A r \in Requests : requests[r].to \in earned \cup {Free})'
    OBVIOUS
  <2>1. /\ plan \in earned \cup {Free} /\ caller.from \in earned \cup {Free}
        /\ \A r \in Requests : requests[r].to \in earned \cup {Free}
    BY DEF PaidFor
  <2> QED BY <1>1, <1>2, <2>1, PeriodsAlone
<1> QED BY <1>1, <1>3, <1>4, <1>5, <1>6, CallerStepIInv

\* A comp moves the label, and may bring the old one back.
LEMMA ApplyCompIInv == ASSUME IInv, NEW dated \in BOOLEAN, ApplyComp(dated) PROVE IInv'
<1>1. /\ caller.at = "admin" /\ plan' = caller.plan
      /\ Grant /\ Answer /\ UNCHANGED <<sub, providerVars>>
  BY DEF ApplyComp
<1>2. /\ requests' \in [Requests -> RequestRows]
      /\ \A r \in Requests : requests'[r].to \in {caller.plan, caller.from, Free, requests[r].to}
  <2>1. CASE dated
    <3>1. Schedule("comp_revert", caller.from, clock + Period)
      BY <2>1 DEF ApplyComp
    <3>2. clock + Period \in Times /\ caller.from \in Keys
      BY CallerTypes, TimeFacts
    <3> QED BY <3>1, <3>2, ScheduleFacts
  <2>2. CASE ~dated
    BY <2>2, CallerTypes DEF ApplyComp
  <2> QED BY <2>1, <2>2
<1> QED BY <1>1, <1>2, GrantIInv

\* A scheduled change brings a granted label later.
LEMMA SchedulePeriodEndIInv == ASSUME IInv, SchedulePeriodEnd PROVE IInv'
<1>1. PICK due : due = IF sub.periodEnd > clock THEN sub.periodEnd ELSE clock + Period
  OBVIOUS
<1>2. /\ caller.at = "admin" /\ Schedule("period_end", caller.plan, due)
      /\ Grant /\ Answer /\ UNCHANGED <<sub, plan, providerVars>>
  BY <1>1 DEF SchedulePeriodEnd
<1>3. due \in Times /\ caller.plan \in Keys
  BY <1>1, CallerTypes, TimeFacts
<1>4. /\ requests' \in [Requests -> RequestRows]
      /\ \A r \in Requests : requests'[r].to \in {caller.plan, Free, requests[r].to}
  BY <1>2, <1>3, ScheduleFacts
<1> QED BY <1>2, <1>4, GrantIInv

-----------------------------------------------------------------------------
(* The sweep and the clock.                                                 *)

\* The sweep moves the label to a plan that a request was to go to.
LEMMA SweepStepIInv ==
    ASSUME IInv,
           UNCHANGED <<clock, sub, eventVars, handler, caller, providerVars, moves, earned>>,
           SweepOK', requests' \in [Requests -> RequestRows],
           \A r \in Requests : requests'[r].to \in {Free, requests[r].to},
           plan' = plan \/ \E r \in Requests : plan' = requests[r].to
    PROVE  IInv'
<1> USE DEF eventVars, providerVars
<1>1. Kept /\ ProviderOK'
  BY ProviderAlone
<1>2. EventsKept /\ EventsBacked' /\ RowKept /\ (OneCheckout' => RowBacked') /\ RecordOK'
  BY <1>1, EventsAlone, RowAlone, RecordsAlone
<1>3. HandlersOK' /\ CallerOK'
  BY <1>1, <1>2, HandlersAlone, CallerAlone
<1>4. plan' \in Keys
  BY CallerTypes DEF RequestRows
<1>5. RowOK'
  BY <1>4, CallerTypes DEF RowOK
<1>6. ASSUME OneCheckout' PROVE PaidFor'
  <2>1. PaidFor
    BY <1>1, <1>6 DEF IInv, Kept
  <2>2. /\ plan' \in earned' \cup {Free}
        /\ \A r \in Requests : requests'[r].to \in earned' \cup {Free}
    BY <2>1 DEF PaidFor
  <2> QED BY <1>1, <2>1, <2>2, PeriodsAlone, LabelsAlone DEF PaidFor
<1> QED BY <1>1, <1>2, <1>3, <1>5, <1>6 DEF IInv

\* Selecting, checking and dying move only what the sweep holds.
LEMMA SweepReadsIInv ==
    ASSUME IInv, SelectDue \/ CheckLive \/ SweepDies
    PROVE  IInv'
<1>1. UNCHANGED <<clock, rowVars, eventVars, handler, caller, providerVars, moves, earned>>
  BY DEF SelectDue, CheckLive, SweepDies
<1>2. SweepOK'
  <2>1. SweepOK
    BY DEF IInv
  <2>2. CASE SelectDue
    BY <2>2 DEF SelectDue, SweepOK
  <2>3. CASE CheckLive
    BY <2>1, <2>3 DEF CheckLive, SweepOK, Live
  <2>4. CASE SweepDies
    BY <2>4 DEF SweepDies, SweepOK, IdleSweep
  <2> QED BY <2>2, <2>3, <2>4
<1> QED BY <1>1, <1>2, CallerTypes, SweepStepIInv DEF rowVars

\* A claim spends the request and moves the label to its target, or not.
LEMMA ClaimDueIInv == ASSUME IInv, NEW r \in Requests, ClaimDue(r) PROVE IInv'
<1>1. UNCHANGED <<clock, sub, eventVars, handler, caller, providerVars, moves, earned>>
  BY DEF ClaimDue
<1>2. SweepOK'
  <2>1. SweepOK
    BY DEF IInv
  <2>2. IdleSweep \in [at : {"idle", "check", "claim"}, batch : SUBSET Requests,
                       live : BOOLEAN]
    BY DEF IdleSweep
  <2>3. [sweep EXCEPT !.at = "check", !.batch = @ \ {r}, !.live = FALSE]
            \in [at : {"idle", "check", "claim"}, batch : SUBSET Requests, live : BOOLEAN]
    BY <2>1 DEF SweepOK
  <2> QED BY <2>2, <2>3 DEF SweepOK, ClaimDue
<1>3. requests \in [Requests -> RequestRows]
  BY CallerTypes
<1>4. CASE requests[r].state = "pending"
  <2>1. requests' = [requests EXCEPT ![r] = Spent] /\ plan' \in {plan, requests[r].to}
    BY <1>4 DEF ClaimDue
  <2> QED BY <1>1, <1>2, <1>3, <2>1, EmptyRows, SweepStepIInv
<1>5. CASE requests[r].state # "pending"
  BY <1>1, <1>2, <1>3, <1>5, SweepStepIInv DEF ClaimDue
<1> QED BY <1>4, <1>5

\* Nothing of the invariant but its type depends on the time.
LEMMA TickIInv == ASSUME IInv, Tick PROVE IInv'
<1> USE DEF Tick, rowVars, eventVars, providerVars
<1>1. Kept /\ ProviderOK'
  BY ProviderAlone
<1>2. EventsKept /\ EventsBacked' /\ RowKept /\ (OneCheckout' => RowBacked') /\ RecordOK'
  BY <1>1, EventsAlone, RowAlone, RecordsAlone
<1>3. HandlersOK' /\ CallerOK'
  BY <1>1, <1>2, HandlersAlone, CallerAlone
<1>4. clock' \in 0 .. MaxTime
  BY CallerTypes, BillingAssumption DEF BillingAssumption
<1>5. RowOK' /\ SweepOK'
  BY <1>4, CallerTypes DEF IInv, RowOK, SweepOK
<1>6. ASSUME OneCheckout' PROVE PaidFor'
  <2>1. PaidFor
    BY <1>1, <1>6 DEF IInv, Kept
  <2> QED BY <1>1, <2>1, PeriodsAlone, LabelsAlone DEF PaidFor
<1> QED BY <1>1, <1>2, <1>3, <1>5, <1>6 DEF IInv

-----------------------------------------------------------------------------
(* The invariant, and what follows from it.                                 *)

\* A step of somebody else.
LEMMA StutterIInv == ASSUME IInv, UNCHANGED vars PROVE IInv'
<1> USE DEF vars, rowVars, eventVars, providerVars
<1>1. Kept /\ ProviderOK'
  BY ProviderAlone
<1>2. HandlersOK'
  BY <1>1, HandlersAlone, EventsAlone, RowAlone
<1>3. SweepOK'
  BY DEF IInv, SweepOK
<1> QED BY <1>1, <1>2, <1>3, CallerTypes, LabelsAlone, SweepStepIInv

\* Every step keeps the invariant.
LEMMA NextIInv == ASSUME IInv, [BillingNext]_vars PROVE IInv'
<1>1. CASE \E h \in Handlers, e \in 1 .. MaxEvents : ReadSub(h, e)
  BY <1>1, ReadSubIInv
<1>2. CASE \E h \in Handlers : Webhook(h) \/ HandlerDies(h)
  BY <1>2, RecordEventIInv, MovePlanIInv, MarkProcessedIInv, HandlerDiesIInv DEF Webhook
<1>3. CASE \E s \in Subs, p \in Offers : CreateCheckout(s, p)
  BY <1>3, CreateCheckoutIInv, BillingAssumption DEF BillingAssumption
<1>4. CASE \E p \in Plans, when \in {"now", "at_cycle_end"} : AskChange(p, when)
  BY <1>4, AskChangeIInv
<1>5. CASE WriteCheckout \/ ProviderChanges \/ WriteChange \/ SchedulePeriodEnd \/ CallerStops
  BY <1>5, WriteCheckoutIInv, ProviderChangesIInv, WriteChangeIInv, SchedulePeriodEndIInv,
     CallerStopsIInv
<1>6. CASE (\E p \in Grants : AskAdmin(p)) \/ \E dated \in BOOLEAN : ApplyComp(dated)
  BY <1>6, AskAdminIInv, ApplyCompIInv
<1>7. CASE SelectDue \/ CheckLive \/ SweepDies \/ \E r \in Requests : ClaimDue(r)
  BY <1>7, SweepReadsIInv, ClaimDueIInv
<1>8. CASE \E s \in Subs : Charged(s) \/ Failed(s) \/ Cancelled(s) \/ Ended(s) \/ PaymentOnly(s)
  BY <1>8, ChargedIInv, ReportIInv
<1>9. CASE Tick \/ UNCHANGED vars
  BY <1>9, TickIInv, StutterIInv
<1> QED BY <1>1, <1>2, <1>3, <1>4, <1>5, <1>6, <1>7, <1>8, <1>9 DEF BillingNext

\* The inductive invariant holds in every reachable state.
THEOREM InductiveInvariant == BillingSpec => []IInv
<1>1. BillingInit => IInv
  BY InitIInv
<1>2. IInv /\ [BillingNext]_vars => IInv'
  BY NextIInv
<1> QED BY <1>1, <1>2, PTL DEF BillingSpec

\* Type correctness; a workspace without a subscriptions row has nothing in it,
\* whatever the webhooks say.
THEOREM TypesAlways == BillingSpec => []BillingTypeOK
<1>1. ASSUME IInv PROVE BillingTypeOK
  <2>1. Len(events) <= MaxEvents /\ \A e \in Emitted : events[e] \in EventRows
    BY <1>1, EventTypes DEF IInv, RecordOK
  <2>2. handler \in [Handlers -> [at : {"idle", "record", "move", "mark"},
                        event : Emitted \cup {0}, sub : SubRows, now : Times]]
    <3>1. handler \in [Handlers -> HandlerRows]
      BY <1>1 DEF IInv, HandlersOK
    <3>2. \A h \in Handlers : handler[h].event \in Emitted \cup {0}
      BY <1>1 DEF IInv, HandlersOK, HandlerOK
    <3> QED BY <3>1, <3>2 DEF HandlerRows
  <2>3. moves \in [1 .. MaxEvents -> Nat]
    BY <1>1 DEF IInv, RecordOK
  <2>4. provider \in [Subs -> ProviderRows] /\ earned \subseteq Keys
    BY <1>1 DEF IInv, ProviderOK
  <2>5. caller \in CallerRows
    BY <1>1 DEF IInv, CallerOK
  <2> QED BY <1>1, <2>1, <2>2, <2>3, <2>4, <2>5
          DEF BillingTypeOK, IInv, RowOK, SweepOK, RecordOK, RequestRows, ProviderRows, CallerRows
<1> QED BY <1>1, InductiveInvariant, PTL

\* billing.service.ts:548 "Idempotent on the provider event id": however often an
\* event is delivered, and to however many requests at once, it moves the plan at
\* most once.
THEOREM MovedOnceAlways == BillingSpec => []MovedOnce
<1>1. ASSUME IInv PROVE MovedOnce
  BY <1>1 DEF IInv, RecordOK, MovedOnce
<1> QED BY <1>1, InductiveInvariant, PTL

\* billing.service.ts:712 the mark comes last: an event that has one and a
\* lifecycle meaning has moved the plan, wherever its requests died.
THEOREM ProcessedMeansMovedAlways == BillingSpec => []ProcessedMeansMoved
<1>1. ASSUME IInv PROVE ProcessedMeansMoved
  BY <1>1 DEF IInv, RecordOK
<1> QED BY <1>1, InductiveInvariant, PTL

\* billing.service.ts:528-534: for any plans, any number of requests and any
\* overlap of webhooks, changes, comps and sweeps, a workspace that has checked
\* out once is on Free or on a plan that was charged, trialled or granted.
THEOREM PaidPlanIsEarnedAlways == BillingSpec => []PaidPlanIsEarned
<1>1. ASSUME IInv PROVE PaidPlanIsEarned
  BY <1>1 DEF IInv, PaidFor, PaidPlanIsEarned
<1> QED BY <1>1, InductiveInvariant, PTL

\* billing.service.ts:548: no step moves the plan for an event that has moved it,
\* is marked, or is not yet recorded; what moves it is one request at a time.
THEOREM MovesFollowTheRecord ==
    BillingSpec => [][\A e \in 1 .. MaxEvents : moves'[e] # moves[e] =>
                        moves[e] = 0 /\ moves'[e] = 1 /\ e \in recorded]_vars
<1>1. ASSUME IInv, [BillingNext]_vars, NEW e \in 1 .. MaxEvents, moves'[e] # moves[e]
      PROVE  moves[e] = 0 /\ moves'[e] = 1 /\ e \in recorded
  <2>1. IInv'
    BY <1>1, NextIInv
  <2>2. moves[e] = 0 \/ moves[e] = 1
    BY <1>1 DEF IInv, RecordOK
  <2>3. PICK h \in Handlers : MovePlan(h)
    BY <1>1 DEF BillingNext, vars, ReadSub, Webhook, RecordEvent, MarkProcessed, HandlerDies,
       CreateCheckout, WriteCheckout, AskChange, ProviderChanges, WriteChange, AskAdmin,
       ApplyComp, SchedulePeriodEnd, CallerStops, Answer, SelectDue, CheckLive, SweepDies,
       ClaimDue, Charged, Failed, Cancelled, Ended, PaymentOnly, Emit, Tick
  <2>4. handler[h].event = e /\ HandlerOK(h)
    BY <1>1, <2>3 DEF MovePlan, IInv, HandlersOK, RecordOK
  <2>5. moves[e] = 0 /\ e \in recorded
    BY <2>3, <2>4 DEF MovePlan, HandlerOK
  <2> QED BY <1>1, <2>3, <2>4, <2>5 DEF MovePlan, IInv, RecordOK
<1>2. IInv /\ [BillingNext]_vars =>
        [\A e \in 1 .. MaxEvents : moves'[e] # moves[e] =>
            moves[e] = 0 /\ moves'[e] = 1 /\ e \in recorded]_vars
  BY <1>1
<1> QED BY <1>2, InductiveInvariant, PTL DEF BillingSpec
=============================================================================
