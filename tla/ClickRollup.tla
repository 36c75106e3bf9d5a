---------------------------- MODULE ClickRollup ----------------------------
(***************************************************************************)
(* A click, from the redirect's click-limit gate to the numbers of the     *)
(* dashboards: click-reservation.ts, main.ts, click-sink.ts of the         *)
(* redirect, lambda.ts drainClickBatch and rollup.ts rollupClicks of the   *)
(* worker.                                                                 *)
(*                                                                         *)
(* A rollup is one READ COMMITTED transaction: what it writes is applied   *)
(* by its Commit, what it reads is read at the step that reads it, and the *)
(* rows it has written are locked for the others until it ends.            *)
(***************************************************************************)
EXTENDS Integers, FiniteSets, FiniteSetsExt

CONSTANTS
    Clicks,         \* requests to a short link
    Links, Visitors,
    LinkOf,         \* LinkOf[c]: the link that c asks for
    VisitorOf,      \* VisitorOf[c]: its visitor hash (of that link and day)
    Limit,          \* Limit[l]: its clickLimit, or NoLimit
    NoLimit,
    Rollups,        \* rollups that may run at the same time
    BatchSize,
    MaxReceive,     \* maxReceiveCount of the click queue
    MaxDay          \* bound: how many days pass

ASSUME ClickRollupAssumption ==
    /\ IsFiniteSet(Clicks) /\ IsFiniteSet(Links)
    /\ LinkOf \in [Clicks -> Links]
    /\ VisitorOf \in [Clicks -> Visitors]
    /\ VisitorOf \in [Clicks -> Visitors]
    /\ Limit \in [Links -> Nat \cup {NoLimit}]
    /\ NoLimit \notin Nat
    /\ BatchSize \in Nat \ {0}
    /\ MaxReceive \in Nat \ {0}
    /\ MaxDay \in Nat \ {0}

Days == 1 .. MaxDay
Keys == Links \X Days
\* The k-th delivery of a click inserts a row of its own: the id is the
\* server's uuidv7(), not the message's.
Rows == Clicks \X (1 .. MaxReceive)

VARIABLES
    profile,    \* "postgres", or "aws": SQS sink and no database in the redirect
    today,
    stage,      \* stage[c]: where the click is
    day,        \* day[c]: the day of its occurredAt
    kind,       \* kind[c]: refused, or let through, to a bot or not
    receives,   \* receives[c]: deliveries so far
    row,        \* row[r]: the row of click_events
    reserved,   \* link_counters.reserved
    counters,   \* link_counters.clicks (unique_clicks is summed with it)
    daily,      \* click_daily (breakdown_daily is added to like it)
    sketch,     \* click_daily_uniques, as the set of visitors added to it
    tx          \* tx[w]: the transaction of rollup w

pathVars == <<profile, today, stage, day, kind, receives, reserved>>
rollVars == <<counters, daily, sketch, tx>>
clickVars == <<profile, today, stage, day, kind, receives, reserved,
               row, counters, daily, sketch, tx>>

Stages == {"none", "gated", "queued", "inflight", "stored", "done", "dead", "lost"}
Steps == {"idle", "claimed", "added", "summed", "written"}
NoTx == [step |-> "idle", batch |-> {}, merged |-> <<>>, sums |-> <<>>]

ClickInit ==
    /\ profile \in {"postgres", "aws"}
    /\ today = 1
    /\ stage = [c \in Clicks |-> "none"]
    /\ day = [c \in Clicks |-> 0]
    /\ kind = [c \in Clicks |-> "click"]
    /\ receives = [c \in Clicks |-> 0]
    /\ row = [r \in Rows |-> "absent"]
    /\ reserved = [l \in Links |-> 0]
    /\ counters = [l \in Links |-> 0]
    /\ daily = [k \in Keys |-> [clicks |-> 0, blocked |-> 0]]
    /\ sketch = [k \in Keys |-> {}]
    /\ tx = [w \in Rollups |-> NoTx]

-----------------------------------------------------------------------------
(* The redirect.                                                           *)

\* The upsert of a rollup holds the row of link_counters until it commits.
CounterLocked(l) == \E w \in Rollups : tx[w].step = "written" /\ l \in DOMAIN tx[w].sums

Verdict(c, refused) ==
    /\ stage[c] = "none"
    /\ stage' = [stage EXCEPT ![c] = "gated"]
    /\ \E k \in IF refused THEN {"blocked"} ELSE {"click", "bot"} :
          kind' = [kind EXCEPT ![c] = k]
    /\ UNCHANGED <<profile, today, day, receives, row>> /\ UNCHANGED rollVars

\* A link with no limit never touches the counter; it may be refused for
\* another reason (expired, flagged, archived), and then no limited one does.
GateOther(c, refused) ==
    /\ Limit[LinkOf[c]] # NoLimit => refused
    /\ Verdict(c, refused)
    /\ UNCHANGED reserved

Reserve_Inclusive(c) ==         \* mutant: reserved <= limit
    LET l == LinkOf[c] IN
    /\ profile = "postgres" /\ Limit[l] # NoLimit /\ ~CounterLocked(l)
    /\ reserved' = [reserved EXCEPT ![l] = IF @ <= Limit[l] THEN @ + 1 ELSE @]
    /\ Verdict(c, reserved' = reserved)

\* reserve(): one upsert, whose verdict replaces the one of the rollup's count.
Reserve(c) ==
    LET l == LinkOf[c] IN
    /\ profile = "postgres" /\ Limit[l] # NoLimit /\ ~CounterLocked(l)
    /\ reserved' = [reserved EXCEPT ![l] = IF @ < Limit[l] THEN @ + 1 ELSE @]
    /\ Verdict(c, reserved' = reserved)

\* NoopClickReservation: the verdict of the count that was projected and cached
\* some time ago stands.
GateByCount(c, seen) ==
    LET l == LinkOf[c] IN
    /\ profile = "aws" /\ Limit[l] # NoLimit
    /\ seen \in 0 .. counters[l]
    /\ Verdict(c, seen >= Limit[l])
    /\ UNCHANGED reserved

Record_LocalDay(c) ==           \* mutant: the day is taken east of Greenwich
    /\ stage[c] = "gated"
    /\ day' = [day EXCEPT ![c] = today + 1]
    /\ stage' = [stage EXCEPT ![c] = "inflight"]
    /\ receives' = [receives EXCEPT ![c] = 1]
    /\ UNCHANGED <<profile, today, kind, reserved, row>> /\ UNCHANGED rollVars
\* record(): the click is sent to the queue, or its insert begins.
Record(c) ==
    /\ stage[c] = "gated"
    /\ day' = [day EXCEPT ![c] = today]
    /\ IF profile = "aws"
       THEN stage' = [stage EXCEPT ![c] = "queued"] /\ UNCHANGED receives
       ELSE /\ stage' = [stage EXCEPT ![c] = "inflight"]
            /\ receives' = [receives EXCEPT ![c] = 1]
    /\ UNCHANGED <<profile, today, kind, reserved, row>> /\ UNCHANGED rollVars

\* The visitor is bounced to the password page, or the write fails: record()
\* swallows the error and the click is gone, its reservation spent.
Forget(c) ==
    /\ stage[c] = "gated" \/ (stage[c] = "inflight" /\ profile = "postgres")
    /\ stage' = [stage EXCEPT ![c] = "lost"]
    /\ UNCHANGED <<profile, today, day, kind, receives, reserved, row>>
    /\ UNCHANGED rollVars

-----------------------------------------------------------------------------
(* The click queue (external) and its consumer.                            *)

Receive_Restamp(c) ==           \* mutant: occurredAt is taken when it is handled
    /\ stage[c] = "queued"
    /\ stage' = [stage EXCEPT ![c] = "inflight"]
    /\ receives' = [receives EXCEPT ![c] = @ + 1]
    /\ day' = [day EXCEPT ![c] = today]
    /\ UNCHANGED <<profile, today, kind, reserved, row>> /\ UNCHANGED rollVars
Receive(c) ==
    /\ stage[c] = "queued"
    /\ stage' = [stage EXCEPT ![c] = "inflight"]
    /\ receives' = [receives EXCEPT ![c] = @ + 1]
    /\ UNCHANGED <<profile, today, day, kind, reserved, row>> /\ UNCHANGED rollVars

\* insertClickEvents, by the redirect or by drainClickBatch.
Store(c) ==
    /\ stage[c] = "inflight"
    /\ row' = [row EXCEPT ![<<c, receives[c]>>] = "pending"]
    /\ stage' = [stage EXCEPT ![c] = IF profile = "aws" THEN "stored" ELSE "done"]
    /\ UNCHANGED <<profile, today, day, kind, receives, reserved>>
    /\ UNCHANGED rollVars

\* The invocation returned and did not report the message: SQS deletes it.
Acknowledge_Early(c) ==         \* mutant: a failed insert is not reported
    /\ profile = "aws" /\ stage[c] \in {"inflight", "stored"}
    /\ stage' = [stage EXCEPT ![c] = "done"]
    /\ UNCHANGED <<profile, today, day, kind, receives, reserved, row>>
    /\ UNCHANGED rollVars
Acknowledge(c) ==
    /\ stage[c] = "stored"
    /\ stage' = [stage EXCEPT ![c] = "done"]
    /\ UNCHANGED <<profile, today, day, kind, receives, reserved, row>>
    /\ UNCHANGED rollVars

\* The insert failed and was reported, the invocation died, or it died after
\* the insert: the message comes back until it has been received MaxReceive times.
Redrive(c) ==
    /\ profile = "aws" /\ stage[c] \in {"inflight", "stored"}
    /\ stage' = [stage EXCEPT ![c] = IF receives[c] < MaxReceive THEN "queued" ELSE "dead"]
    /\ UNCHANGED <<profile, today, day, kind, receives, reserved, row>>
    /\ UNCHANGED rollVars

-----------------------------------------------------------------------------
(* rollupClicks.                                                           *)

KeyOf(r) == <<LinkOf[r[1]], day[r[1]]>>
Touched(B) == {KeyOf(r) : r \in B}
HowMany(B, k, which) == Cardinality({r \in B : KeyOf(r) = k /\ kind[r[1]] = which})
VisitorsIn(B, k) == {VisitorOf[r[1]] : r \in {s \in B : KeyOf(s) = k /\ kind[s[1]] = "click"}}

InBatch(w, r) == r \in tx[w].batch
Pending == {r \in Rows : row[r] = "pending"}
Free_AnyRow == Pending          \* mutant: the claim does not skip locked rows
Free == {r \in Pending : \A w \in Rollups : ~InBatch(w, r)}

\* order by occurred_at limit N for update skip locked
Claimable(B) ==
    /\ Cardinality(B) = (IF Cardinality(Free) < BatchSize THEN Cardinality(Free) ELSE BatchSize)
    /\ \A r \in B, s \in Free \ B : day[r[1]] <= day[s[1]]

Advance(w, update) ==
    /\ tx' = [tx EXCEPT ![w] = update]
    /\ UNCHANGED pathVars /\ UNCHANGED <<row, counters, daily, sketch>>

Claim(w, B) ==
    /\ tx[w].step = "idle"
    /\ B # {} /\ B \subseteq Free /\ Claimable(B)
    /\ Advance(w, [NoTx EXCEPT !.step = "claimed", !.batch = B])

Holds(w, k) == tx[w].step \notin {"idle", "claimed"} /\ k \in Touched(tx[w].batch)

Merged_Overwrite(B, k) == VisitorsIn(B, k)  \* mutant: the stored sketch is not merged in
\* insert if absent, select for update, merge register by register
Merged(B, k) == sketch[k] \cup VisitorsIn(B, k)

\* The additive upsert of click_daily waits for whoever has written the same row;
\* once it has the row nobody else gets to the sketch of that key, so the merge
\* of the sketches is part of the step.
AddDaily(w) ==
    LET B == tx[w].batch IN
    /\ tx[w].step = "claimed"
    /\ \A v \in Rollups \ {w}, k \in Touched(B) : ~Holds(v, k)
    /\ Advance(w, [tx[w] EXCEPT !.step = "added",
                                !.merged = [k \in Touched(B) |-> Merged(B, k)]])

DailyTotal(l) == SumFunction([d \in Days |-> daily[<<l, d>>].clicks])
OwnTotal_All(w, l) ==           \* mutant: bots and refused clicks are summed too
    Cardinality({r \in tx[w].batch : LinkOf[r[1]] = l})
OwnTotal(w, l) == SumFunction([d \in Days |-> HowMany(tx[w].batch, <<l, d>>, "click")])
LinksIn(w) == {k[1] : k \in Touched(tx[w].batch)}

\* sum(clicks) over click_daily, as the statement's snapshot shows it: what is
\* committed, and what this transaction has added itself.
SumCounters(w) ==
    /\ tx[w].step = "added"
    /\ Advance(w, [tx[w] EXCEPT !.step = "summed",
          !.sums = [l \in LinksIn(w) |-> DailyTotal(l) + OwnTotal(w, l)]])

\* ... on conflict do update set clicks = excluded.clicks: it waits for the row,
\* and then writes the sum it had.
WriteCounters(w) ==
    /\ tx[w].step = "summed"
    /\ \A l \in LinksIn(w) : ~CounterLocked(l)
    /\ Advance(w, [tx[w] EXCEPT !.step = "written"])

Added(B) ==
    [k \in Keys |-> [clicks |-> daily[k].clicks + HowMany(B, k, "click"),
                     blocked |-> daily[k].blocked + HowMany(B, k, "blocked")]]

Overwritten(old, new) == [x \in DOMAIN old |-> IF x \in DOMAIN new THEN new[x] ELSE old[x]]

\* set rolled_up_at = now(), and commit.
Commit(w) ==
    /\ tx[w].step = "written"
    /\ row' = [r \in Rows |-> IF InBatch(w, r) THEN "counted" ELSE row[r]]
    /\ daily' = Added(tx[w].batch)
    /\ sketch' = Overwritten(sketch, tx[w].merged)
    /\ counters' = Overwritten(counters, tx[w].sums)
    /\ tx' = [tx EXCEPT ![w] = NoTx]
    /\ UNCHANGED pathVars

\* A statement fails, a deadlock is resolved against it, or the worker dies.
Abort(w) ==
    /\ tx[w].step # "idle"
    /\ Advance(w, NoTx)

Midnight ==
    /\ today < MaxDay
    /\ today' = today + 1
    /\ UNCHANGED <<profile, stage, day, kind, receives, reserved, row>>
    /\ UNCHANGED rollVars

Serve(c) ==
    \/ \E refused \in BOOLEAN : GateOther(c, refused)
    \/ Reserve(c)
    \/ \E seen \in 0 .. counters[LinkOf[c]] : GateByCount(c, seen)
    \/ Record(c)

Deliver(c) == Receive(c) \/ Acknowledge(c) \/ Redrive(c)

Roll(w) ==
    \/ \E B \in SUBSET Free : Claim(w, B)
    \/ AddDaily(w) \/ SumCounters(w) \/ WriteCounters(w)
    \/ Commit(w)

ClickNext ==
    \/ \E c \in Clicks : Serve(c) \/ Forget(c) \/ Store(c) \/ Deliver(c)
    \/ \E w \in Rollups : Roll(w) \/ Abort(w)
    \/ Midnight

ClickSpec == ClickInit /\ [][ClickNext]_clickVars

-----------------------------------------------------------------------------
\* The types; in particular no click is dated after the days that have begun, and
\* no rollup holds anything but rows of click_events.
ClickTypeOK ==
    /\ profile \in {"postgres", "aws"}
    /\ today \in Days
    /\ stage \in [Clicks -> Stages]
    /\ day \in [Clicks -> 0 .. today]
    /\ kind \in [Clicks -> {"click", "bot", "blocked"}]
    /\ receives \in [Clicks -> 0 .. MaxReceive]
    /\ row \in [Rows -> {"absent", "pending", "counted", "removed"}]
    /\ reserved \in [Links -> Nat]
    /\ counters \in [Links -> Nat]
    /\ daily \in [Keys -> [clicks : Nat, blocked : Nat]]
    /\ sketch \in [Keys -> SUBSET Visitors]
    /\ \A w \in Rollups : tx[w].step \in Steps /\ tx[w].batch \subseteq Rows

Rolled == {r \in Rows : row[r] \in {"counted", "removed"}}

\* rollup.ts:32 "cannot fold them into the additive click_daily counts a second
\* time", and rollup.ts:15 "a crashed run re-runs safely instead of
\* double-counting": whatever rollups overlap or abort, click_daily holds
\* exactly the rows that are marked as rolled up.
CountedOnce ==
    \A k \in Keys : /\ daily[k].clicks = HowMany(Rolled, k, "click")
                    /\ daily[k].blocked = HowMany(Rolled, k, "blocked")

\* rollup.ts:142 "No registers are lost regardless of writer topology".
SketchesKeepVisitors == \A k \in Keys : sketch[k] = VisitorsIn(Rolled, k)

\* rollup.ts:210 "a re-run must not inflate them": the count that the gate of a
\* link reads is never ahead of click_daily.  It may stay behind: a rollup that
\* summed before another one committed overwrites the larger sum.
CounterNeverAhead == \A l \in Links : counters[l] <= DailyTotal(l)

\* click-reservation.ts:55 a hard cap: where the reservation is available, no
\* more clicks of a link are ever counted than its limit, whatever requests run
\* at the same time and however old their view of the counter is.
HardCap ==
    \A l \in Links : profile = "postgres" /\ Limit[l] # NoLimit => DailyTotal(l) <= Limit[l]

RowOf(c) == \E k \in 1 .. MaxReceive : row[<<c, k>>] # "absent"

\* lambda.ts:113 a message leaves the queue only once its click is in
\* click_events, or after all its deliveries, for the dead letter queue.
DeliveredOrDead ==
    \A c \in Clicks : profile = "aws" =>
        /\ stage[c] = "done" => RowOf(c)
        /\ stage[c] = "dead" => receives[c] = MaxReceive

-----------------------------------------------------------------------------
\* A row of click_events as an entry of the ledger.
EntryOf(r) ==
    IF row[r] = "absent" THEN [state |-> "absent"]
    ELSE [state |-> row[r], key |-> KeyOf(r), kind |-> kind[r[1]]]
Entry == [r \in Rows |-> EntryOf(r)]

Ledger == INSTANCE ClickLedger WITH Entries <- Rows, entry <- Entry, totals <- daily

\* rollup.ts:15 the gate, the queue and the rollups' transactions implement the
\* ledger: a click keeps the day and the kind it was recorded with, and it is
\* added to the totals once, as a whole, together with its mark.
LedgerSpec == Ledger!Spec
=============================================================================
