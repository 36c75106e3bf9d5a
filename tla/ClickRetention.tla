--------------------------- MODULE ClickRetention ---------------------------
(***************************************************************************)
(* The partitions of click_events: inserts that route to them, the hourly  *)
(* maintenance pass that provisions and drops them (rollup.ts              *)
(* ensureClickPartitions, backfillClickPartitions, pruneRetention and the  *)
(* SQL functions they call), and the rollup, whose transaction here is its *)
(* claim and its commit (ClickRollup has the steps between them).          *)
(*                                                                         *)
(* A row is in the partition of its day if that is attached and in the     *)
(* DEFAULT partition otherwise: attaching a day moves its rows.  The lease *)
(* keeps pruneRetention to one pass at a time (JobLease).                  *)
(***************************************************************************)
EXTENDS Integers, FiniteSets, FiniteSetsExt

CONSTANTS
    Rows,
    KeepOf,         \* KeepOf[r]: retention_years of its workspace, in days
    Install,        \* INSTALL_RETENTION_YEARS, in days
    Back, Ahead,    \* the window that is provisioned around today
    Lag,            \* how late a click may be inserted (the queue's retention)
    MaxDrops,       \* MAX_PARTITION_DROPS
    MaxRetained,    \* MAX_RETAINED_DAYS
    MaxDay          \* bound: how many days pass

ASSUME ClickRetentionAssumption ==
    /\ IsFiniteSet(Rows)
    /\ KeepOf \in [Rows -> Nat \ {0}]
    /\ Install \in Nat \ {0}
    /\ {Back, Ahead, Lag, MaxRetained} \subseteq Nat
    /\ MaxDrops \in Nat \ {0}
    /\ MaxDay \in Nat \ {0}

Days == 1 .. MaxDay

VARIABLES
    today,
    row,        \* row[r]: its state; "rejected" if its insert failed twice
    at,         \* at[r]: the day of its occurred_at
    route,      \* route[r]: the partition its insert statement is bound to
    retried,    \* retried[r]: is it the second attempt?
    attached,   \* the days that have a partition
    batch,      \* rows that the rollup's transaction has claimed
    totals,     \* click_daily, by day
    pass        \* the maintenance pass

vars == <<today, row, at, route, retried, attached, batch, totals, pass>>

RowStates == {"absent", "inserting", "pending", "counted", "removed", "rejected"}
NoPass == [phase |-> "idle", cutoff |-> 0, todo |-> {}, dropped |-> 0, over |-> 0]
Phases == {"idle", "ensure", "age", "cap", "delete"}

\* The types; in particular no click is dated after the days that have begun.
TypeOK ==
    /\ today \in Days
    /\ row \in [Rows -> RowStates]
    /\ at \in [Rows -> 0 .. today]
    /\ route \in [Rows -> {"none", "default", "day"}]
    /\ retried \in [Rows -> BOOLEAN]
    /\ attached \subseteq Days
    /\ batch \subseteq Rows
    /\ totals \in [Days -> Nat]
    /\ pass \in [phase : Phases, cutoff : Int, todo : SUBSET Days, dropped : Nat, over : Int]

Window == {d \in Days : today - Back <= d /\ d <= today + Ahead}

\* The migration has provisioned the window.
Init ==
    /\ today = 1
    /\ row = [r \in Rows |-> "absent"]
    /\ at = [r \in Rows |-> 0]
    /\ route = [r \in Rows |-> "none"]
    /\ retried = [r \in Rows |-> FALSE]
    /\ attached = Window
    /\ batch = {}
    /\ totals = [d \in Days |-> 0]
    /\ pass = NoPass

-----------------------------------------------------------------------------
(* insertClickEvents.                                                      *)

Click_LocalDay(r, d) ==         \* mutant: the day is taken east of Greenwich
    /\ row[r] = "absent"
    /\ today - Lag <= d /\ d <= today
    /\ row' = [row EXCEPT ![r] = "inserting"]
    /\ at' = [at EXCEPT ![r] = d + 1]
    /\ UNCHANGED <<today, route, retried, attached, batch, totals, pass>>
Click(r, d) ==
    /\ row[r] = "absent"
    /\ today - Lag <= d /\ d <= today
    /\ row' = [row EXCEPT ![r] = "inserting"]
    /\ at' = [at EXCEPT ![r] = d]
    /\ UNCHANGED <<today, route, retried, attached, batch, totals, pass>>

\* The statement takes its lock on the parent and pins its partition descriptor.
Route(r) ==
    /\ row[r] = "inserting" /\ route[r] = "none"
    /\ route' = [route EXCEPT ![r] = IF at[r] \in attached THEN "day" ELSE "default"]
    /\ UNCHANGED <<today, row, at, retried, attached, batch, totals, pass>>

\* The row no longer belongs to the DEFAULT partition: its day was attached.
Misrouted(r) == route[r] = "default" /\ at[r] \in attached

InsertLands(r) ==
    /\ route[r] # "none" /\ ~Misrouted(r)
    /\ row' = [row EXCEPT ![r] = "pending"]
    /\ route' = [route EXCEPT ![r] = "none"]
    /\ UNCHANGED <<today, at, retried, attached, batch, totals, pass>>

InsertFails_NoRetry(r) ==       \* mutant: the error is not retried
    /\ Misrouted(r)
    /\ route' = [route EXCEPT ![r] = "none"]
    /\ row' = [row EXCEPT ![r] = "rejected"]
    /\ UNCHANGED <<today, at, retried, attached, batch, totals, pass>>

\* The partition constraint refuses the row: once more, in a fresh statement.
InsertFails(r) ==
    /\ Misrouted(r)
    /\ route' = [route EXCEPT ![r] = "none"]
    /\ IF retried[r]
       THEN row' = [row EXCEPT ![r] = "rejected"] /\ UNCHANGED retried
       ELSE retried' = [retried EXCEPT ![r] = TRUE] /\ UNCHANGED row
    /\ UNCHANGED <<today, at, attached, batch, totals, pass>>

-----------------------------------------------------------------------------
(* The rollup: it holds its locks on the parent and on every partition from *)
(* its claim to its end.                                                    *)

Pending == {r \in Rows : row[r] = "pending"}

Claim ==
    /\ batch = {} /\ Pending # {}
    /\ batch' = Pending
    /\ UNCHANGED <<today, row, at, route, retried, attached, totals, pass>>

Commit ==
    /\ batch # {}
    /\ row' = [r \in Rows |-> IF r \in batch THEN "counted" ELSE row[r]]
    /\ totals' = [d \in Days |-> totals[d] + Cardinality({r \in batch : at[r] = d})]
    /\ batch' = {}
    /\ UNCHANGED <<today, at, route, retried, attached, pass>>

Abort ==
    /\ batch # {}
    /\ batch' = {}
    /\ UNCHANGED <<today, row, at, route, retried, attached, totals, pass>>

-----------------------------------------------------------------------------
(* The maintenance pass.  Every lock is waited for two seconds at most: a   *)
(* day whose lock is not free is left for a later pass.                     *)

Stored(d) == {r \in Rows : at[r] = d /\ row[r] \in {"pending", "counted"}}
InDefault(r) == at[r] \notin attached
Pins(d) == \E r \in Stored(d) : row[r] = "pending"
ParentFree == batch = {} /\ \A r \in Rows : route[r] = "none"
DefaultFree == batch = {}

\* An insert is over well before the next pass of the hourly schedule.
InsertsSettled == \A r \in Rows : ~(row[r] = "inserting" /\ retried[r])

StartPass ==
    /\ pass.phase = "idle" /\ InsertsSettled
    /\ pass' = [NoPass EXCEPT !.phase = "ensure", !.todo = Window]
    /\ UNCHANGED <<today, row, at, route, retried, attached, batch, totals>>

Turn(phase, next) ==
    /\ pass.phase = phase
    /\ pass' = next
    /\ UNCHANGED <<today, row, at, route, retried, batch, totals>>

\* click_events_ensure_partition: under the lock of the DEFAULT partition its
\* rows of the day move to the new partition, which is then attached.
EnsureDay ==
    LET d == Min(pass.todo) IN
    /\ pass.todo # {}
    /\ d \in attached \/ DefaultFree
    /\ attached' = attached \cup {d}
    /\ Turn("ensure", [pass EXCEPT !.todo = @ \ {d}])
DeclineDay ==
    /\ pass.todo # {}
    /\ UNCHANGED attached
    /\ Turn("ensure", [pass EXCEPT !.todo = @ \ {Min(pass.todo)}])

\* click_events_backfill_days, run by an operator: the days of DEFAULT's rows.
Backfill(d) ==
    /\ InsertsSettled /\ DefaultFree
    /\ d \notin attached /\ Stored(d) # {}
    /\ attached' = attached \cup {d}
    /\ UNCHANGED <<today, row, at, route, retried, batch, totals, pass>>

Oldest(S, n) == {d \in S : Cardinality({e \in S : e < d}) < n}

\* click_events_spent_partitions
Spent(cutoff) == {d \in attached : d + 1 <= cutoff /\ ~Pins(d)}

\* The one cutoff of the pass, and the days it finds spent.
ListSpent ==
    LET cutoff == today - Install IN
    /\ pass.todo = {}
    /\ UNCHANGED attached
    /\ Turn("ensure", [pass EXCEPT !.phase = "age", !.cutoff = cutoff,
                                   !.todo = Oldest(Spent(cutoff), MaxDrops)])

MayDrop_Unchecked(d) ==     \* mutant: the day was free of pending rows when listed
    d \in attached /\ ParentFree
MayDrop(d) == d \in attached /\ ParentFree /\ ~Pins(d)

\* click_events_drop_partition: the probe, DETACH and DROP are under the lock.
DropDay(phase, next) ==
    LET d == Min(pass.todo) IN
    /\ pass.phase = phase /\ pass.todo # {}
    /\ MayDrop(d)
    /\ attached' = attached \ {d}
    /\ row' = [r \in Rows |-> IF r \in Stored(d) THEN "removed" ELSE row[r]]
    /\ pass' = next
    /\ UNCHANGED <<today, at, route, retried, batch, totals>>

Rest == pass.todo \ {Min(pass.todo)}
DropSpent == DropDay("age", [pass EXCEPT !.todo = Rest, !.dropped = @ + 1])

\* "pinned", "contended" or "missing"
LeaveDay ==
    /\ pass.phase \in {"age", "cap"} /\ pass.todo # {}
    /\ UNCHANGED attached
    /\ Turn(pass.phase, [pass EXCEPT !.todo = Rest])

\* mutant: the count is of the days attached before the pass's own drops
OverCap_Outdated == Cardinality(attached) + pass.dropped - MaxRetained
OverCap == Cardinality(attached) - MaxRetained

ListAttached ==
    /\ pass.todo = {}
    /\ UNCHANGED attached
    /\ Turn("age", IF pass.dropped < MaxDrops
                   THEN [pass EXCEPT !.phase = "cap", !.todo = attached, !.over = OverCap]
                   ELSE [pass EXCEPT !.phase = "delete"])

CapReached == pass.over <= 0 \/ pass.dropped >= MaxDrops
DropOverCap ==
    /\ ~CapReached
    /\ DropDay("cap", [pass EXCEPT !.todo = Rest, !.dropped = @ + 1, !.over = @ - 1])
CapDone ==
    /\ CapReached \/ pass.todo = {}
    /\ UNCHANGED attached
    /\ Turn("cap", [pass EXCEPT !.phase = "delete", !.todo = {}])

Least(r) == IF KeepOf[r] < Install THEN KeepOf[r] ELSE Install

\* mutant: the window ends a day early
Expired_DayEarly(r, late) ==
    /\ row[r] = "counted"
    /\ KeepOf[r] < Install \/ InDefault(r)
    /\ at[r] <= today + 1 - Least(r)
\* mutant: the workspace's own window decides, even where the install's is shorter
Expired_Own(r, late) ==
    /\ row[r] = "counted"
    /\ KeepOf[r] < Install \/ InDefault(r)
    /\ at[r] < today - KeepOf[r] \/ (late /\ at[r] = today - KeepOf[r])
\* What the row-level DELETE reaches; the rows of the day on which the window
\* ends, only if they are earlier in that day than it is now.
Expired(r, late) ==
    /\ row[r] = "counted"
    /\ KeepOf[r] < Install \/ InDefault(r)
    /\ at[r] < today - Least(r) \/ (late /\ at[r] = today - Least(r))

DeleteRows(late) ==
    /\ pass.phase = "delete"
    /\ row' = [r \in Rows |-> IF Expired(r, late) THEN "removed" ELSE row[r]]
    /\ pass' = NoPass
    /\ UNCHANGED <<today, at, route, retried, attached, batch, totals>>

\* The worker dies, or a statement fails.  (At the DELETE that is a DELETE of
\* nothing, which this action is kept apart from.)
PassDies ==
    /\ pass.phase \in {"ensure", "age", "cap"}
    /\ UNCHANGED attached
    /\ Turn(pass.phase, NoPass)

Midnight ==
    /\ today < MaxDay
    /\ InsertsSettled
    /\ today' = today + 1
    /\ UNCHANGED <<row, at, route, retried, attached, batch, totals, pass>>

Insert(r) == Route(r) \/ InsertLands(r) \/ InsertFails(r)
Maintain ==
    \/ EnsureDay \/ DeclineDay \/ ListSpent \/ LeaveDay \/ ListAttached \/ CapDone
    \/ \E late \in BOOLEAN : DeleteRows(late)

Next ==
    \/ \E r \in Rows, d \in Days : Click(r, d)
    \/ \E r \in Rows : Insert(r)
    \/ Claim \/ Commit \/ Abort
    \/ StartPass \/ Maintain \/ DropSpent \/ DropOverCap \/ PassDies
    \/ \E d \in Days : Backfill(d)
    \/ Midnight

\* Inserts and rollups come to an end, the schedule starts passes, sooner or
\* later they stop dying, and the drop of a day is not contended every time.
Fairness ==
    /\ WF_vars(\E r \in Rows : Insert(r))
    /\ WF_vars(Claim) /\ SF_vars(Commit)
    /\ WF_vars(StartPass \/ Maintain)
    /\ SF_vars(DropSpent)
    /\ <>[][~PassDies]_vars

Spec == Init /\ [][Next]_vars
FairSpec == Spec /\ Fairness

-----------------------------------------------------------------------------
\* click-events.ts:90 "an insert must never fail for want of a partition, and
\* here one fails because a partition arrived": the retry always lands.
InsertSurvivesAttach == \A r \in Rows : row[r] # "rejected"

Removed(r) == row[r] = "counted" /\ row'[r] = "removed"

\* rollup.ts:669, the settings' promise: the detail of a click goes only after
\* the window of its workspace, or of the install where that is shorter, and a
\* whole partition only after the last of its rows has left the window; or
\* because there are more partitions than the volume cap allows.
KeptForItsWindow ==
    [][\A r \in Rows : Removed(r) =>
          \/ at[r] < today - Least(r)
          \/ at[r] = today - Least(r) /\ attached' = attached
          \/ Cardinality(attached) > MaxRetained]_vars

\* rollup.ts:784 "drop the OLDEST ones beyond the cap": a day within the install
\* window is dropped only while more days are attached than the cap allows.
CapDropsOnlyExcess ==
    [][\A d \in attached \ attached' :
          d + 1 > today - Install => Cardinality(attached) > MaxRetained]_vars

\* rollup.ts:353 "subtractive only": whatever its workspace asked for, and
\* wherever it is stored, the detail of a counted click that is past the
\* install's window goes.
ExpiredGoes ==
    \A r \in Rows :
        (row[r] = "counted" /\ at[r] + 1 <= today - Install) ~> row[r] = "removed"

\* A row of click_events as an entry of the ledger, and the totals of a day.
EntryOf(r) ==
    IF row[r] \in {"absent", "inserting", "rejected"} THEN [state |-> "absent"]
    ELSE [state |-> row[r], key |-> at[r], kind |-> "click"]
Entry == [r \in Rows |-> EntryOf(r)]
Totals == [d \in Days |-> [clicks |-> totals[d], blocked |-> 0]]

Ledger == INSTANCE ClickLedger WITH
    Entries <- Rows, Keys <- Days, entry <- Entry, totals <- Totals

\* rollup.ts:890, 0014_retention_outcomes.sql:226 "raw detail is never discarded
\* before it has been counted": partitions and passes implement the ledger.
LedgerSpec == Ledger!Spec
=============================================================================
