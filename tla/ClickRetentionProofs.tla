------------------------ MODULE ClickRetentionProofs ------------------------
(***************************************************************************)
(* No insert is refused for good, no click goes before its window is over  *)
(* or before it is counted, and no day of the install's window is dropped  *)
(* below the cap: for any rows, windows, caps and passes.                  *)
(*                                                                         *)
(* What the argument rests on: a retried insert is for a day that this     *)
(* pass will not attach any more; what a pass has listed as spent was so   *)
(* at an earlier or the same cutoff; and its count of the days over the    *)
(* cap never exceeds what the attached days are over it.                   *)
(***************************************************************************)
EXTENDS ClickRetention, FiniteSetTheorems, WellFoundedInduction, TLAPS

\* A row is routed, and retried, only while it is inserted, for a day that has
\* begun, and never against a day that has arrived since.
RowInv(r) ==
    /\ row[r] = "absent" => ~retried[r]
    /\ row[r] # "absent" => at[r] \in Days
    /\ row[r] # "rejected"
    /\ route[r] # "none" => row[r] = "inserting"
    /\ row[r] = "inserting" /\ retried[r] =>
          /\ pass.phase = "ensure" => at[r] \in attached
          /\ ~Misrouted(r)

\* The rollup holds rows that are still to be counted.
BatchInv == batch \subseteq Pending

\* What a pass has listed is still past its cutoff, or over the cap.
PassInv ==
    /\ pass.phase = "age" => /\ pass.cutoff <= today - Install
                             /\ \A d \in pass.todo : d + 1 <= pass.cutoff
    /\ pass.phase = "cap" => pass.over <= Cardinality(attached) - MaxRetained

IInv == TypeOK /\ (\A r \in Rows : RowInv(r)) /\ BatchInv /\ PassInv

-----------------------------------------------------------------------------
\* A set of days that is not empty has a first one, and that is what Min takes.
LEMMA MinFacts ==
    ASSUME NEW S, S \subseteq Days, S # {}
    PROVE  Min(S) \in S /\ \A d \in S : Min(S) <= d
<1>0. S \subseteq Nat
  BY ClickRetentionAssumption DEF Days, ClickRetentionAssumption
<1>1. PICK m \in S : \A d \in S : ~ (<<d, m>> \in OpToRel(<, Nat))
  BY <1>0, NatLessThanWellFounded, WFMin
<1>2. \A d \in S : ~ (d < m)
  BY <1>0, <1>1 DEF OpToRel
<1>3. \E x \in S : \A d \in S : x <= d
  BY <1>0, <1>2
<1> QED BY <1>3 DEF Min

\* Sets of days and of rows are finite, and a day that goes is one day less.
LEMMA FiniteFacts ==
    /\ \A S \in SUBSET Rows : IsFiniteSet(S) /\ Cardinality(S) \in Nat
    /\ \A S \in SUBSET Days :
        /\ IsFiniteSet(S) /\ Cardinality(S) \in Nat
        /\ \A d \in S : Cardinality(S \ {d}) = Cardinality(S) - 1
        /\ \A d : Cardinality(S) <= Cardinality(S \cup {d})
<1>1. IsFiniteSet(Rows) /\ IsFiniteSet(Days)
  BY ClickRetentionAssumption, FS_Interval DEF ClickRetentionAssumption, Days
<1>2. \A S \in SUBSET Rows : IsFiniteSet(S) /\ Cardinality(S) \in Nat
  BY <1>1, FS_Subset, FS_CardinalityType
<1>3. ASSUME NEW S \in SUBSET Days
      PROVE  /\ IsFiniteSet(S) /\ Cardinality(S) \in Nat
             /\ \A d \in S : Cardinality(S \ {d}) = Cardinality(S) - 1
             /\ \A d : Cardinality(S) <= Cardinality(S \cup {d})
  <2>1. IsFiniteSet(S) /\ Cardinality(S) \in Nat
    BY <1>1, FS_Subset, FS_CardinalityType
  <2>2. \A d \in S : Cardinality(S \ {d}) = Cardinality(S) - 1
    BY <2>1, FS_RemoveElement
  <2>3. ASSUME NEW d PROVE Cardinality(S) <= Cardinality(S \cup {d})
    <3>1. Cardinality(S \cup {d}) = IF d \in S THEN Cardinality(S) ELSE Cardinality(S) + 1
      BY <2>1, FS_AddElement
    <3> QED BY <2>1, <3>1
  <2> QED BY <2>1, <2>2, <2>3
<1> QED BY <1>2, <1>3

\* The assumptions on the constants, in the form that arithmetic needs.
LEMMA Constants ==
    /\ MaxDay \in Nat /\ 1 \in Days /\ Days \subseteq Nat \ {0}
    /\ Install \in Nat /\ MaxRetained \in Nat
    /\ \A r \in Rows : Least(r) \in Nat /\ Least(r) <= Install
  BY ClickRetentionAssumption DEF ClickRetentionAssumption, Days, Least

\* At the start nothing is in progress.
LEMMA InitIInv == ASSUME Init PROVE IInv
<1> USE DEF Init
<1>1. Window \subseteq Days /\ NoPass \in [phase : Phases, cutoff : Int, todo : SUBSET Days,
                                           dropped : Nat, over : Int]
  BY DEF Window, NoPass, Phases
<1>2. TypeOK
  BY <1>1, Constants DEF TypeOK, RowStates
<1>3. \A r \in Rows : RowInv(r)
  BY DEF RowInv
<1>4. BatchInv /\ PassInv
  BY DEF BatchInv, PassInv, NoPass
<1> QED BY <1>2, <1>3, <1>4 DEF IInv

-----------------------------------------------------------------------------
(* Inserts.                                                                 *)

\* What the steps of row r leave alone.
InsertStep(r) ==
    /\ UNCHANGED <<today, attached, batch, totals, pass>>
    /\ \A q \in Rows : q # r => /\ row'[q] = row[q] /\ at'[q] = at[q]
                                /\ route'[q] = route[q] /\ retried'[q] = retried[q]
    /\ row[r] # "pending"

\* So it keeps the invariant that keeps it for its row.
LEMMA InsertStepIInv ==
    ASSUME IInv, NEW r \in Rows, InsertStep(r), TypeOK', RowInv(r)'
    PROVE  IInv'
<1>1. ASSUME NEW q \in Rows PROVE RowInv(q)'
  <2>1. CASE q # r
    BY <2>1 DEF IInv, RowInv, InsertStep, Misrouted
  <2> QED BY <2>1
<1>2. BatchInv'
  BY DEF IInv, BatchInv, Pending, InsertStep
<1>3. PassInv'
  BY DEF IInv, PassInv, InsertStep
<1> QED BY <1>1, <1>2, <1>3 DEF IInv

\* A click, its routing, its landing; and a refusal, which can only be the first.
LEMMA InsertIInv ==
    ASSUME IInv, NEW r \in Rows,
           (\E d \in Days : Click(r, d)) \/ Insert(r)
    PROVE  IInv'
<1>1. TypeOK /\ RowInv(r)
  BY DEF IInv
<1>2. CASE \E d \in Days : Click(r, d)
  <2>1. PICK d \in Days : Click(r, d)
    BY <1>2
  <2>2. TypeOK'
    BY <1>1, <2>1, Constants DEF TypeOK, Click, RowStates, Days
  <2>3. RowInv(r)'
    BY <1>1, <2>1 DEF TypeOK, Click, RowInv, Misrouted
  <2> QED BY <1>1, <2>1, <2>2, <2>3, InsertStepIInv DEF Click, InsertStep, TypeOK
<1>3. CASE Route(r)
  <2>1. TypeOK'
    BY <1>1, <1>3 DEF TypeOK, Route
  <2>2. RowInv(r)'
    BY <1>1, <1>3 DEF TypeOK, Route, RowInv, Misrouted
  <2> QED BY <1>1, <1>3, <2>1, <2>2, InsertStepIInv DEF Route, InsertStep, TypeOK
<1>4. CASE InsertLands(r)
  <2>1. TypeOK'
    BY <1>1, <1>4 DEF TypeOK, InsertLands, RowStates
  <2>2. RowInv(r)'
    BY <1>1, <1>4 DEF TypeOK, InsertLands, RowInv, Misrouted
  <2> QED BY <1>1, <1>4, <2>1, <2>2, InsertStepIInv DEF InsertLands, InsertStep, TypeOK, RowInv
<1>5. CASE InsertFails(r)
  <2>1. row[r] = "inserting" /\ ~retried[r] /\ at[r] \in attached
    BY <1>1, <1>5 DEF RowInv, InsertFails, Misrouted
  <2>2. /\ retried' = [retried EXCEPT ![r] = TRUE] /\ route' = [route EXCEPT ![r] = "none"]
        /\ UNCHANGED <<row, today, at, attached, batch, totals, pass>>
    BY <1>5, <2>1 DEF InsertFails
  <2>3. TypeOK'
    BY <1>1, <2>2 DEF TypeOK
  <2>4. RowInv(r)'
    BY <1>1, <2>1, <2>2 DEF TypeOK, RowInv, Misrouted
  <2> QED BY <1>1, <2>1, <2>2, <2>3, <2>4, InsertStepIInv DEF InsertStep, TypeOK
<1> QED BY <1>2, <1>3, <1>4, <1>5 DEF Insert

-----------------------------------------------------------------------------
(* The rollup and the clock.                                                *)

\* A rollup claims pending rows, and counts them or lets them go.
LEMMA RollupIInv == ASSUME IInv, Claim \/ Commit \/ Abort PROVE IInv'
<1>1. TypeOK'
  <2>1. TypeOK
    BY DEF IInv
  <2>2. CASE Claim
    <3>1. Pending \subseteq Rows
      BY DEF Pending
    <3> QED BY <2>1, <2>2, <3>1 DEF TypeOK, Claim
  <2>3. CASE Commit
    <3>1. \A d \in Days : totals[d] + Cardinality({r \in batch : at[r] = d}) \in Nat
      BY <2>1, FiniteFacts DEF TypeOK
    <3>2. totals' \in [Days -> Nat]
      BY <2>3, <3>1 DEF Commit
    <3>3. row' \in [Rows -> RowStates]
      BY <2>1, <2>3 DEF Commit, TypeOK, RowStates
    <3> QED BY <2>1, <2>3, <3>2, <3>3 DEF Commit, TypeOK
  <2>4. CASE Abort
    BY <2>1, <2>4 DEF TypeOK, Abort
  <2> QED BY <2>2, <2>3, <2>4
<1>2. UNCHANGED <<today, at, route, retried, attached, pass>>
  BY DEF Claim, Commit, Abort
<1>3. BatchInv'
  BY DEF BatchInv, Claim, Commit, Abort, Pending
<1>4. ASSUME NEW r \in Rows PROVE RowInv(r)'
  <2>1. row'[r] = row[r] \/ (row[r] = "pending" /\ row'[r] = "counted")
    <3>1. r \in batch => row[r] = "pending"
      BY DEF IInv, BatchInv, Pending
    <3>2. CASE Claim \/ Abort
      BY <3>2 DEF Claim, Abort
    <3>3. CASE Commit
      BY <3>1, <3>3 DEF Commit
    <3> QED BY <3>2, <3>3
  <2> QED BY <1>2, <2>1 DEF IInv, RowInv, Misrouted
<1>5. PassInv'
  BY <1>2 DEF IInv, PassInv
<1> QED BY <1>1, <1>3, <1>4, <1>5 DEF IInv

\* A day later, what was past a cutoff is so still.
LEMMA MidnightIInv == ASSUME IInv, Midnight PROVE IInv'
<1> USE DEF Midnight
<1>1. TypeOK'
  BY Constants DEF IInv, TypeOK, Days
<1>2. BatchInv' /\ \A r \in Rows : RowInv(r)'
  BY DEF IInv, BatchInv, Pending, RowInv, Misrouted
<1>3. PassInv'
  BY Constants DEF IInv, TypeOK, PassInv
<1> QED BY <1>1, <1>2, <1>3 DEF IInv

-----------------------------------------------------------------------------
(* The maintenance pass.                                                    *)

\* The types of what a pass lists.
LEMMA PassTypes ==
    ASSUME IInv
    PROVE  /\ pass \in [phase : Phases, cutoff : Int, todo : SUBSET Days, dropped : Nat,
                        over : Int]
           /\ pass.todo \subseteq Days /\ attached \subseteq Days /\ today \in Nat
           /\ Window \subseteq Days /\ (\A S, n : Oldest(S, n) \subseteq S)
           /\ \A cutoff : Spent(cutoff) \subseteq attached
           /\ OverCap \in Int
<1>1. TypeOK
  BY DEF IInv
<1>2. OverCap \in Int
  BY <1>1, FiniteFacts, Constants DEF TypeOK, OverCap
<1> QED BY <1>1, <1>2, Constants DEF TypeOK, Window, Oldest, Spent

\* A step that moves no row, and days only into the attached ones.
LEMMA PassStepIInv ==
    ASSUME IInv, UNCHANGED <<today, row, at, route, retried, batch, totals>>,
           attached' \subseteq Days, attached \subseteq attached',
           pass' \in [phase : Phases, cutoff : Int, todo : SUBSET Days, dropped : Nat,
                      over : Int],
           PassInv',
           attached' = attached \/ pass.phase = "ensure" \/ InsertsSettled,
           pass'.phase = "ensure" => pass.phase = "ensure" \/ InsertsSettled
    PROVE  IInv'
<1>1. TypeOK' /\ BatchInv'
  BY DEF IInv, TypeOK, BatchInv, Pending
<1>2. ASSUME NEW r \in Rows PROVE RowInv(r)'
  <2>1. RowInv(r)
    BY DEF IInv
  <2>2. CASE InsertsSettled
    BY <2>1, <2>2 DEF InsertsSettled, RowInv
  <2>3. CASE ~InsertsSettled
    BY <2>1, <2>3 DEF RowInv, Misrouted
  <2> QED BY <2>2, <2>3
<1> QED BY <1>1, <1>2 DEF IInv

\* The pass provisions the window and lists what to drop.
LEMMA EnsureIInv ==
    ASSUME IInv, StartPass \/ EnsureDay \/ DeclineDay \/ ListSpent \/ PassDies
    PROVE  IInv'
<1> USE PassTypes
<1>1. CASE StartPass
  <2>1. pass' \in [phase : Phases, cutoff : Int, todo : SUBSET Days, dropped : Nat,
                   over : Int] /\ pass'.phase = "ensure"
    <3>1. NoPass \in [phase : Phases, cutoff : Int, todo : SUBSET Days, dropped : Nat,
                      over : Int] /\ Window \in SUBSET Days
      BY DEF NoPass, Phases
    <3> QED BY <1>1, <3>1 DEF StartPass, Phases
  <2> QED BY <1>1, <2>1, PassStepIInv DEF StartPass, PassInv
<1>2. CASE EnsureDay
  <2>1. Min(pass.todo) \in Days
    BY <1>2, MinFacts DEF EnsureDay
  <2> QED BY <1>2, <2>1, PassStepIInv DEF EnsureDay, Turn, PassInv
<1>3. CASE DeclineDay
  BY <1>3, PassStepIInv DEF DeclineDay, Turn, PassInv
<1>4. CASE ListSpent
  <2>1. PICK cutoff, todo : cutoff = today - Install /\ todo = Oldest(Spent(cutoff), MaxDrops)
    OBVIOUS
  <2>2. pass' = [pass EXCEPT !.phase = "age", !.cutoff = cutoff, !.todo = todo]
    BY <1>4, <2>1 DEF ListSpent, Turn
  <2>3. todo \subseteq Spent(cutoff) /\ todo \subseteq Days
    BY <2>1
  <2>4. \A d \in Spent(cutoff) : d + 1 <= cutoff
    BY DEF Spent
  <2>5. cutoff \in Int
    BY <2>1, Constants
  <2>6. /\ pass' \in [phase : Phases, cutoff : Int, todo : SUBSET Days, dropped : Nat,
                      over : Int]
        /\ pass'.phase = "age" /\ pass'.cutoff = cutoff /\ pass'.todo = todo
    BY <2>2, <2>3, <2>5 DEF Phases
  <2>7. PassInv'
    BY <1>4, <2>1, <2>3, <2>4, <2>5, <2>6 DEF PassInv, ListSpent, Turn
  <2> QED BY <1>4, <2>6, <2>7, PassStepIInv DEF ListSpent, Turn
<1>5. CASE PassDies
  <2>1. NoPass \in [phase : Phases, cutoff : Int, todo : SUBSET Days, dropped : Nat,
                    over : Int] /\ NoPass.phase = "idle"
    BY DEF NoPass, Phases
  <2> QED BY <1>5, <2>1, PassStepIInv DEF PassDies, Turn, PassInv
<1> QED BY <1>1, <1>2, <1>3, <1>4, <1>5

\* An operator attaches a day of the DEFAULT partition: more days than before.
LEMMA BackfillIInv == ASSUME IInv, NEW d \in Days, Backfill(d) PROVE IInv'
<1>1. Cardinality(attached) <= Cardinality(attached') /\ Cardinality(attached) \in Nat
      /\ Cardinality(attached') \in Nat
  BY PassTypes, FiniteFacts DEF Backfill
<1>2. PassInv'
  BY <1>1, PassTypes, Constants DEF IInv, PassInv, Backfill
<1> QED BY <1>2, PassTypes, PassStepIInv DEF Backfill

\* A day is left, or the next phase begins.
LEMMA TurnIInv == ASSUME IInv, LeaveDay \/ ListAttached \/ CapDone PROVE IInv'
<1> USE PassTypes
<1>1. CASE LeaveDay
  BY <1>1, PassStepIInv DEF LeaveDay, Turn, Rest, PassInv, IInv
<1>2. CASE ListAttached
  <2>1. /\ pass' \in [phase : Phases, cutoff : Int, todo : SUBSET Days, dropped : Nat,
                      over : Int]
        /\ pass'.phase \in {"cap", "delete"}
        /\ pass'.phase = "cap" => pass'.over = OverCap
    BY <1>2 DEF ListAttached, Turn, Phases
  <2>2. PassInv'
    BY <1>2, <2>1, FiniteFacts, Constants DEF PassInv, OverCap, ListAttached, Turn
  <2> QED BY <1>2, <2>1, <2>2, PassStepIInv DEF ListAttached, Turn
<1>3. CASE CapDone
  <2>1. /\ pass' \in [phase : Phases, cutoff : Int, todo : SUBSET Days, dropped : Nat,
                      over : Int]
        /\ pass'.phase = "delete"
    BY <1>3 DEF CapDone, Turn, Phases
  <2> QED BY <1>3, <2>1, PassStepIInv DEF CapDone, Turn, PassInv
<1> QED BY <1>1, <1>2, <1>3

\* The day that a pass drops is one it has listed, is attached, and holds no row
\* but counted ones.
LEMMA DropDayFacts ==
    ASSUME IInv, NEW phase, NEW next, DropDay(phase, next)
    PROVE  \E d \in attached :
              /\ d = Min(pass.todo) /\ d \in pass.todo
              /\ attached' = attached \ {d}
              /\ Cardinality(attached') = Cardinality(attached) - 1
              /\ Cardinality(attached) \in Nat
              /\ batch = {} /\ \A r \in Rows : route[r] = "none"
              /\ Stored(d) \subseteq {r \in Rows : row[r] = "counted" /\ at[r] = d}
              /\ row' = [r \in Rows |-> IF r \in Stored(d) THEN "removed" ELSE row[r]]
<1>1. PICK d : d = Min(pass.todo)
  OBVIOUS
<1>2. /\ d \in pass.todo /\ d \in attached /\ ParentFree /\ ~Pins(d)
      /\ attached' = attached \ {d}
      /\ row' = [r \in Rows |-> IF r \in Stored(d) THEN "removed" ELSE row[r]]
  BY <1>1, PassTypes, MinFacts DEF DropDay, MayDrop
<1>3. Stored(d) \subseteq {r \in Rows : row[r] = "counted" /\ at[r] = d}
  BY <1>2 DEF Pins, Stored
<1>4. /\ Cardinality(attached') = Cardinality(attached) - 1
      /\ Cardinality(attached) \in Nat
  BY <1>2, PassTypes, FiniteFacts
<1> QED BY <1>1, <1>2, <1>3, <1>4 DEF ParentFree

\* A day goes, and one fewer is over the cap.
LEMMA DropIInv == ASSUME IInv, DropSpent \/ DropOverCap PROVE IInv'
<1>1. PICK phase, next :
        /\ phase \in {"age", "cap"} /\ DropDay(phase, next)
        /\ \/ phase = "age" /\ next = [pass EXCEPT !.todo = Rest, !.dropped = @ + 1]
           \/ phase = "cap" /\ next = [pass EXCEPT !.todo = Rest, !.dropped = @ + 1, !.over = @ - 1]
  BY DEF DropSpent, DropOverCap
<1>2. PICK d \in attached :
        /\ attached' = attached \ {d}
        /\ Cardinality(attached') = Cardinality(attached) - 1
        /\ Cardinality(attached) \in Nat
        /\ batch = {} /\ \A r \in Rows : route[r] = "none"
        /\ Stored(d) \subseteq {r \in Rows : row[r] = "counted" /\ at[r] = d}
        /\ row' = [r \in Rows |-> IF r \in Stored(d) THEN "removed" ELSE row[r]]
  BY <1>1, DropDayFacts
<1>3. /\ pass.phase = phase /\ pass' = next
      /\ UNCHANGED <<today, at, route, retried, batch, totals>>
  BY <1>1 DEF DropDay
<1>4. Rest \subseteq pass.todo
  BY DEF Rest
<1>5. /\ pass' \in [phase : Phases, cutoff : Int, todo : SUBSET Days, dropped : Nat, over : Int]
      /\ pass'.phase = phase /\ pass'.todo = Rest /\ pass'.cutoff = pass.cutoff
      /\ phase = "cap" => pass'.over = pass.over - 1
  <2>1. Rest \in SUBSET Days /\ pass.dropped + 1 \in Nat /\ pass.over - 1 \in Int
    BY <1>4, PassTypes
  <2>2. CASE phase = "age"
    BY <1>1, <1>3, <2>1, <2>2, PassTypes
  <2>3. CASE phase = "cap"
    BY <1>1, <1>3, <2>1, <2>3, PassTypes
  <2> QED BY <1>1, <2>2, <2>3
<1>6. TypeOK'
  <2>1. row' \in [Rows -> RowStates]
    BY <1>2 DEF IInv, TypeOK, RowStates
  <2> QED BY <1>2, <1>3, <1>5, <2>1 DEF IInv, TypeOK
<1>7. BatchInv'
  BY <1>2, <1>3 DEF BatchInv
<1>8. PassInv'
  BY <1>2, <1>3, <1>4, <1>5, PassTypes, Constants DEF IInv, PassInv
<1>9. ASSUME NEW r \in Rows PROVE RowInv(r)'
  <2>1. RowInv(r) /\ (row'[r] = row[r] \/ (row[r] = "counted" /\ row'[r] = "removed"))
    BY <1>2 DEF IInv
  <2> QED BY <1>1, <1>2, <1>3, <1>5, <2>1 DEF RowInv, Misrouted
<1> QED BY <1>6, <1>7, <1>8, <1>9 DEF IInv

\* The DELETE reaches counted rows only.
LEMMA DeleteRowsIInv == ASSUME IInv, NEW late \in BOOLEAN, DeleteRows(late) PROVE IInv'
<1>1. /\ row' = [r \in Rows |-> IF Expired(r, late) THEN "removed" ELSE row[r]]
      /\ pass' = NoPass /\ UNCHANGED <<today, at, route, retried, attached, batch, totals>>
  BY DEF DeleteRows
<1>2. NoPass \in [phase : Phases, cutoff : Int, todo : SUBSET Days, dropped : Nat,
                  over : Int] /\ NoPass.phase = "idle"
  BY DEF NoPass, Phases
<1>3. \A r \in Rows : row'[r] = row[r] \/ (row[r] = "counted" /\ row'[r] = "removed")
  BY <1>1 DEF Expired
<1>4. TypeOK'
  <2>1. row' \in [Rows -> RowStates]
    BY <1>1 DEF IInv, TypeOK, RowStates
  <2> QED BY <1>1, <1>2, <2>1 DEF IInv, TypeOK
<1>5. BatchInv'
  BY <1>1, <1>3 DEF IInv, BatchInv, Pending
<1>6. PassInv'
  BY <1>1, <1>2 DEF PassInv
<1>7. \A r \in Rows : RowInv(r)'
  BY <1>1, <1>2, <1>3 DEF IInv, RowInv, Misrouted
<1> QED BY <1>4, <1>5, <1>6, <1>7 DEF IInv

\* Every step keeps the invariant.
LEMMA NextIInv == ASSUME IInv, [Next]_vars PROVE IInv'
<1>1. CASE \E r \in Rows : (\E d \in Days : Click(r, d)) \/ Insert(r)
  BY <1>1, InsertIInv
<1>2. CASE Claim \/ Commit \/ Abort
  BY <1>2, RollupIInv
<1>3. CASE StartPass \/ EnsureDay \/ DeclineDay \/ ListSpent \/ PassDies
  BY <1>3, EnsureIInv
<1>4. CASE LeaveDay \/ ListAttached \/ CapDone
  BY <1>4, TurnIInv
<1>5. CASE DropSpent \/ DropOverCap
  BY <1>5, DropIInv
<1>6. CASE \E late \in BOOLEAN : DeleteRows(late)
  BY <1>6, DeleteRowsIInv
<1>7. CASE \E d \in Days : Backfill(d)
  BY <1>7, BackfillIInv
<1>8. CASE Midnight
  BY <1>8, MidnightIInv
<1>9. CASE UNCHANGED vars
  BY <1>9 DEF vars, IInv, TypeOK, RowInv, Misrouted, BatchInv, Pending, PassInv
<1> QED BY <1>1, <1>2, <1>3, <1>4, <1>5, <1>6, <1>7, <1>8, <1>9 DEF Next, Maintain

-----------------------------------------------------------------------------
\* The inductive invariant holds in every reachable state.
THEOREM InductiveInvariant == Spec => []IInv
<1>1. Init => IInv
  BY InitIInv
<1>2. IInv /\ [Next]_vars => IInv'
  BY NextIInv
<1> QED BY <1>1, <1>2, PTL DEF Spec

\* Type correctness; no click is dated after the days that have begun.
THEOREM TypesAlways == Spec => []TypeOK
<1>1. IInv => TypeOK
  BY DEF IInv
<1> QED BY <1>1, InductiveInvariant, PTL

\* click-events.ts:90 "an insert must never fail for want of a partition, and here
\* one fails because a partition arrived": for any window and any number of
\* inserts, passes and backfills, no insert is refused twice.
THEOREM InsertSurvivesAttachAlways == Spec => []InsertSurvivesAttach
<1>1. IInv => InsertSurvivesAttach
  BY DEF IInv, RowInv, InsertSurvivesAttach
<1> QED BY <1>1, InductiveInvariant, PTL

\* The steps that remove rows or detach days.
LEMMA Removers ==
    ASSUME IInv, [Next]_vars
    PROVE  \/ DropSpent \/ DropOverCap \/ \E late \in BOOLEAN : DeleteRows(late)
           \/ (attached \subseteq attached' /\ \A r \in Rows : ~Removed(r))
<1> DEFINE Quiet == attached \subseteq attached' /\ \A r \in Rows : ~Removed(r)
<1>1. ASSUME NEW r \in Rows, (\E d \in Days : Click(r, d)) \/ Insert(r) PROVE Quiet
  <2>1. row \in [Rows -> RowStates]
    BY DEF IInv, TypeOK
  <2> QED BY <1>1, <2>1 DEF Click, Insert, Route, InsertLands, InsertFails, Removed, Misrouted
<1>2. CASE Claim \/ Commit \/ Abort
  BY <1>2 DEF Claim, Commit, Abort, Removed
<1>3. CASE StartPass \/ EnsureDay \/ DeclineDay \/ ListSpent \/ PassDies
  BY <1>3 DEF StartPass, EnsureDay, DeclineDay, ListSpent, PassDies, Turn, Removed
<1>4. CASE LeaveDay \/ ListAttached \/ CapDone \/ Midnight
  BY <1>4 DEF LeaveDay, ListAttached, CapDone, Turn, Midnight, Removed
<1>5. CASE \E d \in Days : Backfill(d)
  BY <1>5 DEF Backfill, Removed
<1>6. CASE UNCHANGED vars
  BY <1>6 DEF vars, Removed
<1> QED BY <1>1, <1>2, <1>3, <1>4, <1>5, <1>6 DEF Next, Maintain

\* rollup.ts:669: for any windows of the workspaces and of the install, the detail
\* of a click goes only after the shorter of the two, a whole partition only after
\* the last of its rows has left the window, or while the volume cap is exceeded.
THEOREM KeptForItsWindowAlways == Spec => KeptForItsWindow
<1>1. ASSUME IInv, [Next]_vars, NEW r \in Rows, Removed(r)
      PROVE  \/ at[r] < today - Least(r)
             \/ at[r] = today - Least(r) /\ attached' = attached
             \/ Cardinality(attached) > MaxRetained
  <2>0. at[r] \in Nat /\ today \in Nat /\ Least(r) \in Nat /\ Least(r) <= Install
    BY <1>1, PassTypes, Constants DEF IInv, TypeOK
  <2>1. ASSUME NEW late \in BOOLEAN, DeleteRows(late)
        PROVE  \/ at[r] < today - Least(r)
               \/ at[r] = today - Least(r) /\ attached' = attached
    BY <1>1, <2>1 DEF DeleteRows, Expired, Removed
  <2>2. CASE DropSpent
    <3>1. PICK d \in pass.todo : r \in Stored(d)
      BY <1>1, <2>2, DropDayFacts DEF DropSpent, Removed
    <3>2. at[r] + 1 <= pass.cutoff /\ pass.cutoff <= today - Install
      BY <1>1, <2>2, <3>1 DEF DropSpent, DropDay, IInv, PassInv, Stored
    <3> QED BY <1>1, <2>0, <3>2, PassTypes, Constants
  <2>3. CASE DropOverCap
    BY <1>1, <2>3, PassTypes, FiniteFacts, Constants
       DEF DropOverCap, DropDay, CapReached, IInv, PassInv
  <2> QED BY <1>1, <2>1, <2>2, <2>3, Removers
<1>2. IInv /\ [Next]_vars =>
        [\A r \in Rows : Removed(r) =>
            \/ at[r] < today - Least(r)
            \/ at[r] = today - Least(r) /\ attached' = attached
            \/ Cardinality(attached) > MaxRetained]_vars
  BY <1>1
<1> QED BY <1>2, InductiveInvariant, PTL DEF Spec, KeptForItsWindow

\* rollup.ts:784 "drop the OLDEST ones beyond the cap": whatever is attached and
\* dropped meanwhile, a day of the install's window is dropped only while more
\* days are attached than the cap allows.
THEOREM CapDropsOnlyExcessAlways == Spec => CapDropsOnlyExcess
<1>1. ASSUME IInv, [Next]_vars, NEW d \in attached \ attached', d + 1 > today - Install
      PROVE  Cardinality(attached) > MaxRetained
  <2>1. ~(\E late \in BOOLEAN : DeleteRows(late))
    BY <1>1 DEF DeleteRows
  <2>2. ASSUME DropSpent PROVE FALSE
    <3>1. d \in pass.todo
      BY <1>1, <2>2, DropDayFacts DEF DropSpent
    <3>2. d + 1 <= pass.cutoff /\ pass.cutoff <= today - Install
      BY <1>1, <2>2, <3>1 DEF DropSpent, DropDay, IInv, PassInv
    <3>3. d \in Nat
      BY <1>1, <3>1, PassTypes, Constants
    <3>4. today - Install \in Int /\ pass.cutoff \in Int
      BY <1>1, PassTypes, Constants
    <3> QED BY <1>1, <3>2, <3>3, <3>4
  <2>3. CASE DropOverCap
    BY <1>1, <2>3, PassTypes, FiniteFacts, Constants
       DEF DropOverCap, DropDay, CapReached, IInv, PassInv
  <2> QED BY <1>1, <2>1, <2>2, <2>3, Removers
<1>2. IInv /\ [Next]_vars =>
        [\A d \in attached \ attached' :
            d + 1 > today - Install => Cardinality(attached) > MaxRetained]_vars
  BY <1>1
<1> QED BY <1>2, InductiveInvariant, PTL DEF Spec, CapDropsOnlyExcess

-----------------------------------------------------------------------------
(* The refinement of the ledger.                                            *)

\* The landing of an insert records its click, under the day it has.
LEMMA LandsRecords ==
    ASSUME IInv, NEW r \in Rows, InsertLands(r)
    PROVE  Ledger!Next
<1>1. row[r] = "inserting" /\ at[r] \in Days /\ row \in [Rows -> RowStates]
  BY DEF IInv, TypeOK, RowInv, InsertLands
<1>2. Entry' = [Entry EXCEPT ![r] = [state |-> "pending", key |-> at[r], kind |-> "click"]]
  BY <1>1 DEF InsertLands, Entry, EntryOf
<1>3. Entry'[r] = [state |-> "pending", key |-> at[r], kind |-> "click"]
  BY <1>2 DEF Entry
<1>4. Entry[r].state = "absent"
  BY <1>1 DEF Entry, EntryOf
<1>5. UNCHANGED Totals
  BY DEF InsertLands, Totals
<1>6. Ledger!Record(r)
  <2>1. Entry'[r] \in [state : {"pending"}, key : Days, kind : Ledger!Kinds]
    BY <1>1, <1>3 DEF Ledger!Kinds
  <2> QED BY <1>2, <1>3, <1>5, <2>1 DEF Ledger!Record
<1>7. r \in Ledger!In("absent")
  BY <1>4 DEF Ledger!In
<1> QED BY <1>6, <1>7 DEF Ledger!Next

\* The commit of a rollup adds its batch to the totals, once, with its marks.
LEMMA CommitCounts == ASSUME IInv, Commit PROVE Ledger!Next
<1>0. PICK B : B = batch
  OBVIOUS
<1>1. batch \subseteq Rows /\ row \in [Rows -> RowStates]
      /\ \A r \in batch : row[r] = "pending"
  BY DEF IInv, TypeOK, BatchInv, Pending
<1>2. batch \in SUBSET Ledger!In("pending")
  BY <1>1 DEF Ledger!In, Entry, EntryOf
<1>3. Entry' = Ledger!Moved(batch, "counted")
  BY <1>1 DEF Commit, Entry, EntryOf, Ledger!Moved
<1>4. ASSUME NEW d \in Days
      PROVE  /\ Ledger!HowMany(batch, d, "click") = Cardinality({r \in batch : at[r] = d})
             /\ Ledger!HowMany(batch, d, "blocked") = 0
  <2>1. {r \in batch : Entry[r].key = d /\ Entry[r].kind = "click"} = {r \in batch : at[r] = d}
    BY <1>1 DEF Entry, EntryOf
  <2>2. {r \in batch : Entry[r].key = d /\ Entry[r].kind = "blocked"} = {}
    BY <1>1 DEF Entry, EntryOf
  <2>3. ASSUME NEW k
        PROVE  Ledger!HowMany(batch, d, k)
                  = Cardinality({r \in batch : Entry[r].key = d /\ Entry[r].kind = k})
    BY DEF Ledger!HowMany, Ledger!Cardinality, Cardinality
  <2> QED BY <2>1, <2>2, <2>3, FS_EmptySet
<1>5. Totals' = [d \in Days |->
          [clicks |-> Totals[d].clicks + Ledger!HowMany(batch, d, "click"),
           blocked |-> Totals[d].blocked + Ledger!HowMany(batch, d, "blocked")]]
  BY <1>4 DEF Commit, Totals
<1>6. Ledger!Count(B)
  BY <1>0, <1>3, <1>5 DEF Ledger!Count
<1> QED BY <1>0, <1>2, <1>6 DEF Ledger!Next

\* Only counted rows are removed, by a partition's drop or by the DELETE.
LEMMA RemovalExpires ==
    ASSUME IInv, NEW S, S \subseteq {r \in Rows : row[r] = "counted"},
           row' = [r \in Rows |-> IF r \in S THEN "removed" ELSE row[r]],
           UNCHANGED <<at, totals>>
    PROVE  Ledger!Next
<1>1. row \in [Rows -> RowStates]
  BY DEF IInv, TypeOK
<1>2. S \in SUBSET Ledger!In("counted")
  BY <1>1 DEF Ledger!In, Entry, EntryOf
<1>3. Entry' = Ledger!Moved(S, "removed")
  BY <1>1 DEF Entry, EntryOf, Ledger!Moved
<1>4. Ledger!Expire(S)
  BY <1>3 DEF Ledger!Expire, Totals
<1> QED BY <1>2, <1>4 DEF Ledger!Next

\* Every step is a step of the ledger, or none.
LEMMA NextLedger ==
    ASSUME IInv, [Next]_vars
    PROVE  Ledger!Next \/ UNCHANGED <<Entry, Totals>>
<1>1. CASE \E r \in Rows : InsertLands(r)
  BY <1>1, LandsRecords
<1>2. ASSUME NEW r \in Rows, (\E d \in Days : Click(r, d)) \/ Route(r) \/ InsertFails(r)
      PROVE  UNCHANGED <<Entry, Totals>>
  <2>1. /\ row \in [Rows -> RowStates] /\ at \in [Rows -> 0 .. today]
        /\ RowInv(r) /\ RowInv(r)'
    BY <1>2, NextIInv DEF IInv, TypeOK
  <2>2. ASSUME NEW q \in Rows PROVE EntryOf(q)' = EntryOf(q)
    <3>1. CASE q # r
      BY <1>2, <2>1, <3>1 DEF Click, Route, InsertFails, EntryOf
    <3>2. CASE q = r
      BY <1>2, <2>1, <3>2 DEF Click, Route, InsertFails, EntryOf, RowInv, Misrouted
    <3> QED BY <3>1, <3>2
  <2>3. UNCHANGED totals
    BY <1>2 DEF Click, Route, InsertFails
  <2> QED BY <2>2, <2>3 DEF Entry, Totals
<1>3. CASE Commit
  BY <1>3, CommitCounts
<1>4. CASE DropSpent \/ DropOverCap
  <2>1. UNCHANGED <<at, totals>>
    BY <1>4 DEF DropSpent, DropOverCap, DropDay
  <2>2. PICK d : /\ Stored(d) \subseteq {r \in Rows : row[r] = "counted"}
                 /\ row' = [r \in Rows |-> IF r \in Stored(d) THEN "removed" ELSE row[r]]
    BY <1>4, DropDayFacts DEF DropSpent, DropOverCap
  <2> QED BY <2>1, <2>2, RemovalExpires
<1>5. ASSUME NEW late \in BOOLEAN, DeleteRows(late) PROVE Ledger!Next
  <2>1. PICK S : S = {r \in Rows : Expired(r, late)}
    OBVIOUS
  <2>2. /\ S \subseteq {r \in Rows : row[r] = "counted"}
        /\ row' = [r \in Rows |-> IF r \in S THEN "removed" ELSE row[r]]
        /\ UNCHANGED <<at, totals>>
    BY <1>5, <2>1 DEF DeleteRows, Expired
  <2> QED BY <2>2, RemovalExpires
<1>6. CASE UNCHANGED <<row, at, totals>>
  BY <1>6 DEF Entry, EntryOf, Totals
<1>7. CASE Claim \/ Abort \/ StartPass \/ EnsureDay \/ DeclineDay \/ ListSpent \/ PassDies
           \/ LeaveDay \/ ListAttached \/ CapDone \/ Midnight \/ (\E d \in Days : Backfill(d))
           \/ UNCHANGED vars
  BY <1>6, <1>7 DEF Claim, Abort, StartPass, EnsureDay, DeclineDay, ListSpent, PassDies, Turn,
     LeaveDay, ListAttached, CapDone, Midnight, Backfill, vars
<1> QED BY <1>1, <1>2, <1>3, <1>4, <1>5, <1>7 DEF Next, Maintain, Insert

\* rollup.ts:890 "raw detail is never discarded before it has been counted": for
\* any rows, partitions and passes, the tables keep the ledger's promise.
THEOREM ImplementsLedger == Spec => LedgerSpec
<1>1. Init => Ledger!Init
  BY DEF Init, Ledger!Init, Entry, EntryOf, Totals
<1>2. IInv /\ [Next]_vars => [Ledger!Next]_<<Entry, Totals>>
  BY NextLedger
<1> QED BY <1>1, <1>2, InductiveInvariant, PTL
        DEF Spec, LedgerSpec, Ledger!Spec
=============================================================================
