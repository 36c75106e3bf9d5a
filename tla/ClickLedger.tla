---------------------------- MODULE ClickLedger ----------------------------
(***************************************************************************)
(* What the click tables promise, without transactions, partitions or      *)
(* passes: a click row is recorded, later added to the daily totals, once, *)
(* and only then may its detail expire.  The totals never lose what was    *)
(* added to them.                                                          *)
(***************************************************************************)
EXTENDS Naturals, FiniteSets

CONSTANTS
    Entries,    \* rows of click_events
    Keys        \* rows of click_daily: a link and a day

VARIABLES
    entry,      \* entry[e]: its state, its row of click_daily, and its kind
    totals      \* totals[k]: what the dashboards read

Kinds == {"click", "bot", "blocked"}

Init ==
    /\ entry = [e \in Entries |-> [state |-> "absent"]]
    /\ totals = [k \in Keys |-> [clicks |-> 0, blocked |-> 0]]

In(state) == {e \in Entries : entry[e].state = state}

\* With any key and any kind, which it keeps.
Record(e) ==
    /\ entry'[e] \in [state : {"pending"}, key : Keys, kind : Kinds]
    /\ entry' = [entry EXCEPT ![e] = entry'[e]]
    /\ UNCHANGED totals

Moved(S, state) ==
    [e \in Entries |-> IF e \in S THEN [entry[e] EXCEPT !.state = state] ELSE entry[e]]

HowMany(S, k, kind) == Cardinality({e \in S : entry[e].key = k /\ entry[e].kind = kind})

Count(S) ==
    /\ entry' = Moved(S, "counted")
    /\ totals' = [k \in Keys |->
                     [clicks |-> totals[k].clicks + HowMany(S, k, "click"),
                      blocked |-> totals[k].blocked + HowMany(S, k, "blocked")]]

Expire(S) ==
    /\ entry' = Moved(S, "removed")
    /\ UNCHANGED totals

Next ==
    \/ \E e \in In("absent") : Record(e)
    \/ \E S \in SUBSET In("pending") : Count(S)
    \/ \E S \in SUBSET In("counted") : Expire(S)

Spec == Init /\ [][Next]_<<entry, totals>>
=============================================================================
