---------------------------- MODULE RedirectCache ----------------------------
(***************************************************************************)
(* The redirect's cache entry of one (host, slug): caching-resolver.ts     *)
(* fills it, lets it expire, and the API and the worker evict it           *)
(* (link-cache-bust.service.ts, cache-bust-listener.ts, dynamo-projection  *)
(* .ts bustCache).                                                         *)
(*                                                                         *)
(* `source' is what the inner resolver reads: Postgres, or the projection. *)
(* Every change gives it the next version, so that how old an answer is    *)
(* can be told from its version.  Time is kept relative to the clock.      *)
(***************************************************************************)
EXTENDS Integers

CONSTANTS
    Requests,       \* requests for the slug that may be in progress together
    Ttl,            \* LINK_CACHE_TTL_SECONDS, in clock ticks
    Ceiling,        \* a request is over at this age (the function's timeout)
    MaxVersion      \* bound: how often the link is changed

ASSUME RedirectCacheAssumption ==
    /\ Ttl \in Nat \ {0}
    /\ Ceiling \in Nat
    /\ MaxVersion \in Nat \ {0}

VARIABLES
    source,     \* the link as the inner resolver would read it now
    past,       \* past[v]: ticks since version v was replaced, up to Horizon
    entry,      \* what the cache holds for the key, if left > 0
    left,       \* its expiresAt - now; 0: no entry, or an expired one
    phase,      \* phase[q]: "idle" or "resolving" (past a cache miss)
    age,        \* age[q]: ticks since q asked the cache
    seen,       \* seen[q]: what q has read so far
    owed,       \* is a bust on its way?
    floor       \* history: the version that the last clean bust made way for

vars == <<source, past, entry, left, phase, age, seen, owed, floor>>

Horizon == Ttl + Ceiling
Versions == 1 .. MaxVersion
Links == [version : Versions, exists : BOOLEAN]
Unread == [version |-> 0, exists |-> FALSE]
NoAnswer == [link |-> Unread, rules |-> Unread]
Answers == [link : Links \cup {Unread}, rules : Links \cup {Unread}]

TypeOK ==
    /\ source \in Links
    /\ past \in [Versions -> 0 .. Horizon]
    /\ entry \in Answers
    /\ left \in 0 .. Ttl
    /\ phase \in [Requests -> {"idle", "resolving"}]
    /\ age \in [Requests -> 0 .. Ceiling]
    /\ seen \in [Requests -> Answers]
    /\ owed \in BOOLEAN
    /\ floor \in Versions

Init ==
    /\ source \in [version : {1}, exists : BOOLEAN]
    /\ past = [v \in Versions |-> 0]
    /\ entry = NoAnswer
    /\ left = 0
    /\ phase = [q \in Requests |-> "idle"]
    /\ age = [q \in Requests |-> 0]
    /\ seen = [q \in Requests |-> NoAnswer]
    /\ owed = FALSE
    /\ floor = 1

-----------------------------------------------------------------------------
(* The writers.                                                            *)

Change(exists) ==
    /\ source.version < MaxVersion
    /\ source' = [version |-> source.version + 1, exists |-> exists]
    /\ UNCHANGED <<past, entry, left, phase, age, seen, floor>>

\* The link is created, or edited.  The API leaves its cache entry to the TTL;
\* the worker evicts it once it has projected the change.
Edit ==
    /\ Change(TRUE)
    /\ owed' \in {owed, TRUE}

\* The link is removed, flagged or disabled: the API evicts its entry once the
\* transaction has committed.
Withdraw(exists) ==
    /\ source.exists
    /\ Change(exists)
    /\ owed' = TRUE

\* The same, where the inner resolver reads the projection: the API's bust is
\* on its way before the projection has changed.
Announce ==
    /\ source.exists
    /\ ~owed
    /\ owed' = TRUE
    /\ UNCHANGED <<source, past, entry, left, phase, age, seen, floor>>

Evict == entry' = NoAnswer /\ left' = 0

\* A request that has read an older version is still to fill the cache.
Racing ==
    \E q \in Requests :
        \/ seen[q].link.version \in 1 .. source.version - 1
        \/ seen[q].rules.version \in 1 .. source.version - 1

\* mutant: the two sides disagree about the key
Bust_OtherKey ==
    /\ owed
    /\ owed' = FALSE
    /\ floor' = IF Racing THEN floor ELSE source.version
    /\ UNCHANGED <<source, past, entry, left, phase, age, seen>>

\* CacheStore.del on the redirect's own store, by the API, the listener of the
\* NOTIFY or the worker.
Bust ==
    /\ owed
    /\ owed' = FALSE
    /\ Evict
    /\ floor' = IF Racing THEN floor ELSE source.version
    /\ UNCHANGED <<source, past, phase, age, seen>>

\* Both paths are best effort: the process dies after its commit, the listener
\* is reconnecting, the store does not answer.
BustLost ==
    /\ owed
    /\ owed' = FALSE
    /\ UNCHANGED <<source, past, entry, left, phase, age, seen, floor>>

-----------------------------------------------------------------------------
(* A request: resolve() of the caching resolver.                           *)

\* mutant: a hit starts the TTL again
Hit_Sliding(q) ==
    /\ phase[q] = "idle"
    /\ left > 0
    /\ left' = Ttl
    /\ UNCHANGED <<source, past, entry, phase, age, seen, owed, floor>>

\* A hit answers with the entry as it is.
Hit(q) ==
    /\ phase[q] = "idle"
    /\ left > 0
    /\ UNCHANGED vars

Miss(q) ==
    /\ phase[q] = "idle"
    /\ left = 0
    /\ phase' = [phase EXCEPT ![q] = "resolving"]
    /\ age' = [age EXCEPT ![q] = 0]
    /\ UNCHANGED <<source, past, entry, left, seen, owed, floor>>

\* The link row and its rules are two queries of their own, in any order.
ReadLink(q) ==
    /\ phase[q] = "resolving"
    /\ seen[q].link = Unread
    /\ seen' = [seen EXCEPT ![q].link = source]
    /\ UNCHANGED <<source, past, entry, left, phase, age, owed, floor>>

ReadRules(q) ==
    /\ phase[q] = "resolving"
    /\ seen[q].rules = Unread
    /\ seen' = [seen EXCEPT ![q].rules = source]
    /\ UNCHANGED <<source, past, entry, left, phase, age, owed, floor>>

HasRead(q) == seen[q].link # Unread /\ seen[q].rules # Unread

Finish(q) ==
    /\ phase' = [phase EXCEPT ![q] = "idle"]
    /\ age' = [age EXCEPT ![q] = 0]
    /\ seen' = [seen EXCEPT ![q] = NoAnswer]
    /\ UNCHANGED <<source, past, owed, floor>>

Fill_Negative(q) ==                 \* mutant: a miss is cached like a hit
    /\ HasRead(q)
    /\ entry' = seen[q]
    /\ left' = Ttl
    /\ Finish(q)
Fill_TooLong(q) ==                  \* mutant: the TTL is one tick too long
    /\ HasRead(q)
    /\ seen[q].link.exists
    /\ entry' = seen[q]
    /\ left' = Ttl + 1
    /\ Finish(q)

\* A link was found: it is cached, and the request is answered.
Fill(q) ==
    /\ HasRead(q)
    /\ seen[q].link.exists
    /\ entry' = seen[q]
    /\ left' = Ttl
    /\ Finish(q)

\* None was found: 404, and nothing is cached.
NotFound(q) ==
    /\ HasRead(q)
    /\ ~seen[q].link.exists
    /\ UNCHANGED <<entry, left>>
    /\ Finish(q)

\* A read or the set fails, or the request is killed; a set whose answer was
\* lost is a Fill.
Abort(q) ==
    /\ phase[q] = "resolving"
    /\ UNCHANGED <<entry, left>>
    /\ Finish(q)

-----------------------------------------------------------------------------
\* The clock.  A request is over at its ceiling, so time does not get past it
\* while the request is still there.
Tick ==
    /\ \A q \in Requests : phase[q] = "resolving" => age[q] < Ceiling
    /\ age' = [q \in Requests |-> IF phase[q] = "idle" THEN 0 ELSE age[q] + 1]
    /\ past' = [v \in Versions |->
                   IF v < source.version /\ past[v] < Horizon THEN past[v] + 1 ELSE past[v]]
    /\ left' = IF left = 0 THEN 0 ELSE left - 1
    /\ entry' = IF left' = 0 THEN NoAnswer ELSE entry
    /\ UNCHANGED <<source, phase, seen, owed, floor>>

Resolve(q) ==
    Hit(q) \/ Miss(q) \/ ReadLink(q) \/ ReadRules(q) \/ Fill(q) \/ NotFound(q) \/ Abort(q)

Next ==
    \/ Edit
    \/ \E exists \in BOOLEAN : Withdraw(exists)
    \/ Announce \/ Bust \/ BustLost
    \/ \E q \in Requests : Resolve(q)
    \/ Tick

Spec == Init /\ [][Next]_vars

-----------------------------------------------------------------------------
\* What a request may be answered with at this moment: the entry, or what a
\* request that missed it has read.
Answerable ==
    (IF left > 0 THEN {entry} ELSE {}) \cup {seen[q] : q \in {p \in Requests : HasRead(p)}}

\* main.ts:132 "stops serving its old destination within this many seconds",
\* caching-resolver.ts:19: no answer is older than the TTL and the time of the
\* one request that filled the cache, whatever busts are lost.
BoundedStaleness ==
    \A a \in Answerable :
        past[a.link.version] < Ttl + Ceiling /\ past[a.rules.version] < Ttl + Ceiling

\* caching-resolver.ts:45 "Only positive hits are cached": a link that exists is
\* not found only by a request that looked before it was created.
NewLinkAnswers ==
    \A a \in Answerable : ~a.link.exists => past[a.link.version] <= Ceiling

\* caching-resolver.ts:53 "must stop resolving to the old entry right now": after
\* a bust that no request's read straddled, no older version is ever answered.
EvictedStaysGone ==
    \A a \in Answerable : a.link.version >= floor /\ a.rules.version >= floor
=============================================================================
