------------------------- MODULE RedirectCacheProofs -------------------------
(***************************************************************************)
(* The cache's promises hold for any number of requests, any TTL and any   *)
(* request ceiling, however often the link changes.                        *)
(***************************************************************************)
EXTENDS RedirectCache, TLAPS

\* A version that is current, or still to come, has not been replaced.
PastInv == \A v \in Versions : v >= source.version => past[v] = 0

\* What a request has read was current at some moment since it asked.
Recent(l, ticks) ==
    l # Unread =>
        /\ l \in Links
        /\ l.version <= source.version
        /\ l.version >= floor
        /\ past[l.version] <= ticks

RequestInv ==
    \A q \in Requests :
        /\ Recent(seen[q].link, age[q])
        /\ Recent(seen[q].rules, age[q])
        /\ phase[q] = "idle" => seen[q] = NoAnswer

\* The entry was filled within a request's ceiling of being current, and has
\* aged since by what is gone of its TTL.
EntryInv ==
    left > 0 =>
        /\ entry.link \in Links /\ entry.rules \in Links
        /\ entry.link.exists
        /\ Recent(entry.link, Ceiling + Ttl - left)
        /\ Recent(entry.rules, Ceiling + Ttl - left)

IInv == TypeOK /\ PastInv /\ RequestInv /\ EntryInv /\ floor <= source.version

-----------------------------------------------------------------------------
\* Nothing is cached and no request is under way.
LEMMA InitIInv == ASSUME RedirectCacheAssumption, Init PROVE IInv
<1> USE DEF RedirectCacheAssumption, Init
<1>1. TypeOK
  <2>1. source \in Links /\ floor \in Versions
    BY DEF Links, Versions
  <2>2. entry \in Answers /\ seen \in [Requests -> Answers]
    BY DEF Answers, NoAnswer
  <2>3. past \in [Versions -> 0 .. Horizon] /\ left \in 0 .. Ttl
    BY DEF Horizon
  <2>4. phase \in [Requests -> {"idle", "resolving"}] /\ owed \in BOOLEAN
    BY Zenon
  <2>5. age \in [Requests -> 0 .. Ceiling]
    BY 0 \in 0 .. Ceiling
  <2> HIDE DEF Init
  <2> QED BY <2>1, <2>2, <2>3, <2>4, <2>5 DEF TypeOK
<1>2. PastInv /\ EntryInv /\ floor <= source.version
  BY DEF PastInv, EntryInv
<1>3. RequestInv
  BY DEF RequestInv, Recent, NoAnswer
<1> QED BY <1>1, <1>2, <1>3 DEF IInv

\* What has not been read is told from every link.
LEMMA UnreadNoLink == ASSUME RedirectCacheAssumption PROVE Unread \notin Links
  BY DEF Unread, Links, Versions, RedirectCacheAssumption

\* A change makes what was read one version older, and no tick has passed.
LEMMA ChangeIInv ==
    ASSUME RedirectCacheAssumption, IInv, NEW exists \in BOOLEAN, Change(exists),
           owed' \in BOOLEAN
    PROVE  IInv'
<1> USE DEF RedirectCacheAssumption, Change, IInv
<1>1. TypeOK'
  BY DEF TypeOK, Links, Versions, Horizon
<1>2. PastInv' /\ (floor <= source.version)'
  BY DEF TypeOK, PastInv, Links, Versions
<1>3. \A l, n : Recent(l, n) => Recent(l, n)'
  BY DEF TypeOK, Recent, Links, Versions
<1>4. RequestInv'
  BY <1>3 DEF RequestInv
<1>5. EntryInv'
  BY <1>3 DEF EntryInv
<1> QED BY <1>1, <1>2, <1>4, <1>5

\* A clean bust leaves no older version, in the cache or in a request.
LEMMA BustIInv ==
    ASSUME RedirectCacheAssumption, IInv, Bust PROVE IInv'
<1> USE DEF RedirectCacheAssumption, Bust, Evict, IInv
<1>1. TypeOK'
  <2>1. floor' \in Versions
    BY DEF TypeOK, Links
  <2>2. entry' \in Answers /\ left' \in 0 .. Ttl
    BY DEF Answers, NoAnswer
  <2> QED BY <2>1, <2>2 DEF TypeOK
<1>2. PastInv' /\ (floor <= source.version)'
  BY DEF TypeOK, PastInv, Links, Versions
<1>3. EntryInv'
  BY DEF EntryInv
<1>4. ASSUME NEW l, NEW n, Recent(l, n),
             ~Racing => l.version \notin 1 .. source.version - 1
      PROVE  Recent(l, n)'
  <2>1. CASE l = Unread
    BY <2>1 DEF Recent
  <2>2. CASE l # Unread
    <3>1. /\ l \in Links /\ l.version \in Versions /\ source.version \in Versions
          /\ l.version <= source.version /\ l.version >= floor /\ past[l.version] <= n
      BY <1>4, <2>2 DEF Recent, TypeOK, Links
    <3>2. l.version >= floor'
      BY <1>4, <3>1 DEF Versions
    <3> QED BY <3>1, <3>2 DEF Recent
  <2> QED BY <2>1, <2>2
<1>5. RequestInv'
  <2>1. ASSUME NEW q \in Requests
        PROVE  Recent(seen[q].link, age[q])' /\ Recent(seen[q].rules, age[q])'
    BY <1>4 DEF RequestInv, Racing
  <2> QED BY <2>1 DEF RequestInv
<1> QED BY <1>1, <1>2, <1>3, <1>5

\* A read finds the current version.
LEMMA ReadIInv ==
    ASSUME RedirectCacheAssumption, IInv, NEW p \in Requests,
           ReadLink(p) \/ ReadRules(p)
    PROVE  IInv'
<1> USE DEF RedirectCacheAssumption, ReadLink, ReadRules, IInv
<1>1. TypeOK'
  BY DEF TypeOK, Answers
<1>2. PastInv' /\ (floor <= source.version)'
  BY DEF PastInv
<1>3. \A l, n : Recent(l, n) <=> Recent(l, n)'
  BY DEF Recent
<1>4. EntryInv'
  BY <1>3 DEF EntryInv
<1>5. Recent(source, age[p])
  BY DEF TypeOK, PastInv, Recent, Links, Versions
<1>6. RequestInv'
  <2> SUFFICES ASSUME NEW q \in Requests
               PROVE  /\ Recent(seen'[q].link, age[q])
                      /\ Recent(seen'[q].rules, age[q])
                      /\ phase[q] = "idle" => seen'[q] = NoAnswer
    BY <1>3 DEF RequestInv
  <2> QED BY <1>5 DEF RequestInv, TypeOK, Answers
<1> QED BY <1>1, <1>2, <1>4, <1>6

\* A request ends: the entry it may have filled is as recent as what it read.
LEMMA FinishIInv ==
    ASSUME RedirectCacheAssumption, IInv, NEW p \in Requests,
           Fill(p) \/ NotFound(p) \/ Abort(p)
    PROVE  IInv'
<1> USE DEF RedirectCacheAssumption, Fill, NotFound, Abort, Finish, IInv
<1>1. TypeOK'
  BY DEF TypeOK, Answers, NoAnswer
<1>2. PastInv' /\ (floor <= source.version)'
  BY DEF PastInv
<1>3. \A l, n : Recent(l, n) <=> Recent(l, n)'
  BY DEF Recent
<1>4. RequestInv'
  <2>1. \A n : Recent(NoAnswer.link, n) /\ Recent(NoAnswer.rules, n)
    BY DEF Recent, NoAnswer
  <2> SUFFICES ASSUME NEW q \in Requests
               PROVE  /\ Recent(seen'[q].link, age'[q])
                      /\ Recent(seen'[q].rules, age'[q])
                      /\ phase'[q] = "idle" => seen'[q] = NoAnswer
    BY <1>3 DEF RequestInv
  <2> QED BY <2>1 DEF RequestInv, TypeOK
<1>5. EntryInv'
  <2>1. CASE Fill(p)
    <3>1. /\ Recent(seen[p].link, age[p]) /\ Recent(seen[p].rules, age[p])
          /\ seen[p].link # Unread /\ seen[p].rules # Unread
      BY <2>1 DEF RequestInv, HasRead
    <3>2. /\ Recent(seen[p].link, Ceiling) /\ Recent(seen[p].rules, Ceiling)
          /\ seen[p].link \in Links /\ seen[p].rules \in Links
      BY <3>1 DEF Recent, TypeOK, Links, Versions
    <3>3. entry' = seen[p] /\ left' = Ttl /\ seen[p].link.exists
      BY <2>1
    <3>4. Ceiling + Ttl - left' = Ceiling
      BY <3>3
    <3> QED BY <3>2, <3>3, <3>4, <1>3 DEF EntryInv
  <2>2. CASE NotFound(p) \/ Abort(p)
    BY <2>2, <1>3 DEF EntryInv
  <2> QED BY <2>1, <2>2
<1> QED BY <1>1, <1>2, <1>4, <1>5

\* A tick ages what was read and what is cached alike.
LEMMA TickIInv ==
    ASSUME RedirectCacheAssumption, IInv, Tick PROVE IInv'
<1> USE DEF RedirectCacheAssumption, Tick, IInv
<1>1. TypeOK'
  BY DEF TypeOK, Horizon, Answers, NoAnswer, Unread, Links, Versions
<1>2. PastInv' /\ (floor <= source.version)'
  BY DEF PastInv, TypeOK, Links, Versions
<1>3. ASSUME NEW l, NEW n \in Int, Recent(l, n) PROVE Recent(l, n + 1)'
  BY <1>3 DEF Recent, TypeOK, Links, Versions, Horizon
<1>4. RequestInv'
  <2>1. \A n : Recent(NoAnswer.link, n)' /\ Recent(NoAnswer.rules, n)'
    BY DEF Recent, NoAnswer
  <2> SUFFICES ASSUME NEW q \in Requests
               PROVE  /\ Recent(seen[q].link, age[q])'
                      /\ Recent(seen[q].rules, age[q])'
                      /\ phase[q] = "idle" => seen[q] = NoAnswer
    BY DEF RequestInv
  <2>2. CASE phase[q] = "idle"
    BY <2>1, <2>2 DEF RequestInv
  <2>3. CASE phase[q] # "idle"
    <3>1. age[q] \in Int /\ age'[q] = age[q] + 1
      BY <2>3 DEF TypeOK
    <3> QED BY <3>1, <1>3, <2>3 DEF RequestInv
  <2> QED BY <2>2, <2>3
<1>5. EntryInv'
  <2> SUFFICES ASSUME left' > 0 PROVE EntryInv'
    BY DEF EntryInv
  <2>1. left > 0 /\ entry' = entry
    BY DEF TypeOK
  <2>2. Ceiling + Ttl - left' = Ceiling + Ttl - left + 1 /\ Ceiling + Ttl - left \in Int
    BY <2>1 DEF TypeOK
  <2> QED BY <2>1, <2>2, <1>3 DEF EntryInv
<1> QED BY <1>1, <1>2, <1>4, <1>5

\* Nothing else touches the source, the clock or what was read.
LEMMA OtherIInv ==
    ASSUME RedirectCacheAssumption, IInv,
           \/ Announce \/ BustLost \/ UNCHANGED vars
           \/ \E q \in Requests : Hit(q) \/ Miss(q)
    PROVE  IInv'
<1> USE DEF RedirectCacheAssumption, IInv
<1>1. \A l, n : Recent(l, n) <=> Recent(l, n)'
  BY DEF Recent, Announce, BustLost, vars, Hit, Miss
<1>2. CASE Announce \/ BustLost \/ UNCHANGED vars \/ \E q \in Requests : Hit(q)
  BY <1>2, <1>1 DEF Announce, BustLost, vars, Hit, TypeOK, PastInv, RequestInv, EntryInv
<1>3. ASSUME NEW p \in Requests, Miss(p) PROVE IInv'
  <2>1. seen[p] = NoAnswer
    BY <1>3 DEF Miss, RequestInv
  <2>2. \A n : Recent(NoAnswer.link, n) /\ Recent(NoAnswer.rules, n)
    BY DEF Recent, NoAnswer
  <2>3. RequestInv'
    <3> SUFFICES ASSUME NEW q \in Requests
                 PROVE  /\ Recent(seen[q].link, age'[q])
                        /\ Recent(seen[q].rules, age'[q])
                        /\ phase'[q] = "idle" => seen[q] = NoAnswer
      BY <1>1, <1>3 DEF RequestInv, Miss
    <3> QED BY <2>1, <2>2, <1>3 DEF Miss, RequestInv, TypeOK
  <2>4. TypeOK' /\ PastInv' /\ EntryInv' /\ (floor <= source.version)'
    BY <1>3, <1>1 DEF Miss, TypeOK, PastInv, EntryInv
  <2> QED BY <2>3, <2>4
<1> QED BY <1>2, <1>3

\* Every step keeps how old what is held and what is cached may be.
LEMMA NextIInv ==
    ASSUME RedirectCacheAssumption, IInv, [Next]_vars PROVE IInv'
<1>1. CASE Edit
  BY <1>1, ChangeIInv DEF Edit, IInv, TypeOK
<1>2. ASSUME NEW exists \in BOOLEAN, Withdraw(exists) PROVE IInv'
  BY <1>2, ChangeIInv DEF Withdraw
<1>3. CASE Bust
  BY <1>3, BustIInv
<1>4. ASSUME NEW q \in Requests, Resolve(q) PROVE IInv'
  BY <1>4, ReadIInv, FinishIInv, OtherIInv DEF Resolve
<1>5. CASE Tick
  BY <1>5, TickIInv
<1>6. CASE Announce \/ BustLost \/ UNCHANGED vars
  BY <1>6, OtherIInv
<1> QED BY <1>1, <1>2, <1>3, <1>4, <1>5, <1>6 DEF Next

-----------------------------------------------------------------------------
\* What may be answered, from the entry or from a request of its own, is recent.
LEMMA AnswersFromIInv ==
    ASSUME RedirectCacheAssumption, IInv
    PROVE  BoundedStaleness /\ NewLinkAnswers /\ EvictedStaysGone
<1> USE DEF RedirectCacheAssumption, IInv
<1>1. ASSUME left > 0
      PROVE  /\ past[entry.link.version] < Ttl + Ceiling
             /\ past[entry.rules.version] < Ttl + Ceiling
             /\ entry.link.exists
             /\ entry.link.version >= floor /\ entry.rules.version >= floor
  BY <1>1, UnreadNoLink DEF EntryInv, Recent, TypeOK, Links, Versions
<1>2. ASSUME NEW q \in Requests, HasRead(q)
      PROVE  /\ past[seen[q].link.version] <= Ceiling
             /\ past[seen[q].rules.version] <= Ceiling
             /\ seen[q].link.version >= floor /\ seen[q].rules.version >= floor
  BY <1>2 DEF HasRead, RequestInv, Recent, TypeOK, Links, Versions
<1>3. ASSUME NEW q \in Requests, HasRead(q)
      PROVE  /\ past[seen[q].link.version] < Ttl + Ceiling
             /\ past[seen[q].rules.version] < Ttl + Ceiling
  BY <1>2, <1>3 DEF HasRead, RequestInv, Recent, TypeOK, Links, Versions
<1> QED BY <1>1, <1>2, <1>3 DEF BoundedStaleness, NewLinkAnswers, EvictedStaysGone, Answerable

\* The inductive invariant holds in every reachable state.
LEMMA Invariance == ASSUME RedirectCacheAssumption PROVE Spec => []IInv
<1>1. Init => IInv
  BY InitIInv
<1>2. IInv /\ [Next]_vars => IInv'
  BY NextIInv
<1> QED BY <1>1, <1>2, PTL DEF Spec

\* Type correctness of the source, the entry and the requests.
THEOREM CacheTypes == ASSUME RedirectCacheAssumption PROVE Spec => []TypeOK
<1>1. IInv => TypeOK
  BY DEF IInv
<1> QED BY <1>1, Invariance, PTL

\* caching-resolver.ts:16 the TTL, and the request that filled the entry, bound
\* how old an answer is.
THEOREM AnswersAreRecent ==
    ASSUME RedirectCacheAssumption PROVE Spec => []BoundedStaleness
<1>1. IInv => BoundedStaleness
  BY AnswersFromIInv
<1> QED BY <1>1, Invariance, PTL

\* caching-resolver.ts:45 no miss is cached, so a new link is found at once.
THEOREM NewLinksAnswer ==
    ASSUME RedirectCacheAssumption PROVE Spec => []NewLinkAnswers
<1>1. IInv => NewLinkAnswers
  BY AnswersFromIInv
<1> QED BY <1>1, Invariance, PTL

\* caching-resolver.ts:53 a bust that no read straddled is final.
THEOREM CleanBustIsFinal ==
    ASSUME RedirectCacheAssumption PROVE Spec => []EvictedStaysGone
<1>1. IInv => EvictedStaysGone
  BY AnswersFromIInv
<1> QED BY <1>1, Invariance, PTL
=============================================================================
