-------------------------- MODULE DomainMetaProofs --------------------------
(***************************************************************************)
(* For any number of rows, drains, redirects and re-connections, and       *)
(* whatever overruns its lease:                                            *)
(*   - the projection never diverges from Postgres silently;               *)
(*   - the stored item never goes back to an older state of the host;      *)
(*   - no row is tried more often than the outbox bounds it.               *)
(***************************************************************************)
EXTENDS DomainMeta, OutboxProofs

\* The host as the last transaction that wrote a domain op left it.  Connecting
\* a domain without a redirect writes none and changes nothing that is served.
Unannounced ==
    dom.status # "none" /\ dom.version = 1 /\ dom.redirect = NoRedirect
LastId == IF Unannounced THEN dom.id - 1 ELSE dom.id
Announced ==
    IF dom.status # "none" /\ ~Unannounced THEN RowItem
    ELSE IF LastId = 0 THEN NoItem ELSE Tombstone(LastId)

\* The order of the states of a host: by id, then a tombstone is the last
\* state of its id, then by version.
Less(a, b) ==
    \/ a.id < b.id
    \/ a.id = b.id /\ ~a.deleted /\ b.deleted
    \/ a.id = b.id /\ ~a.deleted /\ ~b.deleted /\ a.version < b.version

AtMostAnnounced(m) == m = Announced \/ Less(m, Announced)

DomInv ==
    /\ dom.status # "none" => dom.id >= 1 /\ dom.version >= 1
    /\ dom.status = "live" => dom.version >= 2

\* No domain op names a state that was not announced.
OpInv ==
    \A r \in Rows :
        op[r].kind = "domain" => op[r].id >= 1 /\ op[r].id <= Announced.id

\* Every item anywhere is an announced state of the host or an older one.
ItemInv ==
    /\ AtMostAnnounced(stored)
    /\ \A w \in Workers : AtMostAnnounced(held[w])
    /\ \A m \in stray : AtMostAnnounced(m)

\* Tombstones have one form.
FormInv ==
    /\ stored.deleted => stored = Tombstone(stored.id)
    /\ \A w \in Workers : held[w].deleted => held[w] = Tombstone(held[w].id)
    /\ \A m \in stray : m.deleted => m = Tombstone(m.id)

DrainInv ==
    \A w \in Workers :
        /\ \A r \in batch[w] : row[r] # "absent"
        /\ stage[w] \in {"write", "mark"} => todo[w] = {}

\* Row r will bring the announced state to DynamoDB: whoever holds it has not
\* read yet, has failed it, or holds the announced item and has not put it yet.
Carries(r, w) ==
    \/ r \in todo[w]
    \/ r \in failed[w]
    \/ /\ stage[w] \in {"resolve", "write"}
       /\ r \in owners[w]
       /\ held[w] = Announced
Witness(r) ==
    /\ row[r] = "queued"
    /\ op[r].kind = "domain"
    /\ op[r].id = Announced.id
    /\ \A w \in Workers : r \in batch[w] => Carries(r, w)
CoverInv == stored = Announced \/ \E r \in Rows : Witness(r)

IInv ==
    /\ TypeOK
    /\ DomInv
    /\ OpInv
    /\ ItemInv
    /\ FormInv
    /\ DrainInv
    /\ CoverInv

-----------------------------------------------------------------------------
(* Every step of the projection is a step of the outbox or leaves it alone. *)

\* An action of the projection is an action of the outbox, or touches no row of it.
LEMMA StepIsOutboxStep ==
    ASSUME [Next]_vars PROVE [OutboxNext]_outboxVars
<1>1. CASE Connect
  BY <1>1 DEF Connect
<1>2. ASSUME NEW r \in Rows, Api(r) PROVE OutboxNext
  BY <1>2 DEF Api, ConnectWith, Verify, Update, Disconnect, WriteLink,
              RemoveLink, Backfill, EnqueueOp, OutboxNext
<1>3. ASSUME NEW w \in Workers, DrainStep(w) PROVE [OutboxNext]_outboxVars
  <2>1. ASSUME NEW S \in SUBSET Rows, Drain(w, S) PROVE OutboxNext
    BY <2>1 DEF Drain, OutboxNext
  <2>2. ASSUME NEW r \in Rows, Resolve(w, r) \/ ResolveFails(w, r)
        PROVE  UNCHANGED outboxVars
    BY <2>2 DEF Resolve, ResolveFails
  <2>3. ASSUME NEW r \in Rows, Mark(w, r) PROVE OutboxNext
    BY <2>3 DEF Mark, OutboxNext
  <2>4. ASSUME NEW F \in SUBSET Rows, WriteLinks(w, F) PROVE UNCHANGED outboxVars
    BY <2>4 DEF WriteLinks
  <2>5. CASE WriteMeta(w) \/ WriteMetaFails(w)
    BY <2>5 DEF WriteMeta, WriteMetaFails
  <2>6. CASE Die(w)
    BY <2>6 DEF Die, OutboxNext
  <2> QED BY <1>3, <2>1, <2>2, <2>3, <2>4, <2>5, <2>6 DEF DrainStep
<1>4. ASSUME NEW item \in stray, StrayLands(item) PROVE UNCHANGED outboxVars
  BY <1>4 DEF StrayLands
<1>5. CASE Upkeep
  BY <1>5 DEF Upkeep, OutboxNext
<1>6. CASE UNCHANGED vars
  BY <1>6 DEF vars
<1> QED BY <1>1, <1>2, <1>3, <1>4, <1>5, <1>6 DEF Next

\* So what is proved of the outbox holds of the projection.
LEMMA DrainsTheOutbox == Spec => OutboxSpec
<1>1. Init => OutboxInit
  BY DEF Init
<1>2. [Next]_vars => [OutboxNext]_outboxVars
  BY StepIsOutboxStep
<1> QED BY <1>1, <1>2, PTL DEF Spec, OutboxSpec

\* outbox.ts:158 "a permanently poisonous row stops being retried forever": for meta
\* items too, whose drains may overrun their lease.
THEOREM MetaAttemptsBounded ==
    ASSUME OutboxAssumption, IsFiniteSet(Workers) PROVE Spec => []AttemptsBounded
BY DrainsTheOutbox, AttemptsAlwaysBounded, PTL

-----------------------------------------------------------------------------
(* Types. *)

\* The items that the API and the drains make are items.
LEMMA ItemTypes ==
    ASSUME DomainMetaAssumption, TypeOK
    PROVE  /\ NoItem \in Items
           /\ RowItem \in Items
           /\ \A i \in Nat : Tombstone(i) \in Items
           /\ \A r \in Rows : Resolutions(r) \subseteq Items
<1>1. NoItem \in Items
  BY DEF DomainMetaAssumption, NoItem, Items
<1>2. RowItem \in Items
  BY DEF DomainMetaAssumption, TypeOK, RowItem, Items, Domains
<1>3. \A i \in Nat : Tombstone(i) \in Items
  BY DEF DomainMetaAssumption, Tombstone, Items
<1>4. ASSUME NEW r \in Rows PROVE Resolutions(r) \subseteq Items
  <2>1. op[r].id \in Nat
    BY DEF TypeOK, Ops
  <2> QED BY <1>1, <1>2, <1>3, <2>1 DEF Resolutions, DomainOpItem, UpsertItems
<1> QED BY <1>1, <1>2, <1>3, <1>4

\* The host is unknown or has a redirect that is already stored.
LEMMA InitType ==
    ASSUME OutboxAssumption, DomainMetaAssumption, Init PROVE TypeOK
<1> USE DEF DomainMetaAssumption
<1>1. OutboxTypeOK
  BY OutboxInitType DEF Init
<1>2. dom \in Domains /\ stored \in Items
  <2>1. CASE dom = [id |-> 0, status |-> "none", version |-> 0,
                    redirect |-> NoRedirect] /\ stored = NoItem
    BY <2>1 DEF Domains, Items, NoItem
  <2>2. ASSUME NEW v \in Redirects,
               dom = [id |-> 1, status |-> "live", version |-> 2, redirect |-> v],
               stored = [id |-> 1, deleted |-> FALSE, version |-> 2, redirect |-> v]
        PROVE  dom \in Domains /\ stored \in Items
    BY <2>2 DEF Domains, Items
  <2> QED BY <2>1, <2>2 DEF Init
<1>3. op \in [Rows -> Ops] /\ held \in [Workers -> Items]
  BY DEF Init, Ops, NoOp, Items, NoItem
<1>4. /\ stage \in [Workers -> {"idle", "resolve", "write", "mark"}]
      /\ todo \in [Workers -> SUBSET Rows]
      /\ owners \in [Workers -> SUBSET Rows]
      /\ failed \in [Workers -> SUBSET Rows]
      /\ stray \in SUBSET Items
  BY DEF Init
<1> QED BY <1>1, <1>2, <1>3, <1>4 DEF TypeOK

\* Every step keeps the types.
LEMMA NextType ==
    ASSUME OutboxAssumption, DomainMetaAssumption, TypeOK, [Next]_vars
    PROVE  TypeOK'
<1> USE DEF TypeOK, DomainMetaAssumption
<1>0. OutboxTypeOK'
  BY OutboxNextType, StepIsOutboxStep
<1>1. CASE Connect
  BY <1>0, <1>1 DEF Connect, Domains, drainVars
<1>2. ASSUME NEW r \in Rows, Api(r) PROVE TypeOK'
  <2>1. ASSUME NEW k \in {"domain", "upsert"}, NEW i \in Nat, EnqueueOp(r, k, i)
        PROVE  op' \in [Rows -> Ops] /\ UNCHANGED <<drainVars, stored, stray>>
    BY <2>1 DEF EnqueueOp, Ops
  <2>2. dom' \in Domains
    <3>0. NextVersion \in Nat
      BY DEF NextVersion, Domains
    <3>1. ASSUME NEW v \in Redirects, ConnectWith(r, v) PROVE dom' \in Domains
      BY <3>1 DEF ConnectWith, Domains
    <3>2. ASSUME NEW v \in Redirects, Update(r, v) PROVE dom' \in Domains
      BY <3>0, <3>2 DEF Update, Domains
    <3>3. CASE Verify(r)
      BY <3>0, <3>3 DEF Verify, Domains
    <3>4. CASE Disconnect(r)
      BY <3>4 DEF Disconnect, Domains
    <3>5. CASE \/ WriteLink(r) \/ Backfill(r)
               \/ \E i \in 1 .. dom.id : RemoveLink(r, i)
      BY <3>5 DEF WriteLink, RemoveLink, Backfill
    <3> QED BY <1>2, <3>1, <3>2, <3>3, <3>4, <3>5 DEF Api
  <2>3. dom.id \in Nat /\ dom.id + 1 \in Nat
    BY DEF Domains
  <2>4. op' \in [Rows -> Ops] /\ UNCHANGED <<drainVars, stored, stray>>
    <3>1. CASE \E i \in 1 .. dom.id : RemoveLink(r, i)
      BY <2>1, <2>3, <3>1 DEF RemoveLink
    <3>2. CASE ~\E i \in 1 .. dom.id : RemoveLink(r, i)
      BY <1>2, <2>1, <2>3, <3>2 DEF Api, ConnectWith, Verify, Update, Disconnect,
                                   WriteLink, Backfill
    <3> QED BY <3>1, <3>2
  <2> QED BY <1>0, <2>2, <2>4 DEF drainVars
<1>3. ASSUME NEW w \in Workers, DrainStep(w) PROVE TypeOK'
  <2>1. ASSUME NEW S \in SUBSET Rows, Drain(w, S) PROVE TypeOK'
    BY <1>0, <2>1 DEF Drain
  <2>2. ASSUME NEW r \in Rows, Resolve(w, r) PROVE TypeOK'
    BY <1>0, <2>2, ItemTypes DEF Resolve
  <2>3. ASSUME NEW r \in Rows, ResolveFails(w, r) PROVE TypeOK'
    BY <1>0, <2>3 DEF ResolveFails
  <2>4. ASSUME NEW r \in Rows, Mark(w, r) PROVE TypeOK'
    BY <1>0, <2>4, ItemTypes DEF Mark, Forget, drainVars
  <2>5. ASSUME NEW F \in SUBSET Rows, WriteLinks(w, F) PROVE TypeOK'
    BY <1>0, <2>5 DEF WriteLinks
  <2>6. CASE WriteMeta(w)
    BY <1>0, <2>6 DEF WriteMeta, Put
  <2>7. CASE WriteMetaFails(w)
    BY <1>0, <2>7 DEF WriteMetaFails
  <2>8. CASE Die(w)
    BY <1>0, <2>8, ItemTypes DEF Die, Forget
  <2> QED
    BY <1>3, <2>1, <2>2, <2>3, <2>4, <2>5, <2>6, <2>7, <2>8 DEF DrainStep
<1>4. ASSUME NEW item \in stray, StrayLands(item) PROVE TypeOK'
  BY <1>0, <1>4 DEF StrayLands, Put, drainVars
<1>5. CASE Upkeep
  BY <1>0, <1>5 DEF Upkeep, metaVars, drainVars
<1>6. CASE UNCHANGED vars
  BY <1>0, <1>6 DEF vars, metaVars, drainVars
<1> QED BY <1>1, <1>2, <1>3, <1>4, <1>5, <1>6 DEF Next

-----------------------------------------------------------------------------
(* The order of the states of a host, and the conditional put. *)

\* The order is an order.
LEMMA LessTransitive ==
    ASSUME NEW a \in Items, NEW b \in Items, NEW c \in Items, Less(a, b), Less(b, c)
    PROVE  Less(a, c)
  BY DEF Less, Items

\* The in-process order and the condition of the put agree with it.
LEMMA LessSupersedes ==
    ASSUME NEW a \in Items, NEW b \in Items, Less(a, b)
    PROVE  Supersedes(b, a) /\ ~Supersedes(a, b)
  BY DEF Less, Supersedes, Items

\* An item may be put over itself.
LEMMA SupersedesReflexive ==
    ASSUME NEW a \in Items PROVE Supersedes(a, a)
  BY DEF Supersedes, Items

\* A put of a newer state passes its condition.
LEMMA NewerLands ==
    ASSUME NEW m \in Items, stored \in Items, Less(stored, m) PROVE Lands(m)
  BY DEF Less, Lands, Items

\* A put of an older one does not.
LEMMA OlderDoesNotLand ==
    ASSUME NEW m \in Items, stored \in Items, Less(m, stored) PROVE ~Lands(m)
<1>1. stored # NoItem
  BY DEF Less, NoItem, Items
<1> QED BY <1>1 DEF Less, Lands, Items

\* What is announced is an item: of the row, nothing, or a tombstone of the last id.
LEMMA AnnouncedType ==
    ASSUME DomainMetaAssumption, TypeOK, DomInv
    PROVE  /\ Announced \in Items
           /\ LastId \in Nat
           /\ Announced.id = LastId
           /\ Announced.deleted => Announced = Tombstone(Announced.id)
<1>1. LastId \in Nat
  BY DEF LastId, Unannounced, DomInv, TypeOK, Domains
<1>2. Announced \in {RowItem, NoItem, Tombstone(LastId)}
  BY DEF Announced
<1>3. Announced \in Items
  BY <1>1, <1>2, ItemTypes
<1>4. Announced.id = LastId
  BY <1>1 DEF Announced, LastId, RowItem, NoItem, Tombstone, Unannounced
<1>5. Announced.deleted => Announced = Tombstone(Announced.id)
  BY <1>2 DEF RowItem, NoItem, Tombstone
<1> QED BY <1>1, <1>3, <1>4, <1>5

\* Having nothing is the least state.
LEMMA NoItemAnnounced ==
    ASSUME DomainMetaAssumption, TypeOK, DomInv PROVE AtMostAnnounced(NoItem)
<1>1. ASSUME Announced.id = 0 PROVE Announced = NoItem
  <2>1. LastId = 0
    BY <1>1, AnnouncedType
  <2>2. dom.id \in Nat
    BY DEF TypeOK, Domains
  <2>3. ~(dom.status # "none" /\ ~Unannounced)
    BY <2>1, <2>2 DEF LastId, DomInv
  <2> QED BY <2>1, <2>3 DEF Announced
<1>2. ASSUME Announced.id # 0 PROVE Less(NoItem, Announced)
  <2>1. Announced.id \in Nat
    BY AnnouncedType
  <2> QED BY <1>2, <2>1 DEF Less, NoItem
<1> QED BY <1>1, <1>2 DEF AtMostAnnounced

\* It is one after a step, too.
LEMMA AnnouncedTypeNext ==
    ASSUME DomainMetaAssumption, TypeOK', DomInv' PROVE Announced' \in Items
<1>1. LastId' \in Nat
  BY DEF LastId, Unannounced, DomInv, TypeOK, Domains
<1>2. Announced' \in {RowItem', NoItem, Tombstone(LastId')}
  BY DEF Announced, Tombstone
<1>3. RowItem' \in Items
  BY DEF DomainMetaAssumption, TypeOK, RowItem, Items, Domains
<1>4. NoItem \in Items /\ Tombstone(LastId') \in Items
  BY <1>1 DEF DomainMetaAssumption, NoItem, Tombstone, Items
<1> QED BY <1>2, <1>3, <1>4

\* A put of something announced keeps the announced item in place, and
\* brings it there when it is what is put.
LEMMA PutLemma ==
    ASSUME DomainMetaAssumption, TypeOK, DomInv,
           NEW m \in Items, AtMostAnnounced(m), AtMostAnnounced(stored), Put(m)
    PROVE  /\ stored' \in {m, stored}
           /\ stored = Announced => stored' = Announced
           /\ m = Announced => stored' = Announced
<1> USE AnnouncedType
<1>1. stored \in Items
  BY DEF TypeOK
<1>2. stored' \in {m, stored}
  BY DEF Put
<1>3. ASSUME stored = Announced PROVE stored' = Announced
  BY <1>1, <1>3, OlderDoesNotLand DEF Put, AtMostAnnounced
<1>4. ASSUME m = Announced PROVE stored' = Announced
  BY <1>1, <1>4, NewerLands DEF Put, AtMostAnnounced
<1> QED BY <1>2, <1>3, <1>4

\* What a read finds is at most announced; a domain op of the announced id
\* finds the announced item.
LEMMA ResolveLemma ==
    ASSUME DomainMetaAssumption, TypeOK, DomInv, OpInv,
           NEW r \in Rows, NEW item \in Resolutions(r)
    PROVE  /\ item \in Items
           /\ AtMostAnnounced(item)
           /\ item.deleted => item = Tombstone(item.id)
           /\ op[r].kind = "domain" /\ op[r].id = Announced.id
                => item = Announced /\ item # NoItem
<1> DEFINE i == op[r].id
<1>1. item \in Items
  BY ItemTypes
<1>2. i \in Nat /\ dom.id \in Nat /\ dom.version \in Nat
  BY DEF TypeOK, Ops, Domains
<1>3. CASE op[r].kind = "domain"
  <2>1. i >= 1 /\ i <= LastId /\ LastId \in Nat /\ LastId <= dom.id
    BY <1>2, <1>3, AnnouncedType DEF OpInv, LastId
  <2>2. CASE dom.id = i /\ dom.status # "none"
    <3>1. item = RowItem
      BY <1>3, <2>2 DEF Resolutions, DomainOpItem
    <3>2. ~Unannounced
      BY <1>2, <2>1, <2>2 DEF LastId
    <3>3. item = Announced
      BY <2>2, <3>1, <3>2 DEF Announced
    <3>4. item # NoItem /\ ~item.deleted
      BY <2>1, <2>2, <3>1 DEF RowItem, NoItem
    <3> QED BY <1>1, <3>3, <3>4 DEF AtMostAnnounced
  <2>3. CASE ~(dom.id = i /\ dom.status # "none")
    <3>1. item = Tombstone(i)
      BY <1>3, <2>3 DEF Resolutions, DomainOpItem
    <3>2. item.id = i /\ item.deleted /\ item # NoItem
      BY <2>1, <3>1 DEF Tombstone, NoItem
    <3>3. ASSUME i = LastId PROVE item = Announced
      BY <1>2, <2>1, <2>3, <3>1, <3>3 DEF Announced, LastId
    <3>4. ASSUME i < LastId PROVE Less(item, Announced) /\ i # Announced.id
      BY <1>2, <2>1, <3>2, <3>4, AnnouncedType DEF Less
    <3> QED BY <1>1, <1>2, <2>1, <3>1, <3>2, <3>3, <3>4, AnnouncedType DEF AtMostAnnounced
  <2> QED BY <2>2, <2>3
<1>4. CASE op[r].kind # "domain"
  <2>1. item = NoItem \/ (item = RowItem /\ dom.status = "live")
    BY <1>4 DEF Resolutions, UpsertItems
  <2>2. CASE item = NoItem
    <3>1. item.id = 0 /\ ~item.deleted
      BY <2>2 DEF NoItem
    <3>2. ASSUME LastId = 0 PROVE item = Announced
      <4>1. ~(dom.status # "none" /\ ~Unannounced)
        BY <1>2, <3>2 DEF LastId, DomInv
      <4> QED BY <2>2, <3>2, <4>1 DEF Announced
    <3>3. ASSUME LastId # 0 PROVE Less(item, Announced)
      <4>1. Announced.id \in Nat \ {0}
        BY <3>3, AnnouncedType
      <4> QED BY <3>1, <4>1 DEF Less
    <3> QED BY <1>1, <1>4, <3>1, <3>2, <3>3 DEF AtMostAnnounced
  <2>3. CASE item = RowItem /\ dom.status = "live"
    BY <1>1, <1>2, <1>4, <2>3 DEF AtMostAnnounced, Announced, Unannounced, DomInv, RowItem
  <2> QED BY <2>1, <2>2, <2>3
<1> QED BY <1>3, <1>4

-----------------------------------------------------------------------------
(* The API's steps: the announced state only grows, with a row that says so. *)

\* What is announced depends on the row of the host only.
LEMMA AnnouncedUnchanged == ASSUME dom' = dom PROVE Announced' = Announced
  BY DEF Announced, Unannounced, LastId, RowItem

\* A connection alone announces nothing.
LEMMA ConnectLemma ==
    ASSUME TypeOK, DomInv, Connect PROVE DomInv' /\ Announced' = Announced
<1>1. /\ dom.status = "none" /\ dom.id \in Nat
      /\ dom'.id = dom.id + 1 /\ dom'.status = "verifying" /\ dom'.version = 1
      /\ dom'.redirect = NoRedirect
  BY DEF Connect, TypeOK, Domains
<1>2. DomInv'
  BY <1>1 DEF DomInv
<1>3. Unannounced' /\ LastId' = dom.id /\ LastId = dom.id
  BY <1>1 DEF Unannounced, LastId
<1> QED BY <1>1, <1>2, <1>3 DEF Announced

\* A transaction that writes a domain op, or none of what the host serves.
Announces(r) ==
    /\ Less(Announced, Announced')
    /\ op'[r] = [kind |-> "domain", id |-> Announced'.id]

\* A change of the row is newer than what was announced, and its op says which id.
LEMMA ChangeLemma ==
    ASSUME DomainMetaAssumption, TypeOK, DomInv, NEW r \in Rows,
           dom'.status # "none", dom'.version \in Nat \ {0}, dom'.id \in Nat,
           dom'.status = "live" => dom'.version >= 2,
           ~Unannounced',
           \/ dom.status = "none" /\ dom'.id = dom.id + 1
           \/ dom.status # "none" /\ dom'.id = dom.id /\ dom'.version = dom.version + 1,
           op'[r] = [kind |-> "domain", id |-> dom'.id]
    PROVE  DomInv' /\ Announces(r)
<1>1. Announced' = RowItem'
  BY DEF Announced
<1>2. RowItem'.id = dom'.id /\ RowItem'.version = dom'.version /\ ~RowItem'.deleted
  BY DEF RowItem
<1>3. dom.id \in Nat /\ dom.version \in Nat
  BY DEF TypeOK, Domains
<1>4. CASE dom.status = "none"
  <2>1. Announced.id = dom.id
    BY <1>4, AnnouncedType DEF LastId, Unannounced
  <2> QED BY <1>1, <1>2, <1>3, <1>4, <2>1 DEF Less, Announces, DomInv
<1>5. CASE dom.status # "none"
  <2>1. CASE Unannounced
    <3>1. Announced.id = dom.id - 1
      BY <2>1, AnnouncedType DEF LastId
    <3> QED BY <1>1, <1>2, <1>3, <1>5, <3>1 DEF Less, Announces, DomInv
  <2>2. CASE ~Unannounced
    <3>1. Announced = RowItem
      BY <1>5, <2>2 DEF Announced
    <3>2. Announced.id = dom.id /\ Announced.version = dom.version /\ ~Announced.deleted
      BY <3>1 DEF RowItem
    <3> QED BY <1>1, <1>2, <1>3, <1>5, <3>2 DEF Less, Announces, DomInv
  <2> QED BY <2>1, <2>2
<1> QED BY <1>4, <1>5

\* Every step of the API announces something newer, or leaves what is announced.
LEMMA ApiLemma ==
    ASSUME DomainMetaAssumption, TypeOK, DomInv, NEW r \in Rows, Api(r)
    PROVE  /\ DomInv'
           /\ Announces(r) \/ Announced' = Announced
           /\ op'[r].kind = "domain" =>
                op'[r].id >= 1 /\ op'[r].id <= Announced'.id
           /\ Enqueue(r)
           /\ \A q \in Rows : q # r => op'[q] = op[q]
           /\ UNCHANGED <<drainVars, stored, stray>>
<1> USE DEF DomainMetaAssumption
<1>1. dom.id \in Nat /\ dom.version \in Nat /\ op \in [Rows -> Ops]
  BY DEF TypeOK, Domains
<1>2. /\ Enqueue(r)
      /\ \A q \in Rows : q # r => op'[q] = op[q]
      /\ UNCHANGED <<drainVars, stored, stray>>
  BY <1>1 DEF Api, ConnectWith, Verify, Update, Disconnect, WriteLink, RemoveLink,
              Backfill, EnqueueOp
<1>3. ASSUME DomInv', Announces(r), dom'.id >= 1, dom'.id \in Nat, op'[r].id = dom'.id
      PROVE  op'[r].id >= 1 /\ op'[r].id <= Announced'.id
  BY <1>3 DEF Announces
<1>4. ASSUME NEW v \in Redirects, ConnectWith(r, v)
      PROVE  DomInv' /\ Announces(r) /\ op'[r].id >= 1 /\ op'[r].id <= Announced'.id
  <2>1. /\ dom.status = "none"
        /\ dom'.id = dom.id + 1 /\ dom'.status = "verifying" /\ dom'.version = 1
        /\ dom'.redirect = v /\ v # NoRedirect
    BY <1>4 DEF ConnectWith
  <2>2. op'[r] = [kind |-> "domain", id |-> dom'.id]
    BY <1>1, <1>4, <2>1 DEF ConnectWith, EnqueueOp
  <2>3. ~Unannounced'
    BY <2>1 DEF Unannounced
  <2>4. DomInv' /\ Announces(r)
    BY <1>1, <2>1, <2>2, <2>3, ChangeLemma
  <2> QED BY <1>1, <1>3, <2>1, <2>2, <2>4
<1>5. ASSUME NEW v \in Redirects, Update(r, v) \/ Verify(r)
      PROVE  DomInv' /\ Announces(r) /\ op'[r].id >= 1 /\ op'[r].id <= Announced'.id
  <2>1. /\ dom.status # "none" /\ dom.id >= 1 /\ dom.version >= 1
        /\ dom'.id = dom.id /\ dom'.status # "none" /\ dom'.version = dom.version + 1
    BY <1>1, <1>5 DEF Update, Verify, NextVersion, DomInv, TypeOK, Domains
  <2>2. op'[r] = [kind |-> "domain", id |-> dom'.id]
    BY <1>1, <1>5, <2>1 DEF Update, Verify, EnqueueOp
  <2>3. ~Unannounced'
    BY <1>1, <2>1 DEF Unannounced
  <2>4. DomInv' /\ Announces(r)
    BY <1>1, <2>1, <2>2, <2>3, ChangeLemma
  <2> QED BY <1>1, <1>3, <2>1, <2>2, <2>4
<1>6. CASE Disconnect(r)
  <2>1. /\ dom.status # "none" /\ dom.id >= 1
        /\ dom'.id = dom.id /\ dom'.status = "none"
    BY <1>1, <1>6 DEF Disconnect, DomInv, TypeOK, Domains
  <2>2. op'[r] = [kind |-> "domain", id |-> dom'.id]
    BY <1>1, <1>6, <2>1 DEF Disconnect, EnqueueOp
  <2>3. Announced' = Tombstone(dom.id)
    BY <1>1, <2>1 DEF Announced, LastId, Unannounced
  <2>4. (Announced.id = dom.id /\ ~Announced.deleted) \/ Announced.id < dom.id
    <3>1. CASE Unannounced
      BY <1>1, <3>1, AnnouncedType DEF LastId
    <3>2. CASE ~Unannounced
      BY <2>1, <3>2 DEF Announced, RowItem
    <3> QED BY <3>1, <3>2
  <2>5. Announces(r)
    BY <2>1, <2>2, <2>3, <2>4 DEF Announces, Less, Tombstone
  <2>6. DomInv'
    BY <2>1 DEF DomInv
  <2> QED BY <1>1, <1>2, <1>3, <2>1, <2>2, <2>5, <2>6
<1>7. CASE WriteLink(r) \/ Backfill(r)
  <2>1. dom' = dom /\ dom.status = "live"
    BY <1>7 DEF WriteLink, Backfill
  <2>2. DomInv' /\ Announced' = Announced
    BY <2>1, AnnouncedUnchanged DEF DomInv
  <2>3. Announced.id = dom.id /\ dom.id >= 1
    BY <1>1, <2>1 DEF Announced, Unannounced, DomInv, RowItem
  <2>4. op'[r].id = dom.id
    BY <1>1, <1>7 DEF WriteLink, Backfill, EnqueueOp
  <2> QED BY <1>1, <1>2, <2>2, <2>3, <2>4
<1>8. ASSUME NEW i \in 1 .. dom.id, RemoveLink(r, i)
      PROVE  DomInv' /\ Announced' = Announced
             /\ op'[r].id >= 1 /\ op'[r].id <= Announced'.id
  <2>1. dom' = dom /\ (i < dom.id \/ (i = dom.id /\ dom.status # "verifying"))
    BY <1>8 DEF RemoveLink
  <2>2. DomInv' /\ Announced' = Announced
    BY <2>1, AnnouncedUnchanged DEF DomInv
  <2>3. i <= Announced.id
    BY <1>1, <2>1, AnnouncedType DEF LastId, Unannounced, DomInv, TypeOK, Domains
  <2>4. op'[r].id = i
    BY <1>1, <1>8 DEF RemoveLink, EnqueueOp
  <2> QED BY <1>1, <2>2, <2>3, <2>4
<1> QED BY <1>2, <1>4, <1>5, <1>6, <1>7, <1>8 DEF Api

-----------------------------------------------------------------------------
(* The invariant is kept. *)

\* What is stored at first is what is announced.
LEMMA InitIInv ==
    ASSUME OutboxAssumption, DomainMetaAssumption, Init PROVE IInv
<1>1. TypeOK
  BY InitType
<1>2. DomInv /\ stored = Announced
  <2>1. CASE dom = [id |-> 0, status |-> "none", version |-> 0,
                    redirect |-> NoRedirect] /\ stored = NoItem
    BY <2>1 DEF DomInv, Announced, LastId, Unannounced
  <2>2. ASSUME NEW v \in Redirects,
               dom = [id |-> 1, status |-> "live", version |-> 2, redirect |-> v],
               stored = [id |-> 1, deleted |-> FALSE, version |-> 2, redirect |-> v]
        PROVE  DomInv /\ stored = Announced
    BY <2>2 DEF DomInv, Announced, LastId, Unannounced, RowItem
  <2> QED BY <2>1, <2>2 DEF Init
<1>3. AtMostAnnounced(NoItem)
  BY <1>1, <1>2, NoItemAnnounced
<1>4. ItemInv
  BY <1>2, <1>3 DEF ItemInv, AtMostAnnounced, Init
<1>5. FormInv
  BY <1>2, <1>1, AnnouncedType DEF FormInv, Init, NoItem
<1>6. OpInv
  BY DEF OpInv, Init, NoOp
<1>7. DrainInv
  BY DEF DrainInv, Init, OutboxInit
<1> QED BY <1>1, <1>2, <1>4, <1>5, <1>6, <1>7 DEF IInv, CoverInv

\* A step of the API: what is held stays at most announced, and either the
\* cover is untouched or the new row carries the new state.
LEMMA GrowLemma ==
    ASSUME DomainMetaAssumption, TypeOK, TypeOK', DomInv, DomInv',
           Announced' = Announced \/ Less(Announced, Announced'),
           NEW m \in Items, AtMostAnnounced(m)
    PROVE  m = Announced' \/ Less(m, Announced')
  BY AnnouncedType, AnnouncedTypeNext, LessTransitive DEF AtMostAnnounced

\* What is held, stored or under way stays at most announced while that grows.
LEMMA ItemInvGrows ==
    ASSUME DomainMetaAssumption, TypeOK, TypeOK', DomInv, DomInv', ItemInv,
           Announced' = Announced \/ Less(Announced, Announced'),
           UNCHANGED <<held, stored, stray>>
    PROVE  ItemInv'
<1>1. stored \in Items /\ held \in [Workers -> Items] /\ stray \subseteq Items
  BY DEF TypeOK
<1>2. ASSUME NEW m \in Items, AtMostAnnounced(m)
      PROVE  m = Announced' \/ Less(m, Announced')
  BY <1>2, GrowLemma
<1> QED BY <1>1, <1>2 DEF ItemInv, AtMostAnnounced, Less

\* A step of the API covers what it announces by the row it enqueues.
LEMMA ApiKeeps ==
    ASSUME DomainMetaAssumption, IInv, TypeOK', NEW r \in Rows, Api(r)
    PROVE  IInv'
<1> USE DEF IInv
<1>1. /\ DomInv'
      /\ Announces(r) \/ Announced' = Announced
      /\ op'[r].kind = "domain" =>
           op'[r].id >= 1 /\ op'[r].id <= Announced'.id
      /\ Enqueue(r)
      /\ \A q \in Rows : q # r => op'[q] = op[q]
      /\ UNCHANGED <<drainVars, stored, stray>>
  BY ApiLemma
<1>2. UNCHANGED <<batch, stage, todo, held, owners, failed, stored, stray>>
  BY <1>1 DEF Enqueue, drainVars
<1>3. row[r] = "absent" /\ \A q \in Rows : q # r => row'[q] = row[q]
  BY <1>1 DEF Enqueue, TypeOK, OutboxTypeOK
<1>4. row'[r] = "queued"
  BY <1>1 DEF Enqueue, TypeOK, OutboxTypeOK
<1>5. \A w \in Workers : r \notin batch[w] /\ batch[w] \subseteq Rows
  BY <1>3 DEF DrainInv, TypeOK, OutboxTypeOK
<1>6. ItemInv'
  BY <1>1, <1>2, ItemInvGrows DEF Announces
<1>7. Announced.id <= Announced'.id /\ Announced.id \in Nat /\ Announced'.id \in Nat
  BY <1>1, AnnouncedType, AnnouncedTypeNext DEF Announces, Less, Items
<1>8. OpInv'
  <2> SUFFICES ASSUME NEW q \in Rows, op'[q].kind = "domain"
               PROVE  op'[q].id >= 1 /\ op'[q].id <= Announced'.id
    BY DEF OpInv
  <2>1. CASE q = r
    BY <1>1, <2>1
  <2>2. CASE q # r
    <3>1. op[q].id \in Nat /\ op[q].id >= 1 /\ op[q].id <= Announced.id
      BY <1>1, <2>2 DEF OpInv, TypeOK, Ops
    <3> QED BY <1>1, <1>7, <2>2, <3>1
  <2> QED BY <2>1, <2>2
<1>9. FormInv'
  BY <1>2 DEF FormInv, Tombstone
<1>10. DrainInv'
  BY <1>2, <1>3, <1>5 DEF DrainInv
<1>11. CoverInv'
  <2>1. CASE Announces(r)
    <3>1. op'[r].kind = "domain" /\ op'[r].id = Announced'.id
      BY <2>1 DEF Announces
    <3>2. \A w \in Workers : r \notin batch'[w]
      BY <1>2, <1>5
    <3> QED BY <1>4, <3>1, <3>2 DEF CoverInv, Witness
  <2>2. CASE Announced' = Announced
    <3>1. CASE stored = Announced
      BY <1>2, <2>2, <3>1 DEF CoverInv
    <3>2. ASSUME NEW q \in Rows, Witness(q) PROVE CoverInv'
      <4>1. q # r
        BY <1>3, <3>2 DEF Witness
      <4>2. row'[q] = "queued" /\ op'[q] = op[q]
        BY <1>1, <1>3, <3>2, <4>1 DEF Witness
      <4>3. ASSUME NEW w \in Workers, q \in batch'[w] PROVE Carries(q, w)'
        BY <1>2, <2>2, <3>2, <4>3 DEF Witness, Carries
      <4> QED BY <2>2, <3>2, <4>2, <4>3 DEF CoverInv, Witness
    <3> QED BY <3>1, <3>2 DEF CoverInv
  <2> QED BY <1>1, <2>1, <2>2
<1> QED BY <1>1, <1>6, <1>8, <1>9, <1>10, <1>11

\* A connection keeps the invariant.
LEMMA ConnectKeeps ==
    ASSUME DomainMetaAssumption, IInv, TypeOK', Connect PROVE IInv'
<1> USE DEF IInv
<1>1. DomInv' /\ Announced' = Announced
  BY ConnectLemma
<1>2. UNCHANGED <<row, batch, op, stage, todo, held, owners, failed, stored, stray>>
  BY DEF Connect, outboxVars, drainVars
<1>3. ItemInv'
  BY <1>1, <1>2, ItemInvGrows
<1>4. OpInv' /\ FormInv' /\ DrainInv'
  BY <1>1, <1>2 DEF OpInv, FormInv, DrainInv, Tombstone
<1>5. CoverInv'
  BY <1>1, <1>2 DEF CoverInv, Witness, Carries
<1> QED BY <1>1, <1>3, <1>4, <1>5

\* A step of a drain or of the outbox leaves the host and the ops alone: the
\* items, the drains and the cover are what it can disturb.
LEMMA OthersKeep ==
    ASSUME DomainMetaAssumption, IInv, TypeOK', UNCHANGED <<dom, op>>,
           ItemInv', FormInv', DrainInv', CoverInv'
    PROVE  IInv'
<1>1. Announced' = Announced
  BY AnnouncedUnchanged
<1> QED BY <1>1 DEF IInv, DomInv, OpInv

\* A claim takes the rows in hand, all still to be resolved.
LEMMA DrainKeeps ==
    ASSUME OutboxAssumption, DomainMetaAssumption, IInv, TypeOK',
           NEW w \in Workers, NEW S \in SUBSET Rows, Drain(w, S)
    PROVE  IInv'
<1> USE DEF IInv
<1>1. Announced' = Announced
  BY AnnouncedUnchanged DEF Drain
<1>2. /\ UNCHANGED <<dom, op, row, held, owners, failed, stored, stray>>
      /\ \A v \in Workers : v # w => /\ batch'[v] = batch[v]
                                     /\ stage'[v] = stage[v]
                                     /\ todo'[v] = todo[v]
      /\ batch'[w] = S /\ todo'[w] = S /\ stage'[w] = "resolve"
  BY DEF Drain, Claim, TypeOK, OutboxTypeOK
<1>3. \A r \in S : row[r] = "queued"
  BY DEF Drain, Claim, OldestClaimable, Claimable, Pending
<1>4. ItemInv' /\ FormInv'
  BY <1>1, <1>2 DEF ItemInv, FormInv, AtMostAnnounced, Tombstone
<1>5. DrainInv'
  BY <1>2, <1>3 DEF DrainInv
<1>6. CoverInv'
  <2>1. CASE stored = Announced
    BY <1>1, <1>2, <2>1 DEF CoverInv
  <2>2. ASSUME NEW q \in Rows, Witness(q) PROVE Witness(q)'
    <3>1. ASSUME NEW v \in Workers, q \in batch'[v] PROVE Carries(q, v)'
      <4>1. CASE v = w
        BY <1>2, <3>1, <4>1 DEF Carries
      <4>2. CASE v # w
        BY <1>1, <1>2, <2>2, <3>1, <4>2 DEF Witness, Carries
      <4> QED BY <4>1, <4>2
    <3> QED BY <1>1, <1>2, <2>2, <3>1 DEF Witness
  <2> QED BY <2>1, <2>2 DEF CoverInv
<1> QED BY <1>2, <1>4, <1>5, <1>6, OthersKeep

\* A read of a domain op of the announced id finds the announced item, which then is
\* the one that is held.
LEMMA ResolveKeeps ==
    ASSUME DomainMetaAssumption, IInv, TypeOK', NEW w \in Workers, NEW r \in Rows,
           Resolve(w, r)
    PROVE  IInv'
<1> USE DEF IInv
<1>1. Announced' = Announced
  BY AnnouncedUnchanged DEF Resolve
<1>2. PICK item \in Resolutions(r) :
        /\ held' = [held EXCEPT ![w] = IF Supersedes(item, @) THEN item ELSE @]
        /\ owners' = [owners EXCEPT ![w] = IF item = NoItem THEN @ ELSE @ \cup {r}]
  BY DEF Resolve
<1>3. /\ item \in Items
      /\ AtMostAnnounced(item)
      /\ item.deleted => item = Tombstone(item.id)
      /\ op[r].kind = "domain" /\ op[r].id = Announced.id
           => item = Announced /\ item # NoItem
  BY ResolveLemma
<1>4. /\ UNCHANGED <<dom, op, row, batch, stage, failed, stored, stray>>
      /\ stage[w] = "resolve" /\ r \in todo[w] /\ todo'[w] = todo[w] \ {r}
      /\ \A v \in Workers : v # w => /\ held'[v] = held[v]
                                     /\ owners'[v] = owners[v]
                                     /\ todo'[v] = todo[v]
      /\ held'[w] \in {item, held[w]}
      /\ held'[w] = IF Supersedes(item, held[w]) THEN item ELSE held[w]
      /\ owners'[w] = IF item = NoItem THEN owners[w] ELSE owners[w] \cup {r}
  BY <1>2 DEF Resolve, TypeOK, outboxVars
<1>5. held[w] \in Items /\ AtMostAnnounced(held[w]) /\ Announced \in Items
  BY AnnouncedType DEF TypeOK, ItemInv
<1>6. ItemInv' /\ FormInv'
  BY <1>1, <1>3, <1>4, <1>5 DEF ItemInv, FormInv, AtMostAnnounced, Tombstone
<1>7. DrainInv'
  BY <1>4 DEF DrainInv
<1>8. ASSUME item = Announced \/ held[w] = Announced PROVE held'[w] = Announced
  BY <1>3, <1>4, <1>5, <1>8, LessSupersedes, SupersedesReflexive DEF AtMostAnnounced
<1>9. CoverInv'
  <2>1. CASE stored = Announced
    BY <1>1, <1>4, <2>1 DEF CoverInv
  <2>2. ASSUME NEW q \in Rows, Witness(q) PROVE Witness(q)'
    <3>1. ASSUME NEW v \in Workers, q \in batch'[v] PROVE Carries(q, v)'
      <4>1. Carries(q, v)
        BY <1>4, <2>2, <3>1 DEF Witness
      <4>2. CASE v # w
        BY <1>1, <1>4, <4>1, <4>2 DEF Carries
      <4>3. CASE v = w /\ q # r
        BY <1>1, <1>4, <1>8, <4>1, <4>3 DEF Carries
      <4>4. CASE v = w /\ q = r
        BY <1>1, <1>3, <1>4, <1>8, <2>2, <4>4 DEF Carries, Witness
      <4> QED BY <4>2, <4>3, <4>4
    <3> QED BY <1>1, <1>4, <2>2, <3>1 DEF Witness
  <2> QED BY <2>1, <2>2 DEF CoverInv
<1> QED BY <1>4, <1>6, <1>7, <1>9, OthersKeep

\* The cover survives a step that changes no row, no batch, no op and not the
\* host, if everyone goes on carrying what he carried.
LEMMA CoverKept ==
    ASSUME IInv, UNCHANGED <<dom, op, row, batch>>,
           stored = Announced => stored' = Announced,
           \A w \in Workers, q \in Rows :
             Witness(q) /\ q \in batch[w] /\ Carries(q, w)
               => Carries(q, w)' \/ stored' = Announced
    PROVE  CoverInv'
<1>1. Announced' = Announced
  BY AnnouncedUnchanged
<1>2. ASSUME NEW q \in Rows, Witness(q), stored' # Announced PROVE Witness(q)'
  BY <1>1, <1>2 DEF Witness
<1> QED BY <1>1, <1>2 DEF IInv, CoverInv

\* A read that fails leaves its row to be marked as failed.
LEMMA ResolveFailsKeeps ==
    ASSUME DomainMetaAssumption, IInv, TypeOK', NEW w \in Workers, NEW r \in Rows,
           ResolveFails(w, r)
    PROVE  IInv'
<1> USE DEF IInv
<1>1. Announced' = Announced
  BY AnnouncedUnchanged DEF ResolveFails
<1>2. /\ UNCHANGED <<dom, op, row, batch, stage, held, owners, stored, stray>>
      /\ stage[w] = "resolve" /\ todo'[w] = todo[w] \ {r}
      /\ failed'[w] = failed[w] \cup {r}
      /\ \A v \in Workers : v # w => todo'[v] = todo[v] /\ failed'[v] = failed[v]
  BY DEF ResolveFails, TypeOK, outboxVars
<1>3. ItemInv' /\ FormInv'
  BY <1>1, <1>2 DEF ItemInv, FormInv, AtMostAnnounced, Tombstone
<1>4. DrainInv'
  BY <1>2 DEF DrainInv
<1>5. ASSUME NEW v \in Workers, NEW q \in Rows, Carries(q, v) PROVE Carries(q, v)'
  <2>1. CASE v = w
    BY <1>1, <1>2, <1>5, <2>1 DEF Carries
  <2>2. CASE v # w
    BY <1>1, <1>2, <1>5, <2>2 DEF Carries
  <2> QED BY <2>1, <2>2
<1>6. CoverInv'
  BY <1>2, <1>5, CoverKept
<1> QED BY <1>2, <1>3, <1>4, <1>6, OthersKeep

\* The writes of the links touch no item of a host.
LEMMA WriteLinksKeeps ==
    ASSUME DomainMetaAssumption, IInv, TypeOK', NEW w \in Workers,
           NEW F \in SUBSET Rows, WriteLinks(w, F)
    PROVE  IInv'
<1> USE DEF IInv
<1>1. Announced' = Announced
  BY AnnouncedUnchanged DEF WriteLinks
<1>2. /\ UNCHANGED <<dom, op, row, batch, todo, held, owners, stored, stray>>
      /\ todo[w] = {}
      /\ failed'[w] = failed[w] \cup F
      /\ stage'[w] = IF held[w] = NoItem THEN "mark" ELSE "write"
      /\ \A v \in Workers : v # w => stage'[v] = stage[v] /\ failed'[v] = failed[v]
  BY DEF WriteLinks, TypeOK, outboxVars
<1>3. ItemInv' /\ FormInv'
  BY <1>1, <1>2 DEF ItemInv, FormInv, AtMostAnnounced, Tombstone
<1>4. DrainInv'
  BY <1>2 DEF DrainInv
<1>5. ASSUME NEW v \in Workers, NEW q \in Rows, Witness(q), Carries(q, v)
      PROVE  Carries(q, v)'
  <2>1. CASE v # w
    BY <1>1, <1>2, <1>5, <2>1 DEF Carries
  <2>2. CASE v = w
    <3>1. Announced # NoItem
      BY <1>5 DEF Witness, OpInv, NoItem
    <3> QED BY <1>1, <1>2, <1>5, <2>2, <3>1 DEF Carries
  <2> QED BY <2>1, <2>2
<1>6. CoverInv'
  BY <1>2, <1>5, CoverKept
<1> QED BY <1>2, <1>3, <1>4, <1>6, OthersKeep

\* The put of a drain that carries the announced item stores it.
LEMMA WriteMetaKeeps ==
    ASSUME DomainMetaAssumption, IInv, TypeOK', NEW w \in Workers, WriteMeta(w)
    PROVE  IInv'
<1> USE DEF IInv
<1>1. Announced' = Announced
  BY AnnouncedUnchanged DEF WriteMeta
<1>2. /\ UNCHANGED <<dom, op, row, batch, todo, held, owners, failed, stray>>
      /\ stage[w] = "write" /\ stage'[w] = "mark" /\ Put(held[w])
      /\ \A v \in Workers : v # w => stage'[v] = stage[v]
  BY DEF WriteMeta, TypeOK, outboxVars
<1>3. held[w] \in Items /\ AtMostAnnounced(held[w])
  BY DEF TypeOK, ItemInv
<1>4. /\ stored' \in {held[w], stored}
      /\ stored = Announced => stored' = Announced
      /\ held[w] = Announced => stored' = Announced
  BY <1>2, <1>3, PutLemma DEF ItemInv
<1>5. ItemInv' /\ FormInv'
  BY <1>1, <1>2, <1>3, <1>4 DEF ItemInv, FormInv, AtMostAnnounced, Tombstone
<1>6. DrainInv'
  BY <1>2 DEF DrainInv
<1>7. ASSUME NEW v \in Workers, NEW q \in Rows, Carries(q, v)
      PROVE  Carries(q, v)' \/ stored' = Announced
  <2>1. CASE v # w
    BY <1>1, <1>2, <1>7, <2>1 DEF Carries
  <2>2. CASE v = w
    BY <1>1, <1>2, <1>4, <1>7, <2>2 DEF Carries
  <2> QED BY <2>1, <2>2
<1>8. CoverInv'
  BY <1>2, <1>4, <1>7, CoverKept
<1> QED BY <1>2, <1>5, <1>6, <1>8, OthersKeep

\* A put whose answer is lost may land later; its rows are marked as failed.
LEMMA WriteMetaFailsKeeps ==
    ASSUME DomainMetaAssumption, IInv, TypeOK', NEW w \in Workers, WriteMetaFails(w)
    PROVE  IInv'
<1> USE DEF IInv
<1>1. Announced' = Announced
  BY AnnouncedUnchanged DEF WriteMetaFails
<1>2. /\ UNCHANGED <<dom, op, row, batch, todo, held, owners, stored>>
      /\ stage[w] = "write" /\ stage'[w] = "mark"
      /\ failed'[w] = failed[w] \cup owners[w]
      /\ stray' = stray \cup {held[w]}
      /\ \A v \in Workers : v # w => stage'[v] = stage[v] /\ failed'[v] = failed[v]
  BY DEF WriteMetaFails, TypeOK, outboxVars
<1>3. ItemInv' /\ FormInv'
  BY <1>1, <1>2 DEF ItemInv, FormInv, AtMostAnnounced, Tombstone
<1>4. DrainInv'
  BY <1>2 DEF DrainInv
<1>5. ASSUME NEW v \in Workers, NEW q \in Rows, Carries(q, v) PROVE Carries(q, v)'
  <2>1. CASE v # w
    BY <1>1, <1>2, <1>5, <2>1 DEF Carries
  <2>2. CASE v = w
    BY <1>1, <1>2, <1>5, <2>2 DEF Carries
  <2> QED BY <2>1, <2>2
<1>6. CoverInv'
  BY <1>2, <1>5, CoverKept
<1> QED BY <1>2, <1>3, <1>4, <1>6, OthersKeep

\* A put that lands late is conditional, too.
LEMMA StrayLandsKeeps ==
    ASSUME DomainMetaAssumption, IInv, TypeOK', NEW item \in stray, StrayLands(item)
    PROVE  IInv'
<1> USE DEF IInv
<1>1. Announced' = Announced
  BY AnnouncedUnchanged DEF StrayLands
<1>2. /\ UNCHANGED <<dom, op, row, batch, stage, todo, held, owners, failed>>
      /\ stray' = stray \ {item} /\ Put(item)
  BY DEF StrayLands, outboxVars, drainVars
<1>3. item \in Items /\ AtMostAnnounced(item)
  BY DEF TypeOK, ItemInv
<1>4. /\ stored' \in {item, stored}
      /\ stored = Announced => stored' = Announced
  BY <1>2, <1>3, PutLemma DEF ItemInv
<1>5. ItemInv' /\ FormInv'
  BY <1>1, <1>2, <1>3, <1>4 DEF ItemInv, FormInv, AtMostAnnounced, Tombstone
<1>6. DrainInv'
  BY <1>2 DEF DrainInv
<1>7. ASSUME NEW v \in Workers, NEW q \in Rows, Carries(q, v) PROVE Carries(q, v)'
  BY <1>1, <1>2, <1>7 DEF Carries
<1>8. CoverInv'
  BY <1>2, <1>4, <1>7, CoverKept
<1> QED BY <1>2, <1>5, <1>6, <1>8, OthersKeep

\* The rows of a drain that is over are nobody's batch; what the others carry
\* is untouched, and a row processed here was not the one that carries.
LEMMA MarkKeeps ==
    ASSUME OutboxAssumption, DomainMetaAssumption, IInv, TypeOK', NEW w \in Workers,
           NEW r \in Rows, Mark(w, r)
    PROVE  IInv'
<1> USE DEF IInv
<1>1. Announced' = Announced
  BY AnnouncedUnchanged DEF Mark
<1>2. /\ UNCHANGED <<dom, op, stored, stray>>
      /\ stage[w] = "mark" /\ r \in batch[w]
      /\ batch'[w] = batch[w] \ {r}
      /\ \A v \in Workers : v # w => batch'[v] = batch[v]
  BY DEF Mark, MarkFailed, MarkProcessed, Done, TypeOK, OutboxTypeOK
<1>3. /\ \A q \in Rows : q # r => row'[q] = row[q]
      /\ row[r] # "absent" => row'[r] # "absent"
      /\ r \in failed[w] => row' = row
  BY DEF Mark, MarkFailed, MarkProcessed, TypeOK, OutboxTypeOK
<1>4. CASE batch[w] = {r}
  <2>1. /\ stage'[w] = "idle" /\ todo'[w] = {} /\ held'[w] = NoItem /\ owners'[w] = {}
        /\ batch'[w] = {}
        /\ \A v \in Workers : v # w =>
             /\ stage'[v] = stage[v] /\ todo'[v] = todo[v] /\ held'[v] = held[v]
             /\ owners'[v] = owners[v] /\ failed'[v] = failed[v]
    BY <1>2, <1>4 DEF Mark, Forget, TypeOK
  <2>2. ItemInv'
    BY <1>1, <1>2, <2>1, NoItemAnnounced DEF ItemInv, AtMostAnnounced
  <2>3. FormInv'
    BY <1>2, <2>1 DEF FormInv, Tombstone, NoItem
  <2>4. DrainInv'
    BY <1>2, <1>3, <2>1 DEF DrainInv, TypeOK, OutboxTypeOK
  <2>5. CoverInv'
    <3>1. ASSUME NEW q \in Rows, Witness(q) PROVE Witness(q)'
      <4>1. row'[q] = "queued"
        <5>1. q = r => r \in failed[w]
          BY <1>2, <3>1 DEF Witness, Carries, DrainInv
        <5> QED BY <1>3, <3>1, <5>1 DEF Witness
      <4>2. ASSUME NEW v \in Workers, q \in batch'[v] PROVE Carries(q, v)'
        BY <1>1, <1>2, <2>1, <3>1, <4>2 DEF Witness, Carries
      <4> QED BY <1>1, <1>2, <3>1, <4>1, <4>2 DEF Witness
    <3> QED BY <1>1, <1>2, <3>1 DEF CoverInv
  <2> QED BY <1>2, <2>2, <2>3, <2>4, <2>5, OthersKeep
<1>5. CASE batch[w] # {r}
  <2>1. UNCHANGED <<stage, todo, held, owners, failed>>
    BY <1>5 DEF Mark, drainVars
  <2>2. ItemInv' /\ FormInv'
    BY <1>1, <1>2, <2>1 DEF ItemInv, FormInv, AtMostAnnounced, Tombstone
  <2>3. DrainInv'
    BY <1>2, <1>3, <2>1 DEF DrainInv, TypeOK, OutboxTypeOK
  <2>4. CoverInv'
    <3>1. ASSUME NEW q \in Rows, Witness(q) PROVE Witness(q)'
      <4>1. row'[q] = "queued"
        <5>1. q = r => r \in failed[w]
          BY <1>2, <3>1 DEF Witness, Carries, DrainInv
        <5> QED BY <1>3, <3>1, <5>1 DEF Witness
      <4>2. ASSUME NEW v \in Workers, q \in batch'[v] PROVE Carries(q, v)'
        BY <1>1, <1>2, <2>1, <3>1, <4>2 DEF Witness, Carries
      <4> QED BY <1>1, <1>2, <3>1, <4>1, <4>2 DEF Witness
    <3> QED BY <1>1, <1>2, <3>1 DEF CoverInv
  <2> QED BY <1>2, <2>2, <2>3, <2>4, OthersKeep
<1> QED BY <1>4, <1>5

\* The rows of a drain that dies are still queued.
LEMMA DieKeeps ==
    ASSUME DomainMetaAssumption, IInv, TypeOK', NEW w \in Workers, Die(w)
    PROVE  IInv'
<1> USE DEF IInv
<1>1. Announced' = Announced
  BY AnnouncedUnchanged DEF Die
<1>2. /\ UNCHANGED <<dom, op, row, stored>>
      /\ stray' \subseteq stray \cup {held[w]}
      /\ batch'[w] = {} /\ \A v \in Workers : v # w => batch'[v] = batch[v]
      /\ stage'[w] = "idle" /\ todo'[w] = {} /\ held'[w] = NoItem
      /\ \A v \in Workers : v # w =>
           /\ stage'[v] = stage[v] /\ todo'[v] = todo[v] /\ held'[v] = held[v]
           /\ owners'[v] = owners[v] /\ failed'[v] = failed[v]
  BY DEF Die, Crash, Forget, TypeOK, OutboxTypeOK
<1>3. ItemInv'
  BY <1>1, <1>2, NoItemAnnounced DEF ItemInv, AtMostAnnounced
<1>4. FormInv'
  <2>1. NoItem.deleted = FALSE
    BY DEF NoItem
  <2>2. \A m \in stray' : m \in stray \/ m = held[w]
    BY <1>2
  <2> QED BY <1>2, <2>1, <2>2 DEF FormInv
<1>5. DrainInv'
  BY <1>2 DEF DrainInv
<1>6. CoverInv'
  <2>1. ASSUME NEW q \in Rows, Witness(q) PROVE Witness(q)'
    <3>1. ASSUME NEW v \in Workers, q \in batch'[v] PROVE Carries(q, v)'
      BY <1>1, <1>2, <2>1, <3>1 DEF Witness, Carries
    <3> QED BY <1>1, <1>2, <2>1, <3>1 DEF Witness
  <2> QED BY <1>1, <1>2, <2>1 DEF CoverInv
<1> QED BY <1>2, <1>3, <1>4, <1>5, <1>6, OthersKeep

\* A lease lapses, a processed row is pruned, or an operator retries a dead one.
LEMMA UpkeepKeeps ==
    ASSUME DomainMetaAssumption, IInv, TypeOK', Upkeep PROVE IInv'
<1> USE DEF IInv
<1>1. Announced' = Announced
  BY AnnouncedUnchanged DEF Upkeep, metaVars
<1>2. UNCHANGED <<dom, op, batch, stage, todo, held, owners, failed, stored, stray>>
  BY DEF Upkeep, metaVars, drainVars, Lapse, Prune, AdminRetry
<1>3. \A q \in Rows : /\ row[q] = "queued" => row'[q] = "queued"
                      /\ row[q] # "absent" => row'[q] # "absent"
  BY DEF Upkeep, Lapse, Prune, AdminRetry, TypeOK, OutboxTypeOK
<1>4. ItemInv' /\ FormInv'
  BY <1>1, <1>2 DEF ItemInv, FormInv, AtMostAnnounced, Tombstone
<1>5. DrainInv'
  BY <1>2, <1>3, ItemTypes DEF DrainInv, TypeOK, OutboxTypeOK
<1>6. CoverInv'
  <2>1. ASSUME NEW q \in Rows, Witness(q) PROVE Witness(q)'
    BY <1>1, <1>2, <1>3, <2>1 DEF Witness, Carries
  <2> QED BY <1>1, <1>2, <2>1 DEF CoverInv
<1> QED BY <1>2, <1>4, <1>5, <1>6, OthersKeep

\* Every step keeps the invariant.
LEMMA NextIInv ==
    ASSUME OutboxAssumption, DomainMetaAssumption, IInv, [Next]_vars PROVE IInv'
<1>0. TypeOK'
  BY NextType DEF IInv
<1>1. CASE Connect
  BY <1>0, <1>1, ConnectKeeps
<1>2. ASSUME NEW r \in Rows, Api(r) PROVE IInv'
  BY <1>0, <1>2, ApiKeeps
<1>3. ASSUME NEW w \in Workers, DrainStep(w) PROVE IInv'
  BY <1>0, <1>3, DrainKeeps, ResolveKeeps, ResolveFailsKeeps, WriteLinksKeeps,
     WriteMetaKeeps, WriteMetaFailsKeeps, MarkKeeps, DieKeeps DEF DrainStep
<1>4. ASSUME NEW item \in stray, StrayLands(item) PROVE IInv'
  BY <1>0, <1>4, StrayLandsKeeps
<1>5. CASE Upkeep
  BY <1>0, <1>5, UpkeepKeeps
<1>6. CASE UNCHANGED vars
  <2>1. Announced' = Announced
    BY <1>6, AnnouncedUnchanged DEF vars, metaVars
  <2>2. UNCHANGED <<row, batch, dom, op, stage, todo, held, owners, failed, stored, stray>>
    BY <1>6 DEF vars, metaVars, outboxVars, drainVars
  <2>3. ItemInv' /\ FormInv'
    BY <2>1, <2>2 DEF IInv, ItemInv, FormInv, AtMostAnnounced, Tombstone
  <2>4. DrainInv'
    BY <2>2 DEF IInv, DrainInv
  <2>5. CoverInv'
    BY <2>1, <2>2 DEF IInv, CoverInv, Witness, Carries
  <2> QED BY <1>0, <2>2, <2>3, <2>4, <2>5, OthersKeep
<1> QED BY <1>1, <1>2, <1>3, <1>4, <1>5, <1>6 DEF Next

\* The inductive invariant holds in every reachable state.
LEMMA InductiveInvariant ==
    ASSUME OutboxAssumption, DomainMetaAssumption PROVE Spec => []IInv
<1>1. Init => IInv
  BY InitIInv
<1>2. IInv /\ [Next]_vars => IInv'
  BY NextIInv
<1> QED BY <1>1, <1>2, PTL DEF Spec

\* The drains, the host and the item have their types.
THEOREM DomainMetaTypes ==
    ASSUME OutboxAssumption, DomainMetaAssumption PROVE Spec => []TypeOK
<1>1. IInv => TypeOK
  BY DEF IInv
<1> QED BY <1>1, InductiveInvariant, PTL

-----------------------------------------------------------------------------
(* The properties. *)

\* The edge serves what Postgres says once it has stored what is announced.
LEMMA ServedIsWanted ==
    ASSUME DomainMetaAssumption, TypeOK, DomInv, stored = Announced
    PROVE  Served = Wanted
<1>1. CASE dom.status # "none" /\ ~Unannounced
  BY <1>1 DEF Served, Wanted, Announced, RowItem
<1>2. CASE ~(dom.status # "none" /\ ~Unannounced)
  <2>1. Wanted = NoRedirect
    BY <1>2 DEF Wanted, Unannounced
  <2>2. Announced \in {NoItem, Tombstone(LastId)}
    BY <1>2 DEF Announced
  <2> QED BY <2>1, <2>2 DEF Served, NoItem, Tombstone
<1> QED BY <1>1, <1>2

\* outbox.ts:10 "the two writes cannot diverge silently": whatever the number
\* of drains, rows and re-connections, while the edge serves anything but what
\* Postgres says a domain op for the host is unprocessed.
THEOREM NoSilentDivergenceAlways ==
    ASSUME OutboxAssumption, DomainMetaAssumption PROVE Spec => []NoSilentDivergence
<1>1. ASSUME IInv PROVE NoSilentDivergence
  <2> SUFFICES ASSUME Served # Wanted
               PROVE  \E r \in Rows : /\ Pending(r)
                                      /\ op[r].kind = "domain"
                                      /\ op[r].id \in {dom.id, dom.id - 1}
    BY DEF NoSilentDivergence
  <2>1. PICK r \in Rows : Witness(r)
    BY <1>1, ServedIsWanted DEF IInv, CoverInv
  <2>2. Announced.id \in {dom.id, dom.id - 1}
    BY <1>1, AnnouncedType DEF IInv, LastId
  <2> QED BY <2>1, <2>2 DEF Witness, Pending
<1> QED BY <1>1, InductiveInvariant, PTL

\* What the condition of the put lets through is not older than what it replaces.
LEMMA LandsSupersedes ==
    ASSUME NEW m \in Items, stored \in Items, Lands(m), m # stored,
           m.deleted => m = Tombstone(m.id),
           stored.deleted => stored = Tombstone(stored.id)
    PROVE  Supersedes(m, stored)
<1>0. /\ m.id \in Nat /\ m.version \in Nat /\ m.deleted \in BOOLEAN
      /\ stored.id \in Nat /\ stored.deleted \in BOOLEAN
  BY DEF Items
<1>1. CASE stored = NoItem
  <2>1. stored.id = 0 /\ stored.version = 0 /\ stored.deleted = FALSE
    BY <1>1 DEF NoItem
  <2>2. CASE m.deleted
    <3>1. m.id > stored.id \/ m.id = stored.id
      BY <1>0, <2>1
    <3>2. ~stored.deleted
      BY <2>1
    <3> QED BY <2>2, <3>1, <3>2 DEF Supersedes
  <2>3. CASE ~m.deleted
    <3>1. m.deleted = stored.deleted
      BY <1>0, <2>1, <2>3
    <3> QED BY <1>0, <2>1, <3>1 DEF Supersedes
  <2> QED BY <2>2, <2>3
<1>2. CASE m.deleted /\ stored.id <= m.id
  <2>1. m.id > stored.id \/ m.id = stored.id
    BY <1>0, <1>2
  <2>2. stored.id = m.id => ~stored.deleted
    BY <1>2
  <2> QED BY <1>2, <2>1, <2>2 DEF Supersedes
<1>3. CASE ~m.deleted /\ stored.id <= m.id /\ stored # NoItem
  BY <1>3 DEF Lands, Supersedes, Items
<1> QED BY <1>1, <1>2, <1>3 DEF Lands, Items

\* dynamo-projection.ts:67: the stored item never goes back to an earlier state
\* of the host, for any order of stale reads, lost answers and reclaimed rows.
THEOREM StoredNeverOlderAlways ==
    ASSUME OutboxAssumption, DomainMetaAssumption PROVE Spec => StoredNeverOlder
<1>1. ASSUME IInv, [Next]_vars, stored' # stored PROVE Supersedes(stored', stored)
  <2>1. ASSUME NEW m \in Items, Put(m), m.deleted => m = Tombstone(m.id)
        PROVE  Supersedes(stored', stored)
    BY <1>1, <2>1, LandsSupersedes DEF Put, IInv, TypeOK, FormInv
  <2>2. ASSUME NEW w \in Workers, DrainStep(w) PROVE WriteMeta(w)
    BY <1>1, <2>2 DEF DrainStep, Drain, Resolve, ResolveFails, WriteLinks,
                      WriteMetaFails, Mark, Die
  <2>3. ASSUME NEW w \in Workers, WriteMeta(w) PROVE Supersedes(stored', stored)
    BY <1>1, <2>1, <2>3 DEF WriteMeta, IInv, TypeOK, FormInv
  <2>4. ASSUME NEW item \in stray, StrayLands(item) PROVE Supersedes(stored', stored)
    BY <1>1, <2>1, <2>4 DEF StrayLands, IInv, TypeOK, FormInv
  <2>5. ASSUME NEW r \in Rows PROVE ~Api(r)
    BY <1>1, <2>5 DEF Api, ConnectWith, Verify, Update, Disconnect, WriteLink,
                      RemoveLink, Backfill, EnqueueOp
  <2> QED BY <1>1, <2>2, <2>3, <2>4, <2>5 DEF Next, vars, Connect, Upkeep, metaVars
<1> QED BY <1>1, InductiveInvariant, PTL DEF Spec, StoredNeverOlder
=============================================================================
