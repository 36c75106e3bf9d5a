--------------------------- MODULE LinkProjection ---------------------------
(***************************************************************************)
(* The LINK item of one (host, slug) in DynamoDB and its entry in the      *)
(* CloudFront KeyValueStore, as the API changes the link in Postgres       *)
(* (links.service.ts) and the worker projects it through the outbox        *)
(* (dynamo-projection.ts apply(), kvs-projection.ts).                      *)
(*                                                                         *)
(* Unlike the meta item of a domain, a LINK item is written without a      *)
(* condition: BatchWriteItem carries none.  A delete op knows the link's id*)
(* alone and finds the key through the index on linkId, which DynamoDB     *)
(* brings up to date some time after the item.                             *)
(***************************************************************************)
EXTENDS Outbox, Sequences

CONSTANTS
    Contents,       \* what a link may say: destination, rules, flags
    Eligible,       \* contents that the edge may answer by itself (isEdgeEligible)
    Unannounced,    \* pairs <<c, d>> such that a link may go from c to d with no outbox row
    None,           \* no content: no item, no entry
    IndexLags,      \* may the index on linkId lag behind the item?
    MaxId           \* bound: how often the slug is taken

ASSUME LinkProjectionAssumption ==
    /\ Eligible \subseteq Contents
    /\ Unannounced \subseteq Contents \X Contents
    /\ None \notin Contents
    /\ IndexLags \in BOOLEAN
    /\ MaxId \in Nat \ {0}

VARIABLES
    link,       \* the links row of the slug; content None: removed, with its last id
    op,         \* op[r]: what outbox row r asks for
    item,       \* the LINK item in DynamoDB
    index,      \* the link id under which the index lists the key; 0: not listed
    edge,       \* the entry in the KeyValueStore
    stage,      \* stage[w]: where drain w stands in apply()
    todo,       \* todo[w]: claimed rows that w has not resolved yet
    request,    \* request[w]: the one request w will send for the key (byKey)
    owners,     \* owners[w]: the rows that contributed to it
    edgeWork,   \* edgeWork[w]: KVS writes still to do, in the order of the ops
    failed,     \* failed[w]: the rows whose result is not ok
    missed,     \* history: a delete found its item not listed yet
    since       \* history: what the link has said since a row was last written for it

drainVars == <<stage, todo, request, owners, edgeWork, failed>>
storeVars == <<item, index, edge>>
linkVars == <<link, since, op, storeVars, drainVars, missed>>
vars == <<outboxVars, linkVars>>

NoOp == [kind |-> "none", id |-> 0]
NoItem == [id |-> 0, content |-> None]
NoRequest == [kind |-> "none", item |-> NoItem]
Items == [id : Nat, content : Contents \cup {None}]

TypeOK ==
    /\ OutboxTypeOK
    /\ link \in Items /\ item \in Items
    /\ op \in [Rows -> [kind : {"none", "upsert", "delete"}, id : Nat]]
    /\ index \in Nat
    /\ edge \in Eligible \cup {None}
    /\ stage \in [Workers -> {"idle", "resolve", "edge", "mark"}]
    /\ todo \in [Workers -> SUBSET Rows]
    /\ request \in [Workers -> [kind : {"none", "put", "delete"}, item : Items]]
    /\ owners \in [Workers -> SUBSET Rows]
    /\ edgeWork \in [Workers -> Seq([row : Rows, entry : Eligible \cup {None}])]
    /\ failed \in [Workers -> SUBSET Rows]
    /\ missed \in BOOLEAN
    /\ since \subseteq Contents \cup {None}

EdgeEntry(c) == IF c \in Eligible THEN c ELSE None

\* The slug was never taken, or its link is projected and the rows pruned.
Init ==
    /\ OutboxInit
    /\ link \in {NoItem} \cup [id : {1}, content : Contents]
    /\ item = link
    /\ index = link.id
    /\ edge = EdgeEntry(link.content)
    /\ op = [r \in Rows |-> NoOp]
    /\ stage = [w \in Workers |-> "idle"]
    /\ todo = [w \in Workers |-> {}]
    /\ request = [w \in Workers |-> NoRequest]
    /\ owners = [w \in Workers |-> {}]
    /\ edgeWork = [w \in Workers |-> <<>>]
    /\ failed = [w \in Workers |-> {}]
    /\ missed = FALSE
    /\ since = {link.content}

-----------------------------------------------------------------------------
(* The API: most changes write the link and its outbox row in one          *)
(* transaction.                                                            *)

Exists == link.content # None

EnqueueOp(r, kind, i) ==
    /\ Enqueue(r)
    /\ op' = [op EXCEPT ![r] = [kind |-> kind, id |-> i]]
    /\ since' = {link'.content}
    /\ UNCHANGED <<storeVars, drainVars, missed>>

\* create(): a slug is free once the link that had it is removed.
Create(r, c) ==
    /\ ~Exists
    /\ link.id < MaxId
    /\ link' = [id |-> link.id + 1, content |-> c]
    /\ EnqueueOp(r, "upsert", link.id + 1)

\* update(), and the other changes that write a row: moderation, reports, a scan
\* that flags the destination, the verification of the owner.
Update(r, c) ==
    /\ Exists
    /\ link' = [link EXCEPT !.content = c]
    /\ EnqueueOp(r, "upsert", link.id)

\* A scan that finds the destination clean, or cannot tell, writes that and no row.
\* A member's new role or removal, or an account's deletion, writes none either,
\* and may give the workspace an owner who is not verified, or rid it of the last one.
ChangeUnannounced(c) ==
    /\ Exists
    /\ <<link.content, c>> \in Unannounced
    /\ link' = [link EXCEPT !.content = c]
    /\ since' = since \cup {c}
    /\ UNCHANGED <<outboxVars, op, storeVars, drainVars, missed>>

\* remove(), or the removal of the whole workspace.
Remove(r) ==
    /\ Exists
    /\ link' = [link EXCEPT !.content = None]
    /\ EnqueueOp(r, "delete", link.id)

\* sweepExpired: any link may have expired or reached its click limit; one that
\* has an unprocessed row, dead-lettered or not, is left out.
SweepExpired(r) ==
    /\ Exists
    /\ ~\E q \in Rows : Pending(q) /\ op[q].id = link.id
    /\ UNCHANGED link
    /\ EnqueueOp(r, "upsert", link.id)

Api(r) ==
    \/ \E c \in Contents : Create(r, c) \/ Update(r, c)
    \/ Remove(r)
    \/ SweepExpired(r)

-----------------------------------------------------------------------------
(* The drain: DynamoProjection.apply() on the claimed batch.               *)

Drain(w, S) ==
    /\ stage[w] = "idle"
    /\ Claim(w, S)
    /\ stage' = [stage EXCEPT ![w] = "resolve"]
    /\ todo' = [todo EXCEPT ![w] = S]
    /\ UNCHANGED <<link, since, op, storeVars, request, owners, edgeWork, failed, missed>>

\* buildUpsertRequests and buildDeleteRequests: nothing to write if the link is
\* gone, and nothing to delete if the index does not list it.
Request(r) ==
    IF op[r].kind = "upsert"
    THEN IF Exists /\ op[r].id = link.id
         THEN [kind |-> "put", item |-> link]
         ELSE NoRequest
    ELSE IF index = op[r].id THEN [kind |-> "delete", item |-> NoItem] ELSE NoRequest

\* The ops are resolved one by one in the order the claim returned them, which
\* Postgres does not specify.  byKey keeps the last request of the key.
Resolve(w, r) ==
    /\ stage[w] = "resolve"
    /\ r \in todo[w]
    /\ todo' = [todo EXCEPT ![w] = @ \ {r}]
    /\ LET new == Request(r)
       IN  IF new = NoRequest
           THEN UNCHANGED <<request, owners, edgeWork>>
           ELSE /\ request' = [request EXCEPT ![w] = new]
                /\ owners' = [owners EXCEPT ![w] = @ \cup {r}]
                /\ edgeWork' = [edgeWork EXCEPT ![w] =
                       Append(@, [row |-> r, entry |-> EdgeEntry(new.item.content)])]
    /\ missed' = (missed \/ (op[r].kind = "delete" /\ item.id = op[r].id /\ index # item.id))
    /\ UNCHANGED <<outboxVars, link, since, op, storeVars, stage, failed>>

Fail_Unrecorded(w, S) == UNCHANGED failed       \* mutant: logged and forgotten
Fail(w, S) == failed' = [failed EXCEPT ![w] = @ \cup S]

\* The read fails: this row alone fails.
ResolveFails(w, r) ==
    /\ stage[w] = "resolve"
    /\ r \in todo[w]
    /\ todo' = [todo EXCEPT ![w] = @ \ {r}]
    /\ Fail(w, {r})
    /\ UNCHANGED <<outboxVars, link, since, op, storeVars, stage, request, owners, edgeWork, missed>>

\* The BatchWriteItem is carried out.
WriteItem(w) ==
    /\ item' = IF request[w].kind = "none" THEN item ELSE request[w].item
    /\ IF IndexLags THEN UNCHANGED index ELSE index' = item'.id

Flush(w) ==
    /\ stage[w] = "resolve"
    /\ todo[w] = {}
    /\ WriteItem(w)
    /\ stage' = [stage EXCEPT ![w] = "edge"]
    /\ UNCHANGED <<outboxVars, link, since, op, edge, todo, request, owners, edgeWork, failed, missed>>

\* The batch fails after its retries, or its answer is lost: every owner fails
\* and skips its edge step.
FlushFails(w) ==
    /\ stage[w] = "resolve"
    /\ todo[w] = {}
    /\ request[w] # NoRequest
    /\ WriteItem(w) \/ UNCHANGED <<item, index>>
    /\ Fail(w, owners[w])
    /\ edgeWork' = [edgeWork EXCEPT ![w] = <<>>]
    /\ stage' = [stage EXCEPT ![w] = "edge"]
    /\ UNCHANGED <<outboxVars, link, since, op, edge, todo, request, owners, missed>>

\* The index follows the item.
IndexCatchesUp ==
    /\ index # item.id
    /\ index' = item.id
    /\ UNCHANGED <<outboxVars, link, since, op, item, edge, drainVars, missed>>

\* putIfEligible or deleteKey for the next op.
WriteEdge(w) ==
    /\ stage[w] = "edge"
    /\ edgeWork[w] # <<>>
    /\ edge' = Head(edgeWork[w]).entry
    /\ edgeWork' = [edgeWork EXCEPT ![w] = Tail(@)]
    /\ UNCHANGED <<outboxVars, link, since, op, item, index, stage, todo, request, owners, failed,
                   missed>>

\* It throws, or loses the store's ETag three times: that row alone fails.
WriteEdgeFails(w) ==
    /\ stage[w] = "edge"
    /\ edgeWork[w] # <<>>
    /\ edge' \in {edge, Head(edgeWork[w]).entry}
    /\ Fail(w, {Head(edgeWork[w]).row})
    /\ edgeWork' = [edgeWork EXCEPT ![w] = Tail(@)]
    /\ UNCHANGED <<outboxVars, link, since, op, item, index, stage, todo, request, owners, missed>>

Applied(w) ==
    /\ stage[w] = "edge"
    /\ edgeWork[w] = <<>>
    /\ stage' = [stage EXCEPT ![w] = "mark"]
    /\ UNCHANGED <<outboxVars, link, since, op, storeVars, todo, request, owners, edgeWork, failed,
                   missed>>

\* What the drain remembers goes with it when its last row is marked.
Forget(w) ==
    /\ stage' = [stage EXCEPT ![w] = "idle"]
    /\ todo' = [todo EXCEPT ![w] = {}]
    /\ request' = [request EXCEPT ![w] = NoRequest]
    /\ owners' = [owners EXCEPT ![w] = {}]
    /\ edgeWork' = [edgeWork EXCEPT ![w] = <<>>]
    /\ failed' = [failed EXCEPT ![w] = {}]

\* drainOutbox marks row r by its result.
Mark(w, r) ==
    /\ stage[w] = "mark"
    /\ IF r \in failed[w] THEN MarkFailed(w, r) ELSE MarkProcessed(w, r)
    /\ IF batch[w] = {r} THEN Forget(w) ELSE UNCHANGED drainVars
    /\ UNCHANGED <<link, since, op, storeVars, missed>>

\* The process dies; the request it had sent may have been carried out.
Die(w) ==
    /\ Crash(w)
    /\ Forget(w)
    /\ \/ UNCHANGED <<item, index, edge>>
       \/ stage[w] = "resolve" /\ todo[w] = {} /\ WriteItem(w) /\ UNCHANGED edge
       \/ /\ stage[w] = "edge" /\ edgeWork[w] # <<>>
          /\ edge' = Head(edgeWork[w]).entry
          /\ UNCHANGED <<item, index>>
    /\ UNCHANGED <<link, since, op, missed>>

\* The outbox's own steps.
Upkeep ==
    /\ \/ \E r \in Rows : Lapse(r)
       \/ \E S \in SUBSET Rows : Prune(S)
       \/ AdminRetry
    /\ UNCHANGED linkVars

DrainStep(w) ==
    \/ \E S \in SUBSET Rows : Drain(w, S)
    \/ \E r \in Rows : Resolve(w, r) \/ ResolveFails(w, r) \/ Mark(w, r)
    \/ Flush(w) \/ FlushFails(w)
    \/ WriteEdge(w) \/ WriteEdgeFails(w)
    \/ Applied(w)
    \/ Die(w)

Next ==
    \/ \E r \in Rows : Api(r)
    \/ \E c \in Contents : ChangeUnannounced(c)
    \/ \E w \in Workers : DrainStep(w)
    \/ IndexCatchesUp
    \/ Upkeep

Spec == Init /\ [][Next]_vars

-----------------------------------------------------------------------------
Covered == \E r \in Rows : Pending(r) /\ op[r].id = link.id

\* What a drain may have read of the link if it read it after the last row was written.
Recent == IF Exists THEN [id : {link.id}, content : since] ELSE {NoItem}
RecentEntries == {EdgeEntry(c) : c \in since}

\* outbox.ts:10 "the two writes cannot diverge silently", for changes that write a
\* row: the item is what the link has been at some time since such a change, or a
\* row of the link is unprocessed; or a delete was drained before the index listed
\* the item, which dynamo-projection.ts:695 takes for "already gone".
LinkSinceLastRow == item \in Recent \/ Covered \/ missed

\* kvs-projection.ts:18 "so the two stores stay in step", for a link that exists:
\* the edge answers with what the link has said since a row was last written for
\* it, or not at all if it has been ineligible since, or a row is unprocessed.
EdgeSinceLastRow == Exists => edge \in RecentEntries \/ Covered

\* dynamo-projection.ts:462 "A failure anywhere in the closure marks that row
\* failed so the outbox retries the whole op", kvs-projection.ts:20 "every ...
\* removed link DeleteKeys": the entry of a removed link goes, or a row of the
\* link is unprocessed.
RemovedLeavesEdge == ~Exists /\ edge # None => Covered
=============================================================================
