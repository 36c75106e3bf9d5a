------------------------ MODULE LinkProjectionProofs ------------------------
(***************************************************************************)
(* For any number of drains, rows, contents, retries and crashes, and      *)
(* however the index lags and the link changes without a row: as long as   *)
(* one drain at a time holds rows of a link, and its slug has had no other,*)
(* neither DynamoDB nor the KeyValueStore falls behind the last change that*)
(* wrote a row while none is unprocessed.                                  *)
(***************************************************************************)
EXTENDS LinkProjection, OutboxProofs, SequenceTheorems

-----------------------------------------------------------------------------
(* Every step of the projection is a step of the outbox or leaves it alone. *)

\* An action of the projection is an action of the outbox, or touches no row of it.
LEMMA StepIsOutboxStep ==
    ASSUME [Next]_vars PROVE [OutboxNext]_outboxVars
<1>1. ASSUME NEW r \in Rows, Api(r) PROVE OutboxNext
  BY <1>1 DEF Api, Create, Update, Remove, SweepExpired, EnqueueOp, OutboxNext
<1>2. ASSUME NEW w \in Workers, DrainStep(w) PROVE [OutboxNext]_outboxVars
  <2>1. ASSUME NEW S \in SUBSET Rows, Drain(w, S) PROVE OutboxNext
    BY <2>1 DEF Drain, OutboxNext
  <2>2. ASSUME NEW r \in Rows, Resolve(w, r) \/ ResolveFails(w, r) PROVE UNCHANGED outboxVars
    BY <2>2 DEF Resolve, ResolveFails
  <2>3. ASSUME NEW r \in Rows, Mark(w, r) PROVE OutboxNext
    BY <2>3 DEF Mark, OutboxNext
  <2>4. CASE Flush(w) \/ FlushFails(w) \/ WriteEdge(w) \/ WriteEdgeFails(w) \/ Applied(w)
    BY <2>4 DEF Flush, FlushFails, WriteEdge, WriteEdgeFails, Applied
  <2>5. CASE Die(w)
    BY <2>5 DEF Die, OutboxNext
  <2> QED BY <1>2, <2>1, <2>2, <2>3, <2>4, <2>5 DEF DrainStep
<1>3. CASE IndexCatchesUp
  BY <1>3 DEF IndexCatchesUp
<1>4. CASE Upkeep
  BY <1>4 DEF Upkeep, OutboxNext
<1>5. CASE UNCHANGED vars
  BY <1>5 DEF vars
<1>6. ASSUME NEW c \in Contents, ChangeUnannounced(c) PROVE UNCHANGED outboxVars
  BY <1>6 DEF ChangeUnannounced
<1> QED BY <1>1, <1>2, <1>3, <1>4, <1>5, <1>6 DEF Next

\* So what is proved of the outbox holds of the projection.
LEMMA DrainsTheOutbox == Spec => OutboxSpec
<1>1. Init => OutboxInit
  BY DEF Init
<1>2. [Next]_vars => [OutboxNext]_outboxVars
  BY StepIsOutboxStep
<1> QED BY <1>1, <1>2, PTL DEF Spec, OutboxSpec

-----------------------------------------------------------------------------
(* Types. *)

\* The edge writes that a drain has left to do are a queue.
LEMMA Queue ==
    ASSUME NEW T, NEW s \in Seq(T)
    PROVE  /\ Len(s) \in Nat /\ \A i \in 1 .. Len(s) : s[i] \in T
           /\ \A e \in T : /\ Append(s, e) \in Seq(T) /\ Len(Append(s, e)) = Len(s) + 1
                           /\ Append(s, e)[Len(s) + 1] = e
                           /\ \A i \in 1 .. Len(s) : Append(s, e)[i] = s[i]
           /\ s # <<>> => /\ Len(s) >= 1 /\ Head(s) \in T /\ Head(s) = s[1]
                          /\ Tail(s) \in Seq(T) /\ Len(Tail(s)) = Len(s) - 1
                          /\ \A i \in 1 .. Len(s) - 1 : Tail(s)[i] = s[i + 1]
<1>1. Len(s) \in Nat /\ \A i \in 1 .. Len(s) : s[i] \in T
  BY LenProperties, ElementOfSeq
<1>2. ASSUME NEW e \in T
      PROVE  /\ Append(s, e) \in Seq(T) /\ Len(Append(s, e)) = Len(s) + 1
             /\ Append(s, e)[Len(s) + 1] = e
             /\ \A i \in 1 .. Len(s) : Append(s, e)[i] = s[i]
  BY <1>1, AppendProperties
<1>3. ASSUME s # <<>>
      PROVE  /\ Len(s) >= 1 /\ Head(s) \in T /\ Head(s) = s[1]
             /\ Tail(s) \in Seq(T) /\ Len(Tail(s)) = Len(s) - 1
             /\ \A i \in 1 .. Len(s) - 1 : Tail(s)[i] = s[i + 1]
  <2>1. Head(s) \in T /\ Tail(s) \in Seq(T) /\ Len(Tail(s)) = Len(s) - 1
        /\ \A i \in 1 .. Len(Tail(s)) : Tail(s)[i] = s[i + 1]
    BY <1>3, HeadTailProperties
  <2>2. Len(s) >= 1
    BY <1>1, <1>3, EmptySeq
  <2>3. Head(s) = s[1]
    OBVIOUS
  <2> QED BY <2>1, <2>2, <2>3
<1> QED BY <1>1, <1>2, <1>3

Works == [row : Rows, entry : Eligible \cup {None}]

\* What a link may say is an item, and the edge holds eligible contents only.
LEMMA ItemTypes ==
    ASSUME LinkProjectionAssumption
    PROVE  /\ NoItem \in Items /\ NoRequest \in [kind : {"none", "put", "delete"}, item : Items]
           /\ \A c : EdgeEntry(c) \in Eligible \cup {None}
BY DEF NoItem, NoRequest, Items, EdgeEntry

\* The slug is free, or its link is projected.
LEMMA InitType ==
    ASSUME OutboxAssumption, LinkProjectionAssumption, Init PROVE TypeOK
<1> USE DEF LinkProjectionAssumption, Works
<1>1. OutboxTypeOK
  BY OutboxInitType DEF Init
<1>2. link \in Items /\ item \in Items /\ index \in Nat
  BY DEF Init, Items, NoItem
<1>3. edge \in Eligible \cup {None}
  BY ItemTypes DEF Init
<1>4. op \in [Rows -> [kind : {"none", "upsert", "delete"}, id : Nat]]
  BY DEF Init, NoOp
<1>5. edgeWork \in [Workers -> Seq(Works)]
  BY DEF Init
<1>6. since \subseteq Contents \cup {None}
  BY <1>2 DEF Init, Items
<1> QED BY <1>1, <1>2, <1>3, <1>4, <1>5, <1>6, ItemTypes DEF Init, TypeOK

\* The API writes a link and an op of its id.
LEMMA ApiType ==
    ASSUME LinkProjectionAssumption, TypeOK, OutboxTypeOK', NEW r \in Rows, Api(r)
    PROVE  TypeOK'
<1> USE DEF TypeOK, LinkProjectionAssumption
<1>1. UNCHANGED <<storeVars, drainVars, missed>>
  BY DEF Api, Create, Update, Remove, SweepExpired, EnqueueOp
<1>2. link' \in Items
  BY DEF Api, Create, Update, Remove, SweepExpired, Items
<1>3. op' \in [Rows -> [kind : {"none", "upsert", "delete"}, id : Nat]]
  <2>1. link.id \in Nat
    BY DEF Items
  <2>2. \E kind \in {"upsert", "delete"}, i \in {link.id, link.id + 1} :
           op' = [op EXCEPT ![r] = [kind |-> kind, id |-> i]]
    BY DEF Api, Create, Update, Remove, SweepExpired, EnqueueOp
  <2>3. op \in [Rows -> [kind : {"none", "upsert", "delete"}, id : Nat]]
    OBVIOUS
  <2> HIDE DEF TypeOK
  <2>4. PICK kind \in {"upsert", "delete"}, i \in {link.id, link.id + 1} :
           op' = [op EXCEPT ![r] = [kind |-> kind, id |-> i]]
    BY <2>2
  <2>5. [kind |-> kind, id |-> i] \in [kind : {"none", "upsert", "delete"}, id : Nat]
    BY <2>1
  <2> QED BY <2>3, <2>4, <2>5
<1>4. since' \subseteq Contents \cup {None}
  BY <1>2 DEF Api, Create, Update, Remove, SweepExpired, EnqueueOp, Items
<1> QED BY <1>1, <1>2, <1>3, <1>4 DEF storeVars, drainVars

\* What a row is resolved to is a request.
LEMMA ResolveType ==
    ASSUME LinkProjectionAssumption, TypeOK, OutboxTypeOK', NEW w \in Workers, NEW r \in Rows,
           Resolve(w, r)
    PROVE  TypeOK'
<1> USE DEF TypeOK, LinkProjectionAssumption
<1>1. PICK new : new = Request(r)
  OBVIOUS
<1>2. new \in [kind : {"none", "put", "delete"}, item : Items]
  BY <1>1, ItemTypes DEF Request
<1>3. PICK work : work = [row |-> r, entry |-> EdgeEntry(new.item.content)]
  OBVIOUS
<1>4. work \in Works
  BY <1>3, ItemTypes DEF Works
<1>5. PICK works : works = Append(edgeWork[w], work)
  OBVIOUS
<1>6. edgeWork \in [Workers -> Seq(Works)] /\ works \in Seq(Works)
  BY <1>4, <1>5, Queue DEF Works
<1>7. UNCHANGED <<link, since, op, item, index, edge, stage, failed>>
  BY DEF Resolve, storeVars
<1>8. todo' \in [Workers -> SUBSET Rows] /\ missed' \in BOOLEAN
  BY DEF Resolve
<1>9. /\ request' \in {request, [request EXCEPT ![w] = new]}
      /\ owners' \in {owners, [owners EXCEPT ![w] = @ \cup {r}]}
      /\ edgeWork' \in {edgeWork, [edgeWork EXCEPT ![w] = works]}
  BY <1>1, <1>3, <1>5 DEF Resolve
<1>10. edgeWork' \in [Workers -> Seq(Works)]
  <2> HIDE DEF TypeOK
  <2> QED BY <1>6, <1>9
<1>11. request' \in [Workers -> [kind : {"none", "put", "delete"}, item : Items]]
  <2>1. request \in [Workers -> [kind : {"none", "put", "delete"}, item : Items]]
    OBVIOUS
  <2> HIDE DEF TypeOK
  <2> QED BY <1>2, <1>9, <2>1
<1>12. owners' \in [Workers -> SUBSET Rows]
  <2>1. owners \in [Workers -> SUBSET Rows]
    OBVIOUS
  <2> HIDE DEF TypeOK
  <2> QED BY <1>9, <2>1
<1> QED BY <1>7, <1>8, <1>10, <1>11, <1>12 DEF Works

\* The writes of the stores take what was resolved.
LEMMA WriteType ==
    ASSUME LinkProjectionAssumption, TypeOK, OutboxTypeOK', NEW w \in Workers,
           Flush(w) \/ FlushFails(w) \/ WriteEdge(w) \/ WriteEdgeFails(w) \/ Applied(w)
    PROVE  TypeOK'
<1> USE DEF TypeOK, LinkProjectionAssumption
<1>1. WriteItem(w) => item' \in Items /\ index' \in Nat
  BY DEF WriteItem, Items
<1>2. CASE Flush(w)
  <2>1. item' \in Items /\ index' \in Nat
    BY <1>1, <1>2 DEF Flush
  <2>2. stage' \in [Workers -> {"idle", "resolve", "edge", "mark"}]
    BY <1>2 DEF Flush
  <2>3. UNCHANGED <<link, since, op, edge, todo, request, owners, edgeWork, failed, missed>>
    BY <1>2 DEF Flush
  <2> QED BY <2>1, <2>2, <2>3
<1>3. CASE FlushFails(w)
  <2>1. item' \in Items /\ index' \in Nat
    BY <1>1, <1>3 DEF FlushFails
  <2>2. stage' \in [Workers -> {"idle", "resolve", "edge", "mark"}]
    BY <1>3 DEF FlushFails
  <2>3. failed' \in [Workers -> SUBSET Rows]
    BY <1>3 DEF FlushFails, Fail
  <2>4. edgeWork' \in [Workers -> Seq(Works)]
    <3>1. edgeWork \in [Workers -> Seq(Works)] /\ edgeWork' = [edgeWork EXCEPT ![w] = <<>>]
      BY <1>3 DEF FlushFails, Works
    <3> HIDE DEF TypeOK
    <3> QED BY <3>1
  <2>5. UNCHANGED <<link, since, op, edge, todo, request, owners, missed>>
    BY <1>3 DEF FlushFails
  <2> QED BY <2>1, <2>2, <2>3, <2>4, <2>5 DEF Works
<1>4. CASE WriteEdge(w) \/ WriteEdgeFails(w)
  <2>1. edgeWork[w] \in Seq(Works) /\ edgeWork[w] # <<>>
    BY <1>4 DEF WriteEdge, WriteEdgeFails, Works
  <2>2. PICK h, t : h = Head(edgeWork[w]) /\ t = Tail(edgeWork[w])
    OBVIOUS
  <2>3. h \in Works /\ t \in Seq(Works)
    BY <2>1, <2>2, Queue
  <2>4. edge' \in {edge, h.entry} /\ edgeWork' = [edgeWork EXCEPT ![w] = t]
        /\ failed' \in {failed, [failed EXCEPT ![w] = @ \cup {h.row}]}
    BY <1>4, <2>2 DEF WriteEdge, WriteEdgeFails, Fail
  <2>5. UNCHANGED <<link, since, op, item, index, stage, todo, request, owners, missed>>
    BY <1>4 DEF WriteEdge, WriteEdgeFails
  <2>6. edgeWork' \in [Workers -> Seq(Works)]
    <3>1. edgeWork \in [Workers -> Seq(Works)]
      BY DEF Works
    <3> HIDE DEF TypeOK
    <3> QED BY <2>3, <2>4, <3>1
  <2>7. h.row \in Rows /\ h.entry \in Eligible \cup {None}
    BY <2>3 DEF Works
  <2>8. edge' \in Eligible \cup {None}
    BY <2>4, <2>7
  <2>9. failed' \in [Workers -> SUBSET Rows]
    <3>1. failed \in [Workers -> SUBSET Rows]
      OBVIOUS
    <3> HIDE DEF TypeOK
    <3> QED BY <2>4, <2>7, <3>1
  <2> QED BY <2>5, <2>6, <2>8, <2>9 DEF Works
<1>5. CASE Applied(w)
  BY <1>5 DEF Applied, storeVars
<1> QED BY <1>2, <1>3, <1>4, <1>5

\* Every step keeps the types.
LEMMA NextType ==
    ASSUME OutboxAssumption, LinkProjectionAssumption, TypeOK, [Next]_vars
    PROVE  TypeOK'
<1> USE DEF TypeOK, LinkProjectionAssumption
<1>0. OutboxTypeOK'
  BY OutboxNextType, StepIsOutboxStep
<1>1. ASSUME NEW r \in Rows, Api(r) PROVE TypeOK'
  BY <1>0, <1>1, ApiType
<1>2. ASSUME NEW w \in Workers, DrainStep(w) PROVE TypeOK'
  <2>1. ASSUME NEW S \in SUBSET Rows, Drain(w, S) PROVE TypeOK'
    BY <1>0, <2>1 DEF Drain, storeVars
  <2>2. ASSUME NEW r \in Rows, Resolve(w, r) PROVE TypeOK'
    BY <1>0, <2>2, ResolveType
  <2>3. ASSUME NEW r \in Rows, ResolveFails(w, r) PROVE TypeOK'
    BY <1>0, <2>3 DEF ResolveFails, Fail, storeVars
  <2>4. ASSUME Forget(w)
        PROVE  /\ stage' \in [Workers -> {"idle", "resolve", "edge", "mark"}]
               /\ todo' \in [Workers -> SUBSET Rows]
               /\ request' \in [Workers -> [kind : {"none", "put", "delete"}, item : Items]]
               /\ owners' \in [Workers -> SUBSET Rows]
               /\ edgeWork' \in [Workers -> Seq(Works)]
               /\ failed' \in [Workers -> SUBSET Rows]
    <3>1. edgeWork' \in [Workers -> Seq(Works)]
      <4>1. edgeWork \in [Workers -> Seq(Works)] /\ edgeWork' = [edgeWork EXCEPT ![w] = <<>>]
        BY <2>4 DEF Forget, Works
      <4> HIDE DEF TypeOK
      <4> QED BY <4>1
    <3>2. request' \in [Workers -> [kind : {"none", "put", "delete"}, item : Items]]
      BY <2>4, ItemTypes DEF Forget
    <3>3. stage' \in [Workers -> {"idle", "resolve", "edge", "mark"}]
      BY <2>4 DEF Forget
    <3>4. todo' \in [Workers -> SUBSET Rows] /\ owners' \in [Workers -> SUBSET Rows]
          /\ failed' \in [Workers -> SUBSET Rows]
      BY <2>4 DEF Forget
    <3> QED BY <3>1, <3>2, <3>3, <3>4
  <2>5. ASSUME NEW r \in Rows, Mark(w, r) PROVE TypeOK'
    <3>1. UNCHANGED <<link, since, op, item, index, edge, missed>>
      BY <2>5 DEF Mark, storeVars
    <3>2. CASE Forget(w)
      BY <1>0, <2>4, <3>1, <3>2 DEF Works
    <3>3. CASE UNCHANGED drainVars
      BY <1>0, <3>1, <3>3 DEF drainVars
    <3> QED BY <2>5, <3>2, <3>3 DEF Mark
  <2>6. CASE Flush(w) \/ FlushFails(w) \/ WriteEdge(w) \/ WriteEdgeFails(w) \/ Applied(w)
    BY <1>0, <2>6, WriteType
  <2>7. CASE Die(w)
    <3>1. WriteItem(w) => item' \in Items /\ index' \in Nat
      BY DEF WriteItem, Items
    <3>2. edgeWork[w] # <<>> => Head(edgeWork[w]).entry \in Eligible \cup {None}
      <4>1. PICK s : s = edgeWork[w]
        OBVIOUS
      <4>2. s \in Seq(Works)
        BY <4>1 DEF Works
      <4>3. s # <<>> => Head(s) \in Works
        BY <4>2, Queue
      <4> QED BY <4>1, <4>3 DEF Works
    <3>3. item' \in Items /\ index' \in Nat /\ edge' \in Eligible \cup {None}
      BY <2>7, <3>1, <3>2 DEF Die
    <3>4. UNCHANGED <<link, since, op, missed>> /\ Forget(w)
      BY <2>7 DEF Die
    <3> QED BY <1>0, <2>4, <3>3, <3>4 DEF Works
  <2> QED BY <1>2, <2>1, <2>2, <2>3, <2>5, <2>6, <2>7 DEF DrainStep
<1>3. CASE IndexCatchesUp
  BY <1>0, <1>3 DEF IndexCatchesUp, drainVars, Items
<1>4. CASE Upkeep \/ UNCHANGED vars
  BY <1>0, <1>4 DEF Upkeep, vars, linkVars, storeVars, drainVars
<1>5. ASSUME NEW c \in Contents, ChangeUnannounced(c) PROVE TypeOK'
  <2>1. link' \in Items /\ since' \subseteq Contents \cup {None}
    BY <1>5 DEF ChangeUnannounced, Items
  <2>2. UNCHANGED <<op, item, index, edge, stage, todo, request, owners, edgeWork, failed, missed>>
    BY <1>5 DEF ChangeUnannounced, storeVars, drainVars
  <2> QED BY <1>0, <2>1, <2>2
<1> QED BY <1>1, <1>2, <1>3, <1>4, <1>5 DEF Next

\* The link, the stores and the drains have their types.
THEOREM LinkTypes ==
    ASSUME OutboxAssumption, LinkProjectionAssumption PROVE Spec => []TypeOK
<1>1. Init => TypeOK
  BY InitType
<1>2. TypeOK /\ [Next]_vars => TypeOK'
  BY NextType
<1> QED BY <1>1, <1>2, PTL DEF Spec

-----------------------------------------------------------------------------
(* The inductive invariant.                                                *)

\* Until the slug is taken a second time.
FirstLink == link.id <= 1

\* One drain at a time holds rows of the link.
DrainsApart == \A v, w \in Workers : Idle(v) \/ Idle(w) \/ v = w

\* Only rows that exist are in a drain's hands; what it remembers of them goes
\* with the stages of apply().
DrainInv ==
    \A w \in Workers :
        /\ \A r \in batch[w] \cup todo[w] : row[r] # "absent"
        /\ stage[w] = "idle" <=> batch[w] = {}
        /\ stage[w] = "idle" => request[w] = NoRequest
        /\ stage[w] \in {"idle", "mark"} => edgeWork[w] = <<>>
        /\ stage[w] \in {"edge", "mark"} => todo[w] = {}
        /\ request[w].kind # "put" => request[w].item = NoItem

\* What is stored, or about to be, is of the one link there has been; a row asks
\* for a delete once it is removed.
ItemInv ==
    /\ Exists => link.id >= 1
    /\ link.content \in since
    /\ item # NoItem => item.id = link.id /\ link.id >= 1
    /\ \A w \in Workers :
          request[w].kind = "put" => request[w].item.id = link.id /\ link.id >= 1
    /\ \A r \in Rows : row[r] # "absent" => op[r].kind # "none"
    /\ \A r \in Rows : op[r].kind = "delete" => ~Exists /\ link.id >= 1

\* A put is resolved while the link exists, so no delete was claimed with it.
PutInv ==
    \A w \in Workers : request[w].kind = "put" => \A r \in todo[w] : op[r].kind # "delete"

\* Row r asks for what a drain does that reads the link now.
Asks(r) ==
    /\ row[r] = "queued" /\ op[r].id = link.id
    /\ op[r].kind = IF Exists THEN "upsert" ELSE "delete"

\* Whoever holds row r has not read the link yet, has failed, or will write what
\* the link has been since a row was last written for it.
LinkWitness(r) ==
    /\ Asks(r)
    /\ \A w \in Workers : r \in batch[w] =>
          \/ r \in todo[w] \/ r \in failed[w]
          \/ /\ stage[w] = "resolve" /\ r \in owners[w]
             /\ request[w].kind # "none" /\ request[w].item \in Recent
LinkSettled ==
    /\ item \in Recent
    /\ \A w \in Workers :
          stage[w] = "resolve" /\ request[w].kind # "none" => request[w].item \in Recent
LinkCover == LinkSettled \/ missed \/ \E r \in Rows : LinkWitness(r)

\* The same of the edge, whose writes are done one by one: from the row's own on,
\* all of them write what the link has said since then.
Brings(work, r) ==
    \E i \in 1 .. Len(work) : work[i].row = r /\ \A j \in i .. Len(work) : work[j].entry \in RecentEntries
EdgeWitness(r) ==
    /\ Asks(r)
    /\ \A w \in Workers : r \in batch[w] =>
          \/ r \in todo[w] \/ r \in failed[w]
          \/ stage[w] \in {"resolve", "edge"} /\ r \in owners[w] /\ Brings(edgeWork[w], r)
EdgeSettled ==
    /\ edge \in RecentEntries
    /\ \A w \in Workers : \A i \in 1 .. Len(edgeWork[w]) : edgeWork[w][i].entry \in RecentEntries
EdgeCover == Exists => EdgeSettled \/ \E r \in Rows : EdgeWitness(r)

IInv ==
    /\ TypeOK /\ DrainInv
    /\ FirstLink => ItemInv /\ PutInv /\ LinkCover /\ EdgeCover

\* What the steps below need of the types.
Shape ==
    /\ row \in [Rows -> {"absent", "queued", "processed", "pruned"}]
    /\ batch \in [Workers -> SUBSET Rows]
    /\ link \in Items /\ item \in Items
    /\ op \in [Rows -> [kind : {"none", "upsert", "delete"}, id : Nat]]
    /\ stage \in [Workers -> {"idle", "resolve", "edge", "mark"}]
    /\ todo \in [Workers -> SUBSET Rows]
    /\ request \in [Workers -> [kind : {"none", "put", "delete"}, item : Items]]
    /\ owners \in [Workers -> SUBSET Rows]
    /\ edgeWork \in [Workers -> Seq(Works)]
    /\ failed \in [Workers -> SUBSET Rows]

\* The types say so.
LEMMA ShapeOfTypes == ASSUME TypeOK PROVE Shape
BY DEF TypeOK, OutboxTypeOK, Shape, Works

-----------------------------------------------------------------------------
(* Every step keeps DrainInv.                                              *)

\* The API adds a row that no drain holds.
LEMMA DrainInvApi ==
    ASSUME Shape, DrainInv, NEW r \in Rows, Api(r) PROVE DrainInv'
<1>1. UNCHANGED <<batch, drainVars>> /\ row' = [row EXCEPT ![r] = "queued"]
  BY DEF Api, Create, Update, Remove, SweepExpired, EnqueueOp, Enqueue
<1>2. \A q \in Rows : row[q] # "absent" => row'[q] # "absent"
  BY <1>1 DEF Shape
<1>3. \A w \in Workers : batch[w] \in SUBSET Rows /\ todo[w] \in SUBSET Rows
  BY DEF Shape
<1> QED BY <1>1, <1>2, <1>3 DEF DrainInv, drainVars

\* A drain claims rows that are queued, and remembers what it resolves.
LEMMA DrainInvStep ==
    ASSUME Shape, DrainInv, NEW w \in Workers, DrainStep(w) PROVE DrainInv'
<1> USE DEF Shape
<1>1. ASSUME NEW S \in SUBSET Rows, Drain(w, S) PROVE DrainInv'
  <2>1. S # {} /\ \A r \in S : row[r] = "queued"
    BY <1>1 DEF Drain, Claim, OldestClaimable, Claimable, Pending
  <2>2. UNCHANGED <<row, request, edgeWork>> /\ batch' = [batch EXCEPT ![w] = S]
        /\ todo' = [todo EXCEPT ![w] = S] /\ stage' = [stage EXCEPT ![w] = "resolve"]
    BY <1>1 DEF Drain, Claim
  <2> QED BY <2>1, <2>2 DEF DrainInv
<1>2. ASSUME NEW r \in Rows, Resolve(w, r) PROVE DrainInv'
  <2>1. UNCHANGED <<row, batch, stage>> /\ todo' = [todo EXCEPT ![w] = @ \ {r}]
        /\ stage[w] = "resolve"
    BY <1>2 DEF Resolve, outboxVars
  <2>2. \A v \in Workers : v # w => request'[v] = request[v] /\ edgeWork'[v] = edgeWork[v]
    BY <1>2 DEF Resolve
  <2>3. request'[w] = request[w] \/ request'[w] = Request(r)
    BY <1>2 DEF Resolve
  <2>4. request'[w].kind # "put" => request'[w].item = NoItem
    BY <2>3 DEF DrainInv, Request, NoRequest
  <2> QED BY <2>1, <2>2, <2>4 DEF DrainInv
<1>3. ASSUME NEW r \in Rows, ResolveFails(w, r) PROVE DrainInv'
  BY <1>3 DEF ResolveFails, outboxVars, DrainInv
<1>4. CASE Flush(w) \/ FlushFails(w)
  BY <1>4 DEF Flush, FlushFails, outboxVars, DrainInv
<1>5. CASE WriteEdge(w) \/ WriteEdgeFails(w) \/ Applied(w)
  BY <1>5 DEF WriteEdge, WriteEdgeFails, Applied, outboxVars, DrainInv
<1>6. ASSUME Forget(w), \A r \in Rows : row[r] # "absent" => row'[r] # "absent",
             batch' = [batch EXCEPT ![w] = {}]
      PROVE  DrainInv'
  BY <1>6 DEF Forget, DrainInv, NoRequest
<1>7. ASSUME NEW r \in Rows, Mark(w, r) PROVE DrainInv'
  <2>1. /\ row' = row \/ row' = [row EXCEPT ![r] = IF @ = "queued" THEN "processed" ELSE @]
        /\ r \in batch[w] /\ batch' = [batch EXCEPT ![w] = @ \ {r}]
    BY <1>7 DEF Mark, MarkFailed, MarkProcessed, Done
  <2>2. \A q \in Rows : row[q] # "absent" => row'[q] # "absent"
    BY <2>1
  <2>3. CASE batch[w] = {r} /\ Forget(w)
    <3>1. batch' = [batch EXCEPT ![w] = {}]
      BY <2>1, <2>3
    <3> QED BY <1>6, <2>2, <2>3, <3>1
  <2>4. CASE batch[w] # {r} /\ UNCHANGED drainVars
    <3>1. \A v \in Workers : batch'[v] \subseteq batch[v] /\ (batch'[v] = {} <=> batch[v] = {})
      BY <2>1, <2>4
    <3> QED BY <2>2, <2>4, <3>1 DEF DrainInv, drainVars
  <2> QED BY <1>7, <2>3, <2>4 DEF Mark
<1>8. CASE Die(w)
  BY <1>6, <1>8 DEF Die, Crash
<1> QED BY <1>1, <1>2, <1>3, <1>4, <1>5, <1>7, <1>8 DEF DrainStep

\* Rows are pruned and retried, never forgotten.
LEMMA DrainInvNext ==
    ASSUME Shape, DrainInv, [Next]_vars PROVE DrainInv'
<1>1. CASE IndexCatchesUp \/ UNCHANGED vars
  BY <1>1 DEF IndexCatchesUp, vars, outboxVars, linkVars, drainVars, DrainInv
<1>2. CASE Upkeep
  <2>1. UNCHANGED <<batch, drainVars>>
        /\ \A r \in Rows : row[r] # "absent" => row'[r] # "absent"
    BY <1>2 DEF Upkeep, Lapse, Prune, AdminRetry, linkVars, Shape
  <2> QED BY <2>1 DEF DrainInv, drainVars, Shape
<1>3. ASSUME NEW c \in Contents, ChangeUnannounced(c) PROVE DrainInv'
  BY <1>3 DEF ChangeUnannounced, outboxVars, drainVars, DrainInv
<1> QED BY <1>1, <1>2, <1>3, DrainInvApi, DrainInvStep DEF Next

-----------------------------------------------------------------------------
(* Every step keeps the rest, while the slug has had one link.             *)

Cover == ItemInv /\ PutInv /\ LinkCover /\ EdgeCover

\* While the link stays, so does what Postgres says and what its rows ask for.
LEMMA LinkKept ==
    ASSUME UNCHANGED <<link, since>>
    PROVE  /\ Exists' = Exists /\ Recent' = Recent /\ RecentEntries' = RecentEntries
           /\ \A q \in Rows :
                  /\ row'[q] = row[q] /\ op'[q] = op[q] => Asks(q)' = Asks(q)
                  /\ \A v \in Workers :
                        edgeWork'[v] = edgeWork[v] =>
                            Brings(edgeWork[v], q)' = Brings(edgeWork[v], q)
BY DEF Exists, Recent, RecentEntries, EdgeEntry, Asks, Brings

\* The row that the API adds asks for what Postgres says from now on, and no
\* drain holds it.
LEMMA CoverApi ==
    ASSUME LinkProjectionAssumption, Shape, DrainInv, Cover, NEW r \in Rows, Api(r), FirstLink'
    PROVE  Cover'
<1> USE DEF Shape
<1>1. /\ UNCHANGED <<batch, item, edge, stage, todo, request, owners, edgeWork, failed, missed>>
      /\ row[r] = "absent" /\ row' = [row EXCEPT ![r] = "queued"]
  BY DEF Api, Create, Update, Remove, SweepExpired, EnqueueOp, Enqueue, storeVars, drainVars
<1>2. PICK k : op' = [op EXCEPT ![r] = [kind |-> k, id |-> link'.id]]
               /\ k = IF Exists' THEN "upsert" ELSE "delete"
  BY DEF Api, Create, Update, Remove, SweepExpired, EnqueueOp, Exists, LinkProjectionAssumption,
         Items
<1>3. link.id \in Nat /\ link'.id \in Nat /\ link'.id <= 1
  BY DEF FirstLink, Items, Api, Create, Update, Remove, SweepExpired
<1>4. \/ Exists /\ link'.id = link.id
      \/ ~Exists /\ Exists' /\ link.id = 0 /\ link'.id = 1
  BY <1>3 DEF Api, Create, Update, Remove, SweepExpired, Exists, Items, LinkProjectionAssumption
<1>5. \A w \in Workers : r \notin batch[w] /\ r \notin todo[w]
  BY <1>1 DEF DrainInv
<1>6. ItemInv /\ PutInv
  BY DEF Cover
<1>7. op'[r].kind = k /\ op'[r].id = link'.id /\ \A q \in Rows : q # r => op'[q] = op[q]
  BY <1>2
<1>8. row'[r] = "queued" /\ \A q \in Rows : q # r => row'[q] = row[q]
  BY <1>1
<1>9. ItemInv'
  <2>1. (Exists => link.id >= 1)'
    BY <1>4, <1>6 DEF ItemInv
  <2>2. (item # NoItem => item.id = link.id /\ link.id >= 1)'
    BY <1>1, <1>3, <1>4, <1>6 DEF ItemInv
  <2>3. (\A w \in Workers :
            request[w].kind = "put" => request[w].item.id = link.id /\ link.id >= 1)'
    BY <1>1, <1>3, <1>4, <1>6 DEF ItemInv
  <2>4. (\A q \in Rows : row[q] # "absent" => op[q].kind # "none")'
    BY <1>2, <1>6, <1>7, <1>8 DEF ItemInv
  <2>5. (\A q \in Rows : op[q].kind = "delete" => ~Exists /\ link.id >= 1)'
    BY <1>2, <1>3, <1>4, <1>6, <1>7 DEF ItemInv
  <2>6. (link.content \in since)'
    BY DEF Api, Create, Update, Remove, SweepExpired, EnqueueOp
  <2> QED BY <2>1, <2>2, <2>3, <2>4, <2>5, <2>6 DEF ItemInv
<1>10. PutInv'
  BY <1>1, <1>5, <1>6, <1>7 DEF PutInv
<1>11. Asks(r)'
  BY <1>2, <1>7, <1>8 DEF Asks
<1>12. LinkCover'
  BY <1>1, <1>5, <1>11 DEF LinkCover, LinkWitness
<1>13. EdgeCover'
  BY <1>1, <1>5, <1>11 DEF EdgeCover, EdgeWitness
<1> QED BY <1>9, <1>10, <1>12, <1>13 DEF Cover

\* A change without a row adds to what the link has said since the last one.
LEMMA CoverUnannounced ==
    ASSUME LinkProjectionAssumption, Shape, Cover, NEW c \in Contents, ChangeUnannounced(c)
    PROVE  Cover'
<1> USE DEF Shape
<1>1. /\ UNCHANGED <<row, batch, op, item, edge, stage, todo, request, owners, edgeWork, failed,
                     missed>>
      /\ Exists /\ link' = [link EXCEPT !.content = c] /\ since' = since \cup {c}
  BY DEF ChangeUnannounced, outboxVars, storeVars, drainVars
<1>2. /\ Exists' /\ link'.id = link.id /\ link'.content = c
      /\ \A q \in Rows : Asks(q)' = Asks(q)
  BY <1>1 DEF Exists, Items, Asks, LinkProjectionAssumption
<1>3. Recent \subseteq Recent' /\ RecentEntries \subseteq RecentEntries'
  BY <1>1, <1>2 DEF Recent, RecentEntries
<1>4. ItemInv /\ PutInv /\ LinkCover /\ EdgeCover
  BY DEF Cover
<1>5. ItemInv' /\ PutInv'
  BY <1>1, <1>2, <1>4 DEF ItemInv, PutInv
<1>6. LinkCover'
  <2>1. LinkSettled => LinkSettled'
    BY <1>1, <1>3 DEF LinkSettled
  <2>2. \A q \in Rows : LinkWitness(q) => LinkWitness(q)'
    BY <1>1, <1>2, <1>3 DEF LinkWitness
  <2> QED BY <1>1, <1>4, <2>1, <2>2 DEF LinkCover
<1>7. EdgeCover'
  <2>1. EdgeSettled => EdgeSettled'
    BY <1>1, <1>3 DEF EdgeSettled
  <2>2. \A q \in Rows, v \in Workers : Brings(edgeWork[v], q) => Brings(edgeWork[v], q)'
    BY <1>1, <1>3 DEF Brings
  <2>3. \A q \in Rows : EdgeWitness(q) => EdgeWitness(q)'
    BY <1>1, <1>2, <2>2 DEF EdgeWitness
  <2> QED BY <1>1, <1>4, <2>1, <2>3 DEF EdgeCover
<1> QED BY <1>5, <1>6, <1>7 DEF Cover

\* A drain that claims rows has read none of them yet.
LEMMA CoverDrain ==
    ASSUME Shape, DrainInv, Cover, NEW w \in Workers, NEW S \in SUBSET Rows, Drain(w, S)
    PROVE  Cover'
<1> USE DEF Shape
<1>1. /\ UNCHANGED <<row, link, since, op, item, edge, request, owners, edgeWork, failed, missed>>
      /\ batch' = [batch EXCEPT ![w] = S] /\ todo' = [todo EXCEPT ![w] = S]
      /\ stage' = [stage EXCEPT ![w] = "resolve"] /\ stage[w] = "idle"
  BY DEF Drain, Claim, storeVars
<1>2. request[w].kind = "none"
  BY <1>1 DEF DrainInv, NoRequest
<1>3. ItemInv' /\ PutInv'
  BY <1>1, <1>2 DEF Cover, ItemInv, PutInv, Exists
<1>4. LinkCover'
  BY <1>1, <1>2 DEF Cover, LinkCover, LinkSettled, LinkWitness, Asks, Recent, Exists
<1>5. EdgeCover'
  <2>1. Exists' = Exists /\ RecentEntries' = RecentEntries /\ \A q \in Rows : Asks(q)' = Asks(q)
    BY <1>1, LinkKept
  <2>2. EdgeSettled => EdgeSettled'
    BY <1>1, <2>1 DEF EdgeSettled
  <2>3. ASSUME NEW q \in Rows, EdgeWitness(q) PROVE EdgeWitness(q)'
    <3>1. ASSUME NEW v \in Workers, q \in batch'[v], v # w
          PROVE  \/ q \in todo'[v] \/ q \in failed'[v]
                 \/ /\ stage'[v] \in {"resolve", "edge"} /\ q \in owners'[v]
                    /\ Brings(edgeWork[v], q)'
      BY <1>1, <2>1, <2>3, <3>1 DEF EdgeWitness, Brings
    <3>2. q \in batch'[w] => q \in todo'[w]
      BY <1>1
    <3> QED BY <2>1, <2>3, <3>1, <3>2 DEF EdgeWitness
  <2> QED BY <2>1, <2>2, <2>3 DEF Cover, EdgeCover
<1> QED BY <1>3, <1>4, <1>5 DEF Cover

\* While a drain holds rows, the others hold and remember nothing.
LEMMA OthersIdle ==
    ASSUME DrainsApart, DrainInv, NEW w \in Workers, batch[w] # {}
    PROVE  \A v \in Workers : v # w => /\ batch[v] = {} /\ stage[v] = "idle"
                                      /\ request[v].kind = "none" /\ edgeWork[v] = <<>>
BY DEF DrainsApart, DrainInv, Idle, NoRequest

\* What is resolved is what Postgres says: a put of the link that there is, or a
\* delete once it is gone.
LEMMA Resolved ==
    ASSUME Shape, DrainInv, ItemInv, NEW w \in Workers, NEW r \in todo[w], r \in Rows
    PROVE  /\ Request(r) # NoRequest =>
                 /\ Request(r).kind # "none" /\ Request(r).item \in Recent
                 /\ EdgeEntry(Request(r).item.content) \in RecentEntries
                 /\ Request(r).kind = "put" <=> Exists
                 /\ Request(r).kind = "put" => Request(r).item = link
           /\ Asks(r) /\ Exists => Request(r) # NoRequest
<1> USE DEF Shape
<1>1. row[r] # "absent"
  BY DEF DrainInv
<1>2. op[r].kind \in {"upsert", "delete"}
  BY <1>1 DEF ItemInv
<1>5. Exists => link \in Recent
  BY DEF ItemInv, Recent, Items
<1>3. CASE op[r].kind = "upsert"
  BY <1>3, <1>5 DEF Request, NoRequest, RecentEntries, Asks, ItemInv
<1>4. CASE op[r].kind = "delete"
  <2>1. ~Exists
    BY <1>4 DEF ItemInv
  <2>2. link.content = None
    BY <2>1 DEF Exists
  <2> QED BY <1>4, <2>1, <2>2 DEF Request, NoRequest, NoItem, Recent, RecentEntries, Asks, ItemInv
<1> QED BY <1>2, <1>3, <1>4

AllBring(work) == \A i \in 1 .. Len(work) : work[i].entry \in RecentEntries

\* A write of what Postgres says, put at the end, keeps what the writes bring.
LEMMA BringsMore ==
    ASSUME NEW s \in Seq(Works), NEW e \in Works, e.entry \in RecentEntries
    PROVE  /\ AllBring(s) => AllBring(Append(s, e))
           /\ Brings(Append(s, e), e.row)
           /\ \A q : Brings(s, q) => Brings(Append(s, e), q)
<1>1. PICK n, t : n = Len(s) /\ t = Append(s, e)
  OBVIOUS
<1>2. /\ n \in Nat /\ Len(t) = n + 1 /\ t[n + 1] = e
      /\ \A i \in 1 .. n : t[i] = s[i]
  BY <1>1, Queue
<1>3. AllBring(s) => AllBring(t)
  BY <1>1, <1>2 DEF AllBring
<1>4. Brings(t, e.row)
  <2>1. n + 1 \in 1 .. Len(t) /\ \A j \in n + 1 .. Len(t) : j = n + 1
    BY <1>2
  <2> QED BY <1>2, <2>1 DEF Brings
<1>5. ASSUME NEW q, Brings(s, q) PROVE Brings(t, q)
  <2>1. PICK i \in 1 .. n : s[i].row = q /\ \A j \in i .. n : s[j].entry \in RecentEntries
    BY <1>1, <1>5 DEF Brings
  <2>2. i \in 1 .. Len(t) /\ t[i].row = q
    BY <1>2, <2>1
  <2>3. ASSUME NEW j \in i .. Len(t) PROVE t[j].entry \in RecentEntries
    <3>1. j \in i .. n \/ j = n + 1
      BY <1>2
    <3> QED BY <1>2, <2>1, <3>1
  <2> QED BY <2>2, <2>3 DEF Brings
<1> QED BY <1>1, <1>3, <1>4, <1>5

\* The first write is done: it was the row's own, and all the others write the
\* same, or the row's own is still to come.
LEMMA BringsLess ==
    ASSUME NEW s \in Seq(Works), s # <<>>
    PROVE  /\ AllBring(s) => Head(s).entry \in RecentEntries /\ AllBring(Tail(s))
           /\ \A q : Brings(s, q) => \/ Brings(Tail(s), q)
                                    \/ /\ Head(s).row = q /\ Head(s).entry \in RecentEntries
                                       /\ AllBring(Tail(s))
<1>1. PICK n, t : n = Len(s) /\ t = Tail(s)
  OBVIOUS
<1>2. /\ n \in Nat /\ n >= 1 /\ Len(t) = n - 1 /\ Head(s) = s[1]
      /\ \A i \in 1 .. n - 1 : t[i] = s[i + 1]
  BY <1>1, Queue
<1>3. AllBring(s) => Head(s).entry \in RecentEntries /\ AllBring(t)
  BY <1>1, <1>2 DEF AllBring
<1>4. ASSUME NEW q, Brings(s, q)
      PROVE  Brings(t, q) \/ (Head(s).row = q /\ Head(s).entry \in RecentEntries /\ AllBring(t))
  <2>1. PICK i \in 1 .. n : s[i].row = q /\ \A j \in i .. n : s[j].entry \in RecentEntries
    BY <1>1, <1>4 DEF Brings
  <2>2. CASE i = 1
    BY <1>2, <2>1, <2>2 DEF AllBring
  <2>3. CASE i # 1
    <3>1. i - 1 \in 1 .. Len(t) /\ t[i - 1].row = q
      BY <1>2, <2>1, <2>3
    <3>2. ASSUME NEW j \in i - 1 .. Len(t) PROVE t[j].entry \in RecentEntries
      <4>1. j \in 1 .. n - 1 /\ j + 1 \in i .. n
        BY <1>2, <2>3
      <4> QED BY <1>2, <2>1, <4>1
    <3> QED BY <3>1, <3>2 DEF Brings
  <2> QED BY <2>2, <2>3
<1> QED BY <1>1, <1>3, <1>4

\* A row that resolves to nothing asked for nothing, or asked for a delete of an
\* item that is gone or that the index does not list yet.
LEMMA CoverResolve ==
    ASSUME DrainsApart, LinkProjectionAssumption, Shape, DrainInv, Cover, NEW w \in Workers,
           NEW r \in Rows, Resolve(w, r)
    PROVE  Cover'
<1> USE DEF Shape
<1>1. /\ UNCHANGED <<row, batch, link, since, op, item, index, edge, stage, failed>>
      /\ stage[w] = "resolve" /\ r \in todo[w] /\ todo' = [todo EXCEPT ![w] = @ \ {r}]
      /\ missed' = (missed \/ (op[r].kind = "delete" /\ item.id = op[r].id /\ index # item.id))
  BY DEF Resolve, outboxVars, storeVars
<1>2. PICK new : new = Request(r)
  OBVIOUS
<1>3. PICK work : work = [row |-> r, entry |-> EdgeEntry(new.item.content)]
  OBVIOUS
<1>4. \/ new = NoRequest /\ UNCHANGED <<request, owners, edgeWork>>
      \/ /\ new # NoRequest
         /\ request' = [request EXCEPT ![w] = new]
         /\ owners' = [owners EXCEPT ![w] = @ \cup {r}]
         /\ edgeWork' = [edgeWork EXCEPT ![w] = Append(@, work)]
  BY <1>2, <1>3 DEF Resolve
<1>5. ItemInv /\ PutInv /\ LinkCover /\ EdgeCover
  BY DEF Cover
<1>6. /\ new # NoRequest =>
            /\ new.kind # "none" /\ new.item \in Recent /\ work.entry \in RecentEntries
            /\ new.kind = "put" <=> Exists
            /\ new.kind = "put" => new.item = link
      /\ Asks(r) /\ Exists => new # NoRequest
  BY <1>1, <1>2, <1>3, <1>5, Resolved
<1>7. /\ Exists' = Exists /\ Recent' = Recent /\ RecentEntries' = RecentEntries
      /\ \A q \in Rows : Asks(q)' = Asks(q)
  BY <1>1, LinkKept
<1>8. \A v \in Workers : v # w => /\ batch'[v] = {} /\ stage'[v] = "idle"
                                  /\ request'[v].kind = "none" /\ edgeWork'[v] = <<>>
  BY OthersIdle, <1>1, <1>4 DEF DrainInv
<1>9. ItemInv'
  BY <1>1, <1>4, <1>5, <1>6, <1>7 DEF ItemInv
<1>10. PutInv'
  BY <1>1, <1>4, <1>5, <1>6, <1>8 DEF PutInv, ItemInv
<1>11. LinkCover'
  <2>1. LinkSettled => LinkSettled'
    BY <1>1, <1>4, <1>6, <1>7, <1>8 DEF LinkSettled
  <2>2. missed => missed'
    BY <1>1
  <2>3. ASSUME NEW q \in Rows, LinkWitness(q), q # r PROVE LinkWitness(q)'
    BY <1>1, <1>4, <1>6, <1>7, <1>8, <2>3 DEF LinkWitness
  <2>4. ASSUME LinkWitness(r), new # NoRequest PROVE LinkWitness(r)'
    BY <1>1, <1>4, <1>6, <1>7, <1>8, <2>4 DEF LinkWitness
  <2>5. ASSUME LinkWitness(r), new = NoRequest PROVE LinkSettled' \/ missed'
    <3>1. ~Exists /\ op[r].kind = "delete" /\ op[r].id = link.id
      BY <1>6, <2>5 DEF LinkWitness, Asks
    <3>2. index # op[r].id
      BY <1>2, <2>5, <3>1 DEF Request, NoRequest
    <3>3. request[w].item = NoItem
      BY <1>1, <1>5, <3>1 DEF PutInv, DrainInv
    <3>4. CASE item.id = op[r].id
      BY <1>1, <3>1, <3>2, <3>4
    <3>5. CASE item.id # op[r].id
      BY <1>1, <1>4, <1>5, <1>7, <1>8, <2>5, <3>1, <3>3, <3>5 DEF ItemInv, LinkSettled, Recent
    <3> QED BY <3>4, <3>5
  <2> QED BY <1>5, <2>1, <2>2, <2>3, <2>4, <2>5 DEF LinkCover
<1>12. EdgeCover'
  <2> SUFFICES ASSUME Exists PROVE EdgeSettled' \/ \E q \in Rows : EdgeWitness(q)'
    BY <1>7 DEF EdgeCover
  <2>1. PICK s : s = edgeWork[w]
    OBVIOUS
  <2>2. s \in Seq(Works)
    BY <2>1
  <2>3. PICK t : t = edgeWork'[w]
    OBVIOUS
  <2>4. new = NoRequest => t = s
    BY <1>4, <2>1, <2>3
  <2>5. work \in Works
    BY <1>3, ItemTypes DEF Works
  <2>6. new # NoRequest => /\ AllBring(s) => AllBring(t)
                           /\ Brings(t, r)
                           /\ \A q \in Rows : Brings(s, q) => Brings(t, q)
    <3>1. new # NoRequest => t = Append(s, work)
      BY <1>4, <2>1, <2>3
    <3>2. work.row = r
      BY <1>3
    <3>3. ASSUME work.entry \in RecentEntries
          PROVE  /\ AllBring(s) => AllBring(Append(s, work))
                 /\ Brings(Append(s, work), r)
                 /\ \A q : Brings(s, q) => Brings(Append(s, work), q)
      <4> HIDE DEF Shape
      <4> QED BY <2>2, <2>5, <3>2, <3>3, BringsMore
    <3> QED BY <1>6, <3>1, <3>3
  <2>7. EdgeSettled => EdgeSettled'
    <3>1. EdgeSettled => edge \in RecentEntries /\ AllBring(s)
      BY <2>1 DEF EdgeSettled, AllBring
    <3>2. edge \in RecentEntries /\ AllBring(t) => EdgeSettled'
      BY <1>1, <1>7, <1>8, <2>3 DEF EdgeSettled, AllBring
    <3> QED BY <2>4, <2>6, <3>1, <3>2
  <2>8. \A q \in Rows : Brings(s, q) => Brings(t, q)
    BY <2>4, <2>6
  <2>9. new # NoRequest => Brings(t, r)
    BY <2>6
  <2>10. \A q \in Rows : Brings(edgeWork[w], q)' <=> Brings(t, q)
    BY <1>7, <2>3 DEF Brings
  <2>11. ASSUME NEW q \in Rows, EdgeWitness(q), q # r PROVE EdgeWitness(q)'
    BY <1>1, <1>4, <1>7, <1>8, <2>1, <2>8, <2>10, <2>11 DEF EdgeWitness
  <2>12. ASSUME EdgeWitness(r) PROVE EdgeWitness(r)'
    <3>1. new # NoRequest
      BY <1>6, <2>12 DEF EdgeWitness
    <3> QED BY <1>1, <1>4, <1>7, <1>8, <2>9, <2>10, <2>12, <3>1 DEF EdgeWitness
  <2> QED BY <1>5, <2>7, <2>11, <2>12 DEF EdgeCover
<1> QED BY <1>9, <1>10, <1>11, <1>12 DEF Cover

\* A row whose read fails is retried.
LEMMA CoverResolveFails ==
    ASSUME Shape, Cover, NEW w \in Workers, NEW r \in Rows, ResolveFails(w, r) PROVE Cover'
<1> USE DEF Shape
<1>1. /\ UNCHANGED <<row, batch, link, since, op, item, edge, stage, request, owners, edgeWork, missed>>
      /\ todo' = [todo EXCEPT ![w] = @ \ {r}] /\ failed' = [failed EXCEPT ![w] = @ \cup {r}]
  BY DEF ResolveFails, Fail, outboxVars, storeVars
<1>2. ItemInv /\ PutInv /\ LinkCover /\ EdgeCover
  BY DEF Cover
<1>3. /\ Exists' = Exists /\ Recent' = Recent /\ RecentEntries' = RecentEntries
      /\ \A q \in Rows : Asks(q)' = Asks(q)
      /\ \A q \in Rows, v \in Workers : Brings(edgeWork[v], q)' = Brings(edgeWork[v], q)
  BY <1>1, LinkKept
<1>4. ItemInv' /\ PutInv'
  BY <1>1, <1>2, <1>3 DEF ItemInv, PutInv
<1>5. LinkCover'
  BY <1>1, <1>2, <1>3 DEF LinkCover, LinkSettled, LinkWitness
<1>6. EdgeCover'
  <2>1. EdgeSettled => EdgeSettled'
    BY <1>1, <1>3 DEF EdgeSettled
  <2>2. ASSUME NEW q \in Rows, EdgeWitness(q) PROVE EdgeWitness(q)'
    BY <1>1, <1>3, <2>2 DEF EdgeWitness
  <2> QED BY <1>2, <1>3, <2>1, <2>2 DEF EdgeCover
<1> QED BY <1>4, <1>5, <1>6 DEF Cover

\* What the batch write brings is what Postgres says; a row whose write fails is
\* retried.
LEMMA CoverFlush ==
    ASSUME DrainsApart, Shape, DrainInv, Cover, NEW w \in Workers, Flush(w) \/ FlushFails(w)
    PROVE  Cover'
<1> USE DEF Shape
<1>1. /\ UNCHANGED <<row, batch, link, since, op, edge, todo, request, owners, missed>>
      /\ stage[w] = "resolve" /\ todo[w] = {} /\ stage' = [stage EXCEPT ![w] = "edge"]
      /\ \/ UNCHANGED <<edgeWork, failed>> /\ WriteItem(w)
         \/ /\ edgeWork' = [edgeWork EXCEPT ![w] = <<>>]
            /\ failed' = [failed EXCEPT ![w] = @ \cup owners[w]]
            /\ item' = item \/ WriteItem(w)
  BY DEF Flush, FlushFails, Fail, outboxVars
<1>2. ItemInv /\ PutInv /\ LinkCover /\ EdgeCover
  BY DEF Cover
<1>3. /\ Exists' = Exists /\ Recent' = Recent /\ RecentEntries' = RecentEntries
      /\ \A q \in Rows : Asks(q)' = Asks(q)
  BY <1>1, LinkKept
<1>4. \A v \in Workers : v # w => /\ batch'[v] = {} /\ stage'[v] = "idle"
                                  /\ request'[v].kind = "none" /\ edgeWork'[v] = <<>>
  BY OthersIdle, <1>1 DEF DrainInv
<1>5. /\ item' = item \/ (item' = request[w].item /\ request[w].kind # "none")
      /\ WriteItem(w) /\ request[w].kind # "none" => item' = request[w].item
  BY <1>1 DEF WriteItem
<1>6. ItemInv'
  BY <1>1, <1>2, <1>3, <1>5 DEF ItemInv, DrainInv
<1>7. PutInv'
  BY <1>1, <1>2 DEF PutInv
<1>8. LinkCover'
  <2>1. item' \in Recent => LinkSettled'
    BY <1>1, <1>3, <1>4 DEF LinkSettled
  <2>2. LinkSettled => item' \in Recent
    BY <1>1, <1>5 DEF LinkSettled
  <2>3. ASSUME NEW q \in Rows, LinkWitness(q) PROVE item' \in Recent \/ LinkWitness(q)'
    <3>1. CASE q \in batch[w] /\ q \notin failed[w]
      <4>1. q \in owners[w] /\ request[w].kind # "none" /\ request[w].item \in Recent
        BY <1>1, <2>3, <3>1 DEF LinkWitness
      <4>2. CASE WriteItem(w)
        BY <1>5, <4>1, <4>2
      <4>3. CASE failed' = [failed EXCEPT ![w] = @ \cup owners[w]]
        BY <1>1, <1>3, <1>4, <2>3, <4>1, <4>3 DEF LinkWitness
      <4> QED BY <1>1, <4>2, <4>3
    <3>2. CASE q \notin batch[w] \/ q \in failed[w]
      <4>1. failed[w] \subseteq failed'[w]
        BY <1>1
      <4> QED BY <1>1, <1>3, <1>4, <2>3, <3>2, <4>1 DEF LinkWitness
    <3> QED BY <3>1, <3>2
  <2> QED BY <1>1, <1>2, <2>1, <2>2, <2>3 DEF LinkCover
<1>9. EdgeCover'
  <2> SUFFICES ASSUME Exists PROVE EdgeSettled' \/ \E q \in Rows : EdgeWitness(q)'
    BY <1>3 DEF EdgeCover
  <2>1. failed[w] \subseteq failed'[w] /\ stage'[w] = "edge"
    BY <1>1
  <2>2. CASE UNCHANGED edgeWork
    <3>1. \A q \in Rows : Brings(edgeWork[w], q)' = Brings(edgeWork[w], q)
      BY <1>1, <2>2, LinkKept
    <3>2. EdgeSettled => EdgeSettled'
      BY <1>1, <1>3, <2>2 DEF EdgeSettled
    <3>3. ASSUME NEW q \in Rows, EdgeWitness(q) PROVE EdgeWitness(q)'
      BY <1>1, <1>3, <1>4, <2>1, <3>1, <3>3 DEF EdgeWitness
    <3> QED BY <1>2, <3>2, <3>3 DEF EdgeCover
  <2>3. CASE /\ edgeWork' = [edgeWork EXCEPT ![w] = <<>>]
             /\ failed' = [failed EXCEPT ![w] = @ \cup owners[w]]
    <3>1. edgeWork'[w] = <<>>
      BY <2>3
    <3>2. EdgeSettled => EdgeSettled'
      BY <1>1, <1>3, <1>4, <3>1 DEF EdgeSettled
    <3>3. ASSUME NEW q \in Rows, EdgeWitness(q) PROVE EdgeWitness(q)'
      BY <1>1, <1>3, <1>4, <2>3, <3>3 DEF EdgeWitness
    <3> QED BY <1>2, <3>2, <3>3 DEF EdgeCover
  <2> QED BY <1>1, <2>2, <2>3
<1> QED BY <1>6, <1>7, <1>8, <1>9 DEF Cover

\* Once a row's own write is done, so are all that wrote something else.
LEMMA CoverEdge ==
    ASSUME DrainsApart, Shape, DrainInv, Cover, NEW w \in Workers,
           WriteEdge(w) \/ WriteEdgeFails(w) \/ Applied(w)
    PROVE  Cover'
<1> USE DEF Shape
<1>1. /\ UNCHANGED <<row, batch, link, since, op, item, todo, request, owners, missed>>
      /\ stage[w] = "edge" /\ todo[w] = {} /\ stage'[w] \in {"edge", "mark"}
      /\ failed[w] \subseteq failed'[w]
  BY DEF WriteEdge, WriteEdgeFails, Applied, Fail, outboxVars, storeVars, DrainInv
<1>2. ItemInv /\ PutInv /\ LinkCover /\ EdgeCover
  BY DEF Cover
<1>3. /\ Exists' = Exists /\ Recent' = Recent /\ RecentEntries' = RecentEntries
      /\ \A q \in Rows : Asks(q)' = Asks(q)
  BY <1>1, LinkKept
<1>4. \A v \in Workers : v # w => /\ batch'[v] = {} /\ stage'[v] = "idle"
                                  /\ request'[v].kind = "none" /\ edgeWork'[v] = <<>>
  <2>1. batch[w] # {}
    BY <1>1 DEF DrainInv
  <2>2. ASSUME NEW v \in Workers, v # w
        PROVE  /\ batch'[v] = batch[v] /\ stage'[v] = stage[v]
               /\ request'[v] = request[v] /\ edgeWork'[v] = edgeWork[v]
    BY <1>1, <2>2 DEF WriteEdge, WriteEdgeFails, Applied
  <2> QED BY <2>1, <2>2, OthersIdle
<1>5. ItemInv' /\ PutInv'
  BY <1>1, <1>2, <1>3 DEF ItemInv, PutInv
<1>6. LinkCover'
  <2>1. LinkSettled => LinkSettled'
    BY <1>1, <1>3, <1>4 DEF LinkSettled
  <2>2. ASSUME NEW q \in Rows, LinkWitness(q) PROVE LinkWitness(q)'
    BY <1>1, <1>3, <1>4, <2>2 DEF LinkWitness
  <2> QED BY <1>1, <1>2, <2>1, <2>2 DEF LinkCover
<1>7. EdgeCover'
  <2>1. PICK s, t : s = edgeWork[w] /\ t = edgeWork'[w]
    OBVIOUS
  <2>2. s \in Seq(Works)
    BY <2>1
  <2>3. \A q \in Rows : Brings(edgeWork[w], q)' <=> Brings(t, q)
    BY <1>3, <2>1 DEF Brings
  <2>4. EdgeSettled => edge \in RecentEntries /\ AllBring(s)
    BY <2>1 DEF EdgeSettled, AllBring
  <2>5. edge' \in RecentEntries /\ AllBring(t) => EdgeSettled'
    BY <1>3, <1>4, <2>1 DEF EdgeSettled, AllBring
  <2>6. CASE Applied(w)
    <3>1. s = <<>> /\ t = <<>> /\ edge' = edge
      BY <2>1, <2>6 DEF Applied, storeVars
    <3>2. \A q : ~Brings(s, q)
      BY <3>1 DEF Brings
    <3>3. EdgeSettled => EdgeSettled'
      BY <2>4, <2>5, <3>1
    <3>4. ASSUME NEW q \in Rows, EdgeWitness(q) PROVE EdgeWitness(q)'
      BY <1>1, <1>3, <1>4, <2>1, <3>2, <3>4 DEF EdgeWitness
    <3> QED BY <1>2, <1>3, <3>3, <3>4 DEF EdgeCover
  <2>7. CASE WriteEdge(w) \/ WriteEdgeFails(w)
    <3>1. /\ s # <<>> /\ t = Tail(s) /\ edge' \in {edge, Head(s).entry} /\ stage'[w] = "edge"
          /\ edge' = Head(s).entry \/ Head(s).row \in failed'[w]
      BY <2>1, <2>7 DEF WriteEdge, WriteEdgeFails, Fail
    <3>2. /\ AllBring(s) => Head(s).entry \in RecentEntries /\ AllBring(t)
          /\ \A q : Brings(s, q) => \/ Brings(t, q)
                                    \/ Head(s).row = q /\ Head(s).entry \in RecentEntries /\ AllBring(t)
      BY <2>2, <3>1, BringsLess
    <3>3. EdgeSettled => EdgeSettled'
      BY <2>4, <2>5, <3>1, <3>2
    <3>4. ASSUME NEW q \in Rows, EdgeWitness(q) PROVE EdgeSettled' \/ EdgeWitness(q)'
      <4>1. CASE q \in batch[w] /\ q \notin failed'[w]
        <5>1. q \in owners[w] /\ Brings(s, q)
          BY <1>1, <2>1, <3>4, <4>1 DEF EdgeWitness
        <5>2. CASE Brings(t, q)
          BY <1>1, <1>3, <1>4, <2>3, <3>1, <3>4, <5>1, <5>2 DEF EdgeWitness
        <5>3. CASE Head(s).row = q /\ Head(s).entry \in RecentEntries /\ AllBring(t)
          BY <2>5, <3>1, <4>1, <5>3
        <5> QED BY <3>2, <5>1, <5>2, <5>3
      <4>2. CASE q \notin batch[w] \/ q \in failed'[w]
        BY <1>1, <1>3, <1>4, <3>4, <4>2 DEF EdgeWitness
      <4> QED BY <4>1, <4>2
    <3> QED BY <1>2, <1>3, <3>3, <3>4 DEF EdgeCover
  <2> QED BY <2>6, <2>7
<1> QED BY <1>5, <1>6, <1>7 DEF Cover

\* A row is marked processed only when it is no longer needed: one that the edge
\* or the item still waits for has failed, and stays queued.
LEMMA CoverMark ==
    ASSUME DrainsApart, Shape, DrainInv, Cover, NEW w \in Workers, NEW r \in Rows, Mark(w, r)
    PROVE  Cover'
<1> USE DEF Shape
<1>1. /\ UNCHANGED <<link, since, op, item, edge, missed>>
      /\ stage[w] = "mark" /\ r \in batch[w] /\ batch' = [batch EXCEPT ![w] = @ \ {r}]
      /\ \/ r \in failed[w] /\ row' = row
         \/ r \notin failed[w] /\ row' = [row EXCEPT ![r] = IF @ = "queued" THEN "processed" ELSE @]
  BY DEF Mark, MarkFailed, MarkProcessed, Done, storeVars
<1>2. \/ batch'[w] = {} /\ Forget(w)
      \/ UNCHANGED drainVars
  BY <1>1 DEF Mark
<1>3. ItemInv /\ PutInv /\ LinkCover /\ EdgeCover
  BY DEF Cover
<1>4. /\ Exists' = Exists /\ Recent' = Recent /\ RecentEntries' = RecentEntries
      /\ \A q \in Rows : row'[q] = row[q] => Asks(q)' = Asks(q)
  BY <1>1, LinkKept
<1>5. \A v \in Workers : v # w => /\ batch'[v] = {} /\ stage'[v] = "idle"
                                  /\ request'[v].kind = "none" /\ edgeWork'[v] = <<>>
  <2>1. batch[w] # {}
    BY <1>1
  <2>2. ASSUME NEW v \in Workers, v # w
        PROVE  /\ batch'[v] = batch[v] /\ stage'[v] = stage[v]
               /\ request'[v] = request[v] /\ edgeWork'[v] = edgeWork[v]
    BY <1>1, <1>2, <2>2 DEF Forget, drainVars
  <2> QED BY <2>1, <2>2, OthersIdle
<1>6. /\ todo[w] = {} /\ todo'[w] = {} /\ edgeWork[w] = <<>> /\ edgeWork'[w] = <<>>
      /\ stage'[w] \in {"idle", "mark"}
      /\ request'[w] \in {request[w], NoRequest}
      /\ batch'[w] = {} \/ failed'[w] = failed[w]
  BY <1>1, <1>2 DEF DrainInv, Forget, drainVars
<1>7. ItemInv'
  <2>1. \A q \in Rows : row'[q] # "absent" => row[q] # "absent"
    BY <1>1
  <2>2. \A v \in Workers : request'[v].kind = "put" => request'[v] = request[v]
    <3>1. NoRequest.kind = "none"
      BY DEF NoRequest
    <3>2. ASSUME NEW v \in Workers, v # w PROVE request'[v].kind = "none"
      BY <1>5, <3>2
    <3>3. request'[w] = request[w] \/ request'[w].kind = "none"
      BY <1>6, <3>1
    <3> QED BY <3>2, <3>3
  <2> QED BY <1>1, <1>3, <1>4, <2>1, <2>2 DEF ItemInv
<1>8. PutInv'
  BY <1>5, <1>6 DEF PutInv
<1>9. \A q \in Rows : q # r \/ q \in failed[w] => row'[q] = row[q]
  BY <1>1
<1>10. LinkCover'
  <2>1. LinkSettled => LinkSettled'
    BY <1>1, <1>4, <1>5, <1>6 DEF LinkSettled
  <2>2. ASSUME NEW q \in Rows, LinkWitness(q) PROVE LinkWitness(q)'
    <3>1. q \in batch[w] => q \in failed[w]
      BY <1>1, <1>6, <2>2 DEF LinkWitness
    <3> QED BY <1>1, <1>4, <1>5, <1>6, <1>9, <2>2, <3>1 DEF LinkWitness
  <2> QED BY <1>1, <1>3, <2>1, <2>2 DEF LinkCover
<1>11. EdgeCover'
  <2>1. EdgeSettled => EdgeSettled'
    BY <1>1, <1>4, <1>5, <1>6 DEF EdgeSettled
  <2>2. ASSUME NEW q \in Rows, EdgeWitness(q) PROVE EdgeWitness(q)'
    <3>1. q \in batch[w] => q \in failed[w]
      BY <1>1, <1>6, <2>2 DEF EdgeWitness
    <3> QED BY <1>1, <1>4, <1>5, <1>6, <1>9, <2>2, <3>1 DEF EdgeWitness
  <2> QED BY <1>3, <1>4, <2>1, <2>2 DEF EdgeCover
<1> QED BY <1>7, <1>8, <1>10, <1>11 DEF Cover

\* A drain that dies may have done its next write; its rows stay queued.
LEMMA CoverDie ==
    ASSUME DrainsApart, Shape, DrainInv, Cover, NEW w \in Workers, Die(w) PROVE Cover'
<1> USE DEF Shape
<1>1. /\ UNCHANGED <<row, link, since, op, missed>> /\ batch'[w] = {}
      /\ todo'[w] = {} /\ edgeWork'[w] = <<>> /\ stage'[w] = "idle" /\ request'[w] = NoRequest
      /\ item' = item \/ (/\ stage[w] = "resolve" /\ request[w].kind # "none"
                          /\ item' = request[w].item)
      /\ edge' = edge \/ (edgeWork[w] # <<>> /\ edge' = Head(edgeWork[w]).entry)
  BY DEF Die, Crash, Forget, WriteItem
<1>2. ItemInv /\ PutInv /\ LinkCover /\ EdgeCover
  BY DEF Cover
<1>3. /\ Exists' = Exists /\ Recent' = Recent /\ RecentEntries' = RecentEntries
      /\ \A q \in Rows : Asks(q)' = Asks(q)
  BY <1>1, LinkKept
<1>4. \A v \in Workers : v # w => /\ batch'[v] = {} /\ stage'[v] = "idle"
                                  /\ request'[v].kind = "none" /\ edgeWork'[v] = <<>>
  <2>1. batch[w] # {}
    BY DEF Die, Crash, Idle
  <2>2. ASSUME NEW v \in Workers, v # w
        PROVE  /\ batch'[v] = batch[v] /\ stage'[v] = stage[v]
               /\ request'[v] = request[v] /\ edgeWork'[v] = edgeWork[v]
    BY <1>1, <2>2 DEF Die, Crash, Forget
  <2> QED BY <2>1, <2>2, OthersIdle
<1>5. ItemInv'
  <2>1. \A v \in Workers : request'[v].kind # "put"
    <3>1. request'[w].kind = "none"
      BY <1>1 DEF NoRequest
    <3>2. ASSUME NEW v \in Workers, v # w PROVE request'[v].kind = "none"
      BY <1>4, <3>2
    <3> QED BY <3>1, <3>2
  <2>2. item' # NoItem => item' = item \/ (request[w].kind = "put" /\ item' = request[w].item)
    BY <1>1 DEF DrainInv
  <2> QED BY <1>1, <1>2, <1>3, <2>1, <2>2 DEF ItemInv
<1>6. PutInv'
  BY <1>1, <1>4 DEF PutInv
<1>7. LinkCover'
  <2>1. LinkSettled => LinkSettled'
    BY <1>1, <1>3, <1>4 DEF LinkSettled
  <2>2. \A q \in Rows : LinkWitness(q) => LinkWitness(q)'
    BY <1>1, <1>3, <1>4 DEF LinkWitness
  <2> QED BY <1>1, <1>2, <2>1, <2>2 DEF LinkCover
<1>8. EdgeCover'
  <2>1. EdgeSettled => EdgeSettled'
    <3>1. PICK s : s = edgeWork[w]
      OBVIOUS
    <3>2. s \in Seq(Works)
      BY <3>1
    <3>3. EdgeSettled => edge \in RecentEntries /\ AllBring(s)
      BY <3>1 DEF EdgeSettled, AllBring
    <3>4. EdgeSettled => edge' \in RecentEntries
      BY <1>1, <3>1, <3>2, <3>3, BringsLess
    <3> QED BY <1>1, <1>3, <1>4, <3>4 DEF EdgeSettled
  <2>2. \A q \in Rows : EdgeWitness(q) => EdgeWitness(q)'
    BY <1>1, <1>3, <1>4 DEF EdgeWitness
  <2> QED BY <1>2, <1>3, <2>1, <2>2 DEF EdgeCover
<1> QED BY <1>5, <1>6, <1>7, <1>8 DEF Cover

\* The index, the leases and the pruning of processed rows leave all that alone.
LEMMA CoverUpkeep ==
    ASSUME Shape, Cover, IndexCatchesUp \/ Upkeep \/ UNCHANGED vars PROVE Cover'
<1> USE DEF Shape
<1>1. /\ UNCHANGED <<batch, link, since, op, item, edge, stage, todo, request, owners, edgeWork, failed,
                     missed>>
      /\ \A q \in Rows : /\ row[q] = "queued" => row'[q] = row[q]
                         /\ row'[q] # "absent" => row[q] # "absent"
  BY DEF IndexCatchesUp, Upkeep, Lapse, Prune, AdminRetry, vars, outboxVars, linkVars, storeVars,
         drainVars
<1>2. ItemInv /\ PutInv /\ LinkCover /\ EdgeCover
  BY DEF Cover
<1>3. /\ Exists' = Exists /\ Recent' = Recent /\ RecentEntries' = RecentEntries
      /\ \A q \in Rows : Asks(q) => Asks(q)'
      /\ \A q \in Rows, v \in Workers : Brings(edgeWork[v], q)' = Brings(edgeWork[v], q)
  BY <1>1, LinkKept DEF Asks
<1>4. ItemInv' /\ PutInv'
  BY <1>1, <1>2, <1>3 DEF ItemInv, PutInv
<1>5. LinkCover'
  <2>1. LinkSettled => LinkSettled'
    BY <1>1, <1>3 DEF LinkSettled
  <2>2. \A q \in Rows : LinkWitness(q) => LinkWitness(q)'
    BY <1>1, <1>3 DEF LinkWitness
  <2> QED BY <1>1, <1>2, <2>1, <2>2 DEF LinkCover
<1>6. EdgeCover'
  <2>1. EdgeSettled => EdgeSettled'
    BY <1>1, <1>3 DEF EdgeSettled
  <2>2. \A q \in Rows : EdgeWitness(q) => EdgeWitness(q)'
    BY <1>1, <1>3 DEF EdgeWitness
  <2> QED BY <1>2, <1>3, <2>1, <2>2 DEF EdgeCover
<1> QED BY <1>4, <1>5, <1>6 DEF Cover

-----------------------------------------------------------------------------
(* The theorems.                                                           *)

\* A slug that has had one link had no more than one before.
LEMMA FirstLinkBefore == ASSUME Shape, [Next]_vars, FirstLink' PROVE FirstLink
<1>1. link' = link \/ link'.id = link.id + 1 \/ link'.id = link.id
  <2>1. ASSUME NEW r \in Rows, Api(r) PROVE link'.id = link.id + 1 \/ link'.id = link.id
    BY <2>1 DEF Api, Create, Update, Remove, SweepExpired, Shape, Items
  <2>2. ASSUME NEW w \in Workers, DrainStep(w) PROVE link' = link
    BY <2>2 DEF DrainStep, Drain, Resolve, ResolveFails, Mark, Flush, FlushFails, WriteEdge,
                WriteEdgeFails, Applied, Die
  <2>3. CASE IndexCatchesUp \/ Upkeep \/ UNCHANGED vars
    BY <2>3 DEF IndexCatchesUp, Upkeep, vars, linkVars
  <2>4. ASSUME NEW c \in Contents, ChangeUnannounced(c) PROVE link'.id = link.id
    BY <2>4 DEF ChangeUnannounced, Shape, Items
  <2> QED BY <2>1, <2>2, <2>3, <2>4 DEF Next
<1>2. link.id \in Nat
  BY DEF Shape, Items
<1> QED BY <1>1, <1>2 DEF FirstLink

\* The projected link, or the free slug, is in both stores.
LEMMA CoverInit == ASSUME OutboxAssumption, LinkProjectionAssumption, Init PROVE DrainInv /\ Cover
<1>1. link = NoItem \/ link \in [id : {1}, content : Contents]
  BY DEF Init
<1>2. item \in Recent
  BY <1>1 DEF Init, Recent, Exists, NoItem, LinkProjectionAssumption
<1>3. DrainInv
  BY DEF Init, OutboxInit, DrainInv, NoRequest
<1>4. ItemInv
  BY <1>1 DEF Init, OutboxInit, ItemInv, Exists, NoItem, NoRequest, NoOp
<1>5. PutInv
  BY DEF Init, PutInv
<1>6. LinkCover
  BY <1>2 DEF Init, LinkCover, LinkSettled, NoRequest
<1>7. EdgeCover
  BY DEF Init, EdgeCover, EdgeSettled, RecentEntries
<1> QED BY <1>3, <1>4, <1>5, <1>6, <1>7 DEF Cover

\* While one drain at a time holds rows, every step keeps the invariant.
LEMMA IInvNext ==
    ASSUME OutboxAssumption, LinkProjectionAssumption, IInv, DrainsApart, [Next]_vars PROVE IInv'
<1>1. TypeOK /\ Shape /\ DrainInv
  BY ShapeOfTypes DEF IInv
<1>2. TypeOK' /\ DrainInv'
  BY <1>1, NextType, DrainInvNext
<1>3. ASSUME FirstLink' PROVE Cover'
  <2>1. Cover
    BY <1>1, <1>3, FirstLinkBefore DEF IInv, Cover
  <2>2. ASSUME NEW r \in Rows, Api(r) PROVE Cover'
    BY <1>1, <1>3, <2>1, <2>2, CoverApi
  <2>3. ASSUME NEW w \in Workers, DrainStep(w) PROVE Cover'
    <3>1. ASSUME NEW S \in SUBSET Rows, Drain(w, S) PROVE Cover'
      BY <1>1, <2>1, <3>1, CoverDrain
    <3>2. ASSUME NEW r \in Rows, Resolve(w, r) \/ ResolveFails(w, r) \/ Mark(w, r) PROVE Cover'
      BY <1>1, <2>1, <3>2, CoverResolve, CoverResolveFails, CoverMark
    <3>3. CASE Flush(w) \/ FlushFails(w) \/ WriteEdge(w) \/ WriteEdgeFails(w) \/ Applied(w)
      BY <1>1, <2>1, <3>3, CoverFlush, CoverEdge
    <3>4. CASE Die(w)
      BY <1>1, <2>1, <3>4, CoverDie
    <3> QED BY <2>3, <3>1, <3>2, <3>3, <3>4 DEF DrainStep
  <2>4. CASE IndexCatchesUp \/ Upkeep \/ UNCHANGED vars
    BY <1>1, <2>1, <2>4, CoverUpkeep
  <2>5. ASSUME NEW c \in Contents, ChangeUnannounced(c) PROVE Cover'
    BY <1>1, <2>1, <2>5, CoverUnannounced
  <2> QED BY <2>2, <2>3, <2>4, <2>5 DEF Next
<1> QED BY <1>2, <1>3 DEF IInv, Cover

\* As long as one drain at a time holds rows of the link, drains keep only rows that
\* exist, and until the slug is taken again each store has what the link has said
\* since a row was last written for it, or there is a queued row of the link that
\* nobody has read too early.
THEOREM InductiveInvariant ==
    ASSUME OutboxAssumption, LinkProjectionAssumption
    PROVE  Spec /\ []DrainsApart => []IInv
<1>1. Init => IInv
  BY CoverInit, InitType DEF IInv, Cover
<1>2. IInv /\ DrainsApart /\ [Next]_vars => IInv'
  BY IInvNext
<1> QED BY <1>1, <1>2, PTL DEF Spec

\* outbox.ts:10 "the two writes cannot diverge silently", for changes that write a
\* row: while drains of the link do not overlap and the slug has had one link, the
\* item is what the link has been since such a change, or has an unprocessed row, or
\* its delete was drained before the index listed it.
THEOREM LinkSinceLastRowAlways ==
    ASSUME OutboxAssumption, LinkProjectionAssumption
    PROVE  Spec /\ []DrainsApart => [](FirstLink => LinkSinceLastRow)
<1>1. IInv => (FirstLink => LinkSinceLastRow)
  BY DEF IInv, LinkCover, LinkSettled, LinkWitness, Asks, LinkSinceLastRow, Covered, Pending
<1> QED BY <1>1, InductiveInvariant, PTL

\* kvs-projection.ts:18 "so the two stores stay in step": as long, the edge answers
\* for a link that exists with what it has said since a row was last written for it,
\* or a row of the link is unprocessed.
THEOREM EdgeSinceLastRowAlways ==
    ASSUME OutboxAssumption, LinkProjectionAssumption
    PROVE  Spec /\ []DrainsApart => [](FirstLink => EdgeSinceLastRow)
<1>1. IInv => (FirstLink => EdgeSinceLastRow)
  BY DEF IInv, EdgeCover, EdgeSettled, EdgeWitness, Asks, EdgeSinceLastRow, Covered, Pending
<1> QED BY <1>1, InductiveInvariant, PTL

\* Two drains may run at a time, but one that is killed before its lease lapses
\* shares no row with another: outbox.ts:24 carried over to the rows of a link.
THEOREM OneHandlerOfLinks ==
    ASSUME OutboxAssumption, ~Overrun PROVE Spec => []OneHandler
BY DrainsTheOutbox, OneHandlerAlways, PTL
=============================================================================
