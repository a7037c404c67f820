----------------------------- MODULE PartsProofs -----------------------------
(***************************************************************************)
(* Proofs about the parts of one broker that MCParts checks side by side:  *)
(* requests on one entity, on attributes bound to a bridge, a tenant's     *)
(* pool of connections, server-sent events (Snapshots has SnapshotsProofs, *)
(* the history writers TroeWriterProofs); and the types of all together.   *)
(*                                                                         *)
(* Entity: types, DeletedGone, and UpdatesKept, for all attributes and any *)
(* number of requests. All rests on two facts: what was over before a      *)
(* request began is over and does not change any more, and what overtook a *)
(* request has overtaken it for good (Persist). UpdatesKept needs two      *)
(* invariants on top: an entity that went between a request's read and its *)
(* write was removed by a request that overlaps (ReadStands), and the type *)
(* an update writes back is the latest it can know of (TypeStands).        *)
(*                                                                         *)
(* Bridge: for any number of requests, of slots and of faults of the       *)
(* database, a request's own write comes before its answers' (OrderInv),   *)
(* and a goal that is not taken leaves no instance - neither in the entity *)
(* nor in a copy of it somebody is about to write back (TraceInv).         *)
(*                                                                         *)
(* Pool: for all threads, all sizes of the pool and all faults, two        *)
(* invariants, one on the other: how the pool comes to be, and whose each  *)
(* slot is. The second needs a count: as many threads hold a permit of the *)
(* queue semaphore as it is short of.                                      *)
(*                                                                         *)
(* Server-sent events: the types, the count of the open streams, the order *)
(* of the events of a stream and the end of a deleted one. In layers: the  *)
(* shape of an entry and of what waits for it; then the count, over the    *)
(* entries whose stream was opened; then the order, over what is queued    *)
(* and what was sent.                                                      *)
(***************************************************************************)
EXTENDS MCParts, SnapshotsProofs

-----------------------------------------------------------------------------
(* Requests on one entity *)
\* Where a request may be
PcShape ==
  \A r \in DOMAIN call :
    /\ call[r].pc \notin {"done", "hook"} => call[r].status = 0
    /\ call[r].pc \in {"set", "apply"} \/ (call[r].op = "upsertUpdate" /\ call[r].pc = "swap") =>
         call[r].seen.there
    /\ call[r].seen.there => call[r].seen.mem["type"] # Absent
    /\ call[r].pc = "hook" => call[r].op = "get" /\ call[r].seen.exp = "past"
    /\ call[r].pc = "remove" => call[r].op \in DeleteOp
    /\ call[r].op = "get" => call[r].pc \in {"hook", "done"} /\ call[r].status \in {200, 404}
    /\ call[r].op \in DeleteOp \cup {"get"} <=> call[r].member = "id"
    /\ call[r].op \in {"deleteAttr", "purgeDrop", "create", "replace", "upsert"} => call[r].member \in Attr
    /\ call[r].pc = "insert" => MakesEntity(call[r].op)
    /\ call[r].pc = "swap" => call[r].op \in {"replace"} \cup UpsertOp

\* Only what is over was over before another request began
BeforeOver ==
  \A r \in DOMAIN call : \A q \in call[r].before : q \in DOMAIN call /\ q # r /\ call[q].pc = "done"

BaseInv == EntityTypeOK /\ PcShape /\ BeforeOver

\* What a step leaves of every request
Persist ==
  /\ DOMAIN call \subseteq DOMAIN call'
  /\ \A p \in DOMAIN call :
       /\ call'[p].op = call[p].op /\ call'[p].member = call[p].member /\ call'[p].before = call[p].before
       /\ call[p].pc = "done" => call'[p] = call[p]
       /\ call[p].op = "get" => call'[p].seen = call[p].seen
  /\ \A p \in DOMAIN call' \ DOMAIN call : call'[p].status \notin {201, 204}

-----------------------------------------------------------------------------
(* Types and places *)

LEMMA AttrFacts ==
  /\ "type" \in Member /\ "type" \notin Attr /\ "id" \notin Member /\ "expiresAt" \notin Attr /\ Attr \subseteq Member
  /\ \A op \in Op : MembersOf(op) \subseteq Member \cup {"id"}
  /\ \A op \in Op : \A m \in MembersOf(op) : m = "id" <=> op \in DeleteOp \cup {"get"}
  /\ MaxEntityReq \in Nat
BY EntityAssumption DEF Member, MembersOf, DeleteOp

LEMMA DocumentFacts ==
  /\ NoEntity \in Document /\ ~NoEntity.there /\ \A m \in Member : NoEntity.mem[m] = Absent
  /\ \A r \in 1..MaxEntityReq : Stamp(r) \in 0..(MaxEntityReq + 1) /\ Stamp(r) # Absent
  /\ Absent \in 0..(MaxEntityReq + 1)
BY AttrFacts DEF NoEntity, Document, Expiry, Stamp, Absent

\* The documents an update makes
LEMMA WrittenFacts ==
  ASSUME NEW m \in Member, NEW r \in 1..MaxEntityReq, NEW e \in Expiry
  PROVE  /\ Written(m, r, e) \in Document /\ Written(m, r, e).there
         /\ Written(m, r, e).mem["type"] = Stamp(r) /\ Written(m, r, e).mem[m] = Stamp(r)
BY AttrFacts, DocumentFacts DEF Written, Document

LEMMA SurgicalFacts ==
  ASSUME BaseInv, NEW r \in DOMAIN call, call[r].pc \in {"set", "apply", "swap"}, call[r].seen.there,
         call[r].op \in SurgicalOp
  PROVE  /\ Surgical(r, doc) \in Document /\ Surgical(r, doc).there = doc.there
         /\ Surgical(r, doc).mem["type"] # Absent
         /\ Surgical(r, doc).mem[call[r].member] = Change(r)
         /\ call[r].member # "type" => Surgical(r, doc).mem["type"] = call[r].seen.mem["type"]
         /\ \A m \in Member \ {"type", call[r].member} : Surgical(r, doc).mem[m] = doc.mem[m]
<1> DEFINE c == call[r]
           val == IF c.op \in {"deleteAttr", "purgeDrop"} THEN Absent ELSE Stamp(r)
           new == [doc.mem EXCEPT !["type"] = c.seen.mem["type"], ![c.member] = val]
<1>1. c \in Request /\ r \in 1..MaxEntityReq /\ doc \in Document
  BY AttrFacts DEF BaseInv, EntityTypeOK
<1>2. c.member \in Member BY <1>1, AttrFacts DEF BaseInv, PcShape, Request, SurgicalOp, SetOp, ChangeOp, DeleteOp
<1>3. doc.mem \in [Member -> 0..(MaxEntityReq + 1)] /\ c.seen.mem \in [Member -> 0..(MaxEntityReq + 1)]
  BY <1>1 DEF Document, Request
<1>4. val \in 0..(MaxEntityReq + 1) /\ (c.member = "type" => val # Absent)
  BY <1>1, DocumentFacts, AttrFacts DEF BaseInv, PcShape
<1>5. c.seen.mem["type"] # Absent /\ c.seen.mem["type"] \in 0..(MaxEntityReq + 1)
  BY <1>3, AttrFacts DEF BaseInv, PcShape
<1> HIDE DEF val
<1>6. /\ new \in [Member -> 0..(MaxEntityReq + 1)] /\ new[c.member] = val
      /\ c.member # "type" => new["type"] = c.seen.mem["type"]
      /\ \A m \in Member \ {"type", c.member} : new[m] = doc.mem[m]
  BY <1>2, <1>3, <1>4, <1>5, AttrFacts
<1>7. new["type"] # Absent BY <1>4, <1>5, <1>6
<1> HIDE DEF new
<1>8. Surgical(r, doc) = [doc EXCEPT !.mem = new, !.exp = IF c.member = "expiresAt" THEN "ahead" ELSE @]
  BY DEF Surgical, new, val
<1>9. Surgical(r, doc) \in Document /\ Surgical(r, doc).there = doc.there /\ Surgical(r, doc).mem = new
  BY <1>1, <1>6, <1>8 DEF Document, Expiry
<1> QED BY <1>6, <1>7, <1>9 DEF Change, val

\* The ways a step changes the entity
DocStep ==
  \/ doc'.mem = doc.mem /\ doc'.there = doc.there
  \/ \E q \in DOMAIN call : call[q].pc # "done" /\
       \/ MakesEntity(call[q].op) /\ ~doc.there /\ doc' = Written(call[q].member, q, doc'.exp)
          /\ call[q].pc = "insert" /\ call'[q].status = 201
       \/ call[q].op \in {"replace", "upsert"} /\ doc.there /\ doc' = Written(call[q].member, q, doc'.exp)
       \/ (call[q].op \in DeleteOp \/ (call[q].op = "get" /\ call[q].seen.exp = "past")) /\ doc' = NoEntity
       \/ /\ call[q].op \in SurgicalOp /\ call[q].pc \in {"set", "apply", "swap"}
          /\ doc.there /\ doc' = Surgical(q, doc) /\ call'[q].pc = "done"

-----------------------------------------------------------------------------
(* What the steps do, once and for all *)

GoodDoc(d) == d \in Document /\ (d.there <=> d.mem["type"] # Absent) /\ (~d.there => d = NoEntity)

LEMMA CallFacts ==
  ASSUME BaseInv
  PROVE  /\ DOMAIN call = 1..Len(call) /\ Len(call) \in 0..MaxEntityReq /\ call \in [1..Len(call) -> Request]
         /\ \A r \in DOMAIN call : r \in 1..MaxEntityReq /\ call[r] \in Request
BY AttrFacts DEF BaseInv, EntityTypeOK

\* A request begins: whatever it reads, nothing is written
LEMMA BeginStep ==
  ASSUME BaseInv, NEW op \in Op, NEW m \in MembersOf(op), NEW pc \in Pc, NEW st \in Status \ {201, 204},
         Begin(op, m, pc, st), UNCHANGED doc,
         pc \notin {"done", "hook"} => st = 0,
         pc \in {"set", "apply"} \/ (op = "upsertUpdate" /\ pc = "swap") => doc.there,
         pc = "hook" => op = "get" /\ doc.exp = "past",
         pc = "remove" => op \in DeleteOp,
         op = "get" => pc \in {"hook", "done"} /\ st \in {200, 404},
         op \in {"deleteAttr", "purgeDrop", "create", "replace", "upsert"} => m \in Attr,
         pc = "insert" => MakesEntity(op), pc = "swap" => op \in {"replace"} \cup UpsertOp
  PROVE  BaseInv' /\ Persist /\ DocStep
<1> DEFINE N == Len(call) + 1
           c == [op |-> op, member |-> m, pc |-> pc, status |-> st, seen |-> doc, before |-> Finished]
<1>1. call' = Append(call, c) /\ Len(call) < MaxEntityReq BY DEF Begin
<1>2. c \in Request
  <2>1. doc \in Document BY DEF BaseInv, EntityTypeOK
  <2>2. Finished \in SUBSET (1..MaxEntityReq) BY CallFacts DEF Finished
  <2>3. m \in Member \cup {"id"} BY AttrFacts
  <2> QED BY <2>1, <2>2, <2>3 DEF Request
<1>3. call \in Seq(Request) BY DEF BaseInv, EntityTypeOK
<1> HIDE DEF c
<1>4. call' \in Seq(Request) /\ Len(call') = N /\ DOMAIN call' = 1..N /\ call'[N] = c
      /\ \A p \in DOMAIN call : p \in DOMAIN call' /\ p # N /\ call'[p] = call[p]
  BY <1>1, <1>2, <1>3
<1>5. \A p \in DOMAIN call' : p \in DOMAIN call \/ p = N BY <1>3, <1>4, CallFacts
<1>6. EntityTypeOK'
  BY <1>1, <1>4, CallFacts, AttrFacts DEF BaseInv, EntityTypeOK
<1>7. PcShape'
  <2>1. \A p \in DOMAIN call : call'[p] = call[p] BY <1>4
  <2>2. doc.there => doc.mem["type"] # Absent BY DEF BaseInv, EntityTypeOK
  <2>3. op \in DeleteOp \cup {"get"} <=> m = "id" BY AttrFacts
  <2>4. c.op = op /\ c.member = m /\ c.pc = pc /\ c.status = st /\ c.seen = doc BY DEF c
  <2> SUFFICES ASSUME NEW p \in DOMAIN call' PROVE PcShape!(p)'
    BY DEF PcShape
  <2>5. CASE p \in DOMAIN call BY <2>1, <2>5 DEF BaseInv, PcShape, MakesEntity
  <2>6. CASE p = N BY <1>4, <2>2, <2>3, <2>4, <2>6 DEF MakesEntity
  <2> QED BY <1>5, <2>5, <2>6
<1>8. BeforeOver'
  <2>1. c.before = Finished BY DEF c
  <2>2. \A q \in Finished : q \in DOMAIN call /\ call[q].pc = "done" BY DEF Finished
  <2> QED BY <1>4, <1>5, <2>1, <2>2 DEF BaseInv, BeforeOver
<1>9. Persist
  <2>1. c.status \notin {201, 204} BY DEF c
  <2> QED BY <1>4, <1>5, <2>1 DEF Persist
<1>10. DocStep BY DEF DocStep
<1> QED BY <1>6, <1>7, <1>8, <1>9, <1>10 DEF BaseInv

\* A request goes on: it is the only one to change, and keeps what it is
LEMMA GoesOnStep ==
  ASSUME BaseInv, NEW r \in DOMAIN call, call[r].pc # "done", NEW c, call' = [call EXCEPT ![r] = c],
         c \in Request, c.op = call[r].op, c.member = call[r].member, c.before = call[r].before,
         c.op = "get" => c.seen = call[r].seen /\ c.status = call[r].status,
         c.pc \notin {"done", "hook"} => c.status = 0,
         c.pc \in {"set", "apply"} \/ (c.op = "upsertUpdate" /\ c.pc = "swap") => c.seen.there,
         c.seen.there => c.seen.mem["type"] # Absent,
         c.pc \in {"done", "set", "bulk"}, c.op = "get" => c.pc = "done",
         GoodDoc(doc')
  PROVE  BaseInv' /\ Persist
<1>1. call' \in Seq(Request) /\ Len(call') = Len(call) /\ DOMAIN call' = DOMAIN call
      /\ call'[r] = c /\ \A p \in DOMAIN call : p # r => call'[p] = call[p]
  BY CallFacts DEF BaseInv, EntityTypeOK
<1>2. EntityTypeOK' BY <1>1 DEF BaseInv, EntityTypeOK, GoodDoc
<1>3. PcShape'
  <2> SUFFICES ASSUME NEW p \in DOMAIN call' PROVE PcShape!(p)'
    BY DEF PcShape
  <2>1. CASE p # r BY <1>1, <2>1 DEF BaseInv, PcShape, MakesEntity
  <2>2. CASE p = r BY <1>1, <2>2 DEF BaseInv, PcShape, MakesEntity
  <2> QED BY <2>1, <2>2
<1>4. BeforeOver' BY <1>1 DEF BaseInv, BeforeOver
<1>5. Persist BY <1>1 DEF Persist
<1> QED BY <1>2, <1>3, <1>4, <1>5 DEF BaseInv

\* A request answers
LEMMA AnswerStep ==
  ASSUME BaseInv, NEW r \in DOMAIN call, call[r].pc # "done", call[r].op # "get", NEW st \in Status, Answer(r, st),
         GoodDoc(doc')
  PROVE  BaseInv' /\ Persist /\ call'[r].pc = "done" /\ call'[r].status = st
<1> DEFINE c == [call[r] EXCEPT !.pc = "done", !.status = st, !.seen = NoEntity]
<1>1. call[r] \in Request BY CallFacts
<1>2. c \in Request /\ c.op = call[r].op /\ c.member = call[r].member /\ c.before = call[r].before /\ c.seen = NoEntity
      /\ c.pc = "done" /\ c.status = st
  BY <1>1, DocumentFacts DEF Request, Pc
<1>3. call' = [call EXCEPT ![r] = c] BY DEF Answer
<1> HIDE DEF c
<1>4. BaseInv' /\ Persist BY <1>2, <1>3, GoesOnStep, DocumentFacts
<1>5. call'[r] = c BY <1>3, CallFacts
<1> QED BY <1>2, <1>4, <1>5

-----------------------------------------------------------------------------
(* Every step *)

LEMMA BeginSteps ==
  ASSUME BaseInv, NEW m \in Member, NEW op \in EntityOp,
         \/ PostEntities(m) \/ ReplaceEntity(m) \/ PostEntityAttrs(op, m) \/ PatchEntity(op, m) \/ BatchUpsert(op, m)
         \/ DeleteEntity(op) \/ GetEntity
  PROVE  BaseInv' /\ Persist /\ DocStep
<1>1. op \in Op BY EntityAssumption
<1>2. \A x \in {"insert", "fetch", "apply", "swap", "remove", "hook", "done"} : x \in Pc BY DEF Pc
<1>3. \A x \in {0, 207, 200, 404} : x \in Status \ {201, 204} BY DEF Status
<1>4. \A x \in {"create", "replace", "get"} : x \in Op BY DEF Op
<1>5. \A x : x \in MembersOf("create") => x \in Attr BY DEF MembersOf, DeleteOp
<1>6. \A x : x \in MembersOf("replace") => x \in Attr BY DEF MembersOf, DeleteOp
<1>7. \A x \in {"deleteAttr", "purgeDrop", "upsert"} : MembersOf(x) = Attr BY DEF MembersOf, DeleteOp
<1>8. CASE PostEntities(m)
  <2>1. m \in MembersOf("create") BY <1>8 DEF PostEntities, Begin
  <2> QED BY <1>2, <1>3, <1>4, <1>5, <1>8, <2>1, BeginStep DEF PostEntities, MakesEntity
<1>9. CASE ReplaceEntity(m)
  <2>1. m \in MembersOf("replace") BY <1>9 DEF ReplaceEntity, Begin
  <2> QED BY <1>2, <1>3, <1>4, <1>6, <1>9, <2>1, BeginStep DEF ReplaceEntity
<1>10. CASE PostEntityAttrs(op, m)
  <2> DEFINE pc == IF op = "postAttrsNew" /\ doc.mem[m] # Absent THEN "done" ELSE "fetch"
             st == IF op = "postAttrsNew" /\ doc.mem[m] # Absent THEN 207 ELSE 0
  <2>1. Begin(op, m, pc, st) /\ m \in MembersOf(op) /\ op \in SetOp /\ doc' = doc BY <1>10 DEF PostEntityAttrs, Begin
  <2>2. pc \in {"done", "fetch"} /\ pc \in Pc /\ st \in Status \ {201, 204} /\ (pc # "done" => st = 0) BY <1>2, <1>3
  <2> HIDE DEF pc, st
  <2> QED BY <1>1, <1>7, <2>1, <2>2, BeginStep DEF SetOp
<1>11. CASE PatchEntity(op, m)
  <2>1. Begin(op, m, "apply", 0) /\ m \in MembersOf(op) /\ op \in ChangeOp /\ doc' = doc /\ doc.there BY <1>11 DEF PatchEntity, Begin
  <2> QED BY <1>1, <1>2, <1>3, <1>7, <2>1, BeginStep DEF ChangeOp
<1>12. CASE BatchUpsert(op, m)
  <2> DEFINE pc == IF doc.there THEN "swap" ELSE "insert"
  <2>1. Begin(op, m, pc, 0) /\ m \in MembersOf(op) /\ op \in UpsertOp /\ doc' = doc BY <1>12 DEF BatchUpsert, Begin
  <2>2. pc \in Pc /\ pc \in {"swap", "insert"} /\ (pc = "swap" => doc.there) BY <1>2
  <2> HIDE DEF pc
  <2> QED BY <1>1, <1>3, <1>7, <2>1, <2>2, BeginStep DEF UpsertOp, MakesEntity
<1>13. CASE DeleteEntity(op)
  <2> DEFINE pc == IF op = "batchDelete" /\ ~doc.there THEN "done" ELSE "remove"
             st == IF op = "batchDelete" /\ ~doc.there THEN 404 ELSE 0
  <2>1. Begin(op, "id", pc, st) /\ "id" \in MembersOf(op) /\ op \in DeleteOp /\ doc' = doc BY <1>13 DEF DeleteEntity, Begin
  <2>2. pc \in Pc /\ pc \in {"done", "remove"} /\ st \in Status \ {201, 204} /\ (pc # "done" => st = 0) BY <1>2, <1>3
  <2> HIDE DEF pc, st
  <2> QED BY <1>1, <1>7, <2>1, <2>2, BeginStep DEF DeleteOp
<1>14. CASE GetEntity
  <2> DEFINE pc == IF doc.there /\ doc.exp = "past" THEN "hook" ELSE "done"
             st == IF doc.there /\ doc.exp # "past" THEN 200 ELSE 404
  <2>1. Begin("get", "id", pc, st) /\ "id" \in MembersOf("get") /\ doc' = doc BY <1>14 DEF GetEntity, Begin
  <2>2. pc \in Pc /\ pc \in {"done", "hook"} /\ st \in Status \ {201, 204} /\ st \in {200, 404} /\ (pc = "hook" => doc.exp = "past")
    BY <1>2, <1>3
  <2> HIDE DEF pc, st
  <2> QED BY <1>4, <1>7, <2>1, <2>2, BeginStep
<1> QED BY <1>8, <1>9, <1>10, <1>11, <1>12, <1>13, <1>14

LEMMA RequestSteps ==
  ASSUME BaseInv, NEW r \in DOMAIN call, RequestStep(r)
  PROVE  BaseInv' /\ Persist /\ DocStep
<1>1. GoodDoc(doc) /\ GoodDoc(NoEntity) /\ call[r] \in Request /\ r \in 1..MaxEntityReq
  BY CallFacts, DocumentFacts, AttrFacts DEF BaseInv, EntityTypeOK, GoodDoc
<1>2. \A x \in {200, 201, 204, 404, 409} : x \in Status BY DEF Status
<1>3. \A e \in Expiry : call[r].member \in Member => GoodDoc(Written(call[r].member, r, e))
  BY <1>1, WrittenFacts, DocumentFacts DEF GoodDoc
<1>4. "never" \in Expiry /\ "ahead" \in Expiry BY DEF Expiry
<1>5. MakesEntity(call[r].op) \/ call[r].op \in {"replace"} \cup UpsertOp => call[r].member \in Member /\ call[r].op \notin DeleteOp \cup {"get"}
  BY <1>1 DEF BaseInv, PcShape, Request, MakesEntity, UpsertOp, DeleteOp
<1>6. \A m, e : Written(m, r, e).exp = e BY DEF Written
<1>7. CASE PostEntitiesInsert(r)
  <2>1. call[r].op = "create" /\ call[r].pc = "insert" BY <1>7 DEF PostEntitiesInsert, At
  <2>2. CASE \E exp \in {"never", "ahead"} : EntityCreate(r, exp) /\ Answer(r, 201)
    <3>1. PICK exp \in {"never", "ahead"} : EntityCreate(r, exp) /\ Answer(r, 201) BY <2>2
    <3>2. ~doc.there /\ doc' = Written(call[r].member, r, exp) /\ doc'.exp = exp BY <1>6, <3>1 DEF EntityCreate
    <3>3. GoodDoc(doc') BY <1>3, <1>4, <1>5, <2>1, <3>2 DEF MakesEntity
    <3>4. BaseInv' /\ Persist /\ call'[r].status = 201 BY <1>2, <2>1, <3>1, <3>3, AnswerStep
    <3> QED BY <2>1, <3>2, <3>4 DEF DocStep, MakesEntity
  <2>3. CASE doc.there /\ Answer(r, 409) /\ UNCHANGED doc
    <3>1. call[r].op # "get" /\ doc' = doc BY <2>1, <2>3
    <3>2. BaseInv' /\ Persist BY <1>1, <1>2, <2>1, <2>3, <3>1, AnswerStep
    <3> QED BY <3>1, <3>2 DEF DocStep
  <2> QED BY <1>7, <2>2, <2>3 DEF PostEntitiesInsert
<1>8. CASE EntityAttrsSetFetch(r)
  <2>1. call[r].op \in SetOp /\ call[r].pc = "fetch" /\ doc' = doc BY <1>8 DEF EntityAttrsSetFetch, At
  <2>2. CASE doc.there
    <3> DEFINE c == [call[r] EXCEPT !.pc = "set", !.seen = doc]
    <3>1. call' = [call EXCEPT ![r] = c] BY <1>8, <2>2 DEF EntityAttrsSetFetch
    <3>2. c \in Request /\ c.op = call[r].op /\ c.member = call[r].member /\ c.before = call[r].before /\ c.seen = doc
          /\ c.pc = "set" /\ c.status = call[r].status
      BY <1>1 DEF Request, Pc, GoodDoc
    <3> HIDE DEF c
    <3>3. call[r].status = 0 /\ call[r].op # "get" BY <2>1 DEF BaseInv, PcShape, SetOp
    <3> QED BY <1>1, <2>1, <2>2, <3>1, <3>2, <3>3, GoesOnStep DEF DocStep, GoodDoc
  <2>3. CASE ~doc.there
    <3>1. PICK st \in {204, 404} : Answer(r, st) BY <1>8, <2>3 DEF EntityAttrsSetFetch
    <3> QED BY <1>1, <1>2, <2>1, <3>1, AnswerStep DEF DocStep, SetOp
  <2> QED BY <2>2, <2>3
<1>9. ASSUME call[r].op \in SurgicalOp, call[r].pc \in {"set", "apply", "swap"}, call[r].seen.there,
             ChangesApply(r), Answer(r, 204)
      PROVE  BaseInv' /\ Persist /\ DocStep
  <2>1. call[r].op # "get" BY <1>9 DEF SurgicalOp, SetOp, ChangeOp
  <2>2. CASE doc.there
    <3>1. doc' = Surgical(r, doc) BY <1>9, <2>2 DEF ChangesApply
    <3>2. GoodDoc(doc') BY <1>9, <2>2, <3>1, SurgicalFacts DEF GoodDoc
    <3>3. BaseInv' /\ Persist /\ call'[r].pc = "done" BY <1>2, <1>9, <2>1, <3>2, AnswerStep
    <3> QED BY <1>9, <2>2, <3>1, <3>3 DEF DocStep
  <2>3. CASE ~doc.there
    <3>1. doc' = doc BY <1>9, <2>3 DEF ChangesApply
    <3> QED BY <1>1, <1>2, <1>9, <2>1, <3>1, AnswerStep DEF DocStep
  <2> QED BY <2>2, <2>3
<1>10. CASE EntityAttrsSet(r)
  <2>1. call[r].op \in SurgicalOp /\ call[r].pc = "set" /\ call[r].seen.there
    BY <1>10 DEF EntityAttrsSet, At, BaseInv, PcShape, SurgicalOp
  <2> QED BY <1>9, <1>10, <2>1 DEF EntityAttrsSet
<1>11. CASE PatchEntityApply(r)
  <2>1. call[r].op \in SurgicalOp /\ call[r].pc = "apply" /\ call[r].seen.there
    BY <1>11 DEF PatchEntityApply, At, BaseInv, PcShape, SurgicalOp
  <2> QED BY <1>9, <1>11, <2>1 DEF PatchEntityApply, EntityChangesApply
<1>12. CASE BatchUpsertUpdate(r)
  <2>1. call[r].op \in SurgicalOp /\ call[r].pc = "swap" /\ call[r].seen.there
    BY <1>12 DEF BatchUpsertUpdate, At, BaseInv, PcShape, SurgicalOp
  <2> QED BY <1>9, <1>12, <2>1 DEF BatchUpsertUpdate, EntityChangesApply
<1>13. CASE ReplaceEntityWrite(r)
  <2>1. call[r].op = "replace" /\ call[r].pc = "swap" BY <1>13 DEF ReplaceEntityWrite, At
  <2>2. CASE EntityReplace(r) /\ Answer(r, 204)
    <3>1. doc.there /\ doc' = Written(call[r].member, r, "never") /\ doc'.exp = "never" BY <1>6, <2>2 DEF EntityReplace
    <3>2. GoodDoc(doc') BY <1>3, <1>4, <1>5, <2>1, <3>1
    <3>3. BaseInv' /\ Persist BY <1>2, <2>1, <2>2, <3>2, AnswerStep
    <3> QED BY <2>1, <3>1, <3>3 DEF DocStep
  <2>3. CASE ~doc.there /\ Answer(r, 404) /\ UNCHANGED doc BY <1>1, <1>2, <2>1, <2>3, AnswerStep DEF DocStep
  <2> QED BY <1>13, <2>2, <2>3 DEF ReplaceEntityWrite
<1>14. CASE BatchUpsertCreate(r)
  <2>1. call[r].op \in UpsertOp /\ call[r].pc = "insert" BY <1>14 DEF BatchUpsertCreate, At
  <2>2. CASE EntityCreate(r, "never") /\ Answer(r, 201)
    <3>1. ~doc.there /\ doc' = Written(call[r].member, r, "never") /\ doc'.exp = "never" BY <1>6, <2>2 DEF EntityCreate
    <3>2. GoodDoc(doc') BY <1>3, <1>4, <1>5, <2>1, <3>1
    <3>3. BaseInv' /\ Persist /\ call'[r].status = 201 BY <1>2, <2>1, <2>2, <3>2, AnswerStep DEF UpsertOp
    <3> QED BY <2>1, <3>1, <3>3 DEF DocStep, MakesEntity
  <2>3. CASE doc.there /\ Answer(r, 409) /\ UNCHANGED doc
    <3>1. call[r].op # "get" /\ doc' = doc BY <2>1, <2>3 DEF UpsertOp
    <3>2. BaseInv' /\ Persist BY <1>1, <1>2, <2>1, <2>3, <3>1, AnswerStep
    <3> QED BY <3>1, <3>2 DEF DocStep
  <2> QED BY <1>14, <2>2, <2>3 DEF BatchUpsertCreate
<1>15. CASE BatchUpsertExists(r)
  <2>1. call[r].op = "upsert" /\ call[r].pc = "swap" /\ doc' = doc BY <1>15 DEF BatchUpsertExists, At
  <2>2. CASE doc.there
    <3> DEFINE c == [call[r] EXCEPT !.pc = "bulk", !.status = 0]
    <3>1. call' = [call EXCEPT ![r] = c]
      BY <1>1, <1>15, <2>2, CallFacts DEF BatchUpsertExists, Goto, Request
    <3>2. c \in Request /\ c.op = call[r].op /\ c.member = call[r].member /\ c.before = call[r].before /\ c.seen = call[r].seen
          /\ c.pc = "bulk" /\ c.status = 0
      BY <1>1, ZenonT(60) DEF Request, Pc, Status
    <3> HIDE DEF c
    <3>3. call[r].seen.there => call[r].seen.mem["type"] # Absent BY DEF BaseInv, PcShape
    <3> QED BY <1>1, <2>1, <3>1, <3>2, <3>3, GoesOnStep DEF DocStep
  <2>3. CASE ~doc.there
    <3>1. Answer(r, 404) BY <1>15, <2>3 DEF BatchUpsertExists
    <3> QED BY <1>1, <1>2, <2>1, <3>1, AnswerStep DEF DocStep
  <2> QED BY <2>2, <2>3
<1>16. CASE BatchUpsertReplace(r)
  <2>1. call[r].op = "upsert" /\ call[r].pc = "bulk" /\ Answer(r, 204) BY <1>16 DEF BatchUpsertReplace, At
  <2>2. CASE EntityReplace(r)
    <3>1. doc.there /\ doc' = Written(call[r].member, r, "never") /\ doc'.exp = "never" BY <1>6, <2>2 DEF EntityReplace
    <3>2. GoodDoc(doc') BY <1>3, <1>4, <1>5, <2>1, <3>1 DEF UpsertOp
    <3>3. BaseInv' /\ Persist BY <1>2, <2>1, <3>2, AnswerStep
    <3> QED BY <2>1, <3>1, <3>3 DEF DocStep
  <2>3. CASE ~doc.there /\ UNCHANGED doc BY <1>1, <1>2, <2>1, <2>3, AnswerStep DEF DocStep
  <2> QED BY <1>16, <2>2, <2>3 DEF BatchUpsertReplace
<1>17. CASE DeleteEntityRemove(r)
  <2>1. call[r].op \in DeleteOp /\ call[r].pc = "remove" /\ call[r].op # "get" BY <1>17 DEF DeleteEntityRemove, At, DeleteOp
  <2>2. CASE EntityDelete /\ Answer(r, 204)
    <3>1. doc' = NoEntity BY <2>2 DEF EntityDelete
    <3> QED BY <1>1, <1>2, <2>1, <2>2, <3>1, AnswerStep DEF DocStep
  <2>3. CASE ~doc.there /\ (Answer(r, 204) \/ Answer(r, 404)) /\ UNCHANGED doc
    BY <1>1, <1>2, <2>1, <2>3, AnswerStep DEF DocStep
  <2> QED BY <1>17, <2>2, <2>3 DEF DeleteEntityRemove
<1>18. CASE ExpiredEntityDispatchPending(r)
  <2>1. call[r].op = "get" /\ call[r].pc = "hook" /\ call[r].seen.exp = "past"
    BY <1>18 DEF ExpiredEntityDispatchPending, At, BaseInv, PcShape
  <2> DEFINE c == [call[r] EXCEPT !.pc = "done", !.status = call[r].status]
  <2>2. call' = [call EXCEPT ![r] = c]
    BY <1>1, <1>18, CallFacts DEF ExpiredEntityDispatchPending, Goto, Request
  <2>3. c \in Request /\ c.op = call[r].op /\ c.member = call[r].member /\ c.before = call[r].before /\ c.seen = call[r].seen
        /\ c.pc = "done" /\ c.status = call[r].status
    BY <1>1 DEF Request, Pc
  <2> HIDE DEF c
  <2>4. call[r].seen.there => call[r].seen.mem["type"] # Absent BY DEF BaseInv, PcShape
  <2>5. doc' = NoEntity \/ doc' = doc BY <1>18 DEF ExpiredEntityDispatchPending, EntityDelete
  <2>6. GoodDoc(doc') BY <1>1, <2>5
  <2>7. BaseInv' /\ Persist BY <1>1, <2>1, <2>2, <2>3, <2>4, <2>6, GoesOnStep
  <2> QED BY <2>1, <2>5, <2>7 DEF DocStep
<1> QED BY <1>7, <1>8, <1>10, <1>11, <1>12, <1>13, <1>14, <1>15, <1>16, <1>17, <1>18 DEF RequestStep

LEMMA BaseStep == ASSUME BaseInv, EntityNext PROVE BaseInv' /\ Persist /\ DocStep
<1>1. CASE Expire
  <2>1. GoodDoc(doc) /\ doc.mem \in [Member -> 0..(MaxEntityReq + 1)] BY <1>1 DEF BaseInv, EntityTypeOK, GoodDoc, Document
  <2>2. doc' \in Document /\ doc'.there = doc.there /\ doc'.mem = doc.mem /\ call' = call /\ doc.there
    BY <1>1, <2>1 DEF Expire, GoodDoc, Document, Expiry
  <2>3. BaseInv' BY <2>1, <2>2 DEF BaseInv, EntityTypeOK, PcShape, BeforeOver, GoodDoc
  <2> QED BY <2>2, <2>3 DEF Persist, DocStep
<1>2. CASE \E r \in DOMAIN call : RequestStep(r) BY <1>2, RequestSteps
<1>3. ASSUME ~Expire, ~(\E r \in DOMAIN call : RequestStep(r)) PROVE BaseInv' /\ Persist /\ DocStep
  <2>1. "type" \in Member BY AttrFacts
  <2>2. CASE GetEntity
    <3>1. "get" \in EntityOp BY <2>2 DEF GetEntity, Begin
    <3> QED BY <2>1, <2>2, <3>1, BeginSteps
  <2>3. CASE \E m \in Member : PostEntities(m)
    <3>1. PICK m \in Member : PostEntities(m) BY <2>3
    <3>2. "create" \in EntityOp BY <3>1 DEF PostEntities, Begin
    <3> QED BY <3>1, <3>2, BeginSteps
  <2>4. CASE \E m \in Member : ReplaceEntity(m)
    <3>1. PICK m \in Member : ReplaceEntity(m) BY <2>4
    <3>2. "replace" \in EntityOp BY <3>1 DEF ReplaceEntity, Begin
    <3> QED BY <3>1, <3>2, BeginSteps
  <2>5. CASE \E m \in Member, op \in EntityOp : PostEntityAttrs(op, m) \/ PatchEntity(op, m) \/ BatchUpsert(op, m)
    BY <2>5, BeginSteps
  <2>6. CASE \E op \in EntityOp : DeleteEntity(op) BY <2>1, <2>6, BeginSteps
  <2> QED BY <1>3, <2>2, <2>3, <2>4, <2>5, <2>6 DEF EntityNext
<1> QED BY <1>1, <1>2, <1>3

-----------------------------------------------------------------------------
(* What an answer and a read say of the entity *)

Changing == SurgicalOp \cup {"create", "replace", "upsert"}

\* Requests that saw the entity, and may find it gone when they write
Awaits(r) ==
  \/ call[r].op \in SetOp \ {"purgeDrop"} /\ call[r].pc \in {"fetch", "set"}
  \/ call[r].op \in ChangeOp /\ call[r].pc = "apply"
  \/ call[r].op = "upsertUpdate" /\ call[r].pc = "swap"
  \/ call[r].op = "upsert" /\ call[r].pc = "bulk"

\* Requests that will write the type back as they saw it
Rewrites(r) == call[r].op \in SurgicalOp /\ call[r].pc \in {"set", "apply", "swap"}

AckStep ==
  \A p \in DOMAIN call : call[p].pc # "done" /\ Acknowledged(p)' =>
    /\ call[p].op \in DeleteOp => ~doc'.there
    /\ call[p].op \in Changing =>
         doc'.mem[call[p].member] = Change(p) \/ (~doc.there /\ doc' = doc /\ Awaits(p))

ReadStep ==
  \A p \in DOMAIN call' :
    /\ Awaits(p)' => (p \in DOMAIN call /\ call'[p] = call[p]) \/ (doc.there /\ doc' = doc)
    /\ Rewrites(p)' => (p \in DOMAIN call /\ call'[p] = call[p]) \/ (call'[p].seen = doc /\ doc' = doc)

\* One that begins has written nothing; one that reads the entity sees it as it is
LEMMA BeginReads ==
  ASSUME BaseInv, NEW op, NEW m, NEW pc, NEW st, Begin(op, m, pc, st), doc' = doc,
         op \in (SetOp \ {"purgeDrop"}) \cup ChangeOp => doc.there \/ pc = "done",
         op = "upsertUpdate" /\ pc = "swap" => doc.there, op = "upsert" => pc # "bulk"
  PROVE  AckStep /\ ReadStep
<1> DEFINE N == Len(call) + 1
           c == [op |-> op, member |-> m, pc |-> pc, status |-> st, seen |-> doc, before |-> Finished]
<1>1. call' = Append(call, c) BY DEF Begin
<1>2. call \in Seq(Request) BY DEF BaseInv, EntityTypeOK
<1>3. c.op = op /\ c.pc = pc /\ c.seen = doc OBVIOUS
<1> HIDE DEF c
<1>4. DOMAIN call' = 1..N /\ DOMAIN call = 1..Len(call) /\ call'[N] = c /\ \A p \in DOMAIN call : call'[p] = call[p]
  BY <1>1, <1>2
<1>5. \A p \in DOMAIN call' : p \in DOMAIN call \/ p = N BY <1>2, <1>4
<1>6. AckStep BY <1>4 DEF AckStep, Acknowledged
<1>7. ReadStep
  <2> SUFFICES ASSUME NEW p \in DOMAIN call', ~(p \in DOMAIN call /\ call'[p] = call[p])
               PROVE  (Awaits(p)' => doc.there) /\ (Rewrites(p)' => call'[p].seen = doc)
    BY DEF ReadStep
  <2>1. call'[p] = c BY <1>4, <1>5
  <2> QED BY <1>3, <2>1 DEF Awaits, Rewrites
<1> QED BY <1>6, <1>7

\* One that goes on does it alone
LEMMA GoesOnReads ==
  ASSUME BaseInv, NEW r \in DOMAIN call, NEW c, call' = [call EXCEPT ![r] = c], c.op = call[r].op,
         c.pc \in {"set", "bulk"} => doc.there /\ doc' = doc, c.pc = "set" => c.seen = doc,
         c.pc \in {"set", "bulk", "done"},
         c.pc = "done" /\ c.status \in {201, 204} =>
           /\ c.op \in DeleteOp => ~doc'.there
           /\ c.op \in Changing => doc'.mem[call[r].member] = Change(r) \/ (~doc.there /\ doc' = doc /\ Awaits(r))
  PROVE  AckStep /\ ReadStep
<1>1. DOMAIN call' = DOMAIN call /\ call'[r] = c /\ \A p \in DOMAIN call : p # r => call'[p] = call[p]
  BY CallFacts
<1>2. AckStep BY <1>1 DEF AckStep, Acknowledged
<1>3. ReadStep BY <1>1 DEF ReadStep, Awaits, Rewrites
<1> QED BY <1>2, <1>3

\* An answer
LEMMA AnswerReads ==
  ASSUME BaseInv, NEW r \in DOMAIN call, NEW st, Answer(r, st),
         st \in {201, 204} =>
           /\ call[r].op \in DeleteOp => ~doc'.there
           /\ call[r].op \in Changing => doc'.mem[call[r].member] = Change(r) \/ (~doc.there /\ doc' = doc /\ Awaits(r))
  PROVE  AckStep /\ ReadStep
<1> DEFINE c == [call[r] EXCEPT !.pc = "done", !.status = st, !.seen = NoEntity]
<1>1. call[r] \in Request BY CallFacts
<1>2. c.op = call[r].op /\ c.pc = "done" /\ c.status = st BY <1>1 DEF Request
<1>3. call' = [call EXCEPT ![r] = c] BY DEF Answer
<1> HIDE DEF c
<1> QED BY <1>2, <1>3, GoesOnReads

LEMMA ReadsOfStep == ASSUME BaseInv, EntityNext PROVE AckStep /\ ReadStep
<1> USE DEF SetOp, ChangeOp, UpsertOp, DeleteOp
<1>1. CASE Expire BY <1>1 DEF Expire, AckStep, ReadStep, Acknowledged, Awaits, Rewrites
<1>2. ASSUME NEW m \in Member, PostEntities(m) PROVE AckStep /\ ReadStep
  BY <1>2, BeginReads DEF PostEntities
<1>3. ASSUME NEW m \in Member, ReplaceEntity(m) PROVE AckStep /\ ReadStep
  BY <1>3, BeginReads DEF ReplaceEntity
<1>4. ASSUME NEW m \in Member, NEW op \in EntityOp, PostEntityAttrs(op, m) PROVE AckStep /\ ReadStep
  <2>1. \E pc, st : Begin(op, m, pc, st) BY <1>4 DEF PostEntityAttrs
  <2> QED BY <1>4, <2>1, BeginReads DEF PostEntityAttrs
<1>5. ASSUME NEW m \in Member, NEW op \in EntityOp, PatchEntity(op, m) PROVE AckStep /\ ReadStep
  BY <1>5, BeginReads DEF PatchEntity
<1>6. ASSUME NEW m \in Member, NEW op \in EntityOp, BatchUpsert(op, m) PROVE AckStep /\ ReadStep
  <2>1. \E pc \in {"swap", "insert"} : Begin(op, m, pc, 0) /\ (pc = "swap" => doc.there) BY <1>6 DEF BatchUpsert
  <2> QED BY <1>6, <2>1, BeginReads DEF BatchUpsert
<1>7. ASSUME NEW op \in EntityOp, DeleteEntity(op) PROVE AckStep /\ ReadStep
  <2>1. \E pc, st : Begin(op, "id", pc, st) BY <1>7 DEF DeleteEntity
  <2> QED BY <1>7, <2>1, BeginReads DEF DeleteEntity
<1>8. CASE GetEntity
  <2>1. \E pc, st : Begin("get", "id", pc, st) BY <1>8 DEF GetEntity
  <2> QED BY <1>8, <2>1, BeginReads DEF GetEntity
<1>9. ASSUME NEW r \in DOMAIN call, RequestStep(r) PROVE AckStep /\ ReadStep
  <2>1. call[r] \in Request /\ r \in 1..MaxEntityReq BY CallFacts
  <2>2. ~doc.there => doc = NoEntity BY DEF BaseInv, EntityTypeOK
  <2>3. call[r].op \in Changing => call[r].member \in Member
    BY <2>1 DEF BaseInv, PcShape, Request, Changing, SurgicalOp
  <2>4. \A e : call[r].op \in Changing \ {"deleteAttr", "purgeDrop"} =>
          Written(call[r].member, r, e).mem[call[r].member] = Change(r)
    BY <2>3 DEF Written, Change
  <2>5. ASSUME call[r].op \in SurgicalOp, call[r].pc \in {"set", "apply", "swap"}, call[r].seen.there,
               ChangesApply(r), Answer(r, 204), call[r].op # "purgeDrop" => Awaits(r)
        PROVE  AckStep /\ ReadStep
    <3>1. doc'.mem[call[r].member] = Change(r) \/ (~doc.there /\ doc' = doc /\ Awaits(r))
      <4>1. CASE doc.there BY <2>5, <4>1, SurgicalFacts DEF ChangesApply
      <4>2. CASE ~doc.there
        <5>1. doc' = NoEntity /\ doc' = doc BY <2>2, <2>5, <4>2 DEF ChangesApply
        <5>2. CASE call[r].op = "purgeDrop"
          BY <2>3, <2>5, <5>1, <5>2, DocumentFacts DEF Change, Changing
        <5> QED BY <2>5, <4>2, <5>1, <5>2
      <4> QED BY <4>1, <4>2
    <3>2. call[r].op \notin DeleteOp BY <2>5 DEF SurgicalOp
    <3> QED BY <2>5, <3>1, <3>2, AnswerReads
  <2>6. CASE PostEntitiesInsert(r)
    BY <2>4, <2>6, AnswerReads DEF PostEntitiesInsert, At, EntityCreate, Changing
  <2>7. CASE EntityAttrsSetFetch(r)
    <3>1. call[r].op \in SetOp /\ call[r].pc = "fetch" /\ doc' = doc BY <2>7 DEF EntityAttrsSetFetch, At
    <3>2. CASE doc.there
      <4> DEFINE c == [call[r] EXCEPT !.pc = "set", !.seen = doc]
      <4>1. call' = [call EXCEPT ![r] = c] BY <2>7, <3>2 DEF EntityAttrsSetFetch
      <4>2. c.op = call[r].op /\ c.pc = "set" /\ c.seen = doc BY <2>1 DEF Request
      <4> HIDE DEF c
      <4> QED BY <3>1, <3>2, <4>1, <4>2, GoesOnReads
    <3>3. CASE ~doc.there
      <4>1. \E st : Answer(r, st) BY <2>7, <3>3 DEF EntityAttrsSetFetch
      <4>2. CASE call[r].op = "purgeDrop"
        <5>1. doc'.mem[call[r].member] = Change(r)
          BY <2>2, <2>3, <3>1, <3>3, <4>2, DocumentFacts DEF Change, Changing, SurgicalOp
        <5> QED BY <4>1, <4>2, <5>1, AnswerReads
      <4>3. CASE call[r].op # "purgeDrop"
        <5>1. Awaits(r) BY <3>1, <4>3 DEF Awaits
        <5> QED BY <3>1, <3>3, <4>1, <5>1, AnswerReads
      <4> QED BY <4>2, <4>3
    <3> QED BY <3>2, <3>3
  <2>8. CASE EntityAttrsSet(r)
    BY <2>5, <2>8 DEF EntityAttrsSet, At, BaseInv, PcShape, SurgicalOp, Awaits
  <2>9. CASE PatchEntityApply(r)
    BY <2>5, <2>9 DEF PatchEntityApply, EntityChangesApply, At, BaseInv, PcShape, SurgicalOp, Awaits
  <2>10. CASE BatchUpsertUpdate(r)
    BY <2>5, <2>10 DEF BatchUpsertUpdate, EntityChangesApply, At, BaseInv, PcShape, SurgicalOp, Awaits
  <2>11. CASE ReplaceEntityWrite(r)
    BY <2>4, <2>11, AnswerReads DEF ReplaceEntityWrite, At, EntityReplace, Changing
  <2>12. CASE BatchUpsertCreate(r)
    <3>1. call[r].op \in UpsertOp BY <2>12 DEF BatchUpsertCreate, At
    <3>2. CASE EntityCreate(r, "never") /\ Answer(r, 201)
      <4>1. doc'.mem[call[r].member] = Change(r) BY <2>4, <3>1, <3>2 DEF EntityCreate, Changing, SurgicalOp
      <4> QED BY <3>1, <3>2, <4>1, AnswerReads
    <3>3. CASE Answer(r, 409) BY <3>3, AnswerReads
    <3> QED BY <2>12, <3>2, <3>3 DEF BatchUpsertCreate
  <2>13. CASE BatchUpsertExists(r)
    <3>1. call[r].op = "upsert" /\ doc' = doc BY <2>13 DEF BatchUpsertExists, At
    <3>2. CASE doc.there
      <4> DEFINE c == [call[r] EXCEPT !.pc = "bulk", !.status = 0]
      <4>1. call' = [call EXCEPT ![r] = c] BY <2>1, <2>13, <3>2, CallFacts DEF BatchUpsertExists, Goto, Request
      <4>2. c.op = call[r].op /\ c.pc = "bulk" BY <2>1 DEF Request
      <4> HIDE DEF c
      <4> QED BY <3>1, <3>2, <4>1, <4>2, GoesOnReads
    <3>3. CASE ~doc.there
      <4>1. Answer(r, 404) BY <2>13, <3>3 DEF BatchUpsertExists
      <4> QED BY <4>1, AnswerReads
    <3> QED BY <3>2, <3>3
  <2>14. CASE BatchUpsertReplace(r)
    <3>1. call[r].op = "upsert" /\ call[r].pc = "bulk" /\ Answer(r, 204) BY <2>14 DEF BatchUpsertReplace, At
    <3>2. Awaits(r) BY <3>1 DEF Awaits
    <3>3. CASE EntityReplace(r) BY <2>4, <3>1, <3>3, AnswerReads DEF EntityReplace, Changing
    <3>4. CASE ~doc.there /\ UNCHANGED doc BY <3>1, <3>2, <3>4, AnswerReads
    <3> QED BY <2>14, <3>3, <3>4 DEF BatchUpsertReplace
  <2>15. CASE DeleteEntityRemove(r)
    <3>1. call[r].op \in DeleteOp /\ call[r].op \notin Changing BY <2>15 DEF DeleteEntityRemove, At, Changing, SurgicalOp
    <3>2. ~doc'.there /\ \E st : Answer(r, st) BY <2>15, DocumentFacts DEF DeleteEntityRemove, EntityDelete
    <3> QED BY <3>1, <3>2, AnswerReads
  <2>16. CASE ExpiredEntityDispatchPending(r)
    <3>1. call[r].op = "get" BY <2>16 DEF ExpiredEntityDispatchPending, At
    <3> DEFINE c == [call[r] EXCEPT !.pc = "done", !.status = call[r].status]
    <3>2. call' = [call EXCEPT ![r] = c] BY <2>1, <2>16, CallFacts DEF ExpiredEntityDispatchPending, Goto, Request
    <3>3. c.op = "get" /\ c.pc = "done" BY <2>1, <3>1 DEF Request
    <3> HIDE DEF c
    <3> QED BY <3>1, <3>2, <3>3, GoesOnReads DEF Changing, SurgicalOp
  <2> QED BY <1>9, <2>6, <2>7, <2>8, <2>9, <2>10, <2>11, <2>12, <2>13, <2>14, <2>15, <2>16 DEF RequestStep
<1> QED BY <1>1, <1>2, <1>3, <1>4, <1>5, <1>6, <1>7, <1>8, <1>9 DEF EntityNext

-----------------------------------------------------------------------------
(* A deleted entity stays deleted *)

LEMMA BaseInvariant == EntityInit /\ [][EntityNext]_entityVars => []BaseInv
<1>1. EntityInit => BaseInv
  <2> SUFFICES ASSUME EntityInit PROVE BaseInv OBVIOUS
  <2>1. call = <<>> /\ DOMAIN call = {} BY DEF EntityInit
  <2>2. GoodDoc(doc)
    <3>1. CASE doc = NoEntity BY <3>1, DocumentFacts, AttrFacts DEF GoodDoc
    <3>2. CASE doc # NoEntity
      <4>1. PICK e \in {"never", "ahead"} : doc = [there |-> TRUE, exp |-> e, mem |-> [m \in Member |-> Original]]
        BY <3>2 DEF EntityInit
      <4>2. Original \in 0..(MaxEntityReq + 1) /\ Original # Absent BY AttrFacts DEF Original, Absent
      <4> QED BY <4>1, <4>2, AttrFacts DEF GoodDoc, Document, Expiry
    <3> QED BY <3>1, <3>2
  <2>3. <<>> \in Seq(Request) /\ Len(<<>>) <= MaxEntityReq BY AttrFacts
  <2> QED BY <2>1, <2>2, <2>3 DEF BaseInv, EntityTypeOK, PcShape, BeforeOver, GoodDoc
<1>2. BaseInv /\ [EntityNext]_entityVars => BaseInv'
  <2>1. ASSUME BaseInv, UNCHANGED entityVars PROVE BaseInv'
    BY <2>1 DEF entityVars, BaseInv, EntityTypeOK, PcShape, BeforeOver
  <2> QED BY <2>1, BaseStep
<1> QED BY <1>1, <1>2, PTL

\* Types of the entity and the requests; an entity that is there has its type
THEOREM EntityTypesCorrect == EntitySpec => []EntityTypeOK
<1>1. BaseInv => EntityTypeOK BY DEF BaseInv
<1> QED BY <1>1, BaseInvariant, PTL DEF EntitySpec

\* After an acknowledged DELETE the entity is there only if a request that makes entities, and was not
\* over before the DELETE began, made one: no update brings it back
THEOREM DeletedStaysGone == EntitySpec => []DeletedGone
<1>1. EntityInit => DeletedGone BY DEF EntityInit, DeletedGone
<1>2. BaseInv /\ DeletedGone /\ [EntityNext]_entityVars => DeletedGone'
  <2> SUFFICES ASSUME BaseInv, DeletedGone, EntityNext PROVE DeletedGone'
    BY DEF DeletedGone, entityVars, Acknowledged
  <2> SUFFICES ASSUME NEW r \in DOMAIN call', Acknowledged(r)', call'[r].op \in DeleteOp, doc'.there
               PROVE  \E q \in DOMAIN call' \ call'[r].before : MakesEntity(call'[q].op)
    BY DEF DeletedGone
  <2>1. BaseInv' /\ Persist /\ DocStep BY BaseStep
  <2>2. r \in DOMAIN call /\ call'[r].op = call[r].op /\ call'[r].before = call[r].before
    BY <2>1 DEF Persist, Acknowledged
  <2>3. ASSUME NEW q \in DOMAIN call, q \notin call[r].before, MakesEntity(call[q].op)
        PROVE  \E p \in DOMAIN call' \ call'[r].before : MakesEntity(call'[p].op)
    BY <2>1, <2>2, <2>3 DEF Persist
  <2>4. CASE call[r].pc = "done"
    <3>1. Acknowledged(r) BY <2>1, <2>2, <2>4 DEF Persist, Acknowledged
    <3>2. CASE doc.there BY <2>2, <2>3, <3>1, <3>2 DEF DeletedGone
    <3>3. CASE ~doc.there
      <4>1. PICK q \in DOMAIN call : call[q].pc # "done" /\ MakesEntity(call[q].op)
        BY <2>1, <3>3, DocumentFacts DEF DocStep
      <4>2. q \notin call[r].before BY <2>2, <4>1 DEF BaseInv, BeforeOver
      <4> QED BY <2>3, <4>1, <4>2
    <3> QED BY <3>2, <3>3
  <2>5. CASE call[r].pc # "done" BY <2>2, <2>5, ReadsOfStep DEF AckStep
  <2> QED BY <2>4, <2>5
<1> QED BY <1>1, <1>2, BaseInvariant, PTL DEF EntitySpec

-----------------------------------------------------------------------------
(* No update is lost *)

\* Removed by a request that was not over before r began
Removed(r) ==
  \E q \in DOMAIN call \ ({r} \cup call[r].before) :
    call[q].op \in DeleteOp \/ (call[q].op = "get" /\ call[q].seen.exp = "past")

\* What a request read the entity for is still there, unless a request that overlaps removed it
ReadStands == \A r \in DOMAIN call : Awaits(r) => doc.there \/ Removed(r)

\* The type a request is about to write back has in it every change of the type over before it began
TypeStands ==
  \A q \in DOMAIN call : Rewrites(q) =>
    \A r \in call[q].before :
      Acknowledged(r) /\ call[r].op \in Changing /\ call[r].member = "type" =>
        call[q].seen.mem["type"] = Change(r) \/ Overtaken(r, "type")

KeptInv == BaseInv /\ UpdatesKept /\ ReadStands /\ TypeStands

\* Overtaken once, overtaken for good; and what removed the entity overtakes
LEMMA OvertakenStays ==
  ASSUME BaseInv, Persist, NEW r \in DOMAIN call
  PROVE  /\ \A m : Overtaken(r, m) => Overtaken(r, m)'
         /\ Removed(r) => Removed(r)'
         /\ \A m : Removed(r) => Overtaken(r, m)
<1>1. \A q \in DOMAIN call : q \in DOMAIN call' /\ call'[q].op = call[q].op /\ call'[q].before = call[q].before
        /\ call'[q].member = call[q].member
        /\ (call[q].op = "get" => call'[q].seen = call[q].seen)
        /\ (call[q].op = "upsertUpdate" /\ call[q].status = 201 => call'[q].status = 201)
  BY DEF Persist, BaseInv, PcShape
<1>2. \A q \in DOMAIN call : \A m : Touches(q, m) => Touches(q, m)' BY <1>1 DEF Touches
<1>3. \A q \in DOMAIN call : RefreshesType(q, r) => RefreshesType(q, r)' BY <1>1 DEF RefreshesType
<1>4. \A m : Overtaken(r, m) => Overtaken(r, m)' BY <1>1, <1>2, <1>3 DEF Overtaken
<1>5. Removed(r) => Removed(r)' BY <1>1 DEF Removed
<1>6. \A m : Removed(r) => Overtaken(r, m) BY DEF Removed, Overtaken, Touches
<1> QED BY <1>4, <1>5, <1>6

\* A request that is not over was not over before any other began
LEMMA NotBefore ==
  ASSUME BaseInv, NEW r \in DOMAIN call, NEW q \in DOMAIN call, call[q].pc # "done"
  PROVE  q \notin call[r].before
BY DEF BaseInv, BeforeOver

\* A step that changes a member an acknowledged request wrote is the step of one that overtakes it
LEMMA MemberStays ==
  ASSUME KeptInv, BaseInv', Persist, DocStep, NEW r \in DOMAIN call, Acknowledged(r), call[r].op \in Changing,
         NEW m, m = call[r].member, doc.mem[m] = Change(r)
  PROVE  doc'.mem[m] = Change(r) \/ Overtaken(r, m)'
<1>0. BaseInv BY DEF KeptInv
<1>1. m \in Member BY <1>0, CallFacts DEF BaseInv, PcShape, Request, Changing, SurgicalOp, SetOp, ChangeOp, DeleteOp
<1>2. CASE doc'.mem = doc.mem BY <1>2
<1>3. ASSUME NEW q \in DOMAIN call, call[q].pc # "done",
             Touches(q, m)' \/ (m = "type" /\ RefreshesType(q, r))
      PROVE  Overtaken(r, m)'
  <2>1. q # r /\ q \notin call[r].before BY <1>0, <1>3, NotBefore DEF Acknowledged
  <2>2. q \in DOMAIN call' /\ call'[r].before = call[r].before BY DEF Persist
  <2>3. RefreshesType(q, r) => RefreshesType(q, r)' BY <1>3 DEF Persist, RefreshesType
  <2>4. q \in DOMAIN call' \ ({r} \cup call'[r].before) BY <2>1, <2>2
  <2>5. Touches(q, m)' \/ (m = "type" /\ RefreshesType(q, r)') BY <1>3, <2>3
  <2> QED BY <2>4, <2>5 DEF Overtaken
<1>4. \A q \in DOMAIN call : /\ call'[q].op = call[q].op /\ call'[q].member = call[q].member
                             /\ (call[q].op = "get" => call'[q].seen = call[q].seen)
  BY DEF Persist
<1>5. ASSUME NEW q \in DOMAIN call, call[q].pc # "done",
             \/ MakesEntity(call[q].op) /\ call'[q].status = 201
             \/ call[q].op \in {"replace", "upsert"}
             \/ call[q].op \in DeleteOp
             \/ call[q].op = "get" /\ call[q].seen.exp = "past"
      PROVE  Overtaken(r, m)'
  <2>1. Touches(q, m)' BY <1>4, <1>5 DEF Touches, MakesEntity, UpsertOp
  <2> QED BY <1>3, <1>5, <2>1
<1>6. ASSUME NEW q \in DOMAIN call, call[q].pc # "done", call[q].op \in SurgicalOp, call[q].pc \in {"set", "apply", "swap"},
             doc' = Surgical(q, doc)
      PROVE  doc'.mem[m] = Change(r) \/ Overtaken(r, m)'
  <2>1. Rewrites(q) BY <1>6 DEF Rewrites
  <2>2. call[q].seen.there
    BY <1>0, <1>6 DEF BaseInv, PcShape, SurgicalOp, SetOp, ChangeOp, UpsertOp
  <2>3. CASE call[q].member = m
    <3>1. Touches(q, m)' BY <1>4, <2>3 DEF Touches
    <3> QED BY <1>3, <1>6, <3>1
  <2>4. CASE call[q].member # m /\ m # "type"
    BY <1>0, <1>1, <1>6, <2>2, <2>4, SurgicalFacts
  <2>5. CASE call[q].member # m /\ m = "type" /\ r \notin call[q].before
    <3>1. RefreshesType(q, r) BY <1>6, <2>5 DEF RefreshesType
    <3> QED BY <1>3, <1>6, <2>5, <3>1
  <2>6. CASE call[q].member # m /\ m = "type" /\ r \in call[q].before
    <3>1. doc'.mem["type"] = call[q].seen.mem["type"] BY <1>0, <1>6, <2>2, <2>6, SurgicalFacts
    <3>2. call[q].seen.mem["type"] = Change(r) \/ Overtaken(r, "type")
      BY <2>1, <2>6 DEF KeptInv, TypeStands
    <3>3. Overtaken(r, "type") => Overtaken(r, "type")' BY <1>0, OvertakenStays
    <3> QED BY <2>6, <3>1, <3>2, <3>3
  <2> QED BY <2>3, <2>4, <2>5, <2>6
<1>7. PICK q \in DOMAIN call : doc'.mem = doc.mem \/ (call[q].pc # "done" /\
             \/ MakesEntity(call[q].op) /\ call'[q].status = 201
             \/ call[q].op \in {"replace", "upsert"}
             \/ call[q].op \in DeleteOp \/ (call[q].op = "get" /\ call[q].seen.exp = "past")
             \/ call[q].op \in SurgicalOp /\ call[q].pc \in {"set", "apply", "swap"} /\ doc' = Surgical(q, doc))
  BY DEF DocStep
<1> QED BY <1>2, <1>5, <1>6, <1>7

LEMMA KeptStep == ASSUME KeptInv, EntityNext PROVE KeptInv'
<1>1. BaseInv /\ BaseInv' /\ Persist /\ DocStep /\ AckStep /\ ReadStep
  BY BaseStep, ReadsOfStep DEF KeptInv
<1>2. \A r \in DOMAIN call : r \in DOMAIN call' /\ call'[r].op = call[r].op /\ call'[r].member = call[r].member
        /\ call'[r].before = call[r].before /\ (call[r].pc = "done" => call'[r] = call[r])
  BY <1>1 DEF Persist
<1>3. \A r \in DOMAIN call : Change(r)' = Change(r) BY <1>2 DEF Change
<1>4. \A r \in DOMAIN call' \ DOMAIN call : ~Acknowledged(r)' BY <1>1 DEF Persist, Acknowledged
<1>5. ReadStands'
  <2> SUFFICES ASSUME NEW r \in DOMAIN call', Awaits(r)', ~doc'.there PROVE Removed(r)' BY DEF ReadStands
  <2>1. r \in DOMAIN call /\ call'[r] = call[r]
    <3>1. CASE doc.there /\ doc' = doc BY <3>1
    <3> QED BY <1>1, <3>1 DEF ReadStep
  <2>2. Awaits(r) BY <2>1 DEF Awaits
  <2>3. CASE ~doc.there
    BY <1>1, <2>1, <2>2, <2>3, OvertakenStays DEF KeptInv, ReadStands
  <2>4. CASE doc.there
    <3>1. PICK q \in DOMAIN call : call[q].pc # "done" /\ (call[q].op \in DeleteOp \/ (call[q].op = "get" /\ call[q].seen.exp = "past"))
      <4>1. \A q \in DOMAIN call : \A e : call[q].op \in {"replace", "upsert"} => Written(call[q].member, q, e).there
        BY DEF Written
      <4>2. \A q \in DOMAIN call : call[q].op \in SurgicalOp /\ call[q].pc \in {"set", "apply", "swap"} => Surgical(q, doc).there = doc.there
        <5>1. \A q \in DOMAIN call : call[q].op \in SurgicalOp /\ call[q].pc \in {"set", "apply", "swap"} => call[q].seen.there
          BY <1>1 DEF BaseInv, PcShape, SurgicalOp, SetOp, ChangeOp, UpsertOp
        <5> QED BY <1>1, <5>1, SurgicalFacts
      <4>3. PICK q \in DOMAIN call : call[q].pc # "done" /\
              \/ ~doc.there
              \/ call[q].op \in {"replace", "upsert"} /\ doc' = Written(call[q].member, q, doc'.exp)
              \/ call[q].op \in DeleteOp \/ (call[q].op = "get" /\ call[q].seen.exp = "past")
              \/ call[q].op \in SurgicalOp /\ call[q].pc \in {"set", "apply", "swap"} /\ doc' = Surgical(q, doc)
        BY <1>1, <2>4 DEF DocStep
      <4>4. ~(call[q].op \in {"replace", "upsert"} /\ doc' = Written(call[q].member, q, doc'.exp))
        BY <4>1
      <4>5. ~(call[q].op \in SurgicalOp /\ call[q].pc \in {"set", "apply", "swap"} /\ doc' = Surgical(q, doc))
        BY <2>4, <4>2
      <4> QED BY <2>4, <4>3, <4>4, <4>5
    <3>2. q \notin call[r].before BY <1>1, <2>1, <3>1, NotBefore
    <3>3. q # r BY <2>2, <3>1 DEF Awaits, SetOp, ChangeOp, DeleteOp
    <3>4. call'[q].op = call[q].op /\ (call[q].op = "get" => call'[q].seen = call[q].seen) /\ q \in DOMAIN call'
      BY <1>1, <3>1 DEF Persist
    <3> QED BY <2>1, <3>1, <3>2, <3>3, <3>4 DEF Removed
  <2> QED BY <2>3, <2>4
<1>6. UpdatesKept'
  <2> SUFFICES ASSUME NEW r \in DOMAIN call', Acknowledged(r)', call'[r].op \in Changing
               PROVE  doc'.mem[call'[r].member] = Change(r)' \/ Overtaken(r, call[r].member)'
    BY DEF UpdatesKept, Changing
  <2>1. r \in DOMAIN call BY <1>4
  <2>2. call'[r].op = call[r].op /\ call'[r].member = call[r].member /\ Change(r)' = Change(r) BY <1>2, <1>3, <2>1
  <2>3. PICK m : m = call[r].member OBVIOUS
  <2> SUFFICES doc'.mem[m] = Change(r) \/ Overtaken(r, m)' BY <2>2, <2>3
  <2>4. Overtaken(r, m) => Overtaken(r, m)' BY <1>1, <2>1, OvertakenStays
  <2>5. CASE call[r].pc = "done"
    <3>1. Acknowledged(r) BY <1>2, <2>1, <2>5 DEF Acknowledged
    <3>2. doc.mem[m] = Change(r) \/ Overtaken(r, m)
      BY <2>1, <2>2, <2>3, <3>1 DEF KeptInv, UpdatesKept, Changing
    <3> QED BY <1>1, <2>1, <2>2, <2>3, <2>4, <3>1, <3>2, MemberStays
  <2>6. CASE call[r].pc # "done"
    <3>1. doc'.mem[m] = Change(r) \/ (~doc.there /\ Awaits(r))
      BY <1>1, <2>1, <2>2, <2>3, <2>6 DEF AckStep
    <3>2. ~doc.there /\ Awaits(r) => Removed(r) BY <2>1 DEF KeptInv, ReadStands
    <3>3. Removed(r) => Overtaken(r, m) BY <1>1, <2>1, OvertakenStays
    <3> QED BY <2>4, <3>1, <3>2, <3>3
  <2> QED BY <2>5, <2>6
<1>7. TypeStands'
  <2> SUFFICES ASSUME NEW q \in DOMAIN call', Rewrites(q)', NEW r \in call'[q].before,
                      Acknowledged(r)', call'[r].op \in Changing, call'[r].member = "type"
               PROVE  call'[q].seen.mem["type"] = Change(r)' \/ Overtaken(r, "type")'
    BY DEF TypeStands
  <2>1. r \in DOMAIN call /\ call'[q].before \subseteq DOMAIN call'
    BY <1>1, <1>4 DEF BaseInv, BeforeOver
  <2>2. call'[r].op = call[r].op /\ call'[r].member = call[r].member /\ Change(r)' = Change(r) BY <1>2, <1>3, <2>1
  <2>3. CASE q \in DOMAIN call /\ call'[q] = call[q]
    <3>1. Rewrites(q) /\ r \in call[q].before BY <2>3 DEF Rewrites
    <3>2. Acknowledged(r) BY <1>1, <1>2, <2>1, <2>3, <3>1 DEF Acknowledged, BaseInv, BeforeOver
    <3>3. call[q].seen.mem["type"] = Change(r) \/ Overtaken(r, "type")
      BY <2>2, <2>3, <3>1, <3>2 DEF KeptInv, TypeStands
    <3>4. Overtaken(r, "type") => Overtaken(r, "type")' BY <1>1, <2>1, OvertakenStays
    <3> QED BY <2>2, <2>3, <3>3, <3>4
  <2>4. CASE call'[q].seen = doc /\ doc' = doc
    BY <1>6, <2>1, <2>2, <2>4 DEF UpdatesKept, Changing
  <2> QED BY <1>1, <2>3, <2>4 DEF ReadStep
<1> QED BY <1>1, <1>5, <1>6, <1>7 DEF KeptInv

\* No lost update, for any number of requests on an entity of any attributes: an acknowledged change is
\* in the entity unless a request that overlaps, or came later, addressed the same member or the whole
THEOREM NoLostUpdate == EntitySpec => []UpdatesKept
<1>1. EntityInit /\ BaseInv => KeptInv
  BY DEF EntityInit, KeptInv, UpdatesKept, ReadStands, TypeStands
<1>2. KeptInv /\ [EntityNext]_entityVars => KeptInv'
  <2>1. ASSUME KeptInv, UNCHANGED entityVars PROVE KeptInv'
    BY <2>1 DEF entityVars, KeptInv, BaseInv, EntityTypeOK, PcShape, BeforeOver, UpdatesKept, ReadStands, TypeStands,
       Acknowledged, Change, Overtaken, Touches, RefreshesType, Awaits, Rewrites, Removed
  <2> QED BY <2>1, KeptStep
<1>3. KeptInv => UpdatesKept BY DEF KeptInv
<1> QED BY <1>1, <1>2, <1>3, BaseInvariant, PTL DEF EntitySpec

-----------------------------------------------------------------------------
(* Requests on attributes bound to a bridge *)
After == {"release", "releaseGoal", "done"}
Ended == {"hook"} \cup After
Writing == {"find", "findLast", "write", "writeLast", "ending", "end", "remove"}

AskRecord ==
  [pc : {"idle", "send", "wait", "await", "failed", "read", "write"} \cup Ended, todo : SUBSET Bound, frag : SUBSET Bound,
   route : {"set", "merge"}, wait : BOOLEAN, several : BOOLEAN, replied : BOOLEAN, seen : Entity, queued : BOOLEAN]
GoalRecord == [in : BOOLEAN, held : BOOLEAN, first : {"none", "accepted", "refused", "over"}, endPending : BOOLEAN]

\* Types, without the count of the slots
BridgeTypes ==
  /\ ent \in Entity /\ carried \in [Caller -> Entity] /\ ask \in [Caller -> AskRecord] /\ goal \in [Caller -> GoalRecord]
  /\ waiter \in [Caller -> {"none", "waiting", "answered", "detached", "released"}]
  /\ reply \in [Caller -> {"none", "due", "given", "held", "find", "land", "landed", "dropped"}]
  /\ event \in [Caller -> {"none", "first", "more", "held", "heldLast"} \cup Writing]
  /\ told \subseteq Caller /\ goalMutex \in Someone

\* What is let go has had its request's notifications go out first
OrderInv ==
  \A r \in Caller :
    /\ ask[r].pc \in After <=> r \in told
    /\ waiter[r] = "released" => r \in told
    /\ goal[r].in /\ ~goal[r].held => r \in told
    /\ ~goal[r].in => goal[r] = NoGoal
    /\ reply[r] \in {"find", "land"} => r \in told \/ LongWait
    /\ event[r] \in Writing => r \in told

\* Who a goal in the registry, and an event to be written, belong to
FragInv ==
  \A r \in Caller :
    /\ ask[r].todo \subseteq ask[r].frag
    /\ ask[r].pc = "idle" => ask[r].frag = {}
    /\ "act" \in ask[r].todo => ~goal[r].in
    /\ ask[r].pc # "failed" /\ goal[r].in => "act" \in ask[r].frag
    /\ event[r] \in Writing => "act" \in ask[r].frag

\* No instance of r, in the entity or in a copy of it
Clean(r) ==
  /\ r \notin ent.act.inst
  /\ \A q \in Caller : r \notin ask[q].seen.act.inst /\ r \notin carried[q].act.inst

TraceInv == \A r \in Caller : (ask[r].pc \in Ended /\ "act" \in ask[r].frag) \/ Clean(r)

BridgeInv == BridgeTypes /\ OrderInv /\ FragInv /\ TraceInv

BridgeStep(r) == RequestBegins(r) \/ RequestRuns(r) \/ Refusal(r) \/ PluginThread(r) \/ PluginCalls(r)

LEMMA EmptyFacts == Empty \in Entity /\ Empty.act.inst = {} /\ Nobody \in Someone /\ Caller \subseteq Someone
BY DEF Empty, Entity, Someone

CallerPc == {"idle", "send", "wait", "await", "failed", "read", "write"} \cup Ended

\* What a step makes of a request's record is one
LEMMA AskEdits ==
  ASSUME NEW q \in AskRecord
  PROVE  /\ \A a \in Bound : SentOne(q, a) \in AskRecord /\ NotTaken(q, a) \in AskRecord
         /\ \A a \in Bound : [SentOne(q, a) EXCEPT !.replied = TRUE] \in AskRecord
         /\ \A a \in Bound : \A p \in CallerPc : [NotTaken(q, a) EXCEPT !.pc = p] \in AskRecord
         /\ \A p \in CallerPc : /\ [q EXCEPT !.pc = p] \in AskRecord
                          /\ [q EXCEPT !.pc = p, !.queued = TRUE] \in AskRecord
                          /\ [q EXCEPT !.pc = p, !.queued = TRUE, !.seen = Empty] \in AskRecord
                          /\ [q EXCEPT !.todo = {}, !.frag = {}, !.pc = p] \in AskRecord
                          /\ \A e \in Entity : [q EXCEPT !.pc = p, !.seen = e] \in AskRecord
                          /\ [Idle EXCEPT !.pc = p, !.frag = q.frag] \in AskRecord
<1>1. \A p \in CallerPc : [q EXCEPT !.pc = p] \in AskRecord BY DEF AskRecord, CallerPc
<1>2. \A x \in AskRecord : [x EXCEPT !.queued = TRUE] \in AskRecord BY DEF AskRecord
<1>3. \A p \in CallerPc : [q EXCEPT !.pc = p, !.queued = TRUE] \in AskRecord BY DEF AskRecord, CallerPc
<1>4. \A p \in CallerPc : [q EXCEPT !.pc = p, !.queued = TRUE, !.seen = Empty] \in AskRecord BY EmptyFacts DEF AskRecord, CallerPc
<1>5. \A p \in CallerPc : [q EXCEPT !.todo = {}, !.frag = {}, !.pc = p] \in AskRecord BY DEF AskRecord, CallerPc
<1>6. \A p \in CallerPc : \A e \in Entity : [q EXCEPT !.pc = p, !.seen = e] \in AskRecord BY DEF AskRecord, CallerPc
<1>7. \A p \in CallerPc : [Idle EXCEPT !.pc = p, !.frag = q.frag] \in AskRecord BY EmptyFacts DEF AskRecord, CallerPc, Idle
<1>8. \A a \in Bound : SentOne(q, a) \in AskRecord BY DEF AskRecord, SentOne
<1>9. \A a \in Bound : [SentOne(q, a) EXCEPT !.replied = TRUE] \in AskRecord BY DEF AskRecord, SentOne
<1>10. \A a \in Bound : NotTaken(q, a) \in AskRecord
  <2> TAKE a \in Bound
  <2>1. CASE q.several BY <2>1 DEF AskRecord, NotTaken
  <2>2. CASE ~q.several BY <2>2 DEF AskRecord, NotTaken
  <2> QED BY <2>1, <2>2
<1>11. \A a \in Bound : \A p \in CallerPc : [NotTaken(q, a) EXCEPT !.pc = p] \in AskRecord
  <2> TAKE a \in Bound
  <2> TAKE p \in CallerPc
  <2>1. NotTaken(q, a) \in AskRecord BY <1>10
  <2> QED BY <2>1 DEF AskRecord, CallerPc
<1> QED BY <1>1, <1>3, <1>4, <1>5, <1>6, <1>7, <1>8, <1>9, <1>10, <1>11

\* What a step makes of a goal's record is one
LEMMA GoalEdits ==
  ASSUME NEW g \in GoalRecord
  PROVE  /\ NoGoal \in GoalRecord /\ [NoGoal EXCEPT !.in = TRUE, !.held = TRUE] \in GoalRecord
         /\ [g EXCEPT !.held = FALSE] \in GoalRecord /\ [g EXCEPT !.held = FALSE, !.endPending = FALSE] \in GoalRecord
         /\ \A f \in {"accepted", "refused", "over"} : [g EXCEPT !.first = f] \in GoalRecord
         /\ \A b \in BOOLEAN : [g EXCEPT !.first = "none", !.endPending = b] \in GoalRecord
BY DEF GoalRecord, NoGoal

LEMMA GoalSame ==
  ASSUME NEW g \in GoalRecord, NEW h \in GoalRecord,
         g.in = h.in, g.held = h.held, g.first = h.first, g.endPending = h.endPending
  PROVE  g = h
BY DEF GoalRecord

\* Releasing no goal changes nothing
LEMMA NoGoalKept == [NoGoal EXCEPT !.held = FALSE, !.endPending = FALSE] = NoGoal
<1> DEFINE g == [NoGoal EXCEPT !.held = FALSE, !.endPending = FALSE]
<1>1. g \in GoalRecord /\ NoGoal \in GoalRecord BY DEF NoGoal, GoalRecord
<1>2. g.in = NoGoal.in /\ g.held = NoGoal.held /\ g.first = NoGoal.first /\ g.endPending = NoGoal.endPending
  BY DEF NoGoal
<1> HIDE DEF g
<1>3. g = NoGoal BY <1>1, <1>2, GoalSame
<1> QED BY <1>3 DEF g

\* What is written to the entity is an entity
LEMMA EntityEdits ==
  ASSUME NEW r \in Caller, NEW e \in Entity
  PROVE  /\ [e EXCEPT !.act.inst = @ \ {r}] \in Entity
         /\ \A f \in Entity : [f EXCEPT !.act = [e.act EXCEPT !.inst = @ \cup {r}]] \in Entity
         /\ \A f \in Entity : [f EXCEPT !.svc = [val |-> e.svc.val, reply |-> r]] \in Entity
<1>1. r \in Someone BY DEF Someone
<1> QED BY <1>1 DEF Entity

LEMMA FragmentTypes ==
  ASSUME BridgeTypes, NEW r \in Caller
  PROVE  FragmentWritten(r) \in Entity
<1>1. r \in Someone /\ Nobody \in Someone BY DEF Someone
<1>2. ask[r].seen \in Entity /\ ent \in Entity BY DEF BridgeTypes, AskRecord
<1> DEFINE q == ask[r]
           s == IF "svc" \notin q.frag THEN ent.svc
                ELSE [val |-> r, reply |-> IF q.replied THEN r ELSE IF q.route = "merge" THEN q.seen.svc.reply ELSE Nobody]
           a == IF "act" \notin q.frag THEN ent.act ELSE [val |-> r, inst |-> q.seen.act.inst \cup {r}]
<1>3. s \in [val : Someone, reply : Someone] BY <1>1, <1>2 DEF Entity
<1>4. a \in [val : Someone, inst : SUBSET Caller] BY <1>1, <1>2 DEF Entity
<1>5. FragmentWritten(r) = [svc |-> s, act |-> a] BY DEF FragmentWritten
<1> HIDE DEF s, a
<1> QED BY <1>3, <1>4, <1>5 DEF Entity

\* Every step keeps the types
LEMMA TypesStep ==
  ASSUME BridgeTypes, NEW r \in Caller, BridgeStep(r)
  PROVE  BridgeTypes'
<1>a. /\ ask[r] \in AskRecord /\ goal[r] \in GoalRecord /\ ent \in Entity /\ carried[r] \in Entity /\ Empty \in Entity
      /\ r \in Someone /\ Nobody \in Someone
      /\ {"wait", "await", "read", "failed", "hook", "release", "releaseGoal", "done", "write"} \subseteq CallerPc
      /\ {"svc", "act", "top"} = Bound
  BY EmptyFacts DEF BridgeTypes, CallerPc, Ended, After, Bound, Someone
<1>b. /\ \A q \in AskRecord : Ask(r, q) => ask' \in [Caller -> AskRecord]
      /\ \A g \in GoalRecord : goal' = [goal EXCEPT ![r] = g] => goal' \in [Caller -> GoalRecord]
      /\ \A e \in Entity : carried' = [carried EXCEPT ![r] = e] => carried' \in [Caller -> Entity]
  BY DEF BridgeTypes, Ask
<1>c. GoalUnlink(r) => goal' \in [Caller -> GoalRecord]
  BY <1>a, <1>b, GoalEdits DEF GoalUnlink
<1>1. ASSUME NEW attrs \in SUBSET Bound, NEW route \in {"set", "merge"}, NEW mayWait \in BOOLEAN, BridgeRequestsBeforeWrite(r, attrs, route, mayWait) PROVE BridgeTypes'
  <2>1. [Idle EXCEPT !.pc = "send", !.todo = attrs, !.frag = attrs, !.route = route,
          !.several = Cardinality(attrs) > 1, !.wait = mayWait /\ Cardinality(attrs) = 1] \in AskRecord
    <3> DEFINE b == Cardinality(attrs) > 1
               c == mayWait /\ Cardinality(attrs) = 1
    <3>1. b \in BOOLEAN /\ c \in BOOLEAN OBVIOUS
    <3> HIDE DEF b, c
    <3>2. [Idle EXCEPT !.pc = "send", !.todo = attrs, !.frag = attrs, !.route = route, !.several = b, !.wait = c] \in AskRecord
      <4>1. Idle \in AskRecord BY EmptyFacts DEF Idle, AskRecord
      <4>2. \A q \in AskRecord : [q EXCEPT !.pc = "send", !.todo = attrs, !.frag = attrs, !.route = route,
                                           !.several = b, !.wait = c] \in AskRecord
        BY <3>1 DEF AskRecord
      <4> QED BY <4>1, <4>2
    <3> QED BY <3>2 DEF b, c
  <2>2. ask' \in [Caller -> AskRecord] BY <1>1, <2>1, <1>b DEF BridgeRequestsBeforeWrite
  <2> QED BY <1>1, <2>2 DEF BridgeRequestsBeforeWrite, BridgeTypes, replyVars, goalVars
<1>2. ASSUME NEW a \in Bound, SendFails(r, a) PROVE BridgeTypes'
  <2>1. ask' \in [Caller -> AskRecord] BY <1>2, <1>a, <1>b, AskEdits DEF SendFails
  <2> QED BY <1>2, <1>a, <1>b, <1>c, <2>1 DEF SendFails, BridgeTypes, replyVars, goalVars
<1>3. CASE PublishTopic(r)
  <2>1. ask' \in [Caller -> AskRecord] BY <1>3, <1>a, <1>b, AskEdits DEF PublishTopic
  <2> QED BY <1>3, <1>a, <1>b, <1>c, <2>1 DEF PublishTopic, BridgeTypes, replyVars, goalVars
<1>4. CASE MergedValueRefused(r)
  <2>1. ask' \in [Caller -> AskRecord] BY <1>4, <1>a, <1>b, AskEdits DEF MergedValueRefused
  <2> QED BY <1>4, <1>a, <1>b, <1>c, <2>1 DEF MergedValueRefused, BridgeTypes, replyVars, goalVars
<1>5. CASE SendUnwaited(r)
  <2>1. ask' \in [Caller -> AskRecord] BY <1>5, <1>a, <1>b, AskEdits DEF SendUnwaited
  <2> QED BY <1>5, <1>a, <1>b, <1>c, <2>1 DEF SendUnwaited, BridgeTypes, replyVars, goalVars
<1>6. CASE SyncInvoke(r)
  <2>1. ask' \in [Caller -> AskRecord] BY <1>6, <1>a, <1>b, AskEdits DEF SyncInvoke
  <2> QED BY <1>6, <1>a, <1>b, <1>c, <2>1 DEF SyncInvoke, BridgeTypes, replyVars, goalVars
<1>7. CASE SyncReplied(r)
  <2>1. ask' \in [Caller -> AskRecord] BY <1>7, <1>a, <1>b, AskEdits DEF SyncReplied
  <2> QED BY <1>7, <1>a, <1>b, <1>c, <2>1 DEF SyncReplied, BridgeTypes, replyVars, goalVars
<1>8. CASE SyncTimedOut(r)
  <2>1. ask' \in [Caller -> AskRecord] BY <1>8, <1>a, <1>b, AskEdits DEF SyncTimedOut
  <2> QED BY <1>8, <1>a, <1>b, <1>c, <2>1 DEF SyncTimedOut, BridgeTypes, replyVars, goalVars
<1>9. CASE BridgeGoalSend(r)
  <2>1. ask' \in [Caller -> AskRecord] BY <1>9, <1>a, <1>b, AskEdits DEF BridgeGoalSend
  <2>2. goal' \in [Caller -> GoalRecord] BY <1>9, <1>a, <1>b, GoalEdits DEF BridgeGoalSend
  <2> QED BY <1>9, <2>1, <2>2 DEF BridgeGoalSend, BridgeTypes, replyVars
<1>10. CASE BridgeRequestsAwait(r)
  <2>1. ask' \in [Caller -> AskRecord] BY <1>10, <1>a, <1>b, AskEdits DEF BridgeRequestsAwait
  <2> QED BY <1>10, <1>a, <1>b, <1>c, <2>1 DEF BridgeRequestsAwait, BridgeTypes, replyVars, goalVars
<1>11. CASE GoalTaken(r)
  <2>1. ask' \in [Caller -> AskRecord] BY <1>11, <1>a, <1>b, AskEdits DEF GoalTaken
  <2>2. (goal[r].first = "over") \in BOOLEAN OBVIOUS
  <2>3. goal' \in [Caller -> GoalRecord]
    <3> DEFINE b == (goal[r].first = "over")
               g == [goal[r] EXCEPT !.first = "none", !.endPending = b]
    <3>1. g \in GoalRecord BY <1>a, <2>2, GoalEdits
    <3>2. goal' = [goal EXCEPT ![r] = g] BY <1>11 DEF GoalTaken
    <3> HIDE DEF g
    <3> QED BY <3>1, <3>2, <1>b
  <2> QED BY <1>11, <2>1, <2>3 DEF GoalTaken, BridgeTypes, replyVars
<1>12. CASE GoalNotTaken(r)
  <2>1. ask' \in [Caller -> AskRecord] BY <1>12, <1>a, <1>b, AskEdits DEF GoalNotTaken
  <2>2. goal' \in [Caller -> GoalRecord] /\ UNCHANGED goalMutex BY <1>12, <1>c DEF GoalNotTaken, GoalDrop
  <2> QED BY <1>12, <2>1, <2>2 DEF GoalNotTaken, BridgeTypes, replyVars
<1>13. CASE RequestsFailed(r)
  <2>1. ask' \in [Caller -> AskRecord] BY <1>13, <1>a, <1>b, AskEdits DEF RequestsFailed
  <2>2. goal' \in [Caller -> GoalRecord] /\ UNCHANGED goalMutex BY <1>13, <1>c DEF RequestsFailed, GoalDrop, BridgeTypes
  <2> QED BY <1>13, <2>1, <2>2 DEF RequestsFailed, BridgeTypes, replyVars
<1>14. CASE ReadEntity(r)
  <2>1. ask' \in [Caller -> AskRecord] BY <1>14, <1>a, <1>b, AskEdits DEF ReadEntity
  <2> QED BY <1>14, <1>a, <1>b, <1>c, <2>1 DEF ReadEntity, BridgeTypes, replyVars, goalVars
<1>15. CASE MergeRefused(r)
  <2>1. ask' \in [Caller -> AskRecord] BY <1>15, <1>a, <1>b, AskEdits DEF MergeRefused
  <2> QED BY <1>15, <1>a, <1>b, <1>c, <2>1 DEF MergeRefused, BridgeTypes, replyVars, goalVars
<1>16. CASE WriteEntity(r)
  <2>1. ask' \in [Caller -> AskRecord] BY <1>16, <1>a, <1>b, AskEdits DEF WriteEntity
  <2>2. ent' \in Entity BY <1>16, FragmentTypes DEF WriteEntity
  <2> QED BY <1>16, <2>1, <2>2 DEF WriteEntity, BridgeRequestsWritten, BridgeTypes
<1>17. CASE WriteFails(r)
  <2>1. ask' \in [Caller -> AskRecord] BY <1>17, <1>a, <1>b, AskEdits DEF WriteFails
  <2> QED BY <1>17, <1>a, <1>b, <1>c, <2>1 DEF WriteFails, BridgeTypes, replyVars, goalVars, BridgeRequestsWritten
<1>18. CASE NotifyDispatchPending(r)
  <2>1. ask' \in [Caller -> AskRecord] BY <1>18, <1>a, <1>b, AskEdits DEF NotifyDispatchPending
  <2> QED BY <1>18, <1>a, <1>b, <1>c, <2>1 DEF NotifyDispatchPending, BridgeTypes, replyVars, goalVars
<1>19. CASE DetachedRelease(r)
  <2>1. ask' \in [Caller -> AskRecord] BY <1>19, <1>a, <1>b, AskEdits DEF DetachedRelease
  <2> QED BY <1>19, <1>a, <1>b, <1>c, <2>1 DEF DetachedRelease, BridgeTypes, replyVars, goalVars
<1>20. CASE BridgeGoalRelease(r)
  <2>1. ask' \in [Caller -> AskRecord] BY <1>20, <1>a, <1>b, AskEdits DEF BridgeGoalRelease
  <2>2. goal' = [goal EXCEPT ![r] = [goal[r] EXCEPT !.held = FALSE, !.endPending = FALSE]] BY <1>20 DEF BridgeGoalRelease
  <2>3. goal' \in [Caller -> GoalRecord] BY <2>2, <1>a, <1>b, GoalEdits
  <2> QED BY <1>20, <2>1, <2>3 DEF BridgeGoalRelease, BridgeTypes, replyVars, Writing
<1>21. CASE ReplyIn(r) BY <1>21, <1>a DEF ReplyIn, BridgeTypes, goalVars, requestVars
<1>22. CASE ReplyReleased(r) BY <1>22, <1>a DEF ReplyReleased, BridgeTypes, goalVars, requestVars
<1>23. CASE ReplyFind(r) BY <1>23, <1>a DEF ReplyFind, BridgeTypes, goalVars, requestVars
<1>24. CASE ReplyLand(r)
  <2>1. ent' \in Entity BY <1>24, <1>a, EntityEdits DEF ReplyLand
  <2> QED BY <1>24, <1>a, <1>b, <2>1 DEF ReplyLand, BridgeTypes, goalVars, requestVars
<1>25. CASE FirstEvent(r)
  <2>1. goal' \in [Caller -> GoalRecord]
    <3>1. CASE UNCHANGED goal BY <3>1 DEF BridgeTypes
    <3>2. ASSUME NEW f \in {"accepted", "refused", "over"}, goal' = [goal EXCEPT ![r].first = f] PROVE goal' \in [Caller -> GoalRecord]
      <4>1. goal' = [goal EXCEPT ![r] = [goal[r] EXCEPT !.first = f]] BY <3>2
      <4> QED BY <4>1, <1>a, <1>b, GoalEdits
    <3> QED BY <1>25, <3>1, <3>2 DEF FirstEvent
  <2> QED BY <1>25, <2>1 DEF FirstEvent, BridgeTypes, replyVars, requestVars
<1>26. ASSUME NEW final \in BOOLEAN, GoalEvent(r, final) PROVE BridgeTypes'
  BY <1>26, <1>a DEF GoalEvent, BridgeTypes, replyVars, requestVars, Writing
<1>27. CASE GoalEventWoken(r)
  <2>1. goal' \in [Caller -> GoalRecord]
    <3>1. CASE UNCHANGED goal BY <3>1 DEF BridgeTypes
    <3>2. CASE goal' = [goal EXCEPT ![r].held = FALSE]
      <4>1. goal' = [goal EXCEPT ![r] = [goal[r] EXCEPT !.held = FALSE]] BY <3>2
      <4> QED BY <4>1, <1>a, <1>b, GoalEdits
    <3> QED BY <1>27, <3>1, <3>2 DEF GoalEventWoken
  <2> QED BY <1>27, <1>a, <2>1 DEF GoalEventWoken, BridgeTypes, replyVars, requestVars, Writing
<1>28. CASE BridgeGoalFind(r) BY <1>28, <1>a, <1>b DEF BridgeGoalFind, BridgeTypes, replyVars, requestVars, Writing
<1>29. CASE GoalEventUnwritten(r) BY <1>29, <1>a DEF GoalEventUnwritten, BridgeTypes, replyVars, requestVars, Writing
<1>30. CASE BridgeGoalWrite(r)
  <2>1. ent' \in Entity BY <1>30, <1>a, EntityEdits DEF BridgeGoalWrite
  <2> QED BY <1>30, <1>a, <1>b, <2>1 DEF BridgeGoalWrite, BridgeTypes, replyVars, requestVars, Writing
<1>31. CASE GoalEndThread(r) BY <1>31, <1>a DEF GoalEndThread, BridgeTypes, replyVars, requestVars, Writing
<1>32. CASE GoalInstanceFind(r)
  <2>1. CASE r \in ent.act.inst
    BY <1>32, <1>a, <1>b, <2>1 DEF GoalInstanceFind, BridgeTypes, replyVars, requestVars, Writing
  <2>2. CASE r \notin ent.act.inst
    BY <1>32, <1>a, <1>c, <2>2 DEF GoalInstanceFind, GoalEnded, BridgeTypes, replyVars, requestVars
  <2> QED BY <2>1, <2>2
<1>33. CASE GoalInstanceRemove(r)
  <2>1. ent' \in Entity BY <1>33, <1>a, EntityEdits DEF GoalInstanceRemove
  <2> QED BY <1>33, <1>a, <1>b, <1>c, <2>1 DEF GoalInstanceRemove, GoalEnded, BridgeTypes, replyVars, requestVars
<1> QED BY <1>1, <1>2, <1>3, <1>4, <1>5, <1>6, <1>7, <1>8, <1>9, <1>10, <1>11, <1>12, <1>13, <1>14, <1>15, <1>16, <1>17, <1>18, <1>19, <1>20, <1>21, <1>22, <1>23, <1>24, <1>25, <1>26, <1>27, <1>28, <1>29, <1>30, <1>31, <1>32, <1>33 DEF BridgeStep, RequestBegins, RequestRuns, Refusal, PluginThread, PluginCalls

\* Every step keeps the order
LEMMA OrderStep ==
  ASSUME BridgeTypes, OrderInv, NEW r \in Caller, BridgeStep(r)
  PROVE  OrderInv'
<1> USE DEF BridgeTypes, AskRecord, GoalRecord, OrderInv, After, Ended, Writing, requestVars, replyVars, goalVars, Ask, MutexFree
<1>1. ASSUME NEW attrs \in SUBSET Bound, NEW route \in {"set", "merge"}, NEW mayWait \in BOOLEAN, BridgeRequestsBeforeWrite(r, attrs, route, mayWait) PROVE OrderInv'
  BY <1>1 DEF BridgeRequestsBeforeWrite, Idle
<1>2. ASSUME NEW a \in Bound, SendFails(r, a) PROVE OrderInv'
  BY <1>2 DEF SendFails, Sending, NotTaken
<1>3. CASE PublishTopic(r) BY <1>3 DEF PublishTopic, Sending, SentOne
<1>4. CASE MergedValueRefused(r) BY <1>4 DEF MergedValueRefused, Sending
<1>5. CASE SendUnwaited(r) BY <1>5 DEF SendUnwaited, Sending, SentOne
<1>6. CASE SyncInvoke(r) BY <1>6 DEF SyncInvoke, Sending
<1>7. CASE SyncReplied(r)
  <2>1. ask[r].pc = "wait" /\ waiter' = [waiter EXCEPT ![r] = "none"]
        /\ UNCHANGED <<ent, reply, goal, event, carried, told>>
    BY <1>7 DEF SyncReplied
  <2>2. CASE Ask(r, [SentOne(ask[r], "svc") EXCEPT !.replied = TRUE]) BY <2>1, <2>2 DEF SentOne
  <2>3. CASE Ask(r, NotTaken(ask[r], "svc")) BY <2>1, <2>3 DEF NotTaken
  <2> QED BY <1>7, <2>2, <2>3 DEF SyncReplied
<1>8. CASE SyncTimedOut(r) BY <1>8 DEF SyncTimedOut, SentOne
<1>9. CASE BridgeGoalSend(r) BY <1>9 DEF BridgeGoalSend, Sending, SentOne, NoGoal
<1>10. CASE BridgeRequestsAwait(r) BY <1>10 DEF BridgeRequestsAwait
<1>11. CASE GoalTaken(r)
  <2>1. goal[r].in BY <1>11 DEF GoalTaken, NoGoal
  <2>2. goal'[r].in = goal[r].in /\ goal'[r].held = goal[r].held /\ \A q \in Caller \ {r} : goal'[q] = goal[q]
    BY <1>11 DEF GoalTaken
  <2>3. ask'[r].pc = "read" /\ ask[r].pc = "await" /\ \A q \in Caller \ {r} : ask'[q] = ask[q]
    BY <1>11 DEF GoalTaken
  <2> QED BY <1>11, <2>1, <2>2, <2>3 DEF GoalTaken
<1>12. CASE GoalNotTaken(r)
  <2>1. goal' = [goal EXCEPT ![r] = NoGoal] BY <1>12 DEF GoalNotTaken, GoalUnlink, GoalDrop
  <2>2. goal'[r] = NoGoal /\ ~NoGoal.in /\ \A q \in Caller \ {r} : goal'[q] = goal[q] BY <2>1 DEF NoGoal
  <2>3. ask'[r].pc \in {"read", "failed"} /\ ask[r].pc = "await" /\ \A q \in Caller \ {r} : ask'[q] = ask[q]
    BY <1>12 DEF GoalNotTaken, NotTaken
  <2> QED BY <1>12, <2>2, <2>3 DEF GoalNotTaken
<1>13. CASE RequestsFailed(r)
  <2>1. goal' = [goal EXCEPT ![r] = NoGoal] \/ goal' = goal BY <1>13 DEF RequestsFailed, GoalUnlink, GoalDrop
  <2>2. (goal'[r] = NoGoal \/ goal'[r] = goal[r]) /\ ~NoGoal.in /\ \A q \in Caller \ {r} : goal'[q] = goal[q]
    BY <2>1 DEF NoGoal
  <2>3. ask'[r].pc = "hook" /\ ask[r].pc = "failed" /\ \A q \in Caller \ {r} : ask'[q] = ask[q]
    BY <1>13 DEF RequestsFailed
  <2> QED BY <1>13, <2>2, <2>3 DEF RequestsFailed
<1>14. CASE ReadEntity(r) BY <1>14 DEF ReadEntity
<1>15. CASE MergeRefused(r) BY <1>15 DEF MergeRefused
<1>16. CASE WriteEntity(r) BY <1>16 DEF WriteEntity, BridgeRequestsWritten, FragmentWritten, Empty
<1>17. CASE WriteFails(r) BY <1>17 DEF WriteFails, BridgeRequestsWritten, Empty
<1>18. CASE NotifyDispatchPending(r) BY <1>18 DEF NotifyDispatchPending, Idle, Empty
<1>19. CASE DetachedRelease(r) BY <1>19 DEF DetachedRelease
<1>20. CASE BridgeGoalRelease(r)
  <2>a. goal' = [goal EXCEPT ![r] = [goal[r] EXCEPT !.held = FALSE, !.endPending = FALSE]] BY <1>20 DEF BridgeGoalRelease
  <2>b. [NoGoal EXCEPT !.held = FALSE, !.endPending = FALSE] = NoGoal BY NoGoalKept
  <2>1. goal'[r].in = goal[r].in /\ (~goal[r].in => goal'[r] = NoGoal) /\ \A q \in Caller \ {r} : goal'[q] = goal[q]
    <3>1. goal'[r] = [goal[r] EXCEPT !.held = FALSE, !.endPending = FALSE] /\ \A q \in Caller \ {r} : goal'[q] = goal[q]
      BY <2>a
    <3>2. goal'[r].in = goal[r].in BY <3>1
    <3>3. ASSUME ~goal[r].in PROVE goal'[r] = NoGoal
      <4>1. goal[r] = NoGoal BY <3>3
      <4> QED BY <4>1, <3>1, <2>b
    <3> QED BY <3>1, <3>2, <3>3
  <2>2. ask'[r].pc = "done" /\ ask[r].pc = "releaseGoal" /\ r \in told /\ \A q \in Caller \ {r} : ask'[q] = ask[q]
    BY <1>20 DEF BridgeGoalRelease
  <2>3. \A q \in Caller : event'[q] \in Writing => q \in told BY <1>20, <2>2 DEF BridgeGoalRelease
  <2>4. UNCHANGED <<waiter, reply, told>> BY <1>20 DEF BridgeGoalRelease
  <2> QED BY <2>1, <2>2, <2>3, <2>4
<1>21. CASE ReplyIn(r) BY <1>21 DEF ReplyIn
<1>22. CASE ReplyReleased(r) BY <1>22, BridgeAssumption DEF ReplyReleased, OutOfPatience
<1>23. CASE ReplyFind(r) BY <1>23 DEF ReplyFind
<1>24. CASE ReplyLand(r) BY <1>24 DEF ReplyLand, Empty
<1>25. CASE FirstEvent(r)
  <2>1. CASE ~goal[r].in BY <1>25, <2>1 DEF FirstEvent
  <2>2. ASSUME goal[r].in, NEW f \in {"accepted", "refused", "over"}, goal' = [goal EXCEPT ![r].first = f],
               event' = [event EXCEPT ![r] = IF f = "over" THEN "none" ELSE "more"]
        PROVE OrderInv'
    BY <1>25, <2>2 DEF FirstEvent
  <2> QED BY <1>25, <2>1, <2>2 DEF FirstEvent
<1>26. ASSUME NEW final \in BOOLEAN, GoalEvent(r, final) PROVE OrderInv'
  BY <1>26 DEF GoalEvent
<1>27. CASE GoalEventWoken(r) BY <1>27 DEF GoalEventWoken
<1>28. CASE BridgeGoalFind(r) BY <1>28 DEF BridgeGoalFind
<1>29. CASE GoalEventUnwritten(r) BY <1>29 DEF GoalEventUnwritten
<1>30. CASE BridgeGoalWrite(r) BY <1>30 DEF BridgeGoalWrite, Empty
<1>31. CASE GoalEndThread(r) BY <1>31 DEF GoalEndThread
<1>32. CASE GoalInstanceFind(r)
  <2>1. CASE r \in ent.act.inst BY <1>32, <2>1 DEF GoalInstanceFind
  <2>2. CASE r \notin ent.act.inst
    <3>1. goal' = [goal EXCEPT ![r] = NoGoal] /\ event' = [event EXCEPT ![r] = "none"]
          /\ UNCHANGED <<ent, ask, waiter, reply, carried, told>>
      BY <1>32, <2>2 DEF GoalInstanceFind, GoalEnded, GoalUnlink
    <3> QED BY <3>1 DEF NoGoal
  <2> QED BY <2>1, <2>2
<1>33. CASE GoalInstanceRemove(r) BY <1>33 DEF GoalInstanceRemove, GoalEnded, GoalUnlink, NoGoal, Empty
<1> HIDE DEF BridgeTypes, OrderInv
<1> QED BY <1>1, <1>2, <1>3, <1>4, <1>5, <1>6, <1>7, <1>8, <1>9, <1>10, <1>11, <1>12, <1>13, <1>14, <1>15, <1>16, <1>17, <1>18, <1>19, <1>20, <1>21, <1>22, <1>23, <1>24, <1>25, <1>26, <1>27, <1>28, <1>29, <1>30, <1>31, <1>32, <1>33 DEF BridgeStep, RequestBegins, RequestRuns, Refusal, PluginThread, PluginCalls

\* Every step keeps goals and events with their request
LEMMA FragStep ==
  ASSUME BridgeTypes, OrderInv, FragInv, NEW r \in Caller, BridgeStep(r)
  PROVE  FragInv'
<1> USE DEF BridgeTypes, AskRecord, GoalRecord, OrderInv, FragInv, After, Ended, Writing, requestVars, replyVars, goalVars, Ask, MutexFree
<1>1. ASSUME NEW attrs \in SUBSET Bound, NEW route \in {"set", "merge"}, NEW mayWait \in BOOLEAN, BridgeRequestsBeforeWrite(r, attrs, route, mayWait) PROVE FragInv'
  BY <1>1 DEF BridgeRequestsBeforeWrite, Idle
<1>2. ASSUME NEW a \in Bound, SendFails(r, a) PROVE FragInv'
  <2>1. UNCHANGED <<goal, event>> /\ ask[r].pc = "send" /\ r \notin told BY <1>2 DEF SendFails, Sending
  <2>2. CASE ask[r].several BY <1>2, <2>1, <2>2 DEF SendFails, Sending, NotTaken
  <2>3. CASE ~ask[r].several BY <1>2, <2>1, <2>3 DEF SendFails, Sending, NotTaken
  <2> QED BY <2>2, <2>3
<1>3. CASE PublishTopic(r) BY <1>3 DEF PublishTopic, Sending, SentOne
<1>4. CASE MergedValueRefused(r) BY <1>4 DEF MergedValueRefused, Sending
<1>5. CASE SendUnwaited(r) BY <1>5 DEF SendUnwaited, Sending, SentOne
<1>6. CASE SyncInvoke(r) BY <1>6 DEF SyncInvoke, Sending
<1>7. CASE SyncReplied(r)
  <2>1. ask[r].pc = "wait" /\ waiter' = [waiter EXCEPT ![r] = "none"]
        /\ UNCHANGED <<ent, reply, goal, event, carried, told>>
    BY <1>7 DEF SyncReplied
  <2>2. CASE Ask(r, [SentOne(ask[r], "svc") EXCEPT !.replied = TRUE]) BY <2>1, <2>2 DEF SentOne
  <2>3. CASE Ask(r, NotTaken(ask[r], "svc")) BY <2>1, <2>3 DEF NotTaken
  <2> QED BY <1>7, <2>2, <2>3 DEF SyncReplied
<1>8. CASE SyncTimedOut(r) BY <1>8 DEF SyncTimedOut, SentOne
<1>9. CASE BridgeGoalSend(r) BY <1>9 DEF BridgeGoalSend, Sending, SentOne, NoGoal
<1>10. CASE BridgeRequestsAwait(r) BY <1>10 DEF BridgeRequestsAwait
<1>11. CASE GoalTaken(r) BY <1>11 DEF GoalTaken
<1>12. CASE GoalNotTaken(r)
  <2>1. goal' = [goal EXCEPT ![r] = NoGoal] /\ ~NoGoal.in BY <1>12 DEF GoalNotTaken, GoalUnlink, GoalDrop, NoGoal
  <2>2. ~goal'[r].in /\ \A q \in Caller \ {r} : goal'[q] = goal[q] BY <2>1
  <2>3. event' = event /\ event[r] \notin Writing BY <1>12 DEF GoalNotTaken
  <2>4. CASE ask[r].several BY <1>12, <2>2, <2>3, <2>4 DEF GoalNotTaken, NotTaken
  <2>5. CASE ~ask[r].several BY <1>12, <2>2, <2>3, <2>5 DEF GoalNotTaken, NotTaken
  <2> QED BY <2>4, <2>5
<1>13. CASE RequestsFailed(r) BY <1>13 DEF RequestsFailed, GoalUnlink, GoalDrop, NoGoal
<1>14. CASE ReadEntity(r) BY <1>14 DEF ReadEntity
<1>15. CASE MergeRefused(r) BY <1>15 DEF MergeRefused
<1>16. CASE WriteEntity(r) BY <1>16 DEF WriteEntity, BridgeRequestsWritten, FragmentWritten, Empty
<1>17. CASE WriteFails(r) BY <1>17 DEF WriteFails, BridgeRequestsWritten, Empty
<1>18. CASE NotifyDispatchPending(r) BY <1>18 DEF NotifyDispatchPending, Idle, Empty
<1>19. CASE DetachedRelease(r) BY <1>19 DEF DetachedRelease
<1>20. CASE BridgeGoalRelease(r) BY <1>20 DEF BridgeGoalRelease
<1>21. CASE ReplyIn(r) BY <1>21 DEF ReplyIn
<1>22. CASE ReplyReleased(r) BY <1>22 DEF ReplyReleased
<1>23. CASE ReplyFind(r) BY <1>23 DEF ReplyFind
<1>24. CASE ReplyLand(r) BY <1>24 DEF ReplyLand, Empty
<1>25. CASE FirstEvent(r) BY <1>25 DEF FirstEvent
<1>26. ASSUME NEW final \in BOOLEAN, GoalEvent(r, final) PROVE FragInv'
  BY <1>26 DEF GoalEvent
<1>27. CASE GoalEventWoken(r) BY <1>27 DEF GoalEventWoken
<1>28. CASE BridgeGoalFind(r) BY <1>28 DEF BridgeGoalFind
<1>29. CASE GoalEventUnwritten(r) BY <1>29 DEF GoalEventUnwritten
<1>30. CASE BridgeGoalWrite(r) BY <1>30 DEF BridgeGoalWrite, Empty
<1>31. CASE GoalEndThread(r) BY <1>31 DEF GoalEndThread
<1>32. CASE GoalInstanceFind(r) BY <1>32 DEF GoalInstanceFind, GoalEnded, GoalUnlink, NoGoal
<1>33. CASE GoalInstanceRemove(r) BY <1>33 DEF GoalInstanceRemove, GoalEnded, GoalUnlink, NoGoal, Empty
<1> HIDE DEF BridgeTypes, OrderInv, FragInv
<1> QED BY <1>1, <1>2, <1>3, <1>4, <1>5, <1>6, <1>7, <1>8, <1>9, <1>10, <1>11, <1>12, <1>13, <1>14, <1>15, <1>16, <1>17, <1>18, <1>19, <1>20, <1>21, <1>22, <1>23, <1>24, <1>25, <1>26, <1>27, <1>28, <1>29, <1>30, <1>31, <1>32, <1>33 DEF BridgeStep, RequestBegins, RequestRuns, Refusal, PluginThread, PluginCalls

\* No step makes an instance for a goal that was not taken
LEMMA TraceStep ==
  ASSUME BridgeTypes, OrderInv, FragInv, TraceInv, BridgeTypes', NEW r \in Caller, BridgeStep(r)
  PROVE  TraceInv'
<1> USE EmptyFacts DEF BridgeTypes, AskRecord, GoalRecord, OrderInv, FragInv, TraceInv, Clean, After, Ended, Writing, Entity, requestVars, replyVars, goalVars, Ask, MutexFree
<1>1. ASSUME NEW attrs \in SUBSET Bound, NEW route \in {"set", "merge"}, NEW mayWait \in BOOLEAN, BridgeRequestsBeforeWrite(r, attrs, route, mayWait) PROVE TraceInv'
  BY <1>1 DEF BridgeRequestsBeforeWrite, Idle
<1>2. ASSUME NEW a \in Bound, SendFails(r, a) PROVE TraceInv'
  BY <1>2 DEF SendFails, Sending, NotTaken
<1>3. CASE PublishTopic(r) BY <1>3 DEF PublishTopic, Sending, SentOne
<1>4. CASE MergedValueRefused(r) BY <1>4 DEF MergedValueRefused, Sending
<1>5. CASE SendUnwaited(r) BY <1>5 DEF SendUnwaited, Sending, SentOne
<1>6. CASE SyncInvoke(r) BY <1>6 DEF SyncInvoke, Sending
<1>7. CASE SyncReplied(r)
  <2>1. ask[r].pc = "wait" /\ waiter' = [waiter EXCEPT ![r] = "none"]
        /\ UNCHANGED <<ent, reply, goal, event, carried, told>>
    BY <1>7 DEF SyncReplied
  <2>2. CASE Ask(r, [SentOne(ask[r], "svc") EXCEPT !.replied = TRUE]) BY <2>1, <2>2 DEF SentOne
  <2>3. CASE Ask(r, NotTaken(ask[r], "svc")) BY <2>1, <2>3 DEF NotTaken
  <2> QED BY <1>7, <2>2, <2>3 DEF SyncReplied
<1>8. CASE SyncTimedOut(r) BY <1>8 DEF SyncTimedOut, SentOne
<1>9. CASE BridgeGoalSend(r) BY <1>9 DEF BridgeGoalSend, Sending, SentOne, NoGoal
<1>10. CASE BridgeRequestsAwait(r) BY <1>10 DEF BridgeRequestsAwait
<1>11. CASE GoalTaken(r) BY <1>11 DEF GoalTaken
<1>12. CASE GoalNotTaken(r) BY <1>12 DEF GoalNotTaken, NotTaken, GoalUnlink, GoalDrop, NoGoal
<1>13. CASE RequestsFailed(r) BY <1>13 DEF RequestsFailed, GoalUnlink, GoalDrop, NoGoal
<1>14. CASE ReadEntity(r) BY <1>14 DEF ReadEntity
<1>15. CASE MergeRefused(r) BY <1>15 DEF MergeRefused
<1>16. CASE WriteEntity(r) BY <1>16 DEF WriteEntity, BridgeRequestsWritten, FragmentWritten, Empty
<1>17. CASE WriteFails(r) BY <1>17 DEF WriteFails, BridgeRequestsWritten, Empty
<1>18. CASE NotifyDispatchPending(r) BY <1>18 DEF NotifyDispatchPending, Idle, Empty
<1>19. CASE DetachedRelease(r) BY <1>19 DEF DetachedRelease
<1>20. CASE BridgeGoalRelease(r) BY <1>20 DEF BridgeGoalRelease
<1>21. CASE ReplyIn(r) BY <1>21 DEF ReplyIn
<1>22. CASE ReplyReleased(r) BY <1>22 DEF ReplyReleased
<1>23. CASE ReplyFind(r) BY <1>23 DEF ReplyFind
<1>24. CASE ReplyLand(r) BY <1>24 DEF ReplyLand, Empty
<1>25. CASE FirstEvent(r) BY <1>25 DEF FirstEvent
<1>26. ASSUME NEW final \in BOOLEAN, GoalEvent(r, final) PROVE TraceInv'
  BY <1>26 DEF GoalEvent
<1>27. CASE GoalEventWoken(r) BY <1>27 DEF GoalEventWoken
<1>28. CASE BridgeGoalFind(r) BY <1>28 DEF BridgeGoalFind
<1>29. CASE GoalEventUnwritten(r) BY <1>29 DEF GoalEventUnwritten
<1>30. CASE BridgeGoalWrite(r) BY <1>30 DEF BridgeGoalWrite, Empty
<1>31. CASE GoalEndThread(r) BY <1>31 DEF GoalEndThread
<1>32. CASE GoalInstanceFind(r)
  <2>1. CASE r \in ent.act.inst
    <3>1. carried' = [carried EXCEPT ![r] = ent] /\ UNCHANGED <<ent, ask>> BY <1>32, <2>1 DEF GoalInstanceFind
    <3>2. \A q \in Caller : Clean(q) => Clean(q)' BY <3>1
    <3> QED BY <3>1, <3>2
  <2>2. CASE r \notin ent.act.inst
    <3>1. goal' = [goal EXCEPT ![r] = NoGoal] /\ event' = [event EXCEPT ![r] = "none"]
          /\ UNCHANGED <<ent, ask, waiter, reply, carried, told>>
      BY <1>32, <2>2 DEF GoalInstanceFind, GoalEnded, GoalUnlink
    <3> QED BY <3>1 DEF NoGoal
  <2> QED BY <2>1, <2>2
<1>33. CASE GoalInstanceRemove(r) BY <1>33 DEF GoalInstanceRemove, GoalEnded, GoalUnlink, NoGoal, Empty
<1> HIDE DEF BridgeTypes, OrderInv, FragInv, TraceInv
<1> QED BY <1>1, <1>2, <1>3, <1>4, <1>5, <1>6, <1>7, <1>8, <1>9, <1>10, <1>11, <1>12, <1>13, <1>14, <1>15, <1>16, <1>17, <1>18, <1>19, <1>20, <1>21, <1>22, <1>23, <1>24, <1>25, <1>26, <1>27, <1>28, <1>29, <1>30, <1>31, <1>32, <1>33 DEF BridgeStep, RequestBegins, RequestRuns, Refusal, PluginThread, PluginCalls

LEMMA BridgeInvariant == BridgeInit /\ [][BridgeNext]_bridgeVars => []BridgeInv
<1>1. BridgeInit => BridgeInv
  <2> SUFFICES ASSUME BridgeInit PROVE BridgeInv OBVIOUS
  <2>1. Idle \in AskRecord /\ NoGoal \in GoalRecord
    BY EmptyFacts DEF Idle, NoGoal, AskRecord, GoalRecord, Ended
  <2>2. BridgeTypes BY <2>1, EmptyFacts DEF BridgeInit, BridgeTypes
  <2>3. OrderInv BY DEF BridgeInit, OrderInv, Idle, NoGoal, After, Writing
  <2>4. FragInv BY DEF BridgeInit, FragInv, Idle, NoGoal, Writing
  <2>5. TraceInv BY EmptyFacts DEF BridgeInit, TraceInv, Clean, Idle
  <2> QED BY <2>2, <2>3, <2>4, <2>5 DEF BridgeInv
<1>2. BridgeInv /\ [BridgeNext]_bridgeVars => BridgeInv'
  <2> SUFFICES ASSUME BridgeInv, [BridgeNext]_bridgeVars PROVE BridgeInv' OBVIOUS
  <2>1. CASE UNCHANGED bridgeVars
    BY <2>1 DEF bridgeVars, BridgeInv, BridgeTypes, OrderInv, FragInv, TraceInv, Clean
  <2>2. CASE BridgeNext
    <3>1. PICK r \in Caller : BridgeStep(r) BY <2>2 DEF BridgeNext, BridgeStep
    <3>2. BridgeTypes' BY <3>1, TypesStep DEF BridgeInv
    <3> QED BY <3>1, <3>2, OrderStep, FragStep, TraceStep DEF BridgeInv
  <2> QED BY <2>1, <2>2
<1> QED BY <1>1, <1>2, PTL

\* A service's late reply and a goal's later events come after the request's own write and notifications
\* (bridgeRequestsWritten, bridgeGoalRelease) - where no request may wait longer than a reply is held
THEOREM AnswersComeAfter ==
  ASSUME ~LongWait
  PROVE  BridgeSpec => []RequestBeforeItsAnswers
<1>1. BridgeInv => RequestBeforeItsAnswers
  BY DEF BridgeInv, OrderInv, RequestBeforeItsAnswers, Writing
<1> QED BY <1>1, BridgeInvariant, PTL DEF BridgeSpec

\* A goal refused, not answered in time or abandoned never gets an instance, whatever it says later and
\* whoever writes the entity back from an earlier read (goalDrop, bridgeGoalAbandon)
THEOREM NoTraceLeft == BridgeSpec => []RefusedLeavesNoTrace
<1>1. BridgeInv => RefusedLeavesNoTrace
  BY DEF BridgeInv, TraceInv, Clean, RefusedLeavesNoTrace, Ended, After
<1> QED BY <1>1, BridgeInvariant, PTL DEF BridgeSpec

\* The requests that wait for a service
Waits == {r \in Caller : ask[r].pc = "wait"}
Held == {"find", "findLast", "write", "writeLast", "end", "remove"}

\* Each has a slot of the cap, and nobody else has
WaitInv == IsFiniteSet(Waits) /\ waitingNow = Cardinality(Waits) /\ waitingNow <= WaitMax

\* The mutex is held from the look of an event to its write, or to the end of its goal
HeldInv == orphan \subseteq Caller /\ dbFault \in 0..MaxDbFault /\ (goalMutex # Nobody => event[goalMutex] \in Held)

\* Nobody starts or stops waiting
WaitsSame == UNCHANGED waitingNow /\ \A p \in Caller : ask'[p].pc = "wait" <=> ask[p].pc = "wait"

LEMMA WaitKept ==
  ASSUME WaitInv, WaitsSame
  PROVE  WaitInv'
<1>1. Waits' = Waits BY DEF WaitsSame, Waits
<1> QED BY <1>1 DEF WaitInv, WaitsSame

\* A slot given back was one of those taken
LEMMA WaitGiven ==
  ASSUME NEW r \in Caller, WaitInv, WaitSlotGive, ask[r].pc = "wait", ask'[r].pc # "wait",
         \A p \in Caller \ {r} : ask'[p] = ask[p]
  PROVE  WaitInv'
<1>1. Waits' = Waits \ {r} /\ r \in Waits BY DEF Waits
<1> DEFINE W == Waits
           V == Waits \ {r}
<1>2. IsFiniteSet(W) /\ r \in W /\ Cardinality(W) \in Nat BY <1>1, FS_CardinalityType DEF WaitInv
<1>3. IsFiniteSet(V) /\ Cardinality(V) = Cardinality(W) - 1 BY <1>2, FS_RemoveElement
<1>4. waitingNow' = Cardinality(V) BY <1>3 DEF WaitInv, WaitSlotGive
<1>5. waitingNow' <= WaitMax BY <1>2, BridgeAssumption DEF WaitInv, WaitSlotGive
<1>6. Waits' = V BY <1>1
<1> HIDE DEF V
<1> QED BY <1>3, <1>4, <1>5, <1>6 DEF WaitInv

\* And the one that is taken is free
LEMMA WaitTaken ==
  ASSUME NEW r \in Caller, WaitInv, waitingNow < WaitMax, waitingNow' = waitingNow + 1, ask[r].pc # "wait", ask'[r].pc = "wait",
         \A p \in Caller \ {r} : ask'[p] = ask[p]
  PROVE  WaitInv'
<1>1. Waits' = Waits \cup {r} /\ r \notin Waits BY DEF Waits
<1> DEFINE W == Waits
           V == Waits \cup {r}
<1>2. IsFiniteSet(W) /\ r \notin W /\ Cardinality(W) \in Nat BY <1>1, FS_CardinalityType DEF WaitInv
<1>3. IsFiniteSet(V) /\ Cardinality(V) = Cardinality(W) + 1 BY <1>2, FS_AddElement
<1>4. waitingNow' = Cardinality(V) BY <1>3 DEF WaitInv
<1>5. waitingNow' <= WaitMax BY <1>2, BridgeAssumption DEF WaitInv
<1>6. Waits' = V BY <1>1
<1> HIDE DEF V
<1> QED BY <1>3, <1>4, <1>5, <1>6 DEF WaitInv

\* A request waits for a service with that one attribute alone: several are sent without a wait
AloneInv == \A p \in Caller : (ask[p].wait => ~ask[p].several) /\ (ask[p].pc = "wait" => ask[p].wait)

LEMMA AloneStep ==
  ASSUME BridgeTypes, AloneInv, NEW r \in Caller, BridgeStep(r)
  PROVE  AloneInv'
<1>a. ask \in [Caller -> AskRecord] BY DEF BridgeTypes
<1> USE <1>a DEF AskRecord, Ask, AloneInv, requestVars
<1>1. ASSUME NEW attrs \in SUBSET Bound, NEW route \in {"set", "merge"}, NEW mayWait \in BOOLEAN, BridgeRequestsBeforeWrite(r, attrs, route, mayWait) PROVE AloneInv'
  <2> DEFINE n == Cardinality(attrs)
  <2>1. ask' = [ask EXCEPT ![r] = [Idle EXCEPT !.pc = "send", !.todo = attrs, !.frag = attrs, !.route = route,
                                               !.several = n > 1, !.wait = mayWait /\ n = 1]]
    BY <1>1 DEF BridgeRequestsBeforeWrite
  <2> HIDE DEF n
  <2>2. ask'[r].pc = "send" /\ ask'[r].several = (n > 1) /\ ask'[r].wait = (mayWait /\ n = 1) BY <2>1 DEF Idle
  <2>3. \A p \in Caller \ {r} : ask'[p] = ask[p] BY <2>1
  <2>4. ask'[r].wait => ~ask'[r].several BY <2>2
  <2> QED BY <2>2, <2>3, <2>4
<1>2. ASSUME NEW a \in Bound, SendFails(r, a) PROVE AloneInv' BY <1>2 DEF SendFails, Sending, NotTaken
<1>3. CASE PublishTopic(r) BY <1>3 DEF PublishTopic, Sending, SentOne
<1>4. CASE MergedValueRefused(r) BY <1>4 DEF MergedValueRefused, Sending
<1>5. CASE SendUnwaited(r) BY <1>5 DEF SendUnwaited, Sending, SentOne
<1>6. CASE SyncInvoke(r) BY <1>6 DEF SyncInvoke, Sending
<1>7. CASE SyncReplied(r)
  <2>1. CASE Ask(r, [SentOne(ask[r], "svc") EXCEPT !.replied = TRUE]) BY <2>1 DEF SentOne
  <2>2. CASE Ask(r, NotTaken(ask[r], "svc"))
    <3>1. CASE ask[r].several BY <2>2, <3>1 DEF NotTaken
    <3>2. CASE ~ask[r].several BY <2>2, <3>2 DEF NotTaken
    <3> QED BY <3>1, <3>2
  <2> QED BY <1>7, <2>1, <2>2 DEF SyncReplied
<1>8. CASE SyncTimedOut(r) BY <1>8 DEF SyncTimedOut, SentOne
<1>9. CASE BridgeGoalSend(r) BY <1>9 DEF BridgeGoalSend, Sending, SentOne
<1>10. CASE BridgeRequestsAwait(r) BY <1>10 DEF BridgeRequestsAwait
<1>11. CASE GoalTaken(r) BY <1>11 DEF GoalTaken
<1>12. CASE GoalNotTaken(r) BY <1>12 DEF GoalNotTaken, NotTaken
<1>13. CASE RequestsFailed(r) BY <1>13 DEF RequestsFailed
<1>14. CASE ReadEntity(r) BY <1>14 DEF ReadEntity
<1>15. CASE MergeRefused(r) BY <1>15 DEF MergeRefused
<1>16. CASE WriteEntity(r) BY <1>16 DEF WriteEntity, Empty
<1>17. CASE WriteFails(r) BY <1>17 DEF WriteFails, Empty
<1>18. CASE NotifyDispatchPending(r) BY <1>18 DEF NotifyDispatchPending, Idle
<1>19. CASE DetachedRelease(r) BY <1>19 DEF DetachedRelease
<1>20. CASE BridgeGoalRelease(r) BY <1>20 DEF BridgeGoalRelease
<1>21. CASE UNCHANGED requestVars BY <1>21
<1>c. PluginThread(r) \/ PluginCalls(r) => UNCHANGED requestVars
  BY DEF PluginThread, PluginCalls, BridgeGoalFind, BridgeGoalWrite, FirstEvent, GoalEndThread, GoalEvent, GoalEventUnwritten, GoalEventWoken, GoalInstanceFind, GoalInstanceRemove, ReplyFind, ReplyIn, ReplyLand, ReplyReleased
<1> HIDE DEF AskRecord, Ask, AloneInv, requestVars
<1> QED BY <1>c, <1>1, <1>2, <1>3, <1>4, <1>5, <1>6, <1>7, <1>8, <1>9, <1>10, <1>11, <1>12, <1>13, <1>14, <1>15, <1>16, <1>17, <1>18, <1>19, <1>20, <1>21 DEF BridgeStep, RequestBegins, RequestRuns, Refusal

\* Every step keeps the count of the slots
LEMMA WaitStep ==
  ASSUME BridgeTypes, AloneInv, WaitInv, NEW r \in Caller, BridgeStep(r)
  PROVE  WaitInv'
<1>a. WaitsSame => WaitInv' BY WaitKept
<1>b. ask \in [Caller -> AskRecord] BY DEF BridgeTypes
<1> USE <1>b DEF AskRecord, Ask, WaitsSame, requestVars
<1>1. ASSUME NEW attrs \in SUBSET Bound, NEW route \in {"set", "merge"}, NEW mayWait \in BOOLEAN, BridgeRequestsBeforeWrite(r, attrs, route, mayWait) PROVE WaitsSame
  BY <1>1 DEF BridgeRequestsBeforeWrite, Idle
<1>2. ASSUME NEW a \in Bound, SendFails(r, a) PROVE WaitsSame BY <1>2 DEF SendFails, Sending, NotTaken
<1>3. ASSUME PublishTopic(r) PROVE WaitsSame BY <1>3 DEF PublishTopic, Sending, SentOne
<1>4. ASSUME MergedValueRefused(r) PROVE WaitsSame BY <1>4 DEF MergedValueRefused, Sending
<1>5. ASSUME SendUnwaited(r) PROVE WaitsSame BY <1>5 DEF SendUnwaited, Sending, SentOne
<1>6. ASSUME SyncInvoke(r) PROVE WaitInv'
  <2>1. waitingNow < WaitMax /\ waitingNow' = waitingNow + 1 BY <1>6 DEF SyncInvoke
  <2>2. ask[r].pc # "wait" /\ ask'[r].pc = "wait" /\ \A p \in Caller \ {r} : ask'[p] = ask[p] BY <1>6 DEF SyncInvoke, Sending
  <2> QED BY <2>1, <2>2, WaitTaken
<1>7. ASSUME SyncReplied(r) PROVE WaitInv'
  <2>1. ask[r].pc = "wait" /\ WaitSlotGive BY <1>7 DEF SyncReplied
  <2>2. CASE Ask(r, [SentOne(ask[r], "svc") EXCEPT !.replied = TRUE])
    <3>1. ask'[r].pc # "wait" /\ \A p \in Caller \ {r} : ask'[p] = ask[p] BY <2>2 DEF SentOne
    <3> QED BY <2>1, <3>1, WaitGiven
  <2>3. CASE Ask(r, NotTaken(ask[r], "svc"))
    \* Only a request for one attribute waits: it fails
    <3>1. ask'[r].pc # "wait" /\ \A p \in Caller \ {r} : ask'[p] = ask[p] BY <2>1, <2>3 DEF NotTaken, AloneInv
    <3> QED BY <2>1, <3>1, WaitGiven
  <2> QED BY <1>7, <2>2, <2>3 DEF SyncReplied
<1>8. ASSUME SyncTimedOut(r) PROVE WaitInv'
  <2>1. ask[r].pc = "wait" /\ WaitSlotGive BY <1>8 DEF SyncTimedOut
  <2>2. ask'[r].pc # "wait" /\ \A p \in Caller \ {r} : ask'[p] = ask[p] BY <1>8 DEF SyncTimedOut, SentOne
  <2> QED BY <2>1, <2>2, WaitGiven
<1>9. ASSUME BridgeGoalSend(r) PROVE WaitsSame BY <1>9 DEF BridgeGoalSend, Sending, SentOne
<1>10. ASSUME BridgeRequestsAwait(r) PROVE WaitsSame BY <1>10 DEF BridgeRequestsAwait
<1>11. ASSUME GoalTaken(r) PROVE WaitsSame BY <1>11 DEF GoalTaken
<1>12. ASSUME GoalNotTaken(r) PROVE WaitsSame BY <1>12 DEF GoalNotTaken, NotTaken
<1>13. ASSUME RequestsFailed(r) PROVE WaitsSame BY <1>13 DEF RequestsFailed
<1>14. ASSUME ReadEntity(r) PROVE WaitsSame BY <1>14 DEF ReadEntity
<1>15. ASSUME MergeRefused(r) PROVE WaitsSame BY <1>15 DEF MergeRefused
<1>16. ASSUME WriteEntity(r) PROVE WaitsSame BY <1>16 DEF WriteEntity
<1>17. ASSUME WriteFails(r) PROVE WaitsSame BY <1>17 DEF WriteFails
<1>18. ASSUME NotifyDispatchPending(r) PROVE WaitsSame BY <1>18 DEF NotifyDispatchPending, Idle
<1>19. ASSUME DetachedRelease(r) PROVE WaitsSame BY <1>19 DEF DetachedRelease
<1>20. ASSUME BridgeGoalRelease(r) PROVE WaitsSame BY <1>20 DEF BridgeGoalRelease
<1>21. ASSUME UNCHANGED requestVars PROVE WaitsSame BY <1>21
<1>c. PluginThread(r) \/ PluginCalls(r) => UNCHANGED requestVars
  BY DEF PluginThread, PluginCalls, BridgeGoalFind, BridgeGoalWrite, FirstEvent, GoalEndThread, GoalEvent, GoalEventUnwritten, GoalEventWoken, GoalInstanceFind, GoalInstanceRemove, ReplyFind, ReplyIn, ReplyLand, ReplyReleased
<1> HIDE DEF AskRecord, Ask, WaitsSame, requestVars
<1> QED BY <1>a, <1>c, <1>1, <1>2, <1>3, <1>4, <1>5, <1>6, <1>7, <1>8, <1>9, <1>10, <1>11, <1>12, <1>13, <1>14, <1>15, <1>16, <1>17, <1>18, <1>19, <1>20, <1>21 DEF BridgeStep, RequestBegins, RequestRuns, Refusal

\* Every step keeps the mutex with an event that is written, or a goal that ends
LEMMA HeldStep ==
  ASSUME BridgeTypes, HeldInv, NEW r \in Caller, BridgeStep(r)
  PROVE  HeldInv'
<1>a. /\ event \in [Caller -> {"none", "first", "more", "held", "heldLast"} \cup Writing] /\ goalMutex \in Someone
      /\ r \in Someone /\ Nobody \notin Caller
  BY BridgeAssumption DEF BridgeTypes, Someone
<1> DEFINE Counts == orphan' \subseteq Caller /\ dbFault' \in 0..MaxDbFault
           Mutex == goalMutex' # Nobody => event'[goalMutex'] \in Held
<1>b. Counts /\ Mutex => HeldInv' BY DEF HeldInv
<1>c. UNCHANGED <<orphan, dbFault>> => Counts BY DEF HeldInv
<1>d. UNCHANGED <<event, goalMutex>> => Mutex BY DEF HeldInv
<1>e. UNCHANGED requestVars => Counts BY <1>c DEF requestVars
<1>f. UNCHANGED goalVars => Mutex BY <1>d DEF goalVars
<1> HIDE DEF Counts, Mutex
<1>1. ASSUME NEW attrs \in SUBSET Bound, NEW route \in {"set", "merge"}, NEW mayWait \in BOOLEAN, BridgeRequestsBeforeWrite(r, attrs, route, mayWait) PROVE Counts /\ Mutex
  BY <1>1, <1>c, <1>f DEF BridgeRequestsBeforeWrite
<1>2. ASSUME NEW a \in Bound, SendFails(r, a) PROVE Counts /\ Mutex BY <1>2, <1>c, <1>f DEF SendFails
<1>3. ASSUME PublishTopic(r) PROVE Counts /\ Mutex
  <2>1. Counts BY <1>3, <1>c DEF PublishTopic
  <2>2. Mutex BY <1>3, <1>f DEF PublishTopic
  <2> QED BY <2>1, <2>2
<1>4. ASSUME MergedValueRefused(r) PROVE Counts /\ Mutex
  <2>1. Counts BY <1>4, <1>c DEF MergedValueRefused
  <2>2. Mutex BY <1>4, <1>f DEF MergedValueRefused
  <2> QED BY <2>1, <2>2
<1>5. ASSUME SendUnwaited(r) PROVE Counts /\ Mutex
  <2>1. Counts BY <1>5, <1>c DEF SendUnwaited
  <2>2. Mutex BY <1>5, <1>f DEF SendUnwaited
  <2> QED BY <2>1, <2>2
<1>6. ASSUME SyncInvoke(r) PROVE Counts /\ Mutex
  <2>1. Counts BY <1>6, <1>c DEF SyncInvoke
  <2>2. Mutex BY <1>6, <1>f DEF SyncInvoke
  <2> QED BY <2>1, <2>2
<1>7. ASSUME SyncReplied(r) PROVE Counts /\ Mutex
  <2>1. Counts BY <1>7, <1>c DEF SyncReplied
  <2>2. Mutex BY <1>7, <1>f DEF SyncReplied
  <2> QED BY <2>1, <2>2
<1>8. ASSUME SyncTimedOut(r) PROVE Counts /\ Mutex
  <2>1. Counts BY <1>8, <1>c DEF SyncTimedOut
  <2>2. Mutex BY <1>8, <1>f DEF SyncTimedOut
  <2> QED BY <2>1, <2>2
<1>9. ASSUME BridgeGoalSend(r) PROVE Counts /\ Mutex
  <2>1. Counts BY <1>9, <1>c DEF BridgeGoalSend
  <2>2. Mutex BY <1>9, <1>a DEF BridgeGoalSend, MutexFree, Mutex, HeldInv, Held
  <2> QED BY <2>1, <2>2
<1>10. ASSUME BridgeRequestsAwait(r) PROVE Counts /\ Mutex
  <2>1. Counts BY <1>10, <1>c DEF BridgeRequestsAwait
  <2>2. Mutex BY <1>10, <1>f DEF BridgeRequestsAwait
  <2> QED BY <2>1, <2>2
<1>11. ASSUME GoalTaken(r) PROVE Counts /\ Mutex
  <2>1. Counts BY <1>11, <1>c DEF GoalTaken
  <2>2. Mutex BY <1>11, <1>d DEF GoalTaken
  <2> QED BY <2>1, <2>2
<1>12. ASSUME GoalNotTaken(r) PROVE Counts /\ Mutex
  <2>1. Counts BY <1>12, <1>c DEF GoalNotTaken
  <2>2. Mutex BY <1>12, <1>d DEF GoalNotTaken, GoalDrop, goalVars
  <2> QED BY <2>1, <2>2
<1>13. ASSUME RequestsFailed(r) PROVE Counts /\ Mutex
  <2>1. Counts BY <1>13, <1>c DEF RequestsFailed
  <2>2. Mutex BY <1>13, <1>d DEF RequestsFailed, GoalDrop, goalVars
  <2> QED BY <2>1, <2>2
<1>14. ASSUME ReadEntity(r) PROVE Counts /\ Mutex
  <2>1. Counts BY <1>14, <1>c DEF ReadEntity
  <2>2. Mutex BY <1>14, <1>f DEF ReadEntity
  <2> QED BY <2>1, <2>2
<1>15. ASSUME MergeRefused(r) PROVE Counts /\ Mutex
  <2>1. Counts BY <1>15, <1>c DEF MergeRefused
  <2>2. Mutex BY <1>15, <1>f DEF MergeRefused
  <2> QED BY <2>1, <2>2
<1>16. ASSUME WriteEntity(r) PROVE Counts /\ Mutex
  <2>1. Counts
    <3>1. ask[r].seen.act.inst \subseteq Caller BY DEF BridgeTypes, AskRecord, Entity
    <3> QED BY <1>16, <3>1 DEF WriteEntity, HeldInv, Counts
  <2>2. Mutex BY <1>16, <1>d DEF WriteEntity
  <2> QED BY <2>1, <2>2
<1>17. ASSUME WriteFails(r) PROVE Counts /\ Mutex
  <2>1. Counts BY <1>17, BridgeAssumption DEF WriteFails, HeldInv, Counts
  <2>2. Mutex BY <1>17, <1>d DEF WriteFails
  <2> QED BY <2>1, <2>2
<1>18. ASSUME NotifyDispatchPending(r) PROVE Counts /\ Mutex
  <2>1. Counts BY <1>18, <1>c DEF NotifyDispatchPending
  <2>2. Mutex BY <1>18, <1>f DEF NotifyDispatchPending
  <2> QED BY <2>1, <2>2
<1>19. ASSUME DetachedRelease(r) PROVE Counts /\ Mutex
  <2>1. Counts BY <1>19, <1>c DEF DetachedRelease
  <2>2. Mutex BY <1>19, <1>f DEF DetachedRelease
  <2> QED BY <2>1, <2>2
<1>20. ASSUME BridgeGoalRelease(r) PROVE Counts /\ Mutex
  <2>1. Counts BY <1>20, <1>c DEF BridgeGoalRelease
  <2>2. Mutex BY <1>20, <1>a DEF BridgeGoalRelease, MutexFree, Mutex, HeldInv, Held
  <2> QED BY <2>1, <2>2
<1>21. ASSUME ReplyIn(r) PROVE Counts /\ Mutex
  <2>1. Counts BY <1>21, <1>e DEF ReplyIn
  <2>2. Mutex BY <1>21, <1>f DEF ReplyIn
  <2> QED BY <2>1, <2>2
<1>22. ASSUME ReplyReleased(r) PROVE Counts /\ Mutex
  <2>1. Counts BY <1>22, <1>e DEF ReplyReleased
  <2>2. Mutex BY <1>22, <1>f DEF ReplyReleased
  <2> QED BY <2>1, <2>2
<1>23. ASSUME ReplyFind(r) PROVE Counts /\ Mutex
  <2>1. Counts BY <1>23, <1>e DEF ReplyFind
  <2>2. Mutex BY <1>23, <1>f DEF ReplyFind
  <2> QED BY <2>1, <2>2
<1>24. ASSUME ReplyLand(r) PROVE Counts /\ Mutex
  <2>1. Counts BY <1>24, <1>e DEF ReplyLand
  <2>2. Mutex BY <1>24, <1>f DEF ReplyLand
  <2> QED BY <2>1, <2>2
<1>25. ASSUME FirstEvent(r) PROVE Counts /\ Mutex
  <2>1. Counts BY <1>25, <1>e DEF FirstEvent
  <2>2. Mutex BY <1>25, <1>a DEF FirstEvent, MutexFree, Mutex, HeldInv, Held
  <2> QED BY <2>1, <2>2
<1>26. ASSUME NEW final \in BOOLEAN, GoalEvent(r, final) PROVE Counts /\ Mutex
  <2>1. Counts BY <1>26, <1>e DEF GoalEvent
  <2>2. Mutex BY <1>26, <1>a DEF GoalEvent, MutexFree, Mutex, HeldInv, Held
  <2> QED BY <2>1, <2>2
<1>27. ASSUME GoalEventWoken(r) PROVE Counts /\ Mutex
  <2>1. Counts BY <1>27, <1>e DEF GoalEventWoken
  <2>2. Mutex BY <1>27, <1>a DEF GoalEventWoken, MutexFree, Mutex, HeldInv, Held
  <2> QED BY <2>1, <2>2
<1>28. ASSUME BridgeGoalFind(r) PROVE Counts /\ Mutex
  <2>1. Counts BY <1>28, <1>e DEF BridgeGoalFind
  <2>2. Mutex BY <1>28, <1>a DEF BridgeGoalFind, MutexFree, Mutex, HeldInv, Held
  <2> QED BY <2>1, <2>2
<1>29. ASSUME GoalEventUnwritten(r) PROVE Counts /\ Mutex
  <2>1. Counts BY <1>29, <1>e DEF GoalEventUnwritten
  <2>2. Mutex BY <1>29, <1>a DEF GoalEventUnwritten, MutexFree, Mutex, HeldInv, Held
  <2> QED BY <2>1, <2>2
<1>30. ASSUME BridgeGoalWrite(r) PROVE Counts /\ Mutex
  <2>1. Counts BY <1>30, <1>e DEF BridgeGoalWrite
  <2>2. Mutex BY <1>30, <1>a DEF BridgeGoalWrite, MutexFree, Mutex, HeldInv, Held
  <2> QED BY <2>1, <2>2
<1>31. ASSUME GoalEndThread(r) PROVE Counts /\ Mutex
  <2>1. Counts BY <1>31, <1>e DEF GoalEndThread
  <2>2. Mutex BY <1>31, <1>a DEF GoalEndThread, MutexFree, Mutex, HeldInv, Held
  <2> QED BY <2>1, <2>2
<1>32. ASSUME GoalInstanceFind(r) PROVE Counts /\ Mutex
  <2>1. Counts BY <1>32, <1>e DEF GoalInstanceFind
  <2>2. Mutex BY <1>32, <1>a DEF GoalInstanceFind, MutexFree, Mutex, GoalEnded, HeldInv, Held
  <2> QED BY <2>1, <2>2
<1>33. ASSUME GoalInstanceRemove(r) PROVE Counts /\ Mutex
  <2>1. Counts BY <1>33, <1>e DEF GoalInstanceRemove
  <2>2. Mutex BY <1>33, <1>a DEF GoalInstanceRemove, MutexFree, Mutex, GoalEnded, HeldInv, Held
  <2> QED BY <2>1, <2>2
<1> QED BY <1>b, <1>1, <1>2, <1>3, <1>4, <1>5, <1>6, <1>7, <1>8, <1>9, <1>10, <1>11, <1>12, <1>13, <1>14, <1>15, <1>16, <1>17, <1>18, <1>19, <1>20, <1>21, <1>22, <1>23, <1>24, <1>25, <1>26, <1>27, <1>28, <1>29, <1>30, <1>31, <1>32, <1>33 DEF BridgeStep, RequestBegins, RequestRuns, Refusal, PluginThread, PluginCalls

LEMMA BridgeTypesAlways == BridgeInit /\ [][BridgeNext]_bridgeVars => []BridgeTypeOK
<1>1. BridgeInit => AloneInv /\ WaitInv /\ HeldInv
  <2> SUFFICES ASSUME BridgeInit PROVE AloneInv /\ WaitInv /\ HeldInv OBVIOUS
  <2>1. Waits = {} BY DEF BridgeInit, Waits, Idle
  <2>2. WaitInv BY <2>1, FS_EmptySet, BridgeAssumption DEF BridgeInit, WaitInv
  <2>4. AloneInv BY DEF BridgeInit, AloneInv, Idle
  <2>3. HeldInv BY BridgeAssumption DEF BridgeInit, HeldInv
  <2> QED BY <2>2, <2>3, <2>4
<1>2. BridgeInv /\ AloneInv /\ WaitInv /\ HeldInv /\ [BridgeNext]_bridgeVars => (AloneInv /\ WaitInv /\ HeldInv)'
  <2> SUFFICES ASSUME BridgeInv, AloneInv, WaitInv, HeldInv, [BridgeNext]_bridgeVars PROVE (AloneInv /\ WaitInv /\ HeldInv)' OBVIOUS
  <2>1. CASE UNCHANGED bridgeVars BY <2>1 DEF bridgeVars, AloneInv, WaitInv, HeldInv, Waits
  <2>2. CASE BridgeNext
    <3>1. PICK r \in Caller : BridgeStep(r) BY <2>2 DEF BridgeNext, BridgeStep
    <3> QED BY <3>1, AloneStep, WaitStep, HeldStep DEF BridgeInv
  <2> QED BY <2>1, <2>2
<1>3. BridgeInv /\ AloneInv /\ WaitInv /\ HeldInv => BridgeTypeOK
  BY DEF BridgeInv, BridgeTypes, GoalRecord, WaitInv, Waits, HeldInv, Held, BridgeTypeOK
<1> QED BY <1>1, <1>2, <1>3, BridgeInvariant, PTL

\* Types of the bridge's requests; the waits for a service are counted (WAIT_SLOT), whichever of a reply and
\* the time limit ends one, and never more than bridgeSyncWaitMax; the goals' mutex is never left to an event
\* that is over (bridgeGoalEvent, goalEnd)
THEOREM BridgeTypesCorrect == BridgeSpec => []BridgeTypeOK
BY BridgeTypesAlways, PTL DEF BridgeSpec

-----------------------------------------------------------------------------
(* The pool of connections *)
Creating == {"ensure", "publish", "unlock"}
Before == {"rest", "lock", "ensure", "publish"}
PermitPc == {"pool", "scan", "pick", "connect", "use", "free", "post"}

\* The mutex is held from the second look to the unlock; a pool built is published, or about to be
CreateShape ==
  /\ \A t \in PoolThread : getter[t].pc \in Creating <=> createMutex = t
  /\ built \in {0, 1}
  /\ built = 1 => troePoolP \/ \E t \in PoolThread : getter[t].pc = "publish"
  /\ \A t \in PoolThread : getter[t].pc = "publish" => ~troePoolP
  /\ \A t \in PoolThread : getter[t].pc \notin Before => troePoolP

\* Types but for the range of the queue semaphore
PoolTypes ==
  /\ troePoolP \in BOOLEAN /\ createMutex \in PoolThread \cup {NoThread}
  /\ queueSem \in Nat /\ poolSem \in PoolThread \cup {NoThread} /\ poolFault \in 0..MaxPoolFault
  /\ slot \in [Slot -> [busy : BOOLEAN, conn : {"null", "ok", "bad"}]]
  /\ getter \in [PoolThread -> [pc : Pcs, scan : Slot, free : Slot \cup {NoSlot}, cP : Slot \cup {NoSlot}]]

CreateInv == PoolTypes /\ CreateShape

\* The steps of one thread
PoolStep(t) ==
  \/ ConnGet(t) \/ PoolCreateLock(t) \/ PoolEnsure(t) \/ PoolEnsureFails(t) \/ PoolPublish(t) \/ PoolCreateUnlock(t)
  \/ QueueWait(t) \/ PoolExhausted(t) \/ PoolSemWait(t) \/ ScanSlot(t) \/ PickSlot(t)
  \/ ConnHeal(t) \/ ConnHealFails(t) \/ ConnLost(t) \/ ConnRelease(t) \/ SlotGiveBack(t)

LEMMA SlotFacts == 1 \in Slot /\ NoSlot \notin Slot /\ Slot \subseteq Nat
BY PoolAssumption DEF Slot, NoSlot

\* A thread that moves on, a thread that rests, a slot that changes
LEMMA ToTypes ==
  ASSUME PoolTypes, NEW t \in PoolThread
  PROVE  /\ \A pc \in Pcs : [getter EXCEPT ![t].pc = pc] \in [PoolThread -> [pc : Pcs, scan : Slot, free : Slot \cup {NoSlot}, cP : Slot \cup {NoSlot}]]
         /\ [getter EXCEPT ![t] = Resting] \in [PoolThread -> [pc : Pcs, scan : Slot, free : Slot \cup {NoSlot}, cP : Slot \cup {NoSlot}]]
         /\ \A i : \A b \in BOOLEAN : [slot EXCEPT ![i].busy = b] \in [Slot -> [busy : BOOLEAN, conn : {"null", "ok", "bad"}]]
         /\ \A i : \A c \in {"null", "ok", "bad"} : [slot EXCEPT ![i].conn = c] \in [Slot -> [busy : BOOLEAN, conn : {"null", "ok", "bad"}]]
<1> DEFINE G == [pc : Pcs, scan : Slot, free : Slot \cup {NoSlot}, cP : Slot \cup {NoSlot}]
           S == [busy : BOOLEAN, conn : {"null", "ok", "bad"}]
<1>1. \A g \in G : \A pc \in Pcs : [g EXCEPT !.pc = pc] \in G OBVIOUS
<1>2. Resting \in G BY SlotFacts DEF Resting, Pcs
<1>3. \A x \in S : (\A b \in BOOLEAN : [x EXCEPT !.busy = b] \in S) /\ (\A c \in {"null", "ok", "bad"} : [x EXCEPT !.conn = c] \in S)
  OBVIOUS
<1>4. getter \in [PoolThread -> G] /\ slot \in [Slot -> S] BY DEF PoolTypes
<1> HIDE DEF G, S
<1>5. \A pc \in Pcs : [getter EXCEPT ![t].pc = pc] \in [PoolThread -> G] BY <1>1, <1>4
<1>6. [getter EXCEPT ![t] = Resting] \in [PoolThread -> G] BY <1>2, <1>4
<1>7. \A i : \A b \in BOOLEAN : [slot EXCEPT ![i].busy = b] \in [Slot -> S] BY <1>3, <1>4
<1>8. \A i : \A c \in {"null", "ok", "bad"} : [slot EXCEPT ![i].conn = c] \in [Slot -> S] BY <1>3, <1>4
<1> QED BY <1>5, <1>6, <1>7, <1>8 DEF G, S

\* A look at a slot keeps the place a thread is at
LEMMA ScanTypes ==
  ASSUME PoolTypes, NEW t \in PoolThread, ScanSlot(t)
  PROVE  getter' \in [PoolThread -> [pc : Pcs, scan : Slot, free : Slot \cup {NoSlot}, cP : Slot \cup {NoSlot}]]
<1> DEFINE G == [pc : Pcs, scan : Slot, free : Slot \cup {NoSlot}, cP : Slot \cup {NoSlot}]
<1> DEFINE last == getter[t].scan = PoolItems
<1>1. PICK g, i, free :
        g = getter[t] /\ i = g.scan /\ free = IF slot[i].busy \/ g.free # NoSlot THEN g.free ELSE i
  OBVIOUS
<1>10. PICK x : x = IF ~slot[i].busy /\ slot[i].conn = "ok" THEN [g EXCEPT !.cP = i, !.pc = "pick"]
                    ELSE [g EXCEPT !.scan = IF last THEN i ELSE i + 1, !.free = free,
                                   !.cP = IF last THEN free ELSE NoSlot, !.pc = IF last THEN "pick" ELSE "scan"]
  OBVIOUS
<1>11. getter' = [getter EXCEPT ![t] = x]
  BY <1>1, <1>10 DEF ScanSlot
<1>2. g \in G /\ getter \in [PoolThread -> G] BY <1>1 DEF PoolTypes
<1>3. i \in Slot /\ free \in Slot \cup {NoSlot} /\ "pick" \in Pcs /\ "scan" \in Pcs BY <1>1, <1>2 DEF Pcs
<1>4. ~last => i + 1 \in Slot
  <2>1. i \in 1..PoolItems /\ PoolItems \in Nat BY <1>3, PoolAssumption DEF Slot
  <2>2. i # PoolItems => i + 1 \in 1..PoolItems BY <2>1
  <2> QED BY <1>1, <2>2 DEF Slot
<1>5. [g EXCEPT !.cP = i, !.pc = "pick"] \in G BY <1>2, <1>3
<1>6. last => [g EXCEPT !.scan = i, !.free = free, !.cP = free, !.pc = "pick"] \in G BY <1>2, <1>3
<1>7. ~last => [g EXCEPT !.scan = i + 1, !.free = free, !.cP = NoSlot, !.pc = "scan"] \in G BY <1>2, <1>3, <1>4
<1> HIDE DEF G, last
<1>8. x \in G
  <2>1. CASE ~slot[i].busy /\ slot[i].conn = "ok" BY <1>10, <1>5, <2>1
  <2>2. CASE ~(~slot[i].busy /\ slot[i].conn = "ok") /\ last BY <1>10, <1>6, <2>2
  <2>3. CASE ~(~slot[i].busy /\ slot[i].conn = "ok") /\ ~last BY <1>10, <1>7, <2>3
  <2> QED BY <2>1, <2>2, <2>3
<1>9. getter' \in [PoolThread -> G] BY <1>11, <1>2, <1>8
<1> QED BY <1>9 DEF G

\* Every step keeps the types
LEMMA PoolTypesStep == ASSUME PoolTypes, NEW t \in PoolThread, PoolStep(t) PROVE PoolTypes'
<1>p. /\ \A pc \in {"wait", "lock", "ensure", "publish", "unlock", "pool", "scan", "use", "free", "post"} : pc \in Pcs
      /\ PoolItems \in Nat /\ MaxPoolFault \in Nat
  BY PoolAssumption DEF Pcs
<1>q. (PoolEnsureFails(t) \/ ConnHealFails(t) \/ ConnLost(t)) => poolFault + 1 \in 0..MaxPoolFault
  BY PoolAssumption DEF PoolTypes, PoolEnsureFails, ConnHealFails, ConnLost
<1>r. queueSem + 1 \in Nat /\ (QueueWait(t) => queueSem - 1 \in Nat) BY DEF PoolTypes, QueueWait
<1> USE <1>p, SlotFacts, ToTypes DEF PoolTypes, Now, To, Rest, createVars, slotVars
<1>1. CASE ConnGet(t) BY <1>1 DEF ConnGet
<1>2. CASE PoolCreateLock(t) BY <1>2 DEF PoolCreateLock
<1>3. CASE PoolEnsure(t)
  <2>1. \E pc \in Pcs : getter' = [getter EXCEPT ![t].pc = pc]
    BY <1>3 DEF PoolEnsure, PoolEnsureBuild
  <2>2. UNCHANGED <<troePoolP, createMutex, queueSem, poolSem, slot, poolFault>> BY <1>3 DEF PoolEnsure
  <2>3. PICK pc \in Pcs : getter' = [getter EXCEPT ![t].pc = pc] BY <2>1
  <2> QED BY <2>2, <2>3
<1>4. CASE PoolEnsureFails(t)
  <2>1. poolFault + 1 \in 0..MaxPoolFault BY <1>4, <1>q
  <2> QED BY <1>4, <2>1 DEF PoolEnsureFails
<1>5. CASE PoolPublish(t) BY <1>5 DEF PoolPublish
<1>6. CASE PoolCreateUnlock(t) BY <1>6 DEF PoolCreateUnlock
<1>7. CASE QueueWait(t)
  <2>1. queueSem - 1 \in Nat BY <1>7, <1>r
  <2> QED BY <1>7, <2>1 DEF QueueWait
<1>8. CASE PoolExhausted(t) BY <1>8 DEF PoolExhausted
<1>9. CASE PoolSemWait(t) BY <1>9 DEF PoolSemWait, PoolSemTake
<1>10. CASE ScanSlot(t)
  BY <1>10, ScanTypes DEF ScanSlot
<1>11. CASE PickSlot(t)
  <2>1. [Resting EXCEPT !.pc = "connect", !.cP = getter[t].cP] \in [pc : Pcs, scan : Slot, free : Slot \cup {NoSlot}, cP : Slot \cup {NoSlot}]
    BY DEF Resting, Pcs
  <2> QED BY <1>11, <2>1 DEF PickSlot
<1>12. CASE ConnHeal(t) BY <1>12 DEF ConnHeal
<1>13. CASE ConnHealFails(t)
  <2>1. poolFault + 1 \in 0..MaxPoolFault BY <1>13, <1>q
  <2> QED BY <1>13, <2>1 DEF ConnHealFails
<1>14. CASE ConnLost(t)
  <2>1. poolFault + 1 \in 0..MaxPoolFault BY <1>14, <1>q
  <2> QED BY <1>14, <2>1 DEF ConnLost
<1>15. CASE ConnRelease(t) BY <1>15 DEF ConnRelease
<1>16. CASE SlotGiveBack(t)
  <2>1. UNCHANGED <<troePoolP, createMutex, poolSem, poolFault>> BY <1>16 DEF SlotGiveBack
  <2>2. CASE To(t, "post") /\ queueSem' = queueSem /\ slot' = [slot EXCEPT ![getter[t].cP].busy = FALSE]
    BY <2>1, <2>2
  <2>3. CASE Rest(t) /\ queueSem' = queueSem + 1 /\ slot' = slot
    BY <1>r, <2>1, <2>3
  <2> QED BY <1>16, <2>2, <2>3 DEF SlotGiveBack, SlotFree
<1> QED BY <1>1, <1>2, <1>3, <1>4, <1>5, <1>6, <1>7, <1>8, <1>9, <1>10, <1>11, <1>12, <1>13, <1>14, <1>15, <1>16 DEF PoolStep

\* Every step keeps how the pool comes to be
LEMMA CreateShapeStep == ASSUME CreateInv, NEW t \in PoolThread, PoolStep(t) PROVE CreateShape'
<1> USE PoolAssumption DEF CreateInv, PoolTypes, CreateShape, Creating, Before, Now, To, Rest, Resting, createVars, slotVars
<1>1. CASE ConnGet(t) BY <1>1 DEF ConnGet
<1>2. CASE PoolCreateLock(t) BY <1>2 DEF PoolCreateLock
<1>3. CASE PoolEnsure(t)
  <2>1. CASE troePoolP BY <1>3, <2>1 DEF PoolEnsure, PoolEnsureBuild
  <2>2. CASE ~troePoolP
    <3>1. built = 0 BY <1>3, <2>2 DEF PoolEnsure
    <3> QED BY <1>3, <2>2, <3>1 DEF PoolEnsure, PoolEnsureBuild
  <2> QED BY <2>1, <2>2
<1>4. CASE PoolEnsureFails(t) BY <1>4 DEF PoolEnsureFails
<1>5. CASE PoolPublish(t) BY <1>5 DEF PoolPublish
<1>6. CASE PoolCreateUnlock(t) BY <1>6 DEF PoolCreateUnlock
<1>7. CASE QueueWait(t) BY <1>7 DEF QueueWait
<1>8. CASE PoolExhausted(t) BY <1>8 DEF PoolExhausted
<1>9. CASE PoolSemWait(t) BY <1>9 DEF PoolSemWait, PoolSemTake
<1>10. CASE ScanSlot(t)
  <2>1. getter'[t].pc \in {"scan", "pick"} /\ getter[t].pc = "scan" /\ UNCHANGED <<createVars, slotVars>>
    BY <1>10 DEF ScanSlot
  <2>2. \A u \in PoolThread : u # t => getter'[u] = getter[u] BY <1>10 DEF ScanSlot
  <2> QED BY <2>1, <2>2
<1>11. CASE PickSlot(t) BY <1>11 DEF PickSlot
<1>12. CASE ConnHeal(t) BY <1>12 DEF ConnHeal
<1>13. CASE ConnHealFails(t) BY <1>13 DEF ConnHealFails
<1>14. CASE ConnLost(t) BY <1>14 DEF ConnLost
<1>15. CASE ConnRelease(t) BY <1>15 DEF ConnRelease
<1>16. CASE SlotGiveBack(t)
  <2>1. CASE getter[t].pc = "free"
    <3>1. getter' = [getter EXCEPT ![t].pc = "post"] BY <1>16, <2>1 DEF SlotGiveBack, SlotFree
    <3>2. UNCHANGED createVars BY <1>16, <2>1 DEF SlotGiveBack, SlotFree
    <3>3. getter'[t] = [getter[t] EXCEPT !.pc = "post"] /\ getter'[t].pc = "post"
          /\ \A u \in PoolThread : u # t => getter'[u] = getter[u]
      BY <3>1
    <3> QED BY <2>1, <3>2, <3>3
  <2>2. CASE getter[t].pc = "post"
    <3>1. getter' = [getter EXCEPT ![t] = Resting] /\ UNCHANGED createVars
      BY <1>16, <2>2 DEF SlotGiveBack, SlotFree
    <3>2. getter'[t].pc = "rest" /\ \A u \in PoolThread : u # t => getter'[u] = getter[u] BY <3>1
    <3> QED BY <2>2, <3>1, <3>2
  <2> QED BY <1>16, <2>1, <2>2 DEF SlotGiveBack, SlotFree
<1> QED BY <1>1, <1>2, <1>3, <1>4, <1>5, <1>6, <1>7, <1>8, <1>9, <1>10, <1>11, <1>12, <1>13, <1>14, <1>15, <1>16 DEF PoolStep

\* The pool's creation, whatever the interleaving of first gets: CreateInv is inductive
LEMMA CreateInvariant == PoolSpec => []CreateInv
<1>1. PoolInit => CreateInv
  <2> SUFFICES ASSUME PoolInit PROVE CreateInv OBVIOUS
  <2>1. Resting \in [pc : Pcs, scan : Slot, free : Slot \cup {NoSlot}, cP : Slot \cup {NoSlot}]
    BY SlotFacts DEF Resting, Pcs
  <2>2. PoolTypes
    <3>1. slot \in [Slot -> [busy : BOOLEAN, conn : {"null", "ok", "bad"}]] BY DEF PoolInit
    <3>2. getter \in [PoolThread -> [pc : Pcs, scan : Slot, free : Slot \cup {NoSlot}, cP : Slot \cup {NoSlot}]]
      BY <2>1 DEF PoolInit
    <3>3. 0 \in 0..MaxPoolFault BY PoolAssumption
    <3> QED BY <3>1, <3>2, <3>3 DEF PoolInit, PoolTypes
  <2>3. CreateShape BY PoolAssumption DEF PoolInit, CreateShape, Creating, Before, Resting
  <2> QED BY <2>2, <2>3 DEF CreateInv
<1>2. CreateInv /\ [PoolNext]_poolVars => CreateInv'
  <2> SUFFICES ASSUME CreateInv, [PoolNext]_poolVars PROVE CreateInv' OBVIOUS
  <2>1. CASE UNCHANGED poolVars
    BY <2>1 DEF poolVars, CreateInv, PoolTypes, CreateShape
  <2>2. CASE PoolNext
    <3>1. PICK t \in PoolThread : PoolStep(t) BY <2>2 DEF PoolNext, PoolStep
    <3> QED BY <3>1, PoolTypesStep, CreateShapeStep DEF CreateInv
  <2> QED BY <2>1, <2>2
<1> QED BY <1>1, <1>2, PTL DEF PoolSpec

\* First gets that race build one pool, and nobody looks for a slot before it is published
\* (timescalePoolEnsureReach, double-checked)
THEOREM PoolBuiltOnce == PoolSpec => []OnePool
<1>1. CreateInv => OnePool BY DEF CreateInv, CreateShape, OnePool, Before
<1> QED BY <1>1, CreateInvariant, PTL

-----------------------------------------------------------------------------
(* Whose each slot is *)

Permit == {t \in PoolThread : getter[t].pc \in PermitPc}
Holders == {t \in PoolThread : Holds(t)}

\* The queue semaphore is short of as many permits as threads hold
PermitsCounted ==
  /\ IsFiniteSet(Permit)
  /\ troePoolP => queueSem + Cardinality(Permit) = PoolItems
  /\ ~troePoolP => queueSem = 0

\* One thread picks at a time; a slot is busy while a thread holds it, and that is one thread
SlotShape ==
  /\ \A t \in PoolThread : getter[t].pc \in {"scan", "pick"} <=> poolSem = t
  /\ \A t \in PoolThread : Holds(t) => getter[t].cP \in Slot /\ slot[getter[t].cP].busy
  /\ \A t, u \in PoolThread : t # u /\ Holds(t) /\ Holds(u) => getter[t].cP # getter[u].cP
  /\ \A i \in Slot : slot[i].busy => \E t \in PoolThread : Holds(t) /\ getter[t].cP = i

\* The scan: what is remembered is free, and with nothing remembered there is a free slot ahead
ScanShape ==
  /\ \A t \in PoolThread : getter[t].pc \notin {"scan", "pick"} => getter[t].scan = 1 /\ getter[t].free = NoSlot
  /\ \A t \in PoolThread : getter[t].pc = "scan" /\ getter[t].free # NoSlot => ~slot[getter[t].free].busy
  /\ \A t \in PoolThread : getter[t].pc = "scan" /\ getter[t].free = NoSlot =>
       \E i \in Slot : i >= getter[t].scan /\ ~slot[i].busy
  /\ \A t \in PoolThread : getter[t].pc = "pick" => getter[t].cP \in Slot /\ ~slot[getter[t].cP].busy

SlotInv == CreateInv /\ PermitsCounted /\ SlotShape /\ ScanShape

\* A permit taken, given back, or kept
LEMMA PermitStep ==
  ASSUME SlotInv, CreateInv', NEW t \in PoolThread, PoolStep(t)
  PROVE  PermitsCounted'
<1> USE DEF SlotInv, CreateInv, PoolTypes, Now, To, Rest, Resting, createVars, slotVars
<1>1. \A u \in PoolThread : u # t => getter'[u] = getter[u]
  BY DEF PoolStep, ConnGet, PoolCreateLock, PoolEnsure, PoolEnsureBuild, PoolEnsureFails, PoolPublish, PoolCreateUnlock,
         QueueWait, PoolExhausted, PoolSemWait, ScanSlot, PickSlot, ConnHeal, ConnHealFails, ConnLost, ConnRelease,
         SlotGiveBack, SlotFree
<1>2. ASSUME getter'[t].pc \in PermitPc <=> getter[t].pc \in PermitPc, queueSem' = queueSem, troePoolP' = troePoolP
      PROVE PermitsCounted'
  <2>1. Permit' = Permit BY <1>1, <1>2 DEF Permit
  <2> QED BY <1>2, <2>1 DEF PermitsCounted
<1>3. CASE PoolPublish(t)
  <2>1. Permit' = {} BY <1>3 DEF PoolPublish, CreateShape, Permit, PermitPc, Before
  <2> QED BY <1>3, <2>1, FS_EmptySet, PoolAssumption DEF PoolPublish, PermitsCounted
<1>4. CASE QueueWait(t)
  <2>1. Permit' = Permit \cup {t} /\ t \notin Permit BY <1>1, <1>4 DEF QueueWait, Permit, PermitPc
  <2>2. IsFiniteSet(Permit') /\ Cardinality(Permit') = Cardinality(Permit) + 1
    BY <2>1, FS_AddElement DEF PermitsCounted
  <2>3. troePoolP /\ troePoolP' /\ queueSem' = queueSem - 1 /\ Cardinality(Permit) \in Nat
    BY <1>4, FS_CardinalityType DEF QueueWait, CreateShape, Before, PermitsCounted
  <2> QED BY <2>2, <2>3, PoolAssumption DEF PermitsCounted
<1>5. CASE SlotGiveBack(t) /\ getter[t].pc = "post"
  <2>1. getter'[t].pc = "rest" /\ queueSem' = queueSem + 1 BY <1>5 DEF SlotGiveBack, SlotFree
  <2>2. Permit' = Permit \ {t} /\ t \in Permit BY <1>1, <1>5, <2>1 DEF Permit, PermitPc
  <2>3. IsFiniteSet(Permit') /\ Cardinality(Permit') = Cardinality(Permit) - 1
    BY <2>2, FS_RemoveElement DEF PermitsCounted
  <2>4. troePoolP /\ troePoolP' /\ Cardinality(Permit) \in Nat
    BY <1>5, FS_CardinalityType DEF SlotGiveBack, CreateShape, Before, PermitsCounted
  <2> QED BY <2>1, <2>3, <2>4, PoolAssumption DEF PermitsCounted
<1>6. CASE SlotGiveBack(t) /\ getter[t].pc # "post"
  <2>1. getter[t].pc = "free" /\ getter'[t].pc = "post" /\ queueSem' = queueSem /\ troePoolP' = troePoolP
    BY <1>6 DEF SlotGiveBack, SlotFree
  <2> QED BY <1>2, <2>1 DEF PermitPc
<1>7. CASE ScanSlot(t)
  <2>1. getter'[t].pc \in {"scan", "pick"} /\ getter[t].pc = "scan" /\ queueSem' = queueSem /\ troePoolP' = troePoolP
    BY <1>7 DEF ScanSlot
  <2> QED BY <1>2, <2>1 DEF PermitPc
<1>8. CASE ConnGet(t) BY <1>2, <1>8 DEF ConnGet, PermitPc
<1>9. CASE PoolCreateLock(t) BY <1>2, <1>9 DEF PoolCreateLock, PermitPc
<1>10. CASE PoolEnsure(t) BY <1>2, <1>10 DEF PoolEnsure, PoolEnsureBuild, PermitPc
<1>11. CASE PoolEnsureFails(t) BY <1>2, <1>11 DEF PoolEnsureFails, PermitPc
<1>12. CASE PoolCreateUnlock(t) BY <1>2, <1>12 DEF PoolCreateUnlock, PermitPc
<1>13. CASE PoolExhausted(t) BY <1>2, <1>13 DEF PoolExhausted, PermitPc
<1>14. CASE PoolSemWait(t) BY <1>2, <1>14 DEF PoolSemWait, PermitPc
<1>15. CASE PickSlot(t) BY <1>2, <1>15 DEF PickSlot, PermitPc
<1>16. CASE ConnHeal(t) BY <1>2, <1>16 DEF ConnHeal, PermitPc
<1>17. CASE ConnHealFails(t) BY <1>2, <1>17 DEF ConnHealFails, PermitPc
<1>18. CASE ConnLost(t) BY <1>2, <1>18 DEF ConnLost, PermitPc
<1>19. CASE ConnRelease(t) BY <1>2, <1>19 DEF ConnRelease, PermitPc
<1> QED BY <1>3, <1>4, <1>5, <1>6, <1>7, <1>8, <1>9, <1>10, <1>11, <1>12, <1>13, <1>14, <1>15, <1>16, <1>17, <1>18, <1>19 DEF PoolStep

\* Who has a permit and no slot yet finds one: fewer threads hold a slot than there are slots
LEMMA FreeSlot ==
  ASSUME SlotInv, NEW t \in PoolThread, getter[t].pc = "pool"
  PROVE  \E i \in Slot : ~slot[i].busy
<1> SUFFICES ASSUME \A i \in Slot : slot[i].busy PROVE FALSE OBVIOUS
<1>1. t \in Permit /\ IsFiniteSet(Permit) /\ troePoolP
  BY DEF Permit, PermitPc, SlotInv, PermitsCounted, CreateInv, CreateShape, Before
<1>2. Holders \subseteq Permit \ {t} BY DEF Holders, Holds, Permit, PermitPc
<1>3. IsFiniteSet(Permit \ {t}) /\ Cardinality(Permit \ {t}) = Cardinality(Permit) - 1
  BY <1>1, FS_RemoveElement
<1>4. IsFiniteSet(Holders) /\ Cardinality(Holders) <= Cardinality(Permit) - 1
  BY <1>2, <1>3, FS_Subset
<1>5. Cardinality(Permit) \in Nat /\ Cardinality(Permit) <= PoolItems
  BY <1>1, FS_CardinalityType, PoolAssumption DEF SlotInv, PermitsCounted, CreateInv, PoolTypes
<1> DEFINE f == [u \in Holders |-> getter[u].cP]
<1>6. f \in Surjection(Holders, Slot)
  <2>1. f \in [Holders -> Slot] BY DEF Holders, SlotInv, SlotShape
  <2>2. \A i \in Slot : \E u \in Holders : f[u] = i BY DEF Holders, SlotInv, SlotShape
  <2> QED BY <2>1, <2>2 DEF Surjection
<1>7. Cardinality(Slot) <= Cardinality(Holders) BY <1>4, <1>6, FS_Surjection
<1>8. Cardinality(Slot) = PoolItems BY FS_Interval, PoolAssumption DEF Slot
<1>9. Cardinality(Holders) \in Nat BY <1>4, FS_CardinalityType
<1> QED BY <1>4, <1>5, <1>7, <1>8, <1>9, PoolAssumption

\* A step that neither takes nor frees a slot, and leaves the lock over them
LEMMA SlotsAlone ==
  ASSUME SlotInv, NEW t \in PoolThread, poolSem' = poolSem,
         \A u \in PoolThread : u # t => getter'[u] = getter[u],
         \A i \in Slot : slot'[i].busy = slot[i].busy,
         getter'[t].pc \notin {"scan", "pick"}, getter[t].pc \notin {"scan", "pick"},
         Holds(t)' <=> Holds(t),
         getter'[t].cP = getter[t].cP, getter'[t].scan = getter[t].scan, getter'[t].free = getter[t].free
  PROVE  SlotShape' /\ ScanShape'
<1>1. \A u \in PoolThread : (Holds(u)' <=> Holds(u)) /\ getter'[u].cP = getter[u].cP BY DEF Holds
<1>2. \A u \in PoolThread : /\ getter'[u].pc \in {"scan", "pick"} <=> getter[u].pc \in {"scan", "pick"}
                            /\ getter'[u].pc \in {"scan", "pick"} => getter'[u] = getter[u]
  OBVIOUS
<1>3. SlotShape'
  BY <1>1, <1>2 DEF SlotInv, SlotShape
<1>4. ScanShape'
  BY <1>2 DEF SlotInv, ScanShape, CreateInv, PoolTypes
<1> QED BY <1>3, <1>4

\* Every step keeps slots and scan right
LEMMA SlotStep ==
  ASSUME SlotInv, CreateInv', NEW t \in PoolThread, PoolStep(t)
  PROVE  SlotShape' /\ ScanShape'
<1> USE DEF Now, To, Rest, Resting, createVars, slotVars
<1>t. getter \in [PoolThread -> [pc : Pcs, scan : Slot, free : Slot \cup {NoSlot}, cP : Slot \cup {NoSlot}]]
      /\ slot \in [Slot -> [busy : BOOLEAN, conn : {"null", "ok", "bad"}]]
  BY DEF SlotInv, CreateInv, PoolTypes
<1>u. \A u \in PoolThread : u # t => getter'[u] = getter[u]
  BY <1>t DEF PoolStep, ConnGet, PoolCreateLock, PoolEnsure, PoolEnsureBuild, PoolEnsureFails, PoolPublish, PoolCreateUnlock,
         QueueWait, PoolExhausted, PoolSemWait, ScanSlot, PickSlot, ConnHeal, ConnHealFails, ConnLost, ConnRelease,
         SlotGiveBack, SlotFree
<1>1. CASE ConnGet(t) BY <1>1, <1>t, <1>u, SlotsAlone DEF ConnGet, Holds
<1>2. CASE PoolCreateLock(t) BY <1>2, <1>t, <1>u, SlotsAlone DEF PoolCreateLock, Holds
<1>3. CASE PoolEnsure(t)
  <2>1. getter'[t].pc \in {"unlock", "publish"} /\ getter'[t].cP = getter[t].cP
        /\ getter'[t].scan = getter[t].scan /\ getter'[t].free = getter[t].free
    BY <1>3, <1>t DEF PoolEnsure, PoolEnsureBuild
  <2> QED BY <1>3, <1>u, <2>1, SlotsAlone DEF PoolEnsure, Holds
<1>6. CASE PoolCreateUnlock(t) BY <1>6, <1>t, <1>u, SlotsAlone DEF PoolCreateUnlock, Holds
<1>7. CASE QueueWait(t) BY <1>7, <1>t, <1>u, SlotsAlone DEF QueueWait, Holds
<1>12. CASE ConnHeal(t) BY <1>12, <1>t, <1>u, SlotsAlone DEF ConnHeal, Holds
<1>13. CASE ConnHealFails(t) BY <1>13, <1>t, <1>u, SlotsAlone DEF ConnHealFails, Holds
<1>14. CASE ConnLost(t) BY <1>14, <1>t, <1>u, SlotsAlone DEF ConnLost, Holds
<1>15. CASE ConnRelease(t) BY <1>15, <1>t, <1>u, SlotsAlone DEF ConnRelease, Holds
<1>4. CASE PoolEnsureFails(t) \/ PoolExhausted(t) \/ (SlotGiveBack(t) /\ getter[t].pc = "post")
  <2>1. getter'[t] = Resting /\ slot' = slot /\ poolSem' = poolSem
    BY <1>4, <1>t DEF PoolEnsureFails, PoolExhausted, SlotGiveBack, SlotFree
  <2>2. getter[t].pc \in {"ensure", "wait", "post"} BY <1>4 DEF PoolEnsureFails, PoolExhausted
  <2>3. \A u \in PoolThread : (Holds(u)' <=> Holds(u)) /\ (Holds(u) => getter'[u].cP = getter[u].cP)
    BY <1>u, <2>1, <2>2 DEF Holds
  <2>4. \A u \in PoolThread : getter'[u].pc \in {"scan", "pick"} <=> getter[u].pc \in {"scan", "pick"}
    BY <1>u, <2>1, <2>2
  <2>5. SlotShape' BY <2>1, <2>3, <2>4 DEF SlotInv, SlotShape
  <2>6. ScanShape' BY <1>u, <2>1, <2>2 DEF SlotInv, ScanShape
  <2> QED BY <2>5, <2>6
<1>5. CASE PoolPublish(t)
  <2>1. \A u \in PoolThread : getter[u].pc \in Before BY <1>5 DEF PoolPublish, SlotInv, CreateInv, CreateShape
  <2>2. getter'[t].pc = "unlock" /\ getter'[t].scan = getter[t].scan /\ getter'[t].free = getter[t].free
    BY <1>5, <1>t DEF PoolPublish
  <2>3. \A u \in PoolThread : ~Holds(u)' /\ getter'[u].pc \notin {"scan", "pick"} /\ getter[u].pc \notin {"scan", "pick"}
    BY <1>u, <2>1, <2>2 DEF Before, Holds
  <2>4. \A i \in Slot : ~slot'[i].busy BY <1>5 DEF PoolPublish
  <2>5. SlotShape' BY <1>5, <2>3, <2>4 DEF PoolPublish, SlotInv, SlotShape
  <2>6. ScanShape' BY <1>u, <2>2, <2>3 DEF SlotInv, ScanShape
  <2> QED BY <2>5, <2>6
<1>9. CASE PoolSemWait(t)
  <2>1. getter'[t] = [getter[t] EXCEPT !.pc = "scan"] /\ getter[t].pc = "pool" /\ slot' = slot /\ poolSem = NoThread /\ poolSem' = t
    BY <1>9, <1>t DEF PoolSemWait, PoolSemTake
  <2>2. getter'[t].pc = "scan" /\ getter'[t].scan = 1 /\ getter'[t].free = NoSlot
    BY <1>t, <2>1 DEF SlotInv, ScanShape
  <2>3. \A u \in PoolThread : getter[u].pc \notin {"scan", "pick"}
    BY <2>1, PoolAssumption DEF SlotInv, SlotShape
  <2>4. \A u \in PoolThread : (Holds(u)' <=> Holds(u)) /\ (Holds(u) => getter'[u].cP = getter[u].cP)
    BY <1>u, <2>1, <2>2 DEF Holds
  <2>5. SlotShape'
    <3>1. \A u \in PoolThread : getter'[u].pc \in {"scan", "pick"} <=> poolSem' = u BY <1>u, <2>1, <2>2, <2>3
    <3>2. UNCHANGED slot BY <2>1
    <3> QED BY <2>4, <3>1, <3>2 DEF SlotInv, SlotShape
  <2>6. \E i \in Slot : i >= 1 /\ ~slot[i].busy BY <2>1, FreeSlot DEF Slot
  <2>7. ScanShape'
    <3>1. \A u \in PoolThread \ {t} : getter'[u] = getter[u] /\ getter'[u].pc \notin {"scan", "pick"} BY <1>u, <2>3
    <3>2. getter'[t].free = NoSlot /\ getter'[t].pc = "scan" /\ \E i \in Slot : i >= getter'[t].scan /\ ~slot'[i].busy
      BY <2>1, <2>2, <2>6
    <3>3. \A u \in PoolThread \ {t} : getter'[u].pc \notin {"scan", "pick"} /\ getter'[u].scan = 1 /\ getter'[u].free = NoSlot
      BY <3>1 DEF SlotInv, ScanShape
    <3> QED BY <3>2, <3>3 DEF ScanShape
  <2> QED BY <2>5, <2>7
<1>16. CASE SlotGiveBack(t) /\ getter[t].pc # "post"
  <2>1. getter[t].pc = "free" /\ getter'[t] = [getter[t] EXCEPT !.pc = "post"] /\ poolSem' = poolSem
        /\ slot' = [slot EXCEPT ![getter[t].cP].busy = FALSE]
    BY <1>16, <1>t DEF SlotGiveBack, SlotFree
  <2>2. Holds(t) /\ ~Holds(t)' /\ getter'[t].pc = "post" /\ getter'[t].scan = getter[t].scan /\ getter'[t].free = getter[t].free
    BY <1>t, <2>1 DEF Holds
  <2>3. getter[t].cP \in Slot BY <2>2 DEF SlotInv, SlotShape
  <2>4. ~slot'[getter[t].cP].busy /\ \A i \in Slot : i # getter[t].cP => slot'[i] = slot[i] BY <1>t, <2>1, <2>3
  <2>5. \A u \in PoolThread : u # t => (Holds(u)' <=> Holds(u)) BY <1>u DEF Holds
  <2>6. SlotShape'
    <3>1. \A u \in PoolThread : getter'[u].pc \in {"scan", "pick"} <=> poolSem' = u
      BY <1>u, <2>1, <2>2, <2>3, <2>4, <2>5 DEF SlotInv, SlotShape
    <3>2. \A u \in PoolThread : Holds(u)' => getter'[u].cP \in Slot /\ slot'[getter'[u].cP].busy
      BY <1>u, <2>1, <2>2, <2>3, <2>4, <2>5 DEF SlotInv, SlotShape
    <3>3. \A u, v \in PoolThread : u # v /\ Holds(u)' /\ Holds(v)' => getter'[u].cP # getter'[v].cP
      BY <1>u, <2>1, <2>2, <2>3, <2>4, <2>5 DEF SlotInv, SlotShape
    <3>4. \A i \in Slot : slot'[i].busy => \E u \in PoolThread : Holds(u)' /\ getter'[u].cP = i
      BY <1>u, <2>1, <2>2, <2>3, <2>4, <2>5 DEF SlotInv, SlotShape
    <3> QED BY <3>1, <3>2, <3>3, <3>4 DEF SlotShape
  <2>7. \A i \in Slot : ~slot[i].busy => ~slot'[i].busy BY <2>4
  <2>8. \A u \in PoolThread : getter'[u].pc \in {"scan", "pick"} => getter'[u] = getter[u] BY <1>u, <2>2
  <2>9. ScanShape'
    <3>1. \A u \in PoolThread : getter'[u].pc = "scan" => getter'[u].free \in Slot \cup {NoSlot} BY <1>t, <2>8
    <3>2. \A u \in PoolThread : getter'[u].pc \notin {"scan", "pick"} => getter'[u].scan = 1 /\ getter'[u].free = NoSlot
      BY <1>u, <2>1, <2>2 DEF SlotInv, ScanShape
    <3>3. \A u \in PoolThread : getter'[u].pc = "scan" /\ getter'[u].free # NoSlot => ~slot'[getter'[u].free].busy
      BY <2>7, <2>8, <3>1 DEF SlotInv, ScanShape
    <3>4. \A u \in PoolThread : getter'[u].pc = "scan" /\ getter'[u].free = NoSlot =>
            \E i \in Slot : i >= getter'[u].scan /\ ~slot'[i].busy
      BY <2>7, <2>8 DEF SlotInv, ScanShape
    <3>5. \A u \in PoolThread : getter'[u].pc = "pick" => getter'[u].cP \in Slot /\ ~slot'[getter'[u].cP].busy
      BY <2>7, <2>8 DEF SlotInv, ScanShape
    <3> QED BY <3>2, <3>3, <3>4, <3>5 DEF ScanShape
  <2> QED BY <2>6, <2>9
<1>11. CASE PickSlot(t)
  <2>1. getter[t].pc = "pick" /\ getter'[t] = [Resting EXCEPT !.pc = "connect", !.cP = getter[t].cP] /\ poolSem' = NoThread
        /\ slot' = [slot EXCEPT ![getter[t].cP].busy = TRUE]
    BY <1>11, <1>t DEF PickSlot
  <2>2. getter'[t].pc = "connect" /\ getter'[t].cP = getter[t].cP /\ getter'[t].scan = 1 /\ getter'[t].free = NoSlot
    BY <2>1
  <2>3. getter[t].cP \in Slot /\ ~slot[getter[t].cP].busy BY <2>1 DEF SlotInv, ScanShape
  <2>4. slot'[getter[t].cP].busy /\ \A i \in Slot : i # getter[t].cP => slot'[i] = slot[i] BY <1>t, <2>1, <2>3
  <2>5. Holds(t)' /\ ~Holds(t) /\ \A u \in PoolThread : u # t => (Holds(u)' <=> Holds(u)) BY <1>u, <2>1, <2>2 DEF Holds
  <2>6. \A u \in PoolThread : Holds(u) => getter[u].cP # getter[t].cP BY <2>3 DEF SlotInv, SlotShape
  <2>7. poolSem = t /\ \A u \in PoolThread : u # t => getter[u].pc \notin {"scan", "pick"}
    BY <2>1 DEF SlotInv, SlotShape
  <2>8. SlotShape'
    <3>1. poolSem' = NoThread BY <2>1
    <3>2. \A u \in PoolThread : getter'[u].pc \in {"scan", "pick"} <=> poolSem' = u
      BY <1>u, <2>2, <2>7, <3>1, PoolAssumption
    <3>3. \A u \in PoolThread : u # t /\ Holds(u)' =>
            /\ Holds(u) /\ getter'[u].cP = getter[u].cP /\ getter[u].cP # getter[t].cP
            /\ getter[u].cP \in Slot /\ slot[getter[u].cP].busy
      BY <1>u, <2>5, <2>6 DEF SlotInv, SlotShape
    <3>4. \A u \in PoolThread : Holds(u)' => getter'[u].cP \in Slot /\ slot'[getter'[u].cP].busy
      BY <2>2, <2>3, <2>4, <3>3
    <3>5. \A u, v \in PoolThread : u # v /\ Holds(u)' /\ Holds(v)' => getter'[u].cP # getter'[v].cP
      <4>1. \A u, v \in PoolThread : u # v /\ Holds(u) /\ Holds(v) => getter[u].cP # getter[v].cP BY DEF SlotInv, SlotShape
      <4> QED BY <2>2, <3>3, <4>1
    <3>6. \A i \in Slot : slot'[i].busy => \E u \in PoolThread : Holds(u)' /\ getter'[u].cP = i
      <4>1. \A i \in Slot : slot[i].busy => \E u \in PoolThread : Holds(u) /\ getter[u].cP = i BY DEF SlotInv, SlotShape
      <4> QED BY <1>u, <2>2, <2>4, <2>5, <4>1
    <3> QED BY <3>2, <3>4, <3>5, <3>6 DEF SlotShape
  <2>9. ScanShape' BY <1>u, <2>2, <2>7 DEF SlotInv, ScanShape
  <2> QED BY <2>8, <2>9
<1>10. CASE ScanSlot(t)
  <2> DEFINE g == getter[t]
             i == g.scan
             free == IF slot[i].busy \/ g.free # NoSlot THEN g.free ELSE i
  <2>1. g.pc = "scan" /\ i \in Slot /\ slot' = slot /\ poolSem' = poolSem /\ poolSem = t
    BY <1>10, <1>t DEF ScanSlot, SlotInv, SlotShape
  <2>2. \A u \in PoolThread : u # t => getter[u].pc \notin {"scan", "pick"} BY <2>1 DEF SlotInv, SlotShape
  <2>3. getter'[t].pc \in {"scan", "pick"} BY <1>10, <1>t DEF ScanSlot
  <2>4. ~Holds(t) /\ ~Holds(t)' /\ \A u \in PoolThread : u # t => (Holds(u)' <=> Holds(u)) BY <1>u, <2>1, <2>3 DEF Holds
  <2>5. SlotShape'
    <3>1. \A u \in PoolThread : getter'[u].pc \in {"scan", "pick"} <=> poolSem' = u
      BY <1>u, <2>1, <2>2, <2>3, <2>4 DEF SlotInv, SlotShape
    <3>2. \A u \in PoolThread : Holds(u)' => getter'[u].cP \in Slot /\ slot'[getter'[u].cP].busy
      BY <1>u, <2>1, <2>2, <2>3, <2>4 DEF SlotInv, SlotShape
    <3>3. \A u, v \in PoolThread : u # v /\ Holds(u)' /\ Holds(v)' => getter'[u].cP # getter'[v].cP
      BY <1>u, <2>1, <2>2, <2>3, <2>4 DEF SlotInv, SlotShape
    <3>4. \A j \in Slot : slot'[j].busy => \E u \in PoolThread : Holds(u)' /\ getter'[u].cP = j
      BY <1>u, <2>1, <2>2, <2>3, <2>4 DEF SlotInv, SlotShape
    <3> QED BY <3>1, <3>2, <3>3, <3>4 DEF SlotShape
  <2>6. ~slot[i].busy /\ slot[i].conn = "ok" => getter'[t] = [g EXCEPT !.cP = i, !.pc = "pick"]
    BY <1>10, <1>t DEF ScanSlot
  <2>7. ~(~slot[i].busy /\ slot[i].conn = "ok") /\ i = PoolItems =>
          getter'[t] = [g EXCEPT !.scan = i, !.free = free, !.cP = free, !.pc = "pick"]
    BY <1>10, <1>t DEF ScanSlot
  <2>8. ~(~slot[i].busy /\ slot[i].conn = "ok") /\ i # PoolItems =>
          getter'[t] = [g EXCEPT !.scan = i + 1, !.free = free, !.cP = NoSlot, !.pc = "scan"]
    BY <1>10, <1>t DEF ScanSlot
  <2>9. free # NoSlot => free \in Slot /\ ~slot[free].busy BY <1>t, <2>1 DEF SlotInv, ScanShape
  <2>10. free = NoSlot => slot[i].busy /\ \E j \in Slot : j >= i + 1 /\ ~slot[j].busy
    <3> SUFFICES ASSUME free = NoSlot PROVE slot[i].busy /\ \E j \in Slot : j >= i + 1 /\ ~slot[j].busy OBVIOUS
    <3>1. g.free = NoSlot /\ slot[i].busy BY <2>1, SlotFacts
    <3>2. PICK j \in Slot : j >= i /\ ~slot[j].busy BY <2>1, <3>1 DEF SlotInv, ScanShape
    <3>3. j >= i + 1
      <4>1. j # i BY <3>1, <3>2
      <4>2. i \in Nat /\ j \in Nat BY <2>1, <3>2, SlotFacts
      <4>3. PICK m, n \in Nat : m = i /\ n = j BY <4>2
      <4>4. n # m /\ n >= m BY <4>1, <4>3, <3>2
      <4>5. n >= m + 1 BY <4>4
      <4> QED BY <4>3, <4>5
    <3> QED BY <3>1, <3>2, <3>3
  <2>11. i = PoolItems => free # NoSlot BY <2>1, <2>10, PoolAssumption DEF Slot
  <2>12. ScanShape'
    <3>1. CASE ~slot[i].busy /\ slot[i].conn = "ok"
      <4>1. getter'[t] = [g EXCEPT !.cP = i, !.pc = "pick"] BY <2>6, <3>1
      <4>2. g \in [pc : Pcs, scan : Slot, free : Slot \cup {NoSlot}, cP : Slot \cup {NoSlot}] BY <1>t
      <4> HIDE DEF g
      <4>3. getter'[t].pc = "pick" /\ getter'[t].cP = i BY <4>1, <4>2
      <4> QED BY <1>u, <2>1, <2>2, <3>1, <4>3 DEF SlotInv, ScanShape
    <3>2. CASE ~(~slot[i].busy /\ slot[i].conn = "ok") /\ i = PoolItems
      <4>1. getter'[t].pc = "pick" /\ getter'[t].cP = free BY <2>7, <3>2, <1>t
      <4> QED BY <1>u, <2>1, <2>2, <2>9, <2>11, <3>2, <4>1 DEF SlotInv, ScanShape
    <3>3. CASE ~(~slot[i].busy /\ slot[i].conn = "ok") /\ i # PoolItems
      <4>1. getter'[t].pc = "scan" /\ getter'[t].scan = i + 1 /\ getter'[t].free = free
        <5>1. getter'[t] = [g EXCEPT !.scan = i + 1, !.free = free, !.cP = NoSlot, !.pc = "scan"] BY <2>8, <3>3
        <5>2. g \in [pc : Pcs, scan : Slot, free : Slot \cup {NoSlot}, cP : Slot \cup {NoSlot}] BY <1>t
        <5> HIDE DEF g, free, i
        <5> QED BY <5>1, <5>2
      <4> QED BY <1>u, <2>1, <2>2, <2>9, <2>10, <3>3, <4>1 DEF SlotInv, ScanShape
    <3> QED BY <3>1, <3>2, <3>3
  <2> QED BY <2>5, <2>12
<1> QED BY <1>1, <1>2, <1>3, <1>4, <1>5, <1>6, <1>7, <1>9, <1>10, <1>11, <1>12, <1>13, <1>14, <1>15, <1>16 DEF PoolStep

\* The slots' invariant is inductive on top of the creation's
LEMMA SlotInvariant == PoolSpec => []SlotInv
<1>1. PoolInit /\ CreateInv => SlotInv
  <2> SUFFICES ASSUME PoolInit, CreateInv PROVE SlotInv OBVIOUS
  <2>1. \A t \in PoolThread : getter[t].pc = "rest" /\ getter[t].scan = 1 /\ getter[t].free = NoSlot
    BY DEF PoolInit, Resting
  <2>2. PermitsCounted
    <3>1. Permit = {} BY <2>1 DEF Permit, PermitPc
    <3> QED BY <3>1, FS_EmptySet DEF PoolInit, PermitsCounted
  <2>3. SlotShape BY <2>1, PoolAssumption DEF PoolInit, SlotShape, Holds
  <2>4. ScanShape BY <2>1 DEF ScanShape
  <2> QED BY <2>2, <2>3, <2>4 DEF SlotInv
<1>2. SlotInv /\ CreateInv' /\ [PoolNext]_poolVars => SlotInv'
  <2> SUFFICES ASSUME SlotInv, CreateInv', [PoolNext]_poolVars PROVE SlotInv' OBVIOUS
  <2>1. CASE UNCHANGED poolVars
    <3>1. Permit' = Permit BY <2>1 DEF poolVars, Permit
    <3> QED BY <2>1, <3>1 DEF poolVars, SlotInv, PermitsCounted, SlotShape, ScanShape, Holds
  <2>2. CASE PoolNext
    <3>1. PICK t \in PoolThread : PoolStep(t) BY <2>2 DEF PoolNext, PoolStep
    <3> QED BY <3>1, PermitStep, SlotStep DEF SlotInv
  <2> QED BY <2>1, <2>2
<1> QED BY <1>1, <1>2, CreateInvariant, PTL DEF PoolSpec

\* Types of the pool, the range of its queue semaphore included: what is given back was taken
THEOREM PoolTypesCorrect == PoolSpec => []PoolTypeOK
<1>1. SlotInv => PoolTypeOK
  <2> SUFFICES ASSUME SlotInv PROVE PoolTypeOK OBVIOUS
  <2>1. Cardinality(Permit) \in Nat BY FS_CardinalityType DEF SlotInv, PermitsCounted
  <2>2. queueSem \in 0..PoolItems
    BY <2>1, PoolAssumption DEF SlotInv, PermitsCounted, CreateInv, PoolTypes
  <2> QED BY <2>2 DEF SlotInv, CreateInv, PoolTypes, CreateShape, PoolTypeOK
<1> QED BY <1>1, SlotInvariant, PTL

\* Whoever passed the queue semaphore finds a slot, though slots are given back under no lock, and has
\* it to itself (timescaleConnGet, timescaleConnRelease)
THEOREM SlotsExclusive == PoolSpec => []SlotOfItsOwn
<1>1. SlotInv => SlotOfItsOwn BY SlotFacts DEF SlotInv, SlotShape, ScanShape, SlotOfItsOwn
<1> QED BY <1>1, SlotInvariant, PTL

-----------------------------------------------------------------------------
(* Server-sent events *)

Posts == {"idle", "store", "register", "cache", "respond", "done", "refused"}
DeletePcs   == {"none", "store", "cache", "forget"}
Entries == [in : BOOLEAN, opened : BOOLEAN, ended : BOOLEAN, forgotten : BOOLEAN, waits : Seq(Nat), old : BOOLEAN]
Deletes == [sub : Sub \cup {"none"}, pc : DeletePcs]

\* Types, with those of the entries, of the sequences and of the deletes
SseTypes ==
  /\ poster \in [Sub -> Posts]
  /\ stored \subseteq Sub /\ cached \subseteq Sub /\ gone \subseteq Sub /\ done \subseteq Sub
  /\ stream \in [Sub -> {"none", "pending", "open", "over"}]
  /\ made \in [Sub -> Nat] /\ kills \in 0..MaxKill /\ broker \in {"up", "joined", "stopped", "starting"}
  /\ entry \in [Sub -> Entries] /\ sent \in [Sub -> Seq(Nat)]
  /\ stopping \in BOOLEAN
  /\ deleter \in [{"client", "broker"} -> Deletes]

\* 1, 2, ..., n
UpTo(n) == [i \in 1..n |-> i]

\* A subscription has an entry, a stream and notifications once its POST has come so far
PostShape(s) ==
  /\ entry[s].in => poster[s] \in {"cache", "respond", "done"}
  /\ poster[s] # "done" => stream[s] = "none"
  /\ poster[s] \notin {"cache", "respond", "done"} => made[s] = 0 /\ sent[s] = <<>>
  /\ s \in stored \cup done => poster[s] \notin {"idle", "store"}

\* An open stream has an entry that lives, and nothing waits for its open any more
StreamShape(s) ==
  /\ entry[s].in \/ entry[s] = NoEntry
  /\ made[s] <= MaxEvent
  /\ stream[s] = "open" => Found(s) /\ ~entry[s].ended /\ entry[s].opened /\ entry[s].waits = <<>>

\* What a DELETE is at: past the store, the subscription is not there any more
DeleteShape(who) ==
  LET s == deleter[who].sub IN
  /\ deleter[who].pc = "none" => s = "none"
  /\ deleter[who].pc # "none" => s \in Sub /\ poster[s] \notin {"idle", "store"}
  /\ deleter[who].pc \in {"cache", "forget"} => s \notin stored

OrderOf(s) ==
  /\ sent[s] = UpTo(Len(sent[s]))
  /\ Found(s) /\ ~entry[s].ended => sent[s] \o entry[s].waits = UpTo(made[s])

GoesOf(s) ==
  s \in stored /\ poster[s] \in {"cache", "respond", "done"} /\ ~Found(s)
    => s \in done \/ \E who \in {"client", "broker"} : deleter[who].sub = s

FoundSet == {s \in Sub : Found(s)}
Placing  == {s \in Sub : poster[s] \in {"store", "register"}}

CountInv ==
  /\ IsFiniteSet(FoundSet) /\ entries = Cardinality(FoundSet)
  /\ IsFiniteSet(Placing) /\ reserved = Cardinality(Placing)
  /\ entries + reserved <= StreamsMax

SubInv(s) == PostShape(s) /\ StreamShape(s) /\ GoesOf(s)
ShapeSse == SseTypes /\ (\A s \in Sub : SubInv(s)) /\ (\A who \in {"client", "broker"} : DeleteShape(who))
StreamOrderInv == \A s \in Sub : OrderOf(s)
SseInv == ShapeSse /\ CountInv /\ StreamOrderInv
\* An entry changed is an entry, and what it is then
LEMMA EntryClosed ==
  ASSUME NEW e \in Entries
  PROVE  /\ NoEntry \in Entries /\ [NoEntry EXCEPT !.in = TRUE] \in Entries
         /\ [e EXCEPT !.ended = TRUE] \in Entries
         /\ [e EXCEPT !.ended = TRUE, !.forgotten = TRUE] \in Entries
         /\ [e EXCEPT !.opened = TRUE, !.ended = TRUE] \in Entries
         /\ \A b \in BOOLEAN : [e EXCEPT !.opened = TRUE, !.waits = <<>>, !.ended = e.ended \/ b] \in Entries
         /\ \A n \in Nat : [e EXCEPT !.waits = Append(e.waits, n)] \in Entries
         /\ [e EXCEPT !.old = TRUE] \in Entries
<1>1. <<>> \in Seq(Nat) /\ \A n \in Nat : Append(e.waits, n) \in Seq(Nat)
  BY EmptySeq, AppendProperties DEF Entries
<1> QED BY <1>1 DEF Entries, NoEntry

\* ... an entry of the list
LEMMA EntryAt ==
  ASSUME SseTypes, NEW s \in Sub, NEW e \in Entries
  PROVE  [entry EXCEPT ![s] = e] \in [Sub -> Entries] /\ entry[s] \in Entries /\ entry \in [Sub -> Entries]
BY DEF SseTypes

\* ... and what a change leaves alone
LEMMA EntryKeeps ==
  ASSUME NEW e \in Entries, NEW n
  PROVE  /\ [e EXCEPT !.ended = TRUE].in = e.in /\ [e EXCEPT !.ended = TRUE].forgotten = e.forgotten
         /\ [e EXCEPT !.opened = TRUE, !.ended = TRUE].in = e.in /\ [e EXCEPT !.opened = TRUE, !.ended = TRUE].forgotten = e.forgotten
         /\ [e EXCEPT !.waits = n].in = e.in /\ [e EXCEPT !.waits = n].forgotten = e.forgotten
         /\ [e EXCEPT !.old = TRUE].in = e.in /\ [e EXCEPT !.old = TRUE].forgotten = e.forgotten
BY DEF Entries

\* A step that changes one entry, and leaves it in the list or out of it: a response, an open, a
\* notification, the clock
LEMMA EntryStep ==
  ASSUME ShapeSse, NEW s \in Sub, NEW e \in Entries, NEW t \in {"none", "pending", "open", "over"},
         entry' = [entry EXCEPT ![s] = e], stream' = [stream EXCEPT ![s] = t],
         e.in = entry[s].in, e.forgotten = entry[s].forgotten, e.in \/ e = NoEntry,
         t = "open" => e.in /\ ~e.forgotten /\ ~e.ended /\ e.opened /\ e.waits = <<>>,
         poster' = poster \/ poster' = [poster EXCEPT ![s] = "done"],
         t = stream[s] \/ poster'[s] = "done", poster[s] \in {"cache", "respond", "done"},
         made' \in [Sub -> Nat], sent' \in [Sub -> Seq(Nat)], made'[s] <= MaxEvent,
         \A x \in Sub : x # s => made'[x] = made[x] /\ sent'[x] = sent[x],
         UNCHANGED <<stored, cached, gone, done, kills, broker, stopping, deleter>>
  PROVE  ShapeSse'
<1> USE DEF ShapeSse
<1>1. SseTypes'
  BY EntryAt DEF SseTypes, Posts
<1>2. \A x \in Sub : entry'[x] = (IF x = s THEN e ELSE entry[x]) /\ stream'[x] = (IF x = s THEN t ELSE stream[x])
  BY DEF SseTypes
<1>3. \A x \in Sub : poster'[x] = poster[x] \/ (x = s /\ poster'[x] = "done")
  BY DEF SseTypes
<1>4. ASSUME NEW x \in Sub PROVE PostShape(x)' /\ StreamShape(x)'
  <2>1. CASE x = s
    BY <1>2, <1>3, <2>1 DEF SubInv, PostShape, StreamShape, Found
  <2>2. CASE x # s
    BY <1>2, <1>3, <2>2 DEF SubInv, PostShape, StreamShape, Found
  <2> QED BY <2>1, <2>2
<1>5. ASSUME NEW x \in Sub PROVE GoesOf(x)'
  <2>1. Found(x)' <=> Found(x)
    BY <1>2 DEF Found
  <2>2. poster'[x] \in {"cache", "respond", "done"} => poster[x] \in {"cache", "respond", "done"}
    BY <1>3
  <2> QED BY <2>1, <2>2 DEF SubInv, GoesOf
<1>6. ASSUME NEW who \in {"client", "broker"} PROVE DeleteShape(who)'
  BY <1>3 DEF DeleteShape
<1> QED BY <1>1, <1>4, <1>5, <1>6 DEF SubInv

\* The response: the stream is waited for
LEMMA SseCreateRespondShape == ASSUME ShapeSse, NEW s \in Sub, SseCreateRespond(s) PROVE ShapeSse'
<1>1. /\ poster' = [poster EXCEPT ![s] = "done"] /\ poster[s] = "respond" /\ made' = made /\ sent' = sent
      /\ UNCHANGED <<stored, cached, gone, done, kills, broker, stopping, deleter>>
      /\ entry[s] \in Entries /\ made[s] <= MaxEvent /\ (entry[s].in \/ entry[s] = NoEntry)
      /\ poster \in [Sub -> Posts] /\ made \in [Sub -> Nat] /\ sent \in [Sub -> Seq(Nat)] /\ entry \in [Sub -> Entries]
  BY DEF ShapeSse, SseCreateRespond, lifeVars, SseTypes, SubInv, StreamShape
<1>2. CASE stream' = [stream EXCEPT ![s] = "pending"] /\ UNCHANGED entry
  <2>1. entry' = [entry EXCEPT ![s] = entry[s]]
    BY <1>1, <1>2
  <2> QED BY <1>1, <1>2, <2>1, EntryStep
<1>3. CASE stream' = [stream EXCEPT ![s] = "over"] /\ UNCHANGED entry
  <2>1. entry' = [entry EXCEPT ![s] = entry[s]]
    BY <1>1, <1>3
  <2> QED BY <1>1, <1>3, <2>1, EntryStep
<1>4. CASE Found(s) /\ stream' = [stream EXCEPT ![s] = "over"] /\ entry' = [entry EXCEPT ![s].opened = TRUE, ![s].ended = TRUE]
  <2> DEFINE e == [entry[s] EXCEPT !.opened = TRUE, !.ended = TRUE]
  <2>1. entry' = [entry EXCEPT ![s] = e]
    BY <1>1, <1>4
  <2>2. e \in Entries /\ e.in = entry[s].in /\ e.forgotten = entry[s].forgotten /\ e.in
    BY <1>1, <1>4, EntryClosed, EntryKeeps DEF Found
  <2> HIDE DEF e
  <2> QED BY <1>1, <1>4, <2>1, <2>2, EntryStep
<1> QED BY <1>2, <1>3, <1>4 DEF SseCreateRespond

\* The stream opens, or is refused
LEMMA StreamOpenedShape == ASSUME ShapeSse, NEW s \in Sub, StreamOpened(s) PROVE ShapeSse'
<1>1. /\ poster' = poster /\ stream[s] = "pending" /\ made' = made
      /\ UNCHANGED <<stored, cached, gone, done, kills, broker, stopping, deleter>>
      /\ entry[s] \in Entries /\ made[s] <= MaxEvent /\ (entry[s].in \/ entry[s] = NoEntry) /\ poster[s] = "done"
      /\ poster \in [Sub -> Posts] /\ made \in [Sub -> Nat] /\ sent \in [Sub -> Seq(Nat)] /\ entry \in [Sub -> Entries]
  BY DEF ShapeSse, StreamOpened, lifeVars, subVars, SseTypes, SubInv, StreamShape, PostShape
<1>2. CASE ~entry[s].in
  <2>1. entry' = [entry EXCEPT ![s] = entry[s]] /\ stream' = [stream EXCEPT ![s] = "over"] /\ sent' = sent
    BY <1>1, <1>2 DEF StreamOpened
  <2> QED BY <1>1, <1>2, <2>1, EntryStep
<1>3. CASE entry[s].in
  <2> DEFINE over == entry[s].forgotten \/ entry[s].ended \/ stopping \/ s \in gone
             e == [entry[s] EXCEPT !.opened = TRUE, !.waits = <<>>, !.ended = entry[s].ended \/ over]
  <2>1. /\ entry' = [entry EXCEPT ![s].opened = TRUE, ![s].waits = <<>>, ![s].ended = @ \/ over]
        /\ stream' = [stream EXCEPT ![s] = IF over THEN "over" ELSE "open"]
        /\ sent' = IF over THEN sent ELSE [sent EXCEPT ![s] = sent[s] \o entry[s].waits]
    BY <1>3 DEF StreamOpened, WaitsWritten
  <2>2. over \in BOOLEAN
    BY <1>1 DEF ShapeSse, Entries, SseTypes
  <2>3. e \in Entries
    BY <1>1, <2>2, EntryClosed
  <2>4. entry' = [entry EXCEPT ![s] = e]
    BY <1>1, <2>1
  <2>5. /\ e.in = entry[s].in /\ e.forgotten = entry[s].forgotten /\ e.waits = <<>> /\ e.opened = TRUE
        /\ e.ended = (entry[s].ended \/ over)
    BY <1>1 DEF Entries
  <2>6. sent' \in [Sub -> Seq(Nat)] /\ \A x \in Sub : x # s => sent'[x] = sent[x]
    <3>1. sent[s] \o entry[s].waits \in Seq(Nat)
      BY <1>1, ConcatProperties DEF Entries
    <3> QED BY <1>1, <2>1, <3>1
  <2>7. over => entry[s].forgotten \/ entry[s].ended \/ stopping \/ s \in gone
    OBVIOUS
  <2>8. ~over => ~entry[s].forgotten /\ ~entry[s].ended
    OBVIOUS
  <2> HIDE DEF e, over
  <2>9. CASE over
    <3>1. stream' = [stream EXCEPT ![s] = "over"]
      BY <2>1, <2>9
    <3> QED BY <1>1, <1>3, <2>3, <2>4, <2>5, <2>6, <3>1, EntryStep
  <2>10. CASE ~over
    <3>1. stream' = [stream EXCEPT ![s] = "open"] /\ ~e.ended /\ ~e.forgotten
      BY <2>1, <2>5, <2>8, <2>10
    <3> QED BY <1>1, <1>3, <2>3, <2>4, <2>5, <2>6, <3>1, EntryStep
  <2> QED BY <2>9, <2>10
<1> QED BY <1>2, <1>3

\* An event is put on the open stream
LEMMA StreamPutShape == ASSUME ShapeSse, NEW s \in Sub, StreamPut(s) PROVE ShapeSse'
<1>1. /\ poster' = poster /\ made[s] < MaxEvent /\ Found(s) /\ ~entry[s].ended
      /\ UNCHANGED <<stored, cached, gone, done, kills, broker, stopping, deleter>>
      /\ entry[s] \in Entries /\ made[s] <= MaxEvent /\ poster[s] \in {"cache", "respond", "done"}
      /\ poster \in [Sub -> Posts] /\ made \in [Sub -> Nat] /\ sent \in [Sub -> Seq(Nat)] /\ entry \in [Sub -> Entries]
      /\ stream \in [Sub -> {"none", "pending", "open", "over"}] /\ made[s] + 1 \in Nat /\ made[s] + 1 <= MaxEvent
      /\ sent[s] \in Seq(Nat) /\ entry[s].in
  BY SseAssumption DEF ShapeSse, StreamPut, lifeVars, subVars, SseTypes, SubInv, StreamShape, PostShape, Found
<1> DEFINE n == made[s] + 1
<1>2. CASE stream[s] = "open" /\ UNCHANGED <<entry, stream>> /\ made' = [made EXCEPT ![s] = n] /\ sent' = [sent EXCEPT ![s] = Append(sent[s], n)]
  <2>1. Append(sent[s], n) \in Seq(Nat)
    BY <1>1, AppendProperties
  <2>2. made' \in [Sub -> Nat] /\ sent' \in [Sub -> Seq(Nat)] /\ made'[s] <= MaxEvent
        /\ \A x \in Sub : x # s => made'[x] = made[x] /\ sent'[x] = sent[x]
    BY <1>1, <1>2, <2>1
  <2>3. PICK e \in Entries, t \in {"none", "pending", "open", "over"} : e = entry[s] /\ t = stream[s]
    BY <1>1
  <2>4. entry' = [entry EXCEPT ![s] = e] /\ stream' = [stream EXCEPT ![s] = t]
    BY <1>1, <1>2, <2>3
  <2>5. /\ e.in = entry[s].in /\ e.forgotten = entry[s].forgotten /\ e.in /\ t = stream[s]
        /\ ~e.forgotten /\ ~e.ended /\ e.opened /\ e.waits = <<>>
    BY <1>1, <1>2, <2>3 DEF ShapeSse, SubInv, StreamShape, Found
  <2> HIDE DEF n
  <2> QED BY <1>1, <2>2, <2>4, <2>5, EntryStep
<1>3. CASE EntryEnd(s) /\ UNCHANGED <<made, sent>>
  <2> DEFINE e == [entry[s] EXCEPT !.ended = TRUE]
  <2>1. e \in Entries /\ entry' = [entry EXCEPT ![s] = e] /\ e.in = entry[s].in /\ e.forgotten = entry[s].forgotten
    BY <1>1, <1>3, EntryClosed, EntryKeeps DEF EntryEnd
  <2>2. PICK t \in {"none", "pending", "over"} : stream' = [stream EXCEPT ![s] = t] /\ (t = stream[s] \/ stream[s] = "open")
    BY <1>1, <1>3 DEF EntryEnd
  <2>3. stream[s] = "open" => poster[s] = "done"
    BY DEF ShapeSse, SubInv, PostShape
  <2> HIDE DEF e, n
  <2>4. t \in {"none", "pending", "open", "over"} /\ t # "open" /\ (t = stream[s] \/ poster'[s] = "done")
        /\ made' \in [Sub -> Nat] /\ sent' \in [Sub -> Seq(Nat)] /\ made'[s] <= MaxEvent
        /\ \A x \in Sub : x # s => made'[x] = made[x] /\ sent'[x] = sent[x]
    BY <1>1, <1>3, <2>2, <2>3
  <2> QED BY <1>1, <2>1, <2>2, <2>4, EntryStep
<1>4. CASE ~entry[s].opened /\ entry' = [entry EXCEPT ![s].waits = Append(@, n)] /\ made' = [made EXCEPT ![s] = n]
           /\ UNCHANGED <<stream, sent>>
  <2> DEFINE e == [entry[s] EXCEPT !.waits = Append(entry[s].waits, n)]
  <2>1. e \in Entries /\ entry' = [entry EXCEPT ![s] = e] /\ e.in = entry[s].in /\ e.forgotten = entry[s].forgotten
    BY <1>1, <1>4, EntryClosed, EntryKeeps
  <2>2. stream' = [stream EXCEPT ![s] = stream[s]] /\ stream[s] # "open"
    BY <1>1, <1>4 DEF ShapeSse, SubInv, StreamShape
  <2>3. made' \in [Sub -> Nat] /\ made'[s] <= MaxEvent /\ \A x \in Sub : x # s => made'[x] = made[x]
    BY <1>1, <1>4
  <2> HIDE DEF e, n
  <2>4. sent' \in [Sub -> Seq(Nat)] /\ \A x \in Sub : x # s => made'[x] = made[x] /\ sent'[x] = sent[x]
    BY <1>1, <1>4, <2>3
  <2> QED BY <1>1, <2>1, <2>2, <2>3, <2>4, EntryStep
<1> QED BY <1>2, <1>3, <1>4 DEF StreamPut

\* A wait for the stream is over
LEMMA OpenWaitOverShape == ASSUME ShapeSse, NEW s \in Sub, OpenWaitOver(s) PROVE ShapeSse'
<1>1. /\ poster' = poster /\ made' = made /\ sent' = sent /\ entry[s].in /\ ~entry[s].opened
      /\ UNCHANGED <<stored, cached, gone, done, kills, broker, stopping, deleter>>
      /\ entry[s] \in Entries /\ made[s] <= MaxEvent /\ poster[s] \in {"cache", "respond", "done"}
      /\ poster \in [Sub -> Posts] /\ made \in [Sub -> Nat] /\ sent \in [Sub -> Seq(Nat)] /\ entry \in [Sub -> Entries]
      /\ stream \in [Sub -> {"none", "pending", "open", "over"}] /\ stream' = stream
  BY DEF ShapeSse, OpenWaitOver, lifeVars, subVars, SseTypes, SubInv, StreamShape, PostShape
<1> DEFINE e == [entry[s] EXCEPT !.old = TRUE]
<1>2. e \in Entries /\ entry' = [entry EXCEPT ![s] = e] /\ e.in = entry[s].in /\ e.forgotten = entry[s].forgotten
  BY <1>1, EntryClosed, EntryKeeps DEF OpenWaitOver
<1>3. stream' = [stream EXCEPT ![s] = stream[s]] /\ stream[s] # "open"
  BY <1>1 DEF ShapeSse, SubInv, StreamShape
<1> HIDE DEF e
<1> QED BY <1>1, <1>2, <1>3, EntryStep

\* An end that is on its way, as a delete starts
LEMMA DeleteStartGoes ==
  ASSUME ShapeSse, NEW who \in {"client", "broker"}, NEW s \in Sub, deleter[who] = NoDelete, DeleteStart(who, s),
         UNCHANGED <<stored, poster, entry>>, \A x \in done : x \in done' \/ x = s
  PROVE  \A x \in Sub : GoesOf(x)'
<1>1. /\ deleter \in [{"client", "broker"} -> Deletes] /\ deleter[who].sub = "none"
  BY DEF ShapeSse, SseTypes, NoDelete
<1>2. deleter'[who].sub = s /\ \A z \in {"client", "broker"} : z # who => deleter'[z] = deleter[z]
  BY <1>1 DEF DeleteStart
<1> QED BY <1>1, <1>2, SseAssumption DEF ShapeSse, SubInv, GoesOf, Found

\* ... as a subscription is made
LEMMA SubscriptionCreateGoes == ASSUME ShapeSse, NEW s \in Sub, SubscriptionCreate(s) PROVE \A x \in Sub : GoesOf(x)'
<1>1. /\ UNCHANGED <<entry, done, deleter>> /\ poster \in [Sub -> Posts]
      /\ \E p \in {"register", "refused"} : poster' = [poster EXCEPT ![s] = p]
      /\ stored' \in {stored, stored \cup {s}}
  BY DEF ShapeSse, SseTypes, SubscriptionCreate, listVars
<1>2. \A x \in Sub : poster'[x] = poster[x] \/ (x = s /\ poster'[x] \in {"register", "refused"})
  BY <1>1
<1> QED BY <1>1, <1>2 DEF ShapeSse, SubInv, GoesOf, Found

\* A deleted one is forgotten
LEMMA SseForgetShape == ASSUME ShapeSse, NEW who \in {"client", "broker"}, SseForget(who) PROVE ShapeSse'
<1> USE DEF ShapeSse
<1> DEFINE s == deleter[who].sub
<1>1. /\ UNCHANGED <<poster, stored, cached, gone, made, sent, done, stopping, broker, kills>>
      /\ deleter' = [deleter EXCEPT ![who] = NoDelete] /\ deleter[who].pc = "forget"
  BY DEF SseForget, subVars, lifeVars
<1>2. s \in Sub /\ s \notin stored /\ deleter \in [{"client", "broker"} -> Deletes] /\ entry \in [Sub -> Entries]
      /\ stream \in [Sub -> {"none", "pending", "open", "over"}] /\ entry[s] \in Entries
  BY <1>1 DEF DeleteShape, SseTypes
<1>3. NoDelete \in Deletes /\ NoDelete.pc = "none" /\ NoDelete.sub = "none"
  BY DEF NoDelete, Deletes, DeletePcs
<1>4. \A z \in {"client", "broker"} : deleter'[z] = IF z = who THEN NoDelete ELSE deleter[z]
  BY <1>1, <1>2
<1>5. \/ \E e \in Entries, t \in {"none", "pending", "open", "over"} :
           /\ entry' = [entry EXCEPT ![s] = e] /\ stream' = [stream EXCEPT ![s] = t]
           /\ e = NoEntry \/ (e.in /\ entry[s].in)
           /\ t # "open" /\ (t = stream[s] \/ stream[s] = "open")
      \/ entry' = entry /\ stream' = stream
  <2>1. CASE Found(s)
    <3> DEFINE e == IF entry[s].opened THEN NoEntry ELSE [entry[s] EXCEPT !.ended = TRUE, !.forgotten = TRUE]
               t == IF stream[s] = "open" THEN "over" ELSE stream[s]
    <3>1. entry' = [entry EXCEPT ![s] = e] /\ stream' = [stream EXCEPT ![s] = t]
      BY <1>2, <2>1 DEF SseForget
    <3>2. e \in Entries /\ t \in {"none", "pending", "open", "over"} /\ t # "open" /\ (t = stream[s] \/ stream[s] = "open")
      BY <1>2, EntryClosed
    <3>3. e = NoEntry \/ (e.in /\ entry[s].in)
      BY <1>2, <2>1 DEF Found, Entries
    <3> HIDE DEF e, t
    <3> QED BY <3>1, <3>2, <3>3
  <2>2. CASE ~Found(s)
    BY <1>2, <2>2, EntryClosed DEF SseForget
  <2> QED BY <2>1, <2>2
<1> HIDE DEF s
<1>6. SseTypes'
  <2>1. entry' \in [Sub -> Entries] /\ stream' \in [Sub -> {"none", "pending", "open", "over"}]
    BY <1>2, <1>5
  <2>2. deleter' \in [{"client", "broker"} -> Deletes]
    BY <1>1, <1>2, <1>3
  <2> QED BY <1>1, <2>1, <2>2 DEF ShapeSse, SseTypes
<1>7. \A x \in Sub : x # s => entry'[x] = entry[x] /\ stream'[x] = stream[x]
  BY <1>2, <1>5
<1>8. \/ entry'[s] = entry[s] /\ stream'[s] = stream[s]
      \/ /\ entry'[s] = NoEntry \/ (entry'[s].in /\ entry[s].in)
         /\ stream'[s] # "open" /\ (stream'[s] = stream[s] \/ stream[s] = "open")
  BY <1>2, <1>5
<1>9. ASSUME NEW x \in Sub PROVE PostShape(x)' /\ StreamShape(x)'
  <2>1. CASE x # s
    BY <1>1, <1>7, <2>1 DEF SubInv, PostShape, StreamShape, Found
  <2>2. CASE x = s
    BY <1>1, <1>8, <2>2 DEF SubInv, PostShape, StreamShape, Found, NoEntry
  <2> QED BY <2>1, <2>2
<1>10. ASSUME NEW x \in Sub PROVE GoesOf(x)'
  <2>1. CASE x # s
    <3>1. Found(x)' <=> Found(x)
      BY <1>7, <2>1 DEF Found
    <3>2. \A z \in {"client", "broker"} : deleter[z].sub = x => deleter'[z].sub = x
      BY <1>4, <2>1 DEF s
    <3> QED BY <1>1, <3>1, <3>2 DEF SubInv, GoesOf
  <2>2. CASE x = s
    BY <1>1, <1>2, <2>2 DEF GoesOf
  <2> QED BY <2>1, <2>2
<1>11. ASSUME NEW z \in {"client", "broker"} PROVE DeleteShape(z)'
  BY <1>1, <1>3, <1>4 DEF DeleteShape
<1> QED BY <1>6, <1>9, <1>10, <1>11 DEF SubInv

\* A POST, checked
LEMMA SseCreateCheckShape == ASSUME ShapeSse, NEW s \in Sub, SseCreateCheck(s) PROVE ShapeSse'
<1>1. SseTypes'
  <2>1. /\ UNCHANGED <<stored, cached, entry, stream, made, sent, deleter, done, gone, stopping, broker, kills>>
        /\ \E p \in {"store", "refused"} : poster' = [poster EXCEPT ![s] = p]
    BY DEF SseCreateCheck, lifeVars
  <2>2. poster' \in [Sub -> Posts]
    BY <2>1 DEF ShapeSse, SseTypes, Posts
  <2> QED BY <2>1, <2>2 DEF ShapeSse, SseTypes
<1>2. ASSUME NEW x \in Sub PROVE PostShape(x)' /\ StreamShape(x)'
  BY DEF ShapeSse, SseTypes, SubInv, PostShape, StreamShape, Found, SseCreateCheck, subVars, listVars, lifeVars, Posts, DeletePcs, Entries, Deletes, NoEntry
<1>3. ASSUME NEW x \in Sub PROVE GoesOf(x)'
  BY DEF ShapeSse, SseTypes, SubInv, PostShape, StreamShape, GoesOf, DeleteShape, Found, SseCreateCheck, subVars, listVars, lifeVars, Posts, DeletePcs, Entries, Deletes, NoEntry
<1>4. ASSUME NEW who \in {"client", "broker"} PROVE DeleteShape(who)'
  BY DEF ShapeSse, SseTypes, SubInv, PostShape, DeleteShape, Found, SseCreateCheck, subVars, listVars, lifeVars, Posts, DeletePcs, Entries, Deletes, NoEntry
<1> QED BY <1>1, <1>2, <1>3, <1>4 DEF ShapeSse, SubInv

\* ... stored, or not
LEMMA SubscriptionCreateShape == ASSUME ShapeSse, NEW s \in Sub, SubscriptionCreate(s) PROVE ShapeSse'
<1>1. SseTypes'
  <2>1. /\ UNCHANGED <<cached, entry, stream, made, sent, deleter, done, gone, stopping, broker, kills>>
        /\ stored' \subseteq Sub /\ \E p \in {"register", "refused"} : poster' = [poster EXCEPT ![s] = p]
    BY DEF ShapeSse, SseTypes, SubscriptionCreate, lifeVars
  <2>2. poster' \in [Sub -> Posts]
    BY <2>1 DEF ShapeSse, SseTypes, Posts
  <2> QED BY <2>1, <2>2 DEF ShapeSse, SseTypes
<1>2. ASSUME NEW x \in Sub PROVE PostShape(x)' /\ StreamShape(x)'
  <2>1. /\ UNCHANGED <<entry, stream, made, sent, done>> /\ poster[s] = "store"
        /\ stored' \in {stored, stored \cup {s}} /\ \E p \in {"register", "refused"} : poster' = [poster EXCEPT ![s] = p]
    BY DEF SubscriptionCreate
  <2>2. poster'[x] = poster[x] \/ (x = s /\ poster'[x] \in {"register", "refused"})
    BY <2>1 DEF ShapeSse, SseTypes
  <2>3. StreamShape(x)'
    BY <2>1 DEF ShapeSse, SubInv, StreamShape, Found
  <2>4. PostShape(x)'
    <3>1. PostShape(x) /\ poster[x] = (IF x = s THEN "store" ELSE poster[x])
      BY <2>1 DEF ShapeSse, SubInv
    <3>2. CASE poster'[x] = poster[x] /\ x # s
      BY <2>1, <3>1, <3>2 DEF PostShape
    <3>3. CASE x = s
      <4>1. poster'[x] \in {"register", "refused"}
        BY <2>1, <3>3 DEF ShapeSse, SseTypes
      <4>2. poster[x] = "store"
        BY <2>1, <3>3
      <4> QED BY <2>1, <3>1, <4>1, <4>2 DEF PostShape
    <3> QED BY <2>2, <3>2, <3>3
  <2> QED BY <2>3, <2>4
<1>3. \A x \in Sub : GoesOf(x)'
  BY SubscriptionCreateGoes
<1>4. ASSUME NEW who \in {"client", "broker"} PROVE DeleteShape(who)'
  BY DEF ShapeSse, SseTypes, SubInv, PostShape, DeleteShape, Found, SubscriptionCreate, subVars, listVars, lifeVars, Posts, DeletePcs, Entries, Deletes, NoEntry
<1> QED BY <1>1, <1>2, <1>3, <1>4 DEF ShapeSse, SubInv

\* ... registered
LEMMA SseCreateRegisterShape == ASSUME ShapeSse, NEW s \in Sub, SseCreateRegister(s) PROVE ShapeSse'
<1>1. SseTypes'
  BY EntryClosed, EntryAt DEF ShapeSse, SseTypes, SseCreateRegister, subVars, listVars, lifeVars, Posts, DeletePcs, Deletes
<1>2. ASSUME NEW x \in Sub PROVE PostShape(x)' /\ StreamShape(x)'
  <2>1. /\ poster[s] = "register" /\ UNCHANGED <<stored, stream, made, sent, done>> /\ poster \in [Sub -> Posts] /\ entry \in [Sub -> Entries]
        /\ poster' = [poster EXCEPT ![s] = "cache"] /\ entry' = [entry EXCEPT ![s] = [NoEntry EXCEPT !.in = TRUE]]
    BY DEF SseCreateRegister, ShapeSse, SseTypes
  <2>2. CASE x = s
    <3>1. poster'[x] = "cache" /\ entry'[x].in /\ stream[x] = "none"
      BY <2>1, <2>2 DEF NoEntry, ShapeSse, SubInv, PostShape
    <3> QED BY <2>1, <3>1 DEF ShapeSse, SubInv, PostShape, StreamShape
  <2>3. CASE x # s
    <3>1. poster'[x] = poster[x] /\ entry'[x] = entry[x]
      BY <2>1, <2>3
    <3> QED BY <2>1, <3>1 DEF ShapeSse, SubInv, PostShape, StreamShape, Found
  <2> QED BY <2>2, <2>3
<1>3. ASSUME NEW x \in Sub PROVE GoesOf(x)'
  BY DEF ShapeSse, SseTypes, SubInv, PostShape, StreamShape, GoesOf, DeleteShape, Found, SseCreateRegister, subVars, listVars, lifeVars, Posts, DeletePcs, Entries, Deletes, NoEntry
<1>4. ASSUME NEW who \in {"client", "broker"} PROVE DeleteShape(who)'
  BY DEF ShapeSse, SseTypes, SubInv, PostShape, DeleteShape, Found, SseCreateRegister, subVars, listVars, lifeVars, Posts, DeletePcs, Entries, Deletes, NoEntry
<1> QED BY <1>1, <1>2, <1>3, <1>4 DEF ShapeSse, SubInv

\* ... cached
LEMMA SubCacheItemAddShape == ASSUME ShapeSse, NEW s \in Sub, SubCacheItemAdd(s) PROVE ShapeSse'
<1>1. SseTypes'
  BY EntryClosed, EntryAt DEF ShapeSse, SseTypes, SubCacheItemAdd, subVars, listVars, lifeVars, Posts, DeletePcs, Deletes
<1>2. ASSUME NEW x \in Sub PROVE PostShape(x)' /\ StreamShape(x)'
  BY DEF ShapeSse, SseTypes, SubInv, PostShape, StreamShape, Found, SubCacheItemAdd, subVars, listVars, lifeVars, Posts, DeletePcs, Entries, Deletes, NoEntry
<1>3. ASSUME NEW x \in Sub PROVE GoesOf(x)'
  BY DEF ShapeSse, SseTypes, SubInv, PostShape, StreamShape, GoesOf, DeleteShape, Found, SubCacheItemAdd, subVars, listVars, lifeVars, Posts, DeletePcs, Entries, Deletes, NoEntry
<1>4. ASSUME NEW who \in {"client", "broker"} PROVE DeleteShape(who)'
  BY DEF ShapeSse, SseTypes, SubInv, PostShape, DeleteShape, Found, SubCacheItemAdd, subVars, listVars, lifeVars, Posts, DeletePcs, Entries, Deletes, NoEntry
<1> QED BY <1>1, <1>2, <1>3, <1>4 DEF ShapeSse, SubInv

\* A client that leaves changes nothing but what a write finds
LEMMA ClientLeavesShape == ASSUME ShapeSse, NEW s \in Sub, ClientLeaves(s) PROVE ShapeSse'
<1>1. SseTypes'
  BY EntryClosed, EntryAt DEF ShapeSse, SseTypes, ClientLeaves, subVars, listVars, lifeVars, Posts, DeletePcs, Deletes
<1>2. ASSUME NEW x \in Sub PROVE PostShape(x)' /\ StreamShape(x)'
  BY DEF ShapeSse, SseTypes, SubInv, PostShape, StreamShape, Found, ClientLeaves, subVars, listVars, lifeVars, Posts, DeletePcs, Entries, Deletes, NoEntry
<1>3. ASSUME NEW x \in Sub PROVE GoesOf(x)'
  BY DEF ShapeSse, SseTypes, SubInv, PostShape, StreamShape, GoesOf, DeleteShape, Found, ClientLeaves, subVars, listVars, lifeVars, Posts, DeletePcs, Entries, Deletes, NoEntry
<1>4. ASSUME NEW who \in {"client", "broker"} PROVE DeleteShape(who)'
  BY DEF ShapeSse, SseTypes, SubInv, PostShape, DeleteShape, Found, ClientLeaves, subVars, listVars, lifeVars, Posts, DeletePcs, Entries, Deletes, NoEntry
<1> QED BY <1>1, <1>2, <1>3, <1>4 DEF ShapeSse, SubInv

\* A DELETE of a client starts
LEMMA ClientDeletesShape == ASSUME ShapeSse, NEW s \in Sub, ClientDeletes(s) PROVE ShapeSse'
<1>1. SseTypes'
  BY EntryClosed, EntryAt DEF ShapeSse, SseTypes, ClientDeletes, DeleteStart, NoDelete, subVars, listVars, lifeVars, Posts, DeletePcs, Deletes
<1>2. ASSUME NEW x \in Sub PROVE PostShape(x)' /\ StreamShape(x)'
  BY DEF ShapeSse, SseTypes, SubInv, PostShape, StreamShape, Found, ClientDeletes, DeleteStart, NoDelete, subVars, listVars, lifeVars, Posts, DeletePcs, Entries, Deletes, NoEntry
<1>3. \A x \in Sub : GoesOf(x)'
  BY DeleteStartGoes DEF ClientDeletes, subVars, listVars
<1>4. ASSUME NEW who \in {"client", "broker"} PROVE DeleteShape(who)'
  BY DEF ShapeSse, SseTypes, SubInv, PostShape, DeleteShape, Found, ClientDeletes, DeleteStart, NoDelete, subVars, listVars, lifeVars, Posts, DeletePcs, Entries, Deletes, NoEntry
<1> QED BY <1>1, <1>2, <1>3, <1>4 DEF ShapeSse, SubInv

\* ... and one of the broker
LEMMA DoneRunShape == ASSUME ShapeSse, NEW s \in Sub, DoneRun(s) PROVE ShapeSse'
<1>1. SseTypes'
  BY EntryClosed, EntryAt DEF ShapeSse, SseTypes, DoneRun, DeleteStart, NoDelete, subVars, listVars, lifeVars, Posts, DeletePcs, Deletes
<1>2. ASSUME NEW x \in Sub PROVE PostShape(x)' /\ StreamShape(x)'
  BY DEF ShapeSse, SseTypes, SubInv, PostShape, StreamShape, Found, DoneRun, DeleteStart, NoDelete, subVars, listVars, lifeVars, Posts, DeletePcs, Entries, Deletes, NoEntry
<1>3. \A x \in Sub : GoesOf(x)'
  BY DeleteStartGoes DEF DoneRun, subVars, listVars
<1>4. ASSUME NEW who \in {"client", "broker"} PROVE DeleteShape(who)'
  BY DEF ShapeSse, SseTypes, SubInv, PostShape, DeleteShape, Found, DoneRun, DeleteStart, NoDelete, subVars, listVars, lifeVars, Posts, DeletePcs, Entries, Deletes, NoEntry
<1> QED BY <1>1, <1>2, <1>3, <1>4 DEF ShapeSse, SubInv

\* The subscription leaves the store, or is not there
LEMMA SubscriptionDeleteShape == ASSUME ShapeSse, NEW who \in {"client", "broker"}, SubscriptionDelete(who) PROVE ShapeSse'
<1>1. SseTypes'
  <2>1. /\ UNCHANGED <<poster, cached, entry, stream, made, sent, done, gone, stopping, broker, kills>>
        /\ stored' \subseteq Sub /\ deleter \in [{"client", "broker"} -> Deletes]
    BY DEF ShapeSse, SseTypes, SubscriptionDelete, lifeVars, listVars
  <2>2. [deleter[who] EXCEPT !.pc = "cache"] \in Deletes /\ NoDelete \in Deletes
    BY <2>1 DEF Deletes, DeletePcs, NoDelete
  <2>3. deleter' \in [{"client", "broker"} -> Deletes]
    BY <2>1, <2>2 DEF SubscriptionDelete
  <2> QED BY <2>1, <2>3 DEF ShapeSse, SseTypes
<1>2. ASSUME NEW x \in Sub PROVE PostShape(x)' /\ StreamShape(x)'
  BY DEF ShapeSse, SseTypes, SubInv, PostShape, StreamShape, DeleteShape, Found, SubscriptionDelete, NoDelete, subVars, listVars, lifeVars, Posts, DeletePcs, Entries, Deletes, NoEntry
<1>3. ASSUME NEW x \in Sub PROVE GoesOf(x)'
  BY DEF ShapeSse, SseTypes, SubInv, PostShape, StreamShape, GoesOf, DeleteShape, Found, SubscriptionDelete, NoDelete, subVars, listVars, lifeVars, Posts, DeletePcs, Entries, Deletes, NoEntry
<1>4. ASSUME NEW z \in {"client", "broker"} PROVE DeleteShape(z)'
  BY DEF ShapeSse, SseTypes, SubInv, PostShape, DeleteShape, Found, SubscriptionDelete, NoDelete, subVars, listVars, lifeVars, Posts, DeletePcs, Entries, Deletes, NoEntry
<1> QED BY <1>1, <1>2, <1>3, <1>4 DEF ShapeSse, SubInv

\* ... leaves the cache
LEMMA SubCacheItemRemoveShape == ASSUME ShapeSse, NEW who \in {"client", "broker"}, SubCacheItemRemove(who) PROVE ShapeSse'
<1>1. SseTypes'
  BY EntryClosed, EntryAt DEF ShapeSse, SseTypes, SubCacheItemRemove, NoDelete, subVars, listVars, lifeVars, Posts, DeletePcs, Deletes
<1>2. ASSUME NEW x \in Sub PROVE PostShape(x)' /\ StreamShape(x)'
  BY DEF ShapeSse, SseTypes, SubInv, PostShape, StreamShape, DeleteShape, Found, SubCacheItemRemove, NoDelete, subVars, listVars, lifeVars, Posts, DeletePcs, Entries, Deletes, NoEntry
<1>3. ASSUME NEW x \in Sub PROVE GoesOf(x)'
  BY DEF ShapeSse, SseTypes, SubInv, PostShape, StreamShape, GoesOf, DeleteShape, Found, SubCacheItemRemove, NoDelete, subVars, listVars, lifeVars, Posts, DeletePcs, Entries, Deletes, NoEntry
<1>4. ASSUME NEW z \in {"client", "broker"} PROVE DeleteShape(z)'
  BY DEF ShapeSse, SseTypes, SubInv, PostShape, DeleteShape, Found, SubCacheItemRemove, NoDelete, subVars, listVars, lifeVars, Posts, DeletePcs, Entries, Deletes, NoEntry
<1> QED BY <1>1, <1>2, <1>3, <1>4 DEF ShapeSse, SubInv

\* What a tick does to the list: the forgotten leave, the other entries that live stay as they are
LEMMA TickFacts ==
  ASSUME ShapeSse, NEW all \in BOOLEAN, Tick(all)
  PROVE  /\ entry' \in [Sub -> Entries] /\ stream' \in [Sub -> {"none", "pending", "open", "over"}]
         /\ Forgotten(all) \subseteq FoundSet
         /\ done' = done \cup Forgotten(all) /\ entries' = entries - Cardinality(Forgotten(all))
         /\ \A x \in Sub :
              /\ entry'[x].in \/ entry'[x] = NoEntry
              /\ entry'[x].in => entry[x].in
              /\ x \in Forgotten(all) => ~entry'[x].in \/ entry'[x].forgotten
              /\ stream'[x] = "open" => stream[x] = "open" /\ x \notin Forgotten(all)
              /\ stream'[x] = stream[x] \/ stream[x] = "open"
              /\ Found(x) /\ x \notin Forgotten(all) => entry'[x] = entry[x]
              /\ ~Found(x) => ~entry'[x].in \/ entry'[x].forgotten
<1> DEFINE f == Forgotten(all)
           e == [s \in Sub |-> IF s \in f THEN [entry[s] EXCEPT !.ended = TRUE, !.forgotten = TRUE] ELSE entry[s]]
<1>1. /\ entry' = [s \in Sub |-> IF e[s].in /\ e[s].forgotten /\ (all \/ e[s].opened \/ e[s].old) THEN NoEntry ELSE e[s]]
      /\ stream' = [s \in Sub |-> IF s \in f /\ stream[s] = "open" THEN "over" ELSE stream[s]]
      /\ entries' = entries - Cardinality(f) /\ done' = done \cup f
  BY DEF Tick, EntriesLeft, DoneAdd
<1>2. f \subseteq FoundSet
  BY DEF Forgotten, FoundSet
<1>3. /\ entry \in [Sub -> Entries] /\ stream \in [Sub -> {"none", "pending", "open", "over"}]
      /\ \A x \in Sub : entry[x].in \/ entry[x] = NoEntry
  BY DEF ShapeSse, SseTypes, SubInv, StreamShape
<1> HIDE DEF f
<1>4. ASSUME NEW x \in Sub
      PROVE  /\ e[x] \in Entries /\ e[x].in = entry[x].in
             /\ x \in f => e[x].forgotten
             /\ x \notin f => e[x] = entry[x]
  <2>1. CASE x \in f
    <3>1. entry[x] \in Entries /\ e[x] = [entry[x] EXCEPT !.ended = TRUE, !.forgotten = TRUE]
      BY <1>3, <2>1
    <3>2. e[x] \in Entries
      BY <3>1, EntryClosed
    <3>3. e[x].in = entry[x].in /\ e[x].forgotten
      BY <3>1 DEF Entries
    <3> QED BY <2>1, <3>2, <3>3
  <2>2. CASE x \notin f
    BY <1>3, <2>2
  <2> QED BY <2>1, <2>2
<1> HIDE DEF e
<1>5. NoEntry \in Entries /\ ~NoEntry.in /\ ~NoEntry.forgotten
  BY EmptySeq DEF NoEntry, Entries
<1>6. entry' \in [Sub -> Entries]
  BY <1>1, <1>4, <1>5
<1>7. stream' \in [Sub -> {"none", "pending", "open", "over"}]
  BY <1>1, <1>3
<1>8. ASSUME NEW x \in Sub
      PROVE  /\ entry'[x].in \/ entry'[x] = NoEntry
             /\ entry'[x].in => entry[x].in
             /\ x \in f => ~entry'[x].in \/ entry'[x].forgotten
             /\ Found(x) /\ x \notin f => entry'[x] = entry[x]
             /\ ~Found(x) => ~entry'[x].in \/ entry'[x].forgotten
  <2>1. entry'[x] = IF e[x].in /\ e[x].forgotten /\ (all \/ e[x].opened \/ e[x].old) THEN NoEntry ELSE e[x]
    BY <1>1
  <2>2. (e[x].in /\ e[x].forgotten /\ entry'[x] = NoEntry) \/ (entry'[x] = e[x] /\ (e[x].in \/ e[x] = entry[x]))
    BY <1>4, <2>1, <1>2 DEF FoundSet, Found
  <2> QED BY <1>3, <1>4, <1>5, <2>2 DEF Found
<1>9. ASSUME NEW x \in Sub
      PROVE  /\ stream'[x] = "open" => stream[x] = "open" /\ x \notin f
             /\ stream'[x] = stream[x] \/ stream[x] = "open"
  BY <1>1, <1>3
<1> QED BY <1>1, <1>2, <1>6, <1>7, <1>8, <1>9 DEF f

\* A tick keeps the shape: what it forgets is noted for its deletion
LEMMA TickShape ==
  ASSUME ShapeSse, NEW all \in BOOLEAN, Tick(all), UNCHANGED <<subVars, made, sent, reserved, gone, stopping, deleter, kills>>,
         broker' \in {"up", "joined"}
  PROVE  ShapeSse'
<1>1. UNCHANGED <<poster, stored, cached, made, sent, reserved, gone, stopping, deleter, kills>>
  BY DEF subVars
<1>2. SseTypes'
  BY <1>1, TickFacts DEF ShapeSse, SseTypes, FoundSet
<1>3. ASSUME NEW x \in Sub PROVE PostShape(x)' /\ StreamShape(x)'
  BY <1>1, TickFacts DEF ShapeSse, SubInv, PostShape, StreamShape, Found, FoundSet
<1>4. ASSUME NEW x \in Sub PROVE GoesOf(x)'
  <2>1. Found(x) /\ x \notin Forgotten(all) => Found(x)'
    BY TickFacts DEF Found
  <2>2. x \in done => x \in done'
    BY TickFacts
  <2>3. x \in Forgotten(all) => x \in done'
    BY TickFacts
  <2> QED BY <1>1, <2>1, <2>2, <2>3 DEF ShapeSse, SubInv, GoesOf
<1>5. ASSUME NEW who \in {"client", "broker"} PROVE DeleteShape(who)'
  BY <1>1 DEF ShapeSse, DeleteShape
<1> QED BY <1>2, <1>3, <1>4, <1>5 DEF ShapeSse, SubInv

\* The threads' steps on the life of the broker alone
LEMMA LifeShape ==
  ASSUME ShapeSse, UNCHANGED <<subVars, listVars, gone, deleter, done, kills>>, stopping' \in BOOLEAN,
         broker' \in {"up", "joined", "stopped", "starting"}
  PROVE  ShapeSse'
<1>1. UNCHANGED <<poster, stored, cached, entry, stream, made, sent, gone, deleter, done, kills>>
  BY DEF subVars, listVars
<1> QED BY <1>1 DEF ShapeSse, SseTypes, SubInv, PostShape, StreamShape, GoesOf, DeleteShape, Found

\* A start after a kill: what is stored is to be deleted
LEMMA KillShape == ASSUME ShapeSse, KillAndStart PROVE ShapeSse'
<1>1. NoEntry \in Entries /\ ~NoEntry.in /\ <<>> \in Seq(Nat)
  <2>1. <<>> \in Seq(Nat)
    BY EmptySeq
  <2> QED BY <2>1 DEF NoEntry, Entries
<1>2. NoDelete \in Deletes /\ NoDelete.sub = "none" /\ NoDelete.pc = "none"
  BY DEF NoDelete, Deletes, DeletePcs
<1>3. deleter' = [who \in {"client", "broker"} |-> NoDelete]
  BY DEF KillAndStart, ShapeSse, SseTypes
<1>4. SseTypes'
  <2>1. /\ poster' = [x \in Sub |-> IF poster[x] = "idle" THEN "idle" ELSE "done"]
        /\ stream' = [x \in Sub |-> IF poster[x] = "idle" THEN "none" ELSE "over"]
        /\ entry' = [x \in Sub |-> NoEntry] /\ made' = [x \in Sub |-> 0] /\ sent' = [x \in Sub |-> <<>>]
        /\ kills' = kills + 1 /\ broker' = "starting" /\ stopping' = FALSE
        /\ stored' = stored /\ cached' = stored /\ done' = stored /\ gone' = {}
    BY DEF KillAndStart
  <2>2. poster' \in [Sub -> Posts] /\ stream' \in [Sub -> {"none", "pending", "open", "over"}]
    BY <2>1 DEF Posts
  <2>3. entry' \in [Sub -> Entries] /\ made' \in [Sub -> Nat] /\ sent' \in [Sub -> Seq(Nat)]
    BY <1>1, <2>1
  <2>4. deleter' \in [{"client", "broker"} -> Deletes] /\ kills' \in 0..MaxKill
    BY <1>2, <1>3, <2>1, SseAssumption DEF ShapeSse, SseTypes, KillAndStart
  <2> QED BY <2>1, <2>2, <2>3, <2>4 DEF ShapeSse, SseTypes
<1>5. ASSUME NEW x \in Sub PROVE PostShape(x)' /\ StreamShape(x)'
  BY <1>1, SseAssumption DEF KillAndStart, ShapeSse, SseTypes, SubInv, PostShape, StreamShape, Posts, Found
<1>6. ASSUME NEW x \in Sub PROVE GoesOf(x)'
  BY DEF KillAndStart, GoesOf
<1>7. ASSUME NEW who \in {"client", "broker"} PROVE DeleteShape(who)'
  BY <1>2, <1>3 DEF DeleteShape
<1> QED BY <1>4, <1>5, <1>6, <1>7 DEF ShapeSse, SubInv

\* The counts at the start, and where a step leaves both sets alone
LEMMA CountFrame ==
  ASSUME CountInv, UNCHANGED <<entries, reserved>>, FoundSet' = FoundSet, Placing' = Placing
  PROVE  CountInv'
BY DEF CountInv

\* A place is taken: for a subscription that has none, and only while there is one
LEMMA CountCheck == ASSUME ShapeSse, CountInv, NEW s \in Sub, SseCreateCheck(s) PROVE CountInv'
<1>1. FoundSet' = FoundSet /\ entries' = entries /\ poster[s] = "idle"
  BY DEF SseCreateCheck, FoundSet, Found
<1>2. CASE poster' = [poster EXCEPT ![s] = "refused"] /\ reserved' = reserved
  <2>1. Placing' = Placing
    BY <1>1, <1>2 DEF ShapeSse, SseTypes, Placing
  <2> QED BY <1>1, <1>2, <2>1, CountFrame
<1>3. CASE poster' = [poster EXCEPT ![s] = "store"] /\ reserved' = reserved + 1 /\ ~(entries + reserved >= StreamsMax)
  <2>1. Placing' = Placing \cup {s} /\ s \notin Placing
    BY <1>1, <1>3 DEF ShapeSse, SseTypes, Placing
  <2>2. IsFiniteSet(Placing') /\ Cardinality(Placing') = Cardinality(Placing) + 1
    BY <2>1, FS_AddElement DEF CountInv
  <2>3. entries \in Nat /\ reserved \in Nat
    BY FS_CardinalityType DEF CountInv
  <2> QED BY <1>1, <1>3, <2>2, <2>3, SseAssumption DEF CountInv
<1> QED BY <1>2, <1>3 DEF SseCreateCheck

\* The place is free again when the store fails
LEMMA CountCreate == ASSUME ShapeSse, CountInv, NEW s \in Sub, SubscriptionCreate(s) PROVE CountInv'
<1>1. FoundSet' = FoundSet /\ entries' = entries /\ poster[s] = "store"
  BY DEF SubscriptionCreate, FoundSet, Found
<1>2. CASE poster' = [poster EXCEPT ![s] = "register"] /\ reserved' = reserved
  <2>1. Placing' = Placing
    BY <1>1, <1>2 DEF ShapeSse, SseTypes, Placing
  <2> QED BY <1>1, <1>2, <2>1, CountFrame
<1>3. CASE poster' = [poster EXCEPT ![s] = "refused"] /\ reserved' = reserved - 1
  <2>1. Placing' = Placing \ {s} /\ s \in Placing
    BY <1>1, <1>3 DEF ShapeSse, SseTypes, Placing
  <2>2. IsFiniteSet(Placing') /\ Cardinality(Placing') = Cardinality(Placing) - 1
    BY <2>1, FS_RemoveElement DEF CountInv
  <2>3. entries \in Nat /\ reserved \in Nat
    BY FS_CardinalityType DEF CountInv
  <2> QED BY <1>1, <1>3, <2>2, <2>3, SseAssumption DEF CountInv
<1> QED BY <1>2, <1>3 DEF SubscriptionCreate

\* The place becomes an entry
LEMMA CountRegister == ASSUME ShapeSse, CountInv, NEW s \in Sub, SseCreateRegister(s) PROVE CountInv'
<1>1. /\ poster[s] = "register" /\ poster' = [poster EXCEPT ![s] = "cache"]
      /\ reserved' = reserved - 1 /\ entries' = entries + 1
      /\ entry' = [entry EXCEPT ![s] = [NoEntry EXCEPT !.in = TRUE]]
  BY DEF SseCreateRegister
<1>2. Placing' = Placing \ {s} /\ s \in Placing
  BY <1>1 DEF ShapeSse, SseTypes, Placing
<1>3. FoundSet' = FoundSet \cup {s} /\ s \notin FoundSet
  <2>1. ~Found(s)
    BY <1>1 DEF ShapeSse, SubInv, PostShape, Found
  <2>2. Found(s)' /\ \A x \in Sub : x # s => (Found(x)' <=> Found(x))
    BY <1>1 DEF ShapeSse, SseTypes, Found, NoEntry
  <2> QED BY <2>1, <2>2 DEF FoundSet
<1>4. IsFiniteSet(Placing') /\ Cardinality(Placing') = Cardinality(Placing) - 1
  BY <1>2, FS_RemoveElement DEF CountInv
<1>5. IsFiniteSet(FoundSet') /\ Cardinality(FoundSet') = Cardinality(FoundSet) + 1
  BY <1>3, FS_AddElement DEF CountInv
<1>6. entries \in Nat /\ reserved \in Nat
  BY FS_CardinalityType DEF CountInv
<1> QED BY <1>1, <1>4, <1>5, <1>6, SseAssumption DEF CountInv

\* Entries leave the count as they leave the set
LEMMA CountLeave ==
  ASSUME CountInv, NEW f, f \subseteq FoundSet, FoundSet' = FoundSet \ f, entries' = entries - Cardinality(f),
         Placing' = Placing, reserved' = reserved
  PROVE  CountInv'
<1>1. FoundSet \cap f = f
  OBVIOUS
<1>2. IsFiniteSet(FoundSet \ f) /\ Cardinality(FoundSet \ f) = Cardinality(FoundSet) - Cardinality(FoundSet \cap f)
  <2>1. IsFiniteSet(FoundSet)
    BY DEF CountInv
  <2> HIDE DEF FoundSet
  <2> QED BY <2>1, FS_Difference
<1>3. IsFiniteSet(f)
  BY FS_Subset DEF CountInv
<1>4. Cardinality(f) \in Nat /\ Cardinality(FoundSet) \in Nat /\ Cardinality(Placing) \in Nat
  BY <1>3, FS_CardinalityType DEF CountInv
<1> QED BY <1>1, <1>2, <1>4, SseAssumption DEF CountInv

\* ... at a DELETE
LEMMA CountForget == ASSUME ShapeSse, CountInv, NEW who \in {"client", "broker"}, SseForget(who) PROVE CountInv'
<1>1. UNCHANGED <<poster, reserved>> /\ deleter[who].pc = "forget"
  BY DEF SseForget, subVars
<1>2. PICK s \in Sub : s = deleter[who].sub
  BY <1>1 DEF ShapeSse, DeleteShape
<1>6. entry \in [Sub -> Entries] /\ entry[s] \in Entries
  BY DEF ShapeSse, SseTypes
<1>3. Placing' = Placing
  BY <1>1 DEF Placing
<1>4. CASE Found(s)
  <2>1. entry' = [entry EXCEPT ![s] = IF entry[s].opened THEN NoEntry ELSE [entry[s] EXCEPT !.ended = TRUE, !.forgotten = TRUE]]
        /\ entries' = entries - 1
    BY <1>2, <1>4 DEF SseForget
  <2>2. ~Found(s)'
    <3>1. CASE entry[s].opened
      BY <1>6, <2>1, <3>1 DEF Found, NoEntry
    <3>2. CASE ~entry[s].opened
      <4>1. entry'[s] = [entry[s] EXCEPT !.ended = TRUE, !.forgotten = TRUE]
        BY <1>6, <2>1, <3>2
      <4> QED BY <1>6, <4>1 DEF Found, Entries
    <3> QED BY <3>1, <3>2
  <2>5. \A x \in Sub : x # s => (Found(x)' <=> Found(x))
    BY <1>6, <2>1 DEF Found
  <2>3. FoundSet' = FoundSet \ {s} /\ s \in FoundSet
    BY <1>4, <2>2, <2>5 DEF FoundSet
  <2>4. Cardinality({s}) = 1
    BY FS_EmptySet, FS_Singleton
  <2> QED BY <1>1, <1>3, <2>1, <2>3, <2>4, CountLeave
<1>5. CASE ~Found(s)
  <2>1. UNCHANGED <<entry, entries>>
    BY <1>2, <1>5 DEF SseForget
  <2> QED BY <1>1, <1>3, <2>1, CountFrame DEF FoundSet, Found
<1> QED BY <1>4, <1>5

\* A kill leaves none
LEMMA CountKill == ASSUME CountInv, KillAndStart PROVE CountInv'
<1>1. FoundSet' = {} /\ Placing' = {}
  BY DEF KillAndStart, FoundSet, Placing, Found, NoEntry
<1> QED BY <1>1, FS_EmptySet, SseAssumption DEF CountInv, KillAndStart

\* 1, 2, ..., n as a sequence, and with the next
LEMMA UpToFacts ==
  ASSUME NEW n \in Nat
  PROVE  /\ UpTo(n) \in Seq(Nat) /\ Len(UpTo(n)) = n /\ UpTo(0) = <<>> /\ Append(UpTo(n), n + 1) = UpTo(n + 1)
<1>1. \A k \in Nat : UpTo(k) \in Seq(Nat) /\ Len(UpTo(k)) = k /\ \A i \in 1..k : UpTo(k)[i] = i
  BY DEF UpTo
<1>2. UpTo(0) = <<>>
  BY <1>1, EmptySeq
<1>3. Append(UpTo(n), n + 1) \in Seq(Nat) /\ UpTo(n + 1) \in Seq(Nat) /\ n + 1 \in Nat
  BY <1>1, AppendProperties
<1>4. Len(Append(UpTo(n), n + 1)) = n + 1 /\ Len(UpTo(n + 1)) = n + 1
  BY <1>1, <1>3, AppendProperties
<1>5. ASSUME NEW i \in 1..(n + 1) PROVE Append(UpTo(n), n + 1)[i] = UpTo(n + 1)[i]
  <2>1. CASE i = n + 1
    BY <1>1, <1>3, <2>1, AppendProperties
  <2>2. CASE i \in 1..n
    <3>1. PICK s : s = UpTo(n)
      OBVIOUS
    <3>2. s \in Seq(Nat) /\ i \in 1..Len(s) /\ s[i] = i /\ n + 1 \in Nat
      BY <1>1, <2>2, <3>1
    <3>3. Append(s, n + 1)[i] = s[i]
      BY <3>2, AppendProperties
    <3>4. UpTo(n + 1)[i] = i
      BY <1>1, <1>3, <1>5
    <3> QED BY <3>1, <3>2, <3>3, <3>4
  <2>3. i = n + 1 \/ i \in 1..n
    OBVIOUS
  <2> QED BY <2>1, <2>2, <2>3
<1>6. Append(UpTo(n), n + 1) = UpTo(n + 1)
  BY <1>3, <1>4, <1>5, SeqEqual
<1> QED BY <1>1, <1>2, <1>6

\* What is put after the second of two put together is put after both
LEMMA ConcatAppend ==
  ASSUME NEW s \in Seq(Nat), NEW t \in Seq(Nat), NEW n \in Nat
  PROVE  s \o Append(t, n) = Append(s \o t, n)
<1>1. s \o t \in Seq(Nat) /\ <<n>> \in Seq(Nat)
  BY ConcatProperties
<1>2. Append(t, n) = t \o <<n>> /\ Append(s \o t, n) = (s \o t) \o <<n>>
  BY <1>1, AppendIsConcat
<1> QED BY <1>1, <1>2, ConcatAssociative

\* The order where nothing is sent, and no entry that lives is another
LEMMA OrderFrame ==
  ASSUME StreamOrderInv, sent' = sent,
         \A x \in Sub : Found(x)' /\ ~entry'[x].ended
                           => made'[x] = made[x] /\ Found(x) /\ ~entry[x].ended /\ entry'[x].waits = entry[x].waits
  PROVE  StreamOrderInv'
BY DEF StreamOrderInv, OrderOf

\* The first notification finds an entry where nothing waits, of a stream where nothing was sent
LEMMA OrderRegister == ASSUME ShapeSse, StreamOrderInv, NEW s \in Sub, SseCreateRegister(s) PROVE StreamOrderInv'
<1>1. /\ poster[s] = "register" /\ sent' = sent /\ made' = made /\ entry' = [entry EXCEPT ![s] = [NoEntry EXCEPT !.in = TRUE]]
      /\ entry \in [Sub -> Entries] /\ made[s] = 0 /\ sent[s] = <<>>
  BY DEF SseCreateRegister, ShapeSse, SseTypes, SubInv, PostShape
<1>2. ASSUME NEW x \in Sub PROVE OrderOf(x)'
  <2>1. CASE x = s
    <3>1. entry'[x].waits = <<>>
      BY <1>1, <2>1 DEF NoEntry
    <3>2. sent'[x] = <<>> /\ made'[x] = 0 /\ UpTo(0) = <<>> /\ <<>> \o <<>> = <<>> /\ Len(<<>>) = 0
      BY <1>1, <2>1, UpToFacts, ConcatEmptySeq, EmptySeq
    <3> QED BY <3>1, <3>2 DEF OrderOf
  <2>2. CASE x # s
    BY <1>1, <2>2 DEF OrderOf, StreamOrderInv, Found
  <2> QED BY <2>1, <2>2
<1> QED BY <1>2 DEF StreamOrderInv

\* The open puts what waited after what was sent, and nothing waits any more
LEMMA OrderOpened == ASSUME ShapeSse, StreamOrderInv, NEW s \in Sub, StreamOpened(s) PROVE StreamOrderInv'
<1>1. /\ made' = made /\ entry[s] \in Entries /\ sent[s] \in Seq(Nat) /\ made[s] \in Nat
      /\ sent \in [Sub -> Seq(Nat)] /\ entry \in [Sub -> Entries]
  BY DEF StreamOpened, ShapeSse, SseTypes
<1>2. CASE ~entry[s].in
  <2>1. UNCHANGED <<entry, sent>>
    BY <1>2 DEF StreamOpened
  <2> QED BY <1>1, <2>1, OrderFrame DEF Found
<1>3. CASE entry[s].in
  <2> DEFINE over == entry[s].forgotten \/ entry[s].ended \/ stopping \/ s \in gone
  <2>1. /\ entry' = [entry EXCEPT ![s].opened = TRUE, ![s].waits = <<>>, ![s].ended = @ \/ over]
        /\ sent' = IF over THEN sent ELSE [sent EXCEPT ![s] = sent[s] \o entry[s].waits]
    BY <1>3 DEF StreamOpened, WaitsWritten
  <2>2. /\ entry'[s].waits = <<>> /\ entry'[s].ended = (entry[s].ended \/ over)
        /\ \A x \in Sub : x # s => entry'[x] = entry[x]
    BY <1>1, <2>1 DEF Entries
  <2>3. ~over => Found(s) /\ ~entry[s].ended
    BY <1>3 DEF Found
  <2> HIDE DEF over
  <2>4. CASE over
    BY <1>1, <2>1, <2>2, <2>4, OrderFrame DEF Found
  <2>5. CASE ~over
    <3>1. entry[s].waits \in Seq(Nat) /\ sent'[s] = UpTo(made[s])
      BY <1>1, <2>1, <2>3, <2>5 DEF StreamOrderInv, OrderOf, Entries
    <3>2. Len(sent'[s]) = made[s] /\ sent'[s] \o <<>> = sent'[s]
      BY <1>1, <3>1, UpToFacts, ConcatEmptySeq
    <3>3. ASSUME NEW x \in Sub PROVE OrderOf(x)'
      <4>1. CASE x = s
        BY <1>1, <2>2, <3>1, <3>2, <4>1 DEF OrderOf
      <4>2. CASE x # s
        BY <1>1, <2>1, <2>2, <4>2 DEF OrderOf, StreamOrderInv, Found
      <4> QED BY <4>1, <4>2
    <3> QED BY <3>3 DEF StreamOrderInv
  <2> QED BY <2>4, <2>5
<1> QED BY <1>2, <1>3

\* A notification goes after what was made before it, on the stream or among what waits
LEMMA OrderPut == ASSUME ShapeSse, StreamOrderInv, NEW s \in Sub, StreamPut(s) PROVE StreamOrderInv'
<1> DEFINE n == made[s] + 1
<1>1. /\ Found(s) /\ ~entry[s].ended /\ made[s] \in Nat /\ n \in Nat /\ sent[s] \in Seq(Nat) /\ entry[s] \in Entries
      /\ sent \in [Sub -> Seq(Nat)] /\ entry \in [Sub -> Entries] /\ made \in [Sub -> Nat] /\ entry[s].waits \in Seq(Nat)
      /\ sent[s] \o entry[s].waits = UpTo(made[s]) /\ sent[s] = UpTo(Len(sent[s]))
  BY SMTT(30) DEF StreamPut, ShapeSse, SseTypes, Entries, StreamOrderInv, OrderOf
<1>2. CASE stream[s] = "open" /\ UNCHANGED <<entry, stream>> /\ made' = [made EXCEPT ![s] = n] /\ sent' = [sent EXCEPT ![s] = Append(sent[s], n)]
  <2>1. entry[s].waits = <<>>
    BY <1>2 DEF ShapeSse, SubInv, StreamShape
  <2>2. sent[s] = UpTo(made[s])
    BY <1>1, <2>1, ConcatEmptySeq
  <2>3. sent'[s] = UpTo(n) /\ Len(sent'[s]) = n /\ sent'[s] \o <<>> = UpTo(n)
    <3>1. sent'[s] = UpTo(n)
      BY <1>1, <1>2, <2>2, UpToFacts
    <3>2. UpTo(n) \in Seq(Nat) /\ Len(UpTo(n)) = n
      BY <1>1, UpToFacts
    <3> QED BY <3>1, <3>2, ConcatEmptySeq
  <2>4. made'[s] = n /\ entry'[s].waits = <<>>
    BY <1>1, <1>2, <2>1
  <2> HIDE DEF n
  <2>5. ASSUME NEW x \in Sub PROVE OrderOf(x)'
    <3>1. CASE x = s
      BY <2>3, <2>4, <3>1 DEF OrderOf
    <3>2. CASE x # s
      BY <1>1, <1>2, <3>2 DEF OrderOf, StreamOrderInv, Found
    <3> QED BY <3>1, <3>2
  <2> QED BY <2>5 DEF StreamOrderInv
<1>3. CASE EntryEnd(s) /\ UNCHANGED <<made, sent>>
  <2>1. entry'[s].ended /\ \A x \in Sub : x # s => entry'[x] = entry[x]
    BY <1>1, <1>3 DEF EntryEnd, Entries
  <2> QED BY <1>3, <2>1, OrderFrame DEF Found
<1>4. CASE entry' = [entry EXCEPT ![s].waits = Append(@, n)] /\ made' = [made EXCEPT ![s] = n] /\ UNCHANGED <<stream, sent>>
  <2>1. entry'[s].waits = Append(entry[s].waits, n) /\ made'[s] = n
    BY <1>1, <1>4 DEF Entries
  <2>2. sent[s] \o Append(entry[s].waits, n) = Append(UpTo(made[s]), n)
    BY <1>1, ConcatAppend
  <2>3. sent[s] \o Append(entry[s].waits, n) = UpTo(n)
    BY <1>1, <2>2, UpToFacts
  <2> HIDE DEF n
  <2>4. ASSUME NEW x \in Sub PROVE OrderOf(x)'
    <3>1. CASE x = s
      BY <1>1, <1>4, <2>1, <2>3, <3>1 DEF OrderOf
    <3>2. CASE x # s
      BY <1>1, <1>4, <3>2 DEF OrderOf, StreamOrderInv, Found
    <3> QED BY <3>1, <3>2
  <2> QED BY <2>4 DEF StreamOrderInv
<1> QED BY <1>2, <1>3, <1>4 DEF StreamPut

-----------------------------------------------------------------------------
(* The invariant over every step, and what it says of a run *)

\* It holds at the start
LEMMA SseInvInit == SseInit => SseInv
<1> SUFFICES ASSUME SseInit PROVE SseInv
  OBVIOUS
<1>1. NoEntry \in Entries /\ ~NoEntry.in /\ <<>> \in Seq(Nat)
  <2>1. <<>> \in Seq(Nat)
    BY EmptySeq
  <2> QED BY <2>1 DEF NoEntry, Entries
<1>2. NoDelete \in Deletes /\ NoDelete.sub = "none" /\ NoDelete.pc = "none"
  BY DEF NoDelete, Deletes, DeletePcs
<1>3. SseTypes
  <2>1. /\ entry \in [Sub -> Entries] /\ sent \in [Sub -> Seq(Nat)] /\ made \in [Sub -> Nat] /\ deleter \in [{"client", "broker"} -> Deletes]
    BY <1>1, <1>2 DEF SseInit
  <2>2. poster \in [Sub -> Posts] /\ stream \in [Sub -> {"none", "pending", "open", "over"}]
    BY DEF SseInit, Posts
  <2>3. stored = {} /\ cached = {} /\ gone = {} /\ done = {} /\ kills \in 0..MaxKill /\ broker = "up" /\ stopping \in BOOLEAN
    <3>1. 0 \in 0..MaxKill
      BY SseAssumption
    <3> QED BY <3>1 DEF SseInit
  <2> QED BY <2>1, <2>2, <2>3 DEF SseTypes
<1>4. ASSUME NEW s \in Sub PROVE SubInv(s) /\ OrderOf(s)
  <2>1. SubInv(s)
    BY <1>1, SseAssumption DEF SseInit, SubInv, PostShape, StreamShape, GoesOf, Found
  <2>2. sent[s] = <<>> /\ Len(<<>>) = 0 /\ UpTo(0) = <<>>
    BY UpToFacts, EmptySeq DEF SseInit
  <2> QED BY <1>1, <2>1, <2>2 DEF SseInit, OrderOf, Found
<1>5. \A who \in {"client", "broker"} : DeleteShape(who)
  BY <1>2 DEF SseInit, DeleteShape
<1>6. FoundSet = {} /\ Placing = {}
  BY <1>1 DEF SseInit, FoundSet, Placing, Found
<1>7. CountInv
  BY <1>6, FS_EmptySet, SseAssumption DEF CountInv, SseInit
<1> QED BY <1>3, <1>4, <1>5, <1>7 DEF SseInv, ShapeSse, StreamOrderInv

\* The steps that change no count: no POST takes or leaves a place, no entry comes or goes
LEMMA CountStill ==
  ASSUME CountInv, UNCHANGED <<entries, reserved>>,
         \A x \in Sub : (Found(x)' <=> Found(x)) /\ (poster'[x] \in {"store", "register"} <=> poster[x] \in {"store", "register"})
  PROVE  CountInv'
<1>1. FoundSet' = FoundSet /\ Placing' = Placing
  BY DEF FoundSet, Placing
<1> QED BY <1>1, CountFrame

\* The steps of a POST past the register, and of its stream, keep both counts
LEMMA CountOnStream ==
  ASSUME ShapeSse, CountInv, NEW s \in Sub,
         SubCacheItemAdd(s) \/ SseCreateRespond(s) \/ StreamOpened(s) \/ StreamPut(s) \/ OpenWaitOver(s)
  PROVE  CountInv'
<1>1. UNCHANGED <<entries, reserved>>
  BY DEF SubCacheItemAdd, SseCreateRespond, StreamOpened, StreamPut, OpenWaitOver, listVars
<1>2. entry \in [Sub -> Entries] /\ poster \in [Sub -> Posts] /\ entry[s] \in Entries
  BY DEF ShapeSse, SseTypes
<1>3. ASSUME NEW x \in Sub PROVE poster'[x] \in {"store", "register"} <=> poster[x] \in {"store", "register"}
  BY <1>2 DEF SubCacheItemAdd, SseCreateRespond, StreamOpened, StreamPut, OpenWaitOver, subVars
<1>4. \A x \in Sub : x # s => entry'[x] = entry[x]
  BY <1>2 DEF SubCacheItemAdd, SseCreateRespond, StreamOpened, StreamPut, OpenWaitOver, listVars, EntryEnd
<1>5. entry'[s].in = entry[s].in /\ entry'[s].forgotten = entry[s].forgotten
  <2>1. CASE SubCacheItemAdd(s)
    BY <2>1 DEF SubCacheItemAdd, listVars
  <2>2. CASE SseCreateRespond(s)
    BY <1>2, <2>2 DEF SseCreateRespond, Entries
  <2>3. CASE StreamOpened(s)
    BY <1>2, <2>3 DEF StreamOpened, Entries
  <2>4. CASE StreamPut(s)
    BY <1>2, <2>4 DEF StreamPut, EntryEnd, Entries
  <2>5. CASE OpenWaitOver(s)
    BY <1>2, <2>5 DEF OpenWaitOver, Entries
  <2> QED BY <2>1, <2>2, <2>3, <2>4, <2>5
<1>6. \A x \in Sub : Found(x)' <=> Found(x)
  BY <1>4, <1>5 DEF Found
<1> QED BY <1>1, <1>3, <1>6, CountStill

\* What a step on the list's entries leaves alone, for the order
LEMMA StreamOrderStep ==
  ASSUME ShapeSse, StreamOrderInv, NEW s \in Sub,
         SseCreateRespond(s) \/ OpenWaitOver(s)
  PROVE  StreamOrderInv'
<1>1. sent' = sent /\ made' = made
  BY DEF SseCreateRespond, OpenWaitOver
<1>2. entry \in [Sub -> Entries] /\ entry[s] \in Entries
  BY DEF ShapeSse, SseTypes
<1>3. \A x \in Sub : x # s => entry'[x] = entry[x]
  BY <1>2 DEF SseCreateRespond, OpenWaitOver
<1>4. entry'[s] = entry[s] \/ entry'[s].ended
      \/ (entry'[s].waits = entry[s].waits /\ entry'[s].in = entry[s].in /\ entry'[s].forgotten = entry[s].forgotten /\ entry'[s].ended = entry[s].ended)
  <2>1. CASE SseCreateRespond(s)
    BY <1>2, <2>1 DEF SseCreateRespond, Entries
  <2>2. CASE OpenWaitOver(s)
    BY <1>2, <2>2 DEF OpenWaitOver, Entries
  <2> QED BY <2>1, <2>2
<1> QED BY <1>1, <1>3, <1>4, OrderFrame DEF Found

\* The order survives the end of an entry
LEMMA OrderEnds ==
  ASSUME ShapeSse, StreamOrderInv,
         (\E all \in BOOLEAN : Tick(all) /\ UNCHANGED <<made, sent>>) \/ (\E who \in {"client", "broker"} : SseForget(who))
  PROVE  StreamOrderInv'
<1>1. CASE \E all \in BOOLEAN : Tick(all) /\ UNCHANGED <<made, sent>>
  <2>1. PICK all \in BOOLEAN : Tick(all) /\ UNCHANGED <<made, sent>>
    BY <1>1
  <2>2. \A x \in Sub : Found(x)' => Found(x) /\ entry'[x] = entry[x]
    BY <2>1, TickFacts DEF Found
  <2> QED BY <2>1, <2>2, OrderFrame
<1>2. CASE \E who \in {"client", "broker"} : SseForget(who)
  <2>1. PICK who \in {"client", "broker"} : SseForget(who)
    BY <1>2
  <2>2. PICK s \in Sub : s = deleter[who].sub
    BY <2>1 DEF SseForget, ShapeSse, DeleteShape
  <2>3. entry \in [Sub -> Entries] /\ entry[s] \in Entries /\ UNCHANGED <<made, sent>>
    BY <2>1 DEF ShapeSse, SseTypes, SseForget
  <2>4. \A x \in Sub : x # s => entry'[x] = entry[x]
    BY <2>1, <2>2, <2>3 DEF SseForget
  <2>5. entry'[s] = entry[s] \/ ~entry'[s].in \/ entry'[s].ended
    <3>1. CASE Found(s) /\ entry[s].opened
      BY <2>1, <2>2, <2>3, <3>1 DEF SseForget, NoEntry
    <3>2. CASE Found(s) /\ ~entry[s].opened
      <4>1. entry'[s] = [entry[s] EXCEPT !.ended = TRUE, !.forgotten = TRUE]
        BY <2>1, <2>2, <2>3, <3>2 DEF SseForget
      <4> QED BY <2>3, <4>1 DEF Entries
    <3>3. CASE ~Found(s)
      BY <2>1, <2>2, <3>3 DEF SseForget
    <3> QED BY <3>1, <3>2, <3>3
  <2> QED BY <2>3, <2>4, <2>5, OrderFrame DEF Found
<1> QED BY <1>1, <1>2

\* One lemma for each of the three parts, over every action
LEMMA ShapeStep == ASSUME ShapeSse, SseNext PROVE ShapeSse'
<1>1. ASSUME NEW s \in Sub,
             SseCreateCheck(s) \/ PostGoesOn(s) \/ StreamOpened(s) \/ StreamPut(s) \/ ClientLeaves(s) \/ OpenWaitOver(s) \/ ClientDeletes(s)
      PROVE  ShapeSse'
  BY <1>1, SseCreateCheckShape, SubscriptionCreateShape, SseCreateRegisterShape, SubCacheItemAddShape, SseCreateRespondShape,
     StreamOpenedShape, StreamPutShape, ClientLeavesShape, OpenWaitOverShape, ClientDeletesShape DEF PostGoesOn
<1>2. ASSUME NEW who \in {"client", "broker"}, DeleteGoesOn(who) PROVE ShapeSse'
  BY <1>2, SubscriptionDeleteShape, SubCacheItemRemoveShape, SseForgetShape DEF DeleteGoesOn
<1>3. CASE TickThread \/ SseStopTick
  BY <1>3, TickShape DEF TickThread, SseStopTick, lifeVars, subVars
<1>4. CASE \E s \in Sub : DoneRun(s)
  BY <1>4, DoneRunShape
<1>5. CASE SseLeftoversDeleted \/ SseStop \/ RestStop
  BY <1>5, LifeShape DEF SseLeftoversDeleted, SseStop, RestStop, ShapeSse, SseTypes
<1>6. CASE KillAndStart
  BY <1>6, KillShape
<1> QED BY <1>1, <1>2, <1>3, <1>4, <1>5, <1>6 DEF SseNext, BrokerThread

\* The count of the streams over every step
LEMMA CountStep == ASSUME ShapeSse, CountInv, SseNext PROVE CountInv'
<1>1. ASSUME NEW s \in Sub, SseCreateCheck(s) \/ PostGoesOn(s) \/ StreamOpened(s) \/ StreamPut(s) \/ OpenWaitOver(s) PROVE CountInv'
  BY <1>1, CountCheck, CountCreate, CountRegister, CountOnStream DEF PostGoesOn
<1>2. ASSUME UNCHANGED <<poster, entry, entries, reserved>> PROVE CountInv'
  BY <1>2, CountStill DEF Found
<1>3. ASSUME NEW s \in Sub, ClientLeaves(s) \/ ClientDeletes(s) \/ DoneRun(s) PROVE CountInv'
  BY <1>2, <1>3 DEF ClientLeaves, ClientDeletes, DoneRun, subVars, listVars
<1>4. ASSUME NEW who \in {"client", "broker"}, DeleteGoesOn(who) PROVE CountInv'
  BY <1>2, <1>4, CountForget DEF DeleteGoesOn, SubscriptionDelete, SubCacheItemRemove, listVars
<1>5. ASSUME NEW all \in BOOLEAN, Tick(all), UNCHANGED <<poster, reserved>> PROVE CountInv'
  <2>1. FoundSet' = FoundSet \ Forgotten(all)
    BY <1>5, TickFacts DEF FoundSet, Found
  <2>2. Placing' = Placing
    BY <1>5 DEF Placing
  <2> QED BY <1>5, <2>1, <2>2, TickFacts, CountLeave
<1>6. CASE TickThread \/ SseStopTick
  BY <1>5, <1>6 DEF TickThread, SseStopTick, subVars
<1>7. CASE SseLeftoversDeleted \/ SseStop \/ RestStop
  BY <1>2, <1>7 DEF SseLeftoversDeleted, SseStop, RestStop, subVars, listVars
<1>8. CASE KillAndStart
  BY <1>8, CountKill
<1> QED BY <1>1, <1>3, <1>4, <1>6, <1>7, <1>8 DEF SseNext, BrokerThread

\* The order of the events over every step
LEMMA OrderInvStep == ASSUME ShapeSse, StreamOrderInv, SseNext PROVE StreamOrderInv'
<1>1. ASSUME UNCHANGED <<entry, made, sent>> PROVE StreamOrderInv'
  BY <1>1, OrderFrame DEF Found
<1>2. ASSUME NEW s \in Sub, SseCreateRegister(s) \/ SseCreateRespond(s) \/ StreamOpened(s) \/ StreamPut(s) \/ OpenWaitOver(s) PROVE StreamOrderInv'
  BY <1>2, OrderRegister, StreamOrderStep, OrderOpened, OrderPut
<1>3. ASSUME NEW s \in Sub, SseCreateCheck(s) \/ SubscriptionCreate(s) \/ SubCacheItemAdd(s) \/ ClientLeaves(s) \/ ClientDeletes(s) \/ DoneRun(s)
      PROVE  StreamOrderInv'
  BY <1>1, <1>3 DEF SseCreateCheck, SubscriptionCreate, SubCacheItemAdd, ClientLeaves, ClientDeletes, DoneRun, listVars
<1>4. ASSUME NEW who \in {"client", "broker"}, DeleteGoesOn(who) PROVE StreamOrderInv'
  BY <1>1, <1>4, OrderEnds DEF DeleteGoesOn, SubscriptionDelete, SubCacheItemRemove, listVars
<1>5. CASE TickThread \/ SseStopTick
  BY <1>5, OrderEnds DEF TickThread, SseStopTick
<1>6. CASE SseLeftoversDeleted \/ SseStop \/ RestStop
  BY <1>1, <1>6 DEF SseLeftoversDeleted, SseStop, RestStop, listVars
<1>7. CASE KillAndStart
  <2>1. \A x \in Sub : ~Found(x)' /\ sent'[x] = <<>>
    BY <1>7 DEF KillAndStart, Found, NoEntry
  <2>2. Len(<<>>) = 0 /\ UpTo(0) = <<>>
    BY UpToFacts, EmptySeq
  <2> QED BY <2>1, <2>2 DEF StreamOrderInv, OrderOf
<1> QED BY <1>1, <1>2, <1>3, <1>4, <1>5, <1>6, <1>7 DEF SseNext, BrokerThread, PostGoesOn

\* The invariant of the streams holds
LEMMA SseInvariant == SseSpec => []SseInv
<1>1. SseInv /\ [SseNext]_sseVars => SseInv'
  <2> SUFFICES ASSUME SseInv, [SseNext]_sseVars PROVE SseInv'
    OBVIOUS
  <2>1. CASE SseNext
    BY <2>1, ShapeStep, CountStep, OrderInvStep DEF SseInv
  <2>2. CASE UNCHANGED sseVars
    <3>1. ShapeSse'
      BY <2>2, LifeShape DEF SseInv, sseVars, subVars, listVars, ShapeSse, SseTypes
    <3>2. CountInv'
      BY <2>2, CountStill DEF SseInv, sseVars, Found
    <3>3. StreamOrderInv'
      BY <2>2, OrderFrame DEF SseInv, sseVars, Found
    <3> QED BY <3>1, <3>2, <3>3 DEF SseInv
  <2> QED BY <2>1, <2>2
<1> QED BY <1>1, SseInvInit, PTL DEF SseSpec

\* Types: the entries, and none changed outside the list
THEOREM SseTypesCorrect == SseSpec => []SseTypeOK
<1>1. SseInv => SseTypeOK
  BY SseAssumption DEF SseInv, ShapeSse, SseTypes, SubInv, StreamShape, SseTypeOK, Posts
<1> QED BY <1>1, SseInvariant, PTL

\* The counts are the streams there are and the places held, never more than --sseStreams, whatever ends a
\* stream first: the tick, a DELETE or the stop
THEOREM StreamsAreCounted == SseSpec => []StreamsCounted
<1>1. SseInv => StreamsCounted
  BY DEF SseInv, ShapeSse, SubInv, StreamShape, CountInv, FoundSet, Placing, StreamsCounted
<1> QED BY <1>1, SseInvariant, PTL

\* A stream carries its notifications in the order they were made, with none left out, whenever it was opened
THEOREM EventsStayInOrder == SseSpec => []EventsInOrder
<1>1. SseInv => EventsInOrder
  BY DEF SseInv, StreamOrderInv, OrderOf, UpTo, EventsInOrder
<1> QED BY <1>1, SseInvariant, PTL

\* A stored subscription whose stream is gone is one the broker deletes, or one being deleted
THEOREM EndedStreamsGo == SseSpec => []EndedStreamGoes
<1>1. SseInv => EndedStreamGoes
  BY DEF SseInv, ShapeSse, SseTypes, SubInv, GoesOf, EndedStreamGoes
<1> QED BY <1>1, SseInvariant, PTL

-----------------------------------------------------------------------------
(* The parts side by side *)

\* A step of the parts is each one's own step, or leaves it alone
LEMMA PartsSteps ==
  ASSUME [PartsNext]_partsVars
  PROVE  /\ [EntityNext]_entityVars /\ [BridgeNext]_bridgeVars /\ [PoolNext]_poolVars
         /\ [SseNext]_sseVars /\ [SnapNext]_snapVars
<1>1. CASE UNCHANGED partsVars BY <1>1 DEF partsVars
<1>2. CASE EntityMoves /\ UNCHANGED <<focus, bridgeVars, poolVars, sseVars, snapVars, vars>> BY <1>2 DEF EntityMoves
<1>3. CASE BridgeMoves /\ UNCHANGED <<focus, entityVars, poolVars, sseVars, snapVars, vars>> BY <1>3 DEF BridgeMoves
<1>4. CASE PoolNext /\ UNCHANGED <<focus, entityVars, bridgeVars, sseVars, snapVars, vars>> BY <1>4
<1>5. CASE SseMoves /\ UNCHANGED <<focus, entityVars, bridgeVars, poolVars, snapVars, vars>> BY <1>5 DEF SseMoves
<1>6. CASE SnapNext /\ UNCHANGED <<focus, entityVars, bridgeVars, poolVars, sseVars, vars>> BY <1>6
<1>7. CASE UNCHANGED <<focus, entityVars, bridgeVars, poolVars, sseVars, snapVars>> BY <1>7
<1> QED BY <1>1, <1>2, <1>3, <1>4, <1>5, <1>6, <1>7 DEF PartsNext

\* Types of all parts in a run that has them side by side: no part's steps touch another's state
THEOREM PartsTypesCorrect == PartsSpec => []PartsTypeOK
<1>1. PartsSpec => PartsInit /\ [][PartsNext]_partsVars BY DEF PartsSpec
<1>2. PartsInit => EntityInit /\ BridgeInit /\ PoolInit /\ SseInit /\ SnapInit BY DEF PartsInit
<1>3. [PartsNext]_partsVars => /\ [EntityNext]_entityVars /\ [BridgeNext]_bridgeVars /\ [PoolNext]_poolVars
                               /\ [SseNext]_sseVars /\ [SnapNext]_snapVars
  BY PartsSteps
<1>4. BaseInv => EntityTypeOK BY DEF BaseInv
<1>5. EntityTypeOK /\ BridgeTypeOK /\ PoolTypeOK /\ SseTypeOK /\ SnapTypeOK => PartsTypeOK BY DEF PartsTypeOK
<1>6. PartsSpec => []EntityTypeOK BY <1>1, <1>2, <1>3, <1>4, BaseInvariant, PTL
<1>7. PartsSpec => []BridgeTypeOK BY <1>1, <1>2, <1>3, BridgeTypesAlways, PTL
<1>8. PartsSpec => []PoolTypeOK BY <1>1, <1>2, <1>3, PoolTypesCorrect, PTL DEF PoolSpec
<1>9. PartsSpec => []SseTypeOK BY <1>1, <1>2, <1>3, SseTypesCorrect, PTL DEF SseSpec
<1>10. PartsSpec => []SnapTypeOK BY <1>1, <1>2, <1>3, SnapTypesCorrect, PTL DEF SnapSpec
<1> QED BY <1>5, <1>6, <1>7, <1>8, <1>9, <1>10, PTL

=============================================================================
