---------------------------- MODULE EntityWrite ----------------------------
(***************************************************************************)
(* Requests on one entity: what each service routine reads, what it writes *)
(* back and what it answers. No lock is held between the two: a routine    *)
(* reads the entity, merges in memory and hands the database an update of  *)
(* just the members it changed ($set, $unset), or a whole document.        *)
(*                                                                         *)
(* A member of the entity is the stamp of the request that wrote it last.  *)
(* A request addresses one member; datasets, values, forwarding and        *)
(* notifications are left out, and so are requests refused before the      *)
(* entity is read.                                                         *)
(***************************************************************************)
EXTENDS Naturals, Sequences

CONSTANTS
  Attr,               \* names of attributes
  EntityOp,           \* the operations requests may ask for
  MaxEntityReq        \* bound: requests in all

SetOp == {"postAttrs", "postAttrsNew", "patchAttrs", "putAttr", "purgeDrop"}
ChangeOp == {"patchEntity", "patchAttr", "deleteAttr", "batchUpdate", "batchMerge"}
UpsertOp == {"upsert", "upsertUpdate"}
DeleteOp == {"delete", "batchDelete", "purge"}
Op == SetOp \cup ChangeOp \cup UpsertOp \cup DeleteOp \cup {"create", "replace", "get"}

ASSUME EntityAssumption ==
  EntityOp \subseteq Op /\ MaxEntityReq \in Nat /\ Attr \cap {"type", "expiresAt", "id"} = {}

VARIABLES
  doc,      \* the entity in the database, or NoEntity
  call      \* sequence of the requests so far

entityVars == <<doc, call>>

Member == Attr \cup {"type", "expiresAt"}
Expiry == {"never", "ahead", "past"}
Absent == 0
Original == 1
Stamp(r) == r + 1
NoEntity == [mem |-> [m \in Member |-> Absent], exp |-> "never", there |-> FALSE]

\* A member only some operations carry
MembersOf(op) ==
  CASE op \in {"patchAttrs", "patchEntity"} -> Member
    [] op \in {"batchUpdate", "batchMerge", "upsertUpdate"} -> Member \ {"expiresAt"}
    [] op \in DeleteOp \cup {"get"} -> {"id"}
    [] OTHER -> Attr

-----------------------------------------------------------------------------
(* What the plugin does in the database *)

Written(m, r, exp) ==
  [there |-> TRUE, exp |-> exp, mem |-> [n \in Member |-> IF n \in {m, "type"} THEN Stamp(r) ELSE Absent]]

\* Faulty: the merged entity is stored whole
SurgicalWhole(r, d) ==
  LET c == call[r]
  IN  [c.seen EXCEPT !.mem[c.member] = Stamp(r), !.exp = IF c.member = "expiresAt" THEN "ahead" ELSE @]

\* The member written or taken out, and the entity's type written back as it was read
Surgical(r, d) ==
  LET c == call[r]
      mem == [d.mem EXCEPT !["type"] = c.seen.mem["type"],
                           ![c.member] = IF c.op \in {"deleteAttr", "purgeDrop"} THEN Absent ELSE Stamp(r)]
  IN  [d EXCEPT !.mem = mem, !.exp = IF c.member = "expiresAt" THEN "ahead" ELSE @]

\* update_one by id: an entity that is gone is matched by nothing, and nothing says so
ChangesApply(r) == doc' = IF doc.there THEN Surgical(r, doc) ELSE doc

\* Faulty: the update makes the entity when there is none
EntityChangesUpsert(r) == doc' = [Surgical(r, doc) EXCEPT !.there = TRUE]

EntityChangesApply(r) == ChangesApply(r)

\* insert_one, insert_many: the id is unique, expired or not
EntityCreate(r, exp) == ~doc.there /\ doc' = Written(call[r].member, r, exp)

EntityReplace(r) == doc.there /\ doc' = Written(call[r].member, r, "never")

EntityDelete == doc.there /\ doc' = NoEntity

-----------------------------------------------------------------------------
(* The requests *)

Finished == {r \in DOMAIN call : call[r].pc = "done"}

Begin(op, m, pc, status) ==
  /\ Len(call) < MaxEntityReq /\ op \in EntityOp /\ m \in MembersOf(op)
  /\ call' = Append(call, [op |-> op, member |-> m, pc |-> pc, status |-> status, seen |-> doc, before |-> Finished])

Goto(r, pc, status) == call' = [call EXCEPT ![r].pc = pc, ![r].status = status]
At(r, ops, pc) == call[r].op \in ops /\ call[r].pc = pc
\* What a writer read goes with its memory
Answer(r, status) == call' = [call EXCEPT ![r].pc = "done", ![r].status = status, ![r].seen = NoEntity]

\* POST /entities and the batch create look at nothing first
PostEntities(m) == Begin("create", m, "insert", 0) /\ UNCHANGED doc

PostEntitiesInsert(r) ==
  /\ At(r, {"create"}, "insert")
  /\ \/ \E exp \in {"never", "ahead"} : EntityCreate(r, exp) /\ Answer(r, 201)
     \/ doc.there /\ Answer(r, 409) /\ UNCHANGED doc

\* POST and PATCH attrs, PUT of an attribute: the routine reads the entity ...
PostEntityAttrs(op, m) ==
  /\ op \in SetOp
  /\ doc.there \/ op = "purgeDrop"
  /\ op = "putAttr" => doc.mem[m] # Absent
  /\ Begin(op, m, IF op = "postAttrsNew" /\ doc.mem[m] # Absent THEN "done" ELSE "fetch",
           IF op = "postAttrsNew" /\ doc.mem[m] # Absent THEN 207 ELSE 0)
  /\ UNCHANGED doc

\* ... and the plugin reads it again to merge into. POST and PATCH answer an entity
\* that went in between as done
EntityAttrsSetFetch(r) ==
  /\ At(r, SetOp, "fetch") /\ UNCHANGED doc
  /\ IF doc.there THEN call' = [call EXCEPT ![r].pc = "set", ![r].seen = doc]
                  ELSE Answer(r, IF call[r].op = "putAttr" THEN 404 ELSE 204)

EntityAttrsSet(r) == At(r, SetOp, "set") /\ ChangesApply(r) /\ Answer(r, 204)

\* PATCH of the entity, of an attribute, DELETE of an attribute, batch update and merge:
\* one read, the merge in the broker, one update
PatchEntity(op, m) ==
  /\ op \in ChangeOp /\ doc.there
  /\ op \in {"patchAttr", "deleteAttr"} => doc.mem[m] # Absent
  /\ Begin(op, m, "apply", 0) /\ UNCHANGED doc

PatchEntityApply(r) == At(r, ChangeOp, "apply") /\ EntityChangesApply(r) /\ Answer(r, 204)

\* PUT of the entity
ReplaceEntity(m) == doc.there /\ Begin("replace", m, "swap", 0) /\ UNCHANGED doc

ReplaceEntityWrite(r) ==
  /\ At(r, {"replace"}, "swap")
  /\ \/ EntityReplace(r) /\ Answer(r, 204)
     \/ ~doc.there /\ Answer(r, 404) /\ UNCHANGED doc

\* Batch upsert: created or updated, as the entity was found
BatchUpsert(op, m) == op \in UpsertOp /\ Begin(op, m, IF doc.there THEN "swap" ELSE "insert", 0) /\ UNCHANGED doc

BatchUpsertCreate(r) ==
  /\ At(r, UpsertOp, "insert")
  /\ \/ EntityCreate(r, "never") /\ Answer(r, 201)
     \/ doc.there /\ Answer(r, 409) /\ UNCHANGED doc

BatchUpsertUpdate(r) == At(r, {"upsertUpdate"}, "swap") /\ EntityChangesApply(r) /\ Answer(r, 204)

\* The bulk replace finds out first which of the entities are there
BatchUpsertExists(r) ==
  /\ At(r, {"upsert"}, "swap") /\ UNCHANGED doc
  /\ IF doc.there THEN Goto(r, "bulk", 0) ELSE Answer(r, 404)

BatchUpsertReplace(r) ==
  /\ At(r, {"upsert"}, "bulk") /\ Answer(r, 204)
  /\ \/ EntityReplace(r)
     \/ ~doc.there /\ UNCHANGED doc

\* DELETE of the entity and the purge: one delete; the batch delete reads first,
\* and what it read is deleted for it whoever does it
DeleteEntity(op) ==
  /\ op \in DeleteOp
  /\ Begin(op, "id", IF op = "batchDelete" /\ ~doc.there THEN "done" ELSE "remove",
           IF op = "batchDelete" /\ ~doc.there THEN 404 ELSE 0)
  /\ UNCHANGED doc

DeleteEntityRemove(r) ==
  /\ At(r, DeleteOp, "remove")
  /\ \/ EntityDelete /\ Answer(r, 204)
     \/ ~doc.there /\ Answer(r, IF call[r].op = "batchDelete" THEN 204 ELSE 404) /\ UNCHANGED doc

\* A read answers an expired entity as not there, and notes it for its deletion
GetEntity ==
  /\ Begin("get", "id", IF doc.there /\ doc.exp = "past" THEN "hook" ELSE "done",
           IF doc.there /\ doc.exp # "past" THEN 200 ELSE 404)
  /\ UNCHANGED doc

\* The post-response hook deletes what was noted, by its id
ExpiredEntityDispatchPending(r) ==
  /\ At(r, {"get"}, "hook") /\ Goto(r, "done", call[r].status)
  /\ EntityDelete \/ (~doc.there /\ UNCHANGED doc)

\* The clock reaches the entity's expiresAt
Expire == doc.there /\ doc.exp = "ahead" /\ doc' = [doc EXCEPT !.exp = "past"] /\ UNCHANGED call

-----------------------------------------------------------------------------
EntityInit ==
  /\ call = <<>>
  /\ doc \in {NoEntity} \cup
       {[there |-> TRUE, exp |-> e, mem |-> [m \in Member |-> Original]] : e \in {"never", "ahead"}}

RequestStep(r) ==
  \/ PostEntitiesInsert(r) \/ EntityAttrsSetFetch(r) \/ EntityAttrsSet(r) \/ PatchEntityApply(r)
  \/ ReplaceEntityWrite(r) \/ BatchUpsertCreate(r) \/ BatchUpsertUpdate(r) \/ BatchUpsertExists(r)
  \/ BatchUpsertReplace(r) \/ DeleteEntityRemove(r) \/ ExpiredEntityDispatchPending(r)

EntityNext ==
  \/ \E m \in Member :
       \/ PostEntities(m) \/ ReplaceEntity(m)
       \/ \E op \in EntityOp : PostEntityAttrs(op, m) \/ PatchEntity(op, m) \/ BatchUpsert(op, m)
  \/ \E op \in EntityOp : DeleteEntity(op)
  \/ GetEntity
  \/ \E r \in DOMAIN call : RequestStep(r)
  \/ Expire

\* A request under way goes on
EntityFairness == WF_entityVars(\E r \in DOMAIN call : RequestStep(r))
EntitySpec == EntityInit /\ [][EntityNext]_entityVars /\ EntityFairness

-----------------------------------------------------------------------------
(* Properties *)

Status == {0, 200, 201, 204, 207, 404, 409}
Pc == {"insert", "fetch", "set", "apply", "swap", "bulk", "remove", "hook", "done"}
Document == [there : BOOLEAN, exp : Expiry, mem : [Member -> 0..(MaxEntityReq + 1)]]
Request == [op : Op, member : Member \cup {"id"}, pc : Pc, status : Status, seen : Document, before : SUBSET (1..MaxEntityReq)]

\* Types; an entity that is there has its type, one that is not has nothing
EntityTypeOK ==
  /\ doc \in Document /\ (doc.there <=> doc.mem["type"] # Absent) /\ (~doc.there => doc = NoEntity)
  /\ call \in Seq(Request) /\ Len(call) <= MaxEntityReq

Acknowledged(r) == call[r].pc = "done" /\ call[r].status \in {201, 204}
SurgicalOp == SetOp \cup ChangeOp \cup {"upsertUpdate"}
MakesEntity(op) == op \in {"create"} \cup UpsertOp

\* What request q may do to member m of the entity on its own account
Touches(q, m) ==
  \/ call[q].op \in {"create", "replace", "upsert"} \cup DeleteOp
  \/ call[q].op = "get" /\ call[q].seen.exp = "past"
  \/ call[q].op = "upsertUpdate" /\ call[q].status = 201
  \/ call[q].member = m

\* Every surgical update writes the type back as it read it
RefreshesType(q, r) == call[q].op \in SurgicalOp /\ r \notin call[q].before

\* A request not over before r began addressed the same member or the whole entity
Overtaken(r, m) ==
  \E q \in DOMAIN call \ ({r} \cup call[r].before) : Touches(q, m) \/ (m = "type" /\ RefreshesType(q, r))

Change(r) == IF call[r].op \in {"deleteAttr", "purgeDrop"} THEN Absent ELSE Stamp(r)

\* No lost update: a change that was acknowledged is in the entity, unless a request not over before
\* it began addressed the same member or the whole entity. (The type excepted: any other update that
\* overlaps undoes a change of it.)
UpdatesKept ==
  \A r \in DOMAIN call :
    Acknowledged(r) /\ call[r].op \in SurgicalOp \cup {"create", "replace", "upsert"} =>
      doc.mem[call[r].member] = Change(r) \/ Overtaken(r, call[r].member)

\* A deleted entity stays deleted: after an acknowledged DELETE only a request that makes entities,
\* and was not over before the DELETE began, can have made one. An update that read the entity
\* before the DELETE does not bring it back
DeletedGone ==
  \A r \in DOMAIN call :
    Acknowledged(r) /\ call[r].op \in DeleteOp /\ doc.there =>
      \E q \in DOMAIN call \ call[r].before : MakesEntity(call[q].op)

=============================================================================
