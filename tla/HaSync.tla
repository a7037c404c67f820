------------------------------- MODULE HaSync -------------------------------
(***************************************************************************)
(* The broker instances' caches of subscriptions and registrations against *)
(* the one database they share: the requests that change a record and the  *)
(* cache of the broker they land on, and the change stream by which every  *)
(* broker - the writer too - learns of the change, re-reads the record and *)
(* stores it in its own cache.                                             *)
(*                                                                         *)
(* A record is the set of requests whose effect it holds: the POST that    *)
(* made it (0: it was there from the start) and every PATCH since. What a  *)
(* record says, its notifications and the forwarding of derived            *)
(* subscriptions are left out. A request that is refused before it changes *)
(* or locks anything (409, 404 of the first read, 400) is no step.         *)
(***************************************************************************)
EXTENDS Naturals, Sequences

CONSTANTS
  Broker,             \* the broker instances
  SubId,              \* ids of subscriptions: entity, periodic (pernot) and csr ones
  RegId,              \* ids of registrations
  SubKind,            \* the kinds of subscription the requests make
  Crowded,            \* the kinds of record that several requests may address at once
  Ha,                 \* BOOLEAN: --high-availability mongo
  MaxReq,             \* bound: requests in all
  MaxFault            \* bound: broken streams, failed re-reads and restarts in all

Id == SubId \cup RegId
Kind == {"entity", "pernot", "csr", "reg"}
CacheName == {"sub", "pernot", "regSub", "reg"}
NoDoc == [kind |-> "none", has |-> {}]
Free == 0

ASSUME HaAssumption == /\ SubKind \subseteq Kind \ {"reg"}  /\ Crowded \subseteq Kind
                       /\ Ha \in BOOLEAN
                       /\ MaxReq \in Nat  /\ MaxFault \in Nat
                       /\ SubId \cap RegId = {}

VARIABLES
  db,       \* [Id -> document or NoDoc]: the subscriptions and registrations collections
  cache,    \* [Broker -> [CacheName -> [Id -> sequence of documents]]]
  lock,     \* [Broker -> [CacheName -> request holding the cache's write lock over several steps]]
  req,      \* sequence of the requests begun so far
  stream,   \* [Broker -> sequence of events not yet applied]
  open,     \* [Broker -> BOOLEAN]: the change stream is there
  phase,    \* [Broker -> "start" | "subs" | "regs" | "up"]
  apply,    \* [Broker -> what the change stream's thread is doing]
  missed,   \* [Broker -> BOOLEAN] (history): a change was not delivered since the last start
  crossed,  \* [Broker -> set of ids] (history): the change stream's item and a request's, one over the other
  fault     \* faults so far

haVars == <<db, cache, lock, req, stream, open, phase, apply, missed, crossed, fault>>

-----------------------------------------------------------------------------
(* The database and the events it publishes *)

\* The document's cache: the _subKind and timeInterval of the record decide
TenantSubCacheItemKind == [entity |-> "sub", pernot |-> "pernot", csr |-> "regSub", reg |-> "reg"]

Kinds(i) == IF i \in RegId THEN {"reg"} ELSE SubKind

\* A write is an event of every stream that is open, the writer's own included
Publish(i, op) ==
  /\ stream' = [b \in Broker |-> IF Ha /\ open[b] THEN Append(stream[b], [id |-> i, op |-> op]) ELSE stream[b]]
  /\ missed' = [b \in Broker |-> missed[b] \/ (Ha /\ ~open[b] /\ phase[b] = "up")]

SubscriptionCreate(i, d) == db[i] = NoDoc /\ db' = [db EXCEPT ![i] = d] /\ Publish(i, "upsert")
RegistrationCreate(i, d) == db[i] = NoDoc /\ db' = [db EXCEPT ![i] = d] /\ Publish(i, "upsert")
SubscriptionReplace(i, d) == db[i] # NoDoc /\ db' = [db EXCEPT ![i] = d] /\ Publish(i, "upsert")
RegistrationUpdate(i, d) == db[i] # NoDoc /\ db' = [db EXCEPT ![i] = d] /\ Publish(i, "upsert")
\* $set of every member: a record that is gone is matched by nothing, and nothing says so
SubscriptionUpdate(i, d) ==
  IF db[i] = NoDoc THEN UNCHANGED <<db, stream, missed>>
                   ELSE db' = [db EXCEPT ![i] = d] /\ Publish(i, "upsert")
\* Faulty: the change is published under a name of its own
SubscriptionDeleteMisnamed(i) == db[i] # NoDoc /\ db' = [db EXCEPT ![i] = NoDoc] /\ Publish(i, "remove")

SubscriptionDelete(i) == db[i] # NoDoc /\ db' = [db EXCEPT ![i] = NoDoc] /\ Publish(i, "delete")
RegistrationDelete(i) == db[i] # NoDoc /\ db' = [db EXCEPT ![i] = NoDoc] /\ Publish(i, "delete")

-----------------------------------------------------------------------------
(* The caches: an add appends, a remove takes the first item with the id *)

ItemAdd(b, c, i, d) == cache' = [cache EXCEPT ![b][c][i] = Append(@, d)]
ItemRemove(b, c, i) == cache' = [cache EXCEPT ![b][c][i] = IF @ = <<>> THEN @ ELSE Tail(@)]
ItemSwap(b, c, i, d) == cache' = [cache EXCEPT ![b][c][i] = Append(IF @ = <<>> THEN @ ELSE Tail(@), d)]

LockFree(b, c) == lock[b][c] = Free
Lock(b, c, r) == lock[b][c] = Free /\ lock' = [lock EXCEPT ![b][c] = r]
Unlock(b, c) == lock' = [lock EXCEPT ![b][c] = Free]

-----------------------------------------------------------------------------
(* Requests *)

Ended == {"done", "refused", "lost"}
InFlight(i) == {r \in DOMAIN req : req[r].id = i /\ req[r].pc \notin Ended}   \* requests on record i
New == Len(req) + 1

\* A client addresses a record once its POST is answered; PATCHes and DELETEs of a record
\* of a Crowded kind may go on at the same time, those of the others follow each other.
MayBegin(op, i, b) ==
  /\ Len(req) < MaxReq
  /\ phase[b] = "up"
  /\ \/ InFlight(i) = {}
     \/ op # "post" /\ \A r \in InFlight(i) : req[r].op # "post" /\ req[r].kind \in Crowded

Begin(op, i, b, pc, d) ==
  req' = Append(req, [op |-> op, id |-> i, at |-> b, pc |-> pc, doc |-> d,
                      kind |-> IF d # NoDoc THEN d.kind ELSE db[i].kind, beside |-> InFlight(i)])

Goto(r, pc) == req' = [req EXCEPT ![r].pc = pc]

\* A request stores its item with nothing held since its database write. The change stream may have
\* stored one in between (HaEventApplied), or have taken the old one out to add one (here).
CrossedBy(q) == crossed' = [crossed EXCEPT ![q.at] = @ \cup {i \in {q.id} :
                  apply[q.at].id = i /\ apply[q.at].todo # <<>> /\ Head(apply[q.at].todo).do = "add"}]

\* postSubscriptions, postCsourceSubscriptions: stored, then added to the cache its kind belongs in
PostSubscription(i, b, k) ==
  /\ MayBegin("post", i, b)
  /\ SubscriptionCreate(i, [kind |-> k, has |-> {New}])
  /\ Begin("post", i, b, "cache", [kind |-> k, has |-> {New}])
  /\ UNCHANGED <<cache, lock, open, phase, apply, crossed, fault>>

PostSubscriptionCached(r) ==
  LET q == req[r]  c == TenantSubCacheItemKind[q.doc.kind] IN
  /\ q.op = "post" /\ q.pc = "cache" /\ q.doc.kind \in {"entity", "pernot"}
  /\ LockFree(q.at, c)
  /\ ItemAdd(q.at, c, q.id, q.doc)
  /\ Goto(r, "done") /\ CrossedBy(q)
  /\ UNCHANGED <<db, lock, stream, open, phase, apply, missed, fault>>

PostCsourceSubscriptionCached(r) ==
  LET q == req[r] IN
  /\ q.op = "post" /\ q.pc = "cache" /\ q.doc.kind = "csr"
  /\ LockFree(q.at, "regSub")
  /\ ItemAdd(q.at, "regSub", q.id, q.doc)
  /\ Goto(r, "done") /\ CrossedBy(q)
  /\ UNCHANGED <<db, lock, stream, open, phase, apply, missed, fault>>

\* patchSubscription: not a csr subscription as far as this broker's cache knows; is it periodic?
PatchSubscription(i, b) ==
  /\ MayBegin("patch", i, b)
  /\ i \in SubId /\ db[i] # NoDoc
  /\ LockFree(b, "regSub") /\ cache[b]["regSub"][i] = <<>>
  /\ Begin("patch", i, b, IF cache[b]["pernot"][i] = <<>> THEN "lock" ELSE "lockPernot", NoDoc)
  /\ UNCHANGED <<db, cache, lock, stream, open, phase, apply, missed, crossed, fault>>

\* Faulty: without it
PatchSubscriptionRetrieveUnlocked(r) ==
  LET q == req[r] IN
  /\ q.id \in SubId /\ q.pc \in {"lock", "lockPernot"} /\ db[q.id] # NoDoc /\ LockFree(q.at, "sub")
  /\ req' = [req EXCEPT ![r].doc = [db[q.id] EXCEPT !.has = @ \cup {r}],
                        ![r].pc = IF q.pc = "lock" THEN "replace" ELSE "replacePernot"]
  /\ UNCHANGED <<db, cache, lock, stream, open, phase, apply, missed, crossed, fault>>

\* The record is read, and merged with the fragment, under the sub cache's write lock
PatchSubscriptionRetrieve(r) ==
  LET q == req[r] IN
  /\ q.id \in SubId /\ q.pc \in {"lock", "lockPernot"}
  /\ \/ /\ db[q.id] # NoDoc
        /\ Lock(q.at, "sub", r)
        /\ req' = [req EXCEPT ![r].doc = [db[q.id] EXCEPT !.has = @ \cup {r}],
                              ![r].pc = IF q.pc = "lock" THEN "replace" ELSE "replacePernot"]
     \/ /\ LockFree(q.at, "sub")      \* 404, or the merged document is refused: 400
        /\ Goto(r, "refused") /\ UNCHANGED lock
  /\ UNCHANGED <<db, cache, stream, open, phase, apply, missed, crossed, fault>>

\* Faulty: the lock is given back as soon as the record is stored
PatchSubscriptionReplaceUnlock(r) ==
  LET q == req[r] IN
  /\ q.id \in SubId /\ q.pc \in {"replace", "replacePernot"}
  /\ SubscriptionReplace(q.id, q.doc) /\ Unlock(q.at, "sub")
  /\ Goto(r, IF q.pc = "replace" THEN "swap" ELSE "swapPernot")
  /\ UNCHANGED <<cache, open, phase, apply, crossed, fault>>

PatchSubscriptionReplace(r) ==
  LET q == req[r] IN
  /\ q.id \in SubId /\ q.pc \in {"replace", "replacePernot"}
  /\ \/ /\ SubscriptionReplace(q.id, q.doc)
        /\ Goto(r, IF q.pc = "replace" THEN "swap" ELSE "swapPernot")
        /\ IF q.pc = "replace" THEN UNCHANGED lock ELSE Unlock(q.at, "sub")
     \/ /\ Goto(r, "refused")         \* deleted meanwhile, or the write failed: 500
        /\ Unlock(q.at, "sub")
        /\ UNCHANGED <<db, stream, missed>>
  /\ UNCHANGED <<cache, open, phase, apply, crossed, fault>>

\* The merged document replaces the cached item: under the lock still held, or - a periodic
\* subscription - under the periodic cache's own lock, the sub cache's given back before
PatchSubscriptionSwap(r) ==
  LET q == req[r] IN
  /\ q.id \in SubId
  /\ \/ q.op = "patch" /\ q.pc = "swap" /\ ItemSwap(q.at, "sub", q.id, q.doc) /\ Unlock(q.at, "sub")
     \/ q.pc = "swapPernot" /\ ItemSwap(q.at, "pernot", q.id, q.doc) /\ UNCHANGED lock
  /\ Goto(r, "done") /\ CrossedBy(q)
  /\ UNCHANGED <<db, stream, open, phase, apply, missed, fault>>

\* deleteSubscription: the record first, then the item in the sub and in the periodic cache
DeleteSubscription(i, b) ==
  /\ MayBegin("delete", i, b)
  /\ i \in SubId
  /\ LockFree(b, "regSub") /\ cache[b]["regSub"][i] = <<>>
  /\ SubscriptionDelete(i)
  /\ Begin("delete", i, b, "drop", NoDoc)
  /\ UNCHANGED <<cache, lock, open, phase, apply, crossed, fault>>

DeleteSubscriptionDrop(r) ==
  LET q == req[r] IN
  /\ q.op = "delete" /\ q.id \in SubId
  /\ \/ q.pc = "drop" /\ LockFree(q.at, "sub") /\ ItemRemove(q.at, "sub", q.id) /\ Goto(r, "dropPernot")
     \/ q.pc = "dropPernot" /\ ItemRemove(q.at, "pernot", q.id) /\ Goto(r, "done")
  /\ UNCHANGED <<db, lock, stream, open, phase, apply, missed, crossed, fault>>

\* patchCsourceSubscription: under the csr cache's write lock the CACHED copy is merged with
\* the fragment, every member of the result is written, and it replaces the cached item
PatchCsourceSubscription(i, b) ==
  /\ MayBegin("patchCsr", i, b)
  /\ i \in SubId /\ cache[b]["regSub"][i] # <<>>
  /\ Lock(b, "regSub", New)
  /\ Begin("patchCsr", i, b, "update", [Head(cache[b]["regSub"][i]) EXCEPT !.has = @ \cup {New}])
  /\ UNCHANGED <<db, cache, stream, open, phase, apply, missed, crossed, fault>>

PatchCsourceSubscriptionUpdate(r) ==
  /\ req[r].op = "patchCsr" /\ req[r].pc = "update"
  /\ \/ SubscriptionUpdate(req[r].id, req[r].doc) /\ Goto(r, "swapCsr") /\ UNCHANGED lock
     \/ /\ Goto(r, "refused")         \* 400
        /\ Unlock(req[r].at, "regSub")
        /\ UNCHANGED <<db, stream, missed>>
  /\ UNCHANGED <<cache, open, phase, apply, crossed, fault>>

PatchCsourceSubscriptionSwap(r) ==
  LET q == req[r] IN
  /\ q.pc = "swapCsr"
  /\ ItemSwap(q.at, "regSub", q.id, q.doc) /\ Unlock(q.at, "regSub")
  /\ Goto(r, "done")
  /\ UNCHANGED <<db, stream, open, phase, apply, missed, crossed, fault>>

\* deleteCsourceSubscription: the cached item first, then the record
DeleteCsourceSubscription(i, b) ==
  /\ MayBegin("deleteCsr", i, b)
  /\ i \in SubId /\ LockFree(b, "regSub") /\ cache[b]["regSub"][i] # <<>>
  /\ ItemRemove(b, "regSub", i)
  /\ Begin("deleteCsr", i, b, "delete", NoDoc)
  /\ UNCHANGED <<db, lock, stream, open, phase, apply, missed, crossed, fault>>

DeleteCsourceSubscriptionStored(r) ==
  LET q == req[r] IN
  /\ q.op = "deleteCsr" /\ q.pc = "delete"
  /\ IF db[q.id] = NoDoc THEN UNCHANGED <<db, stream, missed>> ELSE SubscriptionDelete(q.id)
  /\ Goto(r, "done")
  /\ UNCHANGED <<cache, lock, open, phase, apply, crossed, fault>>

-----------------------------------------------------------------------------
(* Registrations: POST and PATCH hold the reg cache's write lock from before the *)
(* database is asked until the cache is changed; DELETE takes it after           *)

PostCsourceRegistration(i, b) ==
  /\ MayBegin("post", i, b)
  /\ i \in RegId
  /\ Lock(b, "reg", New)
  /\ RegistrationCreate(i, [kind |-> "reg", has |-> {New}])
  /\ Begin("post", i, b, "cacheReg", [kind |-> "reg", has |-> {New}])
  /\ UNCHANGED <<cache, open, phase, apply, crossed, fault>>

PostCsourceRegistrationCached(r) ==
  LET q == req[r] IN
  /\ q.pc = "cacheReg"
  /\ ItemAdd(q.at, "reg", q.id, q.doc) /\ Unlock(q.at, "reg")
  /\ Goto(r, "done")
  /\ UNCHANGED <<db, stream, open, phase, apply, missed, crossed, fault>>

PatchCsourceRegistration(i, b) ==
  /\ MayBegin("patch", i, b)
  /\ i \in RegId /\ db[i] # NoDoc
  /\ Lock(b, "reg", New)
  /\ Begin("patch", i, b, "updateReg", [db[i] EXCEPT !.has = @ \cup {New}])
  /\ UNCHANGED <<db, cache, stream, open, phase, apply, missed, crossed, fault>>

PatchCsourceRegistrationUpdate(r) ==
  LET q == req[r] IN
  /\ q.pc = "updateReg"
  /\ \/ RegistrationUpdate(q.id, q.doc) /\ Goto(r, "swapReg") /\ UNCHANGED lock
     \/ /\ Goto(r, "refused")         \* the merged one is refused: 400, 409; deleted meanwhile: 500
        /\ Unlock(q.at, "reg")
        /\ UNCHANGED <<db, stream, missed>>
  /\ UNCHANGED <<cache, open, phase, apply, crossed, fault>>

PatchCsourceRegistrationSwap(r) ==
  LET q == req[r] IN
  /\ q.pc = "swapReg"
  /\ ItemSwap(q.at, "reg", q.id, q.doc) /\ Unlock(q.at, "reg")
  /\ Goto(r, "done")
  /\ UNCHANGED <<db, stream, open, phase, apply, missed, crossed, fault>>

DeleteCsourceRegistration(i, b) ==
  /\ MayBegin("delete", i, b)
  /\ i \in RegId
  /\ RegistrationDelete(i)
  /\ Begin("delete", i, b, "dropReg", NoDoc)
  /\ UNCHANGED <<cache, lock, open, phase, apply, crossed, fault>>

DeleteCsourceRegistrationDrop(r) ==
  LET q == req[r] IN
  /\ q.pc = "dropReg"
  /\ LockFree(q.at, "reg") /\ ItemRemove(q.at, "reg", q.id)
  /\ Goto(r, "done")
  /\ UNCHANGED <<db, lock, stream, open, phase, apply, missed, crossed, fault>>

-----------------------------------------------------------------------------
(* The change stream's thread: one event at a time, by its id alone *)

Idle == [pc |-> "idle", id |-> "none", todo |-> <<>>]
Remove(c) == [do |-> "remove", cache |-> c, doc |-> NoDoc]
Swap(c, d) == [do |-> "swap", cache |-> c, doc |-> d]
Add(c, d) == [do |-> "add", cache |-> c, doc |-> d]

\* The lock holds that take an item out of whichever cache has it ...
TenantSubCacheItemDrop == <<Remove("sub"), Remove("regSub"), Remove("pernot")>>
TenantRegCacheItemDrop == <<Remove("reg")>>

\* ... and those that store a record re-read: out of the caches it is not in, then replaced in
\* its own under one hold - in the periodic cache, whose functions lock for themselves, two
TenantSubCacheItemStore(d) ==
  LET Unless(c) == IF TenantSubCacheItemKind[d.kind] = c THEN <<>> ELSE <<Remove(c)>> IN
  Unless("pernot") \o Unless("sub") \o Unless("regSub")
    \o IF d.kind = "pernot" THEN <<Remove("pernot"), Add("pernot", d)>>
                            ELSE <<Swap(TenantSubCacheItemKind[d.kind], d)>>

\* An event is taken once the caches are loaded (haApplyWait)
EventTreat(b) ==
  /\ phase[b] = "up" /\ apply[b] = Idle /\ stream[b] # <<>>
  /\ LET e == Head(stream[b]) IN
     /\ apply' = [apply EXCEPT ![b] = [pc |-> IF e.op = "delete" THEN "todo" ELSE "read", id |-> e.id,
           todo |-> IF e.op # "delete" THEN <<>>
                    ELSE IF e.id \in RegId THEN TenantRegCacheItemDrop ELSE TenantSubCacheItemDrop]]
  /\ stream' = [stream EXCEPT ![b] = Tail(@)]
  /\ UNCHANGED <<db, cache, lock, req, open, phase, missed, crossed, fault>>

\* The record is read with no lock of a cache; one that is gone is dropped
TenantSubCacheItemRefresh(b) ==
  /\ apply[b].pc = "read" /\ apply[b].id \in SubId
  /\ apply' = [apply EXCEPT ![b].pc = "todo",
        ![b].todo = IF db[apply[b].id] = NoDoc THEN TenantSubCacheItemDrop ELSE TenantSubCacheItemStore(db[apply[b].id])]
  /\ UNCHANGED <<db, cache, lock, req, stream, open, phase, missed, crossed, fault>>

TenantRegCacheItemRefresh(b) ==
  /\ apply[b].pc = "read" /\ apply[b].id \in RegId
  /\ apply' = [apply EXCEPT ![b].pc = "todo",
        ![b].todo = IF db[apply[b].id] = NoDoc THEN TenantRegCacheItemDrop ELSE <<Swap("reg", db[apply[b].id])>>]
  /\ UNCHANGED <<db, cache, lock, req, stream, open, phase, missed, crossed, fault>>

\* The read fails: the change is logged as not applied, and that is all
HaEventNotApplied(b) ==
  /\ fault < MaxFault /\ fault' = fault + 1
  /\ apply[b].pc = "read"
  /\ apply' = [apply EXCEPT ![b] = Idle]
  /\ missed' = [missed EXCEPT ![b] = TRUE]
  /\ UNCHANGED <<db, cache, lock, req, stream, open, phase, crossed>>

\* One lock hold of the store or drop
HaEventApplied(b) ==
  LET a == apply[b]  s == Head(a.todo) IN
  /\ a.pc = "todo" /\ LockFree(b, s.cache)
  /\ CASE s.do = "remove" -> ItemRemove(b, s.cache, a.id)
       [] s.do = "swap"   -> ItemSwap(b, s.cache, a.id, s.doc)
       [] s.do = "add"    -> ItemAdd(b, s.cache, a.id, s.doc)
  /\ apply' = [apply EXCEPT ![b] = IF Len(a.todo) = 1 THEN Idle ELSE [a EXCEPT !.todo = Tail(@)]]
  /\ crossed' = [crossed EXCEPT ![b] = @ \cup {i \in {a.id} : \E r \in InFlight(i) :
        req[r].at = b /\ (req[r].pc = "swapPernot" \/ (s.do # "remove" /\ req[r].pc = "cache"))}]
  /\ UNCHANGED <<db, lock, req, stream, open, phase, missed, fault>>

-----------------------------------------------------------------------------
(* Start, and what goes wrong *)

\* Faulty: opened once they are
HaInitLate(b) ==
  /\ phase[b] = "start" /\ phase' = [phase EXCEPT ![b] = "subs"]
  /\ UNCHANGED <<db, cache, lock, req, stream, open, apply, missed, crossed, fault>>

\* The stream is opened before the caches are loaded
HaInit(b) ==
  /\ phase[b] = "start"
  /\ open' = [open EXCEPT ![b] = Ha] /\ phase' = [phase EXCEPT ![b] = "subs"]
  /\ UNCHANGED <<db, cache, lock, req, stream, apply, missed, crossed, fault>>

Load(b, ids) == cache' = [cache EXCEPT ![b] = [c \in CacheName |-> [i \in Id |->
                  cache[b][c][i] \o IF i \in ids /\ db[i] # NoDoc /\ TenantSubCacheItemKind[db[i].kind] = c
                                    THEN <<db[i]>> ELSE <<>>]]]

TenantSubCacheReload(b) ==
  /\ phase[b] = "subs" /\ Load(b, SubId) /\ phase' = [phase EXCEPT ![b] = "regs"]
  /\ UNCHANGED <<db, lock, req, stream, open, apply, missed, crossed, fault>>

TenantRegCacheReload(b) ==
  /\ phase[b] = "regs" /\ Load(b, RegId) /\ phase' = [phase EXCEPT ![b] = "up"]
  /\ UNCHANGED <<db, lock, req, stream, open, apply, missed, crossed, fault>>

\* An error the driver cannot resume over: what was not delivered is gone ...
StreamBreak(b) ==
  /\ fault < MaxFault /\ fault' = fault + 1
  /\ open[b] /\ phase[b] = "up"
  /\ open' = [open EXCEPT ![b] = FALSE]
  /\ stream' = [stream EXCEPT ![b] = <<>>]
  /\ missed' = [missed EXCEPT ![b] = @ \/ stream[b] # <<>>]
  /\ UNCHANGED <<db, cache, lock, req, phase, apply, crossed>>

\* ... and the stream is opened again from now (haWatchThread)
StreamReopen(b) ==
  /\ Ha /\ ~open[b] /\ phase[b] = "up"
  /\ open' = [open EXCEPT ![b] = TRUE]
  /\ UNCHANGED <<db, cache, lock, req, stream, phase, apply, missed, crossed, fault>>

\* The broker is killed and started again: its caches, its stream and its requests are gone
Restart(b) ==
  /\ fault < MaxFault /\ fault' = fault + 1
  /\ phase[b] = "up"
  /\ phase' = [phase EXCEPT ![b] = "start"] /\ open' = [open EXCEPT ![b] = FALSE]
  /\ stream' = [stream EXCEPT ![b] = <<>>] /\ apply' = [apply EXCEPT ![b] = Idle]
  /\ cache' = [cache EXCEPT ![b] = [c \in CacheName |-> [i \in Id |-> <<>>]]]
  /\ lock' = [lock EXCEPT ![b] = [c \in CacheName |-> Free]]
  /\ missed' = [missed EXCEPT ![b] = FALSE] /\ crossed' = [crossed EXCEPT ![b] = {}]
  /\ req' = [r \in DOMAIN req |-> IF req[r].at = b /\ req[r].pc \notin Ended THEN [req[r] EXCEPT !.pc = "lost"] ELSE req[r]]
  /\ UNCHANGED db

-----------------------------------------------------------------------------
\* The database holds any records; every broker has loaded them
HaSyncInit ==
  /\ db \in {d \in [Id -> {NoDoc} \cup [kind : Kind, has : {{0}}]] :
               \A i \in Id : d[i] = NoDoc \/ d[i].kind \in Kinds(i)}
  /\ cache = [b \in Broker |-> [c \in CacheName |-> [i \in Id |->
        IF db[i] # NoDoc /\ TenantSubCacheItemKind[db[i].kind] = c THEN <<db[i]>> ELSE <<>>]]]
  /\ lock = [b \in Broker |-> [c \in CacheName |-> Free]]
  /\ req = <<>>
  /\ stream = [b \in Broker |-> <<>>] /\ open = [b \in Broker |-> Ha]
  /\ phase = [b \in Broker |-> "up"] /\ apply = [b \in Broker |-> Idle]
  /\ missed = [b \in Broker |-> FALSE] /\ crossed = [b \in Broker |-> {}] /\ fault = 0

Begins(b) == \E i \in Id :
  \/ \E k \in Kinds(i) \ {"reg"} : PostSubscription(i, b, k)
  \/ PatchSubscription(i, b) \/ DeleteSubscription(i, b)
  \/ PatchCsourceSubscription(i, b) \/ DeleteCsourceSubscription(i, b)
  \/ PostCsourceRegistration(i, b) \/ PatchCsourceRegistration(i, b) \/ DeleteCsourceRegistration(i, b)

Goes(r) ==
  \/ PostSubscriptionCached(r) \/ PostCsourceSubscriptionCached(r)
  \/ PatchSubscriptionRetrieve(r) \/ PatchSubscriptionReplace(r) \/ PatchSubscriptionSwap(r)
  \/ DeleteSubscriptionDrop(r)
  \/ PatchCsourceSubscriptionUpdate(r) \/ PatchCsourceSubscriptionSwap(r) \/ DeleteCsourceSubscriptionStored(r)
  \/ PostCsourceRegistrationCached(r) \/ PatchCsourceRegistrationUpdate(r) \/ PatchCsourceRegistrationSwap(r)
  \/ DeleteCsourceRegistrationDrop(r)

HaWatchThread(b) ==
  \/ EventTreat(b) \/ TenantSubCacheItemRefresh(b) \/ TenantRegCacheItemRefresh(b) \/ HaEventApplied(b)
  \/ StreamReopen(b)

Starts(b) == HaInit(b) \/ TenantSubCacheReload(b) \/ TenantRegCacheReload(b)

HaSyncNext ==
  \/ \E b \in Broker : \/ Begins(b) \/ HaWatchThread(b) \/ Starts(b)
                       \/ HaEventNotApplied(b) \/ StreamBreak(b) \/ Restart(b)
  \/ \E r \in DOMAIN req : Goes(r)

\* Threads run on; nothing says that a request is made or that anything fails
HaSyncFairness ==
  /\ \A b \in Broker : WF_haVars(HaWatchThread(b)) /\ WF_haVars(Starts(b))
  /\ \A r \in 1..MaxReq : WF_haVars(r \in DOMAIN req /\ Goes(r))

HaSyncSpec == HaSyncInit /\ [][HaSyncNext]_haVars /\ HaSyncFairness

-----------------------------------------------------------------------------
(* Properties *)

HaSyncTypeOK ==
  /\ db \in [Id -> {NoDoc} \cup [kind : Kind, has : SUBSET (0..MaxReq)]]
  /\ \A b \in Broker, c \in CacheName, i \in Id : cache[b][c][i] \in Seq([kind : Kind, has : SUBSET (0..MaxReq)])
  /\ lock \in [Broker -> [CacheName -> 0..MaxReq]]
  /\ \A b \in Broker : \A n \in DOMAIN stream[b] : stream[b][n] \in [id : Id, op : {"upsert", "delete"}]
  /\ open \in [Broker -> BOOLEAN] /\ missed \in [Broker -> BOOLEAN]
  /\ phase \in [Broker -> {"start", "subs", "regs", "up"}]

\* Broker b has nothing left to do about record i
Settled(b, i) ==
  /\ phase[b] = "up" /\ ~missed[b]
  /\ \A n \in DOMAIN stream[b] : stream[b][n].id # i
  /\ apply[b].id # i
  /\ \A r \in InFlight(i) : req[r].at # b

Follows(b, i) == \A c \in CacheName : cache[b][c][i] =
  IF db[i] # NoDoc /\ TenantSubCacheItemKind[db[i].kind] = c THEN <<db[i]>> ELSE <<>>

\* Once a broker has applied the events of a record and its own requests on it have ended, its caches hold
\* exactly what the database holds of it: nothing deleted, nothing stale, nothing twice and nothing in two
\* caches - whichever broker the requests went to and however its refreshes ran between them.
CacheFollowsDb == \A b \in Broker, i \in Id : Settled(b, i) /\ i \notin crossed[b] => Follows(b, i)

\* A PATCH answered 204 is in the record until the record is deleted, unless another broker worked on the
\* record at the same time: the write lock orders the read-merge-write of one broker only. (csr
\* subscriptions, patched from the cached copy, apart.)
PatchKept == \A r \in DOMAIN req :
  LET i == req[r].id  others == {q \in DOMAIN req : q \in req[r].beside \/ r \in req[q].beside} IN
  (/\ req[r].op = "patch" /\ req[r].pc = "done" /\ req[r].doc.kind # "csr"
   /\ \A q \in others : req[q].at = req[r].at
   /\ db[i] # NoDoc /\ \E p \in db[i].has : p \in req[r].doc.has /\ (p = 0 \/ req[p].op = "post"))
  => r \in db[i].has

\* Every change reaches the caches of every broker that lost no event.
EventuallyFollows == <>[](\A b \in Broker, i \in Id : missed[b] \/ i \in crossed[b] \/ Follows(b, i))

=============================================================================
