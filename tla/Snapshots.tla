----------------------------- MODULE Snapshots -----------------------------
(***************************************************************************)
(* Snapshots of a tenant: the cached item and its references, the stores   *)
(* (entities, history) that hold what was captured, and the record of it   *)
(* in the database - while it is captured, read, cloned, patched and       *)
(* deleted, and over a kill of the broker.                                 *)
(*                                                                         *)
(* An item is named by its snapSeq, which names its stores too. Reads,     *)
(* PATCHes and the loops' visits are holders of a snapshot and no more:    *)
(* entities and the members of the record, but for its _snapSeq, are left  *)
(* out. A 404 or 409 that changes nothing is no step.                      *)
(***************************************************************************)
EXTENDS Naturals, Sequences, FiniteSets

CONSTANTS
  SnapId,             \* ids of snapshots
  MaxSnapSeq,         \* bound: snapshots made between two starts
  MaxSnapReq,         \* bound: requests in all
  MaxSnapFault        \* bound: kills, and writes of a record that fail

NoSeq == 0
SnapSeq == 1..MaxSnapSeq

ASSUME SnapshotAssumption == MaxSnapSeq \in Nat /\ MaxSnapReq \in Nat /\ MaxSnapFault \in Nat

VARIABLES
  item,         \* [SnapSeq -> the cache's item, linked or only held]
  store,        \* snapSeqs whose stores are there
  record,       \* [SnapId -> _snapSeq of its record in the database, or NoSeq]
  nextSnapSeq,
  holder,       \* sequence of the requests so far
  left,         \* (history) stores a kill left behind
  torn,         \* (history) ids made and deleted at once, or a write of whose record failed
  snapFault     \* faults so far

snapVars == <<item, store, record, nextSnapSeq, holder, left, torn, snapFault>>
historyVars == <<left, torn, snapFault>>

NoItem == [id |-> "none", linked |-> FALSE, refs |-> 0, tenant |-> FALSE, capture |-> FALSE]
Linked(id) == {q \in SnapSeq : item[q].linked /\ item[q].id = id}

-----------------------------------------------------------------------------
(* The cache: an item goes, and its stores with it, when nobody refers to it *)

\* snapshotItemDestroy, the hook of the last unpin
SnapshotItemDestroy(q) == store' = store \ {q}

ItemDrop(items, q) ==
  IF items[q].refs = 1 THEN item' = [items EXCEPT ![q] = NoItem] /\ SnapshotItemDestroy(q)
                       ELSE item' = [items EXCEPT ![q].refs = @ - 1] /\ UNCHANGED store

ItemUnpin(q) == ItemDrop(item, q)
ItemPin(q) == item' = [item EXCEPT ![q].refs = @ + 1]

\* Unlinked by its id: the item there now, with the cache's reference
ItemDelete(id) ==
  \/ \E q \in Linked(id) : ItemDrop([item EXCEPT ![q].linked = FALSE], q)
  \/ Linked(id) = {} /\ UNCHANGED <<item, store>>

\* Added pinned, its snapSeq the next
ItemAdd(id) ==
  /\ Linked(id) = {} /\ nextSnapSeq <= MaxSnapSeq
  /\ item' = [item EXCEPT ![nextSnapSeq] = [NoItem EXCEPT !.id = id, !.linked = TRUE, !.refs = 2]]
  /\ nextSnapSeq' = nextSnapSeq + 1

-----------------------------------------------------------------------------
(* Requests *)

Done == [op |-> "none", id |-> "none", seq |-> NoSeq, from |-> NoSeq, pc |-> "done"]
Asks(op, id, seq, from, pc) == [op |-> op, id |-> id, seq |-> seq, from |-> from, pc |-> pc]
Arrives(r) == Len(holder) < MaxSnapReq /\ holder' = Append(holder, r)
Step(h, pc) == holder' = [holder EXCEPT ![h].pc = pc]
Under(id, ops) == \E h \in DOMAIN holder : holder[h].id = id /\ holder[h].op \in ops
Is(h, op, pc) == holder[h].op = op /\ holder[h].pc = pc
Tear(id, ops) == torn' = IF Under(id, ops) THEN torn \cup {id} ELSE torn

\* The database fails, and the caller does not look
DbFails(id) == snapFault < MaxSnapFault /\ snapFault' = snapFault + 1 /\ torn' = torn \cup {id} /\ UNCHANGED record

PostSnapshot(id) ==
  /\ ItemAdd(id) /\ Arrives(Asks("make", id, nextSnapSeq, NoSeq, "tenant")) /\ Tear(id, {"delete"})
  /\ UNCHANGED <<store, record, left, snapFault>>

\* The source is pinned for the whole clone
CloneSnapshot(from, id) ==
  /\ item[from].linked /\ item[from].id # id /\ ItemPin(from)
  /\ Arrives(Asks("make", id, NoSeq, from, "add"))
  /\ UNCHANGED <<store, record, nextSnapSeq, historyVars>>

CloneItemAdd(h) ==
  LET r == holder[h] IN
  /\ Is(h, "make", "add")
  /\ \/ ItemAdd(r.id) /\ holder' = [holder EXCEPT ![h].seq = nextSnapSeq, ![h].pc = "tenant"] /\ UNCHANGED store
     \/ Linked(r.id) # {} /\ ItemUnpin(r.from) /\ holder' = [holder EXCEPT ![h] = Done] /\ UNCHANGED nextSnapSeq
  /\ Tear(r.id, {"delete"})
  /\ UNCHANGED <<record, left, snapFault>>

\* The snapshot's own tenant and stores; a clone's are filled from the source's, if that has them yet
SnapshotTenantCreate(h) ==
  LET r == holder[h] IN
  /\ Is(h, "make", "tenant")
  /\ \/ /\ item' = [item EXCEPT ![r.seq].tenant = TRUE] /\ store' = store \cup {r.seq}
        /\ Step(h, IF r.from # NoSeq /\ item[r.from].tenant THEN "copy" ELSE "persist")
     \/ ItemDelete(r.id) /\ Step(h, "unpin")         \* 500: the stores cannot be set up
  /\ UNCHANGED <<record, nextSnapSeq, historyVars>>

CloneCopied(h) == Is(h, "make", "copy") /\ Step(h, "persist") /\ UNCHANGED <<item, store, record, nextSnapSeq, historyVars>>

\* An insert: an id that is there already is left as it is
SnapshotCreate(h) ==
  LET r == holder[h] IN
  /\ Is(h, "make", "persist")
  /\ \/ record' = (IF record[r.id] = NoSeq THEN [record EXCEPT ![r.id] = r.seq] ELSE record) /\ UNCHANGED <<torn, snapFault>>
     \/ DbFails(r.id)
  /\ Step(h, IF r.from = NoSeq THEN "capture" ELSE "unpin")
  /\ UNCHANGED <<item, store, nextSnapSeq, left>>

\* Faulty: the worker relies on the request's reference
CapturePinMissing(q) == item' = [item EXCEPT ![q].capture = TRUE]

\* The worker's own reference, taken before it is spawned
CapturePin(q) == item' = [item EXCEPT ![q].capture = TRUE, ![q].refs = @ + 1]

SnapshotCaptureAsync(h) ==
  /\ Is(h, "make", "capture") /\ CapturePin(holder[h].seq) /\ Step(h, "unpin")
  /\ UNCHANGED <<store, record, nextSnapSeq, historyVars>>

SnapshotWorkerEnd(q) ==
  /\ item[q].capture /\ ItemDrop([item EXCEPT ![q].capture = FALSE], q)
  /\ UNCHANGED <<record, nextSnapSeq, holder, historyVars>>

\* Captured inline
ExecQueries(h) == Is(h, "make", "capture") /\ Step(h, "unpin") /\ UNCHANGED <<item, store, record, nextSnapSeq, historyVars>>

\* A read or write routed to the snapshot, a PATCH, a visit of the loops
HoldSnapshot(q) ==
  /\ item[q].linked /\ ItemPin(q) /\ Arrives(Asks("use", item[q].id, q, NoSeq, "unpin"))
  /\ UNCHANGED <<store, record, nextSnapSeq, historyVars>>

\* DELETE, and the purge for each id it found
DeleteSnapshot(q) ==
  /\ item[q].linked /\ ItemPin(q) /\ Arrives(Asks("delete", item[q].id, q, NoSeq, "unlink"))
  /\ Tear(item[q].id, {"make"})
  /\ UNCHANGED <<store, record, nextSnapSeq, left, snapFault>>

DeleteSnapshotUnlink(h) ==
  /\ Is(h, "delete", "unlink") /\ ItemDelete(holder[h].id) /\ Step(h, "erase")
  /\ UNCHANGED <<record, nextSnapSeq, historyVars>>

SnapshotDelete(h) ==
  LET id == holder[h].id IN
  /\ Is(h, "delete", "erase") /\ Step(h, "unpin")
  /\ \/ record' = [record EXCEPT ![id] = NoSeq] /\ UNCHANGED <<torn, snapFault>>
     \/ DbFails(id)
  /\ UNCHANGED <<item, store, nextSnapSeq, left>>

\* The request's reference goes; a clone's other one, of the source, after it
Unpin(h) ==
  LET r == holder[h] IN
  /\ r.pc = "unpin" /\ ItemUnpin(r.seq)
  /\ holder' = [holder EXCEPT ![h] = IF r.from = NoSeq THEN Done ELSE [r EXCEPT !.seq = r.from, !.from = NoSeq]]
  /\ UNCHANGED <<record, nextSnapSeq, historyVars>>

-----------------------------------------------------------------------------
\* The broker is killed; the next start loads what is recorded
TenantSnapshotCacheLoad ==
  /\ snapFault < MaxSnapFault /\ snapFault' = snapFault + 1
  /\ LET loaded == {record[id] : id \in SnapId} \ {NoSeq}
     IN  /\ item' = [q \in SnapSeq |-> IF q \notin loaded THEN NoItem
                       ELSE [NoItem EXCEPT !.id = CHOOSE id \in SnapId : record[id] = q,
                                           !.linked = TRUE, !.refs = 1, !.tenant = TRUE]]
         /\ store' = store \cup loaded /\ left' = store \ loaded
         /\ nextSnapSeq' = 1 + CHOOSE n \in loaded \cup {0} : \A q \in loaded : q <= n
  /\ holder' = [h \in DOMAIN holder |-> Done]
  /\ UNCHANGED <<record, torn>>

SnapInit ==
  /\ item = [q \in SnapSeq |-> NoItem] /\ store = {} /\ record = [id \in SnapId |-> NoSeq]
  /\ nextSnapSeq = 1 /\ holder = <<>> /\ left = {} /\ torn = {} /\ snapFault = 0

SnapNext ==
  \/ \E id \in SnapId : PostSnapshot(id) \/ \E q \in SnapSeq : CloneSnapshot(q, id)
  \/ \E q \in SnapSeq : HoldSnapshot(q) \/ DeleteSnapshot(q) \/ SnapshotWorkerEnd(q)
  \/ \E h \in DOMAIN holder :
       \/ CloneItemAdd(h) \/ SnapshotTenantCreate(h) \/ CloneCopied(h) \/ SnapshotCreate(h)
       \/ SnapshotCaptureAsync(h) \/ ExecQueries(h) \/ DeleteSnapshotUnlink(h) \/ SnapshotDelete(h) \/ Unpin(h)
  \/ TenantSnapshotCacheLoad

SnapSpec == SnapInit /\ [][SnapNext]_snapVars

-----------------------------------------------------------------------------
(* Properties *)

\* References to item q: a request's to what it makes or holds, a clone's to its source
References(q) ==
  Cardinality({h \in DOMAIN holder : holder[h].seq = q}) + Cardinality({h \in DOMAIN holder : holder[h].from = q})
    + (IF item[q].linked THEN 1 ELSE 0) + (IF item[q].capture THEN 1 ELSE 0)

\* Types; an item's count is the number of those that refer to it; one id, one item
SnapTypeOK ==
  /\ \A q \in SnapSeq : item[q].refs = References(q) /\ (item[q].refs = 0 <=> item[q] = NoItem)
  /\ \A id \in SnapId : Cardinality(Linked(id)) <= 1
  /\ store \subseteq SnapSeq /\ record \in [SnapId -> SnapSeq \cup {NoSeq}] /\ nextSnapSeq \in 1..(MaxSnapSeq + 1)

\* Whoever holds a snapshot - a read, a clone of it, the worker that captures it - finds its stores, whatever
\* DELETEs come meanwhile; stores nobody refers to any more are gone (but for those a kill left behind);
\* what is recorded has its stores, and a snapshot that was made is recorded, so that a start at any time
\* finds both - unless it was made and deleted at the same time, or a write of its record failed
StoresWhileUsed ==
  /\ \A q \in SnapSeq : item[q].tenant \/ item[q].capture => q \in store
  /\ \A h \in DOMAIN holder : holder[h].pc = "copy" => holder[h].from \in store
  /\ \A q \in store : item[q].refs > 0 \/ q \in left
  /\ \A id \in SnapId \ torn :
       /\ record[id] # NoSeq => record[id] \in store
       /\ \A q \in Linked(id) : record[id] = q \/ Under(id, {"make", "delete"})

=============================================================================
