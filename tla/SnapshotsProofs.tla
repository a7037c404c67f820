-------------------------- MODULE SnapshotsProofs --------------------------
(***************************************************************************)
(* Proofs about Snapshots: that an item's count is the number of those     *)
(* that refer to it, and that stores are there while somebody uses them    *)
(* and as long as they are recorded.                                       *)
(*                                                                         *)
(* An action does three things: it moves one request, it changes items and *)
(* it changes a record. ItemsStep, HolderStep and RecordStep say what such *)
(* a change may be; InvMoves shows the invariant over all three at once,   *)
(* so that an action's lemma has its own change to show and no more. What  *)
(* is said of an id (IdShape) stays as it is where an action leaves the    *)
(* id's item and record alone (IdFrame).                                   *)
(***************************************************************************)
EXTENDS Snapshots, SeqFacts

Making == {"tenant", "copy", "persist", "capture"}
BeforeRecord == {"tenant", "copy", "persist"}
SnapOps == {"none", "make", "use", "delete"}
SnapPcs == {"done", "add", "tenant", "copy", "persist", "capture", "unlink", "erase", "unpin"}
Seqs == 0..MaxSnapSeq
Items == [id : SnapId \cup {"none"}, linked : BOOLEAN, refs : Nat, tenant : BOOLEAN, capture : BOOLEAN]
Requests == [op : SnapOps, id : SnapId \cup {"none"}, seq : Seqs, from : Seqs, pc : SnapPcs]

SnapTypes ==
  /\ item \in [SnapSeq -> Items] /\ holder \in Seq(Requests) /\ record \in [SnapId -> Seqs]
  /\ store \subseteq SnapSeq /\ left \subseteq SnapSeq /\ nextSnapSeq \in 1..(MaxSnapSeq + 1)

\* What a request has at each of its steps
RequestShape(r) ==
  /\ r.pc = "done" <=> r.op = "none"
  /\ r.pc = "done" => r.seq = NoSeq /\ r.from = NoSeq
  /\ r.op = "use" => r.pc = "unpin" /\ r.from = NoSeq
  /\ r.op = "delete" => r.pc \in {"unlink", "erase", "unpin"} /\ r.from = NoSeq
  /\ r.op = "make" => r.pc \in Making \cup {"add", "unpin"}
  /\ r.pc = "add" => r.seq = NoSeq /\ r.from # NoSeq
  /\ r.op # "none" => r.id \in SnapId
  /\ r.pc \notin {"done", "add"} => r.seq # NoSeq
  /\ r.pc \in Making => item[r.seq].id = r.id /\ ~item[r.seq].capture /\ (r.pc # "tenant" => item[r.seq].tenant)
  /\ r.pc = "copy" => r.from # NoSeq /\ item[r.from].tenant
  /\ r.seq < nextSnapSeq /\ r.from < nextSnapSeq
  /\ r.pc \in BeforeRecord => \A id \in SnapId : record[id] # r.seq

HoldersOf(q) == {h \in DOMAIN holder : holder[h].seq = q}
ClonesOf(q) == {h \in DOMAIN holder : holder[h].from = q}
OneIf(b) == IF b THEN 1 ELSE 0

RefsOf(q) == item[q].refs = Cardinality(HoldersOf(q)) + Cardinality(ClonesOf(q)) + OneIf(item[q].linked) + OneIf(item[q].capture)

ItemShape(q) ==
  /\ item[q].refs = 0 <=> item[q] = NoItem
  /\ item[q] # NoItem => q < nextSnapSeq
  /\ item[q].linked => item[q].id \in SnapId
  /\ item[q].tenant \/ item[q].capture => q \in store
  /\ q \in store => item[q].refs > 0 \/ q \in left

\* One id, one item; one record, one id; one item, one maker
Alone ==
  /\ \A p, q \in SnapSeq : item[p].linked /\ item[q].linked /\ item[p].id = item[q].id => p = q
  /\ \A i, j \in SnapId : record[i] = record[j] /\ record[i] # NoSeq => i = j
  /\ \A id \in SnapId : record[id] < nextSnapSeq
  /\ \A h, k \in DOMAIN holder : holder[h].pc \in Making /\ holder[k].pc \in Making /\ holder[h].seq = holder[k].seq => h = k

\* What is true of an id that was never made and deleted at once
IdShape(id) ==
  /\ record[id] # NoSeq =>
       /\ item[record[id]].tenant /\ item[record[id]].id = id
       /\ item[record[id]].linked \/ \E h \in DOMAIN holder : Is(h, "delete", "erase") /\ holder[h].id = id /\ holder[h].seq = record[id]
  /\ \A q \in Linked(id) : record[id] = q \/ \E h \in DOMAIN holder : holder[h].pc \in BeforeRecord /\ holder[h].id = id /\ holder[h].seq = q
  /\ \A h \in DOMAIN holder : holder[h].id = id /\ holder[h].pc \in Making => item[holder[h].seq].linked
  /\ \A h \in DOMAIN holder : holder[h].id = id /\ holder[h].pc \in BeforeRecord => record[id] = NoSeq
  /\ \A h \in DOMAIN holder : holder[h].id = id /\ holder[h].op = "delete" =>
       /\ \A q \in Linked(id) : holder[h].pc = "unlink" /\ q = holder[h].seq
       /\ \A k \in DOMAIN holder : holder[k].id = id /\ holder[k].op = "make" => holder[k].pc = "add"

SnapShape ==
  /\ \A h \in DOMAIN holder : RequestShape(holder[h])
  /\ \A q \in SnapSeq : ItemShape(q)
  /\ Alone
RefInv == \A q \in SnapSeq : RefsOf(q)
IdInv == \A id \in SnapId \ torn : IdShape(id)
SnapInv == SnapTypes /\ SnapShape /\ RefInv /\ IdInv

-----------------------------------------------------------------------------
\* A set that changes in one element alone
LEMMA SetMoves ==
  ASSUME NEW A, NEW B, NEW h, IsFiniteSet(A), \A k : k # h => (k \in A <=> k \in B)
  PROVE  IsFiniteSet(B) /\ Cardinality(A) \in Nat /\ Cardinality(B) = Cardinality(A) - OneIf(h \in A) + OneIf(h \in B)
<1>1. Cardinality(A) \in Nat
  BY FS_CardinalityType
<1>2. CASE h \in A /\ h \notin B
  <2>1. B = A \ {h}
    BY <1>2
  <2> QED BY <1>1, <1>2, <2>1, FS_RemoveElement DEF OneIf
<1>3. CASE h \notin A /\ h \in B
  <2>1. B = A \cup {h}
    BY <1>3
  <2> QED BY <1>1, <1>3, <2>1, FS_AddElement DEF OneIf
<1>4. CASE h \in A <=> h \in B
  <2>1. A = B
    BY <1>4
  <2> QED BY <1>1, <1>4, <2>1 DEF OneIf
<1> QED BY <1>2, <1>3, <1>4

\* Who refers to an item is finite; somebody's reference counts
LEMMA Referred ==
  ASSUME NEW hs \in Seq(Requests), NEW q
  PROVE  LET s == {h \in DOMAIN hs : hs[h].seq = q}
             f == {h \in DOMAIN hs : hs[h].from = q}
         IN  /\ IsFiniteSet(s) /\ IsFiniteSet(f) /\ Cardinality(s) \in Nat /\ Cardinality(f) \in Nat
             /\ \A h \in DOMAIN hs : (hs[h].seq = q => Cardinality(s) >= 1) /\ (hs[h].from = q => Cardinality(f) >= 1)
<1> DEFINE s == {h \in DOMAIN hs : hs[h].seq = q}
           f == {h \in DOMAIN hs : hs[h].from = q}
<1>1. IsFiniteSet(DOMAIN hs)
  BY LenProperties, FS_Interval
<1>2. IsFiniteSet(s) /\ IsFiniteSet(f)
  BY <1>1, FS_Subset
<1>3. Cardinality(s) \in Nat /\ Cardinality(f) \in Nat
  BY <1>2, FS_CardinalityType
<1>4. ASSUME NEW h \in DOMAIN hs PROVE (hs[h].seq = q => Cardinality(s) # 0) /\ (hs[h].from = q => Cardinality(f) # 0)
  <2>1. (hs[h].seq = q => s # {}) /\ (hs[h].from = q => f # {})
    OBVIOUS
  <2> HIDE DEF s, f
  <2> QED BY <1>2, <2>1, FS_EmptySet
<1> HIDE DEF s, f
<1>5. \A h \in DOMAIN hs : (hs[h].seq = q => Cardinality(s) >= 1) /\ (hs[h].from = q => Cardinality(f) >= 1)
  BY <1>3, <1>4
<1> QED BY <1>2, <1>3, <1>5 DEF s, f

\* One request moves, or comes; or none, where h is none
HolderStep(h, old, r) ==
  /\ holder' \in Seq(Requests)
  /\ IF h \in DOMAIN holder' THEN holder'[h] = r ELSE r = Done
  /\ \A k : k # h => (k \in DOMAIN holder <=> k \in DOMAIN holder')
  /\ \A k \in DOMAIN holder : k # h => holder'[k] = holder[k]
  /\ IF h \in DOMAIN holder THEN holder[h] = old ELSE old = Done

\* A step of it
LEMMA Moves ==
  ASSUME holder \in Seq(Requests), NEW h \in DOMAIN holder, NEW r \in Requests, holder' = [holder EXCEPT ![h] = r]
  PROVE  HolderStep(h, holder[h], r)
<1>1. holder \in [1..Len(holder) -> Requests] /\ Len(holder) \in Nat /\ DOMAIN holder = 1..Len(holder)
  BY LenProperties
<1>2. holder' \in [1..Len(holder) -> Requests]
  BY <1>1
<1>3. holder' \in Seq(Requests)
  BY <1>1, <1>2
<1> QED BY <1>1, <1>2, <1>3 DEF HolderStep

\* A request comes
LEMMA Comes ==
  ASSUME holder \in Seq(Requests), NEW r \in Requests, Arrives(r)
  PROVE  HolderStep(Len(holder) + 1, Done, r)
<1>1. Len(holder) \in Nat /\ DOMAIN holder = 1..Len(holder) /\ holder' = Append(holder, r)
  BY LenProperties DEF Arrives
<1>2. /\ holder' \in Seq(Requests) /\ Len(holder') = Len(holder) + 1 /\ holder'[Len(holder) + 1] = r
      /\ \A k \in 1..Len(holder) : holder'[k] = holder[k]
  BY <1>1, AppendProperties
<1>3. DOMAIN holder' = 1..(Len(holder) + 1)
  BY <1>2, LenProperties
<1> QED BY <1>1, <1>2, <1>3 DEF HolderStep

\* The count of an item moves with those that refer to it
LEMMA RefMoves ==
  ASSUME SnapTypes, NEW q \in SnapSeq, RefsOf(q), NEW h, NEW old, NEW r, HolderStep(h, old, r),
         item'[q].refs = item[q].refs - OneIf(old.seq = q) + OneIf(r.seq = q) - OneIf(old.from = q) + OneIf(r.from = q)
                           - OneIf(item[q].linked) + OneIf(item'[q].linked) - OneIf(item[q].capture) + OneIf(item'[q].capture)
  PROVE  RefsOf(q)'
<1>1. holder \in Seq(Requests) /\ q # NoSeq /\ Done.seq = NoSeq /\ Done.from = NoSeq
  BY DEF SnapTypes, SnapSeq, NoSeq, Done
<1>2. IsFiniteSet(HoldersOf(q)) /\ IsFiniteSet(ClonesOf(q)) /\ Cardinality(HoldersOf(q)) \in Nat /\ Cardinality(ClonesOf(q)) \in Nat
  BY <1>1, Referred DEF HoldersOf, ClonesOf
<1>3. /\ \A k : k # h => (k \in HoldersOf(q) <=> k \in HoldersOf(q)')
      /\ \A k : k # h => (k \in ClonesOf(q) <=> k \in ClonesOf(q)')
  BY DEF HolderStep, HoldersOf, ClonesOf
<1>4. /\ h \in HoldersOf(q) <=> old.seq = q
      /\ h \in HoldersOf(q)' <=> r.seq = q
      /\ h \in ClonesOf(q) <=> old.from = q
      /\ h \in ClonesOf(q)' <=> r.from = q
  BY <1>1 DEF HolderStep, HoldersOf, ClonesOf
<1>5. Cardinality(HoldersOf(q)') = Cardinality(HoldersOf(q)) - OneIf(old.seq = q) + OneIf(r.seq = q)
  <2> HIDE DEF HoldersOf
  <2>1. Cardinality(HoldersOf(q)') = Cardinality(HoldersOf(q)) - OneIf(h \in HoldersOf(q)) + OneIf(h \in HoldersOf(q)')
    BY <1>2, <1>3, SetMoves
  <2> QED BY <1>4, <2>1 DEF OneIf
<1>6. Cardinality(ClonesOf(q)') = Cardinality(ClonesOf(q)) - OneIf(old.from = q) + OneIf(r.from = q)
  <2>1. Cardinality(ClonesOf(q)') = Cardinality(ClonesOf(q)) - OneIf(h \in ClonesOf(q)) + OneIf(h \in ClonesOf(q)')
    BY <1>2, <1>3, SetMoves
  <2> QED BY <1>4, <2>1 DEF OneIf
<1> QED BY <1>2, <1>5, <1>6 DEF RefsOf, OneIf

\* What a step does to an item, but for a start
ItemStep(p) ==
  \/ item'[p] = item[p]
  \/ item'[p] = NoItem
  \/ /\ item[p] # NoItem /\ item'[p].refs > 0 /\ item'[p].id = item[p].id /\ (item'[p].linked => item[p].linked)
     /\ (item[p].tenant => item'[p].tenant) /\ (item'[p].tenant => item[p].tenant \/ p \in store')
     /\ (item'[p].capture => item[p].capture \/ item[p].tenant)
  \/ /\ item[p] = NoItem /\ p = nextSnapSeq /\ nextSnapSeq' = p + 1
     /\ item'[p].refs = 2 /\ item'[p].id \in SnapId /\ item'[p].linked /\ ~item'[p].tenant /\ ~item'[p].capture

\* ... and to the stores
StoreStep(p) ==
  /\ p \in store' => p \in store \/ item'[p].refs > 0
  /\ p \in store /\ item'[p] # NoItem => p \in store'
  /\ item[p] # NoItem /\ item'[p] = NoItem => p \notin store'

ItemsStep == (\A p \in SnapSeq : ItemStep(p) /\ StoreStep(p)) /\ nextSnapSeq' >= nextSnapSeq /\ UNCHANGED left

\* No item, no request
LEMMA NoItemFacts ==
  /\ NoItem.id = "none" /\ NoItem.linked = FALSE /\ NoItem.refs = 0 /\ NoItem.tenant = FALSE /\ NoItem.capture = FALSE
  /\ NoItem \in Items
BY DEF NoItem, Items

LEMMA DoneFacts ==
  /\ Done.op = "none" /\ Done.id = "none" /\ Done.seq = NoSeq /\ Done.from = NoSeq /\ Done.pc = "done"
  /\ Done \in Requests
BY SnapshotAssumption DEF Done, Requests, SnapOps, SnapPcs, Seqs, NoSeq

\* Items keep their shape over such a step
LEMMA ItemShapeStep ==
  ASSUME SnapTypes, SnapTypes', NEW p \in SnapSeq, ItemShape(p), ItemsStep
  PROVE  ItemShape(p)'
<1>1. item[p] \in Items /\ item'[p] \in Items /\ ItemStep(p) /\ StoreStep(p) /\ left' = left /\ nextSnapSeq' >= nextSnapSeq
      /\ nextSnapSeq \in Nat /\ nextSnapSeq' \in Nat /\ p \in Nat
  BY SnapshotAssumption DEF SnapTypes, ItemsStep, SnapSeq
<1>2. item[p].refs \in Nat /\ item'[p].refs \in Nat
  BY <1>1 DEF Items
<1>3. CASE item'[p] = item[p]
  BY <1>1, <1>2, <1>3, NoItemFacts DEF ItemShape, StoreStep
<1>4. CASE item'[p] = NoItem
  BY <1>1, <1>2, <1>4, NoItemFacts DEF ItemShape, StoreStep
<1>5. CASE item'[p] # item[p] /\ item'[p] # NoItem
  BY <1>1, <1>2, <1>5, NoItemFacts DEF ItemShape, StoreStep, ItemStep
<1> QED BY <1>3, <1>4, <1>5

\* An item somebody refers to is there
LEMMA ItemHeld ==
  ASSUME SnapTypes, RefInv, \A q \in SnapSeq : ItemShape(q), NEW h \in DOMAIN holder, NEW q \in SnapSeq,
         holder[h].seq = q \/ holder[h].from = q
  PROVE  item[q] # NoItem /\ item[q].refs >= 1 /\ item[q].refs \in Nat
<1>1. item[q].refs = Cardinality(HoldersOf(q)) + Cardinality(ClonesOf(q)) + OneIf(item[q].linked) + OneIf(item[q].capture)
  BY DEF RefInv, RefsOf
<1>2. Cardinality(HoldersOf(q)) \in Nat /\ Cardinality(ClonesOf(q)) \in Nat /\ (Cardinality(HoldersOf(q)) >= 1 \/ Cardinality(ClonesOf(q)) >= 1)
  BY Referred DEF SnapTypes, HoldersOf, ClonesOf
<1>3. OneIf(item[q].linked) \in Nat /\ OneIf(item[q].capture) \in Nat
  BY DEF OneIf
<1> QED BY <1>1, <1>2, <1>3, NoItemFacts

\* ... and after a step too
LEMMA HeldNext ==
  ASSUME SnapTypes', RefInv', NEW h \in DOMAIN holder', NEW q \in SnapSeq, holder'[h].seq = q \/ holder'[h].from = q
  PROVE  item'[q] # NoItem
<1>1. item'[q].refs = Cardinality(HoldersOf(q)') + Cardinality(ClonesOf(q)') + OneIf(item'[q].linked) + OneIf(item'[q].capture)
  BY DEF RefInv, RefsOf
<1>2. Cardinality(HoldersOf(q)') \in Nat /\ Cardinality(ClonesOf(q)') \in Nat /\ (Cardinality(HoldersOf(q)') >= 1 \/ Cardinality(ClonesOf(q)') >= 1)
  BY Referred DEF SnapTypes, HoldersOf, ClonesOf
<1>3. OneIf(item'[q].linked) \in Nat /\ OneIf(item'[q].capture) \in Nat
  BY DEF OneIf
<1>4. item'[q].refs >= 1
  BY <1>1, <1>2, <1>3
<1>5. NoItem.refs = 0
  BY NoItemFacts
<1> QED BY <1>4, <1>5

\* A linked or captured item is there, and counts it
LEMMA Linkd ==
  ASSUME SnapTypes, RefInv, NEW q \in SnapSeq, item[q].linked \/ item[q].capture
  PROVE  item[q] # NoItem /\ item[q].refs >= 1 /\ item[q].refs \in Nat
<1>1. item[q].refs = Cardinality(HoldersOf(q)) + Cardinality(ClonesOf(q)) + OneIf(item[q].linked) + OneIf(item[q].capture)
  BY DEF RefInv, RefsOf
<1>2. Cardinality(HoldersOf(q)) \in Nat /\ Cardinality(ClonesOf(q)) \in Nat
  BY Referred DEF SnapTypes, HoldersOf, ClonesOf
<1>3. OneIf(item[q].linked) \in Nat /\ OneIf(item[q].capture) \in Nat /\ (OneIf(item[q].linked) = 1 \/ OneIf(item[q].capture) = 1)
  BY DEF OneIf
<1>4. item[q].refs >= 1 /\ item[q].refs \in Nat
  BY <1>1, <1>2, <1>3
<1>5. NoItem.refs = 0
  BY NoItemFacts
<1> QED BY <1>4, <1>5

\* A request that does not move keeps its shape, where the record written is not that of what it makes
LEMMA RequestStays ==
  ASSUME SnapTypes, SnapTypes', RefInv, RefInv', SnapShape, ItemsStep, NEW h \in DOMAIN holder, h \in DOMAIN holder', holder'[h] = holder[h],
         \A q \in SnapSeq : holder[h].seq = q /\ holder[h].pc \in Making => (item'[q].capture => item[q].capture),
         \A id \in SnapId : record'[id] = record[id] \/ record'[id] = NoSeq \/ ~(holder[h].pc \in BeforeRecord /\ holder[h].seq = record'[id])
  PROVE  RequestShape(holder[h])'
<1> DEFINE r == holder[h]
<1>1. /\ RequestShape(holder[h]) /\ r \in Requests /\ nextSnapSeq' >= nextSnapSeq /\ nextSnapSeq \in Nat /\ nextSnapSeq' \in Nat
      /\ \A q \in SnapSeq : ItemStep(q) /\ item[q] \in Items
  BY SnapshotAssumption DEF SnapShape, SnapTypes, ItemsStep
<1>2. r.seq \in Nat /\ r.from \in Nat /\ (r.seq # NoSeq => r.seq \in SnapSeq) /\ (r.from # NoSeq => r.from \in SnapSeq)
  BY <1>1, SnapshotAssumption DEF Requests, Seqs, SnapSeq, NoSeq
<1>3. ASSUME NEW q \in SnapSeq, r.seq = q \/ r.from = q
      PROVE  item'[q].id = item[q].id /\ (item[q].tenant => item'[q].tenant)
  <2>1. item[q] # NoItem
    BY <1>3, ItemHeld DEF SnapShape
  <2>2. item'[q] # NoItem
    BY <1>3, HeldNext
  <2> QED BY <1>1, <2>1, <2>2 DEF ItemStep
<1>4. r.pc \in BeforeRecord => \A id \in SnapId : record'[id] # r.seq
  <2> SUFFICES ASSUME r.pc \in BeforeRecord, NEW id \in SnapId PROVE record'[id] # r.seq
    OBVIOUS
  <2>1. r.seq # NoSeq
    BY <1>1 DEF RequestShape, BeforeRecord
  <2> QED BY <1>1, <2>1 DEF RequestShape
<1>5. holder[h]' = r
  OBVIOUS
<1> HIDE DEF r
<1>6. RequestShape(r)
  BY <1>1 DEF r
<1>7. r.pc \in Making => item'[r.seq].id = r.id /\ ~item'[r.seq].capture /\ (r.pc # "tenant" => item'[r.seq].tenant)
  <2> SUFFICES ASSUME r.pc \in Making PROVE item'[r.seq].id = r.id /\ ~item'[r.seq].capture /\ (r.pc # "tenant" => item'[r.seq].tenant)
    OBVIOUS
  <2>1. r.seq \in SnapSeq /\ item[r.seq].id = r.id /\ ~item[r.seq].capture /\ (r.pc # "tenant" => item[r.seq].tenant)
    BY <1>2, <1>6 DEF RequestShape, Making
  <2>2. ~item'[r.seq].capture
    BY <2>1 DEF r
  <2> QED BY <1>3, <2>1, <2>2
<1>8. r.pc = "copy" => r.from # NoSeq /\ item'[r.from].tenant
  BY <1>2, <1>3, <1>6 DEF RequestShape
<1>9. r.seq < nextSnapSeq' /\ r.from < nextSnapSeq'
  BY <1>1, <1>2, <1>6 DEF RequestShape
<1> QED BY <1>4, <1>5, <1>6, <1>7, <1>8, <1>9 DEF RequestShape

\* The record of an id is erased, or becomes that of what a request made
RecordStep(old) ==
  \/ record' = record
  \/ \E id \in SnapId : record' = [record EXCEPT ![id] = NoSeq]
  \/ old.pc = "persist" /\ old.id \in SnapId /\ record' = [record EXCEPT ![old.id] = old.seq]

\* What every step of a request keeps to
MoveOf(h, old, r) ==
  /\ HolderStep(h, old, r) /\ RecordStep(old)
  /\ \A q \in SnapSeq : item'[q].capture => item[q].capture \/ (old.pc \in Making /\ old.seq = q)
  /\ \A q \in SnapSeq : item'[q].linked /\ ~item[q].linked => \A p \in SnapSeq : item[p].linked => item[p].id # item'[q].id
  /\ r.pc \in Making => r.seq = nextSnapSeq \/ (old.pc \in Making /\ old.seq = r.seq)

\* The other requests keep their shape
LEMMA OthersStay ==
  ASSUME SnapTypes, SnapTypes', RefInv, RefInv', SnapShape, ItemsStep, NEW h, NEW old, NEW r, MoveOf(h, old, r),
         NEW k \in DOMAIN holder', k # h
  PROVE  k \in DOMAIN holder /\ holder'[k] = holder[k] /\ RequestShape(holder[k])'
<1>1. k \in DOMAIN holder /\ holder'[k] = holder[k] /\ RequestShape(holder[k])
  BY DEF MoveOf, HolderStep, SnapShape
<1>2. old.pc \in Making => h \in DOMAIN holder /\ holder[h] = old
  BY DoneFacts DEF MoveOf, HolderStep, Making
<1>3. ~(old.pc \in Making /\ holder[k].pc \in Making /\ holder[k].seq = old.seq)
  BY <1>1, <1>2 DEF SnapShape, Alone
<1>4. ASSUME NEW q \in SnapSeq, holder[k].seq = q, holder[k].pc \in Making, item'[q].capture PROVE item[q].capture
  BY <1>3, <1>4 DEF MoveOf
<1>5. ASSUME NEW id \in SnapId PROVE record'[id] = record[id] \/ record'[id] = NoSeq \/ ~(holder[k].pc \in BeforeRecord /\ holder[k].seq = record'[id])
  <2>1. record \in [SnapId -> Seqs]
    BY DEF SnapTypes
  <2>2. CASE \E i \in SnapId : record' = [record EXCEPT ![i] = NoSeq]
    BY <2>1, <2>2
  <2>3. CASE old.pc = "persist" /\ old.id \in SnapId /\ record' = [record EXCEPT ![old.id] = old.seq]
    <3>1. record'[id] = record[id] \/ record'[id] = old.seq
      BY <2>1, <2>3
    <3> QED BY <1>3, <2>3, <3>1 DEF Making, BeforeRecord
  <2> QED BY <2>2, <2>3 DEF MoveOf, RecordStep
<1> QED BY <1>1, <1>4, <1>5, RequestStays

\* One id, one item, and so on, over such a step
LEMMA OneItemStep ==
  ASSUME SnapTypes, SnapTypes', SnapShape, ItemsStep, NEW h, NEW old, NEW r, MoveOf(h, old, r)
  PROVE  Alone'
<1>1. /\ Alone /\ (\A k \in DOMAIN holder : RequestShape(holder[k])) /\ record \in [SnapId -> Seqs] /\ nextSnapSeq' >= nextSnapSeq
      /\ nextSnapSeq \in Nat /\ nextSnapSeq' \in Nat /\ Seqs \subseteq Nat
      /\ \A q \in SnapSeq : ItemStep(q) /\ ItemShape(q)
  BY SnapshotAssumption DEF SnapShape, ItemsStep, SnapTypes, Seqs
<1>2. old.pc \in Making => h \in DOMAIN holder /\ holder[h] = old
  BY DoneFacts DEF MoveOf, HolderStep, Making
<1>3. ASSUME NEW p \in SnapSeq, NEW q \in SnapSeq, item'[p].linked, item'[q].linked, item'[p].id = item'[q].id PROVE p = q
  <2>1. ASSUME NEW x \in SnapSeq, item'[x].linked, item[x].linked PROVE item'[x].id = item[x].id
    BY <1>1, <2>1, NoItemFacts DEF ItemStep
  <2>2. ASSUME NEW x \in SnapSeq, item'[x].linked, ~item[x].linked PROVE x = nextSnapSeq
    BY <1>1, <2>2, NoItemFacts DEF ItemStep
  <2>3. CASE item[p].linked /\ item[q].linked
    BY <1>1, <1>3, <2>1, <2>3 DEF Alone
  <2>4. CASE ~item[p].linked /\ ~item[q].linked
    BY <1>3, <2>2, <2>4
  <2>5. CASE ~item[p].linked /\ item[q].linked
    BY <1>3, <2>1, <2>5 DEF MoveOf
  <2>6. CASE item[p].linked /\ ~item[q].linked
    BY <1>3, <2>1, <2>6 DEF MoveOf
  <2> QED BY <2>3, <2>4, <2>5, <2>6
<1>4. (\A i, j \in SnapId : record'[i] = record'[j] /\ record'[i] # NoSeq => i = j) /\ (\A id \in SnapId : record'[id] < nextSnapSeq')
  <2>1. \A id \in SnapId : record[id] \in Nat
    BY <1>1
  <2>2. CASE record' = record
    BY <1>1, <2>1, <2>2 DEF Alone
  <2>3. CASE \E id \in SnapId : record' = [record EXCEPT ![id] = NoSeq]
    <3>1. nextSnapSeq' > 0
      BY SnapshotAssumption DEF SnapTypes
    <3>2. \A i \in SnapId : record'[i] = record[i] \/ record'[i] = NoSeq
      BY <1>1, <2>3
    <3> QED BY <1>1, <2>1, <3>1, <3>2 DEF Alone, NoSeq
  <2>4. CASE old.pc = "persist" /\ old.id \in SnapId /\ record' = [record EXCEPT ![old.id] = old.seq]
    <3>1. RequestShape(old)
      BY <1>1, <1>2, <2>4 DEF Making
    <3>2. (\A id \in SnapId : record[id] # old.seq) /\ old.seq < nextSnapSeq
      BY <2>4, <3>1 DEF RequestShape, BeforeRecord
    <3>3. old.seq \in Nat
      BY <1>1, <1>2, <2>4, LenProperties DEF SnapTypes, Making, Requests, Seqs
    <3>4. \A i \in SnapId : (i = old.id /\ record'[i] = old.seq) \/ (i # old.id /\ record'[i] = record[i])
      BY <1>1, <2>4
    <3> QED BY <1>1, <2>1, <3>2, <3>3, <3>4 DEF Alone
  <2> QED BY <2>2, <2>3, <2>4 DEF MoveOf, RecordStep
<1>5. ASSUME NEW x \in DOMAIN holder', NEW y \in DOMAIN holder', holder'[x].pc \in Making, holder'[y].pc \in Making, holder'[x].seq = holder'[y].seq
      PROVE  x = y
  <2>1. ASSUME NEW k \in DOMAIN holder', k # h PROVE k \in DOMAIN holder /\ holder'[k] = holder[k] /\ holder[k].seq < nextSnapSeq
    BY <1>1, <2>1 DEF MoveOf, HolderStep, RequestShape
  <2>2. ASSUME NEW k \in DOMAIN holder', k # h, h \in DOMAIN holder', holder'[k].pc \in Making, holder'[h].pc \in Making, holder'[k].seq = holder'[h].seq
        PROVE  FALSE
    <3>1. holder'[h] = r
      BY <2>2, DoneFacts DEF MoveOf, HolderStep
    <3>2. holder[k].seq # nextSnapSeq
      <4>1. holder[k] \in Requests /\ holder[k].seq < nextSnapSeq
        BY <2>1, <2>2, LenProperties DEF SnapTypes
      <4>2. holder[k].seq \in Nat
        BY <1>1, <4>1 DEF Requests
      <4> QED BY <1>1, <4>1, <4>2
    <3>3. old.pc \in Making /\ old.seq = r.seq
      BY <2>1, <2>2, <3>1, <3>2 DEF MoveOf
    <3> QED BY <1>1, <1>2, <2>1, <2>2, <3>1, <3>3 DEF Alone
  <2>3. CASE x # h /\ y # h
    BY <1>1, <1>5, <2>1, <2>3 DEF Alone
  <2> QED BY <1>5, <2>2, <2>3
<1> QED BY <1>3, <1>4, <1>5 DEF Alone

\* The shape over such a step
LEMMA ShapeMoves ==
  ASSUME SnapTypes, SnapTypes', RefInv, RefInv', SnapShape, ItemsStep, NEW h, NEW old, NEW r, MoveOf(h, old, r), RequestShape(r)'
  PROVE  SnapShape'
<1>1. ASSUME NEW k \in DOMAIN holder' PROVE RequestShape(holder[k])'
  <2>1. CASE k = h
    BY <1>1, <2>1 DEF MoveOf, HolderStep
  <2>2. CASE k # h
    BY <1>1, <2>2, OthersStay
  <2> QED BY <2>1, <2>2
<1>2. \A q \in SnapSeq : ItemShape(q)'
  BY ItemShapeStep DEF SnapShape
<1>3. Alone'
  BY OneItemStep
<1> QED BY <1>1, <1>2, <1>3 DEF SnapShape

\* A request's move tells nothing new of an id
IdStill(id, old, r) ==
  /\ r.id = id /\ r.op = "delete" => old.id = id /\ old.op = "delete" /\ old.seq = r.seq /\ (r.pc = "unlink" <=> old.pc = "unlink")
  /\ r.id = id /\ r.op = "make" /\ r.pc # "add" => old.id = id /\ old.op = "make" /\ old.pc # "add"
  /\ r.id = id /\ r.pc \in Making => old.id = id /\ old.pc \in Making /\ old.seq = r.seq
  /\ r.id = id /\ r.pc \in BeforeRecord => old.pc \in BeforeRecord
  /\ old.id = id /\ old.pc \in BeforeRecord => r.id = id /\ r.pc \in BeforeRecord /\ r.seq = old.seq
  /\ old.id = id /\ old.op = "delete" /\ old.pc = "erase" => r.id = id /\ r.op = "delete" /\ r.pc = "erase" /\ r.seq = old.seq

\* ... and what is true of it stays true, where neither its item nor its record changes
LEMMA IdFrame ==
  ASSUME SnapTypes, SnapTypes', RefInv, RefInv', SnapShape, ItemsStep, NEW h, NEW old, NEW r, HolderStep(h, old, r),
         NEW id \in SnapId, IdShape(id), IdStill(id, old, r), record'[id] = record[id],
         \A q \in SnapSeq : item'[q].linked /\ item'[q].id = id <=> item[q].linked /\ item[q].id = id
  PROVE  IdShape(id)'
<1>1. \A k \in DOMAIN holder' : k # h => k \in DOMAIN holder /\ holder'[k] = holder[k]
  BY DEF HolderStep
<1>2. \A k \in DOMAIN holder : k # h => k \in DOMAIN holder' /\ holder'[k] = holder[k]
  BY DEF HolderStep
<1>3. h \in DOMAIN holder' => holder'[h] = r
  BY DEF HolderStep
<1>4. h \in DOMAIN holder => holder[h] = old
  BY DEF HolderStep
<1>5. (h \notin DOMAIN holder => old = Done) /\ (h \notin DOMAIN holder' => r = Done)
  BY DEF HolderStep
<1>6. Linked(id)' = Linked(id)
  BY DEF Linked
<1>7. ASSUME NEW k \in DOMAIN holder', holder'[k].id = id, holder'[k].op = "delete"
      PROVE  k \in DOMAIN holder /\ holder[k].id = id /\ holder[k].op = "delete" /\ holder[k].seq = holder'[k].seq
             /\ (holder'[k].pc = "unlink" <=> holder[k].pc = "unlink")
  BY <1>1, <1>3, <1>4, <1>5, <1>7, DoneFacts DEF IdStill
<1>8. ASSUME NEW k \in DOMAIN holder', holder'[k].id = id, holder'[k].pc \in Making
      PROVE  k \in DOMAIN holder /\ holder[k].id = id /\ holder[k].pc \in Making /\ holder[k].seq = holder'[k].seq
             /\ (holder'[k].pc \in BeforeRecord => holder[k].pc \in BeforeRecord)
  BY <1>1, <1>3, <1>4, <1>5, <1>8, DoneFacts DEF IdStill, Making
<1>9. ASSUME NEW k \in DOMAIN holder', holder'[k].id = id, holder'[k].op = "make", holder'[k].pc # "add"
      PROVE  k \in DOMAIN holder /\ holder[k].id = id /\ holder[k].op = "make" /\ holder[k].pc # "add"
  BY <1>1, <1>3, <1>4, <1>5, <1>9, DoneFacts DEF IdStill
<1>10. ASSUME NEW k \in DOMAIN holder, holder[k].id = id, holder[k].pc \in BeforeRecord
       PROVE  k \in DOMAIN holder' /\ holder'[k].id = id /\ holder'[k].pc \in BeforeRecord /\ holder'[k].seq = holder[k].seq
  BY <1>2, <1>3, <1>4, <1>5, <1>10, DoneFacts DEF IdStill, BeforeRecord
<1>11. ASSUME NEW k \in DOMAIN holder, holder[k].id = id, Is(k, "delete", "erase")
       PROVE  k \in DOMAIN holder' /\ holder'[k].id = id /\ Is(k, "delete", "erase")' /\ holder'[k].seq = holder[k].seq
  BY <1>2, <1>3, <1>4, <1>5, <1>11, DoneFacts DEF IdStill, Is
<1>12. record'[id] # NoSeq =>
         /\ item'[record'[id]].tenant /\ item'[record'[id]].id = id
         /\ item'[record'[id]].linked \/ \E k \in DOMAIN holder' : Is(k, "delete", "erase")' /\ holder'[k].id = id /\ holder'[k].seq = record'[id]
  <2> SUFFICES ASSUME record[id] # NoSeq
               PROVE  /\ item'[record[id]].tenant /\ item'[record[id]].id = id
                      /\ item'[record[id]].linked \/ \E k \in DOMAIN holder' : Is(k, "delete", "erase")' /\ holder'[k].id = id /\ holder'[k].seq = record[id]
    OBVIOUS
  <2>1. PICK p \in SnapSeq : p = record[id]
    BY SnapshotAssumption DEF SnapTypes, Seqs, SnapSeq, NoSeq
  <2>2. item[p].tenant /\ item[p].id = id
    BY <2>1 DEF IdShape
  <2>3. item'[p].linked \/ \E k \in DOMAIN holder' : Is(k, "delete", "erase")' /\ holder'[k].id = id /\ holder'[k].seq = p
    BY <1>11, <2>1, <2>2 DEF IdShape
  <2>4. item'[p] # NoItem
    BY <2>3, HeldNext, NoItemFacts
  <2>5. item[p] # NoItem
    BY <2>2, NoItemFacts
  <2> QED BY <2>1, <2>2, <2>3, <2>4, <2>5 DEF ItemsStep, ItemStep
<1>13. \A q \in Linked(id)' : record'[id] = q \/ \E k \in DOMAIN holder' : holder'[k].pc \in BeforeRecord /\ holder'[k].id = id /\ holder'[k].seq = q
  BY <1>6, <1>10 DEF IdShape
<1>14. \A k \in DOMAIN holder' : holder'[k].id = id /\ holder'[k].pc \in Making => item'[holder'[k].seq].linked
  <2> SUFFICES ASSUME NEW k \in DOMAIN holder', holder'[k].id = id, holder'[k].pc \in Making PROVE item'[holder'[k].seq].linked
    OBVIOUS
  <2>1. k \in DOMAIN holder /\ holder[k].id = id /\ holder[k].pc \in Making /\ holder[k].seq = holder'[k].seq
    BY <1>8
  <2>2. item[holder[k].seq].linked /\ item[holder[k].seq].id = id
    BY <2>1 DEF IdShape, SnapShape, RequestShape
  <2>3. holder[k].seq \in SnapSeq
    <3>1. holder[k] \in Requests /\ RequestShape(holder[k])
      BY <2>1, LenProperties DEF SnapTypes, SnapShape
    <3> QED BY <2>1, <3>1, SnapshotAssumption DEF RequestShape, Requests, Seqs, SnapSeq, NoSeq, Making
  <2> QED BY <2>1, <2>2, <2>3
<1>15. \A k \in DOMAIN holder' : holder'[k].id = id /\ holder'[k].pc \in BeforeRecord => record'[id] = NoSeq
  BY <1>8 DEF IdShape, BeforeRecord, Making
<1>16. \A k \in DOMAIN holder' : holder'[k].id = id /\ holder'[k].op = "delete" =>
         /\ \A q \in Linked(id)' : holder'[k].pc = "unlink" /\ q = holder'[k].seq
         /\ \A j \in DOMAIN holder' : holder'[j].id = id /\ holder'[j].op = "make" => holder'[j].pc = "add"
  BY <1>6, <1>7, <1>9 DEF IdShape
<1> QED BY <1>12, <1>13, <1>14, <1>15, <1>16 DEF IdShape

\* The counts of a step
RefsEq(old, r) ==
  \A q \in SnapSeq :
    item'[q].refs = item[q].refs - OneIf(old.seq = q) + OneIf(r.seq = q) - OneIf(old.from = q) + OneIf(r.from = q)
                      - OneIf(item[q].linked) + OneIf(item'[q].linked) - OneIf(item[q].capture) + OneIf(item'[q].capture)

\* Neither the item of an id nor its record changes
SameId(id) == record'[id] = record[id] /\ \A q \in SnapSeq : item'[q].linked /\ item'[q].id = id <=> item[q].linked /\ item[q].id = id

\* The whole invariant over a step, from what an action does
LEMMA RefInvMoves ==
  ASSUME SnapTypes, RefInv, NEW h, NEW old, NEW r, HolderStep(h, old, r), RefsEq(old, r)
  PROVE  RefInv'
BY RefMoves DEF RefInv, RefsEq

\* ... with what an action says of the ids it does not leave as they are
LEMMA InvMoves ==
  ASSUME SnapInv, SnapTypes', ItemsStep, NEW h, NEW old, NEW r, MoveOf(h, old, r), RefsEq(old, r), RequestShape(r)', torn \subseteq torn',
         \A id \in SnapId \ torn' : (IdStill(id, old, r) /\ SameId(id)) \/ IdShape(id)'
  PROVE  SnapInv'
<1>1. RefInv'
  BY RefInvMoves DEF SnapInv, MoveOf
<1>2. SnapShape'
  BY <1>1, ShapeMoves DEF SnapInv
<1>3. ASSUME NEW id \in SnapId \ torn' PROVE IdShape(id)'
  <2>1. CASE IdStill(id, old, r) /\ SameId(id)
    <3>1. IdShape(id)
      BY DEF SnapInv, IdInv
    <3> QED BY <1>1, <2>1, <3>1, IdFrame DEF SnapInv, MoveOf, SameId
  <2> QED BY <1>3, <2>1
<1> QED BY <1>1, <1>2, <1>3 DEF SnapInv, IdInv

\* An item that is there changes, and lives
LEMMA ItemChanges ==
  ASSUME SnapTypes, NEW q \in SnapSeq, item[q] # NoItem, NEW e \in Items, item' = [item EXCEPT ![q] = e], e.refs > 0, e.id = item[q].id,
         e.linked => item[q].linked, item[q].tenant => e.tenant, e.tenant => item[q].tenant \/ q \in store',
         e.capture => item[q].capture \/ item[q].tenant,
         store' = store \/ store' = store \cup {q}, left' = left, nextSnapSeq' = nextSnapSeq
  PROVE  /\ item' \in [SnapSeq -> Items] /\ store' \subseteq SnapSeq /\ ItemsStep
         /\ item'[q] = e /\ \A p \in SnapSeq : p # q => item'[p] = item[p]
<1>1. /\ item' \in [SnapSeq -> Items] /\ store' \subseteq SnapSeq /\ item'[q] = e /\ \A p \in SnapSeq : p # q => item'[p] = item[p]
      /\ nextSnapSeq' >= nextSnapSeq
  BY SnapshotAssumption DEF SnapTypes
<1>2. e # NoItem
  BY NoItemFacts
<1>3. ASSUME NEW p \in SnapSeq PROVE ItemStep(p) /\ StoreStep(p)
  <2>1. CASE p = q
    BY <1>1, <1>2, <2>1 DEF ItemStep, StoreStep
  <2>2. CASE p # q
    BY <1>1, <2>2 DEF ItemStep, StoreStep
  <2> QED BY <2>1, <2>2
<1> QED BY <1>1, <1>3 DEF ItemsStep

\* A reference of it goes, and with the last the item and its stores
LEMMA ItemDrops ==
  ASSUME SnapTypes, NEW q \in SnapSeq, item[q] # NoItem, item[q].refs >= 1, NEW items \in [SnapSeq -> Items], ItemDrop(items, q),
         \A p \in SnapSeq : p # q => items[p] = item[p],
         items[q].refs = item[q].refs, items[q].id = item[q].id, items[q].linked => item[q].linked, items[q].tenant = item[q].tenant,
         items[q].capture => item[q].capture, left' = left, nextSnapSeq' = nextSnapSeq
  PROVE  /\ item' \in [SnapSeq -> Items] /\ store' \subseteq SnapSeq /\ ItemsStep
         /\ \A p \in SnapSeq : p # q => item'[p] = item[p]
         /\ \/ item[q].refs = 1 /\ item'[q] = NoItem
            \/ /\ item[q].refs > 1 /\ item'[q].refs = item[q].refs - 1 /\ item'[q].id = item[q].id /\ item'[q].tenant = item[q].tenant
               /\ item'[q].linked = items[q].linked /\ item'[q].capture = items[q].capture
<1>1. items[q] \in Items /\ item[q] \in Items /\ nextSnapSeq' >= nextSnapSeq /\ items[q].refs \in Nat /\ store \subseteq SnapSeq
  <2>1. items[q] \in Items
    OBVIOUS
  <2> QED BY <2>1, SnapshotAssumption DEF SnapTypes, Items
<1>2. CASE items[q].refs = 1
  <2>1. item' = [items EXCEPT ![q] = NoItem] /\ store' = store \ {q}
    BY <1>2 DEF ItemDrop, SnapshotItemDestroy
  <2>2. item' \in [SnapSeq -> Items] /\ item'[q] = NoItem /\ \A p \in SnapSeq : p # q => item'[p] = item[p]
    BY <2>1, NoItemFacts
  <2>3. ASSUME NEW p \in SnapSeq PROVE ItemStep(p) /\ StoreStep(p)
    BY <2>1, <2>2 DEF ItemStep, StoreStep
  <2> QED BY <1>1, <1>2, <2>1, <2>2, <2>3 DEF ItemsStep
<1>3. CASE items[q].refs # 1
  <2> DEFINE e == [items[q] EXCEPT !.refs = items[q].refs - 1]
  <2>1. item' = [items EXCEPT ![q] = e] /\ store' = store
    BY <1>3 DEF ItemDrop
  <2>2. items[q].refs > 1
    BY <1>1, <1>3
  <2>3. /\ e \in Items /\ e.refs = item[q].refs - 1 /\ e.id = item[q].id /\ e.tenant = item[q].tenant
        /\ e.linked = items[q].linked /\ e.capture = items[q].capture /\ e.refs > 0
    BY <1>1, <2>2 DEF Items
  <2> HIDE DEF e
  <2>4. item' \in [SnapSeq -> Items] /\ item'[q] = e /\ \A p \in SnapSeq : p # q => item'[p] = item[p]
    BY <2>1, <2>3
  <2>5. e # NoItem
    BY <2>3, NoItemFacts
  <2>6. ASSUME NEW p \in SnapSeq PROVE ItemStep(p) /\ StoreStep(p)
    <3>1. CASE p = q
      BY <2>1, <2>3, <2>4, <2>5, <3>1 DEF ItemStep, StoreStep
    <3>2. CASE p # q
      BY <2>1, <2>4, <3>2 DEF ItemStep, StoreStep
    <3> QED BY <3>1, <3>2
  <2> QED BY <1>1, <2>1, <2>2, <2>3, <2>4, <2>6 DEF ItemsStep
<1> QED BY <1>2, <1>3

\* A snapshot made has the next number, that nothing bears
LEMMA ItemComes ==
  ASSUME SnapTypes, SnapShape, NEW id \in SnapId, ItemAdd(id), store' = store, left' = left
  PROVE  /\ item' \in [SnapSeq -> Items] /\ store' \subseteq SnapSeq /\ ItemsStep /\ nextSnapSeq \in SnapSeq
         /\ nextSnapSeq' = nextSnapSeq + 1 /\ nextSnapSeq' \in 1..(MaxSnapSeq + 1)
         /\ item[nextSnapSeq] = NoItem /\ (\A p \in SnapSeq : p # nextSnapSeq => item'[p] = item[p])
         /\ item'[nextSnapSeq].id = id /\ item'[nextSnapSeq].linked /\ item'[nextSnapSeq].refs = 2
         /\ ~item'[nextSnapSeq].tenant /\ ~item'[nextSnapSeq].capture
         /\ Linked(id) = {} /\ Linked(id)' = {nextSnapSeq}
<1> DEFINE e == [NoItem EXCEPT !.id = id, !.linked = TRUE, !.refs = 2]
<1>1. /\ nextSnapSeq \in 1..MaxSnapSeq /\ nextSnapSeq' = nextSnapSeq + 1 /\ nextSnapSeq' \in 1..(MaxSnapSeq + 1) /\ nextSnapSeq \in Nat
      /\ item' = [item EXCEPT ![nextSnapSeq] = e] /\ Linked(id) = {}
  BY SnapshotAssumption DEF SnapTypes, ItemAdd
<1>2. e \in Items /\ e.id = id /\ e.linked = TRUE /\ e.refs = 2 /\ e.tenant = FALSE /\ e.capture = FALSE
  BY DEF NoItem, Items
<1> HIDE DEF e
<1>3. item[nextSnapSeq] = NoItem
  <2>1. nextSnapSeq \in SnapSeq /\ ~(nextSnapSeq < nextSnapSeq)
    BY <1>1 DEF SnapSeq
  <2> QED BY <2>1 DEF SnapShape, ItemShape
<1>4. /\ item' \in [SnapSeq -> Items] /\ item'[nextSnapSeq] = e /\ nextSnapSeq \in SnapSeq
      /\ \A p \in SnapSeq : p # nextSnapSeq => item'[p] = item[p]
  BY <1>1, <1>2 DEF SnapTypes, SnapSeq
<1>5. e # NoItem
  BY <1>2, NoItemFacts
<1>6. ASSUME NEW p \in SnapSeq PROVE ItemStep(p) /\ StoreStep(p)
  <2>1. CASE p = nextSnapSeq
    BY <1>1, <1>2, <1>3, <1>4, <1>5, <2>1 DEF ItemStep, StoreStep
  <2>2. CASE p # nextSnapSeq
    BY <1>4, <2>2 DEF ItemStep, StoreStep
  <2> QED BY <2>1, <2>2
<1>7. ItemsStep
  BY <1>1, <1>6 DEF ItemsStep
<1>8. Linked(id)' = {nextSnapSeq}
  <2>1. \A p \in SnapSeq : p # nextSnapSeq => ~(item'[p].linked /\ item'[p].id = id)
    BY <1>1, <1>4 DEF Linked
  <2> QED BY <1>2, <1>4, <2>1 DEF Linked
<1> QED BY <1>1, <1>2, <1>3, <1>4, <1>7, <1>8 DEF SnapTypes

\* The last reference to an item is not the cache's and not the capture's
LEMMA LastReference ==
  ASSUME SnapTypes, RefInv, NEW q \in SnapSeq, item[q].refs = 1
  PROVE  /\ (\E h \in DOMAIN holder : holder[h].seq = q \/ holder[h].from = q) => ~item[q].linked /\ ~item[q].capture
         /\ ~(item[q].linked /\ item[q].capture)
<1>1. item[q].refs = Cardinality(HoldersOf(q)) + Cardinality(ClonesOf(q)) + OneIf(item[q].linked) + OneIf(item[q].capture)
  BY DEF RefInv, RefsOf
<1>2. /\ Cardinality(HoldersOf(q)) \in Nat /\ Cardinality(ClonesOf(q)) \in Nat
      /\ (\E h \in DOMAIN holder : holder[h].seq = q \/ holder[h].from = q) => Cardinality(HoldersOf(q)) >= 1 \/ Cardinality(ClonesOf(q)) >= 1
  BY Referred DEF SnapTypes, HoldersOf, ClonesOf
<1>3. /\ item[q].linked => OneIf(item[q].linked) = 1
      /\ item[q].capture => OneIf(item[q].capture) = 1
      /\ OneIf(item[q].linked) \in Nat /\ OneIf(item[q].capture) \in Nat
  BY DEF OneIf
<1> DEFINE a == OneIf(item[q].linked)
           b == OneIf(item[q].capture)
<1> HIDE DEF a, b
<1>4. a + b <= 1 /\ ((\E h \in DOMAIN holder : holder[h].seq = q \/ holder[h].from = q) => a + b = 0)
  BY <1>1, <1>2, <1>3 DEF a, b
<1>5. a \in Nat /\ b \in Nat /\ (item[q].linked => a = 1) /\ (item[q].capture => b = 1)
  BY <1>3 DEF a, b
<1> QED BY <1>4, <1>5

\* What is known of a request
LEMMA RequestFacts ==
  ASSUME SnapInv, NEW h \in DOMAIN holder
  PROVE  /\ holder[h] \in Requests /\ RequestShape(holder[h])
         /\ holder[h].seq = NoSeq \/ holder[h].seq \in SnapSeq
         /\ holder[h].from = NoSeq \/ holder[h].from \in SnapSeq
         /\ \A q \in SnapSeq : holder[h].seq = q \/ holder[h].from = q => item[q] # NoItem /\ item[q].refs >= 1 /\ item[q].refs \in Nat
         /\ item \in [SnapSeq -> Items] /\ NoSeq \notin SnapSeq
<1>1. holder[h] \in Requests /\ RequestShape(holder[h]) /\ item \in [SnapSeq -> Items]
  BY LenProperties DEF SnapInv, SnapTypes, SnapShape
<1>2. (holder[h].seq = NoSeq \/ holder[h].seq \in SnapSeq) /\ (holder[h].from = NoSeq \/ holder[h].from \in SnapSeq) /\ NoSeq \notin SnapSeq
  BY <1>1, SnapshotAssumption DEF Requests, Seqs, NoSeq, SnapSeq
<1>3. \A q \in SnapSeq : holder[h].seq = q \/ holder[h].from = q => item[q] # NoItem /\ item[q].refs >= 1 /\ item[q].refs \in Nat
  BY ItemHeld DEF SnapInv, SnapShape
<1> QED BY <1>1, <1>2, <1>3

\* The counts are numbers
LEMMA RefsNat == ASSUME SnapTypes PROVE (\A q \in SnapSeq : item[q].refs \in Nat) /\ \A b : OneIf(b) \in 0..1
BY DEF SnapTypes, Items, OneIf

\* A request's step to its next
LEMMA StepOf ==
  ASSUME holder \in Seq(Requests), NEW h \in DOMAIN holder, NEW pc \in SnapPcs, Step(h, pc)
  PROVE  \E r \in Requests : /\ r.op = holder[h].op /\ r.id = holder[h].id /\ r.seq = holder[h].seq /\ r.from = holder[h].from /\ r.pc = pc
                             /\ HolderStep(h, holder[h], r)
<1> DEFINE r == [holder[h] EXCEPT !.pc = pc]
<1>1. holder[h] \in Requests /\ holder' = [holder EXCEPT ![h] = r]
  BY LenProperties DEF Step
<1>2. r \in Requests /\ r.op = holder[h].op /\ r.id = holder[h].id /\ r.seq = holder[h].seq /\ r.from = holder[h].from /\ r.pc = pc
  BY <1>1 DEF Requests
<1> HIDE DEF r
<1>3. HolderStep(h, holder[h], r)
  BY <1>1, <1>2, Moves
<1> QED BY <1>2, <1>3

\* A request as it arrives
LEMMA AsksFacts ==
  ASSUME NEW op \in SnapOps, NEW id \in SnapId, NEW seq \in Seqs, NEW from \in Seqs, NEW pc \in SnapPcs
  PROVE  LET r == Asks(op, id, seq, from, pc)
         IN  r \in Requests /\ r.op = op /\ r.id = id /\ r.seq = seq /\ r.from = from /\ r.pc = pc
BY DEF Asks, Requests

\* Nothing happens to any item
LEMMA ItemsStill ==
  ASSUME UNCHANGED <<item, store, nextSnapSeq, left>>, SnapTypes
  PROVE  ItemsStep
BY SnapshotAssumption DEF ItemsStep, ItemStep, StoreStep, SnapTypes

\* A copy ends, or a capture runs inline
LEMMA StepAlone ==
  ASSUME SnapInv, NEW h \in DOMAIN holder, CloneCopied(h) \/ ExecQueries(h)
  PROVE  SnapInv'
<1>1. /\ UNCHANGED <<item, store, record, nextSnapSeq, left, torn, snapFault>> /\ holder[h].op = "make"
      /\ \/ holder[h].pc = "copy" /\ Step(h, "persist")
         \/ holder[h].pc = "capture" /\ Step(h, "unpin")
  BY DEF CloneCopied, ExecQueries, historyVars, Is
<1>2. holder \in Seq(Requests) /\ RequestShape(holder[h]) /\ holder[h] \in Requests
  BY RequestFacts DEF SnapInv, SnapTypes
<1> DEFINE old == holder[h]
<1>3. PICK r \in Requests : /\ r.op = old.op /\ r.id = old.id /\ r.seq = old.seq /\ r.from = old.from
                            /\ (old.pc = "copy" /\ r.pc = "persist") \/ (old.pc = "capture" /\ r.pc = "unpin")
                            /\ HolderStep(h, old, r)
  BY <1>1, <1>2, StepOf DEF SnapPcs
<1>4. SnapTypes'
  BY <1>1, <1>3 DEF SnapInv, SnapTypes, HolderStep
<1>5. ItemsStep
  BY <1>1, ItemsStill DEF SnapInv
<1>6. MoveOf(h, old, r)
  BY <1>1, <1>3 DEF MoveOf, RecordStep, Making
<1>7. RefsEq(old, r)
  BY <1>1, <1>3, RefsNat DEF RefsEq, SnapInv
<1>8. RequestShape(r)'
  BY <1>1, <1>2, <1>3 DEF RequestShape, Making, BeforeRecord
<1>9. \A id : IdStill(id, old, r)
  BY <1>1, <1>3 DEF IdStill, Making, BeforeRecord
<1>10. \A id : SameId(id)
  BY <1>1 DEF SameId
<1> HIDE DEF old
<1> QED BY <1>1, <1>4, <1>5, <1>6, <1>7, <1>8, <1>9, <1>10, InvMoves

\* The stores are set up, and those of a clone filled
LEMMA TenantMade ==
  ASSUME SnapInv, NEW h \in DOMAIN holder, Is(h, "make", "tenant"),
         item' = [item EXCEPT ![holder[h].seq].tenant = TRUE], store' = store \cup {holder[h].seq},
         Step(h, IF holder[h].from # NoSeq /\ item[holder[h].from].tenant THEN "copy" ELSE "persist"),
         UNCHANGED <<record, nextSnapSeq, historyVars>>
  PROVE  SnapInv'
<1> DEFINE old == holder[h]
           e == [item[old.seq] EXCEPT !.tenant = TRUE]
<1>1. UNCHANGED <<record, nextSnapSeq, left, torn, snapFault>> /\ old.op = "make" /\ old.pc = "tenant"
  BY DEF historyVars, Is
<1>2. /\ holder \in Seq(Requests) /\ RequestShape(old) /\ old \in Requests /\ old.seq \in SnapSeq /\ item[old.seq] # NoItem
      /\ item[old.seq].refs >= 1 /\ item \in [SnapSeq -> Items] /\ (old.from = NoSeq \/ old.from \in SnapSeq)
  BY <1>1, RequestFacts DEF SnapInv, SnapTypes, RequestShape
<1>3. PICK r \in Requests : /\ r.op = old.op /\ r.id = old.id /\ r.seq = old.seq /\ r.from = old.from
                            /\ r.pc \in {"copy", "persist"} /\ (r.pc = "copy" => old.from # NoSeq /\ item[old.from].tenant)
                            /\ HolderStep(h, old, r)
  BY <1>2, StepOf DEF SnapPcs
<1>4. item' = [item EXCEPT ![old.seq] = e]
  BY <1>2
<1>5. /\ e \in Items /\ e.refs = item[old.seq].refs /\ e.id = item[old.seq].id /\ e.linked = item[old.seq].linked
      /\ e.tenant = TRUE /\ e.capture = item[old.seq].capture
  BY <1>2 DEF Items
<1> HIDE DEF e
<1>6. /\ item' \in [SnapSeq -> Items] /\ store' \subseteq SnapSeq /\ ItemsStep
      /\ item'[old.seq] = e /\ \A p \in SnapSeq : p # old.seq => item'[p] = item[p]
  <2>1. e.refs > 0
    BY <1>2, <1>5 DEF Items
  <2> HIDE DEF old
  <2> QED BY <1>1, <1>2, <1>4, <1>5, <2>1, ItemChanges DEF SnapInv, old
<1>7. SnapTypes'
  BY <1>1, <1>3, <1>6 DEF SnapInv, SnapTypes, HolderStep
<1>8. \A q \in SnapSeq : item'[q].linked = item[q].linked /\ item'[q].capture = item[q].capture /\ item'[q].refs = item[q].refs /\ item'[q].id = item[q].id
                          /\ (item[q].tenant => item'[q].tenant)
  BY <1>5, <1>6
<1>9. MoveOf(h, old, r)
  BY <1>1, <1>3, <1>8 DEF MoveOf, RecordStep, Making
<1>10. RefsEq(old, r)
  BY <1>3, <1>8, RefsNat DEF RefsEq, SnapInv
<1>11. RequestShape(r)'
  <2>1. r.pc = "copy" => item'[r.from].tenant
    BY <1>2, <1>3, <1>8
  <2>2. item'[r.seq].id = r.id /\ ~item'[r.seq].capture /\ item'[r.seq].tenant
    BY <1>1, <1>2, <1>3, <1>5, <1>6 DEF RequestShape, Making
  <2> QED BY <1>1, <1>2, <1>3, <2>1, <2>2 DEF RequestShape, Making, BeforeRecord
<1>12. \A id : IdStill(id, old, r)
  BY <1>1, <1>3 DEF IdStill, Making, BeforeRecord
<1>13. \A id : SameId(id)
  BY <1>1, <1>8 DEF SameId
<1> HIDE DEF old
<1> QED BY <1>1, <1>3, <1>6, <1>7, <1>9, <1>10, <1>11, <1>12, <1>13, InvMoves

\* An item with one more reference, and one whose capture starts
LEMMA PinnedItem ==
  ASSUME NEW x \in Items
  PROVE  LET e == [x EXCEPT !.refs = x.refs + 1]
             c == [x EXCEPT !.capture = TRUE, !.refs = x.refs + 1]
         IN  /\ e \in Items /\ e.refs = x.refs + 1 /\ e.id = x.id /\ e.linked = x.linked /\ e.tenant = x.tenant /\ e.capture = x.capture
             /\ c \in Items /\ c.refs = x.refs + 1 /\ c.id = x.id /\ c.linked = x.linked /\ c.tenant = x.tenant /\ c.capture = TRUE
<1> DEFINE n == x.refs + 1
<1>1. n \in Nat
  <2>1. x.refs \in Nat
    BY DEF Items
  <2> QED BY <2>1
<1> HIDE DEF n
<1>2. LET e == [x EXCEPT !.refs = n]
          c == [x EXCEPT !.capture = TRUE, !.refs = n]
      IN  /\ e \in Items /\ e.refs = n /\ e.id = x.id /\ e.linked = x.linked /\ e.tenant = x.tenant /\ e.capture = x.capture
          /\ c \in Items /\ c.refs = n /\ c.id = x.id /\ c.linked = x.linked /\ c.tenant = x.tenant /\ c.capture = TRUE
  BY <1>1 DEF Items
<1> QED BY <1>2 DEF n

\* Where neither links nor captures change, and each count moves with the one request
LEMMA RefsOfSame ==
  ASSUME SnapTypes, NEW old, NEW r,
         \A q \in SnapSeq : item'[q].linked = item[q].linked /\ item'[q].capture = item[q].capture,
         \A q \in SnapSeq : item'[q].refs = item[q].refs - OneIf(old.seq = q) + OneIf(r.seq = q) - OneIf(old.from = q) + OneIf(r.from = q)
  PROVE  RefsEq(old, r)
BY RefsNat DEF RefsEq

\* A request comes that holds an item: a clone its source, a use, a DELETE
LEMMA HoldComes ==
  ASSUME SnapInv, NEW q \in SnapSeq, item[q].linked, ItemPin(q), NEW r \in Requests, Arrives(r), RequestShape(r),
         UNCHANGED <<store, record, nextSnapSeq, left>>, torn \subseteq torn',
         (r.seq = q /\ r.from = NoSeq) \/ (r.seq = NoSeq /\ r.from = q), r.pc \notin Making,
         r.op = "delete" => r.pc = "unlink" /\ item[q].id = r.id
                            /\ (r.id \in torn' \/ \A h \in DOMAIN holder : holder[h].id = r.id => holder[h].op # "make"),
         r.op = "make" => r.pc = "add"
  PROVE  SnapInv'
<1> DEFINE n == Len(holder) + 1
           e == [item[q] EXCEPT !.refs = item[q].refs + 1]
<1>1. /\ item \in [SnapSeq -> Items] /\ holder \in Seq(Requests) /\ item[q] # NoItem /\ item[q].refs >= 1 /\ item[q].refs \in Nat
      /\ NoSeq \notin SnapSeq
  BY Linkd DEF SnapInv, SnapTypes, SnapSeq, NoSeq
<1>2. item' = [item EXCEPT ![q] = e]
  BY <1>1 DEF ItemPin
<1>3. /\ e \in Items /\ e.refs = item[q].refs + 1 /\ e.id = item[q].id /\ e.linked = item[q].linked
      /\ e.tenant = item[q].tenant /\ e.capture = item[q].capture /\ e.refs > 0
  <2>1. item[q] \in Items
    BY <1>1
  <2>2. /\ e \in Items /\ e.refs = item[q].refs + 1 /\ e.id = item[q].id /\ e.linked = item[q].linked
        /\ e.tenant = item[q].tenant /\ e.capture = item[q].capture
    BY <2>1, PinnedItem
  <2> HIDE DEF e
  <2> QED BY <1>1, <2>2
<1> HIDE DEF e
<1>4. /\ item' \in [SnapSeq -> Items] /\ store' \subseteq SnapSeq /\ ItemsStep
      /\ item'[q] = e /\ \A p \in SnapSeq : p # q => item'[p] = item[p]
  BY <1>1, <1>2, <1>3, ItemChanges DEF SnapInv
<1>5. HolderStep(n, Done, r) /\ n \notin DOMAIN holder
  BY <1>1, Comes, LenProperties
<1> HIDE DEF n
<1>6. SnapTypes'
  BY <1>4, <1>5 DEF SnapInv, SnapTypes, HolderStep
<1>7. \A p \in SnapSeq : item'[p].linked = item[p].linked /\ item'[p].capture = item[p].capture /\ item'[p].id = item[p].id
                          /\ item'[p].tenant = item[p].tenant
  BY <1>3, <1>4
<1>8. MoveOf(n, Done, r)
  BY <1>5, <1>7 DEF MoveOf, RecordStep
<1>9. RefsEq(Done, r)
  <2>1. \A p \in SnapSeq : item'[p].refs = item[p].refs - OneIf(Done.seq = p) + OneIf(r.seq = p) - OneIf(Done.from = p) + OneIf(r.from = p)
    <3> SUFFICES ASSUME NEW p \in SnapSeq
                 PROVE  item'[p].refs = item[p].refs - OneIf(Done.seq = p) + OneIf(r.seq = p) - OneIf(Done.from = p) + OneIf(r.from = p)
      OBVIOUS
    <3>1. item[p].refs \in Nat
      BY RefsNat DEF SnapInv
    <3>2. OneIf(Done.seq = p) = 0 /\ OneIf(Done.from = p) = 0
      BY <1>1, DoneFacts DEF OneIf
    <3>3. OneIf(r.seq = p) + OneIf(r.from = p) = IF p = q THEN 1 ELSE 0
      BY <1>1 DEF OneIf
    <3>4. item'[p].refs = item[p].refs + IF p = q THEN 1 ELSE 0
      BY <1>3, <1>4, <3>1
    <3>5. OneIf(r.seq = p) \in Nat /\ OneIf(r.from = p) \in Nat
      BY DEF OneIf
    <3> QED BY <3>1, <3>2, <3>3, <3>4, <3>5
  <2> QED BY <1>7, <2>1, RefsOfSame DEF SnapInv
<1>10. RequestShape(r)'
  BY <1>1 DEF RequestShape, Making, BeforeRecord
<1>11. \A id : SameId(id)
  BY <1>7 DEF SameId
<1>12. ASSUME NEW id \in SnapId \ torn' PROVE IdStill(id, Done, r) \/ IdShape(id)'
  <2>1. CASE ~(r.op = "delete" /\ r.id = id)
    BY <2>1, DoneFacts DEF IdStill, Making, BeforeRecord
  <2>2. CASE r.op = "delete" /\ r.id = id
    <3>1. IdShape(id)
      BY DEF SnapInv, IdInv
    <3>2. /\ \A k \in DOMAIN holder : k \in DOMAIN holder' /\ holder'[k] = holder[k]
          /\ \A k \in DOMAIN holder' : k \in DOMAIN holder \/ k = n
          /\ n \in DOMAIN holder' /\ holder'[n] = r
      BY <1>5, <2>2, DoneFacts DEF HolderStep
    <3>3. Linked(id)' = Linked(id) /\ q \in Linked(id)
      BY <1>7, <2>2 DEF Linked
    <3>4. \A p \in Linked(id) : p = q
      BY <3>3 DEF SnapInv, SnapShape, Alone, Linked
    <3>5. record'[id] # NoSeq =>
            /\ item'[record'[id]].tenant /\ item'[record'[id]].id = id
            /\ item'[record'[id]].linked \/ \E k \in DOMAIN holder' : Is(k, "delete", "erase")' /\ holder'[k].id = id /\ holder'[k].seq = record'[id]
      <4>1. record[id] # NoSeq => record[id] \in SnapSeq
        BY SnapshotAssumption DEF SnapInv, SnapTypes, Seqs, SnapSeq, NoSeq
      <4> QED BY <1>7, <3>1, <3>2, <4>1 DEF IdShape, Is
    <3>6. \A p \in Linked(id)' : record'[id] = p \/ \E k \in DOMAIN holder' : holder'[k].pc \in BeforeRecord /\ holder'[k].id = id /\ holder'[k].seq = p
      BY <3>1, <3>2, <3>3 DEF IdShape
    <3>7. \A k \in DOMAIN holder' : holder'[k].id = id /\ holder'[k].pc \in Making => k \in DOMAIN holder /\ holder[k].op = "make"
      <4> SUFFICES ASSUME NEW k \in DOMAIN holder', holder'[k].id = id, holder'[k].pc \in Making PROVE k \in DOMAIN holder /\ holder[k].op = "make"
        OBVIOUS
      <4>1. k \in DOMAIN holder /\ holder'[k] = holder[k]
        BY <3>2
      <4>2. RequestShape(holder[k])
        BY <4>1 DEF SnapInv, SnapShape
      <4>3. holder[k].pc \in Making
        BY <4>1
      <4>4. holder[k] \in Requests
        BY <4>1, LenProperties DEF SnapInv, SnapTypes
      <4> QED BY <4>1, <4>2, <4>3, <4>4 DEF RequestShape, Making, Requests, SnapOps
    <3>8. \A k \in DOMAIN holder : ~(holder[k].id = id /\ holder[k].op = "make")
      BY <2>2, <1>12
    <3>9. \A k \in DOMAIN holder' : ~(holder'[k].id = id /\ holder'[k].pc \in Making) /\ ~(holder'[k].id = id /\ holder'[k].op = "make")
      BY <2>2, <3>2, <3>7, <3>8
    <3>10. \A k \in DOMAIN holder' : holder'[k].id = id /\ holder'[k].op = "delete" => \A p \in Linked(id)' : holder'[k].pc = "unlink" /\ p = holder'[k].seq
      BY <1>1, <2>2, <3>1, <3>2, <3>3, <3>4 DEF IdShape, RequestShape, SnapInv
    <3> QED BY <3>5, <3>6, <3>9, <3>10 DEF IdShape, BeforeRecord, Making
  <2> QED BY <2>1, <2>2
<1> QED BY <1>4, <1>6, <1>8, <1>9, <1>10, <1>11, <1>12, InvMoves

\* A use, a DELETE, a clone arrive
LEMMA Arrivals ==
  ASSUME SnapInv, NEW q \in SnapSeq, HoldSnapshot(q) \/ DeleteSnapshot(q) \/ \E id \in SnapId : CloneSnapshot(q, id)
  PROVE  SnapInv'
<1>1. /\ item[q].linked /\ item[q] # NoItem /\ item[q].id \in SnapId /\ q < nextSnapSeq /\ q \in Seqs /\ NoSeq \in Seqs /\ q # NoSeq
      /\ NoSeq < nextSnapSeq
  <2>1. item[q].linked
    BY DEF HoldSnapshot, DeleteSnapshot, CloneSnapshot
  <2>2. item[q] # NoItem
    BY <2>1, Linkd DEF SnapInv
  <2>3. item[q].id \in SnapId /\ q < nextSnapSeq
    BY <2>1, <2>2 DEF SnapInv, SnapShape, ItemShape
  <2>4. q \in Seqs /\ NoSeq \in Seqs /\ q # NoSeq /\ NoSeq < nextSnapSeq
    BY SnapshotAssumption DEF Seqs, NoSeq, SnapSeq, SnapInv, SnapTypes
  <2> QED BY <2>1, <2>2, <2>3, <2>4
<1>2. CASE HoldSnapshot(q)
  <2> DEFINE r == Asks("use", item[q].id, q, NoSeq, "unpin")
  <2>1. r \in Requests /\ r.op = "use" /\ r.id = item[q].id /\ r.seq = q /\ r.from = NoSeq /\ r.pc = "unpin"
    BY <1>1, AsksFacts DEF SnapOps, SnapPcs
  <2>2. /\ ItemPin(q) /\ Arrives(r) /\ UNCHANGED <<store, record, nextSnapSeq, left, torn, snapFault>>
    BY <1>2 DEF HoldSnapshot, historyVars
  <2> HIDE DEF r
  <2>3. RequestShape(r)
    BY <1>1, <2>1 DEF RequestShape, Making, BeforeRecord
  <2> QED BY <1>1, <2>1, <2>2, <2>3, HoldComes DEF Making
<1>3. CASE DeleteSnapshot(q)
  <2> DEFINE r == Asks("delete", item[q].id, q, NoSeq, "unlink")
  <2>1. r \in Requests /\ r.op = "delete" /\ r.id = item[q].id /\ r.seq = q /\ r.from = NoSeq /\ r.pc = "unlink"
    BY <1>1, AsksFacts, SMTT(30) DEF SnapOps, SnapPcs
  <2>2. /\ ItemPin(q) /\ Arrives(r) /\ UNCHANGED <<store, record, nextSnapSeq, left, snapFault>> /\ Tear(item[q].id, {"make"})
    BY <1>3 DEF DeleteSnapshot
  <2> HIDE DEF r
  <2>3. RequestShape(r)
    BY <1>1, <2>1 DEF RequestShape, Making, BeforeRecord
  <2>4. torn \subseteq torn' /\ (r.id \in torn' \/ \A h \in DOMAIN holder : holder[h].id = r.id => holder[h].op # "make")
    BY <2>1, <2>2 DEF Tear, Under
  <2> QED BY <1>1, <2>1, <2>2, <2>3, <2>4, HoldComes DEF Making
<1>4. ASSUME NEW id \in SnapId, CloneSnapshot(q, id) PROVE SnapInv'
  <2> DEFINE r == Asks("make", id, NoSeq, q, "add")
  <2>1. r \in Requests /\ r.op = "make" /\ r.id = id /\ r.seq = NoSeq /\ r.from = q /\ r.pc = "add"
    BY <1>1, AsksFacts DEF SnapOps, SnapPcs
  <2>2. /\ ItemPin(q) /\ Arrives(r) /\ UNCHANGED <<store, record, nextSnapSeq, left, torn, snapFault>>
    BY <1>4 DEF CloneSnapshot, historyVars
  <2> HIDE DEF r
  <2>3. RequestShape(r)
    BY <1>1, <2>1 DEF RequestShape, Making, BeforeRecord
  <2> QED BY <1>1, <2>1, <2>2, <2>3, HoldComes DEF Making
<1> QED BY <1>2, <1>3, <1>4

\* A snapshot is made, by a POST or by a clone
LEMMA Made ==
  ASSUME SnapInv, NEW id \in SnapId, ItemAdd(id), NEW h, NEW old, NEW r \in Requests, HolderStep(h, old, r), h \in DOMAIN holder',
         old = Done \/ (old.op = "make" /\ old.id = id /\ old.pc = "add" /\ old.seq = NoSeq),
         old.from = NoSeq \/ old.from \in SnapSeq, old.from < nextSnapSeq,
         r.op = "make", r.id = id, r.seq = nextSnapSeq, r.from = old.from, r.pc = "tenant",
         Tear(id, {"delete"}), UNCHANGED <<store, record, left>>
  PROVE  SnapInv'
<1> DEFINE n == nextSnapSeq
<1>1. /\ item' \in [SnapSeq -> Items] /\ store' \subseteq SnapSeq /\ ItemsStep /\ n \in SnapSeq
      /\ nextSnapSeq' = n + 1 /\ nextSnapSeq' \in 1..(MaxSnapSeq + 1)
      /\ item[n] = NoItem /\ (\A p \in SnapSeq : p # n => item'[p] = item[p])
      /\ item'[n].id = id /\ item'[n].linked /\ item'[n].refs = 2
      /\ ~item'[n].tenant /\ ~item'[n].capture
      /\ Linked(id) = {} /\ Linked(id)' = {n}
  BY ItemComes DEF SnapInv
<1>2. SnapTypes'
  BY <1>1 DEF SnapInv, SnapTypes, HolderStep
<1>3. torn \subseteq torn' /\ (id \in torn' \/ \A k \in DOMAIN holder : holder[k].id = id => holder[k].op # "delete")
  BY DEF Tear, Under
<1>4. old.seq = NoSeq /\ old.pc \in {"done", "add"} /\ n # NoSeq /\ NoSeq \notin SnapSeq /\ (old.op = "none" \/ old.id = id)
  BY <1>1, DoneFacts DEF SnapSeq, NoSeq
<1>5. MoveOf(h, old, r)
  BY <1>1 DEF MoveOf, RecordStep, Making, Linked
<1>6. RefsEq(old, r)
  <2> SUFFICES ASSUME NEW q \in SnapSeq
               PROVE  item'[q].refs = item[q].refs - OneIf(old.seq = q) + OneIf(r.seq = q) - OneIf(old.from = q) + OneIf(r.from = q)
                      - OneIf(item[q].linked) + OneIf(item'[q].linked) - OneIf(item[q].capture) + OneIf(item'[q].capture)
    BY DEF RefsEq
  <2>1. OneIf(old.seq = q) = 0 /\ OneIf(r.seq = q) = OneIf(q = n) /\ OneIf(r.from = q) = OneIf(old.from = q)
    BY <1>4 DEF OneIf
  <2>2. item[q].refs \in Nat /\ \A b : OneIf(b) \in Nat
    BY RefsNat DEF SnapInv, OneIf
  <2>3. CASE q = n
    <3>1. item[q].refs = 0 /\ OneIf(item[q].linked) = 0 /\ OneIf(item[q].capture) = 0 /\ OneIf(q = n) = 1
      BY <1>1, <2>3, NoItemFacts DEF OneIf
    <3>2. item'[q].refs = 2 /\ OneIf(item'[q].linked) = 1 /\ OneIf(item'[q].capture) = 0
      BY <1>1, <2>3 DEF OneIf
    <3> HIDE DEF n
    <3> QED BY <2>1, <2>2, <3>1, <3>2
  <2>4. CASE q # n
    <3>1. item'[q] = item[q] /\ OneIf(q = n) = 0
      BY <1>1, <2>4 DEF OneIf
    <3> HIDE DEF n
    <3> QED BY <2>1, <2>2, <3>1
  <2> QED BY <2>3, <2>4
<1>7. RequestShape(r)'
  <2>1. \A j \in SnapId : record[j] # n
    BY <1>1 DEF SnapInv, SnapShape, Alone, SnapTypes, SnapSeq
  <2>2. r.from < nextSnapSeq'
    BY <1>1, <1>4 DEF SnapSeq, NoSeq
  <2>3. r.seq < nextSnapSeq'
    BY <1>1 DEF SnapSeq
  <2> QED BY <1>1, <1>4, <2>1, <2>2, <2>3 DEF RequestShape, Making, BeforeRecord
<1>8. ASSUME NEW j \in SnapId \ torn', j # id PROVE IdStill(j, old, r) /\ SameId(j)
  <2>1. IdStill(j, old, r)
    BY <1>4, <1>8 DEF IdStill, BeforeRecord
  <2>2. SameId(j)
    BY <1>1, <1>8, NoItemFacts DEF SameId
  <2> QED BY <2>1, <2>2
<1>9. ASSUME id \notin torn' PROVE IdShape(id)'
  <2>1. IdShape(id) /\ \A k \in DOMAIN holder : holder[k].id = id => holder[k].op # "delete"
    BY <1>3, <1>9 DEF SnapInv, IdInv
  <2>2. record'[id] = NoSeq
    <3>1. record[id] = NoSeq \/ record[id] \in SnapSeq
      BY SnapshotAssumption DEF SnapInv, SnapTypes, Seqs, SnapSeq, NoSeq
    <3> QED BY <1>1, <2>1, <3>1 DEF IdShape, Is, Linked
  <2>3. \A k \in DOMAIN holder' : k # h => k \in DOMAIN holder /\ holder'[k] = holder[k]
    BY DEF HolderStep
  <2>4. holder'[h] = r
    BY DEF HolderStep
  <2>5. \A k \in DOMAIN holder : ~(holder[k].id = id /\ holder[k].pc \in Making)
    <3> SUFFICES ASSUME NEW k \in DOMAIN holder, holder[k].id = id, holder[k].pc \in Making PROVE FALSE
      OBVIOUS
    <3>1. item[holder[k].seq].linked /\ item[holder[k].seq].id = id
      BY <2>1 DEF IdShape, SnapInv, SnapShape, RequestShape
    <3>2. holder[k].seq \in SnapSeq
      BY RequestFacts DEF RequestShape, Making
    <3> QED BY <1>1, <3>1, <3>2 DEF Linked
  <2>6. \A k \in DOMAIN holder' : holder'[k].id = id /\ holder'[k].pc \in Making => k = h
    BY <2>3, <2>5
  <2>7. \A k \in DOMAIN holder' : holder'[k].id = id => holder'[k].op # "delete"
    BY <2>1, <2>3, <2>4
  <2>8. BeforeRecord \subseteq Making /\ r.pc \in BeforeRecord
    BY DEF BeforeRecord, Making
  <2>9. \A q \in Linked(id)' : \E k \in DOMAIN holder' : holder'[k].pc \in BeforeRecord /\ holder'[k].id = id /\ holder'[k].seq = q
    BY <1>1, <2>4, <2>8
  <2>10. item'[r.seq].linked
    BY <1>1
  <2> QED BY <2>2, <2>4, <2>6, <2>7, <2>8, <2>9, <2>10 DEF IdShape
<1>10. \A j \in SnapId \ torn' : (IdStill(j, old, r) /\ SameId(j)) \/ IdShape(j)'
  BY <1>8, <1>9
<1> HIDE DEF n
<1> QED BY <1>1, <1>2, <1>3, <1>5, <1>6, <1>7, <1>10, InvMoves

\* A POST
LEMMA PostMade ==
  ASSUME SnapInv, NEW id \in SnapId, PostSnapshot(id)
  PROVE  SnapInv'
<1> DEFINE r == Asks("make", id, nextSnapSeq, NoSeq, "tenant")
<1>1. /\ ItemAdd(id) /\ Arrives(r) /\ Tear(id, {"delete"}) /\ UNCHANGED <<store, record, left>>
  BY DEF PostSnapshot
<1>2. nextSnapSeq \in Seqs /\ NoSeq \in Seqs /\ NoSeq < nextSnapSeq
  BY <1>1, SnapshotAssumption DEF ItemAdd, SnapInv, SnapTypes, Seqs, NoSeq
<1>3. r \in Requests /\ r.op = "make" /\ r.id = id /\ r.seq = nextSnapSeq /\ r.from = NoSeq /\ r.pc = "tenant"
  BY <1>2, AsksFacts DEF SnapOps, SnapPcs
<1> HIDE DEF r
<1>4. HolderStep(Len(holder) + 1, Done, r)
  BY <1>1, <1>3, Comes DEF SnapInv, SnapTypes
<1>5. Len(holder) + 1 \in DOMAIN holder'
  BY <1>1, LenProperties, AppendProperties DEF Arrives, SnapInv, SnapTypes
<1> QED BY <1>1, <1>2, <1>3, <1>4, <1>5, DoneFacts, Made

\* A request gives back one reference
LEMMA GivesBack ==
  ASSUME SnapInv, NEW h \in DOMAIN holder, NEW q \in SnapSeq, holder[h].seq = q \/ holder[h].from = q, ItemUnpin(q),
         NEW r \in Requests, HolderStep(h, holder[h], r),
         (holder[h].seq = q /\ r.seq = holder[h].from /\ r.from = NoSeq) \/ (holder[h].from = q /\ holder[h].seq = NoSeq /\ r.seq = NoSeq /\ r.from = NoSeq),
         holder[h].pc \in {"add", "unpin"}, r.pc \in {"done", "unpin"}, RequestShape(r),
         r = Done \/ (r.op = "make" /\ r.id = holder[h].id /\ holder[h].op = "make" /\ holder[h].pc = "unpin"),
         UNCHANGED <<record, nextSnapSeq, left>>, torn \subseteq torn'
  PROVE  SnapInv'
<1> DEFINE old == holder[h]
<1>1. item[q] # NoItem /\ item[q].refs >= 1 /\ item[q].refs \in Nat /\ item \in [SnapSeq -> Items]
  BY RequestFacts
<1>2. /\ item' \in [SnapSeq -> Items] /\ store' \subseteq SnapSeq /\ ItemsStep
      /\ \A p \in SnapSeq : p # q => item'[p] = item[p]
      /\ \/ item[q].refs = 1 /\ item'[q] = NoItem
         \/ /\ item[q].refs > 1 /\ item'[q].refs = item[q].refs - 1 /\ item'[q].id = item[q].id /\ item'[q].tenant = item[q].tenant
            /\ item'[q].linked = item[q].linked /\ item'[q].capture = item[q].capture
  <2>1. ItemDrop(item, q)
    BY DEF ItemUnpin
  <2> QED BY <1>1, <2>1, ItemDrops DEF SnapInv
<1>3. item[q].refs = 1 => ~item[q].linked /\ ~item[q].capture
  BY LastReference DEF SnapInv
<1>4. /\ \A p \in SnapSeq : item'[p].linked = item[p].linked /\ item'[p].capture = item[p].capture
      /\ \A p \in SnapSeq : item[p].linked => item'[p].id = item[p].id
      /\ item'[q].refs = item[q].refs - 1
  <2>1. item[q].linked \in BOOLEAN /\ item[q].capture \in BOOLEAN
    BY <1>1 DEF Items
  <2>2. CASE item[q].refs = 1
    <3>1. item'[q] = NoItem /\ item[q].linked = FALSE /\ item[q].capture = FALSE
      BY <1>2, <1>3, <2>1, <2>2
    <3>2. item'[q].linked = FALSE /\ item'[q].capture = FALSE /\ item'[q].refs = 0
      BY <3>1, NoItemFacts
    <3>3. item'[q].linked = item[q].linked /\ item'[q].capture = item[q].capture /\ ~item[q].linked
      BY <3>1, <3>2
    <3>4. item'[q].refs = item[q].refs - 1
      BY <2>2, <3>2
    <3> QED BY <1>2, <3>3, <3>4
  <2>3. CASE item[q].refs # 1
    BY <1>2, <2>3
  <2> QED BY <2>2, <2>3
<1>5. SnapTypes'
  BY <1>2 DEF SnapInv, SnapTypes, HolderStep
<1>6. old.pc \notin Making /\ r.pc \notin Making /\ BeforeRecord \subseteq Making
  BY DEF Making, BeforeRecord
<1>7. MoveOf(h, old, r)
  BY <1>4, <1>6 DEF MoveOf, RecordStep
<1>8. RefsEq(old, r)
  <2>1. ASSUME NEW p \in SnapSeq
        PROVE  item'[p].refs = item[p].refs - OneIf(old.seq = p) + OneIf(r.seq = p) - OneIf(old.from = p) + OneIf(r.from = p)
    <3>1. NoSeq # p /\ item[p].refs \in Nat
      BY RefsNat DEF SnapSeq, NoSeq, SnapInv
    <3>2. item'[p].refs = item[p].refs - OneIf(p = q)
      BY <1>2, <1>4, <3>1 DEF OneIf
    <3>3. OneIf(old.seq = p) - OneIf(r.seq = p) + OneIf(old.from = p) - OneIf(r.from = p) = OneIf(p = q)
      BY <3>1 DEF OneIf
    <3>4. OneIf(old.seq = p) \in Nat /\ OneIf(r.seq = p) \in Nat /\ OneIf(old.from = p) \in Nat /\ OneIf(r.from = p) \in Nat
      BY DEF OneIf
    <3> HIDE DEF old
    <3> DEFINE a == OneIf(old.seq = p)
               b == OneIf(r.seq = p)
               c == OneIf(old.from = p)
               d == OneIf(r.from = p)
               e == OneIf(p = q)
    <3>5. e \in Nat
      BY DEF OneIf
    <3>6. a \in Nat /\ b \in Nat /\ c \in Nat /\ d \in Nat /\ a - b + c - d = e /\ item'[p].refs = item[p].refs - e
      BY <3>2, <3>3, <3>4
    <3> HIDE DEF a, b, c, d, e
    <3>7. item'[p].refs = item[p].refs - a + b - c + d
      BY <3>1, <3>5, <3>6
    <3> QED BY <3>7 DEF a, b, c, d
  <2> QED BY <1>4, <2>1, RefsOfSame DEF SnapInv
<1>9. RequestShape(r)'
  BY <1>6 DEF RequestShape, Making, BeforeRecord
<1>10. \A id : IdStill(id, old, r)
  BY <1>6, DoneFacts DEF IdStill, Making, BeforeRecord
<1>11. \A id \in SnapId : SameId(id)
  BY <1>4, NoItemFacts DEF SameId
<1> HIDE DEF old
<1> QED BY <1>2, <1>5, <1>7, <1>8, <1>9, <1>10, <1>11, InvMoves

\* A clone whose id is taken meanwhile goes, with its reference to the source
LEMMA CloneTaken ==
  ASSUME SnapInv, NEW h \in DOMAIN holder, CloneItemAdd(h)
  PROVE  SnapInv'
<1> DEFINE old == holder[h]
<1>1. old.op = "make" /\ old.pc = "add" /\ Tear(old.id, {"delete"}) /\ UNCHANGED <<record, left, snapFault>>
  BY DEF CloneItemAdd, Is
<1>2. old \in Requests /\ RequestShape(old) /\ holder \in Seq(Requests)
  BY RequestFacts DEF SnapInv, SnapTypes
<1>3. old.seq = NoSeq /\ old.from \in SnapSeq /\ old.id \in SnapId /\ old.from < nextSnapSeq
  BY <1>1, <1>2, RequestFacts DEF RequestShape
<1>4. torn \subseteq torn'
  BY <1>1 DEF Tear
<1>5. CASE ItemAdd(old.id) /\ holder' = [holder EXCEPT ![h].seq = nextSnapSeq, ![h].pc = "tenant"] /\ UNCHANGED store
  <2> DEFINE r == [old EXCEPT !.seq = nextSnapSeq, !.pc = "tenant"]
  <2>1. holder' = [holder EXCEPT ![h] = r]
    BY <1>2, <1>5
  <2>2. nextSnapSeq \in Seqs
    BY <1>5, SnapshotAssumption DEF ItemAdd, SnapInv, SnapTypes, Seqs
  <2>3. r \in Requests /\ r.op = old.op /\ r.id = old.id /\ r.seq = nextSnapSeq /\ r.from = old.from /\ r.pc = "tenant"
    BY <1>2, <2>2 DEF Requests, SnapPcs
  <2> HIDE DEF r
  <2>4. HolderStep(h, old, r) /\ h \in DOMAIN holder'
    BY <1>2, <2>1, <2>3, Moves
  <2> HIDE DEF old
  <2> QED BY <1>1, <1>3, <1>5, <2>3, <2>4, Made
<1>6. CASE ItemUnpin(old.from) /\ holder' = [holder EXCEPT ![h] = Done] /\ UNCHANGED nextSnapSeq
  <2>1. HolderStep(h, old, Done)
    BY <1>2, <1>6, DoneFacts, Moves
  <2>2. RequestShape(Done)
    BY <1>1, DoneFacts, SnapshotAssumption DEF RequestShape, Making, BeforeRecord, NoSeq, SnapInv, SnapTypes
  <2> QED BY <1>1, <1>3, <1>4, <1>6, <2>1, <2>2, DoneFacts, GivesBack
<1> QED BY <1>5, <1>6 DEF CloneItemAdd

\* A request's reference goes
LEMMA Unpins ==
  ASSUME SnapInv, NEW h \in DOMAIN holder, Unpin(h)
  PROVE  SnapInv'
<1> DEFINE old == holder[h]
<1>1. /\ old.pc = "unpin" /\ ItemUnpin(old.seq) /\ UNCHANGED <<record, nextSnapSeq, left, torn, snapFault>>
      /\ holder' = [holder EXCEPT ![h] = IF old.from = NoSeq THEN Done ELSE [old EXCEPT !.seq = old.from, !.from = NoSeq]]
  BY DEF Unpin, historyVars
<1>2. old \in Requests /\ RequestShape(old) /\ holder \in Seq(Requests)
  BY RequestFacts DEF SnapInv, SnapTypes
<1>3. old.seq \in SnapSeq /\ NoSeq \notin SnapSeq /\ NoSeq \in Seqs /\ NoSeq < nextSnapSeq
  BY <1>1, <1>2, RequestFacts, SnapshotAssumption DEF RequestShape, Seqs, NoSeq, SnapInv, SnapTypes
<1>4. CASE old.from = NoSeq
  <2>1. HolderStep(h, old, Done)
    BY <1>1, <1>2, <1>4, DoneFacts, Moves
  <2>2. RequestShape(Done)
    BY <1>3, DoneFacts DEF RequestShape, Making, BeforeRecord
  <2> QED BY <1>1, <1>3, <1>4, <2>1, <2>2, DoneFacts, GivesBack
<1>5. CASE old.from # NoSeq
  <2> DEFINE r == [old EXCEPT !.seq = old.from, !.from = NoSeq]
  <2>1. holder' = [holder EXCEPT ![h] = r]
    BY <1>1, <1>5
  <2>2. r \in Requests /\ r.op = old.op /\ r.id = old.id /\ r.seq = old.from /\ r.from = NoSeq /\ r.pc = old.pc
    BY <1>2, <1>3 DEF Requests
  <2> HIDE DEF r
  <2>3. HolderStep(h, old, r)
    BY <1>2, <2>1, <2>2, Moves
  <2>4. old.op = "make"
    BY <1>1, <1>2, <1>5 DEF RequestShape, Requests, SnapOps
  <2>5. RequestShape(r)
    BY <1>1, <1>2, <1>3, <1>5, <2>2, <2>4 DEF RequestShape, Making, BeforeRecord
  <2> QED BY <1>1, <1>3, <2>2, <2>3, <2>4, <2>5, GivesBack
<1> QED BY <1>4, <1>5

\* The worker that captures ends
LEMMA WorkerEnds ==
  ASSUME SnapInv, NEW q \in SnapSeq, SnapshotWorkerEnd(q)
  PROVE  SnapInv'
<1> DEFINE items == [item EXCEPT ![q].capture = FALSE]
<1>1. /\ item[q].capture /\ ItemDrop(items, q) /\ UNCHANGED <<record, nextSnapSeq, holder, left, torn, snapFault>>
  BY DEF SnapshotWorkerEnd, historyVars
<1>2. item[q] # NoItem /\ item[q].refs >= 1 /\ item[q].refs \in Nat /\ item \in [SnapSeq -> Items] /\ holder \in Seq(Requests)
  BY <1>1, Linkd DEF SnapInv, SnapTypes
<1>3. /\ items \in [SnapSeq -> Items] /\ \A p \in SnapSeq : p # q => items[p] = item[p]
      /\ items[q].refs = item[q].refs /\ items[q].id = item[q].id /\ items[q].linked = item[q].linked /\ items[q].tenant = item[q].tenant
      /\ items[q].capture = FALSE
  <2>1. /\ [item[q] EXCEPT !.capture = FALSE] \in Items
    BY <1>2 DEF Items
  <2>2. items = [item EXCEPT ![q] = [item[q] EXCEPT !.capture = FALSE]]
    BY <1>2
  <2>3. items[q] = [item[q] EXCEPT !.capture = FALSE]
    BY <1>2, <2>2
  <2>4. item[q] \in Items
    BY <1>2
  <2>5. items[q].refs = item[q].refs /\ items[q].id = item[q].id /\ items[q].linked = item[q].linked /\ items[q].tenant = item[q].tenant
      /\ items[q].capture = FALSE
    BY <2>3, <2>4 DEF Items
  <2> QED BY <1>2, <2>1, <2>2, <2>5
<1> HIDE DEF items
<1>4. /\ item' \in [SnapSeq -> Items] /\ store' \subseteq SnapSeq /\ ItemsStep
      /\ \A p \in SnapSeq : p # q => item'[p] = item[p]
      /\ \/ item[q].refs = 1 /\ item'[q] = NoItem
         \/ /\ item[q].refs > 1 /\ item'[q].refs = item[q].refs - 1 /\ item'[q].id = item[q].id /\ item'[q].tenant = item[q].tenant
            /\ item'[q].linked = items[q].linked /\ item'[q].capture = items[q].capture
  BY <1>1, <1>2, <1>3, ItemDrops DEF SnapInv
<1>5. item[q].refs = 1 => ~item[q].linked
  BY <1>1, LastReference DEF SnapInv
<1>6. /\ \A p \in SnapSeq : item'[p].linked = item[p].linked
      /\ \A p \in SnapSeq : p # q => item'[p].capture = item[p].capture
      /\ \A p \in SnapSeq : item[p].linked => item'[p].id = item[p].id
      /\ item'[q].refs = item[q].refs - 1 /\ item'[q].capture = FALSE
  <2>1. item[q].linked \in BOOLEAN
    BY <1>2 DEF Items
  <2>2. CASE item[q].refs = 1
    <3>1. item'[q] = NoItem /\ item[q].linked = FALSE
      BY <1>4, <1>5, <2>1, <2>2
    <3>2. item'[q].linked = FALSE /\ item'[q].capture = FALSE /\ item'[q].refs = 0
      BY <3>1, NoItemFacts
    <3>3. item'[q].linked = item[q].linked /\ ~item[q].linked
      BY <3>1, <3>2
    <3>4. item'[q].refs = item[q].refs - 1
      BY <2>2, <3>2
    <3>5. \A p \in SnapSeq : item'[p].linked = item[p].linked
      BY <1>4, <3>3
    <3>6. \A p \in SnapSeq : p # q => item'[p].capture = item[p].capture
      BY <1>4
    <3>7. \A p \in SnapSeq : item[p].linked => item'[p].id = item[p].id
      BY <1>4, <3>3
    <3> QED BY <3>2, <3>4, <3>5, <3>6, <3>7
  <2>3. CASE item[q].refs # 1
    BY <1>3, <1>4, <2>3
  <2> QED BY <2>2, <2>3
<1>7. SnapTypes'
  BY <1>1, <1>4 DEF SnapInv, SnapTypes
<1>8. 0 \notin DOMAIN holder
  BY <1>2, LenProperties
<1>9. HolderStep(0, Done, Done)
  BY <1>1, <1>2, <1>8 DEF HolderStep
<1>10. MoveOf(0, Done, Done)
  BY <1>1, <1>6, <1>9, DoneFacts DEF MoveOf, RecordStep, Making
<1>11. RefsEq(Done, Done)
  <2> SUFFICES ASSUME NEW p \in SnapSeq
        PROVE  item'[p].refs = item[p].refs - OneIf(Done.seq = p) + OneIf(Done.seq = p) - OneIf(Done.from = p) + OneIf(Done.from = p)
                      - OneIf(item[p].linked) + OneIf(item'[p].linked) - OneIf(item[p].capture) + OneIf(item'[p].capture)
    BY DEF RefsEq
  <2>1. NoSeq # p /\ item[p].refs \in Nat
    BY RefsNat DEF SnapSeq, NoSeq, SnapInv
  <2>2. OneIf(Done.seq = p) = 0 /\ OneIf(Done.from = p) = 0
    BY <2>1, DoneFacts DEF OneIf
  <2>3. OneIf(item[p].linked) = OneIf(item'[p].linked) /\ OneIf(item[p].linked) \in Nat
    BY <1>6 DEF OneIf
  <2>4. item'[p].refs = item[p].refs - OneIf(item[p].capture) + OneIf(item'[p].capture)
    BY <1>1, <1>4, <1>6, <2>1 DEF OneIf
  <2>5. OneIf(item[p].capture) \in Nat /\ OneIf(item'[p].capture) \in Nat
    BY DEF OneIf
  <2> QED BY <2>1, <2>2, <2>3, <2>4, <2>5
<1>12. RequestShape(Done)'
  BY <1>1, DoneFacts, SnapshotAssumption DEF RequestShape, Making, BeforeRecord, NoSeq, SnapInv, SnapTypes
<1>13. \A id : IdStill(id, Done, Done)
  BY DoneFacts DEF IdStill, Making, BeforeRecord
<1>14. \A id \in SnapId : SameId(id)
  BY <1>1, <1>6, NoItemFacts DEF SameId
<1> QED BY <1>1, <1>4, <1>7, <1>10, <1>11, <1>12, <1>13, <1>14, InvMoves

\* What a removal by an id does: the linked item of that id is not linked any more
LEMMA ItemDeletes ==
  ASSUME SnapInv, NEW id \in SnapId, ItemDelete(id), left' = left, nextSnapSeq' = nextSnapSeq
  PROVE  /\ item' \in [SnapSeq -> Items] /\ store' \subseteq SnapSeq /\ ItemsStep /\ Linked(id)' = {}
         /\ \A p \in SnapSeq : p \notin Linked(id) => item'[p] = item[p]
         /\ \A p \in SnapSeq : item'[p] # NoItem => item'[p].id = item[p].id /\ item'[p].tenant = item[p].tenant
         /\ \A p \in SnapSeq : item'[p].capture = item[p].capture
         /\ \A p \in SnapSeq : item'[p].linked => item[p].linked
         /\ \A p \in SnapSeq : item'[p].refs = item[p].refs - OneIf(item[p].linked) + OneIf(item'[p].linked)
<1>0. item \in [SnapSeq -> Items] /\ (\A p \in SnapSeq : item[p].refs \in Nat) /\ \A b : OneIf(b) \in Nat
  BY RefsNat DEF SnapInv, SnapTypes, OneIf
<1>1. CASE Linked(id) = {} /\ UNCHANGED <<item, store>>
  <2>1. ItemsStep
    BY <1>1, ItemsStill DEF SnapInv
  <2>2. Linked(id)' = Linked(id)
    BY <1>1 DEF Linked
  <2>3. \A p \in SnapSeq : item'[p].refs = item[p].refs - OneIf(item[p].linked) + OneIf(item'[p].linked)
    BY <1>0, <1>1
  <2> QED BY <1>0, <1>1, <2>1, <2>2, <2>3 DEF SnapInv, SnapTypes
<1>2. ASSUME NEW q \in Linked(id), ItemDrop([item EXCEPT ![q].linked = FALSE], q)
      PROVE  /\ item' \in [SnapSeq -> Items] /\ store' \subseteq SnapSeq /\ ItemsStep /\ Linked(id)' = {}
             /\ \A p \in SnapSeq : p \notin Linked(id) => item'[p] = item[p]
             /\ \A p \in SnapSeq : item'[p] # NoItem => item'[p].id = item[p].id /\ item'[p].tenant = item[p].tenant
             /\ \A p \in SnapSeq : item'[p].capture = item[p].capture
             /\ \A p \in SnapSeq : item'[p].linked => item[p].linked
             /\ \A p \in SnapSeq : item'[p].refs = item[p].refs - OneIf(item[p].linked) + OneIf(item'[p].linked)
  <2> DEFINE items == [item EXCEPT ![q].linked = FALSE]
  <2>1. q \in SnapSeq /\ item[q].linked /\ item[q].id = id
    BY DEF Linked
  <2>2. item[q] # NoItem /\ item[q].refs >= 1 /\ item[q].refs \in Nat
    BY <2>1, Linkd DEF SnapInv
  <2>3. /\ items \in [SnapSeq -> Items] /\ \A p \in SnapSeq : p # q => items[p] = item[p]
        /\ items[q].refs = item[q].refs /\ items[q].id = item[q].id /\ items[q].capture = item[q].capture /\ items[q].tenant = item[q].tenant
        /\ items[q].linked = FALSE
    <3>1. /\ [item[q] EXCEPT !.linked = FALSE] \in Items
      BY <1>0, <2>1 DEF Items
    <3>2. items = [item EXCEPT ![q] = [item[q] EXCEPT !.linked = FALSE]]
      BY <1>0, <2>1
    <3>3. items[q] = [item[q] EXCEPT !.linked = FALSE]
      BY <1>0, <2>1, <3>2
    <3>4. item[q] \in Items
      BY <1>0, <2>1
    <3>5. items[q].refs = item[q].refs /\ items[q].id = item[q].id /\ items[q].capture = item[q].capture /\ items[q].tenant = item[q].tenant
        /\ items[q].linked = FALSE
      BY <3>3, <3>4 DEF Items
    <3> QED BY <1>0, <3>1, <3>2, <3>5
  <2>4. ItemDrop(items, q)
    BY <1>2
  <2> HIDE DEF items
  <2>5. /\ item' \in [SnapSeq -> Items] /\ store' \subseteq SnapSeq /\ ItemsStep
        /\ \A p \in SnapSeq : p # q => item'[p] = item[p]
        /\ \/ item[q].refs = 1 /\ item'[q] = NoItem
           \/ /\ item[q].refs > 1 /\ item'[q].refs = item[q].refs - 1 /\ item'[q].id = item[q].id /\ item'[q].tenant = item[q].tenant
              /\ item'[q].linked = items[q].linked /\ item'[q].capture = items[q].capture
    BY <2>1, <2>2, <2>3, <2>4, ItemDrops DEF SnapInv
  <2>6. item[q].refs = 1 => ~item[q].capture
    BY <2>1, LastReference DEF SnapInv
  <2>7. item[q].capture \in BOOLEAN
    BY <1>0, <2>1 DEF Items
  <2>8. item'[q].linked = FALSE /\ item'[q].capture = item[q].capture /\ item'[q].refs = item[q].refs - 1
    <3>1. CASE item[q].refs = 1
      <4>1. item'[q] = NoItem /\ item[q].capture = FALSE
        BY <2>2, <2>5, <2>6, <2>7, <3>1
      <4>2. item'[q].linked = FALSE /\ item'[q].capture = FALSE /\ item'[q].refs = 0
        BY <4>1, NoItemFacts
      <4>3. item'[q].capture = item[q].capture
        BY <4>1, <4>2
      <4>4. item'[q].refs = item[q].refs - 1
        BY <3>1, <4>2
      <4> QED BY <4>2, <4>3, <4>4
    <3>2. CASE item[q].refs # 1
      BY <2>3, <2>5, <3>2
    <3> QED BY <3>1, <3>2
  <2>9. Linked(id)' = {}
    <3>1. \A p \in SnapSeq : item[p].linked /\ item[p].id = id => p = q
      BY <2>1 DEF SnapInv, SnapShape, Alone
    <3> QED BY <2>5, <2>8, <3>1 DEF Linked
  <2>10. \A p \in SnapSeq : item'[p] # NoItem => item'[p].id = item[p].id /\ item'[p].tenant = item[p].tenant
    BY <2>5
  <2>11. \A p \in SnapSeq : item'[p].capture = item[p].capture
    BY <2>5, <2>8
  <2>12. \A p \in SnapSeq : item'[p].linked => item[p].linked
    BY <2>5, <2>8
  <2>13. ASSUME NEW p \in SnapSeq PROVE item'[p].refs = item[p].refs - OneIf(item[p].linked) + OneIf(item'[p].linked)
    <3>1. CASE p = q
      <4>1. OneIf(item[p].linked) = 1 /\ OneIf(item'[p].linked) = 0
        BY <2>1, <2>8, <3>1 DEF OneIf
      <4> QED BY <1>0, <2>8, <3>1, <4>1
    <3>2. CASE p # q
      BY <1>0, <2>5, <3>2
    <3> QED BY <3>1, <3>2
  <2> QED BY <2>5, <2>9, <2>10, <2>11, <2>12, <2>13
<1> QED BY <1>1, <1>2 DEF ItemDelete

\* The counts, where one request stays with what it holds and items are only unlinked
LEMMA RefsOfUnlinked ==
  ASSUME SnapTypes, NEW old, NEW r, r.seq = old.seq, r.from = old.from,
         \A q \in SnapSeq : item'[q].capture = item[q].capture,
         \A q \in SnapSeq : item'[q].refs = item[q].refs - OneIf(item[q].linked) + OneIf(item'[q].linked)
  PROVE  RefsEq(old, r)
BY RefsNat DEF RefsEq

\* A DELETE unlinks; or the stores of a snapshot cannot be set up
LEMMA Unlinks ==
  ASSUME SnapInv, NEW h \in DOMAIN holder, ItemDelete(holder[h].id), UNCHANGED <<record, nextSnapSeq, left, torn, snapFault>>,
         \/ Is(h, "delete", "unlink") /\ Step(h, "erase")
         \/ Is(h, "make", "tenant") /\ Step(h, "unpin")
  PROVE  SnapInv'
<1> DEFINE old == holder[h]
<1>0. PICK id : id = old.id
  OBVIOUS
<1>1. old \in Requests /\ RequestShape(old) /\ holder \in Seq(Requests)
  BY RequestFacts DEF SnapInv, SnapTypes
<1>2. old.op \in {"delete", "make"} /\ old.pc \in {"unlink", "tenant"} /\ (old.op = "delete" <=> old.pc = "unlink") /\ (old.op = "make" <=> old.pc = "tenant")
  BY DEF Is
<1>3. id \in SnapId /\ old.seq \in SnapSeq /\ ItemDelete(id)
  BY <1>0, <1>1, <1>2, RequestFacts DEF RequestShape
<1>4. PICK r \in Requests : /\ r.op = old.op /\ r.id = id /\ old.id = id /\ r.seq = old.seq /\ r.from = old.from
                            /\ (old.pc = "unlink" => r.pc = "erase") /\ (old.pc = "tenant" => r.pc = "unpin")
                            /\ HolderStep(h, old, r)
  BY <1>0, <1>1, StepOf DEF SnapPcs, Is
<1>5. /\ item' \in [SnapSeq -> Items] /\ store' \subseteq SnapSeq /\ ItemsStep /\ Linked(id)' = {}
      /\ \A p \in SnapSeq : p \notin Linked(id) => item'[p] = item[p]
      /\ \A p \in SnapSeq : item'[p] # NoItem => item'[p].id = item[p].id /\ item'[p].tenant = item[p].tenant
      /\ \A p \in SnapSeq : item'[p].capture = item[p].capture
      /\ \A p \in SnapSeq : item'[p].linked => item[p].linked
      /\ \A p \in SnapSeq : item'[p].refs = item[p].refs - OneIf(item[p].linked) + OneIf(item'[p].linked)
  BY <1>3, ItemDeletes
<1>6. SnapTypes'
  BY <1>4, <1>5 DEF SnapInv, SnapTypes, HolderStep
<1>7. MoveOf(h, old, r)
  BY <1>2, <1>4, <1>5 DEF MoveOf, RecordStep, Making
<1>8. RefsEq(old, r)
  <2> HIDE DEF old
  <2> QED BY <1>4, <1>5, RefsOfUnlinked DEF SnapInv
<1>9. RequestShape(r)'
  <2>1. r.pc \in {"erase", "unpin"}
    BY <1>2, <1>4
  <2> QED BY <1>1, <1>2, <1>4, <2>1 DEF RequestShape, Making, BeforeRecord
<1>10. RefInv'
  <2> HIDE DEF old
  <2> QED BY <1>7, <1>8, RefInvMoves DEF SnapInv, MoveOf
<1>11. ASSUME NEW j \in SnapId, j # id PROVE IdStill(j, old, r) /\ SameId(j)
  <2>1. IdStill(j, old, r)
    BY <1>2, <1>4, <1>11 DEF IdStill, BeforeRecord, Making
  <2>2. SameId(j)
    <3>1. \A p \in SnapSeq : item[p].linked /\ item[p].id = j => p \notin Linked(id)
      BY <1>11 DEF Linked
    <3>2. \A p \in SnapSeq : item'[p].linked => item'[p] # NoItem
      BY NoItemFacts
    <3> QED BY <1>5, <3>1, <3>2 DEF SameId
  <2> QED BY <2>1, <2>2
<1>12. /\ \A k \in DOMAIN holder' : k # h => k \in DOMAIN holder /\ holder'[k] = holder[k]
       /\ \A k \in DOMAIN holder : k # h => k \in DOMAIN holder' /\ holder'[k] = holder[k]
       /\ h \in DOMAIN holder' /\ holder'[h] = r
  <2>1. r # Done
    BY <1>2, <1>4, DoneFacts
  <2> QED BY <1>4, <2>1 DEF HolderStep
<1>13. \A k \in DOMAIN holder : holder[k].pc \in Making => holder[k].op = "make" /\ holder[k].pc # "add" /\ holder[k].seq \in SnapSeq /\ item[holder[k].seq].id = holder[k].id
  <2> SUFFICES ASSUME NEW k \in DOMAIN holder, holder[k].pc \in Making
               PROVE  holder[k].op = "make" /\ holder[k].pc # "add" /\ holder[k].seq \in SnapSeq /\ item[holder[k].seq].id = holder[k].id
    OBVIOUS
  <2> QED BY RequestFacts DEF RequestShape, Making, Requests, SnapOps
<1>14. r.pc \notin Making /\ BeforeRecord \subseteq Making
  BY <1>2, <1>4 DEF Making, BeforeRecord
<1>15. ASSUME id \notin torn' PROVE IdShape(id)'
  <2>1. IdShape(id)
    BY <1>3, <1>15 DEF SnapInv, IdInv
  <2>2. CASE old.op = "delete"
    <3>1. /\ \A q \in Linked(id) : q = old.seq
          /\ \A k \in DOMAIN holder : holder[k].id = id /\ holder[k].op = "make" => holder[k].pc = "add"
      BY <1>4, <2>1, <2>2 DEF IdShape
    <3>2. \A k \in DOMAIN holder' : holder'[k].id = id => ~(holder'[k].pc \in Making)
      BY <1>12, <1>13, <1>14, <3>1
    <3>3. \A k \in DOMAIN holder' : holder'[k].id = id /\ holder'[k].op = "make" => holder'[k].pc = "add"
      BY <1>4, <1>12, <2>2, <3>1
    <3>4. ASSUME record[id] # NoSeq
          PROVE  /\ item'[record[id]].tenant /\ item'[record[id]].id = id
                 /\ \E k \in DOMAIN holder' : Is(k, "delete", "erase")' /\ holder'[k].id = id /\ holder'[k].seq = record[id]
      <4> DEFINE p == record[id]
      <4>1. p \in SnapSeq
        BY <1>3, <3>4, SnapshotAssumption DEF SnapInv, SnapTypes, Seqs, SnapSeq, NoSeq
      <4>2. item[p].tenant /\ item[p].id = id /\ (item[p].linked \/ \E k \in DOMAIN holder : Is(k, "delete", "erase") /\ holder[k].id = id /\ holder[k].seq = p)
        BY <2>1, <3>4 DEF IdShape
      <4>3. PICK k \in DOMAIN holder' : holder'[k].op = "delete" /\ holder'[k].pc = "erase" /\ holder'[k].id = id /\ holder'[k].seq = p
        <5>1. CASE item[p].linked
          <6>1. p = old.seq
            BY <3>1, <4>1, <4>2, <5>1 DEF Linked
          <6> QED BY <1>2, <1>4, <1>12, <2>2, <6>1
        <5>2. CASE \E k \in DOMAIN holder : Is(k, "delete", "erase") /\ holder[k].id = id /\ holder[k].seq = p
          <6>1. PICK k \in DOMAIN holder : Is(k, "delete", "erase") /\ holder[k].id = id /\ holder[k].seq = p
            BY <5>2
          <6>2. k # h
            BY <1>2, <6>1 DEF Is
          <6> QED BY <1>12, <6>1, <6>2 DEF Is
        <5> QED BY <4>2, <5>1, <5>2
      <4>4. item'[p] # NoItem
        <5> HIDE DEF p
        <5> QED BY <1>6, <1>10, <4>1, <4>3, HeldNext
      <4> QED BY <1>5, <4>1, <4>2, <4>3, <4>4 DEF Is
    <3> QED BY <1>5, <1>14, <3>2, <3>3, <3>4 DEF IdShape
  <2>3. CASE old.op = "make"
    <3>1. old.pc \in BeforeRecord /\ old.pc \in Making
      BY <1>2, <2>3 DEF BeforeRecord, Making
    <3>2. record[id] = NoSeq /\ item[old.seq].linked
      BY <1>4, <2>1, <3>1 DEF IdShape
    <3>3. \A k \in DOMAIN holder : holder[k].id = id => holder[k].op # "delete"
      BY <1>2, <1>4, <2>1, <2>3 DEF IdShape
    <3>4. \A k \in DOMAIN holder' : holder'[k].id = id => holder'[k].op # "delete"
      BY <1>4, <1>12, <2>3, <3>3
    <3>5. ASSUME NEW k \in DOMAIN holder, holder[k].id = id, holder[k].pc \in Making PROVE k = h
      <4>1. item[holder[k].seq].linked /\ item[old.seq].id = id
        BY <1>4, <1>13, <2>1, <3>1, <3>5 DEF IdShape
      <4>2. holder[k].seq = old.seq
        BY <1>3, <1>13, <3>2, <3>5, <4>1 DEF SnapInv, SnapShape, Alone
      <4> QED BY <3>1, <3>5, <4>2 DEF SnapInv, SnapShape, Alone
    <3>6. \A k \in DOMAIN holder' : holder'[k].id = id => ~(holder'[k].pc \in Making)
      BY <1>12, <1>14, <3>5
    <3> QED BY <1>5, <1>14, <3>2, <3>4, <3>6 DEF IdShape
  <2> QED BY <1>2, <2>2, <2>3
<1>16. \A j \in SnapId \ torn' : (IdStill(j, old, r) /\ SameId(j)) \/ IdShape(j)'
  BY <1>11, <1>15
<1> HIDE DEF old
<1> QED BY <1>5, <1>6, <1>7, <1>8, <1>9, <1>16, InvMoves

\* The other requests of a step, and the one that moves, where it lives on
LEMMA OneMoves ==
  ASSUME NEW h \in DOMAIN holder, NEW old, NEW r, HolderStep(h, old, r), r # Done
  PROVE  /\ \A k \in DOMAIN holder' : k # h => k \in DOMAIN holder /\ holder'[k] = holder[k]
         /\ \A k \in DOMAIN holder : k # h => k \in DOMAIN holder' /\ holder'[k] = holder[k]
         /\ h \in DOMAIN holder' /\ holder'[h] = r
BY DEF HolderStep

\* Who makes, and what
LEMMA Makers ==
  ASSUME SnapInv
  PROVE  \A k \in DOMAIN holder : holder[k].pc \in Making =>
           holder[k].op = "make" /\ holder[k].pc # "add" /\ holder[k].seq \in SnapSeq /\ item[holder[k].seq].id = holder[k].id
<1> SUFFICES ASSUME NEW k \in DOMAIN holder, holder[k].pc \in Making
             PROVE  holder[k].op = "make" /\ holder[k].pc # "add" /\ holder[k].seq \in SnapSeq /\ item[holder[k].seq].id = holder[k].id
  OBVIOUS
<1> QED BY RequestFacts DEF RequestShape, Making, Requests, SnapOps

\* The record of a snapshot is written, or its write fails
LEMMA RecordWritten ==
  ASSUME SnapInv, NEW h \in DOMAIN holder, SnapshotCreate(h)
  PROVE  SnapInv'
<1> DEFINE old == holder[h]
<1>0. PICK id : id = old.id
  OBVIOUS
<1>1. /\ old.op = "make" /\ old.pc = "persist" /\ UNCHANGED <<item, store, nextSnapSeq, left>>
      /\ Step(h, IF old.from = NoSeq THEN "capture" ELSE "unpin")
      /\ \/ record' = (IF record[id] = NoSeq THEN [record EXCEPT ![id] = old.seq] ELSE record) /\ torn' = torn
         \/ record' = record /\ torn' = torn \cup {id}
  BY <1>0 DEF SnapshotCreate, DbFails, Is
<1>2. old \in Requests /\ RequestShape(old) /\ holder \in Seq(Requests)
  BY RequestFacts DEF SnapInv, SnapTypes
<1>3. id \in SnapId /\ old.seq \in SnapSeq /\ old.seq \in Seqs /\ item[old.seq].id = id /\ ~item[old.seq].capture /\ item[old.seq].tenant
      /\ old.seq < nextSnapSeq /\ old.from < nextSnapSeq
  BY <1>0, <1>1, <1>2, RequestFacts DEF RequestShape, Making, Requests
<1>4. PICK r \in Requests : /\ r.op = "make" /\ r.id = id /\ old.id = id /\ r.seq = old.seq /\ r.from = old.from /\ r.pc \in {"capture", "unpin"}
                            /\ HolderStep(h, old, r)
  BY <1>0, <1>1, <1>2, StepOf DEF SnapPcs
<1>5. record \in [SnapId -> Seqs] /\ record' \in [SnapId -> Seqs]
  BY <1>1, <1>3 DEF SnapInv, SnapTypes
<1>6. SnapTypes'
  BY <1>1, <1>4, <1>5 DEF SnapInv, SnapTypes, HolderStep
<1>7. ItemsStep
  BY <1>1, ItemsStill DEF SnapInv
<1>8. MoveOf(h, old, r)
  <2>1. RecordStep(old)
    BY <1>1, <1>3, <1>4 DEF RecordStep
  <2> QED BY <1>1, <1>4, <2>1 DEF MoveOf, Making
<1>9. RefsEq(old, r)
  BY <1>1, <1>4, RefsNat DEF RefsEq, SnapInv
<1>10. RequestShape(r)'
  BY <1>1, <1>2, <1>3, <1>4 DEF RequestShape, Making, BeforeRecord
<1>11. ASSUME NEW j \in SnapId, j # id PROVE IdStill(j, old, r) /\ SameId(j)
  BY <1>1, <1>4, <1>5, <1>11 DEF IdStill, BeforeRecord, Making, SameId
<1>12. ASSUME id \notin torn' PROVE IdShape(id)'
  <2>1. IdShape(id) /\ id \notin torn
    BY <1>1, <1>3, <1>12 DEF SnapInv, IdInv
  <2>2. record[id] = NoSeq /\ item[old.seq].linked /\ \A k \in DOMAIN holder : holder[k].id = id => holder[k].op # "delete"
    BY <1>1, <1>4, <2>1 DEF IdShape, BeforeRecord, Making
  <2>3. record'[id] = old.seq
    BY <1>1, <1>3, <1>5, <1>12, <2>2
  <2>4. /\ \A k \in DOMAIN holder' : k # h => k \in DOMAIN holder /\ holder'[k] = holder[k]
        /\ h \in DOMAIN holder' /\ holder'[h] = r
    <3>1. r # Done
      BY <1>4, DoneFacts
    <3> QED BY <1>4, <3>1, OneMoves
  <2>5. \A k \in DOMAIN holder' : holder'[k].id = id => holder'[k].op # "delete"
    BY <1>4, <2>2, <2>4
  <2>6. \A p \in Linked(id)' : p = old.seq
    BY <1>1, <1>3, <2>2 DEF Linked, SnapInv, SnapShape, Alone
  <2>7. \A k \in DOMAIN holder' : holder'[k].id = id /\ holder'[k].pc \in Making => item'[holder'[k].seq].linked
    BY <1>1, <1>4, <2>1, <2>2, <2>4 DEF IdShape
  <2>8. \A k \in DOMAIN holder' : ~(holder'[k].id = id /\ holder'[k].pc \in BeforeRecord)
    <3> SUFFICES ASSUME NEW k \in DOMAIN holder', holder'[k].id = id, holder'[k].pc \in BeforeRecord PROVE FALSE
      OBVIOUS
    <3>1. k # h /\ k \in DOMAIN holder /\ holder'[k] = holder[k]
      BY <1>4, <2>4 DEF BeforeRecord
    <3>2. holder[k].pc \in Making /\ old.pc \in Making
      BY <1>1, <3>1 DEF BeforeRecord, Making
    <3>3. item[holder[k].seq].linked /\ item[holder[k].seq].id = id /\ holder[k].seq \in SnapSeq
      BY <2>1, <3>1, <3>2, Makers DEF IdShape
    <3>4. holder[k].seq = old.seq
      BY <1>3, <2>2, <3>3 DEF SnapInv, SnapShape, Alone
    <3> QED BY <3>1, <3>2, <3>4 DEF SnapInv, SnapShape, Alone
  <2> QED BY <1>1, <1>3, <2>2, <2>3, <2>5, <2>6, <2>7, <2>8 DEF IdShape
<1>13. \A j \in SnapId \ torn' : (IdStill(j, old, r) /\ SameId(j)) \/ IdShape(j)'
  BY <1>11, <1>12
<1>14. torn \subseteq torn'
  BY <1>1
<1> HIDE DEF old
<1> QED BY <1>6, <1>7, <1>8, <1>9, <1>10, <1>13, <1>14, InvMoves

\* The capture starts, with a reference of its own
LEMMA Captures ==
  ASSUME SnapInv, NEW h \in DOMAIN holder, SnapshotCaptureAsync(h)
  PROVE  SnapInv'
<1> DEFINE old == holder[h]
<1>0. PICK q : q = old.seq
  OBVIOUS
<1>1. /\ old.op = "make" /\ old.pc = "capture" /\ UNCHANGED <<store, record, nextSnapSeq, left, torn, snapFault>>
      /\ Step(h, "unpin") /\ item' = [item EXCEPT ![q].capture = TRUE, ![q].refs = @ + 1]
  BY <1>0 DEF SnapshotCaptureAsync, CapturePin, historyVars, Is
<1>2. old \in Requests /\ RequestShape(old) /\ holder \in Seq(Requests) /\ item \in [SnapSeq -> Items]
  BY RequestFacts DEF SnapInv, SnapTypes
<1>3. q \in SnapSeq /\ ~item[q].capture /\ item[q].tenant /\ item[q] # NoItem /\ item[q].refs >= 1 /\ item[q].refs \in Nat
  BY <1>0, <1>1, <1>2, RequestFacts DEF RequestShape, Making
<1>4. PICK r \in Requests : /\ r.op = "make" /\ r.id = old.id /\ r.seq = old.seq /\ r.from = old.from /\ r.pc = "unpin"
                            /\ HolderStep(h, old, r)
  BY <1>1, <1>2, StepOf DEF SnapPcs
<1> DEFINE c == [item[q] EXCEPT !.capture = TRUE, !.refs = item[q].refs + 1]
<1>5. item' = [item EXCEPT ![q] = c]
  BY <1>1, <1>2, <1>3
<1>6. c \in Items /\ c.refs = item[q].refs + 1 /\ c.id = item[q].id /\ c.linked = item[q].linked /\ c.tenant = item[q].tenant /\ c.capture = TRUE
  <2>1. item[q] \in Items
    BY <1>2, <1>3
  <2> QED BY <2>1, PinnedItem
<1> HIDE DEF c
<1>7. c.refs > 0
  BY <1>3, <1>6
<1>8. /\ item' \in [SnapSeq -> Items] /\ store' \subseteq SnapSeq /\ ItemsStep
      /\ item'[q] = c /\ \A p \in SnapSeq : p # q => item'[p] = item[p]
  BY <1>1, <1>3, <1>5, <1>6, <1>7, ItemChanges DEF SnapInv
<1>9. SnapTypes'
  BY <1>1, <1>4, <1>8 DEF SnapInv, SnapTypes, HolderStep
<1>10. \A p \in SnapSeq : item'[p].linked = item[p].linked /\ item'[p].id = item[p].id
  BY <1>6, <1>8
<1>11. MoveOf(h, old, r)
  <2>1. \A p \in SnapSeq : item'[p].capture => item[p].capture \/ (old.pc \in Making /\ old.seq = p)
    BY <1>0, <1>1, <1>8 DEF Making
  <2> QED BY <1>1, <1>4, <1>10, <2>1 DEF MoveOf, RecordStep, Making
<1>12. RefsEq(old, r)
  <2> SUFFICES ASSUME NEW p \in SnapSeq
        PROVE  item'[p].refs = item[p].refs - OneIf(old.seq = p) + OneIf(r.seq = p) - OneIf(old.from = p) + OneIf(r.from = p)
                      - OneIf(item[p].linked) + OneIf(item'[p].linked) - OneIf(item[p].capture) + OneIf(item'[p].capture)
    BY DEF RefsEq
  <2>1. item[p].refs \in Nat /\ \A b : OneIf(b) \in Nat
    BY RefsNat DEF SnapInv, OneIf
  <2>2. OneIf(old.seq = p) = OneIf(r.seq = p) /\ OneIf(old.from = p) = OneIf(r.from = p) /\ OneIf(item[p].linked) = OneIf(item'[p].linked)
    BY <1>4, <1>10
  <2>3. item'[p].refs = item[p].refs - OneIf(item[p].capture) + OneIf(item'[p].capture)
    <3>1. CASE p = q
      <4>1. OneIf(item[p].capture) = 0 /\ OneIf(item'[p].capture) = 1
        BY <1>3, <1>6, <1>8, <3>1 DEF OneIf
      <4> QED BY <1>3, <1>6, <1>8, <3>1, <4>1
    <3>2. CASE p # q
      BY <1>8, <2>1, <3>2
    <3> QED BY <3>1, <3>2
  <2> HIDE DEF old
  <2> QED BY <2>1, <2>2, <2>3
<1>13. RequestShape(r)'
  BY <1>1, <1>2, <1>4 DEF RequestShape, Making, BeforeRecord
<1>14. \A id : IdStill(id, old, r)
  BY <1>1, <1>4 DEF IdStill, BeforeRecord, Making
<1>15. \A id \in SnapId : SameId(id)
  BY <1>1, <1>10 DEF SameId
<1> HIDE DEF old
<1> QED BY <1>1, <1>8, <1>9, <1>11, <1>12, <1>13, <1>14, <1>15, InvMoves

\* The record of a snapshot is erased, or that fails
LEMMA Erased ==
  ASSUME SnapInv, NEW h \in DOMAIN holder, SnapshotDelete(h)
  PROVE  SnapInv'
<1> DEFINE old == holder[h]
<1>0. PICK id : id = old.id
  OBVIOUS
<1>1. /\ old.op = "delete" /\ old.pc = "erase" /\ UNCHANGED <<item, store, nextSnapSeq, left>>
      /\ Step(h, "unpin")
      /\ \/ record' = [record EXCEPT ![id] = NoSeq] /\ torn' = torn
         \/ record' = record /\ torn' = torn \cup {id}
  BY <1>0 DEF SnapshotDelete, DbFails, Is
<1>2. old \in Requests /\ RequestShape(old) /\ holder \in Seq(Requests)
  BY RequestFacts DEF SnapInv, SnapTypes
<1>3. id \in SnapId /\ NoSeq \in Seqs
  BY <1>0, <1>1, <1>2, SnapshotAssumption DEF RequestShape, Requests, Seqs, NoSeq
<1>4. PICK r \in Requests : /\ r.op = "delete" /\ r.id = id /\ old.id = id /\ r.seq = old.seq /\ r.from = old.from /\ r.pc = "unpin"
                            /\ HolderStep(h, old, r)
  BY <1>0, <1>1, <1>2, StepOf DEF SnapPcs
<1>5. record \in [SnapId -> Seqs] /\ record' \in [SnapId -> Seqs]
  BY <1>1, <1>3 DEF SnapInv, SnapTypes
<1>6. SnapTypes'
  BY <1>1, <1>4, <1>5 DEF SnapInv, SnapTypes, HolderStep
<1>7. ItemsStep
  BY <1>1, ItemsStill DEF SnapInv
<1>8. MoveOf(h, old, r)
  <2>1. RecordStep(old)
    BY <1>1, <1>3, <1>4 DEF RecordStep
  <2> QED BY <1>1, <1>4, <2>1 DEF MoveOf, Making
<1>9. RefsEq(old, r)
  BY <1>1, <1>4, RefsNat DEF RefsEq, SnapInv
<1>10. RequestShape(r)'
  BY <1>1, <1>2, <1>4 DEF RequestShape, Making, BeforeRecord
<1>11. ASSUME NEW j \in SnapId, j # id PROVE IdStill(j, old, r) /\ SameId(j)
  BY <1>1, <1>4, <1>5, <1>11 DEF IdStill, BeforeRecord, Making, SameId
<1>12. ASSUME id \notin torn' PROVE IdShape(id)'
  <2>1. IdShape(id) /\ id \notin torn
    BY <1>1, <1>3, <1>12 DEF SnapInv, IdInv
  <2>2. Linked(id) = {} /\ \A k \in DOMAIN holder : holder[k].id = id /\ holder[k].op = "make" => holder[k].pc = "add"
    BY <1>1, <1>4, <2>1 DEF IdShape
  <2>3. record'[id] = NoSeq
    BY <1>1, <1>3, <1>5, <1>12
  <2>4. /\ \A k \in DOMAIN holder' : k # h => k \in DOMAIN holder /\ holder'[k] = holder[k]
        /\ h \in DOMAIN holder' /\ holder'[h] = r
    <3>1. r # Done
      BY <1>4, DoneFacts
    <3> QED BY <1>4, <3>1, OneMoves
  <2>5. \A k \in DOMAIN holder' : holder'[k].id = id /\ holder'[k].op = "make" => holder'[k].pc = "add"
    BY <1>4, <2>2, <2>4
  <2>6. Linked(id)' = {}
    BY <1>1, <2>2 DEF Linked
  <2>7. \A k \in DOMAIN holder' : ~(holder'[k].id = id /\ holder'[k].pc \in Making)
    BY <1>4, <2>2, <2>4, Makers DEF Making
  <2>8. BeforeRecord \subseteq Making
    BY DEF BeforeRecord, Making
  <2> QED BY <2>3, <2>5, <2>6, <2>7, <2>8 DEF IdShape
<1>13. \A j \in SnapId \ torn' : (IdStill(j, old, r) /\ SameId(j)) \/ IdShape(j)'
  BY <1>11, <1>12
<1>14. torn \subseteq torn'
  BY <1>1
<1> HIDE DEF old
<1> QED BY <1>6, <1>7, <1>8, <1>9, <1>10, <1>13, <1>14, InvMoves

\* The start after a kill
LEMMA Loads ==
  ASSUME SnapInv, TenantSnapshotCacheLoad
  PROVE  SnapInv'
<1> DEFINE loaded == {record[id] : id \in SnapId} \ {NoSeq}
           top == CHOOSE n \in loaded \cup {0} : \A q \in loaded : q <= n
           of(q) == CHOOSE id \in SnapId : record[id] = q
           fresh(q) == [NoItem EXCEPT !.id = of(q), !.linked = TRUE, !.refs = 1, !.tenant = TRUE]
<1>1. /\ item' = [q \in SnapSeq |-> IF q \notin loaded THEN NoItem ELSE fresh(q)]
      /\ store' = store \cup loaded /\ left' = store \ loaded /\ nextSnapSeq' = 1 + top
      /\ holder' = [h \in DOMAIN holder |-> Done] /\ record' = record /\ torn' = torn
  BY DEF TenantSnapshotCacheLoad
<1>2. record \in [SnapId -> Seqs] /\ holder \in Seq(Requests) /\ store \subseteq SnapSeq
  BY DEF SnapInv, SnapTypes
<1>3. loaded \subseteq SnapSeq /\ \A id \in SnapId : record[id] \in loaded \/ record[id] = NoSeq
  BY <1>2, SnapshotAssumption DEF Seqs, SnapSeq, NoSeq
<1>4. \A q \in loaded : of(q) \in SnapId /\ record[of(q)] = q
  <2> SUFFICES ASSUME NEW q \in loaded PROVE of(q) \in SnapId /\ record[of(q)] = q
    OBVIOUS
  <2>1. \E id \in SnapId : record[id] = q
    OBVIOUS
  <2> QED BY <2>1
<1>5. top \in 0..MaxSnapSeq /\ \A q \in loaded : q <= top
  <2>1. \E n \in loaded \cup {0} : \A q \in loaded \cup {0} : q <= n
    <3>1. loaded \cup {0} \in SUBSET (0..MaxSnapSeq) /\ loaded \cup {0} # {}
      BY <1>3, SnapshotAssumption DEF SnapSeq
    <3> HIDE DEF loaded
    <3> QED BY <3>1, SnapshotAssumption, Largest
  <2>2. top \in loaded \cup {0} /\ \A q \in loaded : q <= top
    <3> HIDE DEF loaded
    <3> QED BY <2>1
  <2> HIDE DEF top, loaded
  <2> QED BY <1>3, <2>2, SnapshotAssumption DEF SnapSeq
<1>6. \A q : fresh(q).id = of(q) /\ fresh(q).linked = TRUE /\ fresh(q).refs = 1 /\ fresh(q).tenant = TRUE /\ fresh(q).capture = FALSE
  BY DEF NoItem
<1>7. \A q \in loaded : fresh(q) \in Items /\ fresh(q) # NoItem
  <2> SUFFICES ASSUME NEW q \in loaded PROVE fresh(q) \in Items /\ fresh(q) # NoItem
    OBVIOUS
  <2>1. of(q) \in SnapId
    BY <1>4
  <2> HIDE DEF of
  <2> QED BY <1>6, <2>1, NoItemFacts DEF NoItem, Items
<1> HIDE DEF loaded, top, of, fresh
<1>8. /\ \A q \in SnapSeq : q \in loaded => item'[q] = fresh(q)
      /\ \A q \in SnapSeq : q \notin loaded => item'[q] = NoItem
      /\ item' \in [SnapSeq -> Items]
  BY <1>1, <1>7, NoItemFacts
<1>9. /\ holder' \in Seq(Requests) /\ \A h \in DOMAIN holder' : holder'[h] = Done
  <2>1. DOMAIN holder = 1..Len(holder) /\ Len(holder) \in Nat
    BY <1>2, LenProperties
  <2> QED BY <1>1, <2>1, DoneFacts
<1>10. nextSnapSeq' \in 1..(MaxSnapSeq + 1) /\ NoSeq < nextSnapSeq' /\ \A q \in loaded : q < nextSnapSeq'
  BY <1>1, <1>3, <1>5, SnapshotAssumption DEF NoSeq, SnapSeq
<1>11. SnapTypes'
  BY <1>1, <1>2, <1>3, <1>8, <1>9, <1>10 DEF SnapTypes
<1>12. (\A h \in DOMAIN holder : RequestShape(holder[h]))'
  <2>1. RequestShape(Done)'
    BY <1>10, DoneFacts DEF RequestShape, Making, BeforeRecord
  <2> QED BY <1>9, <2>1 DEF RequestShape
<1>13. ASSUME NEW q \in SnapSeq PROVE ItemShape(q)'
  <2>1. CASE q \in loaded
    BY <1>1, <1>4, <1>6, <1>7, <1>8, <1>10, <2>1 DEF ItemShape
  <2>2. CASE q \notin loaded
    BY <1>1, <1>8, <2>2, NoItemFacts DEF ItemShape
  <2> QED BY <2>1, <2>2
<1>14. \A q \in SnapSeq : item'[q].linked => q \in loaded /\ record[item'[q].id] = q /\ item'[q].id \in SnapId /\ item'[q].tenant
  BY <1>4, <1>6, <1>8, NoItemFacts
<1>15. \A i, j \in SnapId : record[i] = record[j] /\ record[i] # NoSeq => i = j
  BY DEF SnapInv, SnapShape, Alone
<1>16. Alone'
  <2>1. \A p, q \in SnapSeq : item'[p].linked /\ item'[q].linked /\ item'[p].id = item'[q].id => p = q
    BY <1>14
  <2>2. \A id \in SnapId : record'[id] < nextSnapSeq'
    BY <1>1, <1>3, <1>10
  <2>3. \A h \in DOMAIN holder' : ~(holder'[h].pc \in Making)
    BY <1>9, DoneFacts DEF Making
  <2> QED BY <1>1, <1>15, <2>1, <2>2, <2>3 DEF Alone
<1>17. ASSUME NEW q \in SnapSeq PROVE RefsOf(q)'
  <2>1. q # NoSeq
    BY DEF SnapSeq, NoSeq
  <2>2. HoldersOf(q)' = {} /\ ClonesOf(q)' = {}
    BY <1>9, <2>1, DoneFacts DEF HoldersOf, ClonesOf
  <2>3. Cardinality(HoldersOf(q)') = 0 /\ Cardinality(ClonesOf(q)') = 0
    BY <2>2, FS_EmptySet
  <2>4. item'[q].refs = OneIf(item'[q].linked) + OneIf(item'[q].capture)
    BY <1>6, <1>8, NoItemFacts DEF OneIf
  <2>5. OneIf(item'[q].linked) \in Nat /\ OneIf(item'[q].capture) \in Nat
    BY DEF OneIf
  <2> QED BY <2>3, <2>4, <2>5 DEF RefsOf
<1>18. ASSUME NEW id \in SnapId PROVE IdShape(id)'
  <2>1. \A h \in DOMAIN holder' : ~(holder'[h].pc \in Making) /\ ~(holder'[h].pc \in BeforeRecord) /\ holder'[h].op # "delete"
    BY <1>9, DoneFacts DEF Making, BeforeRecord
  <2>2. record'[id] # NoSeq => item'[record'[id]].tenant /\ item'[record'[id]].id = id /\ item'[record'[id]].linked
    <3> SUFFICES ASSUME record[id] # NoSeq PROVE item'[record[id]].tenant /\ item'[record[id]].id = id /\ item'[record[id]].linked
      BY <1>1
    <3>1. record[id] \in loaded /\ record[id] \in SnapSeq
      BY <1>3
    <3>2. of(record[id]) = id
      BY <1>4, <1>15, <3>1
    <3> QED BY <1>6, <1>8, <3>1, <3>2
  <2>3. \A q \in Linked(id)' : record'[id] = q
    BY <1>1, <1>14 DEF Linked
  <2> QED BY <2>1, <2>2, <2>3 DEF IdShape
<1> QED BY <1>11, <1>12, <1>13, <1>16, <1>17, <1>18 DEF SnapInv, SnapShape, RefInv, IdInv

\* It holds at the start
LEMMA SnapInvInit == SnapInit => SnapInv
<1> SUFFICES ASSUME SnapInit PROVE SnapInv
  OBVIOUS
<1>1. /\ item = [q \in SnapSeq |-> NoItem] /\ store = {} /\ record = [id \in SnapId |-> NoSeq]
      /\ nextSnapSeq = 1 /\ holder = <<>> /\ left = {} /\ torn = {}
  BY DEF SnapInit
<1>2. holder \in Seq(Requests) /\ DOMAIN holder = {}
  BY <1>1
<1>3. SnapTypes
  BY <1>1, <1>2, NoItemFacts, SnapshotAssumption DEF SnapTypes, Seqs, NoSeq
<1>4. \A q \in SnapSeq : item[q] = NoItem
  BY <1>1
<1>5. SnapShape
  BY <1>1, <1>2, <1>4, NoItemFacts DEF SnapShape, ItemShape, Alone, NoSeq
<1>6. ASSUME NEW q \in SnapSeq PROVE RefsOf(q)
  <2>1. HoldersOf(q) = {} /\ ClonesOf(q) = {}
    BY <1>2 DEF HoldersOf, ClonesOf
  <2>2. Cardinality(HoldersOf(q)) = 0 /\ Cardinality(ClonesOf(q)) = 0
    BY <2>1, FS_EmptySet
  <2> QED BY <1>4, <2>2, NoItemFacts DEF RefsOf, OneIf
<1>7. IdInv
  BY <1>1, <1>2, <1>4, NoItemFacts DEF IdInv, IdShape, Linked, NoSeq
<1> QED BY <1>3, <1>5, <1>6, <1>7 DEF SnapInv, RefInv

\* ... and where nothing happens
LEMMA SnapInvStill == ASSUME SnapInv, UNCHANGED snapVars PROVE SnapInv'
BY DEF snapVars, SnapInv, SnapTypes, SnapShape, RequestShape, ItemShape, Alone, RefInv, RefsOf, HoldersOf, ClonesOf, IdInv, IdShape, Linked, Is

\* The stores are set up, or that fails
LEMMA TenantStep ==
  ASSUME SnapInv, NEW h \in DOMAIN holder, SnapshotTenantCreate(h)
  PROVE  SnapInv'
<1>1. Is(h, "make", "tenant") /\ UNCHANGED <<record, nextSnapSeq, historyVars>>
  BY DEF SnapshotTenantCreate
<1>2. CASE /\ item' = [item EXCEPT ![holder[h].seq].tenant = TRUE] /\ store' = store \cup {holder[h].seq}
           /\ Step(h, IF holder[h].from # NoSeq /\ item[holder[h].from].tenant THEN "copy" ELSE "persist")
  BY <1>1, <1>2, TenantMade
<1>3. CASE ItemDelete(holder[h].id) /\ Step(h, "unpin")
  BY <1>1, <1>3, Unlinks DEF historyVars
<1> QED BY <1>2, <1>3 DEF SnapshotTenantCreate

\* A DELETE unlinks
LEMMA UnlinkStep ==
  ASSUME SnapInv, NEW h \in DOMAIN holder, DeleteSnapshotUnlink(h)
  PROVE  SnapInv'
BY Unlinks DEF DeleteSnapshotUnlink, historyVars

\* The invariant over every step
LEMMA SnapInvStep == SnapInv /\ [SnapNext]_snapVars => SnapInv'
<1> SUFFICES ASSUME SnapInv, [SnapNext]_snapVars PROVE SnapInv'
  OBVIOUS
<1>1. ASSUME NEW id \in SnapId, PostSnapshot(id) PROVE SnapInv'
  BY <1>1, PostMade
<1>2. ASSUME NEW q \in SnapSeq, HoldSnapshot(q) \/ DeleteSnapshot(q) \/ \E id \in SnapId : CloneSnapshot(q, id) PROVE SnapInv'
  BY <1>2, Arrivals
<1>3. ASSUME NEW q \in SnapSeq, SnapshotWorkerEnd(q) PROVE SnapInv'
  BY <1>3, WorkerEnds
<1>4. ASSUME NEW h \in DOMAIN holder,
             \/ CloneItemAdd(h) \/ SnapshotTenantCreate(h) \/ CloneCopied(h) \/ SnapshotCreate(h)
             \/ SnapshotCaptureAsync(h) \/ ExecQueries(h) \/ DeleteSnapshotUnlink(h) \/ SnapshotDelete(h) \/ Unpin(h)
      PROVE SnapInv'
  BY <1>4, CloneTaken, TenantStep, StepAlone, RecordWritten, Captures, UnlinkStep, Erased, Unpins
<1>5. CASE TenantSnapshotCacheLoad
  BY <1>5, Loads
<1>6. CASE UNCHANGED snapVars
  BY <1>6, SnapInvStill
<1> QED BY <1>1, <1>2, <1>3, <1>4, <1>5, <1>6 DEF SnapNext

\* ... and always
LEMMA SnapInvariant == SnapSpec => []SnapInv
BY SnapInvInit, SnapInvStep, PTL DEF SnapSpec

\* Types; an item's count is the number of those that refer to it; one id, one item
THEOREM SnapTypesCorrect == SnapSpec => []SnapTypeOK
<1>1. ASSUME SnapInv PROVE SnapTypeOK
  <2>1. ASSUME NEW q \in SnapSeq PROVE item[q].refs = References(q) /\ (item[q].refs = 0 <=> item[q] = NoItem)
    BY <1>1 DEF SnapInv, RefInv, RefsOf, References, HoldersOf, ClonesOf, OneIf, SnapShape, ItemShape
  <2>2. ASSUME NEW id \in SnapId PROVE Cardinality(Linked(id)) <= 1
    <3>1. \A p, q \in Linked(id) : p = q
      BY <1>1 DEF SnapInv, SnapShape, Alone, Linked
    <3>2. CASE Linked(id) = {}
      BY <3>2, FS_EmptySet
    <3>3. ASSUME NEW q \in Linked(id) PROVE Cardinality(Linked(id)) <= 1
      <4>1. Linked(id) = {q}
        BY <3>1, <3>3
      <4> QED BY <4>1, FS_Singleton
    <3> QED BY <3>2, <3>3
  <2>3. store \subseteq SnapSeq /\ record \in [SnapId -> SnapSeq \cup {NoSeq}] /\ nextSnapSeq \in 1..(MaxSnapSeq + 1)
    BY <1>1, SnapshotAssumption DEF SnapInv, SnapTypes, Seqs, SnapSeq, NoSeq
  <2> QED BY <2>1, <2>2, <2>3 DEF SnapTypeOK
<1> QED BY <1>1, SnapInvariant, PTL

\* Whoever holds a snapshot - a read, a clone of it, the worker that captures it - finds its stores, and a
\* start finds what is recorded, and the stores of it
THEOREM StoresStayWhileUsed == SnapSpec => []StoresWhileUsed
<1>1. ASSUME SnapInv PROVE StoresWhileUsed
  <2>1. \A q \in SnapSeq : (item[q].tenant \/ item[q].capture => q \in store) /\ (q \in store => item[q].refs > 0 \/ q \in left)
    BY <1>1 DEF SnapInv, SnapShape, ItemShape
  <2>2. ASSUME NEW h \in DOMAIN holder, holder[h].pc = "copy" PROVE holder[h].from \in store
    <3>1. holder[h].from # NoSeq /\ item[holder[h].from].tenant
      BY <1>1, <2>2 DEF SnapInv, SnapShape, RequestShape
    <3>2. holder[h].from \in SnapSeq
      BY <1>1, <3>1, RequestFacts
    <3> QED BY <2>1, <3>1, <3>2
  <2>3. store \subseteq SnapSeq
    BY <1>1 DEF SnapInv, SnapTypes
  <2>4. ASSUME NEW id \in SnapId \ torn
        PROVE  /\ record[id] # NoSeq => record[id] \in store
               /\ \A q \in Linked(id) : record[id] = q \/ Under(id, {"make", "delete"})
    <3>1. IdShape(id)
      BY <1>1 DEF SnapInv, IdInv
    <3>2. record[id] # NoSeq => record[id] \in store
      <4>1. record[id] # NoSeq => record[id] \in SnapSeq
        BY <1>1, SnapshotAssumption DEF SnapInv, SnapTypes, Seqs, SnapSeq, NoSeq
      <4> QED BY <2>1, <3>1, <4>1 DEF IdShape
    <3>3. ASSUME NEW q \in Linked(id), record[id] # q PROVE Under(id, {"make", "delete"})
      <4>1. PICK h \in DOMAIN holder : holder[h].pc \in BeforeRecord /\ holder[h].id = id /\ holder[h].seq = q
        BY <3>1, <3>3 DEF IdShape
      <4>2. holder[h].pc \in Making
        BY <4>1 DEF BeforeRecord, Making
      <4> QED BY <1>1, <4>1, <4>2, Makers DEF Under
    <3> QED BY <3>2, <3>3
  <2> QED BY <2>1, <2>2, <2>3, <2>4 DEF StoresWhileUsed
<1> QED BY <1>1, SnapInvariant, PTL

============================================================================
