--------------------------- MODULE TimescalePool ---------------------------
(***************************************************************************)
(* A tenant's pool of Postgres connections: built by the first thread that *)
(* needs it, its slots handed out under a counting semaphore and picked    *)
(* under a binary one - and given back under neither.                      *)
(*                                                                         *)
(* The barrier a get waits for first is TroeWriter's. The drop of a        *)
(* tenant's pool is left out: nothing in the code says what a thread does  *)
(* that still uses the pool then.                                          *)
(***************************************************************************)
EXTENDS Naturals, FiniteSets

CONSTANTS
  PoolThread,         \* threads that read the history
  PoolItems,          \* troePoolSize
  MaxPoolFault        \* bound: connections lost or refused

NoSlot == 0
NoThread == "none"
Slot == 1..PoolItems

ASSUME PoolAssumption == PoolItems \in Nat \ {0} /\ MaxPoolFault \in Nat /\ NoThread \notin PoolThread

VARIABLES
  troePoolP,    \* the tenant's pool is published
  built,        \* pools built so far
  createMutex,  \* thread that holds poolCreateMutex, or NoThread
  queueSem,     \* free slots, by the counting semaphore
  poolSem,      \* thread that picks a slot, or NoThread
  slot,         \* [Slot -> [busy, conn]]
  getter,       \* [PoolThread -> [pc, scan, free, cP]]
  poolFault     \* faults so far

poolVars == <<troePoolP, built, createMutex, queueSem, poolSem, slot, getter, poolFault>>
createVars == <<troePoolP, built, createMutex>>
slotVars == <<queueSem, poolSem, slot, poolFault>>

Resting == [pc |-> "rest", scan |-> 1, free |-> NoSlot, cP |-> NoSlot]
Now(t, pc) == getter[t].pc = pc
To(t, pc) == getter' = [getter EXCEPT ![t].pc = pc]
Rest(t) == getter' = [getter EXCEPT ![t] = Resting]

-----------------------------------------------------------------------------
(* The pool is built *)

\* The fast path reads the pointer without the mutex
ConnGet(t) ==
  /\ Now(t, "rest") /\ To(t, IF troePoolP THEN "wait" ELSE "lock")
  /\ UNCHANGED <<createVars, slotVars>>

PoolCreateLock(t) ==
  /\ Now(t, "lock") /\ createMutex = NoThread
  /\ createMutex' = t /\ To(t, "ensure") /\ UNCHANGED <<troePoolP, built, slotVars>>

\* Faulty: built without a second look at the pointer
PoolEnsureBuildAgain(t) == built' = built + 1 /\ To(t, "publish")

\* Lost the race to create it - fine
PoolEnsureBuild(t) ==
  IF troePoolP THEN To(t, "unlock") /\ UNCHANGED built
               ELSE built' = built + 1 /\ To(t, "publish")

PoolEnsure(t) ==
  /\ Now(t, "ensure") /\ PoolEnsureBuild(t)
  /\ UNCHANGED <<troePoolP, createMutex, slotVars>>

\* No database, no connection, no migration or no writers: the get fails
PoolEnsureFails(t) ==
  /\ Now(t, "ensure") /\ ~troePoolP /\ poolFault < MaxPoolFault /\ poolFault' = poolFault + 1
  /\ createMutex' = NoThread /\ Rest(t)
  /\ UNCHANGED <<troePoolP, built, queueSem, poolSem, slot>>

\* Slot 1 has the connection that migrated the schema
PoolPublish(t) ==
  /\ Now(t, "publish") /\ troePoolP' = TRUE /\ To(t, "unlock")
  /\ queueSem' = PoolItems
  /\ slot' = [i \in Slot |-> [busy |-> FALSE, conn |-> IF i = 1 THEN "ok" ELSE "null"]]
  /\ UNCHANGED <<built, createMutex, poolSem, poolFault>>

PoolCreateUnlock(t) ==
  /\ Now(t, "unlock") /\ createMutex' = NoThread /\ To(t, "wait")
  /\ UNCHANGED <<troePoolP, built, slotVars>>

-----------------------------------------------------------------------------
(* A connection is taken *)

QueueWait(t) ==
  /\ Now(t, "wait") /\ queueSem > 0 /\ queueSem' = queueSem - 1 /\ To(t, "pool")
  /\ UNCHANGED <<createVars, poolSem, slot, poolFault>>

\* 10 s and no slot
PoolExhausted(t) == Now(t, "wait") /\ queueSem = 0 /\ Rest(t) /\ UNCHANGED <<createVars, slotVars>>

\* Faulty: two threads look for a slot at once
PoolSemTaken(t) == UNCHANGED poolSem

PoolSemTake(t) == poolSem = NoThread /\ poolSem' = t

PoolSemWait(t) ==
  /\ Now(t, "pool") /\ PoolSemTake(t) /\ To(t, "scan") /\ UNCHANGED <<createVars, queueSem, slot, poolFault>>

\* One slot looked at: a connected one is taken, another that is free remembered
ScanSlot(t) ==
  /\ Now(t, "scan") /\ UNCHANGED <<createVars, slotVars>>
  /\ LET g == getter[t]
         i == g.scan
         last == i = PoolItems
     IN  getter' = [getter EXCEPT ![t] =
           IF ~slot[i].busy /\ slot[i].conn = "ok" THEN [g EXCEPT !.cP = i, !.pc = "pick"]
           ELSE LET free == IF slot[i].busy \/ g.free # NoSlot THEN g.free ELSE i
                IN  [g EXCEPT !.scan = IF last THEN i ELSE i + 1, !.free = free,
                              !.cP = IF last THEN free ELSE NoSlot, !.pc = IF last THEN "pick" ELSE "scan"]]

PickSlot(t) ==
  /\ Now(t, "pick") /\ getter[t].cP # NoSlot
  /\ slot' = [slot EXCEPT ![getter[t].cP].busy = TRUE]
  /\ getter' = [getter EXCEPT ![t] = [Resting EXCEPT !.pc = "connect", !.cP = getter[t].cP]]
  /\ poolSem' = NoThread
  /\ UNCHANGED <<createVars, queueSem, poolFault>>

\* Connected or healed outside the lock - or not: the slot goes back
ConnHeal(t) ==
  /\ Now(t, "connect") /\ slot' = [slot EXCEPT ![getter[t].cP].conn = "ok"] /\ To(t, "use")
  /\ UNCHANGED <<createVars, queueSem, poolSem, poolFault>>

ConnHealFails(t) ==
  /\ Now(t, "connect") /\ slot[getter[t].cP].conn # "ok" /\ poolFault < MaxPoolFault /\ poolFault' = poolFault + 1
  /\ slot' = [slot EXCEPT ![getter[t].cP].conn = "null"] /\ To(t, "free")
  /\ UNCHANGED <<createVars, queueSem, poolSem>>

\* The connection is lost while it is used
ConnLost(t) ==
  /\ Now(t, "use") /\ poolFault < MaxPoolFault /\ poolFault' = poolFault + 1
  /\ slot' = [slot EXCEPT ![getter[t].cP].conn = "bad"]
  /\ UNCHANGED <<createVars, queueSem, poolSem, getter>>

ConnRelease(t) == Now(t, "use") /\ To(t, "free") /\ UNCHANGED <<createVars, slotVars>>

\* Faulty: the semaphore is posted ahead of the slot
SlotFreePosted(t) ==
  \/ Now(t, "free") /\ queueSem' = queueSem + 1 /\ To(t, "post") /\ UNCHANGED slot
  \/ Now(t, "post") /\ slot' = [slot EXCEPT ![getter[t].cP].busy = FALSE] /\ Rest(t) /\ UNCHANGED queueSem

\* Not busy, then posted: nothing is held meanwhile
SlotFree(t) ==
  \/ Now(t, "free") /\ slot' = [slot EXCEPT ![getter[t].cP].busy = FALSE] /\ To(t, "post") /\ UNCHANGED queueSem
  \/ Now(t, "post") /\ queueSem' = queueSem + 1 /\ Rest(t) /\ UNCHANGED slot

SlotGiveBack(t) == SlotFree(t) /\ UNCHANGED <<createVars, poolSem, poolFault>>

-----------------------------------------------------------------------------
PoolInit ==
  /\ troePoolP = FALSE /\ built = 0 /\ createMutex = NoThread /\ queueSem = 0 /\ poolSem = NoThread
  /\ slot = [i \in Slot |-> [busy |-> FALSE, conn |-> "null"]]
  /\ getter = [t \in PoolThread |-> Resting] /\ poolFault = 0

PoolNext ==
  \E t \in PoolThread :
    \/ ConnGet(t) \/ PoolCreateLock(t) \/ PoolEnsure(t) \/ PoolEnsureFails(t) \/ PoolPublish(t) \/ PoolCreateUnlock(t)
    \/ QueueWait(t) \/ PoolExhausted(t) \/ PoolSemWait(t) \/ ScanSlot(t) \/ PickSlot(t)
    \/ ConnHeal(t) \/ ConnHealFails(t) \/ ConnLost(t) \/ ConnRelease(t) \/ SlotGiveBack(t)

PoolSpec == PoolInit /\ [][PoolNext]_poolVars

-----------------------------------------------------------------------------
(* Properties *)

Pcs == {"rest", "lock", "ensure", "publish", "unlock", "wait", "pool", "scan", "pick", "connect", "use", "free", "post"}

PoolTypeOK ==
  /\ troePoolP \in BOOLEAN /\ built \in Nat /\ createMutex \in PoolThread \cup {NoThread}
  /\ queueSem \in 0..PoolItems /\ poolSem \in PoolThread \cup {NoThread} /\ poolFault \in 0..MaxPoolFault
  /\ slot \in [Slot -> [busy : BOOLEAN, conn : {"null", "ok", "bad"}]]
  /\ getter \in [PoolThread -> [pc : Pcs, scan : Slot, free : Slot \cup {NoSlot}, cP : Slot \cup {NoSlot}]]

Holds(t) == getter[t].pc \in {"connect", "use", "free"}

\* Whoever got past the counting semaphore finds a free slot, though slots are given back under no lock,
\* and has it to itself
SlotOfItsOwn ==
  /\ \A t \in PoolThread : getter[t].pc = "pick" => getter[t].cP # NoSlot
  /\ \A t, u \in PoolThread : t # u /\ Holds(t) /\ Holds(u) => getter[t].cP # getter[u].cP

\* First gets that race build one pool (a second would start writers of its own and leave the first
\* one's units where nobody looks), and nobody gets to a slot before it is published
OnePool ==
  /\ built <= 1
  /\ \A t \in PoolThread : getter[t].pc \notin {"rest", "lock", "ensure", "publish"} => troePoolP

=============================================================================
