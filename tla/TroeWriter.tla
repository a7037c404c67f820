----------------------------- MODULE TroeWriter -----------------------------
(***************************************************************************)
(* The TRoE writers of one tenant: the queue of history units, the threads *)
(* that send them to PostgreSQL many requests to a transaction, the        *)
(* submitters that fill the queue, the readers that wait for it, an outage *)
(* of the database, and the stop.                                          *)
(* (src/src/plugins/temporal/timescale/timescaleWriter.c)                  *)
(*                                                                         *)
(* A critical section of TsWriter.mutex is one step; whatever runs outside *)
(* it (a statement, its answer, the wait for a condition) is a step of its *)
(* own.  A condition variable is the set of threads asleep on it: a signal *)
(* wakes one of them, a broadcast all, and a woken thread still has to get *)
(* the mutex and look again.                                               *)
(***************************************************************************)
EXTENDS Integers, Sequences, FiniteSets, Functions

CONSTANTS
  Unit,        \* units of history, each handed over once by a thread of its own
  Import,      \* those submitted with TsWaitResult (coraine-import)
  Bad,         \* those whose rows the database refuses
  BytesOf(_),  \* the bytes of a set of units (tsUnitBytes, added up)
  Writer,      \* the writer threads (--troeWriters)
  Reader,      \* threads that take a connection of the pool: temporal reads, history writes
  QueueCap,    \* QUEUE_BYTES_MAX
  BatchUnits,  \* BATCH_UNITS_MAX
  BatchBytes,  \* BATCH_BYTES_MAX
  WakeDepth,   \* a queue this long wakes a further writer
  MaxOutages   \* bound: how often the database goes away

ASSUME ParamsAssumption ==
  /\ Import \subseteq Unit
  /\ Bad \subseteq Unit
  /\ \A S \in SUBSET Unit : BytesOf(S) \in Nat
  /\ \A S, T \in SUBSET Unit : S \cap T = {} => BytesOf(S \cup T) = BytesOf(S) + BytesOf(T)
  /\ QueueCap \in Nat /\ BatchUnits \in Nat \ {0} /\ BatchBytes \in Nat
  /\ Writer # {} /\ WakeDepth \in Nat /\ MaxOutages \in Nat

VARIABLES
  queue,        \* TsWriter.head .. tail
  queuedBytes,
  queuedN,
  heldBytes,    \* queued and in flight
  busyN,        \* writers sending a batch
  seq,          \* seq of the last unit queued
  seqOf,        \* TsUnit.seq, 0: never queued
  down,         \* the database was found unreachable, and has not been found back
  probing,      \* ... and a writer is trying it
  due,          \* nextProbeMs has come
  lostRows,     \* one row to a unit
  pool,         \* "running"; "stopping": TsWriter.stop is set; "freed"
  outcome,      \* unitDone: "none", "ok", "err", "lost"
  submitter,    \* where the thread that submits the unit is
  wpc,          \* where a writer is
  batch,        \* the units a writer is sending
  batchSeq,     \* TsWriterThread.batchSeq, 0: idle
  probe,        \* the batch was taken with the database down
  doneN,        \* how many of the batch have their rc (batchSend's result)
  conn,         \* a writer's connection: "none", "ok", "stale" (broken, and PQstatus does not know yet)
  rpc,          \* where a reader is
  target,       \* the seq a reader's barrier waits for
  calm,         \* auxiliary: no outage began since the reader's barrier did
  missed,       \* auxiliary: what was owed to a reader and not in the database when it read
  dbUp,         \* the database takes connections and writes
  copies,       \* how many times a unit's rows are in the database
  outages       \* how often the database has gone away

queueVars  == <<queue, queuedBytes, queuedN, heldBytes, seq, seqOf>>
stateVars  == <<busyN, down, probing, due, pool>>
unitVars   == <<outcome, submitter, lostRows>>
writerVars == <<wpc, batch, batchSeq, probe, doneN, conn>>
readerVars == <<rpc, target, calm, missed>>
dbVars     == <<dbUp, copies, outages>>
vars       == <<queueVars, stateVars, unitVars, writerVars, readerVars, dbVars>>

-----------------------------------------------------------------------------
(* The queue's arithmetic *)

Running == pool = "running"

OverCap(u) == queuedBytes > 0 /\ queuedBytes + BytesOf({u}) > QueueCap

\* Faulty variant: the batches in flight forgotten
RecordedQueueOnly(t) == IF queue = <<>> THEN seq >= t ELSE seqOf[Head(queue)] - 1 >= t

\* recordedSeq() >= t: neither the queue's head nor a batch in flight is at or below t
Recorded(t) ==
  /\ IF queue = <<>> THEN seq >= t ELSE seqOf[Head(queue)] - 1 >= t
  /\ \A w \in Writer : batchSeq[w] # 0 => batchSeq[w] - 1 >= t

\* The batch is the first n units: as many as the caps let in, and one in any case
IsBatch(n) ==
  LET First(k) == BytesOf(Range(SubSeq(queue, 1, k)))
  IN  /\ n \in 1..Len(queue) /\ n <= BatchUnits
      /\ n > 1 => First(n) <= BatchBytes
      /\ n < Len(queue) /\ n < BatchUnits => First(n + 1) > BatchBytes

-----------------------------------------------------------------------------
(* The conditions: workCond, roomCond, doneCond *)

Dormant(f) == {w \in Writer : f[w] \in {"asleep", "timed"}}

\* pthread_cond_signal(workCond), from the writers' places f
SignalWork(f) ==
  IF Dormant(f) = {} THEN {f} ELSE {[f EXCEPT ![w] = "ready"] : w \in Dormant(f)}

\* Faulty variants: broadcasts left out
NoBroadcastWork(f) == f
NoBroadcastRoom == submitter
NoBroadcastDone == rpc

BroadcastWork(f) == [w \in Writer |-> IF w \in Dormant(f) THEN "ready" ELSE f[w]]

BroadcastRoom == [u \in Unit |-> IF submitter[u] = "noRoom" THEN "room" ELSE submitter[u]]

BroadcastDone == [r \in Reader |-> IF rpc[r] = "asleep" THEN "awake" ELSE rpc[r]]

-----------------------------------------------------------------------------
Init ==
  /\ queue = <<>> /\ queuedBytes = 0 /\ queuedN = 0 /\ heldBytes = 0
  /\ busyN = 0 /\ seq = 0 /\ seqOf = [u \in Unit |-> 0]
  /\ down = FALSE /\ probing = FALSE /\ due = FALSE
  /\ lostRows = 0
  /\ pool = "running"
  /\ outcome = [u \in Unit |-> "none"]
  /\ submitter = [u \in Unit |-> "new"]
  /\ wpc = [w \in Writer |-> "ready"]
  /\ batch = [w \in Writer |-> <<>>]
  /\ batchSeq = [w \in Writer |-> 0]
  /\ probe = [w \in Writer |-> FALSE]
  /\ doneN = [w \in Writer |-> 0]
  /\ conn = [w \in Writer |-> "none"]
  /\ rpc = [r \in Reader |-> "new"]
  /\ target = [r \in Reader |-> 0]
  /\ calm = [r \in Reader |-> TRUE]
  /\ missed = [r \in Reader |-> {}]
  /\ dbUp = TRUE /\ copies = [u \in Unit |-> 0] /\ outages = 0

-----------------------------------------------------------------------------
(* timescaleWriterSubmit *)

\* coraine-import is a process of its own, and one thread: it submits a unit once it has the outcome of the
\* one before
MaySubmit(u) ==
  /\ submitter[u] = "new"
  /\ \A v \in Unit : submitter[v] # "new" => (v \in Import <=> u \in Import)
  /\ u \in Import => \A v \in Import : submitter[v] \in {"new", "answered"}

\* Stopping: the unit is still the caller's
SubmitRefused(u) ==
  /\ MaySubmit(u) /\ ~Running
  /\ submitter' = [submitter EXCEPT ![u] = "own"]
  /\ UNCHANGED <<queueVars, stateVars, outcome, lostRows, writerVars, readerVars, dbVars>>

\* ... which writes it in a transaction of its own (eventListRecord)
OwnWrite(u) ==
  /\ submitter[u] = "own"
  /\ submitter' = [submitter EXCEPT ![u] = "answered"]
  /\ IF dbUp
     THEN /\ copies' = [copies EXCEPT ![u] = IF u \in Bad THEN @ ELSE @ + 1]
          /\ outcome' = [outcome EXCEPT ![u] = IF u \in Bad THEN "err" ELSE "ok"]
          /\ UNCHANGED lostRows
     ELSE /\ outcome' = [outcome EXCEPT ![u] = IF u \in Import THEN "err" ELSE "lost"]
          /\ lostRows' = IF u \in Import THEN lostRows ELSE lostRows + 1
          /\ UNCHANGED copies
  /\ UNCHANGED <<queueVars, stateVars, writerVars, readerVars, dbUp, outages>>

\* The database down: an import is told at once
ImportTold(u) ==
  /\ MaySubmit(u) /\ Running /\ down /\ u \in Import
  /\ submitter' = [submitter EXCEPT ![u] = "answered"]
  /\ outcome' = [outcome EXCEPT ![u] = "err"]
  /\ UNCHANGED <<queueVars, stateVars, lostRows, writerVars, readerVars, dbVars>>

\* Past the first checks: newly come, or woken on roomCond
Submitting(u) ==
  \/ MaySubmit(u) /\ Running /\ ~(down /\ u \in Import)
  \/ submitter[u] = "room"

\* The writers are behind: wait for room
AwaitRoom(u) ==
  /\ Submitting(u) /\ OverCap(u) /\ Running /\ ~down
  /\ submitter' = [submitter EXCEPT ![u] = "noRoom"]
  /\ UNCHANGED <<queueVars, stateVars, outcome, lostRows, writerVars, readerVars, dbVars>>

\* The database down and what is held at its cap: the unit is lost
LoseAtCap(u) ==
  /\ Submitting(u) /\ OverCap(u) /\ down
  /\ submitter' = [submitter EXCEPT ![u] = "answered"]
  /\ outcome' = [outcome EXCEPT ![u] = "lost"]
  /\ lostRows' = lostRows + 1
  /\ UNCHANGED <<queueVars, stateVars, writerVars, readerVars, dbVars>>

Enqueue(u) ==
  /\ Submitting(u)
  /\ OverCap(u) => ~Running /\ ~down
  /\ seq' = seq + 1
  /\ seqOf' = [seqOf EXCEPT ![u] = seq + 1]
  /\ queue' = Append(queue, u)
  /\ queuedBytes' = queuedBytes + BytesOf({u})
  /\ queuedN' = queuedN + 1
  /\ heldBytes' = heldBytes + BytesOf({u})
  /\ IF busyN = 0 \/ queuedN + 1 >= WakeDepth THEN wpc' \in SignalWork(wpc) ELSE UNCHANGED wpc
  /\ submitter' = [submitter EXCEPT ![u] = IF u \in Import THEN "waiting" ELSE "answered"]
  /\ UNCHANGED <<stateVars, outcome, lostRows, batch, batchSeq, probe, doneN, conn, readerVars, dbVars>>

\* An import's thread finds its unit done, on the unit's own doneCond
ImportAnswered(u) ==
  /\ submitter[u] = "waiting" /\ outcome[u] # "none"
  /\ submitter' = [submitter EXCEPT ![u] = "answered"]
  /\ UNCHANGED <<queueVars, stateVars, outcome, lostRows, writerVars, readerVars, dbVars>>

-----------------------------------------------------------------------------
(* writerMain: workWait, and the batch taken off the queue *)

\* Faulty variant: a second writer probes
MayTakeToo == queue # <<>> /\ (~Running \/ ~down \/ due)

MayTake == queue # <<>> /\ (~Running \/ ~down \/ (~probing /\ due))

\* Faulty variant: the wait does not look at nextProbeMs
WorkWaitUntimed(w) ==
  /\ wpc[w] = "ready" /\ Running /\ ~MayTake
  /\ wpc' = [wpc EXCEPT ![w] = "asleep"]
  /\ UNCHANGED <<queueVars, stateVars, unitVars, batch, batchSeq, probe, doneN, conn, readerVars, dbVars>>

WorkWait(w) ==
  /\ wpc[w] = "ready" /\ Running /\ ~MayTake
  /\ wpc' = [wpc EXCEPT ![w] = IF queue # <<>> /\ ~probing THEN "timed" ELSE "asleep"]
  /\ UNCHANGED <<queueVars, stateVars, unitVars, batch, batchSeq, probe, doneN, conn, readerVars, dbVars>>

\* condWaitMs: the wait for nextProbeMs is over
TimedWake(w) ==
  /\ wpc[w] = "timed" /\ due
  /\ wpc' = [wpc EXCEPT ![w] = "ready"]
  /\ UNCHANGED <<queueVars, stateVars, unitVars, batch, batchSeq, probe, doneN, conn, readerVars, dbVars>>

TakeBatch(w) ==
  /\ wpc[w] = "ready" /\ MayTake
  /\ \E n \in 1..Len(queue) :
       LET taken == SubSeq(queue, 1, n)
           left  == SubSeq(queue, n + 1, Len(queue))
           went  == [wpc EXCEPT ![w] = "sending"]
       IN  /\ IsBatch(n)
           /\ batch' = [batch EXCEPT ![w] = taken]
           /\ queue' = left
           /\ queuedBytes' = queuedBytes - BytesOf(Range(taken))
           /\ queuedN' = queuedN - n
           /\ IF left # <<>> /\ ~down THEN wpc' \in SignalWork(went) ELSE wpc' = went
  /\ batchSeq' = [batchSeq EXCEPT ![w] = seqOf[Head(queue)]]
  /\ probe' = [probe EXCEPT ![w] = down]
  /\ probing' = (probing \/ down)
  /\ busyN' = busyN + 1
  /\ submitter' = BroadcastRoom
  /\ UNCHANGED <<heldBytes, seq, seqOf, down, due, pool, outcome, lostRows, doneN, conn, readerVars, dbVars>>

\* Faulty variant: stopping, whatever is left
WriterExitAtOnce(w) ==
  /\ wpc[w] = "ready" /\ ~Running
  /\ wpc' = [wpc EXCEPT ![w] = "exited"]
  /\ UNCHANGED <<queueVars, stateVars, unitVars, batch, batchSeq, probe, doneN, conn, readerVars, dbVars>>

\* Stopping, and nothing left to send
WriterExit(w) ==
  /\ wpc[w] = "ready" /\ ~Running /\ queue = <<>>
  /\ wpc' = [wpc EXCEPT ![w] = "exited"]
  /\ UNCHANGED <<queueVars, stateVars, unitVars, batch, batchSeq, probe, doneN, conn, readerVars, dbVars>>

-----------------------------------------------------------------------------
(* batchSend, without the mutex: the statement, then its answer *)

\* The database is the reason: what has no rc yet goes back
Unreachable(w) ==
  /\ wpc' = [wpc EXCEPT ![w] = "finish"]
  /\ conn' = [conn EXCEPT ![w] = "none"]
  /\ UNCHANGED <<copies, doneN>>

Commit(S) == copies' = [u \in Unit |-> IF u \in S THEN copies[u] + 1 ELSE copies[u]]

\* One transaction for the whole batch, on the writer's connection, healed if it can be
SendBatch(w) ==
  /\ wpc[w] = "sending"
  /\ IF conn[w] = "stale" \/ (conn[w] = "none" /\ ~dbUp)
     THEN Unreachable(w)
     ELSE /\ conn' = [conn EXCEPT ![w] = "ok"]
          /\ IF Range(batch[w]) \cap Bad = {}
             THEN /\ Commit(Range(batch[w]))
                  /\ wpc' = [wpc EXCEPT ![w] = "answer"]
                  /\ UNCHANGED doneN
             ELSE /\ wpc' = [wpc EXCEPT ![w] = IF Len(batch[w]) = 1 THEN "finish" ELSE "single"]
                  /\ doneN' = [doneN EXCEPT ![w] = IF Len(batch[w]) = 1 THEN 1 ELSE 0]
                  /\ UNCHANGED copies
  /\ UNCHANGED <<queueVars, stateVars, unitVars, batch, batchSeq, probe, readerVars, dbUp, outages>>

\* The transaction committed; the answer comes, unless the connection broke meanwhile
BatchAnswer(w) ==
  /\ wpc[w] = "answer"
  /\ IF conn[w] = "stale"
     THEN Unreachable(w)
     ELSE /\ doneN' = [doneN EXCEPT ![w] = Len(batch[w])]
          /\ wpc' = [wpc EXCEPT ![w] = "finish"]
          /\ UNCHANGED <<conn, copies>>
  /\ UNCHANGED <<queueVars, stateVars, unitVars, batch, batchSeq, probe, readerVars, dbUp, outages>>

\* Faulty variant: counted down
SingleUndone(w) ==
  /\ doneN' = [doneN EXCEPT ![w] = @ - 1]
  /\ wpc' = [wpc EXCEPT ![w] = IF doneN[w] + 1 = Len(batch[w]) THEN "finish" ELSE "single"]

\* The unit the one-by-one retry has come to has its rc: the next one, if there is one
SingleDone(w) ==
  /\ doneN' = [doneN EXCEPT ![w] = @ + 1]
  /\ wpc' = [wpc EXCEPT ![w] = IF doneN[w] + 1 = Len(batch[w]) THEN "finish" ELSE "single"]

\* The batch was refused: a transaction for each of its units
SendOne(w) ==
  /\ wpc[w] = "single"
  /\ LET u == batch[w][doneN[w] + 1]
     IN  IF conn[w] = "stale" THEN Unreachable(w)
         ELSE IF u \in Bad THEN SingleDone(w) /\ UNCHANGED <<conn, copies>>
         ELSE /\ Commit({u})
              /\ wpc' = [wpc EXCEPT ![w] = "answerOne"]
              /\ UNCHANGED <<doneN, conn>>
  /\ UNCHANGED <<queueVars, stateVars, unitVars, batch, batchSeq, probe, readerVars, dbUp, outages>>

OneAnswer(w) ==
  /\ wpc[w] = "answerOne"
  /\ IF conn[w] = "stale" THEN Unreachable(w) ELSE SingleDone(w) /\ UNCHANGED <<conn, copies>>
  /\ UNCHANGED <<queueVars, stateVars, unitVars, batch, batchSeq, probe, readerVars, dbUp, outages>>

-----------------------------------------------------------------------------
(* writerMain, the mutex taken again: unitDone, writerUp, writerDown *)

\* Faulty variants: one rc too few; the whole batch put back
SentLess(w)  == Range(SubSeq(batch[w], 1, doneN[w] - 1))
UnsentAll(w) == batch[w]

Sent(w)   == Range(SubSeq(batch[w], 1, doneN[w]))
Unsent(w) == SubSeq(batch[w], doneN[w] + 1, Len(batch[w]))

\* Faulty variant: off by one
FoundUpByTwo(w) == probe[w] /\ doneN[w] > 1 /\ down

\* Back only on the probe's word
FoundUp(w) == probe[w] /\ doneN[w] > 0 /\ down

\* What every end of a batch does
BatchOver(w) ==
  /\ wpc[w] = "finish"
  /\ busyN' = busyN - 1
  /\ batch' = [batch EXCEPT ![w] = <<>>]
  /\ batchSeq' = [batchSeq EXCEPT ![w] = 0]
  /\ probe' = [probe EXCEPT ![w] = FALSE]
  /\ doneN' = [doneN EXCEPT ![w] = 0]
  /\ probing' = (probing /\ ~probe[w])
  /\ LET went == [wpc EXCEPT ![w] = "ready"]
     IN  wpc' = IF FoundUp(w) THEN BroadcastWork(went) ELSE went
  /\ rpc' = BroadcastDone
  /\ UNCHANGED <<seq, seqOf, pool, conn, target, missed, dbVars>>

\* Faulty variants: a refused unit said to be in; one given up not told
SettleAllOk(sent, told, gone) ==
  outcome' = [u \in Unit |->
    CASE u \in sent -> "ok" [] u \in told -> "err" [] u \in gone -> "lost" [] OTHER -> outcome[u]]

SettleUntold(sent, told, gone) ==
  outcome' = [u \in Unit |->
    CASE u \in sent -> (IF u \in Bad THEN "err" ELSE "ok") [] u \in gone -> "lost" [] OTHER -> outcome[u]]

\* The outcome of the units with an rc, and of those given up
Settle(sent, told, gone) ==
  outcome' = [u \in Unit |->
    CASE u \in sent -> (IF u \in Bad THEN "err" ELSE "ok")
      [] u \in told -> "err"
      [] u \in gone -> "lost"
      [] OTHER      -> outcome[u]]

FinishAll(w) ==
  /\ BatchOver(w)
  /\ Unsent(w) = <<>>
  /\ down' = (down /\ ~FoundUp(w))
  /\ heldBytes' = heldBytes - BytesOf(Sent(w))
  /\ Settle(Sent(w), {}, {})
  /\ UNCHANGED <<queue, queuedBytes, queuedN, due, submitter, lostRows, calm>>

\* waitersRelease: s without the units of S, in their order
Without(s, S) ==
  LET kept == {n \in 1..Len(s) : s[n] \notin S}
  IN  [k \in 1..Cardinality(kept) |-> s[CHOOSE n \in kept : Cardinality({m \in kept : m < n}) = k - 1]]

\* The database down: the rest back to the head of the queue; if it was not known to be down,
\* waitersRelease and the broadcasts to those who wait for what will not come
FinishBack(w) ==
  LET edge == ~down \/ FoundUp(w)
      back == Unsent(w) \o queue
      told == IF edge THEN Range(back) \cap Import ELSE {}
  IN  /\ BatchOver(w)
      /\ Unsent(w) # <<>> /\ Running
      /\ queue' = IF told = {} THEN back ELSE Without(back, told)
      /\ queuedBytes' = queuedBytes + BytesOf(Range(Unsent(w))) - BytesOf(told)
      /\ queuedN' = queuedN + Len(Unsent(w)) - Cardinality(told)
      /\ heldBytes' = heldBytes - BytesOf(Sent(w)) - BytesOf(told)
      /\ Settle(Sent(w), told, {})
      /\ down' = TRUE
      /\ due' = FALSE
      /\ submitter' = IF edge THEN BroadcastRoom ELSE submitter
      /\ calm' = [r \in Reader |-> calm[r] /\ ~edge]
      /\ UNCHANGED lostRows

\* Stopping and the database down: this batch's rest and all that is queued is lost, one try for all
FinishStopping(w) ==
  LET gone == Range(Unsent(w)) \cup Range(queue)
  IN  /\ BatchOver(w)
      /\ Unsent(w) # <<>> /\ ~Running
      /\ queue' = <<>>
      /\ queuedBytes' = queuedBytes - BytesOf(Range(queue))
      /\ queuedN' = queuedN - Len(queue)
      /\ heldBytes' = heldBytes - BytesOf(Sent(w)) - BytesOf(gone)
      /\ Settle(Sent(w), {}, gone)
      /\ lostRows' = lostRows + Cardinality(gone)
      /\ down' = (down /\ ~FoundUp(w))
      /\ UNCHANGED <<due, submitter, calm>>

-----------------------------------------------------------------------------
(* timescaleConnGet: timescaleWriterBarrier, then the connection and the read *)

\* Faulty variant: an outage taken for the history being there
BarrierLookAway(r, t) ==
  rpc' = [rpc EXCEPT ![r] = IF Recorded(t) \/ down THEN "passed" ELSE "asleep"]

\* The barrier's loop, once: through, or asleep on doneCond
BarrierLook(r, t) ==
  rpc' = [rpc EXCEPT ![r] = IF Recorded(t) THEN "passed" ELSE IF down THEN "skipped" ELSE "asleep"]

Barrier(r) ==
  /\ rpc[r] = "new" /\ Running
  /\ target' = [target EXCEPT ![r] = seq]
  /\ calm' = [calm EXCEPT ![r] = TRUE]
  /\ BarrierLook(r, seq)
  /\ UNCHANGED <<queueVars, stateVars, unitVars, writerVars, missed, dbVars>>

BarrierWoken(r) ==
  /\ rpc[r] = "awake"
  /\ BarrierLook(r, target[r])
  /\ UNCHANGED <<queueVars, stateVars, unitVars, writerVars, target, calm, missed, dbVars>>

\* Every unit queued before the barrier began
Owed(r) == {u \in Unit : seqOf[u] \in 1..target[r]}

Read(r) ==
  /\ rpc[r] \in {"passed", "skipped"}
  /\ rpc' = [rpc EXCEPT ![r] = IF dbUp THEN "read" ELSE "failed"]
  /\ missed' = [missed EXCEPT ![r] = IF dbUp THEN {u \in Owed(r) : outcome[u] = "none"} ELSE {}]
  /\ UNCHANGED <<queueVars, stateVars, unitVars, writerVars, target, calm, dbVars>>

-----------------------------------------------------------------------------
(* timescaleWriterStop: shutdownInOrder and the last unpin of a snapshot    *)
(* come to it with no request inside the plugin                             *)

Stop ==
  /\ Running
  /\ \A u \in Unit : submitter[u] \in {"new", "answered"}
  /\ \A r \in Reader : rpc[r] \in {"new", "read", "failed"}
  /\ pool' = "stopping"
  /\ wpc' = BroadcastWork(wpc)
  /\ UNCHANGED <<queueVars, busyN, down, probing, due, unitVars,
                 batch, batchSeq, probe, doneN, conn, readerVars, dbVars>>

\* The writers joined, the queue and its counts gone
StopJoin ==
  /\ pool = "stopping" /\ \A w \in Writer : wpc[w] = "exited"
  /\ pool' = "freed"
  /\ down' = FALSE
  /\ UNCHANGED <<queueVars, busyN, probing, due, unitVars, writerVars, readerVars, dbVars>>

-----------------------------------------------------------------------------
(* The environment: the database, and the clock *)

DbDown ==
  /\ dbUp /\ outages < MaxOutages
  /\ dbUp' = FALSE
  /\ outages' = outages + 1
  /\ conn' = [w \in Writer |-> IF conn[w] = "ok" THEN "stale" ELSE conn[w]]
  /\ UNCHANGED <<queueVars, stateVars, unitVars, wpc, batch, batchSeq, probe, doneN, readerVars, copies>>

DbUp ==
  /\ ~dbUp /\ dbUp' = TRUE
  /\ UNCHANGED <<queueVars, stateVars, unitVars, writerVars, readerVars, copies, outages>>

\* backoffMs has passed
ProbeDue ==
  /\ down /\ ~due /\ due' = TRUE
  /\ UNCHANGED <<queueVars, busyN, down, probing, pool, unitVars, writerVars, readerVars, dbVars>>

-----------------------------------------------------------------------------
SubmitterWoken(u) == submitter[u] = "room" /\ (AwaitRoom(u) \/ LoseAtCap(u) \/ Enqueue(u))

WriterStep(w) ==
  \/ WorkWait(w) \/ TimedWake(w) \/ TakeBatch(w) \/ WriterExit(w)
  \/ SendBatch(w) \/ BatchAnswer(w) \/ SendOne(w) \/ OneAnswer(w)
  \/ FinishAll(w) \/ FinishBack(w) \/ FinishStopping(w)

ReaderStep(r) == BarrierWoken(r) \/ Read(r)

Next ==
  \/ \E u \in Unit : \/ SubmitRefused(u) \/ OwnWrite(u) \/ ImportTold(u)
                     \/ AwaitRoom(u) \/ LoseAtCap(u) \/ Enqueue(u) \/ ImportAnswered(u)
  \/ \E w \in Writer : WriterStep(w)
  \/ \E r \in Reader : Barrier(r) \/ ReaderStep(r)
  \/ Stop \/ StopJoin
  \/ DbDown \/ DbUp \/ ProbeDue

Spec == Init /\ [][Next]_vars

\* Every thread that can run does, and the clock goes on; nothing is assumed of the requests,
\* of the stop or of the database
Fairness ==
  /\ \A u \in Unit : WF_vars(SubmitterWoken(u)) /\ WF_vars(ImportAnswered(u)) /\ WF_vars(OwnWrite(u))
  /\ \A w \in Writer : WF_vars(WriterStep(w))
  /\ \A r \in Reader : WF_vars(ReaderStep(r))
  /\ WF_vars(StopJoin)
  /\ WF_vars(ProbeDue)

FairSpec == Spec /\ Fairness

-----------------------------------------------------------------------------
(* Properties *)

Pending(u) == seqOf[u] > 0 /\ outcome[u] = "none"

InFlight == UNION {Range(batch[w]) : w \in Writer}

Outcome        == {"none", "ok", "err", "lost"}
SubmitterPlace == {"new", "own", "noRoom", "room", "waiting", "answered"}
WriterPlace    == {"ready", "asleep", "timed", "sending", "answer", "single", "answerOne", "finish",
                   "exited"}
ReaderPlace    == {"new", "asleep", "awake", "passed", "skipped", "read", "failed"}

FlagsOK ==
  /\ down \in BOOLEAN /\ probing \in BOOLEAN /\ due \in BOOLEAN /\ dbUp \in BOOLEAN
  /\ probe \in [Writer -> BOOLEAN] /\ calm \in [Reader -> BOOLEAN]

ValuesOK ==
  /\ queue \in Seq(Unit) /\ queuedBytes \in Int /\ queuedN \in Int /\ heldBytes \in Int
  /\ busyN \in Int /\ seq \in Nat /\ seqOf \in [Unit -> Nat]
  /\ pool \in {"running", "stopping", "freed"}
  /\ lostRows \in Int
  /\ outcome \in [Unit -> Outcome] /\ submitter \in [Unit -> SubmitterPlace]
  /\ wpc \in [Writer -> WriterPlace]
  /\ batch \in [Writer -> Seq(Unit)] /\ batchSeq \in [Writer -> Nat] /\ doneN \in [Writer -> Nat]
  /\ conn \in [Writer -> {"none", "ok", "stale"}]
  /\ rpc \in [Reader -> ReaderPlace]
  /\ target \in [Reader -> Nat] /\ missed \in [Reader -> SUBSET Unit]
  /\ copies \in [Unit -> Nat] /\ outages \in Nat

\* Every variable keeps its type: the one type invariant of the module
TypeOK == FlagsOK /\ ValuesOK

\* A unit without its outcome is in the queue or in one batch, once; one with its outcome is in
\* neither.  The queue is relinked by takes, put-backs and waitersRelease, and unitDone frees the
\* unit: a second place would be a use after free, none a request's history (or an import's
\* thread) forgotten.
UnitInOnePlace ==
  /\ IsInjective(queue)
  /\ \A w \in Writer :
       /\ IsInjective(batch[w])
       /\ Range(batch[w]) \cap Range(queue) = {}
       /\ \A v \in Writer \ {w} : Range(batch[w]) \cap Range(batch[v]) = {}
  /\ \A u \in Unit : Pending(u) <=> u \in Range(queue) \cup InFlight

\* unitDone comes to a unit once: no later batch, release or stop changes its outcome
UnitDoneOnce ==
  [][\A u \in Unit : outcome[u] # "none" => outcome'[u] = outcome[u]]_vars

\* queueCount, queueAdd and the subtractions of writerMain keep queuedBytes the bytes of the queue
\* and heldBytes those of the queue and of the batches in flight, through put-backs and releases;
\* a drift would open the cap or close it for good, and the health report would say held for ever
Accounting ==
  /\ queuedBytes = BytesOf(Range(queue))
  /\ queuedN = Len(queue)
  /\ heldBytes = queuedBytes + BytesOf(InFlight)
  /\ busyN = Cardinality({w \in Writer : batch[w] # <<>>})
  /\ lostRows = Cardinality({u \in Unit : outcome[u] = "lost"})

\* A barrier that recordedSeq lets through has every unit queued before it settled, unless an
\* outage began while it waited: takes by several writers, and put-backs of earlier outages that
\* left the queue out of order, do not let it through early
BarrierComplete ==
  \A r \in Reader : rpc[r] = "passed" /\ calm[r] => \A u \in Owed(r) : ~Pending(u)

\* With the database down one writer tries it and the others hold back, until the stop
ProbeAlone ==
  Running =>
    /\ probing <=> \E w \in Writer : probe[w]
    /\ \A v, w \in Writer : probe[v] /\ probe[w] => v = w

\* An outage of a broker has somebody to end it: while its history counts as down there is a unit to
\* try, or a try in flight (an import's queue is emptied, its waiters told: see OutageEnds)
AlwaysProbed ==
  Running /\ down => queue # <<>> \/ probing \/ \E u \in Import : submitter[u] # "new"

\* "ok" is said of rows that are in the database, and only the answer of a commit lost with the
\* connection puts rows in that are not said to be (or puts them in again)
OutcomeTrue ==
  \A u \in Unit :
    /\ outcome[u] = "ok" => copies[u] > 0
    /\ outages = 0 => copies[u] <= 1 /\ (copies[u] = 1 /\ u \notin InFlight => outcome[u] = "ok")
    /\ outages = 0 => outcome[u] # "lost" /\ (outcome[u] = "err" => u \in Bad)

\* timescaleWriterStop leaves no unit behind and nothing counted as held
StopSettles == pool = "freed" => heldBytes = 0 /\ \A u \in Unit : ~Pending(u)

\* The database back for good, everything held gets its outcome - no wakeup is lost between the
\* submitters' frugal signals, the timed wait of the probe and the writers' sleep
HistorySettles == <>[]dbUp => <>[](\A u \in Unit : ~Pending(u))

\* The database back for good, the outage ends
OutageEnds == <>[]dbUp => <>[](~down)

\* Nobody waits for a database that does not come back: neither a read behind its barrier, nor a request
\* for room in a queue that will not empty, nor the joins of timescaleWriterStop
CallsReturn ==
  /\ \A r \in Reader : rpc[r] = "asleep" ~> rpc[r] \in {"passed", "skipped"}
  /\ \A u \in Unit : submitter[u] \in {"noRoom", "waiting"} ~> submitter[u] = "answered"
  /\ pool = "stopping" ~> pool = "freed"

\* What the comment on timescaleWriterBarrier says of a reader the outage sends on: it finds the
\* database down too - it does not read a history that lacks what was queued before it
ReadFindsHistory == \A r \in Reader : rpc[r] = "read" => missed[r] = {}

-----------------------------------------------------------------------------
(* The inductive invariant of the proofs (TroeWriterProofs) *)

Busy(w) == wpc[w] \in {"sending", "answer", "single", "answerOne", "finish"}

\* A writer between batches holds nothing of the last one
BatchShape ==
  \A w \in Writer :
    /\ doneN[w] <= Len(batch[w])
    /\ batch[w] = <<>> <=> ~Busy(w)
    /\ wpc[w] \in {"sending", "answer"} => doneN[w] = 0
    /\ wpc[w] \in {"single", "answerOne"} => doneN[w] < Len(batch[w])

\* Only a writer in a batch probes; one that is gone saw the stop
ProbeShape ==
  \A w \in Writer :
    /\ probe[w] => Busy(w)
    /\ wpc[w] = "exited" => ~Running
    /\ pool = "freed" => wpc[w] = "exited"

\* A unit not queued yet has no seq and no outcome, and the seqs given out are up to seq
SubmitterShape ==
  \A u \in Unit :
    /\ submitter[u] \in {"new", "own", "noRoom", "room"} => seqOf[u] = 0 /\ outcome[u] = "none"
    /\ seqOf[u] <= seq

OnTheWay(u) == submitter[u] \notin {"new", "answered"}

\* An import runs by itself and hands over a unit once it has the outcome of the one before
ImportShape ==
  /\ \A u, v \in Unit : submitter[u] # "new" /\ submitter[v] # "new" => (u \in Import <=> v \in Import)
  /\ \A u, v \in Import : OnTheWay(u) /\ OnTheWay(v) => u = v
  /\ \A u \in Import : Pending(u) => submitter[u] = "waiting"

\* What recordedSeq reads of a writer: the first unit of its batch
BatchFirst == \A w \in Writer : batchSeq[w] = IF batch[w] = <<>> THEN 0 ELSE seqOf[batch[w][1]]

\* No unit past t is ahead of one up to t
UpToFirst(s, t) == \A i, j \in 1..Len(s) : i < j /\ seqOf[s[j]] <= t => seqOf[s[i]] <= t

\* While a barrier waits and no outage has begun since, nothing was put back: what it waits for is
\* ahead of all that came later, in the queue and in each batch
BarrierOrder ==
  \A r \in Reader :
    /\ target[r] <= seq
    /\ rpc[r] \in {"asleep", "awake"} /\ calm[r] =>
         /\ ~down
         /\ UpToFirst(queue, target[r])
         /\ \A w \in Writer : UpToFirst(batch[w], target[r])

\* The rows of the i-th unit of a batch were sent, and not refused: its rc is there, or on its way
Committed(w, i) ==
  i <= doneN[w] \/ wpc[w] = "answer" \/ (wpc[w] = "answerOne" /\ i = doneN[w] + 1)

\* What a writer will call done is in, or refused
RowsOf(w) ==
  \A i \in 1..Len(batch[w]) : Committed(w, i) => batch[w][i] \in Bad \/ copies[batch[w][i]] > 0

OkIsIn == \A u \in Unit : outcome[u] = "ok" => copies[u] > 0

\* Without an outage a batch is in the database as far as it got, and runs to its end
CalmWriter(w) ==
  /\ conn[w] # "stale"
  /\ wpc[w] = "finish" => doneN[w] = Len(batch[w])
  /\ \A i \in 1..Len(batch[w]) :
       copies[batch[w][i]] = IF Committed(w, i) /\ batch[w][i] \notin Bad THEN 1 ELSE 0

CalmUnit(u) ==
  /\ u \notin InFlight => copies[u] = IF outcome[u] = "ok" THEN 1 ELSE 0
  /\ outcome[u] # "lost"
  /\ outcome[u] = "err" => u \in Bad

Undisturbed ==
  outages = 0 => dbUp /\ ~down /\ (\A w \in Writer : CalmWriter(w)) /\ (\A u \in Unit : CalmUnit(u))

OutcomeInv == OkIsIn /\ (\A w \in Writer : RowsOf(w)) /\ Undisturbed

\* The stop finds no submitter inside, only it makes one write for itself, and a writer leaves an
\* empty queue
StopShape ==
  /\ ~Running => \A u \in Unit : submitter[u] \notin {"noRoom", "room", "waiting"}
  /\ Running => \A u \in Unit : submitter[u] # "own"
  /\ (\E w \in Writer : wpc[w] = "exited") => queue = <<>>

-----------------------------------------------------------------------------
(* The promise the writers keep (TroeHistory) *)

Taken    == {u \in Unit : seqOf[u] > 0}
Troubled == outages > 0 \/ ~Running

Reading ==
  [r \in Reader |->
    CASE rpc[r] \in {"asleep", "awake"} -> "waiting"
      [] rpc[r] = "passed"             -> "served"
      [] rpc[r] = "skipped"            -> "released"
      [] rpc[r] \in {"read", "failed"} -> "done"
      [] OTHER                         -> "new"]

OwedAll == [r \in Reader |-> Owed(r)]

History == INSTANCE TroeHistory WITH
  taken <- Taken, fate <- outcome, trouble <- Troubled, reading <- Reading, owed <- OwedAll, quiet <- calm

\* Queue, batches, put-backs, probes and wakeups implement TroeHistory: each unit taken gets one
\* outcome, none is lost without an outage or the stop, a reader is served what it is owed
ImplementsHistory == History!Spec
=============================================================================
