-------------------------- MODULE TroeWriterProofs --------------------------
(***************************************************************************)
(* Proofs about the TRoE writers, of a broker and of an import alike.  In  *)
(* layers: the shape (types, a writer's place against its batch); the      *)
(* units' places, with the import's one unit at a time; on these, each by  *)
(* itself, the barriers' order, the accounts, the truth of the outcomes    *)
(* and what the stop leaves; and last the refinement of TroeHistory, step  *)
(* by step.                                                                *)
(***************************************************************************)
EXTENDS TroeWriter, SeqFacts

(* The two ways a put-back ends.  waitersRelease takes from the middle of  *)
(* the queue; but an import hands over one unit at a time, so what it is   *)
(* told of is all there is.  EndsBack says so; it is a hypothesis of the   *)
(* first layers and follows from PlaceInv, which they build.               *)

\* FinishBack with nobody told: the rest of the batch is at the queue's head again
PutBack(w) ==
  /\ BatchOver(w)
  /\ Unsent(w) # <<>> /\ Running
  /\ queue' = Unsent(w) \o queue
  /\ queuedBytes' = queuedBytes + BytesOf(Range(Unsent(w))) - BytesOf({})
  /\ queuedN' = queuedN + Len(Unsent(w)) - Cardinality({})
  /\ heldBytes' = heldBytes - BytesOf(Sent(w)) - BytesOf({})
  /\ Settle(Sent(w), {}, {})
  /\ UNCHANGED lostRows

\* ... with an import's thread told: its unit was the whole batch, and nothing was queued
TellImport(w, u) ==
  /\ BatchOver(w)
  /\ submitter[u] = "waiting"
  /\ Sent(w) = {} /\ Range(Unsent(w)) = {u} /\ Len(Unsent(w)) = 1
  /\ queue = <<>> /\ queue' = <<>>
  /\ queuedBytes' = queuedBytes + BytesOf({u}) - BytesOf({u})
  /\ queuedN' = queuedN + 1 - 1
  /\ heldBytes' = heldBytes - BytesOf({}) - BytesOf({u})
  /\ Settle({}, {u}, {})
  /\ UNCHANGED lostRows

EndsBack == \A w \in Writer : FinishBack(w) => PutBack(w) \/ \E u \in Import : TellImport(w, u)

\* Every step keeps the flags Boolean
LEMMA FlagsOKStep == ASSUME TypeOK, [Next]_vars PROVE FlagsOK'
<1> USE DEF FlagsOK, TypeOK
<1>1. ASSUME NEW u \in Unit, SubmitRefused(u) PROVE FlagsOK'
  BY <1>1 DEF SubmitRefused, queueVars, stateVars, unitVars, writerVars, readerVars, dbVars
<1>2. ASSUME NEW u \in Unit, OwnWrite(u) PROVE FlagsOK'
  BY <1>2 DEF OwnWrite, queueVars, stateVars, unitVars, writerVars, readerVars, dbVars
<1>3. ASSUME NEW u \in Unit, ImportTold(u) PROVE FlagsOK'
  BY <1>3 DEF ImportTold, queueVars, stateVars, unitVars, writerVars, readerVars, dbVars
<1>4. ASSUME NEW u \in Unit, AwaitRoom(u) PROVE FlagsOK'
  BY <1>4 DEF AwaitRoom, queueVars, stateVars, unitVars, writerVars, readerVars, dbVars
<1>5. ASSUME NEW u \in Unit, LoseAtCap(u) PROVE FlagsOK'
  BY <1>5 DEF LoseAtCap, queueVars, stateVars, unitVars, writerVars, readerVars, dbVars
<1>6. ASSUME NEW u \in Unit, Enqueue(u) PROVE FlagsOK'
  BY <1>6 DEF Enqueue, SignalWork, Dormant, queueVars, stateVars, unitVars, writerVars, readerVars, dbVars
<1>7. ASSUME NEW u \in Unit, ImportAnswered(u) PROVE FlagsOK'
  BY <1>7 DEF ImportAnswered, queueVars, stateVars, unitVars, writerVars, readerVars, dbVars
<1>8. ASSUME NEW w \in Writer, WorkWait(w) PROVE FlagsOK'
  BY <1>8 DEF WorkWait, queueVars, stateVars, unitVars, writerVars, readerVars, dbVars
<1>9. ASSUME NEW w \in Writer, TimedWake(w) PROVE FlagsOK'
  BY <1>9 DEF TimedWake, queueVars, stateVars, unitVars, writerVars, readerVars, dbVars
<1>10. ASSUME NEW w \in Writer, TakeBatch(w) PROVE FlagsOK'
  BY <1>10 DEF TakeBatch, SignalWork, Dormant, BroadcastRoom, queueVars, stateVars, unitVars, writerVars, readerVars, dbVars
<1>11. ASSUME NEW w \in Writer, WriterExit(w) PROVE FlagsOK'
  BY <1>11 DEF WriterExit, queueVars, stateVars, unitVars, writerVars, readerVars, dbVars
<1>12. ASSUME NEW w \in Writer, SendBatch(w) PROVE FlagsOK'
  BY <1>12 DEF SendBatch, Unreachable, Commit, queueVars, stateVars, unitVars, writerVars, readerVars, dbVars
<1>13. ASSUME NEW w \in Writer, BatchAnswer(w) PROVE FlagsOK'
  BY <1>13 DEF BatchAnswer, Unreachable, queueVars, stateVars, unitVars, writerVars, readerVars, dbVars
<1>14. ASSUME NEW w \in Writer, SendOne(w) PROVE FlagsOK'
  BY <1>14 DEF SendOne, Unreachable, Commit, SingleDone, queueVars, stateVars, unitVars, writerVars, readerVars, dbVars
<1>15. ASSUME NEW w \in Writer, OneAnswer(w) PROVE FlagsOK'
  BY <1>15 DEF OneAnswer, Unreachable, SingleDone, queueVars, stateVars, unitVars, writerVars, readerVars, dbVars
<1>16. ASSUME NEW w \in Writer, FinishAll(w) PROVE FlagsOK'
  BY <1>16 DEF FinishAll, BatchOver, BroadcastWork, BroadcastDone, Dormant, Settle, Sent, queueVars, stateVars, unitVars, writerVars, readerVars, dbVars
<1>17. ASSUME NEW w \in Writer, FinishBack(w) PROVE FlagsOK'
  BY <1>17 DEF FinishBack, BatchOver, BroadcastWork, BroadcastDone, BroadcastRoom, Dormant, Settle, Sent, Unsent, queueVars, stateVars, unitVars, writerVars, readerVars, dbVars
<1>18. ASSUME NEW w \in Writer, FinishStopping(w) PROVE FlagsOK'
  BY <1>18 DEF FinishStopping, BatchOver, BroadcastWork, BroadcastDone, Dormant, Settle, Sent, Unsent, queueVars, stateVars, unitVars, writerVars, readerVars, dbVars
<1>19. ASSUME NEW r \in Reader, Barrier(r) PROVE FlagsOK'
  BY <1>19 DEF Barrier, BarrierLook, queueVars, stateVars, unitVars, writerVars, readerVars, dbVars
<1>20. ASSUME NEW r \in Reader, BarrierWoken(r) PROVE FlagsOK'
  BY <1>20 DEF BarrierWoken, BarrierLook, queueVars, stateVars, unitVars, writerVars, readerVars, dbVars
<1>21. ASSUME NEW r \in Reader, Read(r) PROVE FlagsOK'
  BY <1>21 DEF Read, queueVars, stateVars, unitVars, writerVars, readerVars, dbVars
<1>22. CASE Stop
  BY <1>22 DEF Stop, BroadcastWork, Dormant, queueVars, stateVars, unitVars, writerVars, readerVars, dbVars
<1>23. CASE StopJoin
  BY <1>23 DEF StopJoin, queueVars, stateVars, unitVars, writerVars, readerVars, dbVars
<1>24. CASE DbDown
  BY <1>24 DEF DbDown, queueVars, stateVars, unitVars, writerVars, readerVars, dbVars
<1>25. CASE DbUp
  BY <1>25 DEF DbUp, queueVars, stateVars, unitVars, writerVars, readerVars, dbVars
<1>26. CASE ProbeDue
  BY <1>26 DEF ProbeDue, queueVars, stateVars, unitVars, writerVars, readerVars, dbVars
<1>27. CASE UNCHANGED vars
  BY <1>27 DEF vars, queueVars, stateVars, unitVars, writerVars, readerVars, dbVars
<1> QED
  BY <1>1, <1>2, <1>3, <1>4, <1>5, <1>6, <1>7, <1>8, <1>9, <1>10, <1>11, <1>12, <1>13, <1>14, <1>15, <1>16, <1>17, <1>18, <1>19, <1>20, <1>21, <1>22, <1>23, <1>24, <1>25, <1>26, <1>27 DEF Next, WriterStep, ReaderStep

\* The steps of ValuesOKStep that change sequences, sums and places at once
LEMMA OwnWriteValues == ASSUME ValuesOK, NEW u \in Unit, OwnWrite(u) PROVE ValuesOK'
<1> USE DEF ValuesOK
<1>1. submitter' \in [Unit -> SubmitterPlace]
  BY DEF OwnWrite, SubmitterPlace
<1>2. copies' \in [Unit -> Nat]
  <2>1. CASE dbUp
    <3>1. copies' = [copies EXCEPT ![u] = IF u \in Bad THEN copies[u] ELSE copies[u] + 1]
      BY <2>1 DEF OwnWrite
    <3> QED BY <3>1
  <2>2. CASE ~dbUp
    BY <2>2 DEF OwnWrite
  <2> QED BY <2>1, <2>2
<1>3. outcome' \in [Unit -> Outcome]
  BY DEF OwnWrite, Outcome
<1>4. lostRows' \in Int
  BY DEF OwnWrite
<1> QED BY <1>1, <1>2, <1>3, <1>4 DEF OwnWrite, queueVars, stateVars, unitVars, writerVars, readerVars, dbVars

\* A signal leaves every writer at a place
LEMMA SignalPlaces ==
  ASSUME NEW f \in [Writer -> WriterPlace], NEW g \in SignalWork(f)
  PROVE  g \in [Writer -> WriterPlace]
BY DEF SignalWork, Dormant, WriterPlace

\* ... a unit queued
LEMMA EnqueueValues == ASSUME ValuesOK, NEW u \in Unit, Enqueue(u) PROVE ValuesOK'
<1> USE DEF ValuesOK
<1>1. queue' \in Seq(Unit)
  BY AppendProperties DEF Enqueue
<1>2. BytesOf({u}) \in Nat
  BY ParamsAssumption
<1>3. queuedBytes' \in Int /\ queuedN' \in Int /\ heldBytes' \in Int /\ seq' \in Nat
  BY <1>2 DEF Enqueue
<1>4. seqOf' \in [Unit -> Nat]
  BY DEF Enqueue
<1>5. wpc' \in [Writer -> WriterPlace]
  BY SignalPlaces DEF Enqueue
<1>6. submitter' \in [Unit -> SubmitterPlace]
  BY DEF Enqueue, SubmitterPlace
<1> QED BY <1>1, <1>3, <1>4, <1>5, <1>6 DEF Enqueue, queueVars, stateVars, unitVars, writerVars, readerVars, dbVars

\* ... a batch taken off the queue
LEMMA TakeBatchValues == ASSUME ValuesOK, NEW w \in Writer, TakeBatch(w) PROVE ValuesOK'
<1> USE DEF ValuesOK
<1>1. PICK n \in 1..Len(queue) :
        LET taken == SubSeq(queue, 1, n)
            left  == SubSeq(queue, n + 1, Len(queue))
            went  == [wpc EXCEPT ![w] = "sending"]
        IN  /\ batch' = [batch EXCEPT ![w] = taken]
            /\ queue' = left
            /\ queuedBytes' = queuedBytes - BytesOf(Range(taken))
            /\ queuedN' = queuedN - n
            /\ IF left # <<>> /\ ~down THEN wpc' \in SignalWork(went) ELSE wpc' = went
  BY DEF TakeBatch
<1>2. /\ SubSeq(queue, 1, n) \in Seq(Unit) /\ SubSeq(queue, n + 1, Len(queue)) \in Seq(Unit)
      /\ Range(SubSeq(queue, 1, n)) \in SUBSET Unit
  BY SplitSeq, SplitRange
<1>3. BytesOf(Range(SubSeq(queue, 1, n))) \in Nat
  BY <1>2, ParamsAssumption
<1>4. queue' \in Seq(Unit)
  BY <1>1, <1>2
<1>9. queuedBytes' \in Int
  BY <1>1, <1>3
<1>10. queuedN' \in Int
  BY <1>1
<1>5. batch' \in [Writer -> Seq(Unit)]
  BY <1>1, <1>2
<1>6. wpc' \in [Writer -> WriterPlace]
  <2>1. [wpc EXCEPT ![w] = "sending"] \in [Writer -> WriterPlace]
    BY DEF WriterPlace
  <2> QED BY <1>1, <2>1, SignalPlaces
<1>7. batchSeq' \in [Writer -> Nat] /\ busyN' \in Int
  <2>1. Head(queue) \in Unit
    BY HeadTailProperties DEF TakeBatch, MayTake
  <2> QED BY <2>1 DEF TakeBatch
<1>8. submitter' \in [Unit -> SubmitterPlace]
  BY DEF TakeBatch, BroadcastRoom, SubmitterPlace
<1> QED BY <1>4, <1>5, <1>6, <1>7, <1>8, <1>9, <1>10 DEF TakeBatch, queueVars, stateVars, unitVars, writerVars, readerVars, dbVars

\* ... a batch sent
LEMMA SendBatchValues == ASSUME ValuesOK, NEW w \in Writer, SendBatch(w) PROVE ValuesOK'
<1> USE DEF ValuesOK
<1>1. wpc' \in [Writer -> WriterPlace]
  BY DEF SendBatch, Unreachable, Commit, WriterPlace
<1>2. doneN' \in [Writer -> Nat]
  <2>1. \/ doneN' = doneN
        \/ doneN' = [doneN EXCEPT ![w] = 0]
        \/ doneN' = [doneN EXCEPT ![w] = 1]
    BY DEF SendBatch, Unreachable
  <2>2. doneN \in [Writer -> Nat]
    OBVIOUS
  <2> HIDE DEF ValuesOK
  <2> QED BY <2>1, <2>2
<1>3. conn' \in [Writer -> {"none", "ok", "stale"}]
  BY DEF SendBatch, Unreachable, Commit
<1>4. copies' \in [Unit -> Nat]
  BY DEF SendBatch, Unreachable, Commit
<1> QED BY <1>1, <1>2, <1>3, <1>4 DEF SendBatch, queueVars, stateVars, unitVars, writerVars, readerVars, dbVars

\* ... its answer
LEMMA BatchAnswerValues == ASSUME ValuesOK, NEW w \in Writer, BatchAnswer(w) PROVE ValuesOK'
<1> USE DEF ValuesOK
<1>1. wpc' \in [Writer -> WriterPlace]
  BY DEF BatchAnswer, Unreachable, WriterPlace
<1>2. doneN' \in [Writer -> Nat]
  <2>1. Len(batch[w]) \in Nat
    BY LenProperties
  <2> QED BY <2>1 DEF BatchAnswer, Unreachable
<1>3. conn' \in [Writer -> {"none", "ok", "stale"}]
  BY DEF BatchAnswer, Unreachable
<1>4. copies' \in [Unit -> Nat]
  BY DEF BatchAnswer, Unreachable
<1> QED BY <1>1, <1>2, <1>3, <1>4 DEF BatchAnswer, queueVars, stateVars, unitVars, writerVars, readerVars, dbVars

\* ... one unit of a refused batch sent
LEMMA SendOneValues == ASSUME ValuesOK, NEW w \in Writer, SendOne(w) PROVE ValuesOK'
<1> USE DEF ValuesOK
<1>1. wpc' \in [Writer -> WriterPlace]
  BY DEF SendOne, Unreachable, Commit, SingleDone, WriterPlace
<1>2. doneN' \in [Writer -> Nat]
  <2>1. doneN' = doneN \/ doneN' = [doneN EXCEPT ![w] = doneN[w] + 1]
    BY DEF SendOne, Unreachable, SingleDone
  <2>2. doneN \in [Writer -> Nat]
    OBVIOUS
  <2> HIDE DEF ValuesOK
  <2> QED BY <2>1, <2>2
<1>3. conn' \in [Writer -> {"none", "ok", "stale"}]
  BY DEF SendOne, Unreachable, Commit, SingleDone
<1>4. copies' \in [Unit -> Nat]
  <2>1. copies' = copies \/ \E S \in {{batch[w][doneN[w] + 1]}} : Commit(S)
    BY DEF SendOne, Unreachable
  <2> QED BY <2>1 DEF Commit
<1> QED BY <1>1, <1>2, <1>3, <1>4 DEF SendOne, queueVars, stateVars, unitVars, writerVars, readerVars, dbVars

\* ... its answer
LEMMA OneAnswerValues == ASSUME ValuesOK, NEW w \in Writer, OneAnswer(w) PROVE ValuesOK'
<1> USE DEF ValuesOK
<1>1. wpc' \in [Writer -> WriterPlace]
  BY DEF OneAnswer, Unreachable, SingleDone, WriterPlace
<1>2. doneN' \in [Writer -> Nat]
  <2>1. Len(batch[w]) \in Nat
    BY LenProperties
  <2> QED BY <2>1 DEF OneAnswer, Unreachable, SingleDone
<1>3. conn' \in [Writer -> {"none", "ok", "stale"}]
  BY DEF OneAnswer, Unreachable, SingleDone
<1>4. copies' \in [Unit -> Nat]
  BY DEF OneAnswer, Unreachable, SingleDone
<1> QED BY <1>1, <1>2, <1>3, <1>4 DEF OneAnswer, queueVars, stateVars, unitVars, writerVars, readerVars, dbVars

\* What the three ends of a batch have in common is well typed
LEMMA BatchOverValues ==
  ASSUME ValuesOK, BatchShape, NEW w \in Writer, BatchOver(w)
  PROVE  /\ busyN' \in Int /\ batch' \in [Writer -> Seq(Unit)] /\ batchSeq' \in [Writer -> Nat]
         /\ doneN' \in [Writer -> Nat] /\ wpc' \in [Writer -> WriterPlace]
         /\ rpc' \in [Reader -> ReaderPlace]
         /\ Unsent(w) \in Seq(Unit) /\ Range(Unsent(w)) \in SUBSET Unit
         /\ Sent(w) \in SUBSET Unit
<1> USE DEF ValuesOK
<1>1. busyN' \in Int /\ batch' \in [Writer -> Seq(Unit)] /\ batchSeq' \in [Writer -> Nat]
      /\ doneN' \in [Writer -> Nat]
  BY EmptySeq DEF BatchOver
<1>2. wpc' \in [Writer -> WriterPlace]
  BY DEF BatchOver, BroadcastWork, Dormant, WriterPlace
<1>3. rpc' \in [Reader -> ReaderPlace]
  BY DEF BatchOver, BroadcastDone, ReaderPlace
<1>4. doneN[w] \in 0..Len(batch[w])
  BY LenProperties DEF BatchShape
<1>5. /\ Unsent(w) \in Seq(Unit) /\ Range(Unsent(w)) \in SUBSET Unit
      /\ Sent(w) \in SUBSET Unit
  BY <1>4, SplitSeq, SplitRange DEF Sent, Unsent
<1> QED BY <1>1, <1>2, <1>3, <1>5

\* ... the whole batch settled
LEMMA FinishAllValues ==
  ASSUME ValuesOK, BatchShape, NEW w \in Writer, FinishAll(w) PROVE ValuesOK'
<1> USE DEF ValuesOK
<1>1. BatchOver(w)
  BY DEF FinishAll
<1>2. heldBytes' \in Int
  BY <1>1, BatchOverValues, ParamsAssumption DEF FinishAll
<1>3. outcome' \in [Unit -> Outcome]
  BY DEF FinishAll, Settle, Outcome
<1> QED BY <1>1, <1>2, <1>3, BatchOverValues DEF FinishAll, BatchOver, queueVars, stateVars, unitVars, writerVars, readerVars, dbVars

\* ... the rest of the batch put back on the queue
LEMMA FinishBackValues ==
  ASSUME EndsBack, ValuesOK, BatchShape, NEW w \in Writer, FinishBack(w) PROVE ValuesOK'
<1> USE DEF ValuesOK
<1>1. BatchOver(w)
  BY DEF FinishBack
<1>2. BytesOf({}) \in Nat /\ BytesOf(Sent(w)) \in Nat /\ BytesOf(Range(Unsent(w))) \in Nat
  BY <1>1, BatchOverValues, ParamsAssumption
<1>3. /\ queue' \in Seq(Unit) /\ queuedBytes' \in Int /\ heldBytes' \in Int /\ queuedN' \in Int
      /\ lostRows' \in Int
  <2>1. CASE PutBack(w)
    <3>1. queue' \in Seq(Unit)
      BY <1>1, <2>1, BatchOverValues, ConcatProperties DEF PutBack
    <3>2. Cardinality({}) = 0 /\ Len(Unsent(w)) \in Nat
      BY <1>1, BatchOverValues, FS_EmptySet, LenProperties
    <3>3. /\ queuedBytes' = queuedBytes + BytesOf(Range(Unsent(w))) - BytesOf({})
          /\ heldBytes' = heldBytes - BytesOf(Sent(w)) - BytesOf({}) /\ lostRows' = lostRows
          /\ queuedN' = queuedN + Len(Unsent(w)) - Cardinality({})
      BY <2>1 DEF PutBack
    <3>4. queuedBytes \in Int /\ heldBytes \in Int /\ lostRows \in Int /\ queuedN \in Int
      OBVIOUS
    <3> HIDE DEF ValuesOK
    <3>5. queuedBytes' \in Int /\ heldBytes' \in Int /\ lostRows' \in Int
      BY <1>2, <3>3, <3>4
    <3>6. queuedN' \in Int
      BY <3>2, <3>3, <3>4
    <3> QED BY <3>1, <3>3, <3>4
  <2>2. ASSUME NEW u \in Import, TellImport(w, u)
        PROVE  /\ queue' \in Seq(Unit) /\ queuedBytes' \in Int /\ heldBytes' \in Int /\ queuedN' \in Int
               /\ lostRows' \in Int
    <3>1. BytesOf({u}) \in Nat
      BY ParamsAssumption
    <3> QED BY <1>2, <2>2, <3>1, EmptySeq DEF TellImport
  <2> QED BY <2>1, <2>2 DEF EndsBack
<1>4. outcome' \in [Unit -> Outcome]
  BY DEF FinishBack, Settle, Outcome
<1>5. submitter' \in [Unit -> SubmitterPlace]
  BY DEF FinishBack, BroadcastRoom, SubmitterPlace
<1>6. UNCHANGED <<seq, seqOf, pool, conn, target, missed, copies, outages>>
  BY <1>1 DEF BatchOver, dbVars
<1> QED BY <1>1, <1>3, <1>4, <1>5, <1>6, BatchOverValues

\* ... the rest of the batch lost to the stop
LEMMA FinishStoppingValues ==
  ASSUME ValuesOK, BatchShape, NEW w \in Writer, FinishStopping(w) PROVE ValuesOK'
<1> USE DEF ValuesOK
<1>1. BatchOver(w)
  BY DEF FinishStopping
<1> DEFINE gone == Range(Unsent(w)) \cup Range(queue)
<1>3. gone \in SUBSET Unit /\ Range(queue) \in SUBSET Unit
  BY <1>1, BatchOverValues, RangeOfSeq
<1>4. BytesOf(gone) \in Nat /\ BytesOf(Range(queue)) \in Nat /\ BytesOf(Sent(w)) \in Nat
  BY <1>1, <1>3, BatchOverValues, ParamsAssumption
<1>5. queuedBytes' \in Int /\ heldBytes' \in Int /\ queue' \in Seq(Unit) /\ queuedN' \in Int
  BY <1>4, EmptySeq, LenProperties DEF FinishStopping
<1>6. Cardinality(gone) \in Nat
  <2>1. IsFiniteSet(Range(Unsent(w))) /\ IsFiniteSet(Range(queue))
    BY <1>1, BatchOverValues, RangeFinite
  <2> QED BY <2>1, FS_Union, FS_CardinalityType
<1>7. lostRows' \in Int
  BY <1>6 DEF FinishStopping
<1>8. outcome' \in [Unit -> Outcome]
  BY DEF FinishStopping, Settle, Outcome
<1> QED BY <1>1, <1>5, <1>7, <1>8, BatchOverValues DEF FinishStopping, BatchOver, queueVars, stateVars, unitVars, writerVars, readerVars, dbVars

\* ... a reader's read
LEMMA ReadValues == ASSUME ValuesOK, NEW r \in Reader, Read(r) PROVE ValuesOK'
<1> USE DEF ValuesOK
<1>1. rpc' \in [Reader -> ReaderPlace]
  BY DEF Read, ReaderPlace
<1>2. missed' \in [Reader -> SUBSET Unit]
  BY DEF Read, Owed
<1> QED BY <1>1, <1>2 DEF Read, queueVars, stateVars, unitVars, writerVars, readerVars, dbVars

\* Every step keeps the variables that are not flags in their sets
LEMMA ValuesOKStep == ASSUME EndsBack, TypeOK, BatchShape, [Next]_vars PROVE ValuesOK'
<1> USE DEF ValuesOK, TypeOK, Outcome, SubmitterPlace, WriterPlace, ReaderPlace
<1>1. ASSUME NEW u \in Unit, SubmitRefused(u) PROVE ValuesOK'
  BY <1>1, ParamsAssumption DEF SubmitRefused, queueVars, stateVars, unitVars, writerVars, readerVars, dbVars
<1>2. ASSUME NEW u \in Unit, OwnWrite(u) PROVE ValuesOK'
  BY <1>2, OwnWriteValues
<1>3. ASSUME NEW u \in Unit, ImportTold(u) PROVE ValuesOK'
  BY <1>3, ParamsAssumption DEF ImportTold, queueVars, stateVars, unitVars, writerVars, readerVars, dbVars
<1>4. ASSUME NEW u \in Unit, AwaitRoom(u) PROVE ValuesOK'
  BY <1>4, ParamsAssumption DEF AwaitRoom, queueVars, stateVars, unitVars, writerVars, readerVars, dbVars
<1>5. ASSUME NEW u \in Unit, LoseAtCap(u) PROVE ValuesOK'
  BY <1>5, ParamsAssumption DEF LoseAtCap, queueVars, stateVars, unitVars, writerVars, readerVars, dbVars
<1>6. ASSUME NEW u \in Unit, Enqueue(u) PROVE ValuesOK'
  BY <1>6, EnqueueValues
<1>7. ASSUME NEW u \in Unit, ImportAnswered(u) PROVE ValuesOK'
  BY <1>7, ParamsAssumption DEF ImportAnswered, queueVars, stateVars, unitVars, writerVars, readerVars, dbVars
<1>8. ASSUME NEW w \in Writer, WorkWait(w) PROVE ValuesOK'
  BY <1>8, ParamsAssumption DEF WorkWait, queueVars, stateVars, unitVars, writerVars, readerVars, dbVars
<1>9. ASSUME NEW w \in Writer, TimedWake(w) PROVE ValuesOK'
  BY <1>9, ParamsAssumption DEF TimedWake, queueVars, stateVars, unitVars, writerVars, readerVars, dbVars
<1>10. ASSUME NEW w \in Writer, TakeBatch(w) PROVE ValuesOK'
  BY <1>10, TakeBatchValues
<1>11. ASSUME NEW w \in Writer, WriterExit(w) PROVE ValuesOK'
  BY <1>11, ParamsAssumption DEF WriterExit, queueVars, stateVars, unitVars, writerVars, readerVars, dbVars
<1>12. ASSUME NEW w \in Writer, SendBatch(w) PROVE ValuesOK'
  BY <1>12, SendBatchValues
<1>13. ASSUME NEW w \in Writer, BatchAnswer(w) PROVE ValuesOK'
  BY <1>13, BatchAnswerValues
<1>14. ASSUME NEW w \in Writer, SendOne(w) PROVE ValuesOK'
  BY <1>14, SendOneValues
<1>15. ASSUME NEW w \in Writer, OneAnswer(w) PROVE ValuesOK'
  BY <1>15, OneAnswerValues
<1>16. ASSUME NEW w \in Writer, FinishAll(w) PROVE ValuesOK'
  BY <1>16, FinishAllValues
<1>17. ASSUME NEW w \in Writer, FinishBack(w) PROVE ValuesOK'
  BY <1>17, FinishBackValues
<1>18. ASSUME NEW w \in Writer, FinishStopping(w) PROVE ValuesOK'
  BY <1>18, FinishStoppingValues
<1>19. ASSUME NEW r \in Reader, Barrier(r) PROVE ValuesOK'
  BY <1>19, ParamsAssumption DEF Barrier, BarrierLook, queueVars, stateVars, unitVars, writerVars, readerVars, dbVars
<1>20. ASSUME NEW r \in Reader, BarrierWoken(r) PROVE ValuesOK'
  BY <1>20, ParamsAssumption DEF BarrierWoken, BarrierLook, queueVars, stateVars, unitVars, writerVars, readerVars, dbVars
<1>21. ASSUME NEW r \in Reader, Read(r) PROVE ValuesOK'
  BY <1>21, ReadValues
<1>22. CASE Stop
  BY <1>22, ParamsAssumption DEF Stop, BroadcastWork, Dormant, queueVars, stateVars, unitVars, writerVars, readerVars, dbVars
<1>23. CASE StopJoin
  BY <1>23, ParamsAssumption DEF StopJoin, queueVars, stateVars, unitVars, writerVars, readerVars, dbVars
<1>24. CASE DbDown
  BY <1>24, ParamsAssumption DEF DbDown, queueVars, stateVars, unitVars, writerVars, readerVars, dbVars
<1>25. CASE DbUp
  BY <1>25, ParamsAssumption DEF DbUp, queueVars, stateVars, unitVars, writerVars, readerVars, dbVars
<1>26. CASE ProbeDue
  BY <1>26, ParamsAssumption DEF ProbeDue, queueVars, stateVars, unitVars, writerVars, readerVars, dbVars
<1>27. CASE UNCHANGED vars
  BY <1>27 DEF vars, queueVars, stateVars, unitVars, writerVars, readerVars, dbVars
<1> QED
  BY <1>1, <1>2, <1>3, <1>4, <1>5, <1>6, <1>7, <1>8, <1>9, <1>10, <1>11, <1>12, <1>13, <1>14, <1>15, <1>16, <1>17, <1>18, <1>19, <1>20, <1>21, <1>22, <1>23, <1>24, <1>25, <1>26, <1>27 DEF Next, WriterStep, ReaderStep

\* A signal takes a writer out of its sleep or leaves it alone
LEMMA SignalMoves ==
  ASSUME NEW f \in [Writer -> WriterPlace], NEW g \in SignalWork(f), NEW v \in Writer
  PROVE  g[v] = f[v] \/ (f[v] \in {"asleep", "timed"} /\ g[v] = "ready")
BY DEF SignalWork, Dormant

\* What a step does to a writer that is not its own: nothing but wake it
LEMMA OthersKeep ==
  ASSUME TypeOK, NEW v \in Writer, [Next]_vars, ~WriterStep(v)
  PROVE  /\ batch'[v] = batch[v] /\ batchSeq'[v] = batchSeq[v] /\ doneN'[v] = doneN[v]
         /\ wpc'[v] = wpc[v] \/ (wpc[v] \in {"asleep", "timed"} /\ wpc'[v] = "ready")
<1> USE DEF TypeOK, ValuesOK
<1> DEFINE Goal == /\ batch'[v] = batch[v] /\ batchSeq'[v] = batchSeq[v] /\ doneN'[v] = doneN[v]
                   /\ wpc'[v] = wpc[v] \/ (wpc[v] \in {"asleep", "timed"} /\ wpc'[v] = "ready")
<1>1. CASE UNCHANGED writerVars
  BY <1>1 DEF writerVars
<1>2. ASSUME NEW u \in Unit, Enqueue(u) PROVE Goal
  BY <1>2, SignalMoves DEF Enqueue
<1>3. CASE Stop
  BY <1>3 DEF Stop, BroadcastWork, Dormant
<1>4. CASE DbDown
  BY <1>4 DEF DbDown
<1>5. ASSUME NEW w \in Writer, w # v, WorkWait(w) \/ TimedWake(w) \/ WriterExit(w) PROVE Goal
  BY <1>5 DEF WorkWait, TimedWake, WriterExit
<1>6. ASSUME NEW w \in Writer, w # v, TakeBatch(w) PROVE Goal
  <2> DEFINE went == [wpc EXCEPT ![w] = "sending"]
  <2>1. PICK n \in 1..Len(queue) :
          /\ batch' = [batch EXCEPT ![w] = SubSeq(queue, 1, n)]
          /\ wpc' = went \/ wpc' \in SignalWork(went)
    BY <1>6 DEF TakeBatch
  <2>2. went \in [Writer -> WriterPlace] /\ went[v] = wpc[v]
    BY <1>6 DEF WriterPlace
  <2>3. batchSeq'[v] = batchSeq[v] /\ doneN'[v] = doneN[v] /\ batch'[v] = batch[v]
    BY <1>6, <2>1 DEF TakeBatch
  <2> HIDE DEF went
  <2>4. wpc'[v] = wpc[v] \/ (wpc[v] \in {"asleep", "timed"} /\ wpc'[v] = "ready")
    <3>1. CASE wpc' = went
      BY <3>1, <2>2
    <3>2. CASE wpc' \in SignalWork(went)
      <4>1. wpc'[v] = went[v] \/ (went[v] \in {"asleep", "timed"} /\ wpc'[v] = "ready")
        BY <3>2, <2>2, SignalMoves
      <4> QED BY <4>1, <2>2
    <3> QED BY <2>1, <3>1, <3>2
  <2> QED BY <2>3, <2>4
<1>7. ASSUME NEW w \in Writer, w # v, SendBatch(w) \/ BatchAnswer(w) \/ SendOne(w) \/ OneAnswer(w)
      PROVE  Goal
  BY <1>7 DEF SendBatch, BatchAnswer, SendOne, OneAnswer, Unreachable, SingleDone
<1>8. ASSUME NEW w \in Writer, w # v, FinishAll(w) \/ FinishBack(w) \/ FinishStopping(w) PROVE Goal
  <2>1. BatchOver(w)
    BY <1>8 DEF FinishAll, FinishBack, FinishStopping
  <2> QED BY <1>8, <2>1 DEF BatchOver, BroadcastWork, Dormant
<1>9. ASSUME NEW u \in Unit,
             SubmitRefused(u) \/ OwnWrite(u) \/ ImportTold(u) \/ AwaitRoom(u) \/ LoseAtCap(u)
               \/ ImportAnswered(u)
      PROVE  UNCHANGED writerVars
  BY <1>9 DEF SubmitRefused, OwnWrite, ImportTold, AwaitRoom, LoseAtCap, ImportAnswered
<1>10. ASSUME NEW r \in Reader, Barrier(r) \/ ReaderStep(r) PROVE UNCHANGED writerVars
  BY <1>10 DEF Barrier, ReaderStep, BarrierWoken, Read
<1>11. CASE StopJoin \/ DbUp \/ ProbeDue \/ UNCHANGED vars
  BY <1>11, <1>1 DEF StopJoin, DbUp, ProbeDue, vars, writerVars
<1>12. ASSUME NEW w \in Writer, w # v, WriterStep(w) PROVE Goal
  BY <1>5, <1>6, <1>7, <1>8, <1>12 DEF WriterStep
<1> QED BY <1>1, <1>2, <1>3, <1>4, <1>9, <1>10, <1>11, <1>12 DEF Next

\* A writer's own step
LEMMA BatchShapeOwn ==
  ASSUME TypeOK, TypeOK', BatchShape, NEW w \in Writer, WriterStep(w)
  PROVE  /\ doneN'[w] <= Len(batch'[w])
         /\ batch'[w] = <<>> <=> ~Busy(w)'
         /\ wpc'[w] \in {"sending", "answer"} => doneN'[w] = 0
         /\ wpc'[w] \in {"single", "answerOne"} => doneN'[w] < Len(batch'[w])
<1> DEFINE Goal == /\ doneN'[w] <= Len(batch'[w])
                   /\ batch'[w] = <<>> <=> ~Busy(w)'
                   /\ wpc'[w] \in {"sending", "answer"} => doneN'[w] = 0
                   /\ wpc'[w] \in {"single", "answerOne"} => doneN'[w] < Len(batch'[w])
<1> USE DEF TypeOK, ValuesOK, BatchShape, Busy
<1>1. CASE WorkWait(w) \/ TimedWake(w) \/ WriterExit(w)
  BY <1>1 DEF WorkWait, TimedWake, WriterExit
<1>2. CASE TakeBatch(w)
  <2> DEFINE went == [wpc EXCEPT ![w] = "sending"]
  <2>1. PICK n \in 1..Len(queue) :
          /\ batch' = [batch EXCEPT ![w] = SubSeq(queue, 1, n)]
          /\ wpc' = went \/ wpc' \in SignalWork(went)
    BY <1>2 DEF TakeBatch
  <2>2. went \in [Writer -> WriterPlace] /\ went[w] = "sending"
    BY DEF WriterPlace
  <2>3. batch'[w] = SubSeq(queue, 1, n) /\ batch'[w] \in Seq(Unit) /\ Len(batch'[w]) = n
    <3>1. n \in 0..Len(queue) /\ batch'[w] = SubSeq(queue, 1, n)
      BY <2>1
    <3>2. queue \in Seq(Unit)
      OBVIOUS
    <3> HIDE DEF TypeOK, ValuesOK, BatchShape, Busy, went
    <3> QED BY <3>1, <3>2, SplitSeq
  <2> HIDE DEF went
  <2>4. wpc'[w] = "sending"
    <3>1. CASE wpc' = went
      BY <3>1, <2>2
    <3>2. CASE wpc' \in SignalWork(went)
      BY <3>2, <2>2, SignalMoves
    <3> QED BY <2>1, <3>1, <3>2
  <2>5. doneN[w] = 0 /\ doneN'[w] = 0
    <3>1. wpc[w] = "ready" /\ doneN' = doneN
      BY <1>2 DEF TakeBatch
    <3>2. batch[w] = <<>> /\ Len(<<>>) = 0
      BY <3>1
    <3> QED BY <3>1, <3>2
  <2>6. n > 0 /\ Len(<<>>) = 0
    BY EmptySeq
  <2>7. batch'[w] # <<>>
    <3>1. Len(batch'[w]) # Len(<<>>)
      BY <2>3, <2>6
    <3> QED BY <3>1
  <2> HIDE DEF ValuesOK, TypeOK, BatchShape
  <2> QED BY <2>3, <2>4, <2>5, <2>6, <2>7
<1>3. CASE SendBatch(w)
  <2>1. batch' = batch /\ wpc[w] = "sending" /\ doneN[w] = 0 /\ batch[w] # <<>> /\ Len(batch[w]) \in Nat
    BY <1>3, LenProperties DEF SendBatch
  <2>2. \/ Unreachable(w)
        \/ wpc' = [wpc EXCEPT ![w] = "answer"] /\ doneN' = doneN
        \/ /\ wpc' = [wpc EXCEPT ![w] = IF Len(batch[w]) = 1 THEN "finish" ELSE "single"]
           /\ doneN' = [doneN EXCEPT ![w] = IF Len(batch[w]) = 1 THEN 1 ELSE 0]
    BY <1>3 DEF SendBatch
  <2>3. Len(batch[w]) > 0
    BY <2>1, EmptySeq
  <2>4. \/ wpc'[w] = "finish" /\ doneN'[w] = 0
        \/ wpc'[w] = "answer" /\ doneN'[w] = 0
        \/ wpc'[w] = "finish" /\ doneN'[w] = 1 /\ Len(batch[w]) = 1
        \/ wpc'[w] = "single" /\ doneN'[w] = 0
    BY <2>1, <2>2 DEF Unreachable
  <2>5. batch'[w] = batch[w]
    BY <2>1
  <2> HIDE DEF ValuesOK, TypeOK, BatchShape
  <2> QED BY <2>1, <2>3, <2>4, <2>5
<1>4. CASE BatchAnswer(w)
  <2>1. batch' = batch /\ wpc[w] = "answer" /\ doneN[w] = 0 /\ batch[w] # <<>> /\ Len(batch[w]) \in Nat
    BY <1>4, LenProperties DEF BatchAnswer
  <2>2. wpc'[w] = "finish" /\ (doneN'[w] = 0 \/ doneN'[w] = Len(batch[w])) /\ batch'[w] = batch[w]
    BY <1>4, <2>1 DEF BatchAnswer, Unreachable
  <2> HIDE DEF ValuesOK, TypeOK, BatchShape
  <2> QED BY <2>1, <2>2
<1>8. ASSUME SingleDone(w), batch' = batch, wpc[w] \in {"single", "answerOne"} PROVE Goal
  <2>1. doneN[w] \in Nat /\ Len(batch[w]) \in Nat /\ doneN[w] < Len(batch[w]) /\ batch'[w] # <<>>
    BY <1>8, LenProperties
  <2>2. doneN'[w] = doneN[w] + 1
    BY <1>8 DEF SingleDone
  <2>3. wpc'[w] = IF doneN[w] + 1 = Len(batch[w]) THEN "finish" ELSE "single"
    BY <1>8 DEF SingleDone
  <2>4. batch'[w] = batch[w]
    BY <1>8
  <2> HIDE DEF ValuesOK, TypeOK, BatchShape
  <2> QED BY <2>1, <2>2, <2>3, <2>4
<1>5. CASE SendOne(w)
  <2>1. /\ batch' = batch /\ wpc[w] = "single"
        /\ Unreachable(w) \/ SingleDone(w) \/ (wpc' = [wpc EXCEPT ![w] = "answerOne"] /\ doneN' = doneN)
    BY <1>5 DEF SendOne
  <2>2. CASE Unreachable(w)
    BY <2>1, <2>2 DEF Unreachable
  <2>3. CASE SingleDone(w)
    BY <2>1, <2>3, <1>8
  <2>4. CASE wpc' = [wpc EXCEPT ![w] = "answerOne"] /\ doneN' = doneN
    BY <2>1, <2>4
  <2> QED BY <2>1, <2>2, <2>3, <2>4
<1>6. CASE OneAnswer(w)
  <2>1. batch' = batch /\ wpc[w] = "answerOne" /\ (Unreachable(w) \/ SingleDone(w))
    BY <1>6 DEF OneAnswer
  <2>2. CASE Unreachable(w)
    BY <2>1, <2>2 DEF Unreachable
  <2>3. CASE SingleDone(w)
    BY <2>1, <2>3, <1>8
  <2> QED BY <2>1, <2>2, <2>3
<1>7. CASE FinishAll(w) \/ FinishBack(w) \/ FinishStopping(w)
  <2>1. BatchOver(w)
    BY <1>7 DEF FinishAll, FinishBack, FinishStopping
  <2>2. batch'[w] = <<>> /\ doneN'[w] = 0 /\ Len(<<>>) = 0
    BY <2>1 DEF BatchOver
  <2>3. wpc'[w] = "ready"
    BY <2>1 DEF BatchOver, BroadcastWork, Dormant
  <2> QED BY <2>2, <2>3
<1> QED BY <1>1, <1>2, <1>3, <1>4, <1>5, <1>6, <1>7 DEF WriterStep

\* Every step keeps the writers' batches and places in agreement
LEMMA BatchShapeStep == ASSUME TypeOK, TypeOK', BatchShape, [Next]_vars PROVE BatchShape'
<1> SUFFICES ASSUME NEW v \in Writer
             PROVE  /\ doneN'[v] <= Len(batch'[v])
                    /\ batch'[v] = <<>> <=> ~Busy(v)'
                    /\ wpc'[v] \in {"sending", "answer"} => doneN'[v] = 0
                    /\ wpc'[v] \in {"single", "answerOne"} => doneN'[v] < Len(batch'[v])
  BY DEF BatchShape
<1>1. CASE WriterStep(v)
  BY <1>1, BatchShapeOwn
<1>2. CASE ~WriterStep(v)
  BY <1>2, OthersKeep DEF BatchShape, Busy
<1> QED BY <1>1, <1>2

\* The stop is the only step that changes pool, and no writer comes back from its exit
LEMMA PoolStep ==
  ASSUME [Next]_vars
  PROVE  pool' = pool \/ (Running /\ pool' = "stopping") \/ StopJoin
BY DEF Next, SubmitRefused, OwnWrite, ImportTold, AwaitRoom, LoseAtCap, Enqueue, ImportAnswered,
       WriterStep, WorkWait, TimedWake, TakeBatch, WriterExit, SendBatch, BatchAnswer, SendOne,
       OneAnswer, FinishAll, FinishBack, FinishStopping, BatchOver, Barrier, ReaderStep, BarrierWoken,
       Read, Stop, StopJoin, DbDown, DbUp, ProbeDue, vars, stateVars

\* No step of another writer touches a writer's probe flag
LEMMA ProbeKeeps ==
  ASSUME TypeOK, NEW v \in Writer, [Next]_vars, ~WriterStep(v)
  PROVE  probe'[v] = probe[v]
<1> USE DEF TypeOK, FlagsOK
<1>1. ASSUME NEW w \in Writer, w # v, TakeBatch(w) PROVE probe'[v] = probe[v]
  BY <1>1 DEF TakeBatch
<1>2. ASSUME NEW w \in Writer, w # v, FinishAll(w) \/ FinishBack(w) \/ FinishStopping(w)
      PROVE  probe'[v] = probe[v]
  BY <1>2 DEF FinishAll, FinishBack, FinishStopping, BatchOver
<1>3. ASSUME NEW w \in Writer,
             WorkWait(w) \/ TimedWake(w) \/ WriterExit(w) \/ SendBatch(w) \/ BatchAnswer(w)
               \/ SendOne(w) \/ OneAnswer(w)
      PROVE  probe' = probe
  BY <1>3 DEF WorkWait, TimedWake, WriterExit, SendBatch, BatchAnswer, SendOne, OneAnswer
<1>4. ASSUME NEW u \in Unit,
             SubmitRefused(u) \/ OwnWrite(u) \/ ImportTold(u) \/ AwaitRoom(u) \/ LoseAtCap(u)
               \/ Enqueue(u) \/ ImportAnswered(u)
      PROVE  probe' = probe
  BY <1>4 DEF SubmitRefused, OwnWrite, ImportTold, AwaitRoom, LoseAtCap, Enqueue, ImportAnswered,
              writerVars
<1>5. ASSUME NEW r \in Reader, Barrier(r) \/ ReaderStep(r) PROVE probe' = probe
  BY <1>5 DEF Barrier, ReaderStep, BarrierWoken, Read, writerVars
<1>6. CASE Stop \/ StopJoin \/ DbDown \/ DbUp \/ ProbeDue \/ UNCHANGED vars
  BY <1>6 DEF Stop, StopJoin, DbDown, DbUp, ProbeDue, vars, writerVars
<1> QED BY <1>1, <1>2, <1>3, <1>4, <1>5, <1>6 DEF Next, WriterStep

\* A writer's own step keeps its probe flag within its batch, and its exit after the stop
LEMMA ProbeShapeOwn ==
  ASSUME TypeOK, TypeOK', ProbeShape, NEW w \in Writer, WriterStep(w)
  PROVE  /\ probe'[w] => Busy(w)'
         /\ wpc'[w] = "exited" => ~Running
         /\ pool' = pool /\ wpc[w] # "exited"
<1> DEFINE Goal == /\ probe'[w] => Busy(w)'
                   /\ wpc'[w] = "exited" => ~Running
                   /\ pool' = pool /\ wpc[w] # "exited"
<1>1. CASE WorkWait(w) \/ TimedWake(w) \/ WriterExit(w)
  BY <1>1 DEF WorkWait, TimedWake, WriterExit, TypeOK, ValuesOK, ProbeShape, Busy, stateVars
<1>2. CASE TakeBatch(w)
  <2> DEFINE went == [wpc EXCEPT ![w] = "sending"]
  <2>1. wpc' = went \/ wpc' \in SignalWork(went)
    BY <1>2 DEF TakeBatch
  <2>2. went \in [Writer -> WriterPlace] /\ went[w] = "sending"
    BY DEF WriterPlace, TypeOK, ValuesOK
  <2> HIDE DEF went
  <2>3. wpc'[w] = "sending"
    <3>1. CASE wpc' = went
      BY <3>1, <2>2
    <3>2. CASE wpc' \in SignalWork(went)
      BY <3>2, <2>2, SignalMoves
    <3> QED BY <2>1, <3>1, <3>2
  <2> QED BY <1>2, <2>3 DEF TakeBatch, Busy
<1>3. CASE SendBatch(w)
  BY <1>3 DEF SendBatch, Unreachable, TypeOK, ValuesOK, Busy, stateVars
<1>4. CASE BatchAnswer(w)
  BY <1>4 DEF BatchAnswer, Unreachable, TypeOK, ValuesOK, Busy, stateVars
<1>5. CASE SendOne(w)
  BY <1>5 DEF SendOne, Unreachable, SingleDone, TypeOK, ValuesOK, Busy, stateVars
<1>6. CASE OneAnswer(w)
  BY <1>6 DEF OneAnswer, Unreachable, SingleDone, TypeOK, ValuesOK, Busy, stateVars
<1>7. CASE FinishAll(w) \/ FinishBack(w) \/ FinishStopping(w)
  <2>1. BatchOver(w)
    BY <1>7 DEF FinishAll, FinishBack, FinishStopping
  <2>2. ~probe'[w]
    BY <2>1 DEF BatchOver, TypeOK, FlagsOK
  <2>3. wpc'[w] = "ready" /\ wpc[w] = "finish" /\ pool' = pool
    BY <2>1 DEF BatchOver, BroadcastWork, Dormant, TypeOK, ValuesOK
  <2> QED BY <2>2, <2>3
<1> QED BY <1>1, <1>2, <1>3, <1>4, <1>5, <1>6, <1>7 DEF WriterStep

\* Every step keeps ProbeShape: only a writer in a batch probes, only the stop lets one exit
LEMMA ProbeShapeStep == ASSUME TypeOK, TypeOK', ProbeShape, [Next]_vars PROVE ProbeShape'
<1>1. ASSUME NEW v \in Writer PROVE probe'[v] => Busy(v)'
  <2>1. CASE WriterStep(v)
    BY <2>1, ProbeShapeOwn
  <2>2. CASE ~WriterStep(v)
    BY <2>2, OthersKeep, ProbeKeeps DEF ProbeShape, Busy
  <2> QED BY <2>1, <2>2
<1>2. Running' => Running
  BY PoolStep DEF Running, StopJoin
<1>3. ASSUME NEW v \in Writer PROVE wpc'[v] = "exited" => ~Running'
  <2>1. CASE WriterStep(v)
    BY <2>1, <1>2, ProbeShapeOwn
  <2>2. CASE ~WriterStep(v)
    BY <2>2, <1>2, OthersKeep DEF ProbeShape
  <2> QED BY <2>1, <2>2
<1>4. ASSUME NEW v \in Writer, pool' = "freed" PROVE wpc'[v] = "exited"
  <2>1. CASE StopJoin
    BY <2>1 DEF StopJoin, writerVars
  <2>2. CASE ~StopJoin
    <3>1. pool = "freed"
      BY <1>4, <2>2, PoolStep
    <3>2. wpc[v] = "exited"
      BY <3>1 DEF ProbeShape
    <3> QED BY <3>2, OthersKeep, ProbeShapeOwn
  <2> QED BY <2>1, <2>2
<1> QED BY <1>1, <1>3, <1>4 DEF ProbeShape

-----------------------------------------------------------------------------
ShapeInv == TypeOK /\ BatchShape /\ ProbeShape

\* The writers' initial state has the shape
LEMMA ShapeInit == ASSUME Init PROVE ShapeInv
<1>1. FlagsOK
  BY DEF Init, FlagsOK
<1>2. ValuesOK
  BY EmptySeq DEF Init, ValuesOK, Outcome, SubmitterPlace, WriterPlace, ReaderPlace
<1>3. BatchShape
  BY EmptySeq DEF Init, BatchShape, Busy
<1>4. ProbeShape
  BY DEF Init, ProbeShape, Busy
<1> QED BY <1>1, <1>2, <1>3, <1>4 DEF ShapeInv, TypeOK

\* Every step keeps the shape
LEMMA ShapeStep == ASSUME EndsBack, ShapeInv, [Next]_vars PROVE ShapeInv'
<1>1. TypeOK'
  BY FlagsOKStep, ValuesOKStep DEF ShapeInv, TypeOK
<1> QED BY <1>1, BatchShapeStep, ProbeShapeStep DEF ShapeInv

-----------------------------------------------------------------------------
\* The steps that take a unit off the queue or end a batch are the only ones to touch the probe
LEMMA ProbeFrame ==
  ASSUME [Next]_vars
  PROVE  \/ UNCHANGED <<probing, probe>>
         \/ \E w \in Writer : TakeBatch(w) \/ BatchOver(w)
BY DEF Next, SubmitRefused, OwnWrite, ImportTold, AwaitRoom, LoseAtCap, Enqueue, ImportAnswered,
       WriterStep, WorkWait, TimedWake, WriterExit, SendBatch, BatchAnswer, SendOne,
       OneAnswer, FinishAll, FinishBack, FinishStopping, Barrier, ReaderStep, BarrierWoken,
       Read, Stop, StopJoin, DbDown, DbUp, ProbeDue, vars, stateVars, writerVars

\* Every step keeps the probe the one writer's
LEMMA ProbeAloneStep == ASSUME ShapeInv, ShapeInv', ProbeAlone, [Next]_vars PROVE ProbeAlone'
<1> SUFFICES ASSUME Running'
             PROVE  /\ probing' <=> \E w \in Writer : probe'[w]
                    /\ \A v, w \in Writer : probe'[v] /\ probe'[w] => v = w
  BY DEF ProbeAlone
<1>1. /\ Running
      /\ probing <=> \E w \in Writer : probe[w]
      /\ \A v, w \in Writer : probe[v] /\ probe[w] => v = w
  BY PoolStep DEF Running, StopJoin, ProbeAlone
<1>2. CASE UNCHANGED <<probing, probe>>
  BY <1>1, <1>2
<1>3. ASSUME NEW w \in Writer, TakeBatch(w)
      PROVE  /\ probing' <=> \E v \in Writer : probe'[v]
             /\ \A v, x \in Writer : probe'[v] /\ probe'[x] => v = x
  <2>1. ~probe[w]
    BY <1>3 DEF TakeBatch, ShapeInv, ProbeShape, Busy
  <2>2. down => ~probing
    BY <1>1, <1>3 DEF TakeBatch, MayTake
  <2>3. probing' <=> probing \/ down
    BY <1>3 DEF TakeBatch
  <2>4. \A v \in Writer : probe'[v] <=> IF v = w THEN down ELSE probe[v]
    BY <1>3 DEF TakeBatch, ShapeInv, TypeOK, FlagsOK
  <2> QED BY <1>1, <2>1, <2>2, <2>3, <2>4
<1>4. ASSUME NEW w \in Writer, BatchOver(w)
      PROVE  /\ probing' <=> \E v \in Writer : probe'[v]
             /\ \A v, x \in Writer : probe'[v] /\ probe'[x] => v = x
  <2>1. probing' <=> probing /\ ~probe[w]
    BY <1>4 DEF BatchOver
  <2>2. \A v \in Writer : probe'[v] <=> v # w /\ probe[v]
    BY <1>4 DEF BatchOver, ShapeInv, TypeOK, FlagsOK
  <2> QED BY <1>1, <2>1, <2>2
<1> QED BY <1>2, <1>3, <1>4, ProbeFrame

\* What a step leaves of an outage that nobody would end
LEMMA OutageFrame ==
  ASSUME [Next]_vars
  PROVE  \/ UNCHANGED <<queue, down, probing>>
         \/ ~down'
         \/ \E u \in Unit : Enqueue(u)
         \/ \E w \in Writer : TakeBatch(w) \/ FinishAll(w) \/ FinishBack(w) \/ FinishStopping(w)
BY DEF Next, SubmitRefused, OwnWrite, ImportTold, AwaitRoom, LoseAtCap, ImportAnswered,
       WriterStep, WorkWait, TimedWake, WriterExit, SendBatch, BatchAnswer, SendOne,
       OneAnswer, Barrier, ReaderStep, BarrierWoken,
       Read, Stop, StopJoin, DbDown, DbUp, ProbeDue, vars, queueVars, stateVars, writerVars

-----------------------------------------------------------------------------
InFlightOrQueued(u) == u \in Range(queue) \/ \E w \in Writer : u \in Range(batch[w])

Apart ==
  /\ IsInjective(queue)
  /\ \A w \in Writer :
       /\ IsInjective(batch[w])
       /\ Range(batch[w]) \cap Range(queue) = {}
       /\ \A v \in Writer \ {w} : Range(batch[w]) \cap Range(batch[v]) = {}

Placed == \A u \in Unit : Pending(u) <=> InFlightOrQueued(u)

\* UnitInOnePlace, with the places taken apart
LEMMA OnePlaceParts == UnitInOnePlace <=> Apart /\ Placed
<1>1. \A u \in Unit : InFlightOrQueued(u) <=> u \in Range(queue) \cup InFlight
  BY DEF InFlightOrQueued, InFlight
<1>2. Placed <=> \A u \in Unit : Pending(u) <=> u \in Range(queue) \cup InFlight
  BY <1>1 DEF Placed
<1> QED BY <1>2 DEF UnitInOnePlace, Apart

\* ... and in the next state
LEMMA OnePlacePartsNext == UnitInOnePlace' <=> Apart' /\ Placed'
BY DEF UnitInOnePlace, Apart, Placed, InFlightOrQueued, InFlight, Pending

\* What settles the units of s, t and g leaves the others as they were
LEMMA SettleFacts ==
  ASSUME NEW s, NEW t, NEW g, Settle(s, t, g), NEW u \in Unit
  PROVE  IF u \in s \cup t \cup g THEN outcome'[u] # "none" ELSE outcome'[u] = outcome[u]
<1>1. outcome'[u] = CASE u \in s -> (IF u \in Bad THEN "err" ELSE "ok")
                      [] u \in t -> "err"
                      [] u \in g -> "lost"
                      [] OTHER -> outcome[u]
  BY DEF Settle
<1>2. CASE u \in s
  BY <1>1, <1>2
<1>3. CASE u \notin s /\ u \in t
  BY <1>1, <1>3
<1>4. CASE u \notin s /\ u \notin t /\ u \in g
  BY <1>1, <1>4
<1>5. CASE u \notin s /\ u \notin t /\ u \notin g
  BY <1>1, <1>5
<1> QED BY <1>2, <1>3, <1>4, <1>5

\* The batch a writer ends is what it has an rc for and the rest
LEMMA BatchParts ==
  ASSUME ShapeInv, NEW w \in Writer
  PROVE  /\ Sent(w) \in SUBSET Unit /\ Unsent(w) \in Seq(Unit)
         /\ Range(batch[w]) = Sent(w) \cup Range(Unsent(w))
         /\ IsInjective(batch[w]) => IsInjective(Unsent(w)) /\ Sent(w) \cap Range(Unsent(w)) = {}
         /\ Unsent(w) = <<>> => Range(Unsent(w)) = {}
<1>1. batch[w] \in Seq(Unit) /\ doneN[w] \in 0..Len(batch[w])
  BY LenProperties DEF ShapeInv, TypeOK, ValuesOK, BatchShape
<1>2. Sent(w) \in SUBSET Unit /\ Unsent(w) \in Seq(Unit)
      /\ Range(batch[w]) = Sent(w) \cup Range(Unsent(w))
  BY <1>1, SplitSeq, SplitRange DEF Sent, Unsent
<1>3. ASSUME IsInjective(batch[w])
      PROVE  IsInjective(Unsent(w)) /\ Sent(w) \cap Range(Unsent(w)) = {}
  BY <1>1, <1>3, SplitInjective DEF Sent, Unsent
<1>4. ASSUME Unsent(w) = <<>> PROVE Range(Unsent(w)) = {}
  <2>1. Range(Unsent(w)) = {Unsent(w)[i] : i \in 1..Len(Unsent(w))} /\ Len(Unsent(w)) = 0
    BY <1>2, <1>4, RangeEquality, EmptySeq
  <2> QED BY <2>1
<1> QED BY <1>2, <1>3, <1>4

\* An empty batch holds nothing
LEMMA EmptyRange == Range(<<>>) = {} /\ IsInjective(<<>>)
<1>1. <<>> \in Seq({}) /\ Len(<<>>) = 0
  BY EmptySeq
<1>2. Range(<<>>) = {<<>>[i] : i \in 1..0} /\ DOMAIN <<>> = 1..0
  BY <1>1, RangeEquality, LenProperties
<1>3. 1..0 = {}
  OBVIOUS
<1> QED BY <1>2, <1>3 DEF IsInjective

\* The steps that move no unit and give none its outcome
LEMMA PlaceFrame ==
  ASSUME [Next]_vars
  PROVE  \/ UNCHANGED <<queue, batch, seqOf, outcome>>
         \/ \E u \in Unit : OwnWrite(u) \/ ImportTold(u) \/ LoseAtCap(u) \/ Enqueue(u)
         \/ \E w \in Writer : TakeBatch(w) \/ FinishAll(w) \/ FinishBack(w) \/ FinishStopping(w)
BY DEF Next, SubmitRefused, AwaitRoom, ImportAnswered, WriterStep, WorkWait, TimedWake, WriterExit,
       SendBatch, BatchAnswer, SendOne, OneAnswer, Barrier, ReaderStep, BarrierWoken,
       Read, Stop, StopJoin, DbDown, DbUp, ProbeDue, vars, queueVars, unitVars, writerVars

\* A unit its submitter still has is not queued, and has no outcome
LEMMA Unqueued ==
  ASSUME SubmitterShape, NEW u \in Unit,
         OwnWrite(u) \/ ImportTold(u) \/ LoseAtCap(u) \/ Enqueue(u)
  PROVE  seqOf[u] = 0 /\ outcome[u] = "none"
BY DEF SubmitterShape, OwnWrite, ImportTold, LoseAtCap, Enqueue, Submitting, MaySubmit

\* A unit its submitter settles was in no place, and is in none
LEMMA OnePlaceTurnedAway ==
  ASSUME ShapeInv, SubmitterShape, UnitInOnePlace, NEW u \in Unit,
         OwnWrite(u) \/ ImportTold(u) \/ LoseAtCap(u)
  PROVE  UnitInOnePlace'
<1>1. UNCHANGED <<queue, batch, seqOf>> /\ seqOf[u] = 0
  BY Unqueued DEF OwnWrite, ImportTold, LoseAtCap, queueVars, writerVars
<1>2. ASSUME NEW v \in Unit, v # u PROVE outcome'[v] = outcome[v]
  BY <1>2 DEF OwnWrite, ImportTold, LoseAtCap, ShapeInv, TypeOK, ValuesOK
<1>3. ASSUME NEW v \in Unit PROVE Pending(v)' <=> Pending(v)
  <2>1. CASE v = u
    BY <1>1, <2>1 DEF Pending
  <2>2. CASE v # u
    BY <1>1, <1>2, <2>2 DEF Pending
  <2> QED BY <2>1, <2>2
<1>4. Apart' /\ Placed'
  BY <1>1, <1>3, OnePlaceParts DEF Apart, Placed, InFlightOrQueued
<1> QED BY <1>4, OnePlacePartsNext

\* A unit queued was in no place, and is in the queue once
LEMMA OnePlaceEnqueue ==
  ASSUME ShapeInv, SubmitterShape, UnitInOnePlace, NEW u \in Unit, Enqueue(u)
  PROVE  UnitInOnePlace'
<1>1. /\ queue' = Append(queue, u) /\ batch' = batch /\ outcome' = outcome
      /\ seqOf' = [seqOf EXCEPT ![u] = seq + 1]
  BY DEF Enqueue
<1>2. seqOf[u] = 0 /\ outcome[u] = "none" /\ queue \in Seq(Unit) /\ seq \in Nat
      /\ seqOf \in [Unit -> Nat]
  BY Unqueued DEF ShapeInv, TypeOK, ValuesOK
<1>3. Apart /\ Placed
  BY OnePlaceParts
<1>4. ~Pending(u) /\ Pending(u)' /\ \A v \in Unit : v # u => (Pending(v)' <=> Pending(v))
  BY <1>1, <1>2 DEF Pending
<1>5. u \notin Range(queue) /\ \A w \in Writer : u \notin Range(batch[w])
  BY <1>3, <1>4 DEF Placed, InFlightOrQueued
<1>6. Range(queue') = Range(queue) \cup {u} /\ IsInjective(queue')
  BY <1>1, <1>2, <1>3, <1>5, AppendFacts DEF Apart
<1>7. Apart'
  BY <1>1, <1>3, <1>5, <1>6 DEF Apart
<1>8. Placed'
  BY <1>1, <1>3, <1>4, <1>6 DEF Placed, InFlightOrQueued
<1> QED BY <1>7, <1>8, OnePlacePartsNext

\* A batch taken leaves the queue and is in no other place
LEMMA OnePlaceTake ==
  ASSUME ShapeInv, UnitInOnePlace, NEW w \in Writer, TakeBatch(w)
  PROVE  UnitInOnePlace'
<1>1. Apart /\ Placed
  BY OnePlaceParts
<1>2. PICK n \in 1..Len(queue) :
        /\ batch' = [batch EXCEPT ![w] = SubSeq(queue, 1, n)]
        /\ queue' = SubSeq(queue, n + 1, Len(queue))
  BY DEF TakeBatch
<1>3. n \in 0..Len(queue) /\ queue \in Seq(Unit) /\ batch \in [Writer -> Seq(Unit)]
  BY DEF ShapeInv, TypeOK, ValuesOK
<1>4. batch[w] = <<>> /\ Range(batch[w]) = {}
  BY EmptyRange DEF TakeBatch, ShapeInv, BatchShape, Busy
<1>5. batch'[w] = SubSeq(queue, 1, n) /\ \A v \in Writer : v # w => batch'[v] = batch[v]
  BY <1>2, <1>3
<1>6. Range(queue) = Range(batch'[w]) \cup Range(queue')
  BY <1>2, <1>3, <1>5, SplitRange
<1>7. IsInjective(batch'[w]) /\ IsInjective(queue') /\ Range(batch'[w]) \cap Range(queue') = {}
  BY <1>1, <1>2, <1>3, <1>5, SplitInjective DEF Apart
<1>8. \A u \in Unit : Pending(u)' <=> Pending(u)
  BY DEF TakeBatch, Pending
<1>9. Apart'
  <2>1. ASSUME NEW v \in Writer PROVE IsInjective(batch'[v]) /\ Range(batch'[v]) \cap Range(queue') = {}
    BY <1>1, <1>5, <1>6, <1>7 DEF Apart
  <2>2. ASSUME NEW v \in Writer, NEW x \in Writer \ {v}
        PROVE  Range(batch'[v]) \cap Range(batch'[x]) = {}
    <3>1. CASE v = w
      BY <1>1, <1>5, <1>6, <3>1 DEF Apart
    <3>2. CASE x = w
      BY <1>1, <1>5, <1>6, <3>2 DEF Apart
    <3>3. CASE v # w /\ x # w
      BY <1>1, <1>5, <3>3 DEF Apart
    <3> QED BY <3>1, <3>2, <3>3
  <2> QED BY <1>7, <2>1, <2>2 DEF Apart
<1>10. Placed'
  BY <1>1, <1>4, <1>5, <1>6, <1>8 DEF Placed, InFlightOrQueued
<1> QED BY <1>9, <1>10, OnePlacePartsNext

\* What every end of a batch leaves of the places: the others' batches
LEMMA BatchOverPlaces ==
  ASSUME ShapeInv, NEW w \in Writer, BatchOver(w)
  PROVE  batch'[w] = <<>> /\ Range(batch'[w]) = {} /\ IsInjective(batch'[w])
         /\ seqOf' = seqOf /\ \A v \in Writer : v # w => batch'[v] = batch[v]
BY EmptyRange DEF BatchOver, ShapeInv, TypeOK, ValuesOK

\* At the end of a batch what is settled is nowhere, and what is put back is in the queue once
LEMMA OnePlaceFinish ==
  ASSUME EndsBack, ShapeInv, UnitInOnePlace, NEW w \in Writer,
         FinishAll(w) \/ FinishBack(w) \/ FinishStopping(w)
  PROVE  UnitInOnePlace'
<1>1. Apart /\ Placed /\ BatchOver(w)
  BY OnePlaceParts DEF FinishAll, FinishBack, FinishStopping
<1>2. batch'[w] = <<>> /\ Range(batch'[w]) = {} /\ IsInjective(batch'[w])
      /\ seqOf' = seqOf /\ \A v \in Writer : v # w => batch'[v] = batch[v]
  BY <1>1, BatchOverPlaces
<1>3. /\ Sent(w) \in SUBSET Unit /\ Unsent(w) \in Seq(Unit) /\ queue \in Seq(Unit)
      /\ Range(batch[w]) = Sent(w) \cup Range(Unsent(w))
      /\ IsInjective(Unsent(w)) /\ Sent(w) \cap Range(Unsent(w)) = {}
  BY <1>1, BatchParts DEF Apart, ShapeInv, TypeOK, ValuesOK
<1>4. ASSUME NEW t, NEW g, Settle(Sent(w), t, g), NEW u \in Unit
      PROVE  Pending(u)' <=> Pending(u) /\ u \notin Sent(w) \cup t \cup g
  BY <1>2, <1>4, SettleFacts DEF Pending
<1>5. CASE FinishAll(w)
  <2>1. queue' = queue /\ Settle(Sent(w), {}, {}) /\ Range(Unsent(w)) = {}
    BY <1>5, BatchParts DEF FinishAll
  <2>2. Apart'
    BY <1>1, <1>2, <2>1 DEF Apart
  <2>3. Placed'
    <3>1. \A u \in Unit : Pending(u)' <=> Pending(u) /\ u \notin Sent(w)
      BY <1>4, <2>1
    <3>2. Range(batch[w]) = Sent(w)
      BY <1>3, <2>1
    <3> SUFFICES ASSUME NEW u \in Unit PROVE Pending(u)' <=> InFlightOrQueued(u)'
      BY DEF Placed
    <3>3. Pending(u) <=> u \in Range(queue) \/ u \in Sent(w) \/ \E v \in Writer \ {w} : u \in Range(batch[v])
      BY <1>1, <3>2 DEF Placed, InFlightOrQueued
    <3>4. InFlightOrQueued(u)' <=> u \in Range(queue) \/ \E v \in Writer \ {w} : u \in Range(batch[v])
      BY <1>2, <2>1 DEF InFlightOrQueued
    <3>5. u \in Sent(w) => u \notin Range(queue) /\ \A v \in Writer \ {w} : u \notin Range(batch[v])
      BY <1>1, <3>2 DEF Apart
    <3> QED BY <3>1, <3>3, <3>4, <3>5
  <2> QED BY <2>2, <2>3, OnePlacePartsNext
<1>6. CASE PutBack(w)
  <2>1. queue' = Unsent(w) \o queue /\ Settle(Sent(w), {}, {})
    BY <1>6 DEF PutBack
  <2>2. Range(queue') = Range(Unsent(w)) \cup Range(queue)
    BY <1>3, <2>1, RangeConcatenation
  <2>3. Range(Unsent(w)) \cap Range(queue) = {}
    BY <1>1, <1>3 DEF Apart
  <2>4. IsInjective(queue')
    BY <1>1, <1>3, <2>1, <2>3, ConcatInjective DEF Apart
  <2>5. Apart'
    BY <1>1, <1>2, <1>3, <2>2, <2>4 DEF Apart
  <2>6. Placed'
    BY <1>1, <1>2, <1>3, <1>4, <2>1, <2>2 DEF Placed, InFlightOrQueued, Apart
  <2> QED BY <2>5, <2>6, OnePlacePartsNext
<1>7. CASE FinishStopping(w)
  <2>1. queue' = <<>> /\ Settle(Sent(w), {}, Range(Unsent(w)) \cup Range(queue))
    BY <1>7 DEF FinishStopping
  <2>2. Range(queue') = {} /\ IsInjective(queue')
    BY <2>1, EmptyRange
  <2>3. Apart'
    BY <1>1, <1>2, <2>2 DEF Apart
  <2>4. \A u \in Unit : Pending(u)' <=> Pending(u) /\ u \notin Range(batch[w]) \cup Range(queue)
    BY <1>3, <1>4, <2>1
  <2>5. Placed'
    BY <1>1, <1>2, <2>2, <2>4 DEF Placed, InFlightOrQueued, Apart
  <2> QED BY <2>3, <2>5, OnePlacePartsNext
<1>8. ASSUME NEW v \in Import, TellImport(w, v) PROVE UnitInOnePlace'
  <2>1. queue' = queue /\ Settle(Sent(w), {v}, {}) /\ Range(batch[w]) = {v} /\ Sent(w) = {}
    BY <1>3, <1>8 DEF TellImport
  <2>2. Apart'
    BY <1>1, <1>2, <2>1 DEF Apart
  <2>3. \A u \in Unit : Pending(u)' <=> Pending(u) /\ u # v
    BY <1>4, <2>1
  <2>4. Placed'
    BY <1>1, <1>2, <2>1, <2>3 DEF Placed, InFlightOrQueued, Apart
  <2> QED BY <2>2, <2>4, OnePlacePartsNext
<1> QED BY <1>5, <1>6, <1>7, <1>8 DEF EndsBack

\* Every step keeps each pending unit in one place
LEMMA OnePlaceStep ==
  ASSUME EndsBack, ShapeInv, SubmitterShape, UnitInOnePlace, [Next]_vars
  PROVE  UnitInOnePlace'
<1>1. CASE UNCHANGED <<queue, batch, seqOf, outcome>>
  BY <1>1 DEF UnitInOnePlace, InFlight, Pending
<1> QED BY <1>1, PlaceFrame, OnePlaceTurnedAway, OnePlaceEnqueue, OnePlaceTake, OnePlaceFinish

\* An outcome, once there, stays
LEMMA OutcomeKept ==
  ASSUME EndsBack, ShapeInv, SubmitterShape, UnitInOnePlace, [Next]_vars,
         NEW u \in Unit, outcome'[u] # outcome[u]
  PROVE  /\ outcome[u] = "none"
         /\ seqOf[u] > 0 \/ OwnWrite(u) \/ ImportTold(u) \/ LoseAtCap(u)
<1>1. Apart /\ Placed
  BY OnePlaceParts
<1>2. ASSUME NEW v \in Unit, OwnWrite(v) \/ ImportTold(v) \/ LoseAtCap(v)
      PROVE  v = u /\ outcome[u] = "none"
  <2>1. v = u
    BY <1>2 DEF OwnWrite, ImportTold, LoseAtCap, ShapeInv, TypeOK, ValuesOK
  <2> QED BY <1>2, <2>1, Unqueued
<1>3. ASSUME NEW w \in Writer, FinishAll(w) \/ FinishBack(w) \/ FinishStopping(w)
      PROVE  Pending(u)
  <2> DEFINE Unsettled == Range(Unsent(w)) \cup Range(queue)
  <2>1. \E t, g \in SUBSET Unsettled : Settle(Sent(w), t, g)
    <3>1. CASE FinishAll(w)
      BY <3>1 DEF FinishAll
    <3>2. CASE PutBack(w)
      BY <3>2 DEF PutBack
    <3>3. ASSUME NEW v \in Import, TellImport(w, v) PROVE \E t, g \in SUBSET Unsettled : Settle(Sent(w), t, g)
      BY <3>3 DEF TellImport
    <3>4. CASE FinishStopping(w)
      BY <3>4 DEF FinishStopping
    <3> QED BY <1>3, <3>1, <3>2, <3>3, <3>4 DEF EndsBack
  <2> HIDE DEF Unsettled
  <2>2. PICK t, g \in SUBSET Unsettled : Settle(Sent(w), t, g)
    BY <2>1
  <2>4. u \in Sent(w) \cup Unsettled
    BY <2>2, SettleFacts
  <2>3. u \in Range(batch[w]) \cup Range(queue)
    BY <2>4, BatchParts DEF Unsettled
  <2> QED BY <1>1, <2>3 DEF Placed, InFlightOrQueued
<1>4. ASSUME NEW w \in Writer, TakeBatch(w) PROVE outcome' = outcome
  BY <1>4 DEF TakeBatch
<1>5. ASSUME NEW v \in Unit, Enqueue(v) PROVE outcome' = outcome
  BY <1>5 DEF Enqueue
<1> QED BY <1>2, <1>3, <1>4, <1>5, PlaceFrame DEF Pending

\* No other step changes a seq
LEMMA SeqFrame ==
  ASSUME [Next]_vars
  PROVE  (\E u \in Unit : Enqueue(u)) \/ UNCHANGED <<seqOf, seq>>
BY ZenonT(60) DEF Next, SubmitRefused, OwnWrite, ImportTold, AwaitRoom, LoseAtCap, ImportAnswered,
       WriterStep, WorkWait, TimedWake, TakeBatch, WriterExit, SendBatch, BatchAnswer, SendOne,
       OneAnswer, FinishAll, FinishBack, FinishStopping, BatchOver, Barrier, ReaderStep,
       BarrierWoken, Read, Stop, StopJoin, DbDown, DbUp, ProbeDue, vars, queueVars

\* Every step keeps a unit that is not queued without seq and outcome
LEMMA SubmitterShapeStep ==
  ASSUME EndsBack, ShapeInv, SubmitterShape, UnitInOnePlace, [Next]_vars
  PROVE  SubmitterShape'
<1> DEFINE Early == {"new", "own", "noRoom", "room"}
<1> SUFFICES ASSUME NEW u \in Unit
             PROVE  /\ submitter'[u] \in Early => seqOf'[u] = 0 /\ outcome'[u] = "none"
                    /\ seqOf'[u] <= seq'
  BY DEF SubmitterShape
<1>1. /\ seqOf[u] <= seq /\ seqOf[u] \in Nat /\ seq \in Nat
      /\ submitter[u] \in Early => seqOf[u] = 0 /\ outcome[u] = "none"
  BY DEF SubmitterShape, ShapeInv, TypeOK, ValuesOK
<1>2. ASSUME NEW v \in Unit, Enqueue(v)
      PROVE  /\ submitter'[u] \in Early => seqOf'[u] = 0 /\ outcome'[u] = "none"
             /\ seqOf'[u] <= seq'
  <2>1. /\ seq' = seq + 1 /\ seqOf' = [seqOf EXCEPT ![v] = seq + 1] /\ outcome' = outcome
        /\ submitter' = [submitter EXCEPT ![v] = IF v \in Import THEN "waiting" ELSE "answered"]
        /\ seqOf \in [Unit -> Nat] /\ submitter \in [Unit -> SubmitterPlace]
    BY <1>2 DEF Enqueue, ShapeInv, TypeOK, ValuesOK
  <2>2. CASE v = u
    BY <1>1, <2>1, <2>2
  <2>3. CASE v # u
    <3>1. submitter'[u] = submitter[u] /\ seqOf'[u] = seqOf[u] /\ outcome'[u] = outcome[u]
      BY <2>1, <2>3
    <3> QED BY <1>1, <2>1, <3>1
  <2> QED BY <2>2, <2>3
<1>3. (\E v \in Unit : Enqueue(v)) \/ UNCHANGED <<seqOf, seq>>
  BY SeqFrame
<1>4. ASSUME UNCHANGED <<seqOf, seq>>, submitter'[u] \in Early PROVE submitter[u] \in Early
  <2>1. CASE submitter' = submitter
    BY <1>4, <2>1
  <2>2. ASSUME NEW v \in Unit, SubmitRefused(v) \/ AwaitRoom(v) PROVE submitter[u] \in Early
    BY <1>4, <2>2 DEF SubmitRefused, AwaitRoom, MaySubmit, Submitting, ShapeInv, TypeOK, ValuesOK
  <2>3. ASSUME NEW v \in Unit, OwnWrite(v) \/ ImportTold(v) \/ LoseAtCap(v) \/ ImportAnswered(v)
                                 \/ Enqueue(v)
        PROVE  submitter[u] \in Early
    BY <1>4, <2>3 DEF OwnWrite, ImportTold, LoseAtCap, ImportAnswered, Enqueue, ShapeInv, TypeOK, ValuesOK
  <2>4. CASE submitter' = BroadcastRoom
    BY <1>4, <2>4 DEF BroadcastRoom
  <2>5. \/ submitter' = submitter \/ submitter' = BroadcastRoom
        \/ \E v \in Unit : SubmitRefused(v) \/ AwaitRoom(v) \/ OwnWrite(v) \/ ImportTold(v)
                          \/ LoseAtCap(v) \/ ImportAnswered(v) \/ Enqueue(v)
    BY DEF Next, WriterStep, WorkWait, TimedWake, TakeBatch, WriterExit, SendBatch, BatchAnswer,
           SendOne, OneAnswer, FinishAll, FinishBack, FinishStopping, Barrier, ReaderStep,
           BarrierWoken, Read, Stop, StopJoin, DbDown, DbUp, ProbeDue, vars, unitVars
  <2> QED BY <2>1, <2>2, <2>3, <2>4, <2>5
<1>5. ASSUME OwnWrite(u) \/ ImportTold(u) \/ LoseAtCap(u) PROVE submitter'[u] \notin Early
  BY <1>5 DEF OwnWrite, ImportTold, LoseAtCap, ShapeInv, TypeOK, ValuesOK
<1>6. ASSUME UNCHANGED <<seqOf, seq>>, submitter'[u] \in Early
      PROVE  seqOf'[u] = 0 /\ outcome'[u] = "none"
  <2>1. seqOf[u] = 0 /\ outcome[u] = "none"
    BY <1>1, <1>4, <1>6
  <2>2. outcome'[u] = outcome[u]
    BY <1>5, <1>6, <2>1, OutcomeKept
  <2> QED BY <1>6, <2>1, <2>2
<1> QED BY <1>1, <1>2, <1>3, <1>6

-----------------------------------------------------------------------------
(* An import: one unit at a time *)

\* Who moves a submitter
LEMMA SubmitterFrame ==
  ASSUME [Next]_vars
  PROVE  \/ UNCHANGED submitter
         \/ submitter' = BroadcastRoom
         \/ \E u \in Unit : SubmitRefused(u) \/ OwnWrite(u) \/ ImportTold(u) \/ AwaitRoom(u)
                            \/ LoseAtCap(u) \/ Enqueue(u) \/ ImportAnswered(u)
BY ZenonT(60) DEF Next, WriterStep, WorkWait, TimedWake, TakeBatch, WriterExit, SendBatch, BatchAnswer, SendOne,
       OneAnswer, FinishAll, FinishBack, FinishStopping, Barrier, ReaderStep, BarrierWoken, Read,
       Stop, StopJoin, DbDown, DbUp, ProbeDue, vars, unitVars

\* What a thread that hands over a unit does with it: a new one, or one that it has not finished with,
\* goes on
LEMMA ActorMoves ==
  ASSUME TypeOK, NEW v \in Unit,
         \/ SubmitRefused(v) \/ OwnWrite(v) \/ ImportTold(v) \/ AwaitRoom(v)
         \/ LoseAtCap(v) \/ Enqueue(v) \/ ImportAnswered(v)
  PROVE  /\ MaySubmit(v) \/ OnTheWay(v)
         /\ submitter'[v] # "new"
         /\ \A u \in Unit : u # v => submitter'[u] = submitter[u]
<1>1. submitter \in [Unit -> SubmitterPlace]
  BY DEF TypeOK, ValuesOK
<1>2. MaySubmit(v) \/ OnTheWay(v)
  BY DEF SubmitRefused, OwnWrite, ImportTold, AwaitRoom, LoseAtCap, Enqueue, ImportAnswered, Submitting, OnTheWay
<1>3. \E x \in {"own", "noRoom", "waiting", "answered"} : submitter' = [submitter EXCEPT ![v] = x]
  BY DEF SubmitRefused, OwnWrite, ImportTold, AwaitRoom, LoseAtCap, Enqueue, ImportAnswered
<1> QED BY <1>1, <1>2, <1>3

\* A unit that waits for its outcome waits until it has it
LEMMA WaitsOn ==
  ASSUME NEW u \in Unit, submitter[u] = "waiting", outcome[u] = "none"
  PROVE  /\ ~SubmitRefused(u) /\ ~OwnWrite(u) /\ ~ImportTold(u) /\ ~AwaitRoom(u)
         /\ ~LoseAtCap(u) /\ ~Enqueue(u) /\ ~ImportAnswered(u)
BY DEF SubmitRefused, OwnWrite, ImportTold, AwaitRoom, LoseAtCap, Enqueue, ImportAnswered, Submitting, MaySubmit

\* The broadcast on roomCond finishes with no unit
LEMMA BroadcastMoves ==
  ASSUME NEW u \in Unit
  PROVE  /\ BroadcastRoom[u] = "new" <=> submitter[u] = "new"
         /\ BroadcastRoom[u] \notin {"new", "answered"} <=> OnTheWay(u)
         /\ submitter[u] = "waiting" => BroadcastRoom[u] = "waiting"
BY DEF BroadcastRoom, OnTheWay

\* A unit handed over is never new again
LEMMA SubmitterStays ==
  ASSUME ShapeInv, [Next]_vars, NEW u \in Unit, submitter'[u] = "new" PROVE submitter[u] = "new"
<1>1. CASE submitter' = BroadcastRoom
  BY <1>1, BroadcastMoves
<1>2. ASSUME NEW v \in Unit,
             \/ SubmitRefused(v) \/ OwnWrite(v) \/ ImportTold(v) \/ AwaitRoom(v)
             \/ LoseAtCap(v) \/ Enqueue(v) \/ ImportAnswered(v)
      PROVE  submitter[u] = "new"
  <2>1. v # u /\ submitter'[u] = submitter[u]
    BY <1>2, ActorMoves DEF ShapeInv
  <2> QED BY <2>1
<1> QED BY <1>1, <1>2, SubmitterFrame

\* Every step keeps the import's units one at a time
LEMMA ImportShapeStep ==
  ASSUME EndsBack, ShapeInv, SubmitterShape, UnitInOnePlace, ImportShape, [Next]_vars PROVE ImportShape'
<1> DEFINE Moves(v) == \/ SubmitRefused(v) \/ OwnWrite(v) \/ ImportTold(v) \/ AwaitRoom(v)
                       \/ LoseAtCap(v) \/ Enqueue(v) \/ ImportAnswered(v)
           On(u)    == submitter'[u] \notin {"new", "answered"}
<1>1. Import \subseteq Unit
  BY ParamsAssumption
<1>2. submitter' = submitter \/ submitter' = BroadcastRoom \/ \E v \in Unit : Moves(v)
  BY SubmitterFrame
<1>3. ASSUME NEW v \in Unit, Moves(v)
      PROVE  /\ MaySubmit(v) \/ OnTheWay(v)
             /\ submitter'[v] # "new"
             /\ \A u \in Unit : u # v => submitter'[u] = submitter[u]
  BY <1>3, ActorMoves DEF ShapeInv
<1>4. ASSUME NEW u \in Unit, Pending(u)', ~Enqueue(u), u \in Import PROVE submitter'[u] = "waiting"
  <2>1. seqOf'[u] = seqOf[u]
    <3>1. ASSUME NEW v \in Unit, Enqueue(v) PROVE seqOf'[u] = seqOf[u]
      <4>1. seqOf' = [seqOf EXCEPT ![v] = seq + 1] /\ seqOf \in [Unit -> Nat] /\ u # v
        BY <1>4, <3>1 DEF Enqueue, ShapeInv, TypeOK, ValuesOK
      <4> QED BY <4>1
    <3> QED BY <3>1, SeqFrame
  <2>2. outcome[u] = "none"
    BY <1>4, OutcomeKept DEF Pending
  <2>3. submitter[u] = "waiting"
    BY <1>4, <2>1, <2>2 DEF Pending, ImportShape
  <2>4. ~Moves(u)
    BY <2>2, <2>3, WaitsOn
  <2> HIDE DEF Moves
  <2> QED BY <1>2, <1>3, <2>3, <2>4, BroadcastMoves
<1>5. ASSUME NEW u \in Unit, Enqueue(u), u \in Import PROVE submitter'[u] = "waiting"
  BY <1>5 DEF Enqueue, ShapeInv, TypeOK, ValuesOK
<1> HIDE DEF Moves
<1>6. ASSUME NEW u \in Unit, NEW v \in Unit, submitter'[u] # "new", submitter'[v] # "new"
      PROVE  u \in Import <=> v \in Import
  <2>1. CASE submitter' = submitter \/ submitter' = BroadcastRoom
    <3>1. submitter[u] # "new" /\ submitter[v] # "new"
      BY <1>6, <2>1, BroadcastMoves
    <3> QED BY <3>1 DEF ImportShape
  <2>2. ASSUME NEW x \in Unit, Moves(x) PROVE u \in Import <=> v \in Import
    <3>1. \A y \in Unit : submitter[y] # "new" => (y \in Import <=> x \in Import)
      BY <1>3, <2>2 DEF MaySubmit, OnTheWay, ImportShape
    <3>2. \A y \in {u, v} : y = x \/ submitter[y] # "new"
      BY <1>3, <1>6, <2>2
    <3> QED BY <3>1, <3>2
  <2> QED BY <1>2, <2>1, <2>2
<1>7. ASSUME NEW u \in Import, NEW v \in Import, On(u), On(v) PROVE u = v
  <2>1. CASE submitter' = submitter \/ submitter' = BroadcastRoom
    <3>1. OnTheWay(u) /\ OnTheWay(v)
      BY <1>1, <1>7, <2>1, BroadcastMoves DEF OnTheWay
    <3> QED BY <3>1 DEF ImportShape
  <2>2. ASSUME NEW x \in Unit, Moves(x) PROVE u = v
    <3>1. \A y \in {u, v} : y = x \/ OnTheWay(y)
      BY <1>1, <1>3, <1>7, <2>2 DEF OnTheWay
    <3>2. CASE OnTheWay(x)
      BY <3>1, <3>2 DEF ImportShape
    <3>3. CASE MaySubmit(x) /\ x \in Import
      <4>1. ~OnTheWay(u) /\ ~OnTheWay(v)
        BY <3>3 DEF MaySubmit, OnTheWay
      <4> QED BY <3>1, <4>1
    <3>4. CASE x \notin Import
      <4>1. u # x /\ v # x
        BY <3>4
      <4> QED BY <3>1, <4>1 DEF ImportShape
    <3> QED BY <1>3, <2>2, <3>2, <3>3, <3>4
  <2> QED BY <1>2, <2>1, <2>2
<1>8. ImportShape' <=>
        /\ \A u, v \in Unit : submitter'[u] # "new" /\ submitter'[v] # "new" => (u \in Import <=> v \in Import)
        /\ \A u, v \in Import : On(u) /\ On(v) => u = v
        /\ \A u \in Import : Pending(u)' => submitter'[u] = "waiting"
  BY DEF ImportShape, OnTheWay
<1> QED BY <1>1, <1>4, <1>5, <1>6, <1>7, <1>8

-----------------------------------------------------------------------------
PlaceInv == ShapeInv /\ SubmitterShape /\ UnitInOnePlace /\ ImportShape

\* waitersRelease leaves nothing of a sequence whose units are all told
LEMMA NothingLeft ==
  ASSUME NEW s, NEW S, \A n \in 1..Len(s) : s[n] \in S PROVE Without(s, S) = <<>>
<1> DEFINE kept == {n \in 1..Len(s) : s[n] \notin S}
           left == [k \in 1..Cardinality(kept) |-> s[CHOOSE n \in kept : Cardinality({m \in kept : m < n}) = k - 1]]
<1>1. kept = {}
  OBVIOUS
<1>2. Cardinality(kept) = 0
  BY <1>1, FS_EmptySet
<1>3. left = <<>>
  <2>1. 1..Cardinality(kept) = {}
    BY <1>2
  <2>2. left \in Seq({}) /\ Len(left) = 0
    <3>1. left \in [1..0 -> {}] /\ DOMAIN left = 1..0
      BY <1>2, <2>1
    <3> HIDE DEF left
    <3>2. left \in Seq({})
      BY <3>1, SeqDef
    <3>3. Len(left) \in Nat /\ DOMAIN left = 1..Len(left)
      BY <3>2, LenProperties
    <3> QED BY <3>1, <3>2, <3>3
  <2> QED BY <2>2, EmptySeq
<1> QED BY <1>3 DEF Without

\* An import told of an outage is told of all there is
LEMMA BackEither == ASSUME PlaceInv PROVE EndsBack
<1> SUFFICES ASSUME NEW w \in Writer, FinishBack(w)
             PROVE  PutBack(w) \/ \E u \in Import : TellImport(w, u)
  BY DEF EndsBack
<1> USE DEF PlaceInv
<1> DEFINE back == Unsent(w) \o queue
<1>1. PICK told \in {{}, Range(back) \cap Import} :
        /\ queue' = IF told = {} THEN back ELSE Without(back, told)
        /\ queuedBytes' = queuedBytes + BytesOf(Range(Unsent(w))) - BytesOf(told)
        /\ queuedN' = queuedN + Len(Unsent(w)) - Cardinality(told)
        /\ heldBytes' = heldBytes - BytesOf(Sent(w)) - BytesOf(told)
        /\ Settle(Sent(w), told, {})
  BY DEF FinishBack
<1>2. BatchOver(w) /\ Unsent(w) # <<>> /\ Running /\ UNCHANGED lostRows
  BY DEF FinishBack
<1>3. CASE told = {}
  BY <1>1, <1>2, <1>3 DEF PutBack
<1>4. ASSUME told # {} PROVE \E u \in Import : TellImport(w, u)
  <2>1. /\ Sent(w) \in SUBSET Unit /\ Unsent(w) \in Seq(Unit) /\ queue \in Seq(Unit)
        /\ Range(batch[w]) = Sent(w) \cup Range(Unsent(w))
        /\ IsInjective(Unsent(w)) /\ Sent(w) \cap Range(Unsent(w)) = {}
        /\ Range(batch[w]) \cap Range(queue) = {}
        /\ Range(Unsent(w)) \in SUBSET Unit /\ Range(queue) \in SUBSET Unit
    BY BatchParts, RangeOfSeq DEF UnitInOnePlace, ShapeInv, TypeOK, ValuesOK
  <2>2. Range(back) = Range(Unsent(w)) \cup Range(queue)
    BY <2>1, RangeConcatenation
  <2>3. PICK u \in Import : u \in Range(back)
    BY <1>1, <1>4
  <2>4. ASSUME NEW x \in Range(batch[w]) \cup Range(queue) PROVE Pending(x) /\ submitter[x] # "new" /\ x \in Unit
    <3>1. Pending(x) /\ x \in Unit
      BY <2>1 DEF UnitInOnePlace, InFlight
    <3>2. seqOf[x] # 0
      BY <3>1 DEF Pending
    <3> QED BY <3>1, <3>2 DEF SubmitterShape
  <2>5. u \in Range(batch[w]) \cup Range(queue)
    BY <2>1, <2>2, <2>3
  <2>6. ASSUME NEW x \in Range(batch[w]) \cup Range(queue) PROVE x = u
    <3>1. x \in Import
      BY <2>4, <2>5 DEF ImportShape
    <3>2. submitter[x] = "waiting" /\ submitter[u] = "waiting"
      BY <2>4, <2>5, <3>1 DEF ImportShape
    <3> QED BY <3>1, <3>2 DEF ImportShape, OnTheWay
  <2>7. submitter[u] = "waiting"
    BY <2>4, <2>5 DEF ImportShape
  <2>8. Len(Unsent(w)) \in Nat \ {0} /\ \A i \in 1..Len(Unsent(w)) : Unsent(w)[i] = u
    <3>1. Len(Unsent(w)) \in Nat \ {0}
      BY <1>2, <2>1, EmptySeq
    <3>2. \A i \in 1..Len(Unsent(w)) : Unsent(w)[i] \in Range(Unsent(w))
      BY <2>1, RangeEquality
    <3> QED BY <2>1, <2>6, <3>1, <3>2
  <2>9. Range(Unsent(w)) = {u} /\ Sent(w) = {} /\ Range(queue) = {}
    <3>1. Unsent(w)[1] = u /\ Unsent(w)[1] \in Range(Unsent(w))
      BY <2>1, <2>8, RangeEquality
    <3> QED BY <2>1, <2>6, <3>1
  <2>10. Len(Unsent(w)) = 1
    <3> DEFINE n == Len(Unsent(w))
    <3>1. DOMAIN Unsent(w) = 1..n /\ n \in Nat \ {0}
      BY <2>1, <2>8, LenProperties
    <3>2. Unsent(w)[1] = Unsent(w)[n]
      BY <2>8
    <3>3. 1 \in 1..n /\ n \in 1..n
      BY <3>1
    <3>4. \A i, j \in DOMAIN Unsent(w) : Unsent(w)[i] = Unsent(w)[j] => i = j
      BY <2>1 DEF IsInjective
    <3> QED BY <3>1, <3>2, <3>3, <3>4
  <2>11. queue = <<>>
    <3>1. \A i \in 1..Len(queue) : queue[i] \in Range(queue)
      BY <2>1, RangeEquality
    <3>2. queue # <<>> => Len(queue) \in Nat \ {0}
      BY <2>1, EmptySeq
    <3>3. queue # <<>> => 1 \in 1..Len(queue)
      BY <3>2
    <3> QED BY <2>9, <3>1, <3>3
  <2>12. back = Unsent(w)
    BY <2>1, <2>11, ConcatEmptySeq
  <2>13. told = {u}
    BY <1>1, <1>4, <2>2, <2>9
  <2>14. queue' = <<>>
    <3>1. \A i \in 1..Len(Unsent(w)) : Unsent(w)[i] \in told
      BY <2>8, <2>13
    <3>2. queue' = Without(Unsent(w), told)
      BY <1>1, <1>4, <2>12
    <3> QED BY <3>1, <3>2, NothingLeft
  <2>15. Cardinality(told) = 1
    BY <2>13, FS_Singleton
  <2>16. TellImport(w, u)
    BY <1>1, <1>2, <2>7, <2>9, <2>10, <2>11, <2>13, <2>14, <2>15 DEF TellImport
  <2> QED BY <2>16
<1> QED BY <1>3, <1>4

\* The initial state: no unit anywhere
LEMMA PlaceInit == ASSUME Init PROVE PlaceInv
<1>1. SubmitterShape
  BY DEF Init, SubmitterShape
<1>2. UnitInOnePlace
  BY EmptyRange DEF Init, UnitInOnePlace, InFlight, Pending
<1>3. ImportShape
  BY ParamsAssumption DEF Init, ImportShape, Pending, OnTheWay
<1> QED BY <1>1, <1>2, <1>3, ShapeInit DEF PlaceInv

\* Every step keeps PlaceInv
LEMMA PlaceStep == ASSUME PlaceInv, [Next]_vars PROVE PlaceInv'
BY BackEither, ShapeStep, SubmitterShapeStep, OnePlaceStep, ImportShapeStep DEF PlaceInv

\* The inductive invariant of the units' places: the shape, what a submitter still has, one place,
\* and of an import one unit at a time
THEOREM PlaceInvariant == Spec => []PlaceInv
<1>1. PlaceInv /\ [Next]_vars => PlaceInv'
  BY PlaceStep
<1> QED BY <1>1, PlaceInit, PTL DEF Spec

\* In every broker and every import, whatever the units, writers, readers, caps and outages: the types, the agreement
\* of a writer's place with its batch, and that only a writer in a batch probes (writerMain's locals)
THEOREM ShapeInvariant == Spec => []ShapeInv
<1>1. PlaceInv => ShapeInv
  BY DEF PlaceInv
<1> QED BY <1>1, PlaceInvariant, PTL

\* The type invariant of the writers
THEOREM TypeCorrect == Spec => []TypeOK
<1>1. ShapeInv => TypeOK
  BY DEF ShapeInv
<1> QED BY <1>1, ShapeInvariant, PTL

\* With the database down one writer tries it and the others hold back, until the stop
THEOREM ProbesAlone == Spec => []ProbeAlone
<1>1. ASSUME Init PROVE ProbeAlone
  BY <1>1 DEF Init, ProbeAlone
<1>2. ShapeInv /\ ShapeInv' /\ ProbeAlone /\ [Next]_vars => ProbeAlone'
  BY ProbeAloneStep
<1> QED BY <1>1, <1>2, ShapeInvariant, PTL DEF Spec

\* Every step keeps somebody to end the outage
LEMMA AlwaysProbedStep ==
  ASSUME PlaceInv, PlaceInv', AlwaysProbed, [Next]_vars PROVE AlwaysProbed'
<1> USE DEF PlaceInv
<1> SUFFICES ASSUME Running', down', \A u \in Import : submitter'[u] = "new"
             PROVE  queue' # <<>> \/ probing'
  BY DEF AlwaysProbed
<1>9. \A u \in Import : submitter[u] = "new"
  BY SubmitterStays, ParamsAssumption DEF ShapeInv
<1>1. Running /\ (down => queue # <<>> \/ probing)
  BY <1>9, PoolStep DEF Running, StopJoin, AlwaysProbed
<1>2. CASE UNCHANGED <<queue, down, probing>>
  BY <1>1, <1>2
<1>3. ASSUME NEW u \in Unit, Enqueue(u) PROVE queue' # <<>>
  <2>1. queue' = Append(queue, u) /\ queue \in Seq(Unit)
    BY <1>3 DEF Enqueue, ShapeInv, TypeOK, ValuesOK
  <2> QED BY <2>1, AppendProperties
<1>4. ASSUME NEW w \in Writer, TakeBatch(w) PROVE probing'
  <2>1. (probing' <=> probing \/ down) /\ (down' <=> down)
    BY <1>4 DEF TakeBatch
  <2> QED BY <2>1
<1>5. ASSUME NEW w \in Writer, BatchOver(w) PROVE doneN[w] <= Len(batch[w]) /\ batch[w] # <<>>
  BY <1>5 DEF BatchOver, ShapeInv, BatchShape, Busy
<1>6. ASSUME NEW w \in Writer, FinishAll(w) PROVE queue' # <<>> \/ probing'
  <2>1. BatchOver(w) /\ Unsent(w) = <<>> /\ queue' = queue /\ (down' <=> down /\ ~FoundUp(w))
        /\ (probing' <=> probing /\ ~probe[w])
    BY <1>6 DEF FinishAll, BatchOver
  <2>2. doneN[w] > 0
    <3>1. batch[w] \in Seq(Unit) /\ doneN[w] \in Nat /\ doneN[w] <= Len(batch[w]) /\ batch[w] # <<>>
      BY <1>5, <2>1 DEF ShapeInv, TypeOK, ValuesOK
    <3>2. Len(Unsent(w)) = Len(batch[w]) - doneN[w]
      <4>1. doneN[w] \in 0..Len(batch[w])
        BY <3>1, LenProperties
      <4> QED BY <3>1, <4>1, SplitSeq DEF Unsent
    <3>3. Len(Unsent(w)) = 0
      BY <2>1, EmptySeq
    <3>4. Len(batch[w]) \in Nat \ {0}
      BY <3>1, EmptySeq
    <3> QED BY <3>1, <3>2, <3>3, <3>4
  <2>3. ~probe[w]
    BY <2>1, <2>2 DEF FoundUp
  <2> QED BY <1>1, <2>1, <2>3
<1>7. ASSUME NEW w \in Writer, FinishBack(w) PROVE queue' # <<>>
  <2>1. BatchOver(w) /\ Unsent(w) # <<>> /\ queue' = Unsent(w) \o queue
    <3>1. ASSUME NEW u \in Import, TellImport(w, u) PROVE FALSE
      BY <1>9, <3>1 DEF TellImport
    <3> QED BY <1>7, <3>1, BackEither DEF EndsBack, PutBack
  <2>2. Unsent(w) \in Seq(Unit) /\ queue \in Seq(Unit)
    BY <2>1, BatchOverValues DEF ShapeInv, TypeOK, ValuesOK
  <2> QED BY <2>1, <2>2, ConcatEqualIffEmpty
<1>8. ASSUME NEW w \in Writer, FinishStopping(w) PROVE FALSE
  BY <1>1, <1>8 DEF FinishStopping
<1> QED BY <1>2, <1>3, <1>4, <1>6, <1>7, <1>8, OutageFrame

\* An outage of a broker has somebody to end it: a unit to try, or a try in flight; that of an import
\* may wait for its next unit
THEOREM OutageProbed == Spec => []AlwaysProbed
<1>1. ASSUME Init PROVE AlwaysProbed
  BY <1>1 DEF Init, AlwaysProbed
<1>2. PlaceInv /\ PlaceInv' /\ AlwaysProbed /\ [Next]_vars => AlwaysProbed'
  BY AlwaysProbedStep
<1> QED BY <1>1, <1>2, PlaceInvariant, PTL DEF Spec

\* A unit that has no outcome is in the queue or in one writer's batch, once, and one
\* that has is in neither: the relinking of the queue by takes, put-backs and waitersRelease never
\* loses a unit and never frees one that is still linked
THEOREM OnePlace == Spec => []UnitInOnePlace
<1>1. PlaceInv => UnitInOnePlace
  BY DEF PlaceInv
<1> QED BY <1>1, PlaceInvariant, PTL

\* unitDone comes to a unit once: no later batch, release or stop changes its outcome
THEOREM DoneOnce == Spec => UnitDoneOnce
<1>1. PlaceInv /\ [Next]_vars => \A u \in Unit : outcome[u] # "none" => outcome'[u] = outcome[u]
  BY BackEither, OutcomeKept DEF PlaceInv
<1> QED BY <1>1, PlaceInvariant, PTL DEF Spec, UnitDoneOnce

-----------------------------------------------------------------------------
\* The unit a seq was given to last is no unit of the queue or of a batch
LEMMA EnqueueSeqs ==
  ASSUME PlaceInv, NEW u \in Unit, Enqueue(u)
  PROVE  /\ seq' = seq + 1 /\ seqOf'[u] = seq + 1 /\ \A v \in Unit : v # u => seqOf'[v] = seqOf[v]
         /\ u \notin Range(queue) /\ \A w \in Writer : u \notin Range(batch[w])
<1>1. seqOf[u] = 0
  BY Unqueued DEF PlaceInv
<1>2. ~InFlightOrQueued(u)
  BY <1>1, OnePlaceParts DEF PlaceInv, Placed, Pending
<1> QED BY <1>2 DEF Enqueue, InFlightOrQueued, PlaceInv, ShapeInv, TypeOK, ValuesOK

\* A unit that is somewhere keeps its seq
LEMMA SeqKept ==
  ASSUME PlaceInv, [Next]_vars, NEW u \in Unit, InFlightOrQueued(u)
  PROVE  seqOf'[u] = seqOf[u]
<1>1. ASSUME NEW v \in Unit, Enqueue(v) PROVE v # u
  BY <1>1, EnqueueSeqs DEF InFlightOrQueued
<1> QED BY <1>1, SeqFrame, EnqueueSeqs

\* recordedSeq past t, and nothing past t ahead of what is up to t: no unit up to t is left
LEMMA RecordedMeans ==
  ASSUME PlaceInv, BatchFirst, NEW t \in Nat, Recorded(t), UpToFirst(queue, t),
         \A w \in Writer : UpToFirst(batch[w], t), NEW u \in Unit, Pending(u)
  PROVE  seqOf[u] > t
<1> USE DEF PlaceInv, ShapeInv, TypeOK, ValuesOK
<1>1. CASE u \in Range(queue)
  <2>1. PICK i \in 1..Len(queue) : u = queue[i]
    BY <1>1, RangeEquality
  <2>2. queue # <<>> /\ 1 \in 1..Len(queue) /\ Head(queue) = queue[1] /\ queue[1] \in Unit
    <3>1. Len(queue) \in Nat /\ Len(queue) > 0
      BY <2>1, LenProperties
    <3>2. queue # <<>>
      BY <3>1, EmptySeq
    <3> QED BY <3>1, <3>2, ElementOfSeq
  <2>3. seqOf[queue[1]] \in Nat /\ seqOf[u] \in Nat /\ seqOf[queue[1]] > t
    BY <2>2 DEF Recorded
  <2>4. i = 1 \/ ~(seqOf[queue[i]] <= t)
    BY <2>1, <2>2, <2>3 DEF UpToFirst
  <2> QED BY <2>1, <2>3, <2>4
<1>2. ASSUME NEW w \in Writer, u \in Range(batch[w]) PROVE seqOf[u] > t
  <2> DEFINE b == batch[w]
  <2>0. b \in Seq(Unit)
    OBVIOUS
  <2>1. PICK i \in 1..Len(b) : u = b[i]
    BY <1>2, <2>0, RangeEquality
  <2>2. b # <<>> /\ 1 \in 1..Len(b) /\ b[1] \in Unit
    <3>1. Len(b) \in Nat /\ Len(b) > 0
      BY <2>0, <2>1, LenProperties
    <3>2. b # <<>>
      BY <3>1, EmptySeq
    <3> QED BY <2>0, <3>1, <3>2, ElementOfSeq
  <2>3. b[1] \in Range(b)
    BY <2>0, <2>2, RangeEquality
  <2>4. seqOf[b[1]] > 0
    BY <2>2, <2>3, OnePlaceParts DEF Placed, InFlightOrQueued, Pending
  <2>5. batchSeq[w] = seqOf[b[1]]
    BY <2>2 DEF BatchFirst
  <2>6. seqOf[b[1]] \in Nat /\ seqOf[u] \in Nat /\ seqOf[b[1]] > t
    <3>1. batchSeq[w] # 0 => batchSeq[w] - 1 >= t
      BY DEF Recorded
    <3>2. seqOf[b[1]] \in Nat /\ seqOf[u] \in Nat
      BY <2>2
    <3> QED BY <2>4, <2>5, <3>1, <3>2
  <2>7. UpToFirst(b, t)
    OBVIOUS
  <2> HIDE DEF b
  <2>8. i = 1 \/ ~(seqOf[b[i]] <= t)
    BY <2>1, <2>2, <2>6, <2>7 DEF UpToFirst
  <2> QED BY <2>1, <2>6, <2>8
<1> QED BY <1>1, <1>2, OnePlaceParts DEF Placed, InFlightOrQueued

\* A cut of a sequence keeps its order
LEMMA SplitUpToFirst ==
  ASSUME NEW s \in Seq(Unit), NEW n \in 0..Len(s), NEW t \in Nat, UpToFirst(s, t)
  PROVE  UpToFirst(SubSeq(s, 1, n), t) /\ UpToFirst(SubSeq(s, n + 1, Len(s)), t)
<1> DEFINE p == SubSeq(s, 1, n)
           q == SubSeq(s, n + 1, Len(s))
<1>1. /\ p \in Seq(Unit) /\ Len(p) = n /\ \A i \in 1..n : p[i] = s[i]
      /\ q \in Seq(Unit) /\ Len(q) = Len(s) - n /\ \A i \in 1..(Len(s) - n) : q[i] = s[n + i]
  BY SplitSeq
<1>2. Len(s) \in Nat
  BY LenProperties
<1> HIDE DEF p, q
<1>3. UpToFirst(p, t)
  <2> SUFFICES ASSUME NEW i \in 1..n, NEW j \in 1..n, i < j, seqOf[p[j]] <= t
               PROVE  seqOf[p[i]] <= t
    BY <1>1 DEF UpToFirst
  <2>1. i \in 1..Len(s) /\ j \in 1..Len(s) /\ p[i] = s[i] /\ p[j] = s[j]
    BY <1>1, <1>2
  <2> QED BY <2>1 DEF UpToFirst
<1>4. UpToFirst(q, t)
  <2> SUFFICES ASSUME NEW i \in 1..(Len(s) - n), NEW j \in 1..(Len(s) - n), i < j, seqOf[q[j]] <= t
               PROVE  seqOf[q[i]] <= t
    BY <1>1 DEF UpToFirst
  <2>1. n + i \in 1..Len(s) /\ n + j \in 1..Len(s) /\ n + i < n + j
        /\ q[i] = s[n + i] /\ q[j] = s[n + j]
    BY <1>1, <1>2
  <2> QED BY <2>1 DEF UpToFirst
<1> QED BY <1>3, <1>4 DEF p, q

\* The order of a sequence of units that have their seqs stays
LEMMA UpToFirstKept ==
  ASSUME PlaceInv, [Next]_vars, NEW s \in Seq(Unit), NEW t \in Nat, UpToFirst(s, t),
         \A u \in Range(s) : InFlightOrQueued(u)
  PROVE  \A i, j \in 1..Len(s) : i < j /\ seqOf'[s[j]] <= t => seqOf'[s[i]] <= t
<1>1. ASSUME NEW i \in 1..Len(s) PROVE seqOf'[s[i]] = seqOf[s[i]]
  <2>1. s[i] \in Unit /\ s[i] \in Range(s)
    BY ElementOfSeq, RangeEquality
  <2> QED BY <2>1, SeqKept
<1> QED BY <1>1 DEF UpToFirst

BatchesOrdered(t) == \A w \in Writer : UpToFirst(batch[w], t)

\* Which steps put units in another order
LEMMA OrderFrame ==
  ASSUME [Next]_vars
  PROVE  \/ UNCHANGED <<queue, batch, down>>
         \/ UNCHANGED <<queue, batch>> /\ ~down'
         \/ \E u \in Unit : Enqueue(u)
         \/ \E w \in Writer : TakeBatch(w) \/ FinishAll(w) \/ FinishBack(w) \/ FinishStopping(w)
BY DEF Next, SubmitRefused, OwnWrite, ImportTold, AwaitRoom, LoseAtCap, ImportAnswered,
       WriterStep, WorkWait, TimedWake, WriterExit, SendBatch, BatchAnswer, SendOne,
       OneAnswer, Barrier, ReaderStep, BarrierWoken,
       Read, Stop, StopJoin, DbDown, DbUp, ProbeDue, vars, queueVars, stateVars, writerVars

\* An empty batch is in order
LEMMA EmptyUpToFirst == ASSUME NEW t \in Nat PROVE UpToFirst(<<>>, t)' /\ UpToFirst(<<>>, t)
BY EmptySeq DEF UpToFirst

\* With the database not down, and nothing put back, the order stays
LEMMA OrderKept ==
  ASSUME PlaceInv, PlaceInv', [Next]_vars, NEW t \in Nat, t <= seq, ~down,
         UpToFirst(queue, t), BatchesOrdered(t), \A w \in Writer : ~FinishBack(w)
  PROVE  ~down' /\ UpToFirst(queue, t)' /\ BatchesOrdered(t)'
<1> USE DEF PlaceInv, ShapeInv, TypeOK, ValuesOK
<1>1. ASSUME NEW i \in 1..Len(queue), NEW j \in 1..Len(queue), i < j, seqOf'[queue[j]] <= t
      PROVE  seqOf'[queue[i]] <= t
  BY <1>1, UpToFirstKept DEF InFlightOrQueued
<1>2. ASSUME NEW w \in Writer,
             NEW i \in 1..Len(batch[w]), NEW j \in 1..Len(batch[w]), i < j, seqOf'[batch[w][j]] <= t
      PROVE  seqOf'[batch[w][i]] <= t
  <2>1. batch[w] \in Seq(Unit) /\ UpToFirst(batch[w], t)
    BY DEF BatchesOrdered
  <2> QED BY <1>2, <2>1, UpToFirstKept DEF InFlightOrQueued
<1>3. CASE queue' = queue /\ batch' = batch /\ ~down'
  BY <1>1, <1>2, <1>3 DEF UpToFirst, BatchesOrdered
<1>4. ASSUME NEW u \in Unit, Enqueue(u) PROVE ~down' /\ UpToFirst(queue, t)' /\ BatchesOrdered(t)'
  <2>1. ~down' /\ batch' = batch /\ queue' = Append(queue, u)
    BY <1>4 DEF Enqueue, stateVars
  <2>2. Len(queue') = Len(queue) + 1 /\ Len(queue) \in Nat
        /\ (\A i \in 1..Len(queue) : queue'[i] = queue[i]) /\ queue'[Len(queue) + 1] = u
    BY <2>1, AppendProperties, LenProperties
  <2>3. seqOf'[u] > t
    <3>1. seqOf'[u] = seq + 1
      BY <1>4, EnqueueSeqs
    <3> QED BY <3>1
  <2>4. ASSUME NEW i \in 1..Len(queue'), NEW j \in 1..Len(queue'), i < j, seqOf'[queue'[j]] <= t
        PROVE  seqOf'[queue'[i]] <= t
    <3>1. seqOf'[u] \in Nat
      OBVIOUS
    <3>2. i \in 1..(Len(queue) + 1) /\ j \in 1..(Len(queue) + 1) /\ Len(queue) \in Nat
      BY <2>2, <2>4
    <3>3. i \in 1..Len(queue) /\ j \in 1..Len(queue)
      <4> HIDE DEF PlaceInv, ShapeInv, TypeOK, ValuesOK
      <4>1. j # Len(queue) + 1
        BY <2>2, <2>3, <2>4, <3>1
      <4> QED BY <2>4, <3>2, <4>1
    <3> QED BY <1>1, <2>2, <2>4, <3>3
  <2>5. UpToFirst(queue, t)'
    BY <2>4 DEF UpToFirst
  <2>6. BatchesOrdered(t)'
    BY <1>2, <2>1 DEF UpToFirst, BatchesOrdered
  <2> QED BY <2>1, <2>5, <2>6
<1>5. ASSUME NEW w \in Writer, TakeBatch(w)
      PROVE  ~down' /\ UpToFirst(queue, t)' /\ BatchesOrdered(t)'
  <2>1. PICK n \in 1..Len(queue) :
          /\ batch' = [batch EXCEPT ![w] = SubSeq(queue, 1, n)]
          /\ queue' = SubSeq(queue, n + 1, Len(queue))
    BY <1>5 DEF TakeBatch
  <2>2. ~down' /\ seqOf' = seqOf
    BY <1>5 DEF TakeBatch
  <2>3. n \in 0..Len(queue)
    OBVIOUS
  <2>4. UpToFirst(SubSeq(queue, 1, n), t) /\ UpToFirst(SubSeq(queue, n + 1, Len(queue)), t)
    BY <2>3, SplitUpToFirst
  <2>5. UpToFirst(queue, t)'
    BY <2>1, <2>2, <2>4 DEF UpToFirst
  <2>6. ASSUME NEW v \in Writer PROVE UpToFirst(batch[v], t)'
    <3>1. CASE v = w
      <4>1. batch'[v] = SubSeq(queue, 1, n)
        BY <2>1, <3>1
      <4> QED BY <2>2, <2>4, <4>1 DEF UpToFirst
    <3>2. CASE v # w
      <4>1. batch'[v] = batch[v]
        BY <2>1, <3>2
      <4> QED BY <2>2, <4>1 DEF UpToFirst, BatchesOrdered
    <3> QED BY <3>1, <3>2
  <2> QED BY <2>2, <2>5, <2>6 DEF BatchesOrdered
<1>6. ASSUME NEW w \in Writer, FinishAll(w) \/ FinishStopping(w)
      PROVE  ~down' /\ UpToFirst(queue, t)' /\ BatchesOrdered(t)'
  <2>1. BatchOver(w) /\ ~down' /\ (queue' = queue \/ queue' = <<>>)
    BY <1>6 DEF FinishAll, FinishStopping
  <2>2. batch'[w] = <<>> /\ seqOf' = seqOf /\ \A v \in Writer : v # w => batch'[v] = batch[v]
    BY <2>1, BatchOverPlaces
  <2>3. UpToFirst(queue, t)'
    <3>1. CASE queue' = queue
      BY <2>2, <3>1 DEF UpToFirst
    <3>2. CASE queue' = <<>>
      BY <2>2, <3>2, EmptySeq DEF UpToFirst
    <3> QED BY <2>1, <3>1, <3>2
  <2>4. ASSUME NEW v \in Writer PROVE UpToFirst(batch[v], t)'
    <3>1. CASE v = w
      BY <2>2, <3>1, EmptySeq DEF UpToFirst
    <3>2. CASE v # w
      BY <2>2, <3>2 DEF UpToFirst, BatchesOrdered
    <3> QED BY <3>1, <3>2
  <2> QED BY <2>1, <2>3, <2>4 DEF BatchesOrdered
<1> QED BY <1>3, <1>4, <1>5, <1>6, OrderFrame

\* Every step keeps batchSeq the seq of the first unit of the batch
LEMMA BatchFirstStep == ASSUME PlaceInv, PlaceInv', BatchFirst, [Next]_vars PROVE BatchFirst'
<1> USE DEF PlaceInv, ShapeInv, TypeOK, ValuesOK
<1> SUFFICES ASSUME NEW v \in Writer
             PROVE  batchSeq'[v] = IF batch'[v] = <<>> THEN 0 ELSE seqOf'[batch'[v][1]]
  BY DEF BatchFirst
<1>1. CASE batch'[v] = batch[v] /\ batchSeq'[v] = batchSeq[v]
  <2>1. CASE batch[v] = <<>>
    BY <1>1, <2>1 DEF BatchFirst
  <2>2. CASE batch[v] # <<>>
    <3>1. batch[v] \in Seq(Unit) /\ 1 \in 1..Len(batch[v])
      BY <2>2, EmptySeq
    <3>2. batch[v][1] \in Unit /\ batch[v][1] \in Range(batch[v])
      <4>1. Range(batch[v]) = {batch[v][i] : i \in 1..Len(batch[v])}
        BY <3>1, RangeEquality, SMTT(30)
      <4> QED BY <3>1, <4>1, ElementOfSeq
    <3>3. seqOf'[batch[v][1]] = seqOf[batch[v][1]]
      BY <3>2, SeqKept DEF InFlightOrQueued
    <3> QED BY <1>1, <2>2, <3>3 DEF BatchFirst
  <2> QED BY <2>1, <2>2
<1>2. CASE TakeBatch(v)
  <2>1. PICK n \in 1..Len(queue) : batch' = [batch EXCEPT ![v] = SubSeq(queue, 1, n)]
    BY <1>2 DEF TakeBatch
  <2>2. n \in 0..Len(queue) /\ 1 \in 1..n /\ batch'[v] = SubSeq(queue, 1, n)
    BY <2>1
  <2>3. Len(batch'[v]) = n /\ batch'[v][1] = queue[1]
    BY <2>2, SplitSeq
  <2>4. Len(batch'[v]) # Len(<<>>)
    BY <2>2, <2>3, EmptySeq
  <2>5. batch'[v] # <<>>
    BY <2>4
  <2>6. batchSeq'[v] = seqOf[queue[1]] /\ seqOf' = seqOf
    BY <1>2 DEF TakeBatch
  <2> QED BY <2>3, <2>5, <2>6
<1>3. CASE BatchOver(v)
  BY <1>3 DEF BatchOver
<1>4. CASE WriterStep(v) /\ ~TakeBatch(v) /\ ~BatchOver(v)
  <2>1. batch' = batch /\ batchSeq' = batchSeq
    BY <1>4 DEF WriterStep, WorkWait, TimedWake, WriterExit, SendBatch, BatchAnswer, SendOne,
                OneAnswer, FinishAll, FinishBack, FinishStopping
  <2> QED BY <1>1, <2>1
<1>5. CASE ~WriterStep(v)
  BY <1>1, <1>5, OthersKeep
<1> QED BY <1>2, <1>3, <1>4, <1>5

-----------------------------------------------------------------------------
\* What a step does to a reader that is not its own: nothing but wake it, and end its calm
LEMMA ReaderFrame ==
  ASSUME TypeOK, [Next]_vars, NEW r \in Reader
  PROVE  \/ Barrier(r) \/ BarrierWoken(r) \/ Read(r)
         \/ /\ target'[r] = target[r] /\ (calm'[r] => calm[r])
            /\ rpc'[r] = rpc[r] \/ (rpc[r] = "asleep" /\ rpc'[r] = "awake")
<1> DEFINE Kept == /\ target'[r] = target[r] /\ (calm'[r] => calm[r])
                   /\ rpc'[r] = rpc[r] \/ (rpc[r] = "asleep" /\ rpc'[r] = "awake")
<1>1. CASE UNCHANGED readerVars
  BY <1>1 DEF readerVars
<1>2. ASSUME NEW w \in Writer, FinishAll(w) \/ FinishBack(w) \/ FinishStopping(w) PROVE Kept
  <2>1. target' = target /\ rpc' = BroadcastDone
    BY <1>2 DEF FinishAll, FinishBack, FinishStopping, BatchOver
  <2>2. calm'[r] => calm[r]
    BY <1>2 DEF FinishAll, FinishBack, FinishStopping
  <2> QED BY <2>1, <2>2 DEF BroadcastDone
<1>3. ASSUME NEW q \in Reader, q # r, Barrier(q) PROVE Kept
  BY <1>3 DEF Barrier, BarrierLook, TypeOK, ValuesOK, FlagsOK
<1>4. ASSUME NEW q \in Reader, q # r, BarrierWoken(q) \/ Read(q) PROVE Kept
  BY <1>4 DEF BarrierWoken, Read, BarrierLook, TypeOK, ValuesOK
<1>5. \/ UNCHANGED readerVars
      \/ \E w \in Writer : FinishAll(w) \/ FinishBack(w) \/ FinishStopping(w)
      \/ \E q \in Reader : Barrier(q) \/ BarrierWoken(q) \/ Read(q)
  BY DEF Next, SubmitRefused, OwnWrite, ImportTold, AwaitRoom, LoseAtCap, Enqueue, ImportAnswered,
         WriterStep, WorkWait, TimedWake, TakeBatch, WriterExit, SendBatch, BatchAnswer, SendOne,
         OneAnswer, ReaderStep, Stop, StopJoin, DbDown, DbUp, ProbeDue, vars
<1> QED BY <1>1, <1>2, <1>3, <1>4, <1>5

\* A reader's own steps move no unit
LEMMA ReaderSteps ==
  ASSUME NEW r \in Reader, Barrier(r) \/ BarrierWoken(r) \/ Read(r)
  PROVE  UNCHANGED <<queue, batch, batchSeq, seqOf, seq, down, outcome>>
BY DEF Barrier, BarrierWoken, Read, queueVars, stateVars, unitVars, writerVars

\* Up to the last seq everything is
LEMMA AllUpToSeq ==
  ASSUME PlaceInv, NEW s \in Seq(Unit)
  PROVE  UpToFirst(s, seq)
BY ElementOfSeq DEF UpToFirst, PlaceInv, SubmitterShape

BarrierOrderOf(r) ==
  /\ target[r] <= seq
  /\ rpc[r] \in {"asleep", "awake"} /\ calm[r] =>
       ~down /\ UpToFirst(queue, target[r]) /\ BatchesOrdered(target[r])

\* Every step keeps what a waiting barrier waits for ahead of what came later
LEMMA BarrierOrderStep ==
  ASSUME PlaceInv, PlaceInv', BarrierOrder, [Next]_vars PROVE BarrierOrder'
<1> SUFFICES ASSUME NEW r \in Reader PROVE BarrierOrderOf(r)'
  BY DEF BarrierOrder, BarrierOrderOf, BatchesOrdered
<1>1. BarrierOrderOf(r) /\ target[r] \in Nat /\ seq \in Nat /\ queue \in Seq(Unit)
      /\ batch \in [Writer -> Seq(Unit)]
  BY DEF BarrierOrder, BarrierOrderOf, BatchesOrdered, PlaceInv, ShapeInv, TypeOK, ValuesOK
<1>2. seq <= seq' /\ seq' \in Nat
  <2>1. CASE UNCHANGED <<seqOf, seq>>
    BY <1>1, <2>1
  <2>2. CASE \E u \in Unit : Enqueue(u)
    BY <1>1, <2>2 DEF Enqueue
  <2> QED BY <2>1, <2>2, SeqFrame
<1>3. CASE Barrier(r)
  <2>1. target'[r] = seq /\ (rpc'[r] \in {"asleep", "awake"} => ~down)
    BY <1>3 DEF Barrier, BarrierLook, PlaceInv, ShapeInv, TypeOK, ValuesOK
  <2>2. UpToFirst(queue, seq) /\ BatchesOrdered(seq)
    BY <1>1, AllUpToSeq DEF BatchesOrdered
  <2>3. UNCHANGED <<queue, batch, seqOf, seq, down>>
    BY <1>3, ReaderSteps
  <2>4. UpToFirst(queue, target[r])' /\ BatchesOrdered(target[r])'
    BY <2>1, <2>2, <2>3 DEF UpToFirst, BatchesOrdered
  <2>5. target'[r] <= seq'
    BY <1>1, <2>1, <2>3
  <2> QED BY <2>1, <2>3, <2>4, <2>5 DEF BarrierOrderOf
<1>4. CASE BarrierWoken(r) \/ Read(r)
  <2>1. target' = target /\ calm' = calm /\ (rpc'[r] \in {"asleep", "awake"} => rpc[r] = "awake")
    BY <1>4 DEF BarrierWoken, BarrierLook, Read, PlaceInv, ShapeInv, TypeOK, ValuesOK
  <2>2. UNCHANGED <<queue, batch, seqOf, seq, down>>
    BY <1>4, ReaderSteps
  <2> QED BY <1>1, <2>1, <2>2 DEF BarrierOrderOf, UpToFirst, BatchesOrdered
<1>5. CASE /\ target'[r] = target[r] /\ (calm'[r] => calm[r])
           /\ rpc'[r] = rpc[r] \/ (rpc[r] = "asleep" /\ rpc'[r] = "awake")
  <2>1. target'[r] <= seq'
    BY <1>1, <1>2, <1>5 DEF BarrierOrderOf
  <2>2. ASSUME rpc'[r] \in {"asleep", "awake"}, calm'[r]
        PROVE  ~down' /\ UpToFirst(queue, target[r])' /\ BatchesOrdered(target[r])'
    <3>1. target[r] <= seq /\ ~down /\ UpToFirst(queue, target[r]) /\ BatchesOrdered(target[r])
      BY <1>1, <1>5, <2>2 DEF BarrierOrderOf
    <3>2. ASSUME NEW w \in Writer, FinishBack(w) PROVE FALSE
      BY <2>2, <3>1, <3>2 DEF FinishBack
    <3> DEFINE t == target[r]
    <3>3. t \in Nat
      BY <1>1
    <3>4. t <= seq /\ ~down /\ UpToFirst(queue, t) /\ BatchesOrdered(t)
      BY <3>1
    <3>5. t' = t
      BY <1>5
    <3> HIDE DEF t
    <3>6. ~down' /\ (\A i, j \in 1..Len(queue') : i < j /\ seqOf'[queue'[j]] <= t => seqOf'[queue'[i]] <= t)
          /\ \A w \in Writer : \A i, j \in 1..Len(batch'[w]) :
                i < j /\ seqOf'[batch'[w][j]] <= t => seqOf'[batch'[w][i]] <= t
      <4>1. ASSUME NEW c \in Nat, c = t
            PROVE  ~down' /\ UpToFirst(queue, c)' /\ BatchesOrdered(c)'
        BY <3>2, <3>4, <4>1, OrderKept
      <4> QED BY <3>3, <4>1 DEF UpToFirst, BatchesOrdered
    <3> QED BY <3>5, <3>6 DEF t, UpToFirst, BatchesOrdered
  <2> QED BY <2>1, <2>2 DEF BarrierOrderOf
<1> QED BY <1>3, <1>4, <1>5, ReaderFrame DEF PlaceInv, ShapeInv

\* What recordedSeq lets through in one look
LEMMA LookThrough ==
  ASSUME PlaceInv, BatchFirst, BarrierOrder, NEW r \in Reader, NEW t \in Nat, Recorded(t),
         t = seq \/ (t = target[r] /\ rpc[r] = "awake" /\ calm[r])
  PROVE  \A u \in Unit : seqOf[u] \in 1..t => ~Pending(u)
<1>1. UpToFirst(queue, t) /\ \A w \in Writer : UpToFirst(batch[w], t)
  <2>1. queue \in Seq(Unit) /\ batch \in [Writer -> Seq(Unit)]
    BY DEF PlaceInv, ShapeInv, TypeOK, ValuesOK
  <2>2. CASE t = seq
    BY <2>1, <2>2, AllUpToSeq
  <2>3. CASE t = target[r] /\ rpc[r] = "awake" /\ calm[r]
    BY <2>3 DEF BarrierOrder
  <2> QED BY <2>2, <2>3
<1>2. ASSUME NEW u \in Unit, seqOf[u] \in 1..t, Pending(u) PROVE FALSE
  <2>1. seqOf[u] > t
    BY <1>1, <1>2, RecordedMeans
  <2> QED BY <1>2, <2>1
<1> QED BY <1>2

\* Every step keeps a barrier that passed, and was not disturbed, complete
LEMMA BarrierCompleteStep ==
  ASSUME PlaceInv, PlaceInv', BatchFirst, BarrierOrder, BarrierComplete, [Next]_vars
  PROVE  BarrierComplete'
<1> SUFFICES ASSUME NEW r \in Reader, rpc'[r] = "passed", calm'[r],
                    NEW u \in Unit, seqOf'[u] \in 1..target'[r]
             PROVE  outcome'[u] # "none"
  BY DEF BarrierComplete, Owed, Pending
<1>1. target[r] \in Nat /\ seq \in Nat /\ target[r] <= seq /\ seqOf[u] \in Nat
  BY DEF BarrierOrder, PlaceInv, ShapeInv, TypeOK, ValuesOK
<1>2. CASE Barrier(r)
  <2>1. target'[r] = seq /\ Recorded(seq)
    BY <1>2 DEF Barrier, BarrierLook, PlaceInv, ShapeInv, TypeOK, ValuesOK
  <2>2. UNCHANGED <<seqOf, outcome>>
    BY <1>2, ReaderSteps
  <2>3. ~Pending(u)
    BY <1>1, <2>1, <2>2, LookThrough
  <2> QED BY <2>1, <2>2, <2>3 DEF Pending
<1>3. CASE BarrierWoken(r)
  <2>1. target' = target /\ calm' = calm /\ rpc[r] = "awake" /\ Recorded(target[r])
    BY <1>3 DEF BarrierWoken, BarrierLook, PlaceInv, ShapeInv, TypeOK, ValuesOK
  <2>2. UNCHANGED <<seqOf, outcome>>
    BY <1>3, ReaderSteps
  <2>3. ~Pending(u)
    BY <1>1, <2>1, <2>2, LookThrough
  <2> QED BY <1>1, <2>1, <2>2, <2>3 DEF Pending
<1>4. CASE Read(r)
  BY <1>4 DEF Read, PlaceInv, ShapeInv, TypeOK, ValuesOK
<1>5. CASE /\ target'[r] = target[r] /\ (calm'[r] => calm[r])
           /\ rpc'[r] = rpc[r] \/ (rpc[r] = "asleep" /\ rpc'[r] = "awake")
  <2>1. rpc[r] = "passed" /\ calm[r] /\ seqOf'[u] \in 1..target[r]
    BY <1>5
  <2>2. seqOf'[u] = seqOf[u]
    <3>1. ASSUME NEW v \in Unit, Enqueue(v) PROVE v # u
      <4>1. seqOf'[v] = seq + 1
        BY <3>1, EnqueueSeqs
      <4> QED BY <1>1, <2>1, <4>1
    <3> QED BY <3>1, SeqFrame, EnqueueSeqs
  <2>3. ~Pending(u) /\ seqOf[u] > 0
    BY <1>1, <2>1, <2>2 DEF BarrierComplete, Owed
  <2>4. outcome[u] # "none"
    BY <2>3 DEF Pending
  <2> QED BY <2>4, BackEither, OutcomeKept DEF PlaceInv
<1> QED BY <1>2, <1>3, <1>4, <1>5, ReaderFrame DEF PlaceInv, ShapeInv

BarrierInv == PlaceInv /\ BatchFirst /\ BarrierOrder /\ BarrierComplete

\* The initial state: no barrier
LEMMA BarrierInit == ASSUME Init PROVE BarrierInv
<1>1. BatchFirst
  BY DEF Init, BatchFirst
<1>2. BarrierOrder
  BY DEF Init, BarrierOrder
<1>3. BarrierComplete
  BY DEF Init, BarrierComplete
<1> QED BY <1>1, <1>2, <1>3, PlaceInit DEF BarrierInv

\* Every step keeps BarrierInv
LEMMA BarrierStep == ASSUME BarrierInv, [Next]_vars PROVE BarrierInv'
<1>1. PlaceInv'
  BY PlaceStep DEF BarrierInv
<1> QED BY <1>1, BatchFirstStep, BarrierOrderStep, BarrierCompleteStep DEF BarrierInv

\* A reader that timescaleWriterBarrier lets through, and during whose wait no outage began, finds
\* every unit queued before it settled - whatever the number of writers, the batches' sizes and the
\* order earlier outages left the queue in
THEOREM BarriersComplete == Spec => []BarrierComplete
<1>1. BarrierInv /\ [Next]_vars => BarrierInv'
  BY BarrierStep
<1>2. BarrierInv => BarrierComplete
  BY DEF BarrierInv
<1> QED BY <1>1, <1>2, BarrierInit, PTL DEF Spec

-----------------------------------------------------------------------------
\* Bytes add up
LEMMA BytesAddUp ==
  /\ BytesOf({}) = 0
  /\ \A S, T \in SUBSET Unit : S \cap T = {} => BytesOf(S \cup T) = BytesOf(S) + BytesOf(T)
  /\ \A S \in SUBSET Unit : BytesOf(S) \in Nat
<1>1. {} \in SUBSET Unit /\ {} \cap {} = {} /\ {} \cup {} = {} OBVIOUS
<1>2. BytesOf({}) = BytesOf({}) + BytesOf({}) /\ BytesOf({}) \in Nat BY <1>1, ParamsAssumption
<1> DEFINE b == BytesOf({})
<1>3. b = b + b /\ b \in Nat BY <1>2
<1> HIDE DEF b
<1>4. b = 0 BY <1>3
<1> QED BY <1>4, ParamsAssumption DEF b

Sending == {w \in Writer : batch[w] # <<>>}
Lost    == {u \in Unit : outcome[u] = "lost"}

\* Accounting, with the sets whose sizes are counted finite
AccountInv == Accounting /\ IsFiniteSet(Sending) /\ IsFiniteSet(Lost)

\* The steps that count: the others leave what is counted and the counts alone
LEMMA AccountFrame ==
  ASSUME [Next]_vars
  PROVE  \/ UNCHANGED <<queue, queuedBytes, queuedN, heldBytes, batch, busyN, lostRows, outcome>>
         \/ \E u \in Unit : OwnWrite(u) \/ ImportTold(u) \/ LoseAtCap(u) \/ Enqueue(u)
         \/ \E w \in Writer : TakeBatch(w) \/ FinishAll(w) \/ FinishBack(w) \/ FinishStopping(w)
BY ZenonT(60) DEF Next, SubmitRefused, AwaitRoom, ImportAnswered, WriterStep, WorkWait, TimedWake, WriterExit,
       SendBatch, BatchAnswer, SendOne, OneAnswer, Barrier, ReaderStep, BarrierWoken,
       Read, Stop, StopJoin, DbDown, DbUp, ProbeDue, vars, queueVars, unitVars, writerVars, stateVars

\* A unit its submitter settles: one more lost, or none
LEMMA AccountTurnedAway ==
  ASSUME PlaceInv, AccountInv, NEW u \in Unit, OwnWrite(u) \/ ImportTold(u) \/ LoseAtCap(u)
  PROVE  AccountInv'
<1>1. UNCHANGED <<queue, queuedBytes, queuedN, heldBytes, batch, busyN>>
  BY DEF OwnWrite, ImportTold, LoseAtCap, queueVars, writerVars, stateVars
<1>2. outcome[u] = "none" /\ outcome \in [Unit -> Outcome] /\ lostRows \in Int
  BY Unqueued DEF PlaceInv, ShapeInv, TypeOK, ValuesOK
<1>3. \/ lostRows' = lostRows + 1 /\ outcome' = [outcome EXCEPT ![u] = "lost"]
      \/ lostRows' = lostRows /\ \E f \in {"ok", "err"} : outcome' = [outcome EXCEPT ![u] = f]
  BY DEF OwnWrite, ImportTold, LoseAtCap
<1>4. \/ lostRows' = lostRows + 1 /\ Lost' = Lost \cup {u} /\ u \notin Lost
      \/ lostRows' = lostRows /\ Lost' = Lost
  BY <1>2, <1>3 DEF Lost
<1>5. IsFiniteSet(Lost') /\ (lostRows = Cardinality(Lost) => lostRows' = Cardinality(Lost'))
  BY <1>2, <1>4, FS_AddElement DEF AccountInv
<1> QED BY <1>1, <1>5 DEF AccountInv, Accounting, Sending, Lost, InFlight

\* The units in flight are units
LEMMA FlightUnits == ASSUME TypeOK PROVE InFlight \in SUBSET Unit /\ Range(queue) \in SUBSET Unit
<1>1. Range(queue) \in SUBSET Unit /\ \A v \in Writer : Range(batch[v]) \in SUBSET Unit
  BY RangeOfSeq DEF TypeOK, ValuesOK
<1> QED BY <1>1 DEF InFlight

\* What a writer holds, and what the others do
LEMMA FlightParts ==
  ASSUME PlaceInv, NEW w \in Writer
  PROVE  /\ InFlight \in SUBSET Unit /\ Range(queue) \in SUBSET Unit /\ Range(batch[w]) \in SUBSET InFlight
         /\ InFlight \cap Range(queue) = {}
         /\ \A v \in Writer \ {w} : Range(batch[v]) \cap Range(batch[w]) = {}
<1>1. Range(queue) \in SUBSET Unit /\ \A v \in Writer : Range(batch[v]) \in SUBSET Unit
  BY RangeOfSeq DEF PlaceInv, ShapeInv, TypeOK, ValuesOK
<1>2. Range(batch[w]) \in SUBSET InFlight /\ InFlight \in SUBSET Unit
  BY <1>1 DEF InFlight
<1>3. \A v \in Writer : Range(batch[v]) \cap Range(queue) = {} /\ \A x \in Writer \ {v} : Range(batch[v]) \cap Range(batch[x]) = {}
  BY DEF PlaceInv, UnitInOnePlace
<1>4. InFlight \cap Range(queue) = {} BY <1>3 DEF InFlight
<1> QED BY <1>1, <1>2, <1>3, <1>4
\* A unit queued
LEMMA AccountEnqueue ==
  ASSUME PlaceInv, PlaceInv', AccountInv, NEW u \in Unit, Enqueue(u)
  PROVE  AccountInv'
<1>1. /\ queue' = Append(queue, u) /\ queuedBytes' = queuedBytes + BytesOf({u}) /\ queuedN' = queuedN + 1
      /\ heldBytes' = heldBytes + BytesOf({u}) /\ UNCHANGED <<batch, busyN, lostRows, outcome>>
  BY DEF Enqueue, stateVars
<1>2. u \notin Range(queue) /\ queue \in Seq(Unit)
  BY EnqueueSeqs DEF PlaceInv, ShapeInv, TypeOK, ValuesOK
<1>3. Range(queue') = Range(queue) \cup {u} /\ Len(queue') = Len(queue) + 1
  BY <1>1, <1>2, AppendFacts
<1>4. Range(queue) \in SUBSET Unit /\ InFlight \in SUBSET Unit
  BY FlightUnits DEF PlaceInv, ShapeInv
<1>5. BytesOf(Range(queue')) = BytesOf(Range(queue)) + BytesOf({u})
  BY <1>2, <1>3, <1>4, BytesAddUp
<1>6. \A S \in {Range(queue), {u}, InFlight} : BytesOf(S) \in Nat BY <1>4, BytesAddUp
<1>7. /\ queuedBytes' = BytesOf(Range(queue')) /\ queuedN' = Len(queue')
      /\ heldBytes' = queuedBytes' + BytesOf(InFlight)
  BY <1>1, <1>3, <1>5, <1>6 DEF AccountInv, Accounting
<1> QED BY <1>1, <1>7 DEF AccountInv, Accounting, Sending, Lost, InFlight

\* A batch taken: its bytes move, a writer more sends
LEMMA AccountTake ==
  ASSUME PlaceInv, PlaceInv', AccountInv, NEW w \in Writer, TakeBatch(w)
  PROVE  AccountInv'
<1>1. PICK n \in 1..Len(queue) :
        /\ batch' = [batch EXCEPT ![w] = SubSeq(queue, 1, n)]
        /\ queue' = SubSeq(queue, n + 1, Len(queue))
        /\ queuedBytes' = queuedBytes - BytesOf(Range(SubSeq(queue, 1, n)))
        /\ queuedN' = queuedN - n
  BY DEF TakeBatch
<1>2. busyN' = busyN + 1 /\ UNCHANGED <<heldBytes, lostRows, outcome>> BY DEF TakeBatch
<1>3. queue \in Seq(Unit) /\ n \in 0..Len(queue) /\ Len(queue) \in Nat /\ batch \in [Writer -> Seq(Unit)]
  BY SMTT(30) DEF PlaceInv, ShapeInv, TypeOK, ValuesOK
<1> DEFINE T == Range(SubSeq(queue, 1, n))
           L == Range(SubSeq(queue, n + 1, Len(queue)))
<1>4. T \in SUBSET Unit /\ L \in SUBSET Unit /\ Range(queue) = T \cup L /\ Len(queue') = Len(queue) - n
      /\ Len(SubSeq(queue, 1, n)) = n
  BY <1>1, <1>3, SplitRange, SplitSeq
<1>5. T \cap L = {} BY <1>3, SplitInjective DEF PlaceInv, UnitInOnePlace
<1>6. Range(queue') = L /\ batch'[w] = SubSeq(queue, 1, n) /\ \A v \in Writer : v # w => batch'[v] = batch[v]
  BY <1>1, <1>3
<1>7. batch[w] = <<>> /\ Range(batch[w]) = {} /\ batch'[w] # <<>>
  <2>1. batch[w] = <<>> /\ Range(batch[w]) = {} BY EmptyRange DEF TakeBatch, PlaceInv, ShapeInv, BatchShape, Busy
  <2>2. Len(batch'[w]) = n /\ n # 0 BY <1>4, <1>6
  <2> QED BY <2>1, <2>2, EmptySeq
<1>8. InFlight' = InFlight \cup T
  <2>1. \A v \in Writer : Range(batch'[v]) = IF v = w THEN T ELSE Range(batch[v]) BY <1>6
  <2>2. InFlight' = UNION {Range(batch'[v]) : v \in Writer} BY DEF InFlight
  <2> HIDE DEF T, L
  <2> QED BY <1>7, <2>1, <2>2 DEF InFlight
<1>9. InFlight \in SUBSET Unit /\ InFlight \cap T = {} BY <1>4, FlightParts
<1>10. Sending' = Sending \cup {w} /\ w \notin Sending BY <1>6, <1>7 DEF Sending
<1>11. IsFiniteSet(Sending') /\ busyN' = Cardinality(Sending')
  BY <1>2, <1>10, FS_AddElement DEF AccountInv, Accounting, Sending
<1> HIDE DEF T, L
<1>12. BytesOf(Range(queue)) = BytesOf(T) + BytesOf(L) /\ BytesOf(InFlight') = BytesOf(InFlight) + BytesOf(T)
       /\ BytesOf(T) \in Nat /\ BytesOf(L) \in Nat /\ BytesOf(InFlight) \in Nat
  BY <1>4, <1>5, <1>8, <1>9, BytesAddUp
<1>13. queuedBytes' = BytesOf(L) /\ heldBytes' = queuedBytes' + BytesOf(InFlight') /\ queuedN' = Len(queue')
  <2>1. queuedBytes' = queuedBytes - BytesOf(T) BY <1>1 DEF T
  <2>2. queuedBytes = BytesOf(Range(queue)) /\ heldBytes = queuedBytes + BytesOf(InFlight) /\ queuedN = Len(queue)
    BY DEF AccountInv, Accounting
  <2>3. queuedBytes' = BytesOf(L) BY <1>12, <2>1, <2>2
  <2>4. heldBytes' = queuedBytes' + BytesOf(InFlight') BY <1>2, <1>12, <2>2, <2>3
  <2>5. queuedN' = Len(queue') BY <1>1, <1>3, <1>4, <2>2
  <2> QED BY <2>3, <2>4, <2>5
<1> QED BY <1>2, <1>6, <1>11, <1>13 DEF AccountInv, Accounting, Sending, Lost

\* The end of a batch: what it had an outcome for is held no more, nor what is given up
LEMMA AccountFinish ==
  ASSUME PlaceInv, PlaceInv', AccountInv, NEW w \in Writer, FinishAll(w) \/ FinishBack(w) \/ FinishStopping(w)
  PROVE  AccountInv'
<1> DEFINE S == Sent(w)
           B == Range(Unsent(w))
           Q == Range(queue)
<1>1. BatchOver(w) BY DEF FinishAll, FinishBack, FinishStopping
<1>2. batch'[w] = <<>> /\ Range(batch'[w]) = {} /\ \A v \in Writer : v # w => batch'[v] = batch[v]
  BY <1>1, BatchOverPlaces DEF PlaceInv
<1>3. S \in SUBSET Unit /\ Unsent(w) \in Seq(Unit) /\ Range(batch[w]) = S \cup B /\ S \cap B = {}
      /\ queue \in Seq(Unit)
  BY BatchParts DEF PlaceInv, UnitInOnePlace, ShapeInv, TypeOK, ValuesOK
<1>4. /\ InFlight \in SUBSET Unit /\ Q \in SUBSET Unit /\ Range(batch[w]) \in SUBSET InFlight
      /\ InFlight \cap Q = {} /\ B \in SUBSET Unit
  BY <1>3, FlightParts
<1>5. InFlight = InFlight' \cup S \cup B /\ InFlight' \cap (S \cup B) = {} /\ InFlight' \in SUBSET Unit
  <2>1. \A v \in Writer \ {w} : Range(batch[v]) \cap Range(batch[w]) = {} BY FlightParts
  <2>2. InFlight' = UNION {Range(batch'[v]) : v \in Writer} BY DEF InFlight
  <2>3. InFlight' = UNION {Range(batch[v]) : v \in Writer \ {w}} BY <1>2, <2>2
  <2>4. InFlight = InFlight' \cup Range(batch[w]) BY <2>3 DEF InFlight
  <2>5. InFlight' \cap Range(batch[w]) = {} BY <2>1, <2>3
  <2> HIDE DEF S, B
  <2> QED BY <1>3, <1>4, <2>4, <2>5
<1>6. w \in Sending /\ Sending' = Sending \ {w}
  <2>1. batch[w] # <<>> BY <1>1 DEF BatchOver, PlaceInv, ShapeInv, BatchShape, Busy
  <2> QED BY <1>2, <2>1 DEF Sending
<1>7. IsFiniteSet(Sending') /\ busyN' = Cardinality(Sending')
  BY <1>1, <1>6, FS_RemoveElement DEF BatchOver, AccountInv, Accounting, Sending
<1>8. /\ IsFiniteSet(B) /\ IsFiniteSet(Q) BY <1>3, RangeFinite
<1>9. \A u \in S \cup B \cup Q : outcome[u] = "none"
  <2>1. \A u \in Unit : u \in Q \cup InFlight => outcome[u] = "none" BY DEF PlaceInv, UnitInOnePlace, Pending
  <2> HIDE DEF S, B, Q
  <2> QED BY <1>3, <1>4, <1>5, <2>1
<1> HIDE DEF S, B, Q
<1>10. /\ BytesOf(InFlight) = BytesOf(InFlight') + BytesOf(S) + BytesOf(B)
       /\ BytesOf(S) \in Nat /\ BytesOf(B) \in Nat /\ BytesOf(Q) \in Nat /\ BytesOf(InFlight') \in Nat
  <2>1. S \cup B \in SUBSET Unit /\ InFlight = InFlight' \cup (S \cup B) BY <1>3, <1>4, <1>5
  <2>2. BytesOf(InFlight) = BytesOf(InFlight') + BytesOf(S \cup B) BY <1>5, <2>1, BytesAddUp
  <2>3. BytesOf(S \cup B) = BytesOf(S) + BytesOf(B) BY <1>3, <1>4, BytesAddUp
  <2>4. BytesOf(S) \in Nat /\ BytesOf(B) \in Nat /\ BytesOf(Q) \in Nat /\ BytesOf(InFlight') \in Nat
    BY <1>3, <1>4, <1>5, BytesAddUp
  <2> QED BY <2>2, <2>3, <2>4
<1>11. queuedBytes = BytesOf(Q) /\ heldBytes = BytesOf(Q) + BytesOf(InFlight) /\ queuedN = Len(queue) /\ lostRows = Cardinality(Lost)
       /\ IsFiniteSet(Lost)
  BY DEF AccountInv, Accounting, Q, Lost
<1>12. ASSUME NEW g \in SUBSET Unit, Settle(S, {}, g), S \cap g = {} PROVE Lost' = Lost \cup g /\ (g \in SUBSET (B \cup Q) => Lost \cap g = {})
  <2>1. \A u \in Unit : outcome'[u] = CASE u \in S -> (IF u \in Bad THEN "err" ELSE "ok")
                      [] u \in {} -> "err" [] u \in g -> "lost" [] OTHER -> outcome[u]
    BY <1>12 DEF Settle
  <2>2. \A u \in Unit : (u \in S => outcome'[u] \in {"ok", "err"}) /\ (u \in g => outcome'[u] = "lost")
                        /\ (u \notin S \cup g => outcome'[u] = outcome[u])
    BY <1>12, <2>1
  <2>3. \A u \in S \cup B \cup Q : u \notin Lost BY <1>9 DEF Lost
  <2> QED BY <1>12, <2>2, <2>3 DEF Lost
<1>13. ASSUME lostRows' = lostRows, Settle(S, {}, {}) PROVE IsFiniteSet(Lost') /\ lostRows' = Cardinality(Lost')
  <2>1. Lost' = Lost BY <1>12, <1>13
  <2> QED BY <1>11, <1>13, <2>1
<1>14. CASE FinishAll(w)
  <2>1. /\ Unsent(w) = <<>> /\ heldBytes' = heldBytes - BytesOf(S) /\ Settle(S, {}, {})
        /\ UNCHANGED <<queue, queuedBytes, queuedN, lostRows>>
    BY <1>14 DEF FinishAll, S
  <2>2. B = {} BY <2>1, EmptyRange DEF B
  <2>3. BytesOf(B) = 0 BY <2>2, BytesAddUp
  <2>4. queuedBytes' = BytesOf(Range(queue')) /\ queuedN' = Len(queue') /\ heldBytes' = queuedBytes' + BytesOf(InFlight')
    BY <1>10, <1>11, <2>1, <2>3 DEF Q
  <2>5. IsFiniteSet(Lost') /\ lostRows' = Cardinality(Lost') BY <1>13, <2>1
  <2> QED BY <1>7, <2>4, <2>5 DEF AccountInv, Accounting, Sending, Lost
<1>15. CASE PutBack(w)
  <2>1. /\ queue' = Unsent(w) \o queue /\ queuedBytes' = queuedBytes + BytesOf(B) - BytesOf({})
        /\ queuedN' = queuedN + Len(Unsent(w)) - Cardinality({})
        /\ heldBytes' = heldBytes - BytesOf(S) - BytesOf({}) /\ Settle(S, {}, {}) /\ lostRows' = lostRows
    BY <1>15 DEF PutBack, S, B
  <2>2. Range(queue') = B \cup Q BY <1>3, <2>1, RangeConcatenation DEF B, Q
  <2>3. Len(queue') = Len(Unsent(w)) + Len(queue) /\ Len(Unsent(w)) \in Nat /\ Len(queue) \in Nat BY <1>3, <2>1
  <2>4. BytesOf({}) = 0 /\ Cardinality({}) = 0 BY BytesAddUp, FS_EmptySet
  <2>5. B \cap Q = {} BY <1>3, <1>4
  <2>6. BytesOf(Range(queue')) = BytesOf(B) + BytesOf(Q) BY <1>4, <2>2, <2>5, BytesAddUp
  <2>7. queuedBytes' = BytesOf(Range(queue')) /\ heldBytes' = queuedBytes' + BytesOf(InFlight')
    BY <1>10, <1>11, <2>1, <2>4, <2>6
  <2>8. queuedN' = Len(queue') BY <1>11, <2>1, <2>3, <2>4
  <2>9. IsFiniteSet(Lost') /\ lostRows' = Cardinality(Lost') BY <1>13, <2>1
  <2> QED BY <1>7, <2>7, <2>8, <2>9 DEF AccountInv, Accounting, Sending, Lost
<1>16. CASE FinishStopping(w)
  <2>1. /\ queue' = <<>> /\ queuedBytes' = queuedBytes - BytesOf(Q) /\ queuedN' = queuedN - Len(queue)
        /\ heldBytes' = heldBytes - BytesOf(S) - BytesOf(B \cup Q) /\ Settle(S, {}, B \cup Q)
        /\ lostRows' = lostRows + Cardinality(B \cup Q)
    BY <1>16 DEF FinishStopping, S, B, Q
  <2>2. Range(queue') = {} /\ Len(queue') = 0 /\ Len(queue) \in Nat BY <1>3, <2>1, EmptyRange, EmptySeq
  <2>3. B \cap Q = {} /\ S \cap (B \cup Q) = {} BY <1>3, <1>4
  <2>4. BytesOf(B \cup Q) = BytesOf(B) + BytesOf(Q) /\ BytesOf({}) = 0 BY <1>4, <2>3, BytesAddUp
  <2>5. queuedBytes' = BytesOf(Range(queue')) /\ heldBytes' = queuedBytes' + BytesOf(InFlight')
    <3>1. BytesOf(Range(queue')) = 0 BY <2>2, <2>4
    <3>2. queuedBytes' = 0 BY <1>10, <1>11, <2>1
    <3> QED BY <1>10, <1>11, <2>1, <2>4, <3>1, <3>2
  <2>6. queuedN' = Len(queue') BY <1>11, <2>1, <2>2
  <2>7. Lost' = Lost \cup (B \cup Q) /\ Lost \cap (B \cup Q) = {} BY <1>4, <1>12, <2>1, <2>3
  <2>8. IsFiniteSet(B \cup Q) BY <1>8, FS_Union
  <2>9. Cardinality(B \cup Q) \in Nat /\ Cardinality(Lost) \in Nat BY <1>11, <2>8, FS_CardinalityType
  <2>10. IsFiniteSet(Lost') /\ lostRows' = Cardinality(Lost')
    <3>1. /\ IsFiniteSet(Lost \cup (B \cup Q))
          /\ Cardinality(Lost \cup (B \cup Q)) = Cardinality(Lost) + Cardinality(B \cup Q) - Cardinality(Lost \cap (B \cup Q))
      BY <1>11, <2>8, FS_Union
    <3>2. Cardinality(Lost \cap (B \cup Q)) = 0 BY <2>7, FS_EmptySet
    <3> QED BY <1>11, <2>1, <2>7, <2>9, <3>1, <3>2
  <2> QED BY <1>7, <2>5, <2>6, <2>10 DEF AccountInv, Accounting, Sending, Lost
<1>17. ASSUME NEW u \in Import, TellImport(w, u) PROVE AccountInv'
  <2>1. /\ queue' = queue /\ queuedBytes' = queuedBytes + BytesOf({u}) - BytesOf({u}) /\ queuedN' = queuedN + 1 - 1
        /\ heldBytes' = heldBytes - BytesOf({}) - BytesOf({u}) /\ Settle(S, {u}, {}) /\ lostRows' = lostRows
        /\ S = {} /\ B = {u}
    BY <1>17 DEF TellImport, S, B
  <2>2. BytesOf({}) = 0 BY BytesAddUp
  <2>3. queuedBytes' = BytesOf(Range(queue')) /\ heldBytes' = queuedBytes' + BytesOf(InFlight')
    BY <1>10, <1>11, <2>1, <2>2 DEF Q
  <2>4. Len(queue) \in Nat BY <1>3
  <2>5. queuedN' = Len(queue') BY <1>11, <2>1, <2>4
  <2>6. Lost' = Lost
    <3>1. \A x \in Unit : outcome'[x] = IF x = u THEN "err" ELSE outcome[x] BY <2>1 DEF Settle
    <3>2. outcome[u] = "none" BY <1>9, <2>1
    <3> QED BY <3>1, <3>2 DEF Lost
  <2> QED BY <1>7, <1>11, <2>1, <2>3, <2>5, <2>6 DEF AccountInv, Accounting, Sending, Lost
<1> QED BY <1>14, <1>15, <1>16, <1>17, BackEither DEF EndsBack

\* Nothing is counted at the start
LEMMA AccountInit == ASSUME Init PROVE AccountInv
<1>1. queue = <<>> /\ queuedBytes = 0 /\ queuedN = 0 /\ heldBytes = 0 /\ busyN = 0 /\ lostRows = 0 BY DEF Init
<1>2. Sending = {} /\ Lost = {} /\ InFlight = {} /\ Range(queue) = {} /\ Len(queue) = 0
  BY EmptyRange, EmptySeq DEF Init, Sending, Lost, InFlight
<1>3. BytesOf(Range(queue)) = 0 /\ BytesOf(InFlight) = 0 BY <1>2, BytesAddUp
<1>4. IsFiniteSet(Sending) /\ IsFiniteSet(Lost) /\ Cardinality(Sending) = 0 /\ Cardinality(Lost) = 0 BY <1>2, FS_EmptySet
<1>5. Accounting BY <1>1, <1>2, <1>3, <1>4 DEF Accounting, Sending, Lost
<1> QED BY <1>4, <1>5 DEF AccountInv

\* Every step keeps the counts right
LEMMA AccountStep == ASSUME PlaceInv, PlaceInv', AccountInv, [Next]_vars PROVE AccountInv'
<1>1. CASE UNCHANGED <<queue, queuedBytes, queuedN, heldBytes, batch, busyN, lostRows, outcome>>
  BY <1>1 DEF AccountInv, Accounting, Sending, Lost, InFlight
<1> QED BY <1>1, AccountFrame, AccountTurnedAway, AccountEnqueue, AccountTake, AccountFinish

\* The counts the cap and the health report are made from are right, however batches are
\* taken, put back and given up: no drift opens the queue's cap or closes it for good
THEOREM AccountsRight == Spec => []Accounting
<1>1. PlaceInv /\ PlaceInv' /\ AccountInv /\ [Next]_vars => AccountInv'
  BY AccountStep
<1>2. AccountInv => Accounting BY DEF AccountInv
<1> QED BY <1>1, <1>2, AccountInit, PlaceInvariant, PTL DEF Spec

-----------------------------------------------------------------------------
\* Who writes rows
LEMMA CopiesFrame ==
  ASSUME [Next]_vars
  PROVE  \/ UNCHANGED copies
         \/ \E u \in Unit : OwnWrite(u)
         \/ \E w \in Writer : SendBatch(w) \/ SendOne(w)
BY ZenonT(60) DEF Next, SubmitRefused, ImportTold, AwaitRoom, LoseAtCap, Enqueue, ImportAnswered, WriterStep, WorkWait,
       TimedWake, TakeBatch, WriterExit, BatchAnswer, OneAnswer, Unreachable, FinishAll, FinishBack,
       FinishStopping, BatchOver, Barrier, ReaderStep, BarrierWoken, Read, Stop, StopJoin, DbDown, DbUp,
       ProbeDue, vars, dbVars

\* Rows are added, never taken away, and only those of a unit its submitter or its writer writes
LEMMA CopiesMove ==
  ASSUME ShapeInv, [Next]_vars, NEW u \in Unit
  PROVE  /\ copies'[u] >= copies[u] /\ copies[u] \in Nat /\ copies'[u] \in Nat
         /\ copies'[u] # copies[u] =>
              \/ OwnWrite(u)
              \/ \E w \in Writer : (SendBatch(w) \/ SendOne(w)) /\ u \in Range(batch[w])
<1>1. copies \in [Unit -> Nat] /\ batch \in [Writer -> Seq(Unit)] /\ doneN \in [Writer -> Nat]
  BY DEF ShapeInv, TypeOK, ValuesOK
<1>2. CASE UNCHANGED copies
  BY <1>1, <1>2
<1>3. ASSUME NEW v \in Unit, OwnWrite(v)
      PROVE  copies'[u] \in {copies[u], copies[u] + 1} /\ (copies'[u] # copies[u] => u = v)
  <2>1. copies' = copies \/ copies' = [copies EXCEPT ![v] = copies[v]] \/ copies' = [copies EXCEPT ![v] = copies[v] + 1]
    BY <1>3 DEF OwnWrite
  <2> QED BY <1>1, <2>1
<1>4. ASSUME NEW w \in Writer, SendBatch(w) \/ SendOne(w)
      PROVE  copies'[u] \in {copies[u], copies[u] + 1} /\ (copies'[u] # copies[u] => u \in Range(batch[w]))
  <2>1. copies' = copies \/ \E S \in SUBSET Range(batch[w]) : Commit(S)
    <3>1. CASE SendBatch(w)
      BY <3>1 DEF SendBatch, Unreachable
    <3>2. CASE SendOne(w)
      <4>1. doneN[w] + 1 \in 1..Len(batch[w]) /\ batch[w] \in Seq(Unit)
        BY <1>1, <3>2, LenProperties DEF SendOne, ShapeInv, BatchShape
      <4>2. batch[w][doneN[w] + 1] \in Range(batch[w])
        BY <4>1, RangeEquality
      <4> QED BY <3>2, <4>2 DEF SendOne, Unreachable
    <3> QED BY <1>4, <3>1, <3>2
  <2> QED BY <1>1, <2>1 DEF Commit
<1> QED BY <1>1, <1>2, <1>3, <1>4, CopiesFrame

\* While no outage has begun the database is there, and so are the connections
LEMMA OutagesFrame ==
  ASSUME ShapeInv, [Next]_vars, outages' = 0
  PROVE  /\ outages = 0
         /\ dbUp => dbUp'
         /\ \A w \in Writer : conn[w] # "stale" /\ ~WriterStep(w) => conn'[w] # "stale"
<1>1. outages \in Nat /\ conn \in [Writer -> {"none", "ok", "stale"}]
  BY DEF ShapeInv, TypeOK, ValuesOK
<1>2. CASE DbDown
  BY <1>1, <1>2 DEF DbDown
<1>3. CASE UNCHANGED <<dbUp, outages, conn>>
  BY <1>3
<1>4. CASE DbUp
  BY <1>4 DEF DbUp, writerVars
<1>5. ASSUME NEW w \in Writer, SendBatch(w) \/ BatchAnswer(w) \/ SendOne(w) \/ OneAnswer(w)
      PROVE  UNCHANGED <<dbUp, outages>> /\ \A v \in Writer : v # w => conn'[v] = conn[v]
  BY <1>1, <1>5 DEF SendBatch, BatchAnswer, SendOne, OneAnswer, Unreachable
<1>6. \/ UNCHANGED <<dbUp, outages, conn>> \/ DbDown \/ DbUp
      \/ \E w \in Writer : SendBatch(w) \/ BatchAnswer(w) \/ SendOne(w) \/ OneAnswer(w)
  BY ZenonT(60) DEF Next, SubmitRefused, OwnWrite, ImportTold, AwaitRoom, LoseAtCap, Enqueue, ImportAnswered, WriterStep,
       WorkWait, TimedWake, TakeBatch, WriterExit, FinishAll, FinishBack, FinishStopping, BatchOver, Barrier,
       ReaderStep, BarrierWoken, Read, Stop, StopJoin, ProbeDue, vars, dbVars, writerVars
<1>7. ASSUME NEW w \in Writer, SendBatch(w) \/ BatchAnswer(w) \/ SendOne(w) \/ OneAnswer(w)
      PROVE  WriterStep(w)
  BY <1>7 DEF WriterStep
<1> QED BY <1>2, <1>3, <1>4, <1>5, <1>6, <1>7

Sends(w) == SendBatch(w) \/ BatchAnswer(w) \/ SendOne(w) \/ OneAnswer(w)

\* What it takes for a unit of the batch to be in, from one step of its writer to the next
SentOn(w, i) ==
  /\ copies'[batch[w][i]] =
       IF Committed(w, i)' /\ ~Committed(w, i) /\ batch[w][i] \notin Bad
       THEN copies[batch[w][i]] + 1 ELSE copies[batch[w][i]]
  /\ conn[w] # "stale" /\ dbUp /\ Committed(w, i) => Committed(w, i)'

\* ... the transaction of the batch
LEMMA SendBatchRows ==
  ASSUME ShapeInv, NEW w \in Writer, SendBatch(w)
  PROVE  /\ \A i \in 1..Len(batch[w]) : SentOn(w, i)
         /\ conn[w] # "stale" /\ dbUp => conn'[w] # "stale" /\ (wpc'[w] = "finish" => doneN'[w] = Len(batch[w]))
<1>1. /\ wpc \in [Writer -> WriterPlace] /\ doneN \in [Writer -> Nat] /\ doneN[w] = 0 /\ wpc[w] = "sending"
      /\ conn \in [Writer -> {"none", "ok", "stale"}] /\ batch \in [Writer -> Seq(Unit)]
      /\ copies \in [Unit -> Nat]
  BY DEF SendBatch, ShapeInv, BatchShape, TypeOK, ValuesOK
<1>2. \A i \in 1..Len(batch[w]) : batch[w][i] \in Unit /\ ~Committed(w, i) /\ batch[w][i] \in Range(batch[w])
  <2>1. batch[w] \in Seq(Unit) /\ Range(batch[w]) = {batch[w][i] : i \in 1..Len(batch[w])}
    BY <1>1, RangeEquality
  <2> QED BY <1>1, <2>1, ElementOfSeq DEF Committed
<1>3. CASE Unreachable(w)
  <2>1. wpc'[w] = "finish" /\ conn'[w] = "none" /\ copies' = copies /\ doneN' = doneN
    BY <1>1, <1>3 DEF Unreachable
  <2>2. \A i \in 1..Len(batch[w]) : ~Committed(w, i)'
    BY <1>1, <2>1 DEF Committed
  <2>3. ~(conn[w] # "stale" /\ dbUp)
    <3>1. CASE conn[w] = "stale" \/ (conn[w] = "none" /\ ~dbUp)
      BY <3>1
    <3>2. CASE ~(conn[w] = "stale" \/ (conn[w] = "none" /\ ~dbUp))
      BY <1>1, <2>1, <3>2 DEF SendBatch
    <3> QED BY <3>1, <3>2
  <2> QED BY <1>2, <2>1, <2>2, <2>3 DEF SentOn
<1>4. CASE ~Unreachable(w) /\ Range(batch[w]) \cap Bad = {}
  <2>1. Commit(Range(batch[w])) /\ wpc'[w] = "answer" /\ doneN' = doneN /\ conn'[w] = "ok"
    BY <1>1, <1>4 DEF SendBatch
  <2>2. \A i \in 1..Len(batch[w]) : Committed(w, i)' /\ batch[w][i] \notin Bad
    BY <1>2, <1>4, <2>1 DEF Committed
  <2>3. \A i \in 1..Len(batch[w]) : copies'[batch[w][i]] = copies[batch[w][i]] + 1
    BY <1>2, <2>1 DEF Commit
  <2> QED BY <1>2, <2>1, <2>2, <2>3 DEF SentOn
<1>5. CASE ~Unreachable(w) /\ Range(batch[w]) \cap Bad # {}
  <2>1. /\ wpc' = [wpc EXCEPT ![w] = IF Len(batch[w]) = 1 THEN "finish" ELSE "single"]
        /\ doneN' = [doneN EXCEPT ![w] = IF Len(batch[w]) = 1 THEN 1 ELSE 0]
        /\ conn' = [conn EXCEPT ![w] = "ok"] /\ copies' = copies
    BY <1>5 DEF SendBatch
  <2>2. \A i \in 1..Len(batch[w]) : Committed(w, i)' => i = 1 /\ Len(batch[w]) = 1
    BY <1>1, <2>1 DEF Committed
  <2>3. Len(batch[w]) = 1 => batch[w][1] \in Bad
    <3>1. batch[w] \in Seq(Unit) /\ Range(batch[w]) = {batch[w][i] : i \in 1..Len(batch[w])}
      BY <1>1, RangeEquality
    <3> QED BY <1>5, <3>1
  <2>4. wpc'[w] = "finish" => doneN'[w] = Len(batch[w])
    BY <1>1, <2>1
  <2> QED BY <1>1, <1>2, <2>1, <2>2, <2>3, <2>4 DEF SentOn
<1> QED BY <1>3, <1>4, <1>5

\* ... and its answer
LEMMA BatchAnswerRows ==
  ASSUME ShapeInv, NEW w \in Writer, BatchAnswer(w)
  PROVE  /\ \A i \in 1..Len(batch[w]) : SentOn(w, i)
         /\ conn[w] # "stale" /\ dbUp => conn'[w] # "stale" /\ (wpc'[w] = "finish" => doneN'[w] = Len(batch[w]))
<1>1. /\ wpc \in [Writer -> WriterPlace] /\ doneN \in [Writer -> Nat] /\ doneN[w] = 0 /\ wpc[w] = "answer"
      /\ conn \in [Writer -> {"none", "ok", "stale"}] /\ batch[w] \in Seq(Unit) /\ copies' = copies
  BY DEF BatchAnswer, Unreachable, ShapeInv, BatchShape, TypeOK, ValuesOK
<1>2. \A i \in 1..Len(batch[w]) : Committed(w, i)
  BY <1>1 DEF Committed
<1>3. conn[w] # "stale" => conn'[w] # "stale" /\ doneN'[w] = Len(batch[w])
  BY <1>1 DEF BatchAnswer
<1>4. conn[w] # "stale" => \A i \in 1..Len(batch[w]) : i <= doneN'[w]
  BY <1>1, <1>3
<1> QED BY <1>1, <1>2, <1>3, <1>4 DEF SentOn, Committed

\* ... a transaction of one unit
LEMMA SendOneRows ==
  ASSUME ShapeInv, NEW w \in Writer, SendOne(w), IsInjective(batch[w])
  PROVE  /\ \A i \in 1..Len(batch[w]) : SentOn(w, i)
         /\ conn[w] # "stale" /\ dbUp => conn'[w] # "stale" /\ (wpc'[w] = "finish" => doneN'[w] = Len(batch[w]))
<1>1. /\ wpc \in [Writer -> WriterPlace] /\ doneN \in [Writer -> Nat] /\ wpc[w] = "single"
      /\ conn \in [Writer -> {"none", "ok", "stale"}] /\ batch[w] \in Seq(Unit) /\ doneN[w] < Len(batch[w])
      /\ copies \in [Unit -> Nat]
  BY DEF SendOne, ShapeInv, BatchShape, TypeOK, ValuesOK
<1> DEFINE d == doneN[w] + 1
           u == batch[w][d]
<1>2. d \in 1..Len(batch[w]) /\ u \in Unit
  BY <1>1, ElementOfSeq, LenProperties
<1>3. \A i \in 1..Len(batch[w]) : batch[w][i] \in Unit /\ (batch[w][i] = u => i = d)
  BY <1>1, <1>2, ElementOfSeq DEF IsInjective
<1>4. \A i \in 1..Len(batch[w]) : Committed(w, i) <=> i <= doneN[w]
  BY <1>1 DEF Committed
<1>5. CASE conn[w] = "stale"
  <2>1. copies' = copies /\ doneN' = doneN /\ wpc'[w] = "finish"
    BY <1>1, <1>5 DEF SendOne, Unreachable
  <2> QED BY <1>4, <1>5, <2>1 DEF SentOn, Committed
<1>6. CASE conn[w] # "stale" /\ u \in Bad
  <2>1. SingleDone(w) /\ UNCHANGED <<conn, copies>>
    BY <1>6 DEF SendOne
  <2>2. doneN'[w] = d /\ wpc'[w] \in {"finish", "single"} /\ (wpc'[w] = "finish" => d = Len(batch[w]))
    BY <1>1, <2>1 DEF SingleDone
  <2>3. \A i \in 1..Len(batch[w]) : Committed(w, i)' <=> i <= doneN[w] \/ i = d
    BY <1>1, <2>2 DEF Committed
  <2> QED BY <1>4, <1>6, <2>1, <2>2, <2>3 DEF SentOn
<1>7. CASE conn[w] # "stale" /\ u \notin Bad
  <2>1. Commit({u}) /\ wpc'[w] = "answerOne" /\ UNCHANGED <<doneN, conn>>
    BY <1>1, <1>7 DEF SendOne
  <2>2. \A i \in 1..Len(batch[w]) : Committed(w, i)' <=> i <= doneN[w] \/ i = d
    BY <1>1, <2>1 DEF Committed
  <2>3. \A i \in 1..Len(batch[w]) :
          copies'[batch[w][i]] = IF i = d THEN copies[batch[w][i]] + 1 ELSE copies[batch[w][i]]
    BY <1>3, <2>1 DEF Commit
  <2>4. d > doneN[w]
    BY <1>1
  <2>5. \A i \in 1..Len(batch[w]) : SentOn(w, i)
    <3> HIDE DEF d
    <3>1. doneN[w] \in Nat /\ \A i \in 1..Len(batch[w]) : i = d => ~(i <= doneN[w])
      BY <1>1, <2>4
    <3>2. batch[w][d] \notin Bad
      BY <1>7
    <3> QED BY <1>4, <2>2, <2>3, <3>1, <3>2 DEF SentOn
  <2> QED BY <1>7, <2>1, <2>5
<1> QED BY <1>5, <1>6, <1>7

\* ... and its answer
LEMMA OneAnswerRows ==
  ASSUME ShapeInv, NEW w \in Writer, OneAnswer(w)
  PROVE  /\ \A i \in 1..Len(batch[w]) : SentOn(w, i)
         /\ conn[w] # "stale" /\ dbUp => conn'[w] # "stale" /\ (wpc'[w] = "finish" => doneN'[w] = Len(batch[w]))
<1>1. /\ wpc \in [Writer -> WriterPlace] /\ doneN \in [Writer -> Nat] /\ wpc[w] = "answerOne"
      /\ conn \in [Writer -> {"none", "ok", "stale"}] /\ batch[w] \in Seq(Unit) /\ copies' = copies
  BY DEF OneAnswer, Unreachable, ShapeInv, BatchShape, TypeOK, ValuesOK
<1>2. \A i \in 1..Len(batch[w]) : Committed(w, i) <=> i <= doneN[w] + 1
  BY <1>1 DEF Committed
<1>3. CASE conn[w] = "stale"
  <2>1. doneN' = doneN /\ wpc'[w] = "finish"
    BY <1>1, <1>3 DEF OneAnswer, Unreachable
  <2>2. \A i \in 1..Len(batch[w]) : Committed(w, i)' => i <= doneN[w] + 1
    BY <1>1, <2>1 DEF Committed
  <2> QED BY <1>1, <1>2, <1>3, <2>2 DEF SentOn
<1>4. CASE conn[w] # "stale"
  <2>1. SingleDone(w) /\ UNCHANGED conn
    BY <1>4 DEF OneAnswer
  <2>2. doneN'[w] = doneN[w] + 1 /\ wpc'[w] \in {"finish", "single"}
        /\ (wpc'[w] = "finish" => doneN[w] + 1 = Len(batch[w]))
    BY <1>1, <2>1 DEF SingleDone
  <2>3. \A i \in 1..Len(batch[w]) : Committed(w, i)' <=> i <= doneN[w] + 1
    BY <1>1, <2>2 DEF Committed
  <2> QED BY <1>1, <1>2, <1>4, <2>1, <2>2, <2>3 DEF SentOn
<1> QED BY <1>3, <1>4

\* A send, whichever it is
LEMMA SendRows ==
  ASSUME PlaceInv, NEW w \in Writer, Sends(w)
  PROVE  /\ batch' = batch
         /\ \A i \in 1..Len(batch[w]) : SentOn(w, i)
         /\ conn[w] # "stale" /\ dbUp => conn'[w] # "stale" /\ (wpc'[w] = "finish" => doneN'[w] = Len(batch[w]))
<1>1. batch' = batch
  BY DEF Sends, SendBatch, BatchAnswer, SendOne, OneAnswer
<1>2. ShapeInv /\ IsInjective(batch[w])
  BY DEF PlaceInv, UnitInOnePlace
<1> QED BY <1>1, <1>2, SendBatchRows, BatchAnswerRows, SendOneRows, OneAnswerRows DEF Sends

\* What a writer has left when it is not sending: nothing, or a batch it has just taken
LEMMA NotSending ==
  ASSUME ShapeInv, ShapeInv', NEW w \in Writer, WriterStep(w), ~Sends(w)
  PROVE  \/ TakeBatch(w)
         \/ batch'[w] = <<>> /\ wpc'[w] # "finish"
<1>1. CASE WorkWait(w) \/ TimedWake(w) \/ WriterExit(w)
  <2>1. wpc'[w] \in {"asleep", "timed", "ready", "exited"}
    BY <1>1 DEF WorkWait, TimedWake, WriterExit, ShapeInv, TypeOK, ValuesOK
  <2> QED BY <2>1 DEF ShapeInv, BatchShape, Busy
<1>2. CASE FinishAll(w) \/ FinishBack(w) \/ FinishStopping(w)
  <2>1. BatchOver(w)
    BY <1>2 DEF FinishAll, FinishBack, FinishStopping
  <2>2. batch'[w] = <<>>
    BY <2>1, BatchOverPlaces
  <2> QED BY <2>2 DEF ShapeInv, BatchShape, Busy
<1> QED BY <1>1, <1>2 DEF WriterStep, Sends

\* A batch just taken has no unit sent
LEMMA JustTaken ==
  ASSUME PlaceInv, PlaceInv', NEW w \in Writer, TakeBatch(w)
  PROVE  /\ \A i \in 1..Len(batch'[w]) : ~Committed(w, i)' /\ batch'[w][i] \in Range(queue)
         /\ wpc'[w] = "sending" /\ conn' = conn /\ copies' = copies
<1>1. PICK n \in 1..Len(queue) :
        /\ batch' = [batch EXCEPT ![w] = SubSeq(queue, 1, n)]
        /\ \/ wpc' = [wpc EXCEPT ![w] = "sending"]
           \/ wpc' \in SignalWork([wpc EXCEPT ![w] = "sending"])
  BY DEF TakeBatch
<1>2. /\ queue \in Seq(Unit) /\ n \in 0..Len(queue) /\ batch \in [Writer -> Seq(Unit)]
      /\ wpc \in [Writer -> WriterPlace]
  BY SMTT(30) DEF PlaceInv, ShapeInv, TypeOK, ValuesOK
<1>3. batch'[w] = SubSeq(queue, 1, n)
  BY <1>1, <1>2
<1>4. wpc'[w] = "sending"
  <2>1. [wpc EXCEPT ![w] = "sending"] \in [Writer -> WriterPlace]
    BY <1>2 DEF WriterPlace
  <2> QED BY <1>1, <1>2, <2>1, SignalMoves, ZenonT(60)
<1>5. doneN'[w] = 0
  BY <1>4 DEF PlaceInv, ShapeInv, BatchShape
<1>6. \A i \in 1..Len(batch'[w]) : ~Committed(w, i)'
  BY <1>4, <1>5 DEF Committed
<1>7. \A i \in 1..Len(batch'[w]) : batch'[w][i] \in Range(queue)
  <2>1. Len(batch'[w]) = n /\ \A i \in 1..n : batch'[w][i] = queue[i]
    BY <1>2, <1>3, SplitSeq
  <2>2. Range(queue) = {queue[i] : i \in 1..Len(queue)}
    BY <1>2, RangeEquality
  <2>3. \A i \in 1..n : i \in 1..Len(queue)
    BY <1>2
  <2> QED BY <2>1, <2>2, <2>3
<1>8. conn' = conn /\ copies' = copies
  BY DEF TakeBatch, dbVars
<1> QED BY <1>4, <1>6, <1>7, <1>8

\* A writer that does not step keeps what it has committed, and others leave the rows of its batch alone
LEMMA OthersRows ==
  ASSUME PlaceInv, [Next]_vars, NEW w \in Writer, ~WriterStep(w)
  PROVE  /\ batch'[w] = batch[w] /\ (wpc'[w] = "finish" <=> wpc[w] = "finish") /\ doneN'[w] = doneN[w]
         /\ \A i \in 1..Len(batch[w]) : (Committed(w, i)' <=> Committed(w, i))
         /\ \A i \in 1..Len(batch[w]) : copies'[batch[w][i]] = copies[batch[w][i]]
<1>1. batch'[w] = batch[w] /\ doneN'[w] = doneN[w]
      /\ (wpc'[w] = wpc[w] \/ (wpc[w] \in {"asleep", "timed"} /\ wpc'[w] = "ready"))
  BY OthersKeep DEF PlaceInv, ShapeInv
<1>2. \A i \in 1..Len(batch[w]) : (Committed(w, i)' <=> Committed(w, i))
  BY <1>1 DEF Committed
<1>3. ASSUME NEW i \in 1..Len(batch[w]) PROVE copies'[batch[w][i]] = copies[batch[w][i]]
  <2> DEFINE u == batch[w][i]
  <2>1. batch[w] \in Seq(Unit)
    BY DEF PlaceInv, ShapeInv, TypeOK, ValuesOK
  <2>2. u \in Unit /\ u \in Range(batch[w])
    BY <2>1, ElementOfSeq, RangeEquality
  <2>3. \A v \in Writer : u \in Range(batch[v]) => v = w
    BY <2>2 DEF PlaceInv, UnitInOnePlace
  <2>4. Pending(u)
    BY <2>2 DEF PlaceInv, UnitInOnePlace, InFlight
  <2>5. ~OwnWrite(u)
    BY <2>2, <2>4, Unqueued DEF PlaceInv, Pending, ShapeInv, TypeOK, ValuesOK
  <2>6. \A v \in Writer : SendBatch(v) \/ SendOne(v) => WriterStep(v)
    BY DEF WriterStep
  <2> HIDE DEF u
  <2>7. copies'[u] = copies[u]
    BY <2>2, <2>3, <2>5, <2>6, CopiesMove DEF PlaceInv
  <2> QED BY <2>7 DEF u
<1> QED BY <1>1, <1>2, <1>3

\* What a writer will call done stays in
LEMMA RowsStep ==
  ASSUME PlaceInv, PlaceInv', [Next]_vars, NEW w \in Writer, RowsOf(w) PROVE RowsOf(w)'
<1>1. CASE ~WriterStep(w)
  BY <1>1, OthersRows DEF RowsOf
<1>2. CASE Sends(w)
  <2> SUFFICES ASSUME NEW i \in 1..Len(batch'[w]), Committed(w, i)'
               PROVE  batch'[w][i] \in Bad \/ copies'[batch'[w][i]] > 0
    BY DEF RowsOf
  <2>1. batch' = batch /\ SentOn(w, i)
    BY <1>2, SendRows
  <2>2. batch[w][i] \in Unit
    BY <2>1, ElementOfSeq DEF PlaceInv, ShapeInv, TypeOK, ValuesOK
  <2>3. copies[batch[w][i]] \in Nat
    BY <2>2 DEF PlaceInv, ShapeInv, TypeOK, ValuesOK
  <2> QED BY <2>1, <2>3 DEF SentOn, RowsOf
<1>3. CASE TakeBatch(w)
  BY <1>3, JustTaken DEF RowsOf
<1>4. CASE batch'[w] = <<>>
  BY <1>4, EmptySeq DEF RowsOf
<1> QED BY <1>1, <1>2, <1>3, <1>4, NotSending DEF PlaceInv

\* Without an outage a writer's batch stays as it should be
LEMMA CalmWriterStep ==
  ASSUME PlaceInv, PlaceInv', [Next]_vars, Undisturbed, outages' = 0, NEW w \in Writer
  PROVE  CalmWriter(w)'
<1>1. outages = 0 /\ dbUp /\ CalmWriter(w) /\ \A u \in Unit : CalmUnit(u)
  BY OutagesFrame DEF Undisturbed, PlaceInv
<1>2. CASE ~WriterStep(w)
  BY <1>1, <1>2, OthersRows, OutagesFrame DEF CalmWriter, PlaceInv
<1>3. CASE Sends(w)
  <2>1. batch' = batch /\ (\A i \in 1..Len(batch[w]) : SentOn(w, i)) /\ conn'[w] # "stale"
        /\ (wpc'[w] = "finish" => doneN'[w] = Len(batch[w]))
    BY <1>1, <1>3, SendRows DEF CalmWriter
  <2>2. ASSUME NEW i \in 1..Len(batch[w])
        PROVE  copies'[batch[w][i]] = IF Committed(w, i)' /\ batch[w][i] \notin Bad THEN 1 ELSE 0
    <3>1. SentOn(w, i)
      BY <2>1
    <3>2. conn[w] # "stale" /\ copies[batch[w][i]] = IF Committed(w, i) /\ batch[w][i] \notin Bad THEN 1 ELSE 0
      BY <1>1 DEF CalmWriter
    <3> QED BY <1>1, <3>1, <3>2 DEF SentOn
  <2> QED BY <2>1, <2>2 DEF CalmWriter
<1>4. CASE TakeBatch(w)
  <2>1. /\ \A i \in 1..Len(batch'[w]) : ~Committed(w, i)' /\ batch'[w][i] \in Range(queue)
        /\ wpc'[w] = "sending" /\ conn' = conn /\ copies' = copies
    BY <1>4, JustTaken
  <2>2. ASSUME NEW u \in Range(queue) PROVE copies[u] = 0
    <3>1. u \in Unit /\ u \notin InFlight /\ Range(queue) \in SUBSET Unit
      BY <2>2, FlightUnits DEF PlaceInv, ShapeInv, UnitInOnePlace, InFlight
    <3>2. outcome[u] = "none"
      BY <3>1 DEF PlaceInv, UnitInOnePlace, Pending
    <3> QED BY <1>1, <3>1, <3>2 DEF CalmUnit
  <2> QED BY <1>1, <2>1, <2>2 DEF CalmWriter
<1>5. CASE batch'[w] = <<>> /\ wpc'[w] # "finish" /\ ~Sends(w) /\ WriterStep(w)
  <2>1. conn' = conn
    BY <1>5 DEF Sends, WriterStep, WorkWait, TimedWake, TakeBatch, WriterExit, FinishAll, FinishBack, FinishStopping, BatchOver
  <2> QED BY <1>1, <1>5, <2>1, EmptySeq DEF CalmWriter
<1> QED BY <1>2, <1>3, <1>4, <1>5, NotSending DEF PlaceInv

\* The end of a batch whose every unit has an rc
LEMMA CalmFinish ==
  ASSUME PlaceInv, Undisturbed, outages = 0, NEW w \in Writer, FinishAll(w) \/ FinishBack(w) \/ FinishStopping(w)
  PROVE  FinishAll(w) /\ Sent(w) = Range(batch[w])
<1>1. BatchOver(w)
  BY DEF FinishAll, FinishBack, FinishStopping
<1>2. doneN[w] = Len(batch[w]) /\ batch[w] \in Seq(Unit)
  BY <1>1 DEF Undisturbed, CalmWriter, BatchOver, PlaceInv, ShapeInv, TypeOK, ValuesOK
<1>3. Len(Unsent(w)) = 0 /\ Unsent(w) \in Seq(Unit)
  <2>1. doneN[w] \in 0..Len(batch[w])
    BY <1>2, LenProperties
  <2> QED BY <1>2, <2>1, SplitSeq DEF Unsent
<1>4. Unsent(w) = <<>>
  BY <1>3, EmptySeq
<1> QED BY <1>4, BatchParts DEF FinishAll, FinishBack, FinishStopping, PlaceInv

\* How a unit gets its outcome
LEMMA OutcomeMoves ==
  ASSUME PlaceInv, [Next]_vars, NEW u \in Unit, outcome'[u] # outcome[u]
  PROVE  \/ OwnWrite(u)
         \/ LoseAtCap(u)
         \/ ImportTold(u)
         \/ \E w \in Writer :
              /\ FinishAll(w) \/ FinishBack(w) \/ FinishStopping(w)
              /\ \/ u \in Sent(w) /\ outcome'[u] = IF u \in Bad THEN "err" ELSE "ok"
                 \/ FinishStopping(w) /\ outcome'[u] = "lost"
                 \/ FinishBack(w) /\ outcome'[u] = "err"
<1>1. outcome \in [Unit -> Outcome]
  BY DEF PlaceInv, ShapeInv, TypeOK, ValuesOK
<1>2. ASSUME NEW v \in Unit, OwnWrite(v) \/ ImportTold(v) \/ LoseAtCap(v) PROVE v = u /\ (OwnWrite(u) \/ ImportTold(u) \/ LoseAtCap(u))
  BY <1>1, <1>2 DEF OwnWrite, ImportTold, LoseAtCap
<1>3. ASSUME NEW w \in Writer, NEW g, Settle(Sent(w), {}, g), Sent(w) \cap g = {}
      PROVE  outcome'[u] = IF u \in Sent(w) THEN (IF u \in Bad THEN "err" ELSE "ok")
                           ELSE IF u \in g THEN "lost" ELSE outcome[u]
  <2>1. \A x \in Unit : outcome'[x] = CASE x \in Sent(w) -> (IF x \in Bad THEN "err" ELSE "ok")
                                        [] x \in {} -> "err" [] x \in g -> "lost" [] OTHER -> outcome[x]
    BY <1>3 DEF Settle
  <2>2. CASE u \in Sent(w)
    BY <1>3, <2>1, <2>2
  <2>3. CASE u \notin Sent(w) /\ u \in g
    BY <2>1, <2>3
  <2>4. CASE u \notin Sent(w) /\ u \notin g
    BY <2>1, <2>4
  <2> QED BY <2>2, <2>3, <2>4
<1>4. ASSUME NEW w \in Writer, FinishAll(w) \/ FinishBack(w)
      PROVE  \/ u \in Sent(w) /\ outcome'[u] = IF u \in Bad THEN "err" ELSE "ok"
             \/ FinishBack(w) /\ outcome'[u] = "err"
  <2>1. CASE Settle(Sent(w), {}, {})
    BY <1>3, <2>1
  <2>2. ASSUME NEW v \in Import, TellImport(w, v) PROVE outcome'[u] = "err"
    <3>1. \A x \in Unit : outcome'[x] = IF x = v THEN "err" ELSE outcome[x]
      BY <2>2 DEF TellImport, Settle
    <3> QED BY <3>1
  <2>3. FinishAll(w) \/ PutBack(w) => Settle(Sent(w), {}, {})
    BY DEF FinishAll, PutBack
  <2>4. FinishBack(w) => PutBack(w) \/ \E v \in Import : TellImport(w, v)
    BY BackEither DEF EndsBack
  <2>5. CASE FinishAll(w)
    BY <2>1, <2>3, <2>5
  <2>6. CASE FinishBack(w)
    BY <2>1, <2>2, <2>3, <2>4, <2>6
  <2> QED BY <1>4, <2>5, <2>6
<1>5. ASSUME NEW w \in Writer, FinishStopping(w)
      PROVE  \/ u \in Sent(w) /\ outcome'[u] = IF u \in Bad THEN "err" ELSE "ok"
             \/ outcome'[u] = "lost"
  <2> DEFINE g == Range(Unsent(w)) \cup Range(queue)
  <2>1. Sent(w) \cap Range(Unsent(w)) = {} /\ Range(batch[w]) = Sent(w) \cup Range(Unsent(w))
        /\ Range(batch[w]) \cap Range(queue) = {}
    BY BatchParts DEF PlaceInv, UnitInOnePlace
  <2>2. Sent(w) \cap g = {} /\ Settle(Sent(w), {}, g)
    BY <1>5, <2>1 DEF FinishStopping
  <2> HIDE DEF g
  <2> QED BY <1>3, <2>2
<1>6. \/ UNCHANGED outcome
      \/ \E v \in Unit : OwnWrite(v) \/ ImportTold(v) \/ LoseAtCap(v) \/ Enqueue(v)
      \/ \E w \in Writer : TakeBatch(w) \/ FinishAll(w) \/ FinishBack(w) \/ FinishStopping(w)
  BY PlaceFrame
<1>7. \A v \in Unit : Enqueue(v) => UNCHANGED outcome
  BY DEF Enqueue
<1>8. \A w \in Writer : TakeBatch(w) => UNCHANGED outcome
  BY DEF TakeBatch
<1> QED BY <1>2, <1>4, <1>5, <1>6, <1>7, <1>8

\* "ok" stays true
LEMMA OkStep ==
  ASSUME PlaceInv, OkIsIn, \A w \in Writer : RowsOf(w), [Next]_vars PROVE OkIsIn'
<1> SUFFICES ASSUME NEW u \in Unit, outcome'[u] = "ok" PROVE copies'[u] > 0
  BY DEF OkIsIn
<1>1. copies'[u] >= copies[u] /\ copies[u] \in Nat /\ copies'[u] \in Nat
  BY CopiesMove DEF PlaceInv
<1>2. CASE outcome[u] = "ok"
  BY <1>1, <1>2 DEF OkIsIn
<1>3. CASE OwnWrite(u)
  <2>1. copies'[u] = copies[u] + 1 \/ outcome'[u] # "ok"
    BY <1>3 DEF OwnWrite, PlaceInv, ShapeInv, TypeOK, ValuesOK
  <2> QED BY <1>1, <2>1
<1>4. CASE LoseAtCap(u) \/ ImportTold(u)
  BY <1>4 DEF LoseAtCap, ImportTold, PlaceInv, ShapeInv, TypeOK, ValuesOK
<1>5. ASSUME NEW w \in Writer, u \in Sent(w), u \notin Bad PROVE copies[u] > 0
  <2>1. batch[w] \in Seq(Unit) /\ doneN[w] \in 0..Len(batch[w])
    BY LenProperties DEF PlaceInv, ShapeInv, BatchShape, TypeOK, ValuesOK
  <2>2. PICK i \in 1..doneN[w] : u = batch[w][i] /\ i \in 1..Len(batch[w])
    <3>1. SubSeq(batch[w], 1, doneN[w]) \in Seq(Unit) /\ Len(SubSeq(batch[w], 1, doneN[w])) = doneN[w]
          /\ \A i \in 1..doneN[w] : SubSeq(batch[w], 1, doneN[w])[i] = batch[w][i]
      BY <2>1, SplitSeq
    <3>2. Sent(w) = {SubSeq(batch[w], 1, doneN[w])[i] : i \in 1..doneN[w]}
      BY <3>1, RangeEquality DEF Sent
    <3> QED BY <1>5, <2>1, <3>1, <3>2
  <2>3. Committed(w, i)
    BY <2>2 DEF Committed
  <2> QED BY <1>5, <2>2, <2>3 DEF RowsOf
<1> QED BY <1>1, <1>2, <1>3, <1>4, <1>5, OutcomeMoves

\* Without an outage a unit is in if and only if it is said to be
LEMMA CalmUnitStep ==
  ASSUME PlaceInv, PlaceInv', [Next]_vars, Undisturbed, outages' = 0, NEW u \in Unit
  PROVE  CalmUnit(u)'
<1>1. outages = 0 /\ dbUp /\ ~down /\ CalmUnit(u) /\ \A w \in Writer : CalmWriter(w)
  BY OutagesFrame DEF Undisturbed, PlaceInv
<1>2. copies \in [Unit -> Nat] /\ outcome \in [Unit -> Outcome]
  BY DEF PlaceInv, ShapeInv, TypeOK, ValuesOK
<1>3. CASE OwnWrite(u)
  <2>1. u \notin InFlight /\ outcome[u] = "none"
    BY <1>3, Unqueued DEF PlaceInv, UnitInOnePlace, Pending
  <2>2. copies[u] = 0
    BY <1>1, <2>1 DEF CalmUnit
  <2>3. outcome'[u] = (IF u \in Bad THEN "err" ELSE "ok") /\ copies'[u] = IF u \in Bad THEN 0 ELSE 1
    BY <1>1, <1>2, <1>3, <2>2 DEF OwnWrite
  <2> QED BY <2>3 DEF CalmUnit
<1>4. CASE LoseAtCap(u) \/ ImportTold(u)
  BY <1>1, <1>4 DEF LoseAtCap, ImportTold
<1>5. ASSUME NEW w \in Writer, FinishAll(w) \/ FinishBack(w) \/ FinishStopping(w), u \in Range(batch[w])
      PROVE  CalmUnit(u)'
  <2>1. FinishAll(w) /\ Sent(w) = Range(batch[w])
    BY <1>1, <1>5, CalmFinish
  <2>2. BatchOver(w) /\ copies' = copies /\ Settle(Sent(w), {}, {})
    BY <2>1 DEF FinishAll, BatchOver, dbVars
  <2>3. outcome'[u] = IF u \in Bad THEN "err" ELSE "ok"
    BY <1>5, <2>1, <2>2 DEF Settle
  <2>4. batch[w] \in Seq(Unit)
    BY DEF PlaceInv, ShapeInv, TypeOK, ValuesOK
  <2>5. PICK i \in 1..Len(batch[w]) : u = batch[w][i]
    BY <1>5, <2>4, RangeEquality
  <2>6. doneN[w] = Len(batch[w])
    BY <1>1, <2>2 DEF CalmWriter, BatchOver
  <2>7. Committed(w, i)
    BY <2>5, <2>6 DEF Committed
  <2>8. copies[u] = IF u \in Bad THEN 0 ELSE 1
    BY <1>1, <2>5, <2>7 DEF CalmWriter
  <2> QED BY <2>2, <2>3, <2>8 DEF CalmUnit
<1>6. CASE ~OwnWrite(u) /\ ~LoseAtCap(u) /\ ~ImportTold(u)
           /\ \A w \in Writer : FinishAll(w) \/ FinishBack(w) \/ FinishStopping(w) => u \notin Range(batch[w])
  <2>1. outcome'[u] = outcome[u]
    <3>1. ASSUME NEW w \in Writer, FinishAll(w) \/ FinishBack(w) \/ FinishStopping(w)
          PROVE  u \notin Sent(w) /\ ~FinishStopping(w) /\ ~FinishBack(w)
      <4>1. FinishAll(w) /\ Sent(w) = Range(batch[w])
        BY <1>1, <3>1, CalmFinish
      <4> QED BY <1>6, <4>1 DEF FinishAll, FinishBack, FinishStopping
    <3> QED BY <1>6, <3>1, OutcomeMoves
  <2>2. u \in InFlight => u \in InFlight'
    <3> SUFFICES ASSUME NEW w \in Writer, u \in Range(batch[w]) PROVE u \in InFlight'
      BY DEF InFlight
    <3>1. CASE batch'[w] = batch[w]
      BY <3>1 DEF InFlight
    <3>2. CASE batch'[w] # batch[w]
      <4>1. WriterStep(w)
        BY <3>2, OthersKeep DEF PlaceInv, ShapeInv
      <4>2. TakeBatch(w)
        BY <1>6, <3>2, <4>1 DEF WriterStep, WorkWait, TimedWake, WriterExit, SendBatch, BatchAnswer, SendOne, OneAnswer
      <4>3. batch[w] = <<>>
        BY <4>2 DEF TakeBatch, PlaceInv, ShapeInv, BatchShape, Busy
      <4> QED BY <4>3, EmptyRange
    <3> QED BY <3>1, <3>2
  <2>3. u \notin InFlight => copies'[u] = copies[u]
    <3>1. ASSUME NEW w \in Writer, u \in Range(batch[w]) PROVE u \in InFlight
      BY <3>1 DEF InFlight
    <3> QED BY <1>6, <3>1, CopiesMove DEF PlaceInv
  <2> QED BY <1>1, <2>1, <2>2, <2>3 DEF CalmUnit
<1> QED BY <1>3, <1>4, <1>5, <1>6

\* Without an outage nothing is found down
LEMMA CalmDown ==
  ASSUME PlaceInv, [Next]_vars, Undisturbed, outages' = 0 PROVE dbUp' /\ ~down'
<1>1. outages = 0 /\ dbUp /\ dbUp' /\ ~down
  BY OutagesFrame DEF Undisturbed, PlaceInv
<1>2. ASSUME NEW w \in Writer, FinishBack(w) PROVE FALSE
  <2>1. FinishAll(w)
    BY <1>1, <1>2, CalmFinish
  <2> QED BY <1>2, <2>1 DEF FinishAll, FinishBack
<1>3. down' => down \/ \E w \in Writer : FinishBack(w)
  BY ZenonT(60) DEF Next, SubmitRefused, OwnWrite, ImportTold, AwaitRoom, LoseAtCap, Enqueue, ImportAnswered, WriterStep,
       WorkWait, TimedWake, TakeBatch, WriterExit, SendBatch, BatchAnswer, SendOne, OneAnswer, FinishAll,
       FinishStopping, Barrier, ReaderStep, BarrierWoken, Read, Stop, StopJoin, DbDown, DbUp, ProbeDue,
       vars, stateVars
<1> QED BY <1>1, <1>2, <1>3

\* Every step keeps OutcomeInv
LEMMA OutcomeStep == ASSUME PlaceInv, PlaceInv', OutcomeInv, [Next]_vars PROVE OutcomeInv'
<1>1. OkIsIn'
  BY OkStep DEF OutcomeInv
<1>2. (\A w \in Writer : RowsOf(w))'
  BY RowsStep DEF OutcomeInv
<1>3. ASSUME outages' = 0
      PROVE  dbUp' /\ ~down' /\ (\A w \in Writer : CalmWriter(w)') /\ (\A u \in Unit : CalmUnit(u)')
  BY <1>3, CalmDown, CalmWriterStep, CalmUnitStep DEF OutcomeInv
<1> QED BY <1>1, <1>2, <1>3 DEF OutcomeInv, Undisturbed

\* Nothing said and nothing in at the start
LEMMA OutcomeInit == ASSUME Init PROVE OutcomeInv
<1>1. OkIsIn
  BY DEF Init, OkIsIn
<1>2. \A w \in Writer : RowsOf(w) /\ CalmWriter(w)
  BY EmptySeq DEF Init, RowsOf, CalmWriter
<1>3. \A u \in Unit : CalmUnit(u)
  BY DEF Init, CalmUnit
<1> QED BY <1>1, <1>2, <1>3 DEF OutcomeInv, Undisturbed, Init

\* An outcome tells the truth about the database: "ok" is said of rows that are in, and
\* without an outage of rows that are in once, nothing is lost, and only what the database refuses
\* is an error - whatever batches, one-by-one retries and broken connections there were
THEOREM OutcomesTrue == Spec => []OutcomeTrue
<1>1. PlaceInv /\ PlaceInv' /\ OutcomeInv /\ [Next]_vars => OutcomeInv'
  BY OutcomeStep
<1>2. PlaceInv /\ OutcomeInv => OutcomeTrue
  <2> SUFFICES ASSUME PlaceInv, OutcomeInv, NEW u \in Unit
               PROVE  /\ outcome[u] = "ok" => copies[u] > 0
                      /\ outages = 0 => copies[u] <= 1 /\ (copies[u] = 1 /\ u \notin InFlight => outcome[u] = "ok")
                      /\ outages = 0 => outcome[u] # "lost" /\ (outcome[u] = "err" => u \in Bad)
    BY DEF OutcomeTrue
  <2>1. outcome[u] = "ok" => copies[u] > 0
    BY DEF OutcomeInv, OkIsIn
  <2>2. ASSUME outages = 0, u \in InFlight PROVE copies[u] <= 1
    <3>1. PICK w \in Writer : u \in Range(batch[w])
      BY <2>2 DEF InFlight
    <3>2. batch[w] \in Seq(Unit)
      BY DEF PlaceInv, ShapeInv, TypeOK, ValuesOK
    <3>3. PICK i \in 1..Len(batch[w]) : u = batch[w][i]
      BY <3>1, <3>2, RangeEquality
    <3> QED BY <2>2, <3>3 DEF OutcomeInv, Undisturbed, CalmWriter
  <2>3. outages = 0 => CalmUnit(u)
    BY DEF OutcomeInv, Undisturbed
  <2> QED BY <2>1, <2>2, <2>3 DEF CalmUnit
<1> QED BY <1>1, <1>2, OutcomeInit, PlaceInvariant, PTL DEF Spec

-----------------------------------------------------------------------------
\* Once it stops nobody comes to the queue
LEMMA NoneComes ==
  ASSUME StopShape, ~Running, NEW u \in Unit PROVE ~Enqueue(u) /\ ~AwaitRoom(u) /\ ~ImportTold(u)
BY DEF StopShape, Enqueue, AwaitRoom, ImportTold, Submitting

\* The stop has begun, or has not; it does not end
LEMMA StopBegins ==
  ASSUME [Next]_vars PROVE (Running' => Running) /\ (Running /\ ~Running' => Stop)
<1>1. pool' = pool \/ Stop \/ StopJoin
  BY ZenonT(60) DEF Next, SubmitRefused, OwnWrite, ImportTold, AwaitRoom, LoseAtCap, Enqueue, ImportAnswered,
       WriterStep, WorkWait, TimedWake, TakeBatch, WriterExit, SendBatch, BatchAnswer, SendOne,
       OneAnswer, FinishAll, FinishBack, FinishStopping, BatchOver, Barrier, ReaderStep, BarrierWoken, Read,
       DbDown, DbUp, ProbeDue, vars, stateVars
<1> QED BY <1>1 DEF Stop, StopJoin, Running

\* Every step keeps StopShape
LEMMA StopShapeStep ==
  ASSUME PlaceInv, PlaceInv', StopShape, [Next]_vars PROVE StopShape'
<1> USE DEF PlaceInv
<1>1. submitter \in [Unit -> SubmitterPlace]
  BY DEF ShapeInv, TypeOK, ValuesOK
<1>2. ASSUME ~Running', NEW u \in Unit PROVE submitter'[u] \notin {"noRoom", "room", "waiting"}
  <2>1. CASE Stop
    BY <2>1 DEF Stop, unitVars
  <2>2. CASE ~Running
    <3>1. submitter[u] \notin {"noRoom", "room", "waiting"}
      BY <2>2 DEF StopShape
    <3>2. CASE submitter' = BroadcastRoom \/ UNCHANGED submitter
      BY <3>1, <3>2 DEF BroadcastRoom
    <3>3. ASSUME NEW v \in Unit, SubmitRefused(v) \/ OwnWrite(v) \/ LoseAtCap(v) \/ ImportAnswered(v)
          PROVE  submitter'[u] \in {submitter[u], "own", "answered"}
      BY <1>1, <3>3 DEF SubmitRefused, OwnWrite, LoseAtCap, ImportAnswered
    <3> QED BY <2>2, <3>1, <3>2, <3>3, NoneComes, SubmitterFrame
  <2> QED BY <1>2, <2>1, <2>2, StopBegins
<1>3. ASSUME Running', NEW u \in Unit PROVE submitter'[u] # "own"
  <2>1. Running /\ submitter[u] # "own"
    BY <1>3, StopBegins DEF StopShape
  <2>2. ASSUME NEW v \in Unit, OwnWrite(v) \/ ImportTold(v) \/ AwaitRoom(v) \/ LoseAtCap(v) \/ Enqueue(v) \/ ImportAnswered(v)
        PROVE  submitter'[u] # "own"
    BY <1>1, <2>1, <2>2 DEF OwnWrite, ImportTold, AwaitRoom, LoseAtCap, Enqueue, ImportAnswered
  <2>3. \A v \in Unit : ~SubmitRefused(v)
    BY <2>1 DEF SubmitRefused
  <2> QED BY <2>1, <2>2, <2>3, SubmitterFrame DEF BroadcastRoom
<1>4. ASSUME NEW w \in Writer, wpc'[w] = "exited" PROVE queue' = <<>>
  <2>1. CASE wpc[w] = "exited"
    <3>1. queue = <<>> /\ ~Running
      BY <2>1 DEF StopShape, ShapeInv, ProbeShape
    <3>2. \A u \in Unit : ~Enqueue(u)
      BY <3>1, NoneComes
    <3>3. \A v \in Writer : ~TakeBatch(v) /\ ~FinishBack(v)
      BY <3>1 DEF TakeBatch, MayTake, FinishBack
    <3>4. \A v \in Writer : FinishAll(v) \/ FinishStopping(v) => queue' \in {queue, <<>>}
      BY DEF FinishAll, FinishStopping
    <3>5. \A u \in Unit : OwnWrite(u) \/ ImportTold(u) \/ LoseAtCap(u) => queue' = queue
      BY DEF OwnWrite, ImportTold, LoseAtCap, queueVars
    <3> QED BY <3>1, <3>2, <3>3, <3>4, <3>5, PlaceFrame
  <2>2. CASE wpc[w] # "exited"
    <3>1. WriterStep(w)
      BY <1>4, <2>2, OthersKeep DEF ShapeInv
    <3>2. WriterExit(w) \/ BatchOver(w) \/ wpc'[w] # "exited"
      <4>1. CASE TakeBatch(w)
        BY <4>1, JustTaken
      <4>2. CASE WorkWait(w) \/ TimedWake(w) \/ SendBatch(w) \/ BatchAnswer(w) \/ SendOne(w) \/ OneAnswer(w)
        BY <4>2 DEF WorkWait, TimedWake, SendBatch, BatchAnswer, SendOne, OneAnswer, Unreachable, SingleDone,
                    ShapeInv, TypeOK, ValuesOK
      <4>3. CASE FinishAll(w) \/ FinishBack(w) \/ FinishStopping(w)
        BY <4>3 DEF FinishAll, FinishBack, FinishStopping
      <4> QED BY <3>1, <4>1, <4>2, <4>3 DEF WriterStep
    <3>3. CASE BatchOver(w)
      BY <1>4, <3>3 DEF BatchOver, BroadcastWork, ShapeInv, TypeOK, ValuesOK
    <3> QED BY <1>4, <3>2, <3>3 DEF WriterExit, queueVars
  <2> QED BY <2>1, <2>2
<1> QED BY <1>2, <1>3, <1>4 DEF StopShape

\* The initial state runs
LEMMA StopShapeInit == ASSUME Init PROVE StopShape
BY DEF Init, StopShape, Running

\* When timescaleWriterStop has joined the writers nothing is left behind: no unit without
\* its outcome, no byte counted as held
THEOREM StopsSettled == Spec => []StopSettles
<1>1. PlaceInv /\ PlaceInv' /\ StopShape /\ [Next]_vars => StopShape'
  BY StopShapeStep
<1>2. PlaceInv /\ StopShape /\ Accounting => StopSettles
  <2> SUFFICES ASSUME PlaceInv, StopShape, Accounting, pool = "freed"
               PROVE  heldBytes = 0 /\ \A u \in Unit : ~Pending(u)
    BY DEF StopSettles
  <2>1. \A w \in Writer : wpc[w] = "exited" /\ batch[w] = <<>>
    BY DEF PlaceInv, ShapeInv, ProbeShape, BatchShape, Busy
  <2>2. InFlight = {}
    BY <2>1, EmptyRange DEF InFlight
  <2>3. queue = <<>> /\ Range(queue) = {}
    BY <2>1, ParamsAssumption, EmptyRange DEF StopShape
  <2>4. heldBytes = BytesOf({}) + BytesOf({})
    BY <2>2, <2>3 DEF Accounting
  <2> QED BY <2>2, <2>3, <2>4, BytesAddUp DEF PlaceInv, UnitInOnePlace
<1> QED BY <1>1, <1>2, StopShapeInit, PlaceInvariant, AccountsRight, PTL DEF Spec

-----------------------------------------------------------------------------
(* The refinement of TroeHistory, step by step *)

\* What the refinement rests on
RefineInv == BarrierInv /\ OutcomeInv /\ StopShape

\* Found down is after an outage
LEMMA DownTroubled == ASSUME RefineInv, down PROVE Troubled
BY DEF RefineInv, BarrierInv, OutcomeInv, Undisturbed, Troubled, PlaceInv, ShapeInv, TypeOK, ValuesOK

\* Held is what is pending
LEMMA HeldIsPending == History!Held = {u \in Unit : Pending(u)}
BY DEF History!Held, Taken, Pending

\* What keeps the reader's view
LEMMA SameView ==
  /\ UNCHANGED seqOf => Taken' = Taken
  /\ UNCHANGED <<outages, pool>> => Troubled' = Troubled
  /\ UNCHANGED rpc => Reading' = Reading
  /\ UNCHANGED <<seqOf, target>> => OwedAll' = OwedAll
BY DEF Taken, Troubled, Running, Reading, OwedAll, Owed

\* Enqueue takes a unit
LEMMA RefineEnqueue ==
  ASSUME RefineInv, NEW u \in Unit, Enqueue(u) PROVE History!Take(u)
<1> USE DEF RefineInv, BarrierInv, PlaceInv
<1>1. seqOf[u] = 0 /\ outcome[u] = "none"
  BY Unqueued
<1>2. seq' = seq + 1 /\ seqOf'[u] = seq + 1 /\ (\A v \in Unit : v # u => seqOf'[v] = seqOf[v])
      /\ seq \in Nat /\ seqOf \in [Unit -> Nat]
  BY EnqueueSeqs DEF ShapeInv, TypeOK, ValuesOK
<1>3. u \notin Taken /\ Taken' = Taken \cup {u}
  BY <1>1, <1>2 DEF Taken
<1>4. UNCHANGED <<outcome, outages, pool, rpc, target, calm>>
  BY DEF Enqueue, stateVars, readerVars, dbVars
<1>5. OwedAll' = OwedAll
  <2>1. \A r \in Reader : target[r] \in Nat /\ target[r] <= seq
    BY DEF BarrierOrder, ShapeInv, TypeOK, ValuesOK
  <2>2. ASSUME NEW r \in Reader PROVE Owed(r)' = Owed(r)
    <3>1. \A v \in Unit : seqOf'[v] \in 1..target[r] <=> seqOf[v] \in 1..target[r]
      BY <1>1, <1>2, <2>1
    <3> QED BY <1>4, <3>1 DEF Owed
  <2> QED BY <2>2 DEF OwedAll
<1> QED BY <1>1, <1>3, <1>4, <1>5, SameView DEF History!Take

\* A unit that is not queued has its outcome from its submitter
LEMMA RefineTurnAway ==
  ASSUME RefineInv, NEW u \in Unit, OwnWrite(u) \/ LoseAtCap(u) \/ ImportTold(u)
  PROVE  History!TurnAway(u)
<1> USE DEF RefineInv, BarrierInv, PlaceInv
<1>1. u \notin Taken /\ outcome[u] = "none"
  BY Unqueued DEF Taken
<1>2. UNCHANGED <<seqOf, outages, pool, rpc, target, calm>>
  BY DEF OwnWrite, LoseAtCap, ImportTold, stateVars, readerVars, dbVars, queueVars
<1>3. \E f \in {"ok", "err", "lost"} : outcome' = [outcome EXCEPT ![u] = f]
  BY DEF OwnWrite, LoseAtCap, ImportTold
<1>4. Troubled
  <2>1. CASE OwnWrite(u)
    BY <2>1 DEF OwnWrite, StopShape, Troubled
  <2>2. CASE LoseAtCap(u) \/ ImportTold(u)
    BY <2>2, DownTroubled DEF LoseAtCap, ImportTold
  <2> QED BY <2>1, <2>2
<1> QED BY <1>1, <1>2, <1>3, <1>4, SameView DEF History!TurnAway

\* The end of a batch settles some of what is held
LEMMA RefineFinish ==
  ASSUME RefineInv, [Next]_vars, NEW w \in Writer, FinishAll(w) \/ FinishBack(w) \/ FinishStopping(w)
  PROVE  History!Settle
<1> USE DEF RefineInv, BarrierInv, PlaceInv
<1>1. BatchOver(w)
  BY DEF FinishAll, FinishBack, FinishStopping
<1>2. UNCHANGED <<seqOf, outages, pool, target>> /\ rpc' = BroadcastDone
  BY <1>1 DEF BatchOver, dbVars
<1>3. Reading' = Reading
  <2>1. rpc \in [Reader -> ReaderPlace]
    BY DEF ShapeInv, TypeOK, ValuesOK
  <2>2. \A r \in Reader : rpc'[r] = rpc[r] \/ (rpc[r] = "asleep" /\ rpc'[r] = "awake")
    BY <1>2, <2>1 DEF BroadcastDone
  <2>3. \A r \in Reader : Reading'[r] = Reading[r]
    BY <2>2 DEF Reading
  <2> QED BY <2>3 DEF Reading
<1>4. batch[w] # <<>> /\ batch'[w] = <<>>
  BY <1>1, BatchOverPlaces DEF BatchOver, ShapeInv, BatchShape, Busy
<1>5. \A u \in Unit : ~OwnWrite(u) /\ ~LoseAtCap(u) /\ ~ImportTold(u)
  BY <1>4 DEF OwnWrite, LoseAtCap, ImportTold, writerVars
<1> DEFINE S == {u \in Unit : outcome'[u] # outcome[u]}
           f == [u \in S |-> outcome'[u]]
<1>6. S \in SUBSET History!Held
  <2>1. \A u \in S : outcome[u] = "none" /\ seqOf[u] > 0
    BY <1>5, BackEither, OutcomeKept
  <2> QED BY <2>1, HeldIsPending DEF Pending
<1>7. f \in [S -> History!Outcomes]
  <2>1. \A v \in Writer : FinishStopping(v) => Troubled
    BY DEF FinishStopping, Troubled
  <2>2. \A u \in S : outcome'[u] \in {"ok", "err"} \/ (Troubled /\ outcome'[u] = "lost")
    BY <1>5, <2>1, OutcomeMoves
  <2>3. \A u \in S : outcome'[u] \in History!Outcomes
    BY <2>2 DEF History!Outcomes
  <2> QED BY <2>3
<1>8. outcome' = [u \in Unit |-> IF u \in S THEN f[u] ELSE outcome[u]]
  <2>1. outcome' = [u \in Unit |-> outcome'[u]]
    BY DEF FinishAll, FinishBack, FinishStopping, Settle
  <2> QED BY <2>1
<1>9. calm' = calm \/ (Troubled /\ calm' = [r \in Reader |-> FALSE])
  <2>1. CASE FinishAll(w) \/ FinishStopping(w)
    BY <2>1 DEF FinishAll, FinishStopping
  <2>2. CASE FinishBack(w)
    <3>1. outages # 0
      BY <2>2, CalmFinish DEF OutcomeInv, FinishAll, FinishBack
    <3>2. Troubled
      BY <3>1 DEF Troubled, ShapeInv, TypeOK, ValuesOK
    <3>3. calm \in [Reader -> BOOLEAN] /\ \E e \in BOOLEAN : calm' = [r \in Reader |-> calm[r] /\ ~e]
      BY <2>2 DEF FinishBack, ShapeInv, TypeOK, FlagsOK
    <3> QED BY <3>2, <3>3
  <2> QED BY <2>1, <2>2
<1> HIDE DEF S, f
<1> QED BY <1>2, <1>3, <1>6, <1>7, <1>8, <1>9, SameView DEF History!Settle

\* A barrier that is not let through finds something held
LEMMA NotRecorded ==
  ASSUME PlaceInv, BatchFirst, ~Recorded(seq) PROVE \E u \in Unit : Pending(u)
<1>1. queue \in Seq(Unit) /\ seq \in Nat /\ batch \in [Writer -> Seq(Unit)] /\ batchSeq \in [Writer -> Nat]
  BY DEF PlaceInv, ShapeInv, TypeOK, ValuesOK
<1>2. queue # <<>> \/ \E w \in Writer : batch[w] # <<>>
  <2>1. CASE queue = <<>>
    <3>1. seq >= seq
      BY <1>1
    <3>2. \E w \in Writer : batchSeq[w] # 0
      BY <2>1, <3>1 DEF Recorded
    <3> QED BY <3>2 DEF BatchFirst
  <2> QED BY <2>1
<1>3. ASSUME NEW s \in Seq(Unit), s # <<>> PROVE \E u \in Unit : u \in Range(s)
  <2>1. 1 \in 1..Len(s)
    BY <1>3, EmptySeq
  <2> QED BY <1>3, <2>1, ElementOfSeq, RangeEquality
<1>4. \A u \in Unit : u \in Range(queue) \cup InFlight => Pending(u)
  BY DEF PlaceInv, UnitInOnePlace
<1> QED BY <1>1, <1>2, <1>3, <1>4 DEF InFlight

\* A reader's steps leave what is held, and the others' view, as they are
LEMMA ReaderView ==
  ASSUME RefineInv, NEW r \in Reader, Barrier(r) \/ BarrierWoken(r) \/ Read(r)
  PROVE  /\ Taken' = Taken /\ outcome' = outcome /\ Troubled' = Troubled
         /\ \E p \in ReaderPlace : rpc' = [rpc EXCEPT ![r] = p]
         /\ BarrierWoken(r) \/ Read(r) => OwedAll' = OwedAll /\ calm' = calm
         /\ rpc \in [Reader -> ReaderPlace]
<1>1. UNCHANGED <<seqOf, outcome, outages, pool>>
  BY DEF Barrier, BarrierWoken, Read, queueVars, unitVars, dbVars, stateVars
<1>2. \E p \in ReaderPlace : rpc' = [rpc EXCEPT ![r] = p]
  BY DEF Barrier, BarrierWoken, Read, BarrierLook, ReaderPlace
<1>3. BarrierWoken(r) \/ Read(r) => UNCHANGED <<target, calm>>
  BY DEF BarrierWoken, Read
<1> QED BY <1>1, <1>2, <1>3, SameView DEF RefineInv, BarrierInv, PlaceInv, ShapeInv, TypeOK, ValuesOK

\* The reader moves on, in its own view and in nobody else's
LEMMA ReadingMoves ==
  ASSUME NEW r \in Reader, NEW p \in ReaderPlace, rpc \in [Reader -> ReaderPlace], rpc' = [rpc EXCEPT ![r] = p]
  PROVE  /\ rpc'[r] = p /\ Reading \in [Reader -> {"new", "waiting", "served", "released", "done"}]
         /\ Reading' = [Reading EXCEPT ![r] = Reading'[r]]
         /\ Reading'[r] = CASE p \in {"asleep", "awake"} -> "waiting" [] p = "passed" -> "served"
                            [] p = "skipped" -> "released" [] p \in {"read", "failed"} -> "done" [] OTHER -> "new"
<1>1. \A q \in Reader : rpc'[q] = IF q = r THEN p ELSE rpc[q]
  OBVIOUS
<1>2. \A q \in Reader : q # r => Reading'[q] = Reading[q]
  BY <1>1 DEF Reading
<1>3. Reading' = [Reading EXCEPT ![r] = Reading'[r]]
  BY <1>2 DEF Reading
<1>4. Reading \in [Reader -> {"new", "waiting", "served", "released", "done"}]
  BY DEF Reading, ReaderPlace
<1> QED BY <1>1, <1>3, <1>4 DEF Reading

\* A barrier comes
LEMMA RefineBarrier ==
  ASSUME RefineInv, NEW r \in Reader, Barrier(r) PROVE History!Come(r) \/ History!ComeDown(r)
<1> USE DEF RefineInv, BarrierInv
<1>1. /\ Taken' = Taken /\ outcome' = outcome /\ Troubled' = Troubled /\ rpc \in [Reader -> ReaderPlace]
      /\ \E p \in ReaderPlace : rpc' = [rpc EXCEPT ![r] = p]
  BY ReaderView
<1>2. /\ seq \in Nat /\ target' = [target EXCEPT ![r] = seq] /\ calm' = [calm EXCEPT ![r] = TRUE]
      /\ rpc' = [rpc EXCEPT ![r] = IF Recorded(seq) THEN "passed" ELSE IF down THEN "skipped" ELSE "asleep"]
      /\ target \in [Reader -> Nat] /\ seqOf \in [Unit -> Nat] /\ seqOf' = seqOf /\ rpc[r] = "new"
  BY DEF Barrier, BarrierLook, queueVars, PlaceInv, ShapeInv, TypeOK, ValuesOK
<1>3. Reading[r] = "new"
  BY <1>2 DEF Reading
<1>4. OwedAll' = [OwedAll EXCEPT ![r] = Taken]
  <2>1. Owed(r)' = Taken
    <3>1. \A u \in Unit : seqOf[u] \in Nat /\ seqOf[u] <= seq
      BY <1>2 DEF PlaceInv, SubmitterShape
    <3>2. \A u \in Unit : seqOf[u] \in 1..seq <=> seqOf[u] > 0
      BY <1>2, <3>1
    <3> QED BY <1>2, <3>2 DEF Owed, Taken
  <2>2. \A q \in Reader : q # r => Owed(q)' = Owed(q)
    BY <1>2 DEF Owed
  <2> QED BY <2>1, <2>2 DEF OwedAll
<1>5. CASE Recorded(seq)
  <2>1. rpc' = [rpc EXCEPT ![r] = "passed"] /\ "passed" \in ReaderPlace
    BY <1>2, <1>5 DEF ReaderPlace
  <2>2. Reading' = [Reading EXCEPT ![r] = "served"]
    BY <1>1, <2>1, ReadingMoves
  <2>3. \A u \in Unit : seqOf[u] \in 1..seq => ~Pending(u)
    BY <1>2, <1>5, LookThrough
  <2>4. \A u \in Unit : ~Pending(u)
    <3>1. \A u \in Unit : Pending(u) => seqOf[u] > 0 /\ seqOf[u] <= seq /\ seqOf[u] \in Nat
      BY <1>2 DEF Pending, PlaceInv, SubmitterShape
    <3>2. \A u \in Unit : Pending(u) => seqOf[u] \in 1..seq
      BY <1>2, <3>1
    <3> QED BY <2>3, <3>2
  <2>5. History!Held = {}
    BY <2>4, HeldIsPending
  <2> QED BY <1>1, <1>2, <1>3, <1>4, <2>2, <2>5 DEF History!Come
<1>6. CASE ~Recorded(seq) /\ down
  <2>1. rpc' = [rpc EXCEPT ![r] = "skipped"] /\ "skipped" \in ReaderPlace
    BY <1>2, <1>6 DEF ReaderPlace
  <2>2. Reading' = [Reading EXCEPT ![r] = "released"]
    BY <1>1, <2>1, ReadingMoves
  <2>3. Troubled
    BY <1>6, DownTroubled
  <2> QED BY <1>1, <1>2, <1>3, <1>4, <2>2, <2>3 DEF History!ComeDown
<1>7. CASE ~Recorded(seq) /\ ~down
  <2>1. rpc' = [rpc EXCEPT ![r] = "asleep"] /\ "asleep" \in ReaderPlace
    BY <1>2, <1>7 DEF ReaderPlace
  <2>2. Reading' = [Reading EXCEPT ![r] = "waiting"]
    BY <1>1, <2>1, ReadingMoves
  <2>3. History!Held # {}
    BY <1>7, NotRecorded, HeldIsPending
  <2> QED BY <1>1, <1>2, <1>3, <1>4, <2>2, <2>3 DEF History!Come
<1> QED BY <1>5, <1>6, <1>7

\* A barrier looks again
LEMMA RefineWoken ==
  ASSUME RefineInv, NEW r \in Reader, BarrierWoken(r)
  PROVE  History!Serve(r) \/ History!Release(r) \/ UNCHANGED <<Taken, outcome, Troubled, Reading, OwedAll, calm>>
<1> USE DEF RefineInv, BarrierInv
<1>1. /\ UNCHANGED <<Taken, outcome, Troubled, OwedAll, calm>> /\ rpc \in [Reader -> ReaderPlace]
      /\ \E p \in ReaderPlace : rpc' = [rpc EXCEPT ![r] = p]
  BY ReaderView
<1>2. /\ rpc[r] = "awake" /\ target[r] \in Nat /\ calm[r] \in BOOLEAN
      /\ rpc' = [rpc EXCEPT ![r] = IF Recorded(target[r]) THEN "passed" ELSE IF down THEN "skipped" ELSE "asleep"]
  BY DEF BarrierWoken, BarrierLook, PlaceInv, ShapeInv, TypeOK, ValuesOK, FlagsOK
<1>3. Reading[r] = "waiting"
  BY <1>2 DEF Reading
<1>4. CASE Recorded(target[r])
  <2>1. rpc' = [rpc EXCEPT ![r] = "passed"] /\ "passed" \in ReaderPlace
    BY <1>2, <1>4 DEF ReaderPlace
  <2>2. Reading' = [Reading EXCEPT ![r] = "served"]
    BY <1>1, <2>1, ReadingMoves
  <2>3. ASSUME calm[r] PROVE OwedAll[r] \cap History!Held = {}
    <3>1. \A u \in Unit : seqOf[u] \in 1..target[r] => ~Pending(u)
      BY <1>2, <1>4, <2>3, LookThrough
    <3> QED BY <3>1, HeldIsPending DEF OwedAll, Owed
  <2> QED BY <1>1, <1>3, <2>2, <2>3 DEF History!Serve, History!Release
<1>5. CASE ~Recorded(target[r]) /\ down
  <2>1. rpc' = [rpc EXCEPT ![r] = "skipped"] /\ "skipped" \in ReaderPlace
    BY <1>2, <1>5 DEF ReaderPlace
  <2>2. Reading' = [Reading EXCEPT ![r] = "released"]
    BY <1>1, <2>1, ReadingMoves
  <2>3. ~calm[r]
    BY <1>2, <1>5 DEF BarrierOrder
  <2> QED BY <1>1, <1>3, <2>2, <2>3 DEF History!Release
<1>6. CASE ~Recorded(target[r]) /\ ~down
  <2>1. rpc' = [rpc EXCEPT ![r] = "asleep"] /\ "asleep" \in ReaderPlace
    BY <1>2, <1>6 DEF ReaderPlace
  <2>2. Reading' = [Reading EXCEPT ![r] = "waiting"] /\ Reading \in [Reader -> {"new", "waiting", "served", "released", "done"}]
    BY <1>1, <2>1, ReadingMoves
  <2>3. Reading' = Reading
    BY <1>3, <2>2
  <2> QED BY <1>1, <2>3
<1> QED BY <1>4, <1>5, <1>6

\* A reader reads
LEMMA RefineRead == ASSUME RefineInv, NEW r \in Reader, Read(r) PROVE History!Done(r)
<1>1. /\ UNCHANGED <<Taken, outcome, Troubled, OwedAll, calm>> /\ rpc \in [Reader -> ReaderPlace]
  BY ReaderView
<1>2. rpc[r] \in {"passed", "skipped"} /\ rpc' = [rpc EXCEPT ![r] = IF dbUp THEN "read" ELSE "failed"]
  BY DEF Read
<1>3. Reading[r] \in {"served", "released"}
  BY <1>2 DEF Reading
<1>4. PICK p \in {"read", "failed"} : rpc' = [rpc EXCEPT ![r] = p]
  BY <1>2
<1>5. p \in ReaderPlace
  BY DEF ReaderPlace
<1>6. Reading' = [Reading EXCEPT ![r] = "done"]
  BY <1>1, <1>4, <1>5, ReadingMoves
<1> QED BY <1>1, <1>3, <1>6 DEF History!Done

\* The steps the history's view shows
LEMMA RefineFrame ==
  ASSUME [Next]_vars
  PROVE  \/ UNCHANGED <<seqOf, outcome, outages, pool, rpc, target, calm>>
         \/ \E u \in Unit : OwnWrite(u) \/ ImportTold(u) \/ LoseAtCap(u) \/ Enqueue(u)
         \/ \E w \in Writer : FinishAll(w) \/ FinishBack(w) \/ FinishStopping(w)
         \/ \E r \in Reader : Barrier(r) \/ BarrierWoken(r) \/ Read(r)
         \/ Stop \/ StopJoin \/ DbDown
BY ZenonT(60) DEF Next, SubmitRefused, AwaitRoom, ImportAnswered, WriterStep, WorkWait, TimedWake, TakeBatch,
       WriterExit, SendBatch, BatchAnswer, SendOne, OneAnswer, ReaderStep, DbUp, ProbeDue, vars, queueVars,
       stateVars, unitVars, readerVars, dbVars

\* Every step of the writers is a step of TroeHistory, or none
LEMMA RefineStep == ASSUME RefineInv, [Next]_vars PROVE [History!Next]_History!vars
<1>1. CASE UNCHANGED <<seqOf, outcome, outages, pool, rpc, target, calm>>
  BY <1>1, SameView DEF History!vars
<1>2. ASSUME NEW u \in Unit, OwnWrite(u) \/ ImportTold(u) \/ LoseAtCap(u) \/ Enqueue(u) PROVE History!Next
  BY <1>2, RefineEnqueue, RefineTurnAway DEF History!Next
<1>3. ASSUME NEW w \in Writer, FinishAll(w) \/ FinishBack(w) \/ FinishStopping(w) PROVE History!Next
  BY <1>3, RefineFinish DEF History!Next
<1>4. ASSUME NEW r \in Reader, Barrier(r) \/ BarrierWoken(r) \/ Read(r) PROVE [History!Next]_History!vars
  BY <1>4, RefineBarrier, RefineWoken, RefineRead DEF History!Next, History!vars
<1>5. CASE Stop
  <2>1. UNCHANGED <<seqOf, outcome, rpc, target, calm>> /\ Troubled'
    BY <1>5 DEF Stop, Troubled, Running, queueVars, unitVars, readerVars
  <2> QED BY <2>1, SameView DEF History!Next, History!Trouble
<1>6. CASE StopJoin
  <2>1. UNCHANGED <<seqOf, outcome, rpc, target, calm>> /\ Troubled' /\ Troubled
    BY <1>6 DEF StopJoin, Troubled, Running, queueVars, unitVars, readerVars
  <2> QED BY <2>1, SameView DEF History!Next, History!Trouble
<1>7. CASE DbDown
  <2>1. UNCHANGED <<seqOf, outcome, rpc, target, calm>> /\ Troubled'
    BY <1>7 DEF DbDown, Troubled, queueVars, unitVars, readerVars, RefineInv, BarrierInv, PlaceInv, ShapeInv, TypeOK, ValuesOK
  <2> QED BY <2>1, SameView DEF History!Next, History!Trouble
<1> QED BY <1>1, <1>2, <1>3, <1>4, <1>5, <1>6, <1>7, RefineFrame

\* The initial state of the writers is the history's
LEMMA RefineInit == ASSUME Init PROVE History!Init
<1>1. Taken = {} /\ Troubled = FALSE
  BY DEF Init, Taken, Troubled, Running
<1>2. Reading = [r \in Reader |-> "new"]
  BY DEF Init, Reading
<1>3. OwedAll = [r \in Reader |-> {}]
  BY DEF Init, OwedAll, Owed
<1> QED BY <1>1, <1>2, <1>3 DEF Init, History!Init

\* The writers keep the promise of TroeHistory: every step of the queue, the batches, the
\* put-backs, the probes and the barriers is one of its steps or none
THEOREM WritersImplementHistory == Spec => ImplementsHistory
<1>1. RefineInv /\ PlaceInv' /\ [Next]_vars => RefineInv'
  BY BarrierStep, OutcomeStep, StopShapeStep DEF RefineInv, BarrierInv
<1>2. Init => RefineInv
  BY BarrierInit, OutcomeInit, StopShapeInit DEF RefineInv
<1> QED BY <1>1, <1>2, PlaceInvariant, RefineInit, RefineStep, PTL DEF Spec, ImplementsHistory, History!Spec

=============================================================================
