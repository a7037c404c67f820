-------------------------- MODULE ServiceExecution --------------------------
(***************************************************************************)
(* The executions of services: one combined execution, its children (some  *)
(* of them combined too), their records in the "serviceExecutions"         *)
(* collection, their executors, and the threads that read a record, change *)
(* their copy of it and store it back: the request that created them,      *)
(* executors' reports, clients' DELETEs, the periodic sweep.               *)
(* (src/src/lib/serviceExecution/seExecution.c, seCombined.c)              *)
(*                                                                         *)
(* A thread's C stack is a list of what it has still to do, the innermost  *)
(* call first, each entry with the copy of the record that call works on.  *)
(* One access of the database is one step; between two steps of a thread   *)
(* any other thread may go.                                                *)
(***************************************************************************)
EXTENDS Integers, Sequences, FiniteSets, Functions

CONSTANTS
  Exec,        \* the executions of one POST /services
  Root,        \* the one the request names
  Kids,        \* "_children": a sequence for each; <<>>: a simple execution
  Methods,     \* what the request may ask: a combinationMethod for each parent
  Modes,       \* what the registrations may say: a mode for each simple execution
  Thread,      \* threads of the broker
  Creator,     \* ... the one of the request that creates the executions
  Loop,        \* ... the one of the periodic loop
  Target,      \* the executions clients DELETE
  Events,      \* which of "delete" (a DELETE request), "expire" (a record is 24 hours old) and
               \* "restart" (of the broker) happen
  MaxEvents    \* bound: how many of them, together

Parents == {p \in Exec : Kids[p] # <<>>}
Leaves  == {e \in Exec : Kids[e] = <<>>}

\* An execution and all below it
Closed(S) == \A p \in S : Range(Kids[p]) \subseteq S
Under     == [e \in Exec |-> {d \in Exec : \A S \in SUBSET Exec : e \in S /\ Closed(S) => d \in S}]

ASSUME TreeAssumption ==
  /\ Root \in Exec /\ Creator \in Thread /\ Loop \in Thread \ {Creator} /\ Target \subseteq Exec
  /\ Kids \in [Exec -> Seq(Exec)]
  /\ \A p, q \in Exec : \A i \in DOMAIN Kids[p], j \in DOMAIN Kids[q] :
       Kids[p][i] = Kids[q][j] => p = q /\ i = j
  /\ \A e \in Exec : e = Root <=> \A p \in Exec : e \notin Range(Kids[p])
  /\ Under[Root] = Exec
  /\ Methods \subseteq [Parents -> {"sequential", "parallel"}]
  /\ Modes \subseteq [Leaves -> {"synchronous", "asynchronous"}]
  /\ Events \subseteq {"delete", "expire", "restart"} /\ MaxEvents \in Nat

VARIABLES
  method,      \* combinationMethod of each parent
  mode,        \* "_mode" of each simple execution
  rec,         \* the records: executionStatus, whether "_parent" and "_startedNs" are there
  todo,        \* what each thread has still to do
  work,        \* at the executor: "none", "running", "stopped" (by a cancel), "over"
  handed,      \* auxiliary: how often an execution was given to its executor
  disturbed,   \* auxiliary: a cancel was refused, a child's record deleted, or the broker restarted
  events       \* how many of Events there were

vars == <<method, mode, rec, todo, work, handed, disturbed, events>>

-----------------------------------------------------------------------------
Simple(e) == Kids[e] = <<>>

ParentOf(e) == CHOOSE p \in Parents : e \in Range(Kids[p])

\* terminal()
Terminal(status) == status \in {"completed", "failed", "cancelled"}

Live(e)  == rec[e].status \in {"pending", "executing"}
Ended(e) == Terminal(rec[e].status)

\* finish() and ended(): a copy of a record with a terminal status
With(copy, status) == [copy EXCEPT !.status = status]
Untold(copy)       == [copy EXCEPT !.told = FALSE]

\* One entry of a thread's list
Blank == [status |-> "absent", told |-> FALSE, started |-> FALSE]
Entry(at, e, copy) == [at |-> at, e |-> e, copy |-> copy, saw |-> <<>>, all |-> TRUE]
Call(at, e)        == Entry(at, e, Blank)
Each(at, p)        == [i \in DOMAIN Kids[p] |-> Call(at, Kids[p][i])]

Idle(t)      == todo[t] = <<>>
Now(t)       == Head(todo[t])
At(t, place) == todo[t] # <<>> /\ Now(t).at = place

\* The innermost call is over; what it leaves to do comes first
Then(t, calls) == todo' = [todo EXCEPT ![t] = calls \o Tail(@)]

\* One child of the innermost cancelTree could not be cancelled
NotAll(calls) ==
  LET ends == {i \in DOMAIN calls : calls[i].at = "cancelEnd"}
  IN  IF ends = {} THEN calls
      ELSE [calls EXCEPT ![CHOOSE i \in ends : \A j \in ends : i <= j].all = FALSE]

\* An event of the environment, within its bound
Happens(kind) == kind \in Events /\ events < MaxEvents /\ events' = events + 1

-----------------------------------------------------------------------------
\* POST /services: every record stored, pending, and the root about to be started
Init ==
  /\ method \in Methods
  /\ mode \in Modes
  /\ rec = [e \in Exec |-> [status |-> "pending", told |-> e # Root, started |-> FALSE]]
  /\ work = [e \in Leaves |-> "none"]
  /\ handed = [e \in Leaves |-> 0]
  /\ todo = [t \in Thread |-> IF t = Creator THEN <<Call("start", Root)>> ELSE <<>>]
  /\ disturbed = FALSE
  /\ events = 0

-----------------------------------------------------------------------------
(* startNode, seExecutionStart *)

\* Faulty variants: a sequence's children all started; the start not stored
StartNodeAll(t) ==
  /\ At(t, "start")
  /\ LET e       == Now(t).e
         running == [rec[e] EXCEPT !.status = "executing", !.started = Simple(e)]
     IN  Then(t,
           IF rec[e].status = "absent" THEN <<>>
           ELSE IF ~Simple(e) THEN <<Entry("store", e, running)>> \o Each("start", e)
           ELSE IF mode[e] = "asynchronous"
           THEN <<Entry("store", e, running), Entry("hand", e, running)>>
           ELSE <<Entry("hand", e, [rec[e] EXCEPT !.started = TRUE])>>)
  /\ UNCHANGED <<method, mode, rec, work, handed, disturbed, events>>

StartNodeUntimed(t) ==
  /\ At(t, "start")
  /\ LET e       == Now(t).e
         running == [rec[e] EXCEPT !.status = "executing"]
     IN  Then(t,
           IF rec[e].status = "absent" THEN <<>>
           ELSE IF ~Simple(e)
           THEN <<Entry("store", e, running)>>
                \o (IF method[e] = "parallel" THEN Each("start", e) ELSE <<Call("start", Kids[e][1])>>)
           ELSE IF mode[e] = "asynchronous"
           THEN <<Entry("store", e, running), Entry("hand", e, running)>>
           ELSE <<Entry("hand", e, rec[e])>>)
  /\ UNCHANGED <<method, mode, rec, work, handed, disturbed, events>>

\* A parent: stored as executing, then its first child started, or all of them.  An asynchronous
\* execution: stored as executing before its hand-off.  A synchronous one: handed over as it is.
StartNode(t) ==
  /\ At(t, "start")
  /\ LET e       == Now(t).e
         running == [rec[e] EXCEPT !.status = "executing", !.started = Simple(e)]
     IN  Then(t,
           IF rec[e].status = "absent" THEN <<>>
           ELSE IF ~Simple(e)
           THEN <<Entry("store", e, running)>>
                \o (IF method[e] = "parallel" THEN Each("start", e) ELSE <<Call("start", Kids[e][1])>>)
           ELSE IF mode[e] = "asynchronous"
           THEN <<Entry("store", e, running), Entry("hand", e, running)>>
           ELSE <<Entry("hand", e, [rec[e] EXCEPT !.started = TRUE])>>)
  /\ UNCHANGED <<method, mode, rec, work, handed, disturbed, events>>

\* forward: the executor takes it
HandOver(t) ==
  /\ At(t, "hand")
  /\ LET e == Now(t).e
     IN  /\ work' = [work EXCEPT ![e] = "running"]
         /\ handed' = [handed EXCEPT ![e] = @ + 1]
         /\ Then(t, IF mode[e] = "synchronous" THEN <<Entry("answer", e, Now(t).copy)>> ELSE <<>>)
  /\ UNCHANGED <<method, mode, rec, disturbed, events>>

\* ... or not: no answer, a refusal, an input that cannot be read.  No answer in time does not
\* say that the executor did not take it
HandOverFails(t) ==
  /\ At(t, "hand")
  /\ LET e == Now(t).e
     IN  /\ \E took \in BOOLEAN :
              /\ work' = [work EXCEPT ![e] = IF took THEN "running" ELSE @]
              /\ handed' = [handed EXCEPT ![e] = IF took THEN @ + 1 ELSE @]
         /\ Then(t, <<Entry("store", e, With(Now(t).copy, "failed"))>>)
  /\ UNCHANGED <<method, mode, rec, disturbed, events>>

\* A synchronous executor's answer, or the end of the wait for it
Answer(t) ==
  /\ At(t, "answer")
  /\ \E status \in {"completed", "failed"} :
       Then(t, <<Entry("store", Now(t).e, With(Now(t).copy, status))>>)
  /\ work' = [work EXCEPT ![Now(t).e] = "over"]
  /\ UNCHANGED <<method, mode, rec, handed, disturbed, events>>

-----------------------------------------------------------------------------
(* seExecutionStore *)

\* Faulty variant: no second look at the record
StoreBlind(t) ==
  /\ At(t, "store")
  /\ LET e    == Now(t).e
         copy == Now(t).copy
         in   == rec[e].status # "absent"
     IN  /\ rec' = IF in THEN [rec EXCEPT ![e] = copy] ELSE rec
         /\ Then(t, IF in /\ copy.told /\ Terminal(copy.status) THEN <<Call("childEnded", ParentOf(e))>> ELSE <<>>)
  /\ UNCHANGED <<method, mode, work, handed, disturbed, events>>

\* Under storeMutex: one that ended meanwhile changes no more.  A child that ends is told to its
\* parent, on the same thread; one that is not there any more could not be cancelled
Store(t) ==
  /\ At(t, "store")
  /\ LET e      == Now(t).e
         copy   == Now(t).copy
         missed == rec[e].status = "absent" /\ Simple(e) /\ copy.status = "cancelled"
         tells  == Live(e) /\ copy.told /\ Terminal(copy.status)
     IN  /\ rec' = IF Live(e) THEN [rec EXCEPT ![e] = copy] ELSE rec
         /\ IF missed
            THEN todo' = [todo EXCEPT ![t] = NotAll(Tail(@))]
            ELSE Then(t, IF tells THEN <<Call("childEnded", ParentOf(e))>> ELSE <<>>)
  /\ UNCHANGED <<method, mode, work, handed, disturbed, events>>

-----------------------------------------------------------------------------
(* seCombinedChildEnded *)

\* The parent read: ended already, nothing to do
ChildEnded(t) ==
  /\ At(t, "childEnded")
  /\ Then(t, IF Live(Now(t).e) THEN <<Entry("look", Now(t).e, rec[Now(t).e])>> ELSE <<>>)
  /\ UNCHANGED <<method, mode, rec, work, handed, disturbed, events>>

\* Faulty variant: only the failed ones counted
WrongFailedOnly(saw) == \E i \in DOMAIN saw : saw[i] = "failed"

Wrong(saw) == \E i \in DOMAIN saw : saw[i] \in {"failed", "cancelled"}

\* The first child that is pending, if there is one
NextPending(saw) == {i \in DOMAIN saw : saw[i] = "pending" /\ \A j \in 1..(i - 1) : saw[j] # "pending"}

\* What follows from the children's statuses
AfterLook(p, copy, saw) ==
  LET end == <<Entry("store", p, With(copy, IF Wrong(saw) THEN "failed" ELSE "completed"))>>
  IN  IF method[p] = "parallel"
      THEN IF \A i \in DOMAIN saw : Terminal(saw[i]) THEN end ELSE <<>>
      ELSE IF Wrong(saw) THEN Each("drop", p) \o end
      ELSE IF NextPending(saw) # {} THEN <<Call("start", Kids[p][CHOOSE i \in NextPending(saw) : TRUE])>>
      ELSE IF \A i \in DOMAIN saw : saw[i] = "completed" THEN end
      ELSE <<>>

\* The children read, one after the other
Look(t) ==
  /\ At(t, "look")
  /\ LET p   == Now(t).e
         saw == Append(Now(t).saw, rec[Kids[p][Len(Now(t).saw) + 1]].status)
     IN  Then(t, IF Len(saw) < Len(Kids[p]) THEN <<[Now(t) EXCEPT !.saw = saw]>>
                 ELSE AfterLook(p, Now(t).copy, saw))
  /\ UNCHANGED <<method, mode, rec, work, handed, disturbed, events>>

\* Faulty variant: a status nobody knows
DropMisspelt(t) ==
  /\ At(t, "drop")
  /\ LET k == Now(t).e
     IN  Then(t, IF rec[k].status = "pending"
                 THEN <<Entry("replace", k, Untold(With(rec[k], "canceled")))>> ELSE <<>>)
  /\ UNCHANGED <<method, mode, rec, work, handed, disturbed, events>>

\* A sequence that went wrong: a child not started yet is read ...
Drop(t) ==
  /\ At(t, "drop")
  /\ LET k == Now(t).e
     IN  Then(t, IF rec[k].status = "pending"
                 THEN <<Entry("replace", k, Untold(With(rec[k], "cancelled")))>> ELSE <<>>)
  /\ UNCHANGED <<method, mode, rec, work, handed, disturbed, events>>

\* ... and replaced, without seExecutionStore
Replace(t) ==
  /\ At(t, "replace")
  /\ LET k == Now(t).e
     IN  rec' = IF rec[k].status = "absent" THEN rec ELSE [rec EXCEPT ![k] = Now(t).copy]
  /\ Then(t, <<>>)
  /\ UNCHANGED <<method, mode, work, handed, disturbed, events>>

-----------------------------------------------------------------------------
(* seExecutionUpdate, seExecutionApplyBridge: an asynchronous executor reports the end, once or   *)
(* more often                                                                                     *)

Report(t, e) ==
  /\ Idle(t) /\ t # Loop
  /\ mode[e] = "asynchronous" /\ work[e] = "running"
  /\ \E again \in BOOLEAN : work' = [work EXCEPT ![e] = IF again THEN @ ELSE "over"]
  /\ \E status \in {"completed", "failed"} :
       todo' = [todo EXCEPT ![t] = IF Live(e) THEN <<Entry("store", e, With(rec[e], status))>> ELSE <<>>]
  /\ UNCHANGED <<method, mode, rec, handed, disturbed, events>>

-----------------------------------------------------------------------------
(* seExecutionCancel, seExecutionCancelOne, seCombinedCancel, cancelTree, deleteTree *)

\* A simple execution: its executor asked if it is executing, then stored as cancelled
CancelSimple(e, copy) ==
  <<Entry(IF copy.status = "executing" THEN "cancelCall" ELSE "store", e, With(copy, "cancelled"))>>

\* A parent: its children first
CancelParent(p, copy) == Each("cancelKid", p) \o <<Entry("cancelEnd", p, With(copy, "cancelled"))>>

\* DELETE of an execution
Delete(t, e) ==
  /\ Idle(t) /\ t # Loop
  /\ Happens("delete")
  /\ todo' = [todo EXCEPT ![t] =
       IF rec[e].status = "absent" THEN <<>>
       ELSE IF Ended(e) THEN <<Call(IF Simple(e) THEN "remove" ELSE "deleteTree", e)>>
       ELSE IF Simple(e) THEN CancelSimple(e, rec[e])
       ELSE CancelParent(e, rec[e])]
  /\ UNCHANGED <<method, mode, rec, work, handed, disturbed>>

\* cancelTree: a child read; ended, it is left as it is; the parent is ending, and not told
CancelKid(t) ==
  /\ At(t, "cancelKid")
  /\ LET k == Now(t).e
     IN  Then(t, IF ~Live(k) THEN <<>>
                 ELSE IF Simple(k) THEN CancelSimple(k, Untold(rec[k]))
                 ELSE CancelParent(k, Untold(rec[k])))
  /\ UNCHANGED <<method, mode, rec, work, handed, disturbed, events>>

\* The executor stops it, or knows it no more
CancelCall(t) ==
  /\ At(t, "cancelCall")
  /\ work' = [work EXCEPT ![Now(t).e] = IF @ = "running" THEN "stopped" ELSE @]
  /\ Then(t, <<Entry("store", Now(t).e, Now(t).copy)>>)
  /\ UNCHANGED <<method, mode, rec, handed, disturbed, events>>

\* "It goes on", or the executor cannot be asked
CancelRefused(t) ==
  /\ At(t, "cancelCall")
  /\ todo' = [todo EXCEPT ![t] = NotAll(Tail(@))]
  /\ disturbed' = TRUE
  /\ UNCHANGED <<method, mode, rec, work, handed, events>>

\* Faulty variant: refused or not
CancelEndAnyway(t) ==
  /\ At(t, "cancelEnd")
  /\ Then(t, <<Entry("store", Now(t).e, Now(t).copy)>>)
  /\ UNCHANGED <<method, mode, rec, work, handed, disturbed, events>>

\* All cancelled: the parent too.  If not, the parent goes on (and the one above it)
CancelEnd(t) ==
  /\ At(t, "cancelEnd")
  /\ IF Now(t).all
     THEN Then(t, <<Entry("store", Now(t).e, Now(t).copy)>>)
     ELSE todo' = [todo EXCEPT ![t] = NotAll(Tail(@))]
  /\ UNCHANGED <<method, mode, rec, work, handed, disturbed, events>>

\* deleteTree: the children, then the execution itself
DeleteTree(t) ==
  /\ At(t, "deleteTree")
  /\ LET e == Now(t).e
     IN  Then(t, IF rec[e].status = "absent" THEN <<>> ELSE Each("deleteTree", e) \o <<Call("remove", e)>>)
  /\ UNCHANGED <<method, mode, rec, work, handed, disturbed, events>>

\* A record goes; a parent that still runs misses it
Gone(e) ==
  /\ rec' = [rec EXCEPT ![e] = Blank]
  /\ disturbed' = (disturbed \/ (e # Root /\ Live(ParentOf(e))))

Remove(t) ==
  /\ At(t, "remove")
  /\ Gone(Now(t).e)
  /\ Then(t, <<>>)
  /\ UNCHANGED <<method, mode, work, handed, events>>

-----------------------------------------------------------------------------
(* seExecutionSweep, on the loop's thread *)

\* Not ended within its executionTimeout
SweepTimeout(e) ==
  /\ Idle(Loop) /\ Live(e) /\ rec[e].started
  /\ todo' = [todo EXCEPT ![Loop] = <<Entry("store", e, With(rec[e], "failed"))>>]
  /\ UNCHANGED <<method, mode, rec, work, handed, disturbed, events>>

\* Ended 24 hours ago
SweepExpired(e) ==
  /\ Idle(Loop) /\ Ended(e)
  /\ Happens("expire")
  /\ Gone(e)
  /\ UNCHANGED <<method, mode, todo, work, handed>>

\* The broker restarts: the records stay, what its threads had to do is gone
Crash ==
  /\ Happens("restart")
  /\ todo' = [t \in Thread |-> <<>>]
  /\ disturbed' = TRUE
  /\ UNCHANGED <<method, mode, rec, work, handed>>

-----------------------------------------------------------------------------
\* What a thread does of the call it is in
Step(t) ==
  \/ StartNode(t) \/ HandOver(t) \/ HandOverFails(t) \/ Answer(t) \/ Store(t)
  \/ ChildEnded(t) \/ Look(t) \/ Drop(t) \/ Replace(t)
  \/ CancelKid(t) \/ CancelCall(t) \/ CancelRefused(t) \/ CancelEnd(t)
  \/ DeleteTree(t) \/ Remove(t)

Next ==
  \/ \E t \in Thread : Step(t)
  \/ \E t \in Thread, e \in Leaves : Report(t, e)
  \/ \E t \in Thread, e \in Target : Delete(t, e)
  \/ \E e \in Leaves : SweepTimeout(e)
  \/ \E e \in Exec : SweepExpired(e)
  \/ Crash

Spec == Init /\ [][Next]_vars

\* A thread goes on, its waits are bounded (forward's timeouts), and the periodic loop ticks;
\* nothing is assumed of executors or clients
FairSpec ==
  /\ Spec
  /\ \A t \in Thread : WF_vars(Step(t))
  /\ \A e \in Leaves : WF_vars(SweepTimeout(e))

-----------------------------------------------------------------------------
(* Properties *)

Status == {"absent", "pending", "executing", "completed", "failed", "cancelled"}
Place  == {"start", "hand", "answer", "store", "childEnded", "look", "drop", "replace",
           "cancelKid", "cancelCall", "cancelEnd", "deleteTree", "remove"}
Record == [status : Status, told : BOOLEAN, started : BOOLEAN]

\* Every variable keeps its type: the one type invariant of the module
TypeOK ==
  /\ method \in [Parents -> {"sequential", "parallel"}]
  /\ mode \in [Leaves -> {"synchronous", "asynchronous"}]
  /\ rec \in [Exec -> Record]
  /\ \A t \in Thread :
       todo[t] \in Seq([at : Place, e : Exec, copy : Record, saw : Seq(Status), all : BOOLEAN])
  /\ work \in [Leaves -> {"none", "running", "stopped", "over"}]
  /\ handed \in [Leaves -> Nat]
  /\ disturbed \in BOOLEAN

\* An execution that ended changes no more, whatever copies read before it ended are stored back:
\* reports sent twice, a time-out against a report, a cancel against both (storeMutex)
EndedStays ==
  [][\A e \in Exec : Ended(e) => rec'[e].status \in {rec[e].status, "absent"}]_vars

\* However many children end at once, and on however many threads that is found, no execution is
\* given to its executor twice
HandedOnce == \A e \in Leaves : handed[e] <= 1

\* In a sequence nothing is given to an executor before all that comes ahead of it has completed
InSequence ==
  \A p \in Parents : method[p] = "sequential" =>
    \A i, j \in DOMAIN Kids[p] :
      i < j /\ (\E e \in Under[Kids[p][j]] \cap Leaves : handed[e] > 0)
        => rec[Kids[p][i]].status \in {"completed", "absent"}

\* A parent's end is its children's: completed when they all completed, failed only if one failed or
\* was cancelled
ParentTrue ==
  \A p \in Parents :
    LET of == {rec[k].status : k \in Range(Kids[p])}
    IN  /\ rec[p].status = "completed" => of \subseteq {"completed", "absent"}
        /\ rec[p].status = "failed" => of \cap {"failed", "cancelled", "absent"} # {}

\* Once the request's execution has ended - completed, failed, or cancelled by a DELETE that was
\* answered 204 - none of its children is left pending or executing
RootEndsAll == Ended(Root) => \A k \in Range(Kids[Root]) : ~Live(k)

\* A parent that runs ends - unless a cancel was refused, a record deleted under it, or the broker
\* restarted: executors that never report and children that end at the same time do not leave it
\* running
ParentEnds ==
  \A p \in Parents : rec[p].status = "executing" ~> ~Live(p) \/ disturbed

\* What seCombined.h says of every parent: it ends when its children have ended
ParentEndsAlways ==
  \A p \in Parents :
    rec[p].status = "executing" /\ (\A k \in Range(Kids[p]) : Ended(k)) ~> ~Live(p)

\* What service-execution.md says of a DELETE answered 204: the running children are cancelled - one
\* whose record says cancelled does not run on at its executor
CancelStops ==
  rec[Root].status = "cancelled" =>
    \A e \in Leaves : rec[e].status = "cancelled" => work[e] # "running"
=============================================================================
