--------------------------- MODULE BridgeRequests ---------------------------
(***************************************************************************)
(* Requests that write attributes bound to services, actions and topics of *)
(* a bridge: what is sent before the entity is written, the wait for a     *)
(* service's reply or a goal's first event, the request's own write, and   *)
(* the late replies and later events, which the plugin's threads write     *)
(* once the request's notifications are out.                               *)
(*                                                                         *)
(* One entity with an attribute of each kind. A value, a reply and a       *)
(* goal's instance are the request they come from. The plugin is the       *)
(* environment: a service may never answer, a goal be refused, never       *)
(* answered or over at once. A held event waits 1 s more than a request    *)
(* may (bridgeSyncTimeoutMs): its patience ends only after the request. A  *)
(* held reply waits 1 s in all.                                            *)
(***************************************************************************)
EXTENDS Naturals, FiniteSets

CONSTANTS
  Caller,             \* the requests
  WaitMax,            \* bridgeSyncWaitMax: requests that may wait for a service at once
  LongWait,           \* --ddsSyncTimeout is longer than RELEASE_WAIT_MS (it is 200 ms by default)
  MaxDbFault          \* bound: writes the database fails

Nobody == "nobody"
Bound == {"svc", "act", "top"}

ASSUME BridgeAssumption == WaitMax \in Nat /\ LongWait \in BOOLEAN /\ MaxDbFault \in Nat /\ Nobody \notin Caller

VARIABLES
  ent,        \* [svc |-> [val, reply], act |-> [val, inst]]: the entity in the database
  ask,        \* [Caller -> what the request is doing]
  waiter,     \* [Caller -> state of its entry in the list of waiters]
  reply,      \* [Caller -> where the service's reply is]
  goal,       \* [Caller -> its goal in the registry]
  event,      \* [Caller -> where the goal's events are]
  carried,    \* [Caller -> what its reply's or event's thread read]
  goalMutex,  \* the goal whose event or end holds the mutex, or Nobody
  waitingNow, \* requests waiting for a service
  told,       \* requests whose notifications went out
  orphan,     \* (history) goals whose instance a request's write put back from a stale read
  dbFault     \* faults so far

bridgeVars == <<ent, ask, waiter, reply, goal, event, carried, goalMutex, waitingNow, told, orphan, dbFault>>
requestVars == <<ask, waitingNow, told, orphan, dbFault>>
replyVars == <<waiter, reply>>
goalVars == <<goal, event, goalMutex>>

Empty == [svc |-> [val |-> Nobody, reply |-> Nobody], act |-> [val |-> Nobody, inst |-> {}]]
NoGoal == [in |-> FALSE, held |-> FALSE, first |-> "none", endPending |-> FALSE]
Idle == [pc |-> "idle", todo |-> {}, frag |-> {}, route |-> "set", wait |-> FALSE, several |-> FALSE,
         replied |-> FALSE, seen |-> Empty, queued |-> FALSE]

Ask(r, f) == ask' = [ask EXCEPT ![r] = f]
MutexFree == goalMutex = Nobody

-----------------------------------------------------------------------------
(* Sending, before anything is written *)

\* The request waits for its service only with one attribute and on a route that may
BridgeRequestsBeforeWrite(r, attrs, route, mayWait) ==
  /\ ask[r].pc = "idle" /\ attrs # {}
  /\ Ask(r, [Idle EXCEPT !.pc = "send", !.todo = attrs, !.frag = attrs, !.route = route,
                         !.several = Cardinality(attrs) > 1, !.wait = mayWait /\ Cardinality(attrs) = 1])
  /\ UNCHANGED <<ent, replyVars, goalVars, carried, waitingNow, told, orphan, dbFault>>

Sending(r, a) == ask[r].pc = "send" /\ a \in ask[r].todo

\* What cannot be sent is left out of several, and fails the request alone
SentOne(q, a) == [q EXCEPT !.todo = @ \ {a}, !.pc = "send"]
NotTaken(q, a) ==
  IF q.several THEN [q EXCEPT !.todo = @ \ {a}, !.frag = @ \ {a}]
               ELSE [q EXCEPT !.todo = {}, !.frag = {}, !.pc = "failed"]

SendFails(r, a) ==
  /\ Sending(r, a) /\ Ask(r, NotTaken(ask[r], a))
  /\ UNCHANGED <<ent, replyVars, goalVars, carried, waitingNow, told, orphan, dbFault>>

PublishTopic(r) ==
  /\ Sending(r, "top") /\ Ask(r, SentOne(ask[r], "top"))
  /\ UNCHANGED <<ent, replyVars, goalVars, carried, waitingNow, told, orphan, dbFault>>

\* A topic's value is what the merge would store: refused there, the whole request fails
MergedValueRefused(r) ==
  /\ Sending(r, "top") /\ ask[r].route = "merge"
  /\ Ask(r, [ask[r] EXCEPT !.todo = {}, !.frag = {}, !.pc = "failed"])
  /\ UNCHANGED <<ent, replyVars, goalVars, carried, waitingNow, told, orphan, dbFault>>

\* Not waited for, or no slot: the waiter is detached from the start
SendUnwaited(r) ==
  /\ Sending(r, "svc") /\ (~ask[r].wait \/ waitingNow >= WaitMax)
  /\ Ask(r, SentOne(ask[r], "svc"))
  /\ waiter' = [waiter EXCEPT ![r] = "detached"] /\ reply' = [reply EXCEPT ![r] = "due"]
  /\ UNCHANGED <<ent, goalVars, carried, waitingNow, told, orphan, dbFault>>

\* One that fails to go gives its slot back at once: SendFails
SyncInvoke(r) ==
  /\ Sending(r, "svc") /\ ask[r].wait /\ waitingNow < WaitMax
  /\ waitingNow' = waitingNow + 1 /\ Ask(r, [ask[r] EXCEPT !.pc = "wait"])
  /\ waiter' = [waiter EXCEPT ![r] = "waiting"] /\ reply' = [reply EXCEPT ![r] = "due"]
  /\ UNCHANGED <<ent, goalVars, carried, told, orphan, dbFault>>

\* Faulty: only a reply gives the slot back
WaitSlotKeep == UNCHANGED waitingNow

WaitSlotGive == waitingNow' = waitingNow - 1

\* The reply is grafted into the fragment - or is not JSON, and fails the request
SyncReplied(r) ==
  /\ ask[r].pc = "wait" /\ waiter[r] = "answered" /\ WaitSlotGive
  /\ waiter' = [waiter EXCEPT ![r] = "none"]
  /\ \/ Ask(r, [SentOne(ask[r], "svc") EXCEPT !.replied = TRUE])
     \/ Ask(r, NotTaken(ask[r], "svc"))
  /\ UNCHANGED <<ent, reply, goalVars, carried, told, orphan, dbFault>>

SyncTimedOut(r) ==
  /\ ask[r].pc = "wait" /\ waiter[r] = "waiting" /\ WaitSlotGive
  /\ waiter' = [waiter EXCEPT ![r] = "detached"] /\ Ask(r, SentOne(ask[r], "svc"))
  /\ UNCHANGED <<ent, reply, goalVars, carried, told, orphan, dbFault>>

\* Registered, and held, before the plugin is called
BridgeGoalSend(r) ==
  /\ Sending(r, "act") /\ MutexFree
  /\ Ask(r, SentOne(ask[r], "act"))
  /\ goal' = [goal EXCEPT ![r] = [NoGoal EXCEPT !.in = TRUE, !.held = TRUE]]
  /\ event' = [event EXCEPT ![r] = "first"]
  /\ UNCHANGED <<ent, replyVars, carried, goalMutex, waitingNow, told, orphan, dbFault>>

\* Everything sent: the goals are waited for
BridgeRequestsAwait(r) ==
  /\ ask[r].pc = "send" /\ ask[r].todo = {}
  /\ Ask(r, [ask[r] EXCEPT !.pc = IF goal[r].in THEN "await" ELSE "read"])
  /\ UNCHANGED <<ent, replyVars, goalVars, carried, waitingNow, told, orphan, dbFault>>

GoalUnlink(r) == goal' = [goal EXCEPT ![r] = NoGoal]

\* Faulty: cancelled, and left in the registry
GoalDropListed(r) == UNCHANGED <<goal, goalMutex>>
\* Faulty: an early return keeps the mutex
GoalDropLocked(r) == GoalUnlink(r) /\ goalMutex' = r

\* Out of the registry first: what the goal says after that finds no goal
GoalDrop(r) == GoalUnlink(r) /\ UNCHANGED goalMutex

Refused(first) == first = "refused"

GoalTaken(r) ==
  /\ ask[r].pc = "await" /\ MutexFree /\ goal[r].first \in {"accepted", "over"}
  /\ goal' = [goal EXCEPT ![r].first = "none", ![r].endPending = (goal[r].first = "over")]
  /\ Ask(r, [ask[r] EXCEPT !.pc = "read"])
  /\ UNCHANGED <<ent, replyVars, event, goalMutex, carried, waitingNow, told, orphan, dbFault>>

\* Refused, or not answered in time: of several it is left out, alone it fails the request
GoalNotTaken(r) ==
  /\ ask[r].pc = "await" /\ MutexFree
  /\ \/ Refused(goal[r].first) /\ GoalUnlink(r) /\ UNCHANGED goalMutex
     \/ goal[r].first = "none" /\ GoalDrop(r)
  /\ Ask(r, [NotTaken(ask[r], "act") EXCEPT !.pc = IF ask[r].several THEN "read" ELSE "failed"])
  /\ UNCHANGED <<ent, replyVars, event, carried, waitingNow, told, orphan, dbFault>>

\* The goals of a request that fails are abandoned; what else it sent is released as if written
RequestsFailed(r) ==
  /\ ask[r].pc = "failed" /\ MutexFree
  /\ IF goal[r].in THEN GoalDrop(r) ELSE UNCHANGED <<goal, goalMutex>>
  /\ Ask(r, [ask[r] EXCEPT !.pc = "hook", !.queued = TRUE])
  /\ UNCHANGED <<ent, replyVars, event, carried, waitingNow, told, orphan, dbFault>>

-----------------------------------------------------------------------------
(* The request's write *)

\* The store's own read (set) or the routine's (merge); with nothing left there is no write
ReadEntity(r) ==
  /\ ask[r].pc = "read"
  /\ Ask(r, IF ask[r].frag = {} THEN [ask[r] EXCEPT !.pc = "hook", !.queued = TRUE]
                                ELSE [ask[r] EXCEPT !.pc = "write", !.seen = ent])
  /\ UNCHANGED <<ent, replyVars, goalVars, carried, waitingNow, told, orphan, dbFault>>

\* PATCH of the entity refuses the merge, or finds no entity, after everything was sent:
\* nobody says "written"
MergeRefused(r) ==
  /\ ask[r].pc = "read" /\ ask[r].route = "merge" /\ ask[r].frag # {}
  /\ Ask(r, [ask[r] EXCEPT !.pc = "hook"])
  /\ UNCHANGED <<ent, replyVars, goalVars, carried, waitingNow, told, orphan, dbFault>>

\* The whole attribute, as it was read and with the fragment in it. A merge keeps the
\* reply the instance had
FragmentWritten(r) ==
  LET q == ask[r]
  IN  [svc |-> IF "svc" \notin q.frag THEN ent.svc
               ELSE [val |-> r, reply |-> IF q.replied THEN r ELSE IF q.route = "merge" THEN q.seen.svc.reply ELSE Nobody],
       act |-> IF "act" \notin q.frag THEN ent.act
               ELSE [val |-> r, inst |-> q.seen.act.inst \cup {r}]]

\* Faulty: what was sent is released with the write, ahead of the notifications
BridgeRequestsWrittenAtOnce(r) ==
  /\ waiter' = [waiter EXCEPT ![r] = IF @ = "detached" THEN "released" ELSE @]
  /\ goal' = [goal EXCEPT ![r].held = FALSE]

\* Queued for the post-response hook, no more
BridgeRequestsWritten(r) == UNCHANGED <<waiter, goal>>

WriteEntity(r) ==
  /\ ask[r].pc = "write" /\ BridgeRequestsWritten(r)
  /\ ent' = FragmentWritten(r)
  /\ orphan' = IF "act" \in ask[r].frag THEN orphan \cup (ask[r].seen.act.inst \ ent.act.inst) ELSE orphan
  /\ Ask(r, [ask[r] EXCEPT !.pc = "hook", !.queued = TRUE, !.seen = Empty])
  /\ UNCHANGED <<reply, event, goalMutex, carried, waitingNow, told, dbFault>>

WriteFails(r) ==
  /\ ask[r].pc = "write" /\ dbFault < MaxDbFault /\ dbFault' = dbFault + 1
  /\ BridgeRequestsWritten(r)
  /\ Ask(r, [ask[r] EXCEPT !.pc = "hook", !.queued = TRUE, !.seen = Empty])
  /\ UNCHANGED <<ent, reply, event, goalMutex, carried, waitingNow, told, orphan>>

\* The post-response hook: the notifications, then what was queued
NotifyDispatchPending(r) ==
  /\ ask[r].pc = "hook" /\ told' = told \cup {r}
  /\ Ask(r, [Idle EXCEPT !.pc = IF ask[r].queued THEN "release" ELSE "done", !.frag = ask[r].frag])
  /\ UNCHANGED <<ent, replyVars, goalVars, carried, waitingNow, orphan, dbFault>>

DetachedRelease(r) ==
  /\ ask[r].pc = "release" /\ Ask(r, [ask[r] EXCEPT !.pc = "releaseGoal"])
  /\ waiter' = [waiter EXCEPT ![r] = IF @ = "detached" THEN "released" ELSE @]
  /\ UNCHANGED <<ent, reply, goalVars, carried, waitingNow, told, orphan, dbFault>>

\* Faulty: a goal over with its first event is taken for one that runs
BridgeGoalReleaseOnly(r) ==
  /\ ask[r].pc = "releaseGoal" /\ MutexFree /\ Ask(r, [ask[r] EXCEPT !.pc = "done"])
  /\ goal' = [goal EXCEPT ![r].held = FALSE] /\ UNCHANGED event
  /\ UNCHANGED <<ent, replyVars, goalMutex, carried, waitingNow, told, orphan, dbFault>>

\* A goal that ended with its first event: a thread of its own ends it
BridgeGoalRelease(r) ==
  /\ ask[r].pc = "releaseGoal" /\ MutexFree /\ Ask(r, [ask[r] EXCEPT !.pc = "done"])
  /\ goal' = [goal EXCEPT ![r].held = FALSE, ![r].endPending = FALSE]
  /\ event' = [event EXCEPT ![r] = IF goal[r].endPending THEN "ending" ELSE @]
  /\ UNCHANGED <<ent, replyVars, goalMutex, carried, waitingNow, told, orphan, dbFault>>

-----------------------------------------------------------------------------
(* Replies, on the plugin's threads *)

ReplyIn(r) ==
  /\ reply[r] = "due"
  /\ \/ waiter[r] = "waiting" /\ waiter' = [waiter EXCEPT ![r] = "answered"] /\ reply' = [reply EXCEPT ![r] = "given"]
     \/ waiter[r] = "detached" /\ reply' = [reply EXCEPT ![r] = "held"] /\ UNCHANGED waiter
     \/ waiter[r] = "released" /\ waiter' = [waiter EXCEPT ![r] = "none"] /\ reply' = [reply EXCEPT ![r] = "find"]
  /\ UNCHANGED <<ent, goalVars, carried, requestVars>>

\* A reply's second may run out on a request that waits for a goal, if that wait is the longer
OutOfPatience == IF LongWait THEN {"await", "done"} ELSE {"done"}

\* Released by the hook - or not, by a request that is over without a word
ReplyReleased(r) ==
  /\ reply[r] = "held" /\ (waiter[r] = "released" \/ ask[r].pc \in OutOfPatience)
  /\ waiter' = [waiter EXCEPT ![r] = "none"] /\ reply' = [reply EXCEPT ![r] = "find"]
  /\ UNCHANGED <<ent, goalVars, carried, requestVars>>

\* What the instance holds is carried over; with no value there is nothing to answer
ReplyFind(r) ==
  /\ reply[r] = "find"
  /\ reply' = [reply EXCEPT ![r] = IF ent.svc.val = Nobody THEN "dropped" ELSE "land"]
  /\ carried' = [carried EXCEPT ![r] = ent]
  /\ UNCHANGED <<ent, waiter, goalVars, requestVars>>

ReplyLand(r) ==
  /\ reply[r] = "land" /\ reply' = [reply EXCEPT ![r] = "landed"]
  /\ ent' = [ent EXCEPT !.svc = [val |-> carried[r].svc.val, reply |-> r]]
  /\ carried' = [carried EXCEPT ![r] = Empty]
  /\ UNCHANGED <<waiter, goalVars, requestVars>>

-----------------------------------------------------------------------------
(* The goals' events, each under the mutex, its write included *)

\* The first one is the request's: never written here
FirstEvent(r) ==
  /\ event[r] = "first" /\ MutexFree
  /\ \/ ~goal[r].in /\ event' = [event EXCEPT ![r] = "none"] /\ UNCHANGED goal
     \/ /\ goal[r].in
        /\ \E f \in {"accepted", "refused", "over"} :
             /\ goal' = [goal EXCEPT ![r].first = f]
             /\ event' = [event EXCEPT ![r] = IF f = "over" THEN "none" ELSE "more"]
  /\ UNCHANGED <<ent, replyVars, carried, goalMutex, requestVars>>

\* A later one waits while its goal is held, and is dropped when that is gone
GoalEvent(r, final) ==
  /\ event[r] = "more" /\ MutexFree
  /\ LET write == IF final THEN "findLast" ELSE "find"
         wait == IF final THEN "heldLast" ELSE "held"
     IN  event' = [event EXCEPT ![r] = IF ~goal[r].in THEN "none" ELSE IF goal[r].held THEN wait ELSE write]
  /\ goalMutex' = IF goal[r].in /\ ~goal[r].held THEN r ELSE Nobody
  /\ UNCHANGED <<ent, replyVars, carried, goal, requestVars>>

\* Woken: by the release, by the goal's being dropped, or by the end of its patience
GoalEventWoken(r) ==
  /\ event[r] \in {"held", "heldLast"} /\ MutexFree
  /\ \/ /\ goal[r].in /\ (~goal[r].held \/ ask[r].pc = "done")
        /\ event' = [event EXCEPT ![r] = IF @ = "held" THEN "find" ELSE "findLast"]
        /\ goal' = [goal EXCEPT ![r].held = FALSE] /\ goalMutex' = r
     \/ ~goal[r].in /\ event' = [event EXCEPT ![r] = "none"] /\ UNCHANGED <<goal, goalMutex>>
  /\ UNCHANGED <<ent, replyVars, carried, requestVars>>

BridgeGoalFind(r) ==
  /\ event[r] \in {"find", "findLast"} /\ goalMutex = r
  /\ carried' = [carried EXCEPT ![r] = ent]
  /\ event' = [event EXCEPT ![r] = IF @ = "find" THEN "write" ELSE "writeLast"]
  /\ UNCHANGED <<ent, replyVars, goal, goalMutex, requestVars>>

\* A state change alone has nothing to write - and nor has what cannot be written
GoalEventUnwritten(r) ==
  /\ event[r] \in {"find", "findLast"} /\ goalMutex = r
  /\ IF event[r] = "find" THEN goalMutex' = Nobody /\ event' = [event EXCEPT ![r] = "more"]
                          ELSE UNCHANGED goalMutex /\ event' = [event EXCEPT ![r] = "end"]
  /\ UNCHANGED <<ent, carried, goal, replyVars, requestVars>>

BridgeGoalWrite(r) ==
  /\ event[r] \in {"write", "writeLast"} /\ goalMutex = r
  /\ ent' = [ent EXCEPT !.act = [carried[r].act EXCEPT !.inst = @ \cup {r}]]
  /\ carried' = [carried EXCEPT ![r] = Empty]
  /\ IF event[r] = "write" THEN goalMutex' = Nobody /\ event' = [event EXCEPT ![r] = "more"]
                           ELSE UNCHANGED goalMutex /\ event' = [event EXCEPT ![r] = "end"]
  /\ UNCHANGED <<goal, replyVars, requestVars>>

GoalEndThread(r) ==
  /\ event[r] = "ending" /\ MutexFree /\ goalMutex' = r
  /\ event' = [event EXCEPT ![r] = "end"]
  /\ UNCHANGED <<ent, replyVars, goal, carried, requestVars>>

GoalEnded(r) == GoalUnlink(r) /\ goalMutex' = Nobody /\ event' = [event EXCEPT ![r] = "none"]

\* The instance is taken out of the entity as it was read, and that is put back whole
GoalInstanceFind(r) ==
  /\ event[r] = "end" /\ goalMutex = r
  /\ IF r \in ent.act.inst
     THEN /\ carried' = [carried EXCEPT ![r] = ent] /\ event' = [event EXCEPT ![r] = "remove"]
          /\ UNCHANGED <<goal, goalMutex>>
     ELSE GoalEnded(r) /\ UNCHANGED carried
  /\ UNCHANGED <<ent, replyVars, requestVars>>

GoalInstanceRemove(r) ==
  /\ event[r] = "remove" /\ goalMutex = r
  /\ ent' = [carried[r] EXCEPT !.act.inst = @ \ {r}]
  /\ carried' = [carried EXCEPT ![r] = Empty]
  /\ GoalEnded(r) /\ UNCHANGED <<replyVars, requestVars>>

-----------------------------------------------------------------------------
BridgeInit ==
  /\ ent = Empty /\ ask = [r \in Caller |-> Idle] /\ waiter = [r \in Caller |-> "none"]
  /\ reply = [r \in Caller |-> "none"] /\ goal = [r \in Caller |-> NoGoal] /\ event = [r \in Caller |-> "none"]
  /\ carried = [r \in Caller |-> Empty] /\ goalMutex = Nobody /\ waitingNow = 0
  /\ told = {} /\ orphan = {} /\ dbFault = 0

RequestBegins(r) ==
  \E attrs \in SUBSET Bound, route \in {"set", "merge"}, mayWait \in BOOLEAN :
    BridgeRequestsBeforeWrite(r, attrs, route, mayWait)

RequestRuns(r) ==
  \/ PublishTopic(r) \/ SendUnwaited(r) \/ SyncInvoke(r) \/ SyncReplied(r) \/ SyncTimedOut(r)
  \/ BridgeGoalSend(r) \/ BridgeRequestsAwait(r) \/ GoalTaken(r) \/ GoalNotTaken(r) \/ RequestsFailed(r)
  \/ ReadEntity(r) \/ WriteEntity(r) \/ NotifyDispatchPending(r) \/ DetachedRelease(r) \/ BridgeGoalRelease(r)

Refusal(r) == (\E a \in Bound : SendFails(r, a)) \/ MergedValueRefused(r) \/ MergeRefused(r) \/ WriteFails(r)

PluginThread(r) ==
  \/ ReplyReleased(r) \/ ReplyFind(r) \/ ReplyLand(r) \/ GoalEventWoken(r) \/ BridgeGoalFind(r) \/ GoalEventUnwritten(r)
  \/ BridgeGoalWrite(r) \/ GoalEndThread(r) \/ GoalInstanceFind(r) \/ GoalInstanceRemove(r)

PluginCalls(r) == ReplyIn(r) \/ FirstEvent(r) \/ \E final \in BOOLEAN : GoalEvent(r, final)

BridgeNext == \E r \in Caller : RequestBegins(r) \/ RequestRuns(r) \/ Refusal(r) \/ PluginThread(r) \/ PluginCalls(r)

\* Threads run, and a thread waiting for the mutex gets it in the end; the plugin owes no call
BridgeFairness == \A r \in Caller : SF_bridgeVars(RequestRuns(r)) /\ SF_bridgeVars(PluginThread(r))
BridgeSpec == BridgeInit /\ [][BridgeNext]_bridgeVars /\ BridgeFairness

-----------------------------------------------------------------------------
(* Properties *)

Someone == Caller \cup {Nobody}
Entity == [svc : [val : Someone, reply : Someone], act : [val : Someone, inst : SUBSET Caller]]

\* Types; every slot of the cap is held by a request that waits; the mutex by an event that is being written
BridgeTypeOK ==
  /\ ent \in Entity /\ carried \in [Caller -> Entity]
  /\ goal \in [Caller -> [in : BOOLEAN, held : BOOLEAN, first : {"none", "accepted", "refused", "over"},
                          endPending : BOOLEAN]]
  /\ waiter \in [Caller -> {"none", "waiting", "answered", "detached", "released"}]
  /\ told \subseteq Caller /\ orphan \subseteq Caller /\ dbFault \in 0..MaxDbFault
  /\ waitingNow = Cardinality({r \in Caller : ask[r].pc = "wait"}) /\ waitingNow <= WaitMax
  /\ goalMutex # Nobody => event[goalMutex] \in {"find", "findLast", "write", "writeLast", "end", "remove"}

\* A goal that was refused, never answered or abandoned leaves no trace: whatever it still says,
\* no instance of it is ever written. (But for a merge refused after the goals went.)
RefusedLeavesNoTrace ==
  \A r \in Caller :
    ask[r].pc \in {"hook", "release", "releaseGoal", "done"} /\ "act" \notin ask[r].frag => r \notin ent.act.inst

\* A request's own write and notifications come first: its service's late reply and its goal's later
\* events are not even read for before its notifications are out, "so that no subscriber hears the
\* reply before the value"
RequestBeforeItsAnswers ==
  \A r \in Caller :
    reply[r] \in {"find", "land"} \/ event[r] \in {"find", "findLast", "write", "writeLast", "ending", "end", "remove"}
      => r \in told

Over(r) == event[r] \in {"heldLast", "findLast", "writeLast", "ending", "end", "remove"} \/ goal[r].endPending
Left(r) == r \in ent.act.inst \ orphan /\ (Over(r) \/ ~goal[r].in)

\* No request hangs, on a service, a goal, the slots or the mutex the events hold; and the instance of a
\* goal that is over, or that nobody follows, is removed - unless another request put it back from a stale
\* read
RequestsAndGoalsEnd ==
  (\E r \in Caller : ask[r].pc \notin {"idle", "done"} \/ Left(r)) ~> (\A r \in Caller : ask[r].pc \in {"idle", "done"} /\ ~Left(r))

=============================================================================
