-------------------------------- MODULE Sse --------------------------------
(***************************************************************************)
(* Subscriptions on the event stream of their own POST: the place taken    *)
(* before the subscription is stored, the entry registered before the      *)
(* first notification, the stream that corRest opens later, the tick that  *)
(* ends what nobody reads and deletes its subscription, and the stop and   *)
(* the start of the broker.                                                *)
(*                                                                         *)
(* Each POST has an id of its own. The sequence of a subscription's        *)
(* notifications is 1, 2, ...; what a stream sent is kept as history.   *)
(***************************************************************************)
EXTENDS Naturals, Sequences, FiniteSets

CONSTANTS
  Sub,                \* the subscriptions
  StreamsMax,         \* --sseStreams
  WaitsMax,           \* WAIT_MAX: events kept before the open
  MaxEvent,           \* bound: notifications of one subscription
  MaxKill             \* bound: the broker is killed and started again

ASSUME SseAssumption == "none" \notin Sub /\ StreamsMax \in Nat /\ WaitsMax \in Nat /\ MaxEvent \in Nat /\ MaxKill \in Nat

VARIABLES
  poster,     \* [Sub -> where its POST is]
  stored,     \* subscriptions in the store
  cached,     \* subscriptions in the cache
  entry,      \* [Sub -> its SseEntry]
  stream,     \* [Sub -> corRest's stream]
  gone,       \* streams whose client left or fell behind: a write on them fails
  made,       \* [Sub -> notifications so far]
  sent,    \* [Sub -> (history) events written on the stream]
  entries, reserved, stopping,
  deleter,    \* [{"client", "broker"} -> the DELETE it is running]
  done,       \* subscriptions the broker is to delete, outside the mutex
  broker,     \* "up", "joined", "stopped", or "starting"
  kills       \* faults so far

sseVars == <<poster, stored, cached, entry, stream, gone, made, sent, entries, reserved, stopping, deleter, done, broker, kills>>
listVars == <<entry, stream, made, sent, entries, reserved>>
subVars == <<poster, stored, cached>>
lifeVars == <<gone, stopping, broker, kills>>

NoEntry == [in |-> FALSE, opened |-> FALSE, ended |-> FALSE, forgotten |-> FALSE, waits |-> <<>>, old |-> FALSE]
NoDelete == [sub |-> "none", pc |-> "none"]
Serving == broker \in {"up", "joined"}
Found(s) == entry[s].in /\ ~entry[s].forgotten

-----------------------------------------------------------------------------
(* POST: checked, stored, registered, cached, and its response the stream *)

SseCreateCheck(s) ==
  /\ Serving /\ poster[s] = "idle" /\ UNCHANGED <<stored, cached, entry, stream, made, sent, entries, deleter, done, lifeVars>>
  /\ IF stopping \/ entries + reserved >= StreamsMax
     THEN poster' = [poster EXCEPT ![s] = "refused"] /\ UNCHANGED reserved
     ELSE poster' = [poster EXCEPT ![s] = "store"] /\ reserved' = reserved + 1

\* The store takes it, or the place is free again
SubscriptionCreate(s) ==
  /\ Serving /\ poster[s] = "store" /\ UNCHANGED <<cached, entry, stream, made, sent, entries, deleter, done, lifeVars>>
  /\ \/ stored' = stored \cup {s} /\ poster' = [poster EXCEPT ![s] = "register"] /\ UNCHANGED reserved
     \/ UNCHANGED stored /\ poster' = [poster EXCEPT ![s] = "refused"] /\ reserved' = reserved - 1

SseCreateRegister(s) ==
  /\ Serving /\ poster[s] = "register" /\ poster' = [poster EXCEPT ![s] = "cache"]
  /\ reserved' = reserved - 1 /\ entries' = entries + 1
  /\ entry' = [entry EXCEPT ![s] = [NoEntry EXCEPT !.in = TRUE]]
  /\ UNCHANGED <<stored, cached, stream, made, sent, deleter, done, lifeVars>>

SubCacheItemAdd(s) ==
  /\ Serving /\ poster[s] = "cache" /\ poster' = [poster EXCEPT ![s] = "respond"] /\ cached' = cached \cup {s}
  /\ UNCHANGED <<stored, listVars, deleter, done, lifeVars>>

\* No stream without an entry; a stream that cannot be made ends the entry
SseCreateRespond(s) ==
  /\ Serving /\ poster[s] = "respond" /\ poster' = [poster EXCEPT ![s] = "done"]
  /\ \/ Found(s) /\ stream' = [stream EXCEPT ![s] = "pending"] /\ UNCHANGED entry
     \/ /\ entry' = IF Found(s) THEN [entry EXCEPT ![s].opened = TRUE, ![s].ended = TRUE] ELSE entry
        /\ stream' = [stream EXCEPT ![s] = "over"]
  /\ UNCHANGED <<stored, cached, made, sent, entries, reserved, deleter, done, lifeVars>>

-----------------------------------------------------------------------------
(* The stream *)

EntryEnd(s) ==
  /\ entry' = [entry EXCEPT ![s].ended = TRUE]
  /\ stream' = [stream EXCEPT ![s] = IF @ = "open" THEN "over" ELSE @]

\* Faulty: what waited is dropped
WaitsDropped(s) == <<>>

\* What was made before the open goes on the stream first
WaitsWritten(s) == entry[s].waits

\* The open finds its entry by id: gone, ended or the broker stopping, the stream ends at once
StreamOpened(s) ==
  /\ Serving /\ stream[s] = "pending"
  /\ IF ~entry[s].in THEN stream' = [stream EXCEPT ![s] = "over"] /\ UNCHANGED <<entry, sent>>
     ELSE LET over == entry[s].forgotten \/ entry[s].ended \/ stopping \/ s \in gone
          IN  /\ entry' = [entry EXCEPT ![s].opened = TRUE, ![s].waits = <<>>, ![s].ended = @ \/ over]
              /\ stream' = [stream EXCEPT ![s] = IF over THEN "over" ELSE "open"]
              /\ sent' = IF over THEN sent ELSE [sent EXCEPT ![s] = @ \o WaitsWritten(s)]
  /\ UNCHANGED <<subVars, made, entries, reserved, deleter, done, lifeVars>>

\* A notification of a cached subscription: written, kept for the open, or the stream is over
StreamPut(s) ==
  /\ Serving /\ s \in cached /\ made[s] < MaxEvent /\ Found(s) /\ ~entry[s].ended
  /\ LET n == made[s] + 1 IN
       \/ stream[s] = "open" /\ s \notin gone
          /\ sent' = [sent EXCEPT ![s] = Append(@, n)] /\ made' = [made EXCEPT ![s] = n] /\ UNCHANGED <<entry, stream>>
       \/ stream[s] = "open" /\ s \in gone /\ EntryEnd(s) /\ UNCHANGED <<made, sent>>
       \/ ~entry[s].opened /\ Len(entry[s].waits) = WaitsMax /\ EntryEnd(s) /\ UNCHANGED <<made, sent>>
       \/ ~entry[s].opened /\ Len(entry[s].waits) < WaitsMax
          /\ entry' = [entry EXCEPT ![s].waits = Append(@, n)] /\ made' = [made EXCEPT ![s] = n] /\ UNCHANGED <<stream, sent>>
  /\ UNCHANGED <<subVars, entries, reserved, deleter, done, lifeVars>>

ClientLeaves(s) ==
  /\ stream[s] \in {"pending", "open"} /\ s \notin gone /\ gone' = gone \cup {s}
  /\ UNCHANGED <<subVars, listVars, stopping, deleter, done, broker, kills>>

\* 30 s since it was registered
OpenWaitOver(s) ==
  /\ entry[s].in /\ ~entry[s].opened /\ ~entry[s].old /\ entry' = [entry EXCEPT ![s].old = TRUE]
  /\ UNCHANGED <<subVars, stream, made, sent, entries, reserved, deleter, done, lifeVars>>

-----------------------------------------------------------------------------
(* The tick, under the mutex: what nobody reads ends, the ended are forgotten and *)
(* noted for their deletion, the forgotten go *)

Forgotten(all) ==
  {s \in Sub : Found(s) /\ (all \/ entry[s].ended \/ (stream[s] = "open" /\ s \in gone) \/ (~entry[s].opened /\ entry[s].old))}

\* Faulty: entries of one forgotten and waiting for its open are counted out again
EntriesLeftTwice(all) == entries - Cardinality({s \in Sub : entry[s].in /\ (s \in Forgotten(all) \/ entry[s].forgotten)})
EntriesLeft(all) == entries - Cardinality(Forgotten(all))

\* Faulty: nothing is noted for an entry whose open never came
DoneAddOpened(f) == done' = done \cup {s \in f : entry[s].opened}
DoneAdd(f) == done' = done \cup f

Tick(all) ==
  LET f == Forgotten(all)
      e == [s \in Sub |-> IF s \in f THEN [entry[s] EXCEPT !.ended = TRUE, !.forgotten = TRUE] ELSE entry[s]]
  IN  /\ entry' = [s \in Sub |-> IF e[s].in /\ e[s].forgotten /\ (all \/ e[s].opened \/ e[s].old) THEN NoEntry ELSE e[s]]
      /\ stream' = [s \in Sub |-> IF s \in f /\ stream[s] = "open" THEN "over" ELSE stream[s]]
      /\ entries' = EntriesLeft(all) /\ DoneAdd(f)

\* The thread ticks again once it has run through what it noted
TickThread ==
  /\ broker = "up" /\ ~stopping /\ done = {} /\ deleter["broker"] = NoDelete /\ Tick(FALSE)
  /\ UNCHANGED <<subVars, made, sent, reserved, deleter, lifeVars>>

-----------------------------------------------------------------------------
(* DELETE of a subscription, by a client or by the broker: the store, the cache, the entry *)

DeleteStart(who, s) == deleter' = [deleter EXCEPT ![who] = [sub |-> s, pc |-> "store"]]

ClientDeletes(s) ==
  /\ Serving /\ deleter["client"] = NoDelete /\ s \in stored /\ DeleteStart("client", s)
  /\ UNCHANGED <<subVars, listVars, done, lifeVars>>

DoneRun(s) ==
  /\ s \in done /\ deleter["broker"] = NoDelete /\ DeleteStart("broker", s) /\ done' = done \ {s}
  /\ UNCHANGED <<subVars, listVars, lifeVars>>

\* Not in the store: 404, and the rest is left
SubscriptionDelete(who) ==
  /\ deleter[who].pc = "store" /\ stored' = stored \ {deleter[who].sub}
  /\ deleter' = [deleter EXCEPT ![who] = IF deleter[who].sub \in stored THEN [@ EXCEPT !.pc = "cache"] ELSE NoDelete]
  /\ UNCHANGED <<poster, cached, listVars, done, lifeVars>>

SubCacheItemRemove(who) ==
  /\ deleter[who].pc = "cache" /\ cached' = cached \ {deleter[who].sub}
  /\ deleter' = [deleter EXCEPT ![who].pc = "forget"]
  /\ UNCHANGED <<poster, stored, listVars, done, lifeVars>>

\* One whose open has not come yet stays in the list, forgotten, for it
SseForget(who) ==
  /\ deleter[who].pc = "forget" /\ deleter' = [deleter EXCEPT ![who] = NoDelete]
  /\ LET s == deleter[who].sub IN
       IF Found(s)
       THEN /\ entry' = [entry EXCEPT ![s] = IF @.opened THEN NoEntry ELSE [@ EXCEPT !.ended = TRUE, !.forgotten = TRUE]]
            /\ stream' = [stream EXCEPT ![s] = IF @ = "open" THEN "over" ELSE @]
            /\ entries' = entries - 1
       ELSE UNCHANGED <<entry, stream, entries>>
  /\ UNCHANGED <<subVars, made, sent, reserved, done, lifeVars>>

-----------------------------------------------------------------------------
(* Stop, and a start that follows a kill *)

SseStop ==
  /\ broker = "up" /\ ~stopping /\ stopping' = TRUE
  /\ UNCHANGED <<subVars, listVars, gone, deleter, done, broker, kills>>

\* The thread joined, what it noted deleted: the last tick ends everything
SseStopTick ==
  /\ broker = "up" /\ stopping /\ done = {} /\ deleter["broker"] = NoDelete
  /\ Tick(TRUE) /\ broker' = "joined"
  /\ UNCHANGED <<subVars, made, sent, reserved, gone, stopping, deleter, kills>>

\* The server goes once the requests are through, and its streams with it
RestStop ==
  /\ broker = "joined" /\ done = {} /\ \A who \in DOMAIN deleter : deleter[who] = NoDelete
  /\ \A s \in Sub : poster[s] \in {"idle", "refused", "done"} /\ stream[s] # "pending"
  /\ broker' = "stopped"
  /\ UNCHANGED <<subVars, listVars, gone, stopping, deleter, done, kills>>

\* A start finds the killed broker's subscriptions in the store
KillAndStart ==
  /\ broker # "starting" /\ kills < MaxKill /\ kills' = kills + 1 /\ broker' = "starting"
  /\ poster' = [s \in Sub |-> IF poster[s] = "idle" THEN "idle" ELSE "done"]
  /\ stream' = [s \in Sub |-> IF poster[s] = "idle" THEN "none" ELSE "over"]
  /\ entry' = [s \in Sub |-> NoEntry] /\ entries' = 0 /\ reserved' = 0 /\ stopping' = FALSE
  /\ deleter' = [who \in DOMAIN deleter |-> NoDelete] /\ cached' = stored
  /\ done' = stored /\ gone' = {} /\ made' = [s \in Sub |-> 0] /\ sent' = [s \in Sub |-> <<>>]
  /\ UNCHANGED stored

SseLeftoversDeleted ==
  /\ broker = "starting" /\ done = {} /\ deleter["broker"] = NoDelete /\ broker' = "up"
  /\ UNCHANGED <<subVars, listVars, gone, stopping, deleter, done, kills>>

-----------------------------------------------------------------------------
SseInit ==
  /\ poster = [s \in Sub |-> "idle"] /\ stored = {} /\ cached = {} /\ entry = [s \in Sub |-> NoEntry]
  /\ stream = [s \in Sub |-> "none"] /\ gone = {} /\ made = [s \in Sub |-> 0] /\ sent = [s \in Sub |-> <<>>]
  /\ entries = 0 /\ reserved = 0 /\ stopping = FALSE /\ deleter = [who \in {"client", "broker"} |-> NoDelete]
  /\ done = {} /\ broker = "up" /\ kills = 0

PostGoesOn(s) == SubscriptionCreate(s) \/ SseCreateRegister(s) \/ SubCacheItemAdd(s) \/ SseCreateRespond(s)
DeleteGoesOn(who) == SubscriptionDelete(who) \/ SubCacheItemRemove(who) \/ SseForget(who)
BrokerThread == TickThread \/ SseStopTick \/ (\E s \in Sub : DoneRun(s)) \/ DeleteGoesOn("broker") \/ SseLeftoversDeleted

SseNext ==
  \/ \E s \in Sub :
       \/ SseCreateCheck(s) \/ PostGoesOn(s) \/ StreamOpened(s) \/ StreamPut(s)
       \/ ClientLeaves(s) \/ OpenWaitOver(s) \/ ClientDeletes(s)
  \/ DeleteGoesOn("client") \/ BrokerThread \/ SseStop \/ RestStop \/ KillAndStart

SseSpec == SseInit /\ [][SseNext]_sseVars

-----------------------------------------------------------------------------
(* Properties *)

SseTypeOK ==
  /\ poster \in [Sub -> {"idle", "store", "register", "cache", "respond", "done", "refused"}]
  /\ stored \subseteq Sub /\ cached \subseteq Sub /\ gone \subseteq Sub /\ done \subseteq Sub
  /\ stream \in [Sub -> {"none", "pending", "open", "over"}]
  /\ made \in [Sub -> 0..MaxEvent] /\ kills \in 0..MaxKill /\ broker \in {"up", "joined", "stopped", "starting"}
  /\ \A s \in Sub : entry[s].in \/ entry[s] = NoEntry

\* The counts are the streams there are and the places held for a POST, at most StreamsMax together,
\* though an entry is counted out by the tick, by a DELETE or by the stop, whichever comes first;
\* and every open stream has an entry that lives, and so will be ended
StreamsCounted ==
  /\ entries = Cardinality({s \in Sub : Found(s)})
  /\ reserved = Cardinality({s \in Sub : poster[s] \in {"store", "register"}})
  /\ entries + reserved <= StreamsMax
  /\ \A s \in Sub : stream[s] = "open" /\ broker # "stopped" => Found(s) /\ ~entry[s].ended

\* A stream carries its notifications in the order they were made, with none left out, those made
\* before it was open first
EventsInOrder ==
  \A s \in Sub :
    /\ sent[s] = [n \in 1..Len(sent[s]) |-> n]
    /\ Found(s) /\ ~entry[s].ended => sent[s] \o entry[s].waits = [n \in 1..made[s] |-> n]

\* No subscription is left in the store without a stream: one that has no entry any more is to be deleted by
\* the broker, or is being deleted. (But for a POST that has not registered its entry yet.)
EndedStreamGoes ==
  \A s \in stored :
    poster[s] \in {"cache", "respond", "done"} /\ ~Found(s) => s \in done \/ \E who \in DOMAIN deleter : deleter[who].sub = s

=============================================================================
