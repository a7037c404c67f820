---------------------------- MODULE Connections ----------------------------
(***************************************************************************)
(* WebSocket connections and the subscriptions that notify them, on the    *)
(* brokers of one database: the host's and the plugin's list, a            *)
(* connection's own requests, its close, the beats of the brokers' runs    *)
(* and the sweep of the subscriptions of a run that is gone.               *)
(*                                                                         *)
(* A connection is named by its place in "conn": its id holds the run's    *)
(* bootId and is never used twice. Frames, envelopes, tenants and the      *)
(* delivery of notifications are left out; a sweep's caches are HaSync's   *)
(* matter and read here as the database.                                   *)
(***************************************************************************)
EXTENDS Naturals, Sequences, FiniteSets

CONSTANTS
  Instance,             \* instances on one database
  ConnSub,            \* ids of subscriptions
  Lag,                \* a deletion may come after what it was decided on has changed
  MaxRun,             \* bound: starts of brokers
  MaxConn,            \* bound: connections
  MaxConnReq,         \* bound: requests that change a subscription
  MaxConnFault        \* bound: kills, brokers cut off from the database, failed threads, stops that do not wait

ASSUME ConnectionAssumption ==
  /\ Lag \in BOOLEAN /\ MaxRun \in Nat /\ MaxConn \in Nat /\ MaxConnReq \in Nat /\ MaxConnFault \in Nat
  /\ "none" \notin ConnSub

NoEndpoint == 0                 \* no such subscription
Elsewhere == MaxConn + 1        \* it notifies an http or mqtt endpoint

VARIABLES
  ha,           \* --high-availability
  up,           \* [Instance -> down, starting, serving or stopping]
  run,          \* [Instance -> its bootId, 0 while it is down]
  lastRun,      \* the last bootId
  conn,         \* the connections so far
  wsList,       \* [Instance -> the plugin's list of them]
  sub,          \* [ConnSub -> the endpoint of the subscription, in the database]
  beats, aged,  \* runs that have a document; runs with no beat written for RUNS_DEAD_MS
  cut, fenced,  \* brokers that do not reach the database; brokers that closed their connections for it
  sweep,        \* [Instance -> its look for runs that are gone]
  connReq, connFault,
  failed, unlisted, robbed, lost  \* (history) see the end

connVars == <<ha, up, run, lastRun, conn, wsList, sub, beats, aged, cut, fenced, sweep, connReq, connFault, failed, unlisted, robbed, lost>>
hosts == <<ha, up, run, lastRun>>
beatVars == <<beats, aged, cut, fenced, sweep>>
marks == <<failed, unlisted, robbed, lost>>

Run == 1..MaxRun
Conns == 1..Len(conn)
Alive(c) == conn[c].pc \notin {"gone", "dead"}
Of(b) == {c \in Conns : conn[c].by = b /\ Alive(c)}
Faulty == connFault < MaxConnFault /\ connFault' = connFault + 1

NoSweep == [pc |-> "idle", live |-> {}, docs |-> {}, todo |-> {}]
NewConn(b) == [by |-> b, run |-> run[b], pc |-> "taking", own |-> {}, told |-> FALSE, track |-> "no", at |-> "none"]
Fails(c) == failed' = failed \cup {c}

\* Nobody is about to delete s on what it saw of it
Unlooked(s) == Lag \/ \A c \in Conns : conn[c].at # s \/ conn[c].pc # "ending"
Unswept(s) == Lag \/ \A b \in Instance : s \notin sweep[b].todo

-----------------------------------------------------------------------------
(* A connection: taken, opened, its requests one by one, closed *)

\* Registered before the plugin has it
UpgradeTake(b) ==
  /\ up[b] = "serving" /\ Len(conn) < MaxConn
  /\ conn' = Append(conn, NewConn(b))
  /\ UNCHANGED <<hosts, wsList, sub, beatVars, connReq, connFault, marks>>

Take(c) ==
  /\ conn[c].pc = "taking" /\ conn' = [conn EXCEPT ![c].pc = "thread"]
  /\ wsList' = [wsList EXCEPT ![conn[c].by] = <<c>> \o @]
  /\ UNCHANGED <<hosts, sub, beatVars, connReq, connFault, marks>>

\* Its thread runs - or cannot be created: the list is what followed this connection in it. (That of a
\* connection which fell out of the list already is left out: it would list a freed one.)
TakeThread(c) ==
  LET l == wsList[conn[c].by] IN
  /\ conn[c].pc = "thread"
  /\ \/ conn' = [conn EXCEPT ![c].pc = "open"] /\ UNCHANGED <<wsList, connFault, unlisted>>
     \/ /\ Faulty /\ conn' = [conn EXCEPT ![c].pc = "gone"]
        /\ \E k \in 1..Len(l) : /\ l[k] = c /\ wsList' = [wsList EXCEPT ![conn[c].by] = SubSeq(l, k + 1, Len(l))]
                                /\ unlisted' = unlisted \cup {l[n] : n \in 1..(k - 1)}
  /\ UNCHANGED <<hosts, sub, beatVars, connReq, failed, robbed, lost>>

\* A request of its own: a subscription made, or changed, to notify it, changed to notify elsewhere, deleted
HostMessage(c, s, to, track) ==
  /\ conn[c].pc = "open" /\ conn[c].track = "no" /\ conn[c].by \notin cut /\ connReq < MaxConnReq
  /\ Unlooked(s) /\ Unswept(s)
  /\ sub' = [sub EXCEPT ![s] = to] /\ connReq' = connReq + 1
  /\ conn' = [conn EXCEPT ![c].track = track, ![c].at = s]
  /\ UNCHANGED <<hosts, wsList, beatVars, connFault, marks>>

Requests(c) ==
  \E s \in ConnSub :
    \/ HostMessage(c, s, c, "own")
    \/ sub[s] # NoEndpoint /\ (HostMessage(c, s, Elsewhere, "disown") \/ HostMessage(c, s, NoEndpoint, "disown"))

\* The response; the subscriptions that notify the connection are followed
RunRespond(c) ==
  /\ conn[c].track # "no"
  /\ conn' = [conn EXCEPT ![c].track = "no",
                          ![c].own = IF conn[c].track = "own" THEN @ \cup {conn[c].at} ELSE @ \ {conn[c].at}]
  /\ UNCHANGED <<hosts, wsList, sub, beatVars, connReq, connFault, marks>>

\* The read ends: a close, a broken connection, a frame refused, a drop
ReadEnds(c) ==
  /\ conn[c].pc = "open" /\ conn[c].track = "no"
  /\ conn' = [conn EXCEPT ![c].pc = "ending", ![c].at = "none"]
  /\ UNCHANGED <<hosts, wsList, sub, beatVars, connReq, connFault, marks>>

\* A followed subscription is read, as it may notify elsewhere by now
EndpointLook(c) ==
  /\ conn[c].pc = "ending" /\ conn[c].at = "none"
  /\ \E s \in conn[c].own :
       /\ conn' = IF sub[s] = c /\ conn[c].by \notin cut THEN [conn EXCEPT ![c].at = s] ELSE [conn EXCEPT ![c].own = @ \ {s}]
       /\ IF conn[c].by \in cut THEN Fails(c) ELSE UNCHANGED failed
  /\ UNCHANGED <<hosts, wsList, sub, beatVars, connReq, connFault, unlisted, robbed, lost>>

CloseDelete(c) ==
  LET s == conn[c].at IN
  /\ conn[c].pc = "ending" /\ s # "none"
  /\ conn' = [conn EXCEPT ![c].at = "none", ![c].own = @ \ {s}]
  /\ IF conn[c].by \in cut THEN Fails(c) /\ UNCHANGED <<sub, lost>>
     ELSE sub' = [sub EXCEPT ![s] = NoEndpoint] /\ lost' = (lost \/ sub[s] = Elsewhere) /\ UNCHANGED failed
  /\ UNCHANGED <<hosts, wsList, beatVars, connReq, connFault, unlisted, robbed>>

\* The first in the list that is this one is taken out, if it is still there
WsGone(c) ==
  LET l == wsList[conn[c].by] IN
  /\ conn[c].pc = "ending" /\ conn[c].own = {}
  /\ conn' = [conn EXCEPT ![c].pc = "gone"]
  /\ \/ \E k \in DOMAIN l : /\ l[k] = c /\ \A n \in 1..(k - 1) : l[n] # c
                            /\ wsList' = [wsList EXCEPT ![conn[c].by] = SubSeq(l, 1, k - 1) \o SubSeq(l, k + 1, Len(l))]
     \/ (\A k \in DOMAIN l : l[k] # c) /\ UNCHANGED wsList
  /\ UNCHANGED <<hosts, sub, beatVars, connReq, connFault, marks>>

\* Over HTTP: a connection is no endpoint there
HttpRequest(s) ==
  /\ connReq < MaxConnReq /\ connReq' = connReq + 1
  /\ \E b \in Instance : up[b] = "serving" /\ b \notin cut
  /\ Unlooked(s) /\ Unswept(s)
  /\ \E to \in {Elsewhere, NoEndpoint} : sub[s] # to /\ sub' = [sub EXCEPT ![s] = to]
  /\ UNCHANGED <<hosts, conn, wsList, beatVars, connFault, marks>>

-----------------------------------------------------------------------------
(* The runs *)

Dropped(b) == [c \in Conns |-> IF \E n \in 1..Len(wsList[b]) : wsList[b][n] = c THEN [conn[c] EXCEPT !.told = TRUE] ELSE conn[c]]
Broken(b) == [c \in Conns |-> IF c \in Of(b) THEN [conn[c] EXCEPT !.pc = "dead"] ELSE conn[c]]
SweepAt(b, pc) == sweep' = [sweep EXCEPT ![b].pc = pc]

\* Faulty: a broker without a beat keeps its connections
BeatFailsUnfenced(b) ==
  /\ b \in cut /\ fenced' = (IF run[b] \in aged THEN fenced \cup {b} ELSE fenced)
  /\ conn' = conn
  /\ SweepAt(b, "idle") /\ UNCHANGED <<beats, aged, cut>>

\* Not written: after RUNS_DEAD_MS without a beat every connection is closed, once
BeatFails(b) ==
  /\ b \in cut /\ fenced' = (IF run[b] \in aged THEN fenced \cup {b} ELSE fenced)
  /\ conn' = IF run[b] \in aged /\ b \notin fenced THEN Dropped(b) ELSE conn
  /\ SweepAt(b, "idle") /\ UNCHANGED <<beats, aged, cut>>

\* Written - the database may be back just then
BeatWritten(b) ==
  /\ b \notin cut \/ b \in fenced \/ run[b] \notin beats \cup aged
  /\ cut' = cut \ {b}
  /\ beats' = beats \cup {run[b]} /\ aged' = aged \ {run[b]} /\ fenced' = fenced \ {b}
  /\ SweepAt(b, "query") /\ UNCHANGED conn

RunsBeat(b) ==
  /\ ha /\ sweep[b].pc \in {"idle", "first"} /\ up[b] \in {"starting", "serving", "stopping"}
  /\ up[b] = "starting" => sweep[b].pc = "first"
  /\ Lag \/ \A o \in Instance : sweep[o].pc \notin {"walk", "delete", "docs"} \/ run[b] \in sweep[o].live
  /\ BeatFails(b) \/ BeatWritten(b)
  /\ UNCHANGED <<hosts, wsList, sub, connReq, connFault, marks>>

DocQuery(b) ==
  /\ sweep[b].pc = "query"
  /\ sweep' = [sweep EXCEPT ![b] = IF b \in cut THEN NoSweep ELSE [@ EXCEPT !.pc = "walk", !.live = (beats \ aged) \cup {run[b]}, !.docs = beats]]
  /\ UNCHANGED <<hosts, conn, wsList, sub, beats, aged, cut, fenced, connReq, connFault, marks>>

LeftoversWalk(b) ==
  /\ sweep[b].pc = "walk"
  /\ sweep' = [sweep EXCEPT ![b].pc = "delete", ![b].todo = {s \in ConnSub : sub[s] \in Conns /\ conn[sub[s]].run \notin sweep[b].live}]
  /\ UNCHANGED <<hosts, conn, wsList, sub, beats, aged, cut, fenced, connReq, connFault, marks>>

LeftoverDelete(b) ==
  /\ sweep[b].pc = "delete"
  /\ \E s \in sweep[b].todo :
       LET c == sub[s] IN
       /\ sweep' = [sweep EXCEPT ![b].todo = @ \ {s}]
       /\ IF b \in cut THEN UNCHANGED sub ELSE sub' = [sub EXCEPT ![s] = NoEndpoint]
       /\ failed' = IF b \in cut /\ c \in Conns THEN failed \cup {c} ELSE failed
       /\ robbed' = IF b \notin cut /\ c \in Conns /\ Alive(c) THEN robbed \cup {c} ELSE robbed
       /\ lost' = (lost \/ (b \notin cut /\ c = Elsewhere))
  /\ UNCHANGED <<hosts, conn, wsList, beats, aged, cut, fenced, connReq, connFault, unlisted>>

LeftoversDeleted(b) ==
  /\ sweep[b].pc = "delete" /\ sweep[b].todo = {} /\ SweepAt(b, IF ha THEN "docs" ELSE "idle")
  /\ UNCHANGED <<hosts, conn, wsList, sub, beats, aged, cut, fenced, connReq, connFault, marks>>

DocsDelete(b) ==
  /\ sweep[b].pc = "docs" /\ sweep' = [sweep EXCEPT ![b] = NoSweep]
  /\ beats' = IF b \in cut THEN beats ELSE beats \ (sweep[b].docs \ sweep[b].live)
  /\ UNCHANGED <<hosts, conn, wsList, sub, aged, cut, fenced, connReq, connFault, marks>>

-----------------------------------------------------------------------------
(* The brokers and the database *)

\* One broker, unless they share the database; every other run's subscriptions are deleted first
Start(b) ==
  /\ up[b] = "down" /\ lastRun < MaxRun /\ b \notin cut /\ (ha \/ \A o \in Instance : up[o] = "down")
  /\ up' = [up EXCEPT ![b] = "starting"] /\ lastRun' = lastRun + 1 /\ run' = [run EXCEPT ![b] = lastRun + 1]
  /\ sweep' = [sweep EXCEPT ![b] = IF ha THEN [NoSweep EXCEPT !.pc = "first"] ELSE [NoSweep EXCEPT !.pc = "walk", !.live = {lastRun + 1}]]
  /\ fenced' = fenced \ {b}
  /\ UNCHANGED <<ha, conn, wsList, sub, beats, aged, cut, connReq, connFault, marks>>

Serve(b) ==
  /\ up[b] = "starting" /\ sweep[b].pc = "idle" /\ up' = [up EXCEPT ![b] = "serving"]
  /\ UNCHANGED <<ha, run, lastRun, conn, wsList, sub, beatVars, connReq, connFault, marks>>

Down(b) ==
  /\ up' = [up EXCEPT ![b] = "down"] /\ run' = [run EXCEPT ![b] = 0] /\ wsList' = [wsList EXCEPT ![b] = <<>>]
  /\ conn' = Broken(b) /\ sweep' = [sweep EXCEPT ![b] = NoSweep] /\ UNCHANGED <<ha, lastRun, sub, aged, cut, fenced, connReq, marks>>

\* After the HTTP server: its workers are joined
TransportStop(b) ==
  /\ up[b] = "serving" /\ \A c \in Of(b) : conn[c].pc \notin {"taking", "thread"}
  /\ up' = [up EXCEPT ![b] = "stopping"] /\ conn' = Dropped(b)
  /\ UNCHANGED <<ha, run, lastRun, wsList, sub, beatVars, connReq, connFault, marks>>

\* The connections are waited for, 2 s; then the document goes
TransportRunsStop(b) ==
  /\ up[b] = "stopping" /\ sweep[b].pc = "idle"
  /\ \/ wsList[b] = <<>> /\ UNCHANGED connFault
     \/ wsList[b] # <<>> /\ Faulty
  /\ beats' = IF b \in cut THEN beats ELSE beats \ {run[b]}
  /\ Down(b)

Kill(b) == up[b] # "down" /\ Faulty /\ UNCHANGED beats /\ Down(b)

\* A broker does not reach the database; it does again
CutOff(b) ==
  /\ up[b] # "down" /\ b \notin cut /\ Faulty /\ cut' = cut \cup {b}
  /\ UNCHANGED <<hosts, conn, wsList, sub, beats, aged, fenced, sweep, connReq, marks>>

Reached(b) ==
  /\ b \in cut /\ cut' = cut \ {b} /\ (Lag \/ ~ha \/ run[b] \in beats \ aged)
  /\ UNCHANGED <<hosts, conn, wsList, sub, beats, aged, fenced, sweep, connReq, connFault, marks>>

\* RUNS_DEAD_MS without a beat
Age(r) ==
  /\ ha /\ r \in (beats \cup {run[b] : b \in Instance}) \ (aged \cup {0}) /\ aged' = aged \cup {r} /\ \A b \in Instance : run[b] = r => b \in cut
  /\ UNCHANGED <<hosts, conn, wsList, sub, beats, cut, fenced, sweep, connReq, connFault, marks>>

ConnInit ==
  /\ ha \in BOOLEAN /\ up = [b \in Instance |-> "down"] /\ run = [b \in Instance |-> 0] /\ lastRun = 0
  /\ conn = <<>> /\ wsList = [b \in Instance |-> <<>>] /\ sub = [s \in ConnSub |-> NoEndpoint]
  /\ beats = {} /\ aged = {} /\ cut = {} /\ fenced = {} /\ sweep = [b \in Instance |-> NoSweep]
  /\ connReq = 0 /\ connFault = 0 /\ failed = {} /\ unlisted = {} /\ robbed = {} /\ lost = FALSE

ConnNext ==
  \/ \E c \in Conns :
       Take(c) \/ TakeThread(c) \/ Requests(c) \/ RunRespond(c) \/ ReadEnds(c) \/ EndpointLook(c) \/ CloseDelete(c) \/ WsGone(c)
  \/ \E s \in ConnSub : HttpRequest(s)
  \/ \E b \in Instance :
       \/ UpgradeTake(b) \/ RunsBeat(b) \/ DocQuery(b) \/ LeftoversWalk(b) \/ LeftoverDelete(b) \/ LeftoversDeleted(b) \/ DocsDelete(b)
       \/ Start(b) \/ Serve(b) \/ TransportStop(b) \/ TransportRunsStop(b) \/ Kill(b) \/ CutOff(b) \/ Reached(b)
  \/ \E r \in Run : Age(r)

ConnSpec == ConnInit /\ [][ConnNext]_connVars

-----------------------------------------------------------------------------
(* Properties; history: connections that met a database failure when a     *)
(* subscription was to go, or fell out of the plugin's list, or lost a     *)
(* subscription to a sweep while they were up; a subscription that         *)
(* notified elsewhere was deleted                                          *)

\* Types; a connection is listed once, and as long as it is up; requests are followed to their response
ConnTypeOK ==
  /\ \A s \in ConnSub : sub[s] \in 0..Len(conn) \cup {Elsewhere}
  /\ \A b \in Instance : /\ Cardinality({wsList[b][n] : n \in 1..Len(wsList[b])}) = Len(wsList[b])
                       /\ {c \in Of(b) : conn[c].pc \in {"open", "ending"}} \ unlisted \subseteq {wsList[b][n] : n \in 1..Len(wsList[b])}
  /\ lastRun \in 0..MaxRun /\ beats \subseteq Run /\ aged \subseteq Run

\* A broker whose subscriptions the others deleted, as no beat of its run was written for RUNS_DEAD_MS, closes its
\* connections: none stays open over its next beat
SweptAreTold == \A c \in robbed \ unlisted : conn[c].pc # "open" \/ conn[c].told \/ conn[c].run \in aged

\* A connection that has closed leaves no subscription that notifies it; nor does a start leave any of another run,
\* or, on a shared database, a sweep any of a run that had ended - where the database answered; a subscription
\* that notifies elsewhere is not theirs to delete; and who loses one to a sweep is told
SubscriptionsFollow ==
  /\ ~lost /\ SweptAreTold
  /\ \A s \in ConnSub : sub[s] \in Conns \ failed =>
       LET c == conn[sub[s]] IN
       /\ c.pc # "gone"
       /\ \A b \in Instance :
            /\ ~ha /\ up[b] = "serving" => c.run = run[b]
            /\ sweep[b].pc = "docs" /\ c.run \notin sweep[b].live => \E o \in Instance : run[o] = c.run

=============================================================================
