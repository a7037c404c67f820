-------------------------- MODULE ConnectionProofs --------------------------
(***************************************************************************)
(* Proofs about Connections: SubscriptionsFollow, and the plugin's lists.  *)
(*                                                                         *)
(* One inductive invariant, ConnInv, in parts - the types; which run is    *)
(* whose; where a sweep and a connection are; what a beat says of who      *)
(* reaches the database; who has been told to close; what is about to be   *)
(* deleted and why that still holds; what a connection follows; what a     *)
(* sweep has listed. A connection's own steps go through one lemma         *)
(* (OwnStepKeeps), a sweep's through another (SweepStep), those of a       *)
(* broker that leave its connections in place through a third (HostKeeps); *)
(* the steps that do more have a lemma each. ListInv, of the lists, needs  *)
(* no more of it than which runs there are.                                *)
(***************************************************************************)
EXTENDS Connections, SeqFacts

-----------------------------------------------------------------------------
(* Connections: the invariant *)

ConnPc == {"taking", "thread", "open", "ending", "gone", "dead"}
SweepPc == {"idle", "first", "query", "walk", "delete", "docs"}
ConnRec == [by : Instance, run : Nat, pc : ConnPc, own : SUBSET ConnSub, told : BOOLEAN, track : {"no", "own", "disown"},
            at : ConnSub \cup {"none"}]
SweepRec == [pc : SweepPc, live : SUBSET Nat, docs : SUBSET Nat, todo : SUBSET ConnSub]

ConnTypes ==
  /\ ha \in BOOLEAN /\ up \in [Instance -> {"down", "starting", "serving", "stopping"}]
  /\ run \in [Instance -> Nat] /\ lastRun \in Nat
  /\ conn \in Seq(ConnRec) /\ Len(conn) <= MaxConn /\ wsList \in [Instance -> Seq(Nat)]
  /\ sub \in [ConnSub -> Nat] /\ \A s \in ConnSub : sub[s] \in Conns \cup {NoEndpoint, Elsewhere}
  /\ sweep \in [Instance -> SweepRec]
  /\ failed \subseteq Conns /\ robbed \subseteq Conns /\ lost \in BOOLEAN

Ups == {b \in Instance : up[b] # "down"}
Looking(b) == sweep[b].pc \in {"walk", "delete", "docs"}
Listed(b) == {wsList[b][n] : n \in DOMAIN wsList[b]}
Notified(c) == \E s \in ConnSub : sub[s] = c

\* A run is one broker's, and without a shared database one broker is up
BrokersApart ==
  /\ \A b \in Instance : run[b] <= lastRun /\ (run[b] = 0 <=> up[b] = "down")
  /\ \A b, o \in Ups : run[b] = run[o] \/ ~ha => b = o
  /\ \A r \in beats \cup aged : r \in Nat /\ r <= lastRun
  /\ ~ha => fenced = {}

\* Where a sweep is
SweepShape(b) ==
  /\ sweep[b].todo # {} => sweep[b].pc = "delete"
  /\ up[b] = "down" => sweep[b] = NoSweep
  /\ sweep[b].pc = "first" => up[b] = "starting"
  /\ \A r \in sweep[b].live \cup sweep[b].docs : r <= lastRun
  /\ ~ha => /\ sweep[b].pc \in {"idle", "walk", "delete"}
            /\ sweep[b].pc # "idle" => up[b] = "starting" /\ sweep[b].live = {run[b]}

\* A connection that is up is of its broker's run; one that is open is listed, unless it fell out
ConnShape(c) ==
  /\ conn[c].run <= lastRun
  /\ Alive(c) => up[conn[c].by] \in {"serving", "stopping"} /\ run[conn[c].by] = conn[c].run
  /\ conn[c].track # "no" => conn[c].pc \in {"open", "dead"} /\ conn[c].at \in ConnSub
  /\ conn[c].pc \in {"taking", "thread"} => ~Notified(c) /\ c \notin robbed
  /\ conn[c].pc \in {"thread", "open", "ending"} /\ c \notin unlisted => c \in Listed(conn[c].by)

\* Who reaches the database has a beat; whose run a sweep takes for gone has none, or an old one, and is cut off;
\* and who has never beaten has no subscription
BeatsKnown == ha =>
  /\ \A b \in Ups : sweep[b].pc # "first" /\ b \notin cut => run[b] \in beats \ aged
  /\ \A o \in Instance : Looking(o) => \A b \in Ups : run[b] \notin sweep[o].live => run[b] \in aged \/ run[b] \notin beats
  /\ \A c \in Conns : Alive(c) /\ Notified(c) => conn[c].run \in beats \cup aged
  /\ \A b \in Ups \cap fenced : run[b] \in aged

\* A broker that closed its connections for want of a beat has told all that may be robbed
FencedAreTold ==
  \A b \in Ups \cap fenced : \A c \in Of(b) \ unlisted : conn[c].pc = "open" /\ (Notified(c) \/ c \in robbed) => conn[c].told

\* What is about to be deleted is still what was looked at, or gone
LooksHold ==
  /\ \A c \in Conns : conn[c].pc = "ending" /\ conn[c].at # "none" => sub[conn[c].at] \in {c, NoEndpoint}
  /\ \A b \in Instance : \A s \in sweep[b].todo : sub[s] = NoEndpoint \/ (sub[s] \in Conns /\ conn[sub[s]].run \notin sweep[b].live)

\* A connection follows what notifies it
OwnFollowed ==
  \A c \in Conns \ failed : \A s \in ConnSub :
    /\ sub[s] = c => conn[c].pc # "gone"
    /\ sub[s] = c /\ conn[c].pc \in {"open", "ending"} => s \in conn[c].own \/ (conn[c].track = "own" /\ conn[c].at = s)
    /\ conn[c].track = "disown" /\ conn[c].at = s => sub[s] # c

\* A sweep has listed what notifies a run it takes for gone; where nobody shares, what is left is of this run
SweepsCover ==
  /\ \A b \in Instance : sweep[b].pc \in {"delete", "docs"} =>
       \A s \in ConnSub : sub[s] \in Conns \ failed /\ conn[sub[s]].run \notin sweep[b].live => s \in sweep[b].todo
  /\ ~ha => \A b \in Ups : sweep[b].pc = "idle" => \A s \in ConnSub : sub[s] \in Conns \ failed => conn[sub[s]].run = run[b]

ConnInv ==
  /\ ConnTypes
  /\ BrokersApart /\ (\A b \in Instance : SweepShape(b)) /\ \A c \in Conns : ConnShape(c)
  /\ BeatsKnown /\ SweptAreTold /\ FencedAreTold /\ LooksHold /\ OwnFollowed /\ SweepsCover /\ ~lost

-----------------------------------------------------------------------------
(* Connections: facts *)

\* What a subscription notifies is one of three things
LEMMA Endpoints ==
  ASSUME ConnTypes
  PROVE  /\ Conns = 1..Len(conn) /\ Len(conn) \in Nat /\ NoEndpoint \notin Conns /\ Elsewhere \notin Conns
         /\ NoEndpoint # Elsewhere /\ \A c \in Conns : c \in Nat /\ conn[c] \in ConnRec
BY ConnectionAssumption DEF ConnTypes, Conns, NoEndpoint, Elsewhere

\* One connection changes
LEMMA OneConn ==
  ASSUME ConnTypes, NEW c \in Conns, NEW n \in ConnRec, conn' = [conn EXCEPT ![c] = n]
  PROVE  /\ conn' \in Seq(ConnRec) /\ Len(conn') = Len(conn) /\ Conns' = Conns
         /\ conn'[c] = n /\ \A d \in Conns \ {c} : conn'[d] = conn[d]
BY Endpoints DEF ConnTypes, Conns

-----------------------------------------------------------------------------
(* Connections: their own steps *)

\* A step of one connection, which is of the same broker and run as before, that may make one subscription notify it
\* while it is open and its broker reaches the database; what is swept, looked at and followed apart
LEMMA OwnStep ==
  ASSUME ConnInv, NEW c \in Conns, NEW n \in ConnRec, conn' = [conn EXCEPT ![c] = n],
         n.by = conn[c].by, n.run = conn[c].run, n.told = conn[c].told, n.pc \notin {"gone", "dead"} => Alive(c),
         n.pc = "open" => conn[c].pc \in {"thread", "open"},
         UNCHANGED <<hosts, beatVars, robbed, lost>>, unlisted \subseteq unlisted',
         failed \subseteq failed', failed' \subseteq failed \cup {c},
         sub' \in [ConnSub -> Nat],
         \A s \in ConnSub : sub'[s] = sub[s] \/ sub'[s] \in {NoEndpoint, Elsewhere}
                            \/ (sub'[s] = c /\ n.pc = "open" /\ conn[c].pc = "open" /\ conn[c].by \notin cut),
         wsList' \in [Instance -> Seq(Nat)]
  PROVE  ConnTypes' /\ BrokersApart' /\ (\A b \in Instance : SweepShape(b)') /\ BeatsKnown' /\ SweptAreTold' /\ FencedAreTold' /\ SweepsCover'
<1>1. /\ conn' \in Seq(ConnRec) /\ Len(conn') = Len(conn) /\ Conns' = Conns
      /\ conn'[c] = n /\ \A d \in Conns \ {c} : conn'[d] = conn[d]
  BY OneConn DEF ConnInv
<1>2. /\ UNCHANGED <<ha, up, run, lastRun, beats, aged, cut, fenced, sweep>>
  BY DEF hosts, beatVars
<1>3. \A d \in Conns : /\ conn'[d].by = conn[d].by /\ conn'[d].run = conn[d].run /\ conn'[d].told = conn[d].told
                       /\ Alive(d)' => Alive(d)
                       /\ conn'[d].pc = "open" => conn[d].pc \in {"thread", "open"}
  BY <1>1 DEF Alive
<1>4. \A s \in ConnSub : sub'[s] = sub[s] \/ sub'[s] \in {NoEndpoint, Elsewhere} \/ (sub'[s] = c /\ n.pc = "open" /\ conn[c].pc = "open" /\ conn[c].by \notin cut)
  OBVIOUS
<1>5. ConnTypes'
  <2>1. \A s \in ConnSub : sub'[s] \in Conns' \cup {NoEndpoint, Elsewhere} BY <1>1, <1>4 DEF ConnInv, ConnTypes
  <2> QED BY <1>1, <1>2, <2>1 DEF ConnInv, ConnTypes
<1>6. BrokersApart' /\ \A b \in Instance : SweepShape(b)' BY <1>2 DEF ConnInv, BrokersApart, SweepShape, Ups
<1>7. ASSUME NEW d \in Conns, Notified(d)' PROVE Notified(d) \/ (d = c /\ conn[c].pc = "open" /\ conn[c].by \notin cut)
  BY <1>4, <1>7, Endpoints DEF Notified, ConnInv
<1>8. ASSUME conn[c].pc = "open", conn[c].by \notin cut
      PROVE  /\ conn[c].by \in Ups /\ run[conn[c].by] = conn[c].run /\ up[conn[c].by] # "starting"
             /\ ha => conn[c].run \in beats \ aged
             /\ \A b \in Instance : Looking(b) => conn[c].run \in sweep[b].live
             /\ ~ha => \A b \in Ups : b = conn[c].by
  <2>1. ConnShape(c) /\ conn[c] \in ConnRec BY Endpoints DEF ConnInv
  <2>2. conn[c].by \in Instance /\ Alive(c) BY <1>8, <2>1 DEF ConnRec, Alive
  <2>3. conn[c].by \in Ups /\ run[conn[c].by] = conn[c].run /\ up[conn[c].by] # "starting" BY <2>1, <2>2 DEF ConnShape, Ups
  <2>4. sweep[conn[c].by].pc # "first" BY <2>2, <2>3 DEF ConnInv, SweepShape
  <2>5. ha => conn[c].run \in beats \ aged BY <1>8, <2>3, <2>4 DEF ConnInv, BeatsKnown
  <2>6. ha => \A b \in Instance : Looking(b) => conn[c].run \in sweep[b].live BY <2>3, <2>5 DEF ConnInv, BeatsKnown
  <2>7. ~ha => \A b \in Ups : b = conn[c].by BY <2>3 DEF ConnInv, BrokersApart
  <2>8. ~ha => \A b \in Instance : ~Looking(b) BY <2>3, <2>7 DEF ConnInv, SweepShape, Looking, Ups
  <2> QED BY <2>3, <2>5, <2>6, <2>7, <2>8
<1>9. BeatsKnown'
  <2>1. SUFFICES ASSUME ha PROVE BeatsKnown' BY <1>2 DEF BeatsKnown
  <2>2. \A d \in Conns : Alive(d)' /\ Notified(d)' => conn'[d].run \in beats \cup aged
    BY <1>3, <1>7, <1>8, <2>1 DEF ConnInv, BeatsKnown
  <2> QED BY <1>1, <1>2, <2>2 DEF ConnInv, BeatsKnown, Ups, Looking
<1>10. SweptAreTold'
  <2>1. SUFFICES ASSUME NEW d \in robbed \ unlisted, conn'[d].pc = "open" PROVE conn'[d].told \/ conn'[d].run \in aged
    BY <1>2 DEF SweptAreTold
  <2>2. d \in Conns BY DEF ConnInv, ConnTypes
  <2>3. conn[d].pc = "open" BY <1>3, <2>1, <2>2 DEF ConnInv, ConnShape
  <2> QED BY <1>3, <2>2, <2>3 DEF ConnInv, SweptAreTold
<1>11. FencedAreTold'
  <2>1. SUFFICES ASSUME NEW b \in Ups \cap fenced, NEW d \in Conns, d \notin unlisted, conn'[d].by = b, conn'[d].pc = "open", Notified(d)' \/ d \in robbed
                 PROVE  conn'[d].told
    BY <1>1, <1>2 DEF FencedAreTold, Of, Ups
  <2>2. conn[d].pc \in {"thread", "open"} /\ conn[d].by = b /\ conn'[d].told = conn[d].told BY <1>3, <2>1
  <2>3. Notified(d) \/ d \in robbed
    <3>1. SUFFICES ASSUME d = c, conn[c].pc = "open", conn[c].by \notin cut PROVE FALSE BY <1>7, <2>1
    <3>2. ha => run[b] \notin aged BY <1>8, <2>2, <3>1
    <3>3. ha /\ run[b] \in aged BY DEF ConnInv, BeatsKnown, BrokersApart
    <3> QED BY <3>2, <3>3
  <2>4. conn[d].pc = "open" /\ Alive(d) BY <2>2, <2>3 DEF ConnInv, ConnShape, Alive
  <2> QED BY <2>1, <2>2, <2>3, <2>4 DEF ConnInv, FencedAreTold, Of
<1>12. SweepsCover'
  <2>1. ASSUME NEW s \in ConnSub, sub'[s] \in Conns' \ failed'
        PROVE  /\ conn'[sub'[s]].run = conn[sub'[s]].run
               /\ (sub'[s] = sub[s] /\ sub[s] \in Conns \ failed) \/ (sub'[s] = c /\ conn[c].pc = "open" /\ conn[c].by \notin cut)
    BY <1>1, <1>3, <1>4, <2>1, Endpoints DEF ConnInv
  <2>2. ASSUME NEW b \in Instance, sweep[b].pc \in {"delete", "docs"}, NEW s \in ConnSub, sub'[s] \in Conns' \ failed', conn'[sub'[s]].run \notin sweep[b].live
        PROVE  s \in sweep[b].todo
    <3>1. Looking(b) BY <2>2 DEF Looking
    <3> QED BY <1>8, <2>1, <2>2, <3>1 DEF ConnInv, SweepsCover
  <2>3. ASSUME ~ha, NEW b \in Ups, sweep[b].pc = "idle", NEW s \in ConnSub, sub'[s] \in Conns' \ failed' PROVE conn'[sub'[s]].run = run[b]
    BY <1>8, <2>1, <2>3 DEF ConnInv, SweepsCover
  <2> QED BY <1>2, <2>2, <2>3 DEF SweepsCover, Ups
<1> QED BY <1>5, <1>6, <1>9, <1>10, <1>11, <1>12

\* ... and where what is looked at is let be, and the others stay listed, the invariant holds on
LEMMA OwnStepKeeps ==
  ASSUME ConnInv, NEW c \in Conns, NEW n \in ConnRec, conn' = [conn EXCEPT ![c] = n],
         n.by = conn[c].by, n.run = conn[c].run, n.told = conn[c].told, n.pc \notin {"gone", "dead"} => Alive(c),
         n.pc = "open" => conn[c].pc \in {"thread", "open"},
         UNCHANGED <<hosts, beatVars, robbed, lost>>, unlisted \subseteq unlisted',
         failed \subseteq failed', failed' \subseteq failed \cup {c},
         sub' \in [ConnSub -> Nat],
         \A s \in ConnSub : sub'[s] = sub[s] \/ sub'[s] \in {NoEndpoint, Elsewhere}
                            \/ (sub'[s] = c /\ n.pc = "open" /\ conn[c].pc = "open" /\ conn[c].by \notin cut),
         wsList' \in [Instance -> Seq(Nat)],
         \A s \in ConnSub : \/ sub'[s] \in {sub[s], NoEndpoint}
                            \/ /\ \A d \in Conns : conn[d].at # s \/ conn[d].pc # "ending"
                               /\ \A b \in Instance : s \notin sweep[b].todo,
         n.pc = "ending" /\ n.at # "none" => sub'[n.at] \in {c, NoEndpoint},
         c \notin failed' => \A s \in ConnSub :
           /\ sub'[s] = c => n.pc # "gone"
           /\ sub'[s] = c /\ n.pc \in {"open", "ending"} => s \in n.own \/ (n.track = "own" /\ n.at = s)
           /\ n.track = "disown" /\ n.at = s => sub'[s] # c,
         n.track # "no" => n.pc \in {"open", "dead"} /\ n.at \in ConnSub,
         n.pc \in {"taking", "thread"} => conn[c].pc \in {"taking", "thread"},
         n.pc \in {"thread", "open", "ending"} /\ c \notin unlisted' => \A b \in Instance : b = conn[c].by => c \in Listed(b)',
         \A b \in Instance : \A d \in Conns \ {c} : d \in Listed(b) => d \in Listed(b)' \/ d \in unlisted'
  PROVE  ConnInv'
<1>1. /\ conn' \in Seq(ConnRec) /\ Len(conn') = Len(conn) /\ Conns' = Conns
      /\ conn'[c] = n /\ \A d \in Conns \ {c} : conn'[d] = conn[d]
  BY OneConn DEF ConnInv
<1>2. /\ UNCHANGED <<ha, up, run, lastRun, beats, aged, cut, fenced, sweep, robbed, lost>>
  BY DEF hosts, beatVars
<1>3. ASSUME NEW d \in Conns, d # c, NEW s \in ConnSub, sub'[s] = d PROVE sub[s] = d
  BY <1>3, Endpoints DEF ConnInv
<1>4. ASSUME NEW d \in Conns PROVE ConnShape(d)'
  <2>1. ConnShape(d) BY DEF ConnInv
  <2>2. CASE d # c
    <3>1. ~Notified(d) => ~Notified(d)' BY <1>3, <2>2 DEF Notified
    <3>2. PICK b \in Instance : b = conn[d].by BY Endpoints DEF ConnInv, ConnRec
    <3>3. d \in Listed(b) => d \in Listed(b)' \/ d \in unlisted' BY <2>2
    <3> QED BY <1>1, <1>2, <2>1, <2>2, <3>1, <3>2, <3>3 DEF ConnShape, Alive
  <2>3. CASE d = c
    <3>1. n.pc \in {"taking", "thread"} => ~Notified(c)' /\ c \notin robbed
      <4>1. SUFFICES ASSUME n.pc \in {"taking", "thread"} PROVE ~Notified(c)' /\ c \notin robbed OBVIOUS
      <4>2. ~Notified(c) /\ c \notin robbed BY <2>1, <2>3, <4>1 DEF ConnShape
      <4> QED BY <4>1, <4>2, Endpoints DEF Notified, ConnInv
    <3>2. n.pc \notin {"gone", "dead"} => up[n.by] \in {"serving", "stopping"} /\ run[n.by] = n.run
      BY <2>1, <2>3 DEF ConnShape
    <3>3. PICK b \in Instance : b = conn[c].by BY Endpoints DEF ConnInv, ConnRec
    <3>4. n.pc \in {"thread", "open", "ending"} /\ c \notin unlisted' => c \in Listed(b)' BY <3>3
    <3> QED BY <1>1, <1>2, <2>1, <2>3, <3>1, <3>2, <3>3, <3>4 DEF ConnShape, Alive
  <2> QED BY <2>2, <2>3
<1>5. LooksHold'
  <2>1. ASSUME NEW d \in Conns, conn'[d].pc = "ending", conn'[d].at # "none" PROVE sub'[conn'[d].at] \in {d, NoEndpoint}
    <3>1. CASE d = c BY <1>1, <2>1, <3>1
    <3>2. CASE d # c
      <4>1. conn'[d] = conn[d] /\ conn[d] \in ConnRec BY <1>1, <3>2, Endpoints DEF ConnInv
      <4>2. conn[d].at \in ConnSub BY <2>1, <4>1 DEF ConnRec
      <4>3. sub[conn[d].at] \in {d, NoEndpoint} BY <2>1, <4>1 DEF ConnInv, LooksHold
      <4> QED BY <2>1, <4>1, <4>2, <4>3
    <3> QED BY <3>1, <3>2
  <2>2. ASSUME NEW b \in Instance, NEW s \in sweep[b].todo PROVE sub'[s] = NoEndpoint \/ (sub'[s] \in Conns /\ conn'[sub'[s]].run \notin sweep[b].live)
    <3>1. s \in ConnSub BY DEF ConnInv, ConnTypes, SweepRec
    <3>2. sub'[s] \in {sub[s], NoEndpoint} BY <2>2, <3>1
    <3>3. sub[s] = NoEndpoint \/ (sub[s] \in Conns /\ conn[sub[s]].run \notin sweep[b].live) BY DEF ConnInv, LooksHold
    <3> QED BY <1>1, <3>2, <3>3
  <2> QED BY <1>1, <1>2, <2>1, <2>2 DEF LooksHold
<1>6. OwnFollowed'
  <2>1. ASSUME NEW d \in Conns, d \notin failed', NEW s \in ConnSub
        PROVE  /\ sub'[s] = d => conn'[d].pc # "gone"
               /\ sub'[s] = d /\ conn'[d].pc \in {"open", "ending"} => s \in conn'[d].own \/ (conn'[d].track = "own" /\ conn'[d].at = s)
               /\ conn'[d].track = "disown" /\ conn'[d].at = s => sub'[s] # d
    <3>1. CASE d = c BY <1>1, <2>1, <3>1
    <3>2. CASE d # c
      <4>1. d \notin failed BY <2>1
      <4>2. /\ sub[s] = d => conn[d].pc # "gone"
            /\ sub[s] = d /\ conn[d].pc \in {"open", "ending"} => s \in conn[d].own \/ (conn[d].track = "own" /\ conn[d].at = s)
            /\ conn[d].track = "disown" /\ conn[d].at = s => sub[s] # d
        BY <2>1, <4>1 DEF ConnInv, OwnFollowed
      <4>3. conn'[d] = conn[d] /\ (sub'[s] = d => sub[s] = d) BY <1>1, <1>3, <2>1, <3>2
      <4> QED BY <4>2, <4>3
    <3> QED BY <3>1, <3>2
  <2> QED BY <1>1, <2>1 DEF OwnFollowed
<1>7. ConnTypes' /\ BrokersApart' /\ (\A b \in Instance : SweepShape(b)') /\ BeatsKnown' /\ SweptAreTold' /\ FencedAreTold' /\ SweepsCover'
  BY OwnStep
<1> QED BY <1>1, <1>2, <1>4, <1>5, <1>6, <1>7 DEF ConnInv

LEMMA TakeKeeps ==
  ASSUME ConnInv, NEW c \in Conns, Take(c)
  PROVE  ConnInv'
<1> DEFINE q == conn[c]
           n == [q EXCEPT !.pc = "thread"]
<1>1. q \in ConnRec /\ q.by \in Instance /\ c \in Nat BY Endpoints DEF ConnInv, ConnRec
<1>2. n \in ConnRec /\ n.by = q.by /\ n.run = q.run /\ n.pc = "thread" /\ n.own = q.own /\ n.told = q.told /\ n.track = q.track /\ n.at = q.at
  BY <1>1 DEF ConnRec, ConnPc
<1>3. conn' = [conn EXCEPT ![c] = n] /\ q.pc = "taking" /\ wsList' = [wsList EXCEPT ![q.by] = <<c>> \o @]
      /\ UNCHANGED <<hosts, beatVars, sub, failed, unlisted, robbed, lost>>
  BY DEF Take, marks
<1> HIDE DEF n
<1>4. wsList' \in [Instance -> Seq(Nat)] BY <1>1, <1>3 DEF ConnInv, ConnTypes
<1>10. \A b \in Instance : b = q.by => c \in Listed(b)'
  <2>1. wsList[q.by] \in Seq(Nat) BY <1>1 DEF ConnInv, ConnTypes
  <2>2. 1 \in DOMAIN (<<c>> \o wsList[q.by]) /\ (<<c>> \o wsList[q.by])[1] = c BY <1>1, <2>1
  <2>3. wsList'[q.by] = <<c>> \o wsList[q.by] BY <1>1, <1>3 DEF ConnInv, ConnTypes
  <2> QED BY <2>2, <2>3 DEF Listed
<1>5. \A b \in Instance : Listed(b) \subseteq Listed(b)'
  <2>1. wsList[q.by] \in Seq(Nat) BY <1>1 DEF ConnInv, ConnTypes
  <2>2. \A k \in DOMAIN wsList[q.by] : k + 1 \in DOMAIN (<<c>> \o wsList[q.by]) /\ (<<c>> \o wsList[q.by])[k + 1] = wsList[q.by][k]
    <3>1. PICK l, m, d : l = wsList[q.by] /\ m = <<c>> \o l /\ d = Len(l)
      OBVIOUS
    <3>2. l \in Seq(Nat) /\ d \in Nat /\ DOMAIN l = 1..d
      BY <2>1, <3>1, LenProperties
    <3>3. <<c>> \in Seq(Nat) /\ Len(<<c>>) = 1
      BY <1>1
    <3>4. m \in Seq(Nat) /\ Len(m) = 1 + d /\ \A k \in 1..(1 + d) : k > 1 => m[k] = l[k - 1]
      BY <3>1, <3>2, <3>3, ConcatProperties
    <3>5. DOMAIN m = 1..(1 + d)
      BY <3>4, LenProperties
    <3>6. ASSUME NEW k \in 1..d PROVE k + 1 \in 1..(1 + d) /\ m[k + 1] = l[k]
      <4>1. k + 1 \in 1..(1 + d) /\ k + 1 > 1 /\ (k + 1) - 1 = k
        BY <3>2
      <4> QED BY <3>4, <4>1
    <3> QED BY <3>1, <3>2, <3>5, <3>6
  <2>3. wsList'[q.by] = <<c>> \o wsList[q.by] /\ \A b \in Instance \ {q.by} : wsList'[b] = wsList[b]
    BY <1>1, <1>3 DEF ConnInv, ConnTypes
  <2>4. ASSUME NEW b \in Instance PROVE Listed(b) \subseteq Listed(b)'
    <3> DEFINE l == wsList[q.by]
               m == <<c>> \o l
    <3>1. \A k \in DOMAIN l : k + 1 \in DOMAIN m /\ m[k + 1] = l[k] BY <2>2
    <3>2. (b = q.by /\ wsList[b] = l /\ wsList'[b] = m) \/ wsList'[b] = wsList[b] BY <2>3
    <3> HIDE DEF l, m
    <3> QED BY <3>1, <3>2 DEF Listed
  <2> QED BY <2>4
<1>6. \A d \in Conns : conn[d].by \in Instance BY Endpoints DEF ConnInv, ConnRec
<1>7. sub' = sub /\ sub \in [ConnSub -> Nat] /\ ~Notified(c) /\ Alive(c) BY <1>3 DEF ConnInv, ConnTypes, ConnShape, Alive
<1>9. q.track = "no" BY <1>3 DEF ConnInv, ConnShape
<1>8. c \notin failed => \A s \in ConnSub : (q.track = "disown" /\ q.at = s => sub[s] # c) /\ sub[s] # c
  BY <1>7 DEF ConnInv, OwnFollowed, Notified
<1> QED BY <1>1, <1>2, <1>3, <1>4, <1>5, <1>6, <1>7, <1>8, <1>9, <1>10, OwnStepKeeps

\* A connection that has its thread follows what it followed: for the steps that change neither list nor subscription
LEMMA QuietStep ==
  ASSUME ConnInv, NEW c \in Conns, NEW n \in ConnRec, conn' = [conn EXCEPT ![c] = n],
         n.by = conn[c].by, n.run = conn[c].run, n.told = conn[c].told, n.pc = conn[c].pc \/ (conn[c].pc = "open" /\ n.pc = "ending"),
         conn[c].pc \in {"open", "ending", "dead"},
         UNCHANGED <<hosts, beatVars, sub, wsList, robbed, unlisted, lost>>,
         failed \subseteq failed', failed' \subseteq failed \cup {c},
         n.pc = "ending" /\ n.at # "none" => sub[n.at] \in {c, NoEndpoint},
         c \notin failed' => \A s \in ConnSub :
           /\ sub[s] = c /\ n.pc \in {"open", "ending"} => s \in n.own \/ (n.track = "own" /\ n.at = s)
           /\ n.track = "disown" /\ n.at = s => sub[s] # c,
         n.track # "no" => n.pc \in {"open", "dead"} /\ n.at \in ConnSub
  PROVE  ConnInv'
<1>1. sub \in [ConnSub -> Nat] /\ wsList \in [Instance -> Seq(Nat)] BY DEF ConnInv, ConnTypes
<1>2. (n.pc \notin {"gone", "dead"} => Alive(c)) /\ n.pc \in {"open", "ending", "dead"} /\ (n.pc = "open" => conn[c].pc = "open")
      /\ (n.pc \in {"open", "ending"} => conn[c].pc \in {"open", "ending"})
  BY DEF Alive
<1>3. \A b \in Instance : Listed(b)' = Listed(b) BY DEF Listed
<1>4. \A b \in Instance : b = conn[c].by /\ conn[c].pc \in {"open", "ending"} /\ c \notin unlisted => c \in Listed(b)
  BY DEF ConnInv, ConnShape
<1> QED BY <1>1, <1>2, <1>3, <1>4, OwnStepKeeps

LEMMA ThreadKeeps ==
  ASSUME ConnInv, NEW c \in Conns, TakeThread(c)
  PROVE  ConnInv'
<1> DEFINE q == conn[c]
           l == wsList[q.by]
<1>1. q \in ConnRec /\ q.by \in Instance /\ c \in Nat BY Endpoints DEF ConnInv, ConnRec
<1>2. q.pc = "thread" /\ UNCHANGED <<hosts, sub, beatVars, failed, robbed, lost>> BY DEF TakeThread
<1>3. sub \in [ConnSub -> Nat] /\ wsList \in [Instance -> Seq(Nat)] /\ ~Notified(c) /\ Alive(c) /\ l \in Seq(Nat)
      /\ q.track = "no" /\ (\A s \in ConnSub : sub[s] # c) /\ (\A b \in Instance : b = q.by /\ c \notin unlisted => c \in Listed(b))
  BY <1>1, <1>2 DEF ConnInv, ConnTypes, ConnShape, Alive, Notified
<1>4. CASE conn' = [conn EXCEPT ![c].pc = "open"] /\ UNCHANGED <<wsList, connFault, unlisted>>
  <2> DEFINE n == [q EXCEPT !.pc = "open"]
  <2>1. n \in ConnRec /\ n.by = q.by /\ n.run = q.run /\ n.pc = "open" /\ n.own = q.own /\ n.told = q.told /\ n.track = q.track /\ n.at = q.at
    BY <1>1 DEF ConnRec, ConnPc
  <2>2. conn' = [conn EXCEPT ![c] = n] BY <1>4
  <2> HIDE DEF n
  <2>3. \A b \in Instance : Listed(b)' = Listed(b) BY <1>4 DEF Listed
  <2>4. n.pc \notin {"gone", "dead"} => Alive(c) BY <1>3
  <2>5. UNCHANGED <<hosts, beatVars, robbed, lost>> /\ unlisted \subseteq unlisted' /\ failed' = failed /\ sub' = sub /\ wsList' = wsList
        /\ unlisted' = unlisted
    BY <1>2, <1>4
  <2>6. c \notin failed' => \A s \in ConnSub :
           /\ sub'[s] = c => n.pc # "gone"
           /\ sub'[s] = c /\ n.pc \in {"open", "ending"} => s \in n.own \/ (n.track = "own" /\ n.at = s)
           /\ n.track = "disown" /\ n.at = s => sub'[s] # c
    BY <1>3, <2>5
  <2>7. \A b \in Instance : b = q.by /\ c \notin unlisted' => c \in Listed(b)' BY <1>3, <2>3, <2>5
  <2>8. n.track = "no" BY <1>3, <2>1
  <2> QED BY <1>2, <1>3, <2>1, <2>2, <2>3, <2>4, <2>5, <2>6, <2>7, <2>8, OwnStepKeeps
<1>5. ASSUME conn' = [conn EXCEPT ![c].pc = "gone"],
             NEW k \in 1..Len(l), l[k] = c, wsList' = [wsList EXCEPT ![q.by] = SubSeq(l, k + 1, Len(l))],
             unlisted' = unlisted \cup {l[m] : m \in 1..(k - 1)}
      PROVE  ConnInv'
  <2> DEFINE n == [q EXCEPT !.pc = "gone"]
             rest == SubSeq(l, k + 1, Len(l))
  <2>1. n \in ConnRec /\ n.by = q.by /\ n.run = q.run /\ n.pc = "gone" /\ n.own = q.own /\ n.told = q.told /\ n.track = q.track /\ n.at = q.at
    BY <1>1 DEF ConnRec, ConnPc
  <2>2. conn' = [conn EXCEPT ![c] = n] BY <1>5
  <2> HIDE DEF n
  <2>3. rest \in Seq(Nat) /\ \A m \in 1..Len(l) : m > k => m - k \in DOMAIN rest /\ rest[m - k] = l[m]
    <3>1. rest \in Seq(Nat) /\ Len(rest) = Len(l) - k /\ \A i \in 1..(Len(l) - k) : rest[i] = l[k + i]
      <4>1. l \in Seq(Nat) /\ k \in 0..Len(l)
        <5>1. l \in Seq(Nat) /\ Len(l) \in Nat BY <1>3
        <5> HIDE DEF l
        <5> QED BY <5>1
      <4> HIDE DEF l
      <4> QED BY <4>1, SplitSeq
    <3> HIDE DEF rest, l
    <3>2. k \in Nat /\ Len(l) \in Nat BY <1>3
    <3>3. \A m \in 1..Len(l) : m > k => m - k \in 1..(Len(l) - k) /\ k + (m - k) = m BY <3>2
    <3> QED BY <3>1, <3>3
  <2>4. wsList' \in [Instance -> Seq(Nat)] /\ wsList'[q.by] = rest /\ \A b \in Instance \ {q.by} : wsList'[b] = wsList[b]
    BY <1>1, <1>3, <1>5, <2>3
  <2>5. ASSUME NEW b \in Instance, NEW d \in Conns \ {c}, d \in Listed(b) PROVE d \in Listed(b)' \/ d \in unlisted'
    <3>1. CASE b = q.by
      <4>1. PICK m \in 1..Len(l) : l[m] = d BY <1>3, <2>5, <3>1 DEF Listed
      <4>2. CASE m < k BY <1>5, <4>1, <4>2
      <4>3. CASE m > k
        <5>1. m - k \in DOMAIN rest /\ rest[m - k] = d BY <2>3, <4>1, <4>3
        <5> HIDE DEF rest
        <5> QED BY <2>4, <3>1, <5>1 DEF Listed
      <4> QED BY <1>5, <4>1, <4>2, <4>3
    <3>2. CASE b # q.by BY <2>4, <2>5, <3>2 DEF Listed
    <3> QED BY <3>1, <3>2
  <2>6. UNCHANGED <<hosts, beatVars, robbed, lost>> /\ unlisted \subseteq unlisted' /\ failed' = failed /\ sub' = sub
    BY <1>2, <1>5
  <2>7. c \notin failed' => \A s \in ConnSub :
           /\ sub'[s] = c => n.pc # "gone"
           /\ sub'[s] = c /\ n.pc \in {"open", "ending"} => s \in n.own \/ (n.track = "own" /\ n.at = s)
           /\ n.track = "disown" /\ n.at = s => sub'[s] # c
    BY <1>3, <2>1, <2>6
  <2>8. n.track = "no" BY <1>3, <2>1
  <2> QED BY <1>3, <2>1, <2>2, <2>4, <2>5, <2>6, <2>7, <2>8, OwnStepKeeps
<1> QED BY <1>4, <1>5 DEF TakeThread

LEMMA MessageKeeps ==
  ASSUME ConnInv, ~Lag, NEW c \in Conns, NEW s \in ConnSub, NEW to, NEW track, HostMessage(c, s, to, track),
         (to = c /\ track = "own") \/ (to \in {NoEndpoint, Elsewhere} /\ track = "disown")
  PROVE  ConnInv'
<1> DEFINE q == conn[c]
           n == [q EXCEPT !.track = track, !.at = s]
<1>1. q \in ConnRec /\ q.by \in Instance /\ c \in Nat BY Endpoints DEF ConnInv, ConnRec
<1>2. n \in ConnRec /\ n.by = q.by /\ n.run = q.run /\ n.pc = q.pc /\ n.own = q.own /\ n.told = q.told /\ n.track = track /\ n.at = s
  BY <1>1 DEF ConnRec
<1>3. /\ q.pc = "open" /\ q.track = "no" /\ q.by \notin cut /\ UNCHANGED <<hosts, wsList, beatVars, failed, unlisted, robbed, lost>>
      /\ sub' = [sub EXCEPT ![s] = to] /\ conn' = [conn EXCEPT ![c] = n]
  BY DEF HostMessage, marks
<1>4. (\A d \in Conns : conn[d].at # s \/ conn[d].pc # "ending") /\ \A b \in Instance : s \notin sweep[b].todo
  BY DEF HostMessage, Unlooked, Unswept
<1> HIDE DEF n
<1>5. wsList \in [Instance -> Seq(Nat)] /\ sub \in [ConnSub -> Nat] /\ to \in Nat /\ Elsewhere \in Nat /\ c \notin {NoEndpoint, Elsewhere}
  BY <1>1, Endpoints, ConnectionAssumption DEF ConnInv, ConnTypes, NoEndpoint, Elsewhere
<1>6. sub' \in [ConnSub -> Nat] /\ sub'[s] = to /\ \A x \in ConnSub \ {s} : sub'[x] = sub[x] BY <1>3, <1>5
<1>7. Alive(c) BY <1>3 DEF Alive
<1>8. \A b \in Instance : Listed(b)' = Listed(b) BY <1>3 DEF Listed
<1>9. \A b \in Instance : b = conn[c].by /\ c \notin unlisted => c \in Listed(b) BY <1>3 DEF ConnInv, ConnShape
<1>10. c \notin failed => \A x \in ConnSub :
           /\ sub'[x] = c => x \in n.own \/ (n.track = "own" /\ n.at = x)
           /\ n.track = "disown" /\ n.at = x => sub'[x] # c
  BY <1>2, <1>3, <1>5, <1>6 DEF ConnInv, OwnFollowed
<1>11. \A x \in ConnSub : sub'[x] = sub[x] \/ sub'[x] \in {NoEndpoint, Elsewhere} \/ (sub'[x] = c /\ q.pc = "open")
  BY <1>3, <1>6
<1>12. \A x \in ConnSub : sub'[x] \in {sub[x], NoEndpoint}
         \/ ((\A d \in Conns : conn[d].at # x \/ conn[d].pc # "ending") /\ \A b \in Instance : x \notin sweep[b].todo)
  BY <1>4, <1>6
<1>13. UNCHANGED <<hosts, beatVars, robbed, lost>> /\ unlisted' = unlisted /\ failed' = failed /\ wsList' = wsList BY <1>3
<1>14. n.pc = "open" /\ n.track \in {"own", "disown"} /\ n.at \in ConnSub BY <1>2, <1>3
<1>15. \A x \in ConnSub : sub'[x] = sub[x] \/ sub'[x] \in {NoEndpoint, Elsewhere} \/ (sub'[x] = c /\ n.pc = "open" /\ conn[c].pc = "open" /\ conn[c].by \notin cut)
  BY <1>3, <1>11, <1>14
<1>16. c \notin failed' => \A x \in ConnSub :
           /\ sub'[x] = c => n.pc # "gone"
           /\ sub'[x] = c /\ n.pc \in {"open", "ending"} => x \in n.own \/ (n.track = "own" /\ n.at = x)
           /\ n.track = "disown" /\ n.at = x => sub'[x] # c
  <2>1. failed' = failed BY <1>13
  <2>2. n.pc = "open" BY <1>14
  <2> QED BY <1>10, <2>1, <2>2
<1>17. \A b \in Instance : b = conn[c].by /\ c \notin unlisted' => c \in Listed(b)' BY <1>8, <1>9, <1>13
<1>18. conn' = [conn EXCEPT ![c] = n] /\ q.pc = "open" BY <1>3
<1>19. wsList' \in [Instance -> Seq(Nat)] /\ sub' \in [ConnSub -> Nat] BY <1>5, <1>6, <1>13
<1> QED BY <1>2, <1>7, <1>8, <1>12, <1>13, <1>14, <1>15, <1>16, <1>17, <1>18, <1>19, OwnStepKeeps

LEMMA RespondKeeps ==
  ASSUME ConnInv, NEW c \in Conns, RunRespond(c)
  PROVE  ConnInv'
<1> DEFINE q == conn[c]
           own == IF q.track = "own" THEN q.own \cup {q.at} ELSE q.own \ {q.at}
           n == [q EXCEPT !.track = "no", !.own = own]
<1>1. q \in ConnRec BY Endpoints DEF ConnInv
<1>2. q.track # "no" /\ conn' = [conn EXCEPT ![c] = n] /\ UNCHANGED <<hosts, wsList, sub, beatVars, failed, unlisted, robbed, lost>>
  BY DEF RunRespond, marks
<1>3. q.pc \in {"open", "dead"} /\ q.at \in ConnSub /\ q.track \in {"own", "disown"}
  BY <1>1, <1>2 DEF ConnInv, ConnShape, ConnRec
<1>4. own \in SUBSET ConnSub BY <1>1, <1>3 DEF ConnRec
<1>5. c \notin failed => \A s \in ConnSub :
        /\ sub[s] = c /\ q.pc = "open" => s \in q.own \/ (q.track = "own" /\ q.at = s)
        /\ q.track = "disown" /\ q.at = s => sub[s] # c
  BY DEF ConnInv, OwnFollowed
<1>6. c \notin failed => \A s \in ConnSub : sub[s] = c /\ q.pc = "open" => s \in own
  BY <1>3, <1>5
<1> HIDE DEF own
<1>7. n \in ConnRec /\ n.by = q.by /\ n.run = q.run /\ n.pc = q.pc /\ n.own = own /\ n.told = q.told /\ n.track = "no" /\ n.at = q.at
  BY <1>1, <1>4 DEF ConnRec
<1> HIDE DEF n
<1>8. c \notin failed' => \A s \in ConnSub :
           /\ sub[s] = c /\ n.pc \in {"open", "ending"} => s \in n.own \/ (n.track = "own" /\ n.at = s)
           /\ n.track = "disown" /\ n.at = s => sub[s] # c
  BY <1>2, <1>3, <1>6, <1>7
<1>9. n.pc # "ending" /\ failed' = failed BY <1>2, <1>3, <1>7
<1> QED BY <1>2, <1>3, <1>7, <1>8, <1>9, QuietStep

LEMMA ReadEndsKeeps ==
  ASSUME ConnInv, NEW c \in Conns, ReadEnds(c)
  PROVE  ConnInv'
<1> DEFINE q == conn[c]
           n == [q EXCEPT !.pc = "ending", !.at = "none"]
<1>1. q \in ConnRec BY Endpoints DEF ConnInv
<1>2. q.pc = "open" /\ q.track = "no" /\ conn' = [conn EXCEPT ![c] = n]
      /\ UNCHANGED <<hosts, wsList, sub, beatVars, failed, unlisted, robbed, lost>>
  BY DEF ReadEnds, marks
<1>3. n \in ConnRec /\ n.by = q.by /\ n.run = q.run /\ n.pc = "ending" /\ n.own = q.own /\ n.told = q.told /\ n.track = "no" /\ n.at = "none"
  BY <1>1, <1>2 DEF ConnRec, ConnPc
<1> HIDE DEF n
<1>4. c \notin failed => \A s \in ConnSub : sub[s] = c => s \in q.own
  BY <1>2 DEF ConnInv, OwnFollowed
<1>5. c \notin failed' => \A s \in ConnSub :
           /\ sub[s] = c /\ n.pc \in {"open", "ending"} => s \in n.own \/ (n.track = "own" /\ n.at = s)
           /\ n.track = "disown" /\ n.at = s => sub[s] # c
  BY <1>2, <1>3, <1>4
<1>6. failed' = failed BY <1>2
<1> QED BY <1>2, <1>3, <1>5, <1>6, QuietStep

LEMMA EndpointLookKeeps ==
  ASSUME ConnInv, NEW c \in Conns, EndpointLook(c)
  PROVE  ConnInv'
<1> DEFINE q == conn[c]
<1>1. q \in ConnRec BY Endpoints DEF ConnInv
<1>2. q.pc = "ending" /\ q.at = "none" /\ UNCHANGED <<hosts, wsList, sub, beatVars, unlisted, robbed, lost>>
  BY DEF EndpointLook
<1>3. PICK s \in q.own :
        /\ conn' = IF sub[s] = c /\ q.by \notin cut THEN [conn EXCEPT ![c].at = s] ELSE [conn EXCEPT ![c].own = @ \ {s}]
        /\ IF q.by \in cut THEN Fails(c) ELSE UNCHANGED failed
  BY DEF EndpointLook
<1>4. s \in ConnSub /\ q.own \ {s} \in SUBSET ConnSub BY <1>1 DEF ConnRec
<1>5. q.track = "no" /\ (c \notin failed => \A x \in ConnSub : sub[x] = c => x \in q.own)
  BY <1>1, <1>2 DEF ConnInv, OwnFollowed, ConnShape, ConnRec
<1>6. CASE sub[s] = c /\ q.by \notin cut
  <2> DEFINE n == [q EXCEPT !.at = s]
  <2>1. n \in ConnRec /\ n.by = q.by /\ n.run = q.run /\ n.pc = "ending" /\ n.own = q.own /\ n.told = q.told /\ n.track = "no" /\ n.at = s
    BY <1>1, <1>2, <1>4, <1>5 DEF ConnRec
  <2>2. conn' = [conn EXCEPT ![c] = n] /\ failed' = failed BY <1>3, <1>6
  <2> HIDE DEF n
  <2>3. c \notin failed' => \A x \in ConnSub :
           /\ sub[x] = c /\ n.pc \in {"open", "ending"} => x \in n.own \/ (n.track = "own" /\ n.at = x)
           /\ n.track = "disown" /\ n.at = x => sub[x] # c
    BY <1>5, <2>1, <2>2
  <2>4. sub[n.at] \in {c, NoEndpoint} BY <1>6, <2>1
  <2> QED BY <1>2, <2>1, <2>2, <2>3, <2>4, QuietStep
<1>7. CASE ~(sub[s] = c /\ q.by \notin cut)
  <2> DEFINE n == [q EXCEPT !.own = q.own \ {s}]
  <2>1. n \in ConnRec /\ n.by = q.by /\ n.run = q.run /\ n.pc = "ending" /\ n.own = q.own \ {s} /\ n.told = q.told /\ n.track = "no" /\ n.at = "none"
    BY <1>1, <1>2, <1>4, <1>5 DEF ConnRec
  <2>2. conn' = [conn EXCEPT ![c] = n] BY <1>3, <1>7
  <2>3. failed \subseteq failed' /\ failed' \subseteq failed \cup {c} /\ (q.by \in cut => c \in failed') BY <1>3 DEF Fails
  <2> HIDE DEF n
  <2>4. c \notin failed' => c \notin failed /\ sub[s] # c BY <1>7, <2>3
  <2>5. c \notin failed' => \A x \in ConnSub :
           /\ sub[x] = c /\ n.pc \in {"open", "ending"} => x \in n.own \/ (n.track = "own" /\ n.at = x)
           /\ n.track = "disown" /\ n.at = x => sub[x] # c
    BY <1>5, <2>1, <2>4
  <2> QED BY <1>2, <2>1, <2>2, <2>3, <2>5, QuietStep
<1> QED BY <1>6, <1>7

LEMMA CloseDeleteKeeps ==
  ASSUME ConnInv, NEW c \in Conns, CloseDelete(c)
  PROVE  ConnInv'
<1> DEFINE q == conn[c]
           s == q.at
           n == [q EXCEPT !.at = "none", !.own = q.own \ {s}]
<1>1. q \in ConnRec BY Endpoints DEF ConnInv
<1>2. /\ q.pc = "ending" /\ s # "none" /\ conn' = [conn EXCEPT ![c] = n] /\ UNCHANGED <<hosts, wsList, beatVars, unlisted, robbed>>
      /\ IF q.by \in cut THEN Fails(c) /\ UNCHANGED <<sub, lost>>
         ELSE sub' = [sub EXCEPT ![s] = NoEndpoint] /\ lost' = (lost \/ sub[s] = Elsewhere) /\ UNCHANGED failed
  BY DEF CloseDelete
<1>3. s \in ConnSub /\ q.own \ {s} \in SUBSET ConnSub /\ q.track = "no" /\ Alive(c)
  BY <1>1, <1>2 DEF ConnInv, ConnShape, ConnRec, Alive
<1>4. n \in ConnRec /\ n.by = q.by /\ n.run = q.run /\ n.pc = "ending" /\ n.own = q.own \ {s} /\ n.told = q.told /\ n.track = "no" /\ n.at = "none"
  BY <1>1, <1>2, <1>3 DEF ConnRec
<1> HIDE DEF n
<1>5. sub \in [ConnSub -> Nat] /\ wsList \in [Instance -> Seq(Nat)] BY DEF ConnInv, ConnTypes
<1>6. sub[s] \in {c, NoEndpoint} BY <1>2 DEF ConnInv, LooksHold
<1>7. lost' = lost
  <2>1. lost = FALSE /\ (sub[s] = Elsewhere) = FALSE BY <1>6, Endpoints DEF ConnInv, ConnTypes
  <2> QED BY <1>2, <2>1
<1>8. sub' \in [ConnSub -> Nat] /\ (\A x \in ConnSub : sub'[x] \in {sub[x], NoEndpoint}) /\ (q.by \notin cut => sub'[s] # c)
  <2>1. NoEndpoint \in Nat /\ NoEndpoint # c BY Endpoints DEF NoEndpoint, ConnInv
  <2> QED BY <1>2, <1>3, <1>5, <2>1
<1>9. failed \subseteq failed' /\ failed' \subseteq failed \cup {c} /\ (q.by \in cut => c \in failed') BY <1>2 DEF Fails
<1>10. c \notin failed => \A x \in ConnSub : sub[x] = c => x \in q.own
  BY <1>2, <1>3 DEF ConnInv, OwnFollowed
<1>11. c \notin failed' => \A x \in ConnSub : sub'[x] = c => x \in q.own /\ x # s
  BY <1>8, <1>9, <1>10, Endpoints DEF ConnInv
<1>12. c \notin failed' => \A x \in ConnSub :
           /\ sub'[x] = c => n.pc # "gone"
           /\ sub'[x] = c /\ n.pc \in {"open", "ending"} => x \in n.own \/ (n.track = "own" /\ n.at = x)
           /\ n.track = "disown" /\ n.at = x => sub'[x] # c
  BY <1>4, <1>11
<1>13. \A b \in Instance : Listed(b)' = Listed(b) BY <1>2 DEF Listed
<1>14. \A b \in Instance : b = conn[c].by /\ c \notin unlisted' => c \in Listed(b)' BY <1>2, <1>13 DEF ConnInv, ConnShape
<1>15. wsList' = wsList /\ unlisted' = unlisted BY <1>2
<1>16. UNCHANGED <<hosts, beatVars, robbed, lost>> BY <1>2, <1>7
<1>17. \A x \in ConnSub : sub'[x] = sub[x] \/ sub'[x] \in {NoEndpoint, Elsewhere} \/ (sub'[x] = c /\ n.pc = "open" /\ conn[c].pc = "open" /\ conn[c].by \notin cut)
  BY <1>8
<1>18. conn' = [conn EXCEPT ![c] = n] BY <1>2
<1> QED BY <1>3, <1>4, <1>5, <1>8, <1>9, <1>12, <1>13, <1>14, <1>15, <1>16, <1>17, <1>18, OwnStepKeeps

LEMMA WsGoneKeeps ==
  ASSUME ConnInv, NEW c \in Conns, WsGone(c)
  PROVE  ConnInv'
<1> DEFINE q == conn[c]
           l == wsList[q.by]
           n == [q EXCEPT !.pc = "gone"]
<1>1. q \in ConnRec /\ q.by \in Instance BY Endpoints DEF ConnInv, ConnRec
<1>2. /\ q.pc = "ending" /\ q.own = {} /\ conn' = [conn EXCEPT ![c] = n] /\ UNCHANGED <<hosts, sub, beatVars, failed, unlisted, robbed, lost>>
      /\ \/ \E k \in DOMAIN l : /\ l[k] = c
                                /\ wsList' = [wsList EXCEPT ![q.by] = SubSeq(l, 1, k - 1) \o SubSeq(l, k + 1, Len(l))]
         \/ UNCHANGED wsList
  BY DEF WsGone, marks
<1>3. sub \in [ConnSub -> Nat] /\ wsList \in [Instance -> Seq(Nat)] /\ l \in Seq(Nat) /\ q.track = "no"
  BY <1>1, <1>2 DEF ConnInv, ConnTypes, ConnShape, ConnRec
<1>4. n \in ConnRec /\ n.by = q.by /\ n.run = q.run /\ n.pc = "gone" /\ n.own = {} /\ n.told = q.told /\ n.track = "no"
  BY <1>1, <1>2, <1>3 DEF ConnRec, ConnPc
<1> HIDE DEF n
<1>5. c \notin failed => \A s \in ConnSub : sub[s] # c BY <1>2, <1>3 DEF ConnInv, OwnFollowed
<1>6. wsList' \in [Instance -> Seq(Nat)] /\ \A b \in Instance : \A d \in Conns \ {c} : d \in Listed(b) => d \in Listed(b)'
  <2>1. CASE UNCHANGED wsList BY <1>3, <2>1 DEF Listed
  <2>2. ASSUME NEW k \in DOMAIN l, l[k] = c, wsList' = [wsList EXCEPT ![q.by] = SubSeq(l, 1, k - 1) \o SubSeq(l, k + 1, Len(l))]
        PROVE  wsList' \in [Instance -> Seq(Nat)] /\ \A b \in Instance : \A d \in Conns \ {c} : d \in Listed(b) => d \in Listed(b)'
    <3> DEFINE front == SubSeq(l, 1, k - 1)
               rest == SubSeq(l, k + 1, Len(l))
               m == front \o rest
    <3>1. k \in 1..Len(l) /\ k - 1 \in 0..Len(l) /\ k \in 0..Len(l) /\ Len(l) \in Nat BY <1>3
    <3>2. front \in Seq(Nat) /\ Len(front) = k - 1 /\ \A i \in 1..(k - 1) : front[i] = l[i]
      <4> DEFINE p == k - 1
      <4>1. l \in Seq(Nat) /\ p \in 0..Len(l) BY <1>3, <3>1
      <4> HIDE DEF l, p
      <4>2. SubSeq(l, 1, p) \in Seq(Nat) /\ Len(SubSeq(l, 1, p)) = p /\ \A i \in 1..p : SubSeq(l, 1, p)[i] = l[i] BY <4>1, SplitSeq
      <4> QED BY <4>2 DEF p
    <3>3. rest \in Seq(Nat) /\ Len(rest) = Len(l) - k /\ \A i \in 1..(Len(l) - k) : rest[i] = l[k + i]
      <4>1. l \in Seq(Nat) /\ k \in 0..Len(l) BY <1>3, <3>1
      <4> HIDE DEF l
      <4> QED BY <4>1, SplitSeq
    <3>4. wsList' = [wsList EXCEPT ![q.by] = m] BY <2>2
    <3> HIDE DEF front, rest
    <3>5. m \in Seq(Nat) /\ Len(m) = (k - 1) + (Len(l) - k) /\ \A i \in 1..Len(m) : m[i] = IF i <= k - 1 THEN front[i] ELSE rest[i - (k - 1)]
      <4>1. /\ m \in Seq(Nat) /\ Len(m) = Len(front) + Len(rest)
            /\ \A i \in 1..(Len(front) + Len(rest)) : m[i] = IF i <= Len(front) THEN front[i] ELSE rest[i - Len(front)]
        BY <3>2, <3>3, ConcatProperties
      <4> QED BY <3>2, <3>3, <4>1
    <3> HIDE DEF m
    <3>6. wsList' \in [Instance -> Seq(Nat)] /\ wsList'[q.by] = m /\ \A b \in Instance \ {q.by} : wsList'[b] = wsList[b]
      BY <1>1, <1>3, <3>4, <3>5
    <3>7. ASSUME NEW i \in 1..Len(l), i # k PROVE \E j \in DOMAIN m : m[j] = l[i]
      <4> DEFINE z == Len(l)
      <4>1. z = Len(l) /\ z \in Nat BY <3>1
      <4> HIDE DEF z
      <4>2. CASE i < k
        <5>1. i \in 1..(k - 1) /\ i \in 1..Len(m) /\ i <= k - 1
          <6>1. i \in Nat /\ k \in Nat /\ Len(m) = (k - 1) + (z - k) /\ 1 <= i /\ i <= z /\ k <= z BY <3>1, <3>5, <3>7, <4>1
          <6> DEFINE lm == Len(m)
          <6>2. lm = (k - 1) + (z - k) BY <6>1
          <6> HIDE DEF lm
          <6>3. i \in 1..(k - 1) /\ i \in 1..lm /\ i <= k - 1 BY <6>1, <6>2, <4>1, <4>2
          <6> QED BY <6>3 DEF lm
        <5>2. m[i] = l[i] BY <3>2, <3>5, <5>1
        <5> QED BY <3>5, <5>1, <5>2
      <4>3. CASE i > k
        <5>1. i - 1 \in 1..Len(m) /\ ~(i - 1 <= k - 1) /\ (i - 1) - (k - 1) = i - k /\ i - k \in 1..(z - k) /\ k + (i - k) = i
          <6>1. i \in Nat /\ k \in Nat /\ Len(m) = (k - 1) + (z - k) /\ 1 <= k /\ 1 <= i /\ i <= z /\ k <= z BY <3>1, <3>5, <3>7, <4>1
          <6> DEFINE lm == Len(m)
          <6>2. lm = (k - 1) + (z - k) BY <6>1
          <6> HIDE DEF lm
          <6>3. i - 1 \in 1..lm /\ ~(i - 1 <= k - 1) /\ (i - 1) - (k - 1) = i - k /\ i - k \in 1..(z - k) /\ k + (i - k) = i
            BY <6>1, <6>2, <4>1, <4>3
          <6> QED BY <6>3 DEF lm
        <5>2. m[i - 1] = rest[i - k] BY <3>5, <5>1
        <5>3. rest[i - k] = l[i] BY <3>3, <4>1, <5>1
        <5>4. DOMAIN m = 1..Len(m) BY <3>5
        <5> QED BY <5>1, <5>2, <5>3, <5>4
      <4> QED BY <3>1, <3>7, <4>2, <4>3
    <3>8. ASSUME NEW b \in Instance, NEW d \in Conns \ {c}, d \in Listed(b) PROVE d \in Listed(b)'
      <4>1. CASE b # q.by BY <3>6, <3>8, <4>1 DEF Listed
      <4>2. CASE b = q.by
        <5>1. PICK i \in 1..Len(l) : l[i] = d
          <6>1. PICK i \in DOMAIN wsList[b] : wsList[b][i] = d BY <3>8 DEF Listed
          <6>2. DOMAIN l = 1..Len(l) BY <1>3
          <6> QED BY <4>2, <6>1, <6>2
        <5>2. i # k BY <2>2, <3>8, <5>1
        <5>3. PICK j \in DOMAIN m : m[j] = d BY <3>7, <5>1, <5>2
        <5> QED BY <3>6, <4>2, <5>3 DEF Listed
      <4> QED BY <4>1, <4>2
    <3> QED BY <3>6, <3>8
  <2> QED BY <1>2, <2>1, <2>2
<1>7. c \notin failed' => \A x \in ConnSub :
           /\ sub'[x] = c => n.pc # "gone"
           /\ sub'[x] = c /\ n.pc \in {"open", "ending"} => x \in n.own \/ (n.track = "own" /\ n.at = x)
           /\ n.track = "disown" /\ n.at = x => sub'[x] # c
  BY <1>2, <1>4, <1>5
<1>8. sub' = sub /\ failed' = failed /\ unlisted' = unlisted /\ UNCHANGED <<hosts, beatVars, robbed, lost>> /\ conn' = [conn EXCEPT ![c] = n] BY <1>2
<1> QED BY <1>3, <1>4, <1>6, <1>7, <1>8, OwnStepKeeps

-----------------------------------------------------------------------------
(* Connections: the other steps *)

LEMMA UpgradeKeeps ==
  ASSUME ConnInv, NEW b \in Instance, UpgradeTake(b)
  PROVE  ConnInv'
<1> DEFINE q == NewConn(b)
<1>0. PICK k : k = Len(conn) + 1 OBVIOUS
<1>1. /\ conn \in Seq(ConnRec) /\ Len(conn) \in Nat /\ Conns = 1..Len(conn) /\ run[b] \in Nat
      /\ \A s \in ConnSub : sub[s] \in Conns \cup {NoEndpoint, Elsewhere}
  BY DEF ConnInv, ConnTypes, Conns
<1>2. /\ up[b] = "serving" /\ Len(conn) < MaxConn /\ conn' = Append(conn, q)
      /\ UNCHANGED <<ha, up, run, lastRun, wsList, sub, beats, aged, cut, fenced, sweep, failed, unlisted, robbed, lost>>
  BY DEF UpgradeTake, hosts, beatVars, marks
<1>3. q \in ConnRec /\ q.by = b /\ q.run = run[b] /\ q.pc = "taking" /\ q.track = "no" /\ q.at = "none" BY <1>1 DEF NewConn, ConnRec, ConnPc
<1> HIDE DEF q
<1>4. /\ conn' \in Seq(ConnRec) /\ Len(conn') = k /\ Conns' = Conns \cup {k} /\ k \notin Conns
      /\ conn'[k] = q /\ \A c \in Conns : conn'[c] = conn[c]
  BY <1>0, <1>1, <1>2, <1>3 DEF Conns
<1>5. k <= MaxConn /\ k \notin {NoEndpoint, Elsewhere}
  BY <1>0, <1>1, <1>2, ConnectionAssumption DEF NoEndpoint, Elsewhere
<1>6. \A s \in ConnSub : sub[s] # k BY <1>1, <1>4, <1>5
<1>7. k \notin failed /\ k \notin robbed BY <1>4 DEF ConnInv, ConnTypes
<1>8. \A c \in Conns : (Alive(c)' <=> Alive(c)) /\ (Notified(c)' <=> Notified(c)) BY <1>2, <1>4 DEF Alive, Notified
<1>9. ~Notified(k)' BY <1>2, <1>6 DEF Notified
<1>10. ConnTypes' BY <1>2, <1>4, <1>5 DEF ConnInv, ConnTypes
<1>11. BrokersApart' /\ (\A o \in Instance : SweepShape(o)') BY <1>2 DEF ConnInv, BrokersApart, SweepShape, Ups
<1>12. ASSUME NEW c \in Conns' PROVE ConnShape(c)'
  <2>1. CASE c = k
    <3>1. run[b] <= lastRun BY DEF ConnInv, BrokersApart
    <3>3. ~Notified(c)' /\ c \notin robbed' BY <1>2, <1>7, <1>9, <2>1
    <3> QED BY <1>2, <1>3, <1>4, <2>1, <3>1, <3>3 DEF ConnShape, Alive
  <2>2. CASE c \in Conns
    <3>1. ConnShape(c) BY <2>2 DEF ConnInv
    <3>2. PICK o \in Instance : o = conn[c].by BY <2>2, Endpoints DEF ConnInv, ConnRec
    <3>3. Listed(o)' = Listed(o) BY <1>2 DEF Listed
    <3>4. Alive(c)' <=> Alive(c) BY <1>8, <2>2
    <3>5. Notified(c)' <=> Notified(c) BY <1>8, <2>2
    <3>6. conn'[c] = conn[c] BY <1>4, <2>2
    <3> QED BY <1>2, <3>1, <3>2, <3>3, <3>4, <3>5, <3>6 DEF ConnShape
  <2> QED BY <1>4, <2>1, <2>2
<1>13. BeatsKnown'
  <2>1. ASSUME ha, NEW c \in Conns', Alive(c)', Notified(c)' PROVE conn'[c].run \in beats \cup aged
    <3>1. c \in Conns BY <1>4, <1>9, <2>1
    <3> QED BY <1>4, <1>8, <2>1, <3>1 DEF ConnInv, BeatsKnown
  <2> QED BY <1>2, <2>1 DEF ConnInv, BeatsKnown, Ups, Looking
<1>14. SweptAreTold'
  <2>1. \A c \in robbed : c \in Conns BY DEF ConnInv, ConnTypes
  <2> QED BY <1>2, <1>4, <2>1 DEF ConnInv, SweptAreTold
<1>15. FencedAreTold'
  <2>1. ASSUME NEW o \in Ups \cap fenced, NEW c \in Conns', conn'[c].by = o, Alive(c)', c \notin unlisted, conn'[c].pc = "open", Notified(c)' \/ c \in robbed
        PROVE  conn'[c].told
    <3>1. c \in Conns BY <1>4, <1>7, <1>9, <2>1
    <3> QED BY <1>4, <1>8, <2>1, <3>1 DEF ConnInv, FencedAreTold, Of
  <2> QED BY <1>2, <2>1 DEF FencedAreTold, Of, Ups
<1>16. LooksHold'
  <2>1. ASSUME NEW c \in Conns', conn'[c].pc = "ending", conn'[c].at # "none" PROVE sub[conn'[c].at] \in {c, NoEndpoint}
    <3>1. c \in Conns BY <1>3, <1>4, <2>1
    <3> QED BY <1>4, <2>1, <3>1 DEF ConnInv, LooksHold
  <2>2. ASSUME NEW o \in Instance, NEW s \in sweep[o].todo PROVE sub[s] = NoEndpoint \/ (sub[s] \in Conns' /\ conn'[sub[s]].run \notin sweep[o].live)
    BY <1>4, <2>2 DEF ConnInv, LooksHold
  <2> QED BY <1>2, <2>1, <2>2 DEF LooksHold
<1>17. OwnFollowed'
  <2>1. ASSUME NEW c \in Conns', c \notin failed, NEW s \in ConnSub
        PROVE  /\ sub[s] = c => conn'[c].pc # "gone"
               /\ sub[s] = c /\ conn'[c].pc \in {"open", "ending"} => s \in conn'[c].own \/ (conn'[c].track = "own" /\ conn'[c].at = s)
               /\ conn'[c].track = "disown" /\ conn'[c].at = s => sub[s] # c
    <3>1. CASE c = k BY <1>6, <3>1
    <3>2. CASE c \in Conns BY <1>4, <2>1, <3>2 DEF ConnInv, OwnFollowed
    <3> QED BY <1>4, <3>1, <3>2
  <2>2. sub' = sub /\ failed' = failed BY <1>2
  <2> QED BY <2>1, <2>2 DEF OwnFollowed
<1>18. SweepsCover'
  <2>1. \A s \in ConnSub : sub[s] \in Conns' \ failed => sub[s] \in Conns \ failed /\ conn'[sub[s]] = conn[sub[s]] BY <1>4, <1>6
  <2> QED BY <1>2, <2>1 DEF ConnInv, SweepsCover, Ups
<1> QED BY <1>2, <1>10, <1>11, <1>12, <1>13, <1>14, <1>15, <1>16, <1>17, <1>18 DEF ConnInv

LEMMA HttpKeeps ==
  ASSUME ConnInv, ~Lag, NEW s \in ConnSub, HttpRequest(s)
  PROVE  ConnInv'
<1>1. PICK to \in {Elsewhere, NoEndpoint} : sub' = [sub EXCEPT ![s] = to] BY DEF HttpRequest
<1>2. UNCHANGED <<ha, up, run, lastRun, conn, wsList, beats, aged, cut, fenced, sweep, failed, unlisted, robbed, lost>>
  BY DEF HttpRequest, hosts, beatVars, marks
<1>3. (\A d \in Conns : conn[d].at # s \/ conn[d].pc # "ending") /\ \A b \in Instance : s \notin sweep[b].todo
  BY DEF HttpRequest, Unlooked, Unswept
<1>4. to \in Nat /\ to \notin Conns BY Endpoints, ConnectionAssumption DEF ConnInv, NoEndpoint, Elsewhere
<1>5. sub' \in [ConnSub -> Nat] /\ sub'[s] = to /\ \A x \in ConnSub \ {s} : sub'[x] = sub[x] BY <1>1, <1>4 DEF ConnInv, ConnTypes
<1>6. Conns' = Conns /\ \A c \in Conns : (Notified(c)' => Notified(c)) /\ (Alive(c)' <=> Alive(c)) BY <1>2, <1>4, <1>5 DEF Notified, Alive, Conns
<1>7. ConnTypes' BY <1>1, <1>2, <1>5, <1>6 DEF ConnInv, ConnTypes
<1>8. BrokersApart' /\ (\A o \in Instance : SweepShape(o)') BY <1>2 DEF ConnInv, BrokersApart, SweepShape, Ups
<1>9. ASSUME NEW c \in Conns PROVE ConnShape(c)'
  <2>1. ConnShape(c) BY DEF ConnInv
  <2>2. PICK o \in Instance : o = conn[c].by BY Endpoints DEF ConnInv, ConnRec
  <2>3. Listed(o)' = Listed(o) BY <1>2 DEF Listed
  <2> QED BY <1>2, <1>6, <2>1, <2>2, <2>3 DEF ConnShape
<1>10. BeatsKnown' BY <1>2, <1>6 DEF ConnInv, BeatsKnown, Ups, Looking
<1>11. SweptAreTold' BY <1>2 DEF ConnInv, SweptAreTold
<1>12. FencedAreTold' BY <1>2, <1>6 DEF ConnInv, FencedAreTold, Of, Ups
<1>13. LooksHold'
  <2>1. ASSUME NEW c \in Conns, conn[c].pc = "ending", conn[c].at # "none" PROVE sub'[conn[c].at] \in {c, NoEndpoint}
    <3>1. conn[c].at \in ConnSub /\ conn[c].at # s BY <1>3, <2>1, Endpoints DEF ConnInv, ConnRec
    <3> QED BY <1>5, <2>1, <3>1 DEF ConnInv, LooksHold
  <2>2. ASSUME NEW o \in Instance, NEW x \in sweep[o].todo PROVE sub'[x] = NoEndpoint \/ (sub'[x] \in Conns /\ conn[sub'[x]].run \notin sweep[o].live)
    <3>1. x \in ConnSub /\ x # s BY <1>3, <2>2 DEF ConnInv, ConnTypes, SweepRec
    <3>2. sub'[x] = sub[x] BY <1>5, <3>1
    <3> QED BY <3>2, <2>2 DEF ConnInv, LooksHold
  <2> QED BY <1>2, <1>6, <2>1, <2>2 DEF LooksHold
<1>14. \A x \in ConnSub : sub'[x] \in Conns => sub'[x] = sub[x] BY <1>4, <1>5
<1>15. OwnFollowed' BY <1>2, <1>6, <1>14 DEF ConnInv, OwnFollowed
<1>16. SweepsCover' BY <1>2, <1>6, <1>14 DEF ConnInv, SweepsCover, Ups
<1> QED BY <1>2, <1>6, <1>7, <1>8, <1>9, <1>10, <1>11, <1>12, <1>13, <1>15, <1>16 DEF ConnInv

\* A step of a broker that leaves the connections where they are, but may tell them to close
LEMMA ConnsStay ==
  ASSUME ConnInv, conn' \in Seq(ConnRec), Len(conn') = Len(conn),
         \A c \in Conns : /\ conn'[c].by = conn[c].by /\ conn'[c].run = conn[c].run /\ conn'[c].pc = conn[c].pc /\ conn'[c].own = conn[c].own
                          /\ conn'[c].track = conn[c].track /\ conn'[c].at = conn[c].at /\ (conn[c].told => conn'[c].told),
         UNCHANGED <<ha, wsList, sub, failed, unlisted, robbed, lost>>, lastRun' \in Nat, lastRun <= lastRun',
         \A b \in Instance : up[b] \in {"serving", "stopping"} => up'[b] \in {"serving", "stopping"} /\ run'[b] = run[b]
  PROVE  /\ Conns' = Conns /\ (\A c \in Conns : ConnShape(c)') /\ OwnFollowed'
         /\ \A c \in Conns : conn'[c].pc = "ending" /\ conn'[c].at # "none" => sub'[conn'[c].at] \in {c, NoEndpoint}
         /\ \A c \in Conns : (Alive(c)' <=> Alive(c)) /\ (Notified(c)' <=> Notified(c))
<1>1. Conns' = Conns BY DEF Conns
<1>2. \A c \in Conns : (Alive(c)' <=> Alive(c)) /\ (Notified(c)' <=> Notified(c)) BY DEF Alive, Notified
<1>3. ASSUME NEW c \in Conns PROVE ConnShape(c)'
  <2>1. ConnShape(c) BY DEF ConnInv
  <2>2. PICK o \in Instance : o = conn[c].by BY Endpoints DEF ConnInv, ConnRec
  <2>3. Listed(o)' = Listed(o) BY DEF Listed
  <2>4. conn'[c].run <= lastRun'
    <3>1. conn[c].run \in Nat /\ lastRun \in Nat /\ conn[c].run <= lastRun BY <2>1, Endpoints DEF ConnInv, ConnTypes, ConnRec, ConnShape
    <3> QED BY <3>1
  <2>5. conn'[c].by = o /\ conn'[c].pc = conn[c].pc /\ conn'[c].track = conn[c].track /\ conn'[c].at = conn[c].at /\ conn'[c].run = conn[c].run BY <2>2
  <2> QED BY <1>2, <2>1, <2>2, <2>3, <2>4, <2>5 DEF ConnShape
<1>4. OwnFollowed' BY <1>1 DEF ConnInv, OwnFollowed
<1>5. \A c \in Conns : conn'[c].pc = "ending" /\ conn'[c].at # "none" => sub'[conn'[c].at] \in {c, NoEndpoint} BY DEF ConnInv, LooksHold
<1> QED BY <1>1, <1>2, <1>3, <1>4, <1>5

\* A step of a sweep alone: what it then takes for gone is gone, and what it has listed is listed
LEMMA SweepStep ==
  ASSUME ConnInv, NEW b \in Instance, NEW n \in SweepRec, sweep' = [sweep EXCEPT ![b] = n],
         UNCHANGED <<hosts, conn, wsList, sub, aged, cut, fenced, marks>>, beats' \subseteq beats,
         sweep[b].pc \notin {"idle", "first"}, n.pc # "first",
         n.todo # {} => n.pc = "delete",
         \A r \in n.live \cup n.docs : r <= lastRun,
         ~ha => n.pc \in {"idle", "walk", "delete"} /\ (n.pc # "idle" => n.live = {run[b]}),
         ha /\ n.pc \in {"walk", "delete", "docs"} => \A o \in Ups : run[o] \notin n.live => run[o] \in aged \/ run[o] \notin beats,
         ha => \A r \in beats \ beats' : \A o \in Ups : run[o] = r => r \in aged,
         \A s \in n.todo : sub[s] = NoEndpoint \/ (sub[s] \in Conns /\ conn[sub[s]].run \notin n.live),
         n.pc \in {"delete", "docs"} =>
           \A s \in ConnSub : sub[s] \in Conns \ failed /\ conn[sub[s]].run \notin n.live => s \in n.todo,
         ~ha /\ n.pc = "idle" => \A s \in ConnSub : sub[s] \in Conns \ failed => conn[sub[s]].run = run[b]
  PROVE  ConnInv'
<1>1. UNCHANGED <<ha, up, run, lastRun, conn, wsList, sub, aged, cut, fenced, failed, unlisted, robbed, lost>> BY DEF hosts, marks
<1>2. sweep' \in [Instance -> SweepRec] /\ sweep'[b] = n /\ \A o \in Instance \ {b} : sweep'[o] = sweep[o]
  BY DEF ConnInv, ConnTypes
<1>3. lastRun \in Nat /\ conn \in Seq(ConnRec) /\ \A o \in Instance : SweepShape(o) BY DEF ConnInv, ConnTypes
<1>4. /\ Conns' = Conns /\ (\A c \in Conns : ConnShape(c)') /\ OwnFollowed'
      /\ \A c \in Conns : conn'[c].pc = "ending" /\ conn'[c].at # "none" => sub'[conn'[c].at] \in {c, NoEndpoint}
      /\ \A c \in Conns : (Alive(c)' <=> Alive(c)) /\ (Notified(c)' <=> Notified(c))
  <2>1. lastRun' \in Nat /\ lastRun <= lastRun' BY <1>1, <1>3
  <2>2. conn' \in Seq(ConnRec) /\ Len(conn') = Len(conn) /\ UNCHANGED <<ha, wsList, sub, failed, unlisted, robbed, lost>> BY <1>1, <1>3
  <2>3. \A c \in Conns : /\ conn'[c].by = conn[c].by /\ conn'[c].run = conn[c].run /\ conn'[c].pc = conn[c].pc /\ conn'[c].own = conn[c].own
                         /\ conn'[c].track = conn[c].track /\ conn'[c].at = conn[c].at /\ (conn[c].told => conn'[c].told)
    BY <1>1
  <2>4. \A o \in Instance : up[o] \in {"serving", "stopping"} => up'[o] \in {"serving", "stopping"} /\ run'[o] = run[o] BY <1>1
  <2> QED BY <2>1, <2>2, <2>3, <2>4, ConnsStay
<1>5. ConnTypes' BY <1>1, <1>2, <1>4 DEF ConnInv, ConnTypes
<1>6. BrokersApart' BY <1>1 DEF ConnInv, BrokersApart, Ups
<1>7. up[b] # "down" BY <1>3 DEF SweepShape, NoSweep
<1>8. ASSUME NEW o \in Instance PROVE SweepShape(o)'
  <2>1. SweepShape(o) BY <1>3
  <2>2. CASE o # b BY <1>1, <1>2, <2>1, <2>2 DEF SweepShape
  <2>3. CASE o = b
    <3>1. ~ha => up[b] = "starting" BY <1>3 DEF SweepShape
    <3> QED BY <1>1, <1>2, <1>7, <2>3, <3>1 DEF SweepShape
  <2> QED BY <2>2, <2>3
<1>9. BeatsKnown'
  <2> SUFFICES ASSUME ha PROVE BeatsKnown' BY <1>1 DEF BeatsKnown
  <2>1. ASSUME NEW o \in Ups, sweep'[o].pc # "first", o \notin cut PROVE run[o] \in beats' \ aged
    <3>1. sweep[o].pc # "first" BY <1>2, <2>1 DEF Ups
    <3>2. run[o] \in beats \ aged BY <2>1, <3>1 DEF ConnInv, BeatsKnown
    <3> QED BY <2>1, <3>2
  <2>2. ASSUME NEW o \in Instance, Looking(o)', NEW p \in Ups, run[p] \notin sweep'[o].live PROVE run[p] \in aged \/ run[p] \notin beats'
    <3>1. CASE o = b BY <1>2, <2>2, <3>1 DEF Looking
    <3>2. CASE o # b BY <1>2, <2>2, <3>2 DEF ConnInv, BeatsKnown, Looking
    <3> QED BY <3>1, <3>2
  <2>3. ASSUME NEW c \in Conns, Alive(c), Notified(c) PROVE conn[c].run \in beats' \cup aged
    <3>1. conn[c].run \in beats \cup aged BY <2>3 DEF ConnInv, BeatsKnown
    <3>2. ConnShape(c) /\ conn[c].by \in Instance BY Endpoints DEF ConnInv, ConnRec
    <3>3. conn[c].by \in Ups /\ run[conn[c].by] = conn[c].run BY <2>3, <3>2 DEF ConnShape, Ups
    <3> QED BY <3>1, <3>3
  <2>4. \A o \in Ups \cap fenced : run[o] \in aged BY DEF ConnInv, BeatsKnown
  <2> QED BY <1>1, <1>4, <2>1, <2>2, <2>3, <2>4 DEF BeatsKnown, Ups
<1>10. SweptAreTold' BY <1>1 DEF ConnInv, SweptAreTold
<1>11. FencedAreTold' BY <1>1, <1>4 DEF ConnInv, FencedAreTold, Of, Ups
<1>12. LooksHold'
  <2>1. ASSUME NEW o \in Instance, NEW s \in sweep'[o].todo PROVE sub[s] = NoEndpoint \/ (sub[s] \in Conns /\ conn[sub[s]].run \notin sweep'[o].live)
    <3>1. CASE o = b BY <1>2, <2>1, <3>1
    <3>2. CASE o # b BY <1>2, <2>1, <3>2 DEF ConnInv, LooksHold
    <3> QED BY <3>1, <3>2
  <2> QED BY <1>1, <1>4, <2>1 DEF LooksHold
<1>13. SweepsCover'
  <2>1. ASSUME NEW o \in Instance, sweep'[o].pc \in {"delete", "docs"}, NEW s \in ConnSub, sub[s] \in Conns \ failed, conn[sub[s]].run \notin sweep'[o].live
        PROVE  s \in sweep'[o].todo
    <3>1. CASE o = b BY <1>2, <2>1, <3>1
    <3>2. CASE o # b BY <1>2, <2>1, <3>2 DEF ConnInv, SweepsCover
    <3> QED BY <3>1, <3>2
  <2>2. ASSUME ~ha, NEW o \in Ups, sweep'[o].pc = "idle", NEW s \in ConnSub, sub[s] \in Conns \ failed PROVE conn[sub[s]].run = run[o]
    <3>1. CASE o = b BY <1>2, <2>2, <3>1
    <3>2. CASE o # b BY <1>2, <2>2, <3>2 DEF ConnInv, SweepsCover, Ups
    <3> QED BY <3>1, <3>2
  <2> QED BY <1>1, <1>4, <2>1, <2>2 DEF SweepsCover, Ups
<1> QED BY <1>1, <1>4, <1>5, <1>6, <1>8, <1>9, <1>10, <1>11, <1>12, <1>13 DEF ConnInv

LEMMA DocQueryKeeps ==
  ASSUME ConnInv, NEW b \in Instance, DocQuery(b)
  PROVE  ConnInv'
<1> DEFINE n == IF b \in cut THEN NoSweep ELSE [sweep[b] EXCEPT !.pc = "walk", !.live = (beats \ aged) \cup {run[b]}, !.docs = beats]
<1>1. sweep[b].pc = "query" /\ sweep' = [sweep EXCEPT ![b] = n] /\ UNCHANGED <<hosts, conn, wsList, sub, beats, aged, cut, fenced, marks>>
  BY DEF DocQuery
<1>2. sweep[b] \in SweepRec /\ SweepShape(b) /\ run[b] \in Nat BY DEF ConnInv, ConnTypes
<1>3. ha /\ sweep[b].todo = {} BY <1>1, <1>2 DEF SweepShape, ConnInv, ConnTypes
<1>4. \A r \in beats \cup {run[b]} : r \in Nat /\ r <= lastRun BY <1>2 DEF ConnInv, BrokersApart
<1>5. n \in SweepRec /\ n.todo = {} /\ (\/ n.pc = "idle" /\ n.live = {} /\ n.docs = {}
                                        \/ n.pc = "walk" /\ n.live = (beats \ aged) \cup {run[b]} /\ n.docs = beats)
  <2>1. (beats \ aged) \cup {run[b]} \in SUBSET Nat /\ beats \in SUBSET Nat BY <1>4
  <2>2. CASE b \in cut BY <2>2 DEF NoSweep, SweepRec, SweepPc
  <2>3. CASE b \notin cut BY <1>2, <1>3, <2>1, <2>3 DEF SweepRec, SweepPc
  <2> QED BY <2>2, <2>3
<1> HIDE DEF n
<1>6. \A r \in n.live \cup n.docs : r <= lastRun BY <1>4, <1>5
<1>7. \A o \in Ups : n.pc = "walk" /\ run[o] \notin n.live => run[o] \in aged \/ run[o] \notin beats BY <1>5
<1>8. beats' \subseteq beats /\ beats \ beats' = {} BY <1>1
<1>9. UNCHANGED <<hosts, conn, wsList, sub, aged, cut, fenced, marks>> /\ sweep' = [sweep EXCEPT ![b] = n] /\ sweep[b].pc = "query" BY <1>1
<1> QED BY <1>3, <1>5, <1>6, <1>7, <1>8, <1>9, SweepStep

LEMMA LeftoversWalkKeeps ==
  ASSUME ConnInv, NEW b \in Instance, LeftoversWalk(b)
  PROVE  ConnInv'
<1> DEFINE todo == {s \in ConnSub : sub[s] \in Conns /\ conn[sub[s]].run \notin sweep[b].live}
           n == [sweep[b] EXCEPT !.pc = "delete", !.todo = todo]
<1>1. sweep[b].pc = "walk" /\ sweep' = [sweep EXCEPT ![b] = n] /\ UNCHANGED <<hosts, conn, wsList, sub, beats, aged, cut, fenced, marks>>
  BY DEF LeftoversWalk, ConnInv, ConnTypes
<1>2. sweep[b] \in SweepRec /\ SweepShape(b) BY DEF ConnInv, ConnTypes
<1>3. todo \in SUBSET ConnSub OBVIOUS
<1>4. \A s \in todo : sub[s] \in Conns /\ conn[sub[s]].run \notin sweep[b].live OBVIOUS
<1>5. \A s \in ConnSub : sub[s] \in Conns \ failed /\ conn[sub[s]].run \notin sweep[b].live => s \in todo OBVIOUS
<1> HIDE DEF todo
<1>6. n \in SweepRec /\ n.pc = "delete" /\ n.todo = todo /\ n.live = sweep[b].live /\ n.docs = sweep[b].docs BY <1>2, <1>3 DEF SweepRec, SweepPc
<1> HIDE DEF n
<1>7. (\A r \in n.live \cup n.docs : r <= lastRun) /\ (~ha => n.live = {run[b]}) BY <1>1, <1>2, <1>6 DEF SweepShape
<1>8. ha => \A o \in Ups : run[o] \notin n.live => run[o] \in aged \/ run[o] \notin beats BY <1>1, <1>6 DEF ConnInv, BeatsKnown, Looking
<1>9. beats' \subseteq beats /\ beats \ beats' = {} BY <1>1
<1>10. UNCHANGED <<hosts, conn, wsList, sub, aged, cut, fenced, marks>> /\ sweep' = [sweep EXCEPT ![b] = n] /\ sweep[b].pc = "walk" BY <1>1
<1>11. /\ \A s \in n.todo : sub[s] = NoEndpoint \/ (sub[s] \in Conns /\ conn[sub[s]].run \notin n.live)
       /\ \A s \in ConnSub : sub[s] \in Conns \ failed /\ conn[sub[s]].run \notin n.live => s \in n.todo
  BY <1>4, <1>5, <1>6
<1> QED BY <1>6, <1>7, <1>8, <1>9, <1>10, <1>11, SweepStep

LEMMA LeftoversDeletedKeeps ==
  ASSUME ConnInv, NEW b \in Instance, LeftoversDeleted(b)
  PROVE  ConnInv'
<1> DEFINE pc == IF ha THEN "docs" ELSE "idle"
           n == [sweep[b] EXCEPT !.pc = pc]
<1>1. /\ sweep[b].pc = "delete" /\ sweep[b].todo = {} /\ sweep' = [sweep EXCEPT ![b] = n]
      /\ UNCHANGED <<hosts, conn, wsList, sub, beats, aged, cut, fenced, marks>>
  BY DEF LeftoversDeleted, SweepAt, ConnInv, ConnTypes
<1>2. sweep[b] \in SweepRec /\ SweepShape(b) /\ pc \in SweepPc BY DEF ConnInv, ConnTypes, SweepPc
<1>3. n \in SweepRec /\ n.pc = pc /\ n.todo = {} /\ n.live = sweep[b].live /\ n.docs = sweep[b].docs BY <1>1, <1>2 DEF SweepRec
<1>4. n.pc = (IF ha THEN "docs" ELSE "idle") BY <1>3
<1> HIDE DEF n
<1>5. (\A r \in n.live \cup n.docs : r <= lastRun) /\ (~ha => n.live = {run[b]}) BY <1>1, <1>2, <1>3 DEF SweepShape
<1>6. ha => \A o \in Ups : run[o] \notin n.live => run[o] \in aged \/ run[o] \notin beats BY <1>1, <1>3 DEF ConnInv, BeatsKnown, Looking
<1>7. \A s \in ConnSub : sub[s] \in Conns \ failed /\ conn[sub[s]].run \notin n.live => s \in n.todo
  BY <1>1, <1>3 DEF ConnInv, SweepsCover
<1>8. ~ha => \A s \in ConnSub : sub[s] \in Conns \ failed => conn[sub[s]].run = run[b] BY <1>3, <1>5, <1>7
<1>9. beats' \subseteq beats /\ beats \ beats' = {} BY <1>1
<1>10. UNCHANGED <<hosts, conn, wsList, sub, aged, cut, fenced, marks>> /\ sweep' = [sweep EXCEPT ![b] = n] /\ sweep[b].pc = "delete" BY <1>1
<1> QED BY <1>3, <1>4, <1>5, <1>6, <1>7, <1>8, <1>9, <1>10, SweepStep

LEMMA DocsDeleteKeeps ==
  ASSUME ConnInv, NEW b \in Instance, DocsDelete(b)
  PROVE  ConnInv'
<1> DEFINE n == NoSweep
<1>1. /\ sweep[b].pc = "docs" /\ sweep' = [sweep EXCEPT ![b] = n]
      /\ beats' = IF b \in cut THEN beats ELSE beats \ (sweep[b].docs \ sweep[b].live)
      /\ UNCHANGED <<hosts, conn, wsList, sub, aged, cut, fenced, marks>>
  BY DEF DocsDelete
<1>2. n \in SweepRec /\ n.pc = "idle" /\ n.todo = {} /\ n.live = {} /\ n.docs = {} BY DEF NoSweep, SweepRec, SweepPc
<1>3. ha BY <1>1 DEF ConnInv, SweepShape, ConnTypes
<1>4. beats' \subseteq beats BY <1>1
<1>5. \A r \in beats \ beats' : \A o \in Ups : run[o] = r => r \in aged
  <2>1. \A r \in beats \ beats' : r \notin sweep[b].live BY <1>1
  <2> QED BY <1>1, <1>3, <2>1 DEF ConnInv, BeatsKnown, Looking
<1>6. UNCHANGED <<hosts, conn, wsList, sub, aged, cut, fenced, marks>> /\ sweep' = [sweep EXCEPT ![b] = n] /\ sweep[b].pc = "docs" BY <1>1
<1> HIDE DEF n
<1> QED BY <1>2, <1>3, <1>4, <1>5, <1>6, SweepStep

LEMMA LeftoverDeleteKeeps ==
  ASSUME ConnInv, NEW b \in Instance, LeftoverDelete(b)
  PROVE  ConnInv'
<1>1. sweep[b].pc = "delete" /\ UNCHANGED <<ha, up, run, lastRun, conn, wsList, beats, aged, cut, fenced, unlisted>>
  BY DEF LeftoverDelete, hosts
<1>2. PICK s \in sweep[b].todo :
       /\ sweep' = [sweep EXCEPT ![b].todo = @ \ {s}]
       /\ IF b \in cut THEN UNCHANGED sub ELSE sub' = [sub EXCEPT ![s] = NoEndpoint]
       /\ failed' = IF b \in cut /\ sub[s] \in Conns THEN failed \cup {sub[s]} ELSE failed
       /\ robbed' = IF b \notin cut /\ sub[s] \in Conns /\ Alive(sub[s]) THEN robbed \cup {sub[s]} ELSE robbed
       /\ lost' = (lost \/ (b \notin cut /\ sub[s] = Elsewhere))
  BY DEF LeftoverDelete
<1> DEFINE n == [sweep[b] EXCEPT !.todo = sweep[b].todo \ {s}]
<1>3. sweep[b] \in SweepRec /\ SweepShape(b) /\ sweep \in [Instance -> SweepRec] /\ s \in ConnSub /\ lost = FALSE
  BY DEF ConnInv, ConnTypes, SweepRec
<1>4. n \in SweepRec /\ n.pc = "delete" /\ n.todo = sweep[b].todo \ {s} /\ n.live = sweep[b].live /\ n.docs = sweep[b].docs
  BY <1>1, <1>3 DEF SweepRec, SweepPc
<1>5. sweep' = [sweep EXCEPT ![b] = n] BY <1>2
<1> HIDE DEF n
<1>6. sweep' \in [Instance -> SweepRec] /\ sweep'[b] = n /\ \A o \in Instance \ {b} : sweep'[o] = sweep[o] BY <1>3, <1>4, <1>5
<1>7. sub[s] = NoEndpoint \/ (sub[s] \in Conns /\ conn[sub[s]].run \notin sweep[b].live) BY DEF ConnInv, LooksHold
<1>8. lost' = FALSE
  <2>1. (sub[s] = Elsewhere) = FALSE BY <1>7, Endpoints DEF ConnInv
  <2> QED BY <1>2, <1>3, <2>1
<1>9. /\ sub' \in [ConnSub -> Nat] /\ (\A x \in ConnSub : sub'[x] \in {sub[x], NoEndpoint}) /\ (\A x \in ConnSub \ {s} : sub'[x] = sub[x])
      /\ b \notin cut => sub'[s] = NoEndpoint
      /\ b \in cut => sub'[s] = sub[s]
  <2>1. sub \in [ConnSub -> Nat] /\ NoEndpoint \in Nat BY DEF ConnInv, ConnTypes, NoEndpoint
  <2>2. CASE b \in cut BY <1>2, <2>1, <2>2
  <2>3. CASE b \notin cut
    <3>1. sub' = [sub EXCEPT ![s] = NoEndpoint] BY <1>2, <2>3
    <3> QED BY <1>3, <2>1, <2>3, <3>1
  <2> QED BY <2>2, <2>3
<1>10. /\ Conns' = Conns /\ failed \subseteq failed' /\ failed' \subseteq Conns /\ robbed' \subseteq Conns /\ NoEndpoint \notin Conns
       /\ b \in cut /\ sub[s] \in Conns => sub[s] \in failed'
  BY <1>1, <1>2, Endpoints DEF ConnInv, ConnTypes, Conns
<1>11. ASSUME NEW c \in robbed', c \notin robbed
       PROVE  c \in Conns /\ c = sub[s] /\ Alive(c) /\ Notified(c) /\ conn[c].run \notin sweep[b].live
  <2>1. c = sub[s] /\ c \in Conns /\ Alive(c) BY <1>2, <1>11
  <2> QED BY <1>3, <1>7, <1>10, <2>1 DEF Notified
<1>12. \A c \in Conns : (Alive(c)' <=> Alive(c)) /\ (Notified(c)' => Notified(c))
  BY <1>1, <1>9, <1>10 DEF Alive, Notified
<1>13. ConnTypes' BY <1>1, <1>6, <1>8, <1>9, <1>10 DEF ConnInv, ConnTypes
<1>14. BrokersApart' BY <1>1 DEF ConnInv, BrokersApart, Ups
<1>15. ASSUME NEW o \in Instance PROVE SweepShape(o)'
  <2>1. SweepShape(o) BY DEF ConnInv
  <2>2. CASE o # b BY <1>1, <1>6, <2>1, <2>2 DEF SweepShape
  <2>3. CASE o = b BY <1>1, <1>3, <1>4, <1>6, <2>3 DEF SweepShape, NoSweep
  <2> QED BY <2>2, <2>3
<1>16. ASSUME NEW c \in Conns PROVE ConnShape(c)'
  <2>1. ConnShape(c) BY DEF ConnInv
  <2>2. PICK o \in Instance : o = conn[c].by BY Endpoints DEF ConnInv, ConnRec
  <2>3. Listed(o)' = Listed(o) BY <1>1 DEF Listed
  <2>4. conn[c].pc \in {"taking", "thread"} => c \notin robbed' BY <1>11, <2>1 DEF ConnShape
  <2> QED BY <1>1, <1>12, <2>1, <2>2, <2>3, <2>4 DEF ConnShape
<1>17. BeatsKnown'
  <2>1. \A o \in Instance : sweep'[o].pc = sweep[o].pc /\ sweep'[o].live = sweep[o].live BY <1>1, <1>4, <1>6
  <2> QED BY <1>1, <1>10, <1>12, <2>1 DEF ConnInv, BeatsKnown, Ups, Looking
<1>18. SweptAreTold'
  <2>1. ASSUME NEW c \in robbed', c \notin robbed PROVE conn[c].run \in aged
    <3>1. c \in Conns /\ Alive(c) /\ Notified(c) /\ conn[c].run \notin sweep[b].live BY <1>11, <2>1
    <3>2. ConnShape(c) /\ conn[c].by \in Instance BY <3>1, Endpoints DEF ConnInv, ConnRec
    <3>3. conn[c].by \in Ups /\ run[conn[c].by] = conn[c].run /\ up[conn[c].by] # "starting" BY <3>1, <3>2 DEF ConnShape, Ups
    <3>4. CASE ha
      <4>1. conn[c].run \in aged \/ conn[c].run \notin beats BY <1>1, <3>1, <3>3, <3>4 DEF ConnInv, BeatsKnown, Looking
      <4>2. conn[c].run \in beats \cup aged BY <3>1, <3>4 DEF ConnInv, BeatsKnown
      <4> QED BY <4>1, <4>2
    <3>5. CASE ~ha
      <4>1. up[b] = "starting" /\ b \in Ups BY <1>1, <1>3, <3>5 DEF SweepShape, Ups
      <4>2. conn[c].by = b BY <3>3, <3>5, <4>1 DEF ConnInv, BrokersApart
      <4> QED BY <3>3, <4>1, <4>2
    <3> QED BY <3>4, <3>5
  <2> QED BY <1>1, <2>1 DEF ConnInv, SweptAreTold
<1>19. FencedAreTold'
  <2>1. \A c \in Conns : Notified(c)' \/ c \in robbed' => Notified(c) \/ c \in robbed BY <1>11, <1>12
  <2> QED BY <1>1, <1>10, <1>12, <2>1 DEF ConnInv, FencedAreTold, Of, Ups
<1>20. LooksHold'
  <2>1. ASSUME NEW c \in Conns, conn[c].pc = "ending", conn[c].at # "none" PROVE sub'[conn[c].at] \in {c, NoEndpoint}
    <3>1. conn[c].at \in ConnSub BY <2>1, Endpoints DEF ConnInv, ConnRec
    <3>2. sub[conn[c].at] \in {c, NoEndpoint} BY <2>1 DEF ConnInv, LooksHold
    <3> QED BY <1>9, <3>1, <3>2
  <2>2. ASSUME NEW o \in Instance, NEW x \in sweep'[o].todo PROVE sub'[x] = NoEndpoint \/ (sub'[x] \in Conns /\ conn[sub'[x]].run \notin sweep'[o].live)
    <3>1. x \in sweep[o].todo /\ sweep'[o].live = sweep[o].live BY <1>4, <1>6, <2>2
    <3>2. x \in ConnSub BY <3>1 DEF ConnInv, ConnTypes, SweepRec
    <3>3. sub[x] = NoEndpoint \/ (sub[x] \in Conns /\ conn[sub[x]].run \notin sweep[o].live) BY <3>1 DEF ConnInv, LooksHold
    <3>4. sub'[x] \in {sub[x], NoEndpoint} BY <1>9, <3>2
    <3> QED BY <3>1, <3>3, <3>4
  <2> QED BY <1>1, <1>10, <2>1, <2>2 DEF LooksHold
<1>21. \A x \in ConnSub : sub'[x] \in Conns \ failed' => sub'[x] = sub[x] /\ sub[x] \in Conns \ failed BY <1>9, <1>10
<1>22. OwnFollowed' BY <1>1, <1>9, <1>10 DEF ConnInv, OwnFollowed
<1>23. SweepsCover'
  <2>1. ASSUME NEW o \in Instance, sweep'[o].pc \in {"delete", "docs"}, NEW x \in ConnSub, sub'[x] \in Conns \ failed', conn[sub'[x]].run \notin sweep'[o].live
        PROVE  x \in sweep'[o].todo
    <3>1. sub'[x] = sub[x] /\ sub[x] \in Conns \ failed BY <1>21, <2>1
    <3>2. sweep'[o].pc = sweep[o].pc /\ sweep'[o].live = sweep[o].live BY <1>1, <1>4, <1>6
    <3>3. x \in sweep[o].todo BY <2>1, <3>1, <3>2 DEF ConnInv, SweepsCover
    <3>4. o = b => x # s BY <1>9, <1>10, <2>1, <3>1
    <3> QED BY <1>4, <1>6, <3>3, <3>4
  <2>2. ~ha => \A o \in Ups : sweep'[o].pc = "idle" => \A x \in ConnSub : sub'[x] \in Conns \ failed' => conn[sub'[x]].run = run[o]
    <3>1. \A o \in Ups : sweep'[o].pc = "idle" => sweep[o].pc = "idle" BY <1>4, <1>6 DEF Ups
    <3> QED BY <1>21, <3>1 DEF ConnInv, SweepsCover
  <2> QED BY <1>1, <1>10, <2>1, <2>2 DEF SweepsCover, Ups
<1> QED BY <1>8, <1>10, <1>13, <1>14, <1>15, <1>16, <1>17, <1>18, <1>19, <1>20, <1>22, <1>23 DEF ConnInv

\* A run is told by its broker
LEMMA OneRun ==
  ASSUME ConnInv, NEW c \in Conns, Alive(c)
  PROVE  /\ conn[c].by \in Ups /\ conn[c].by \in Instance /\ up[conn[c].by] \in {"serving", "stopping"} /\ run[conn[c].by] = conn[c].run
         /\ \A b \in Ups : run[b] = conn[c].run => b = conn[c].by
<1>1. ConnShape(c) /\ conn[c].by \in Instance BY Endpoints DEF ConnInv, ConnRec
<1>2. conn[c].by \in Ups /\ run[conn[c].by] = conn[c].run BY <1>1 DEF ConnShape, Ups
<1> QED BY <1>1, <1>2 DEF ConnInv, BrokersApart, ConnShape

\* What a broker tells its connections changes nothing else of them
LEMMA DroppedConns ==
  ASSUME ConnTypes, NEW b \in Instance, conn' = Dropped(b)
  PROVE  /\ conn' \in Seq(ConnRec) /\ Len(conn') = Len(conn)
         /\ \A c \in Conns : /\ conn'[c].by = conn[c].by /\ conn'[c].run = conn[c].run /\ conn'[c].pc = conn[c].pc /\ conn'[c].own = conn[c].own
                             /\ conn'[c].track = conn[c].track /\ conn'[c].at = conn[c].at /\ (conn[c].told => conn'[c].told)
                             /\ c \in Listed(b) => conn'[c].told
<1>1. Conns = 1..Len(conn) /\ Len(conn) \in Nat /\ \A c \in Conns : conn[c] \in ConnRec BY Endpoints
<1>2. wsList[b] \in Seq(Nat) BY DEF ConnTypes
<1>3. conn' = [c \in 1..Len(conn) |-> IF c \in Listed(b) THEN [conn[c] EXCEPT !.told = TRUE] ELSE conn[c]]
  BY <1>1, <1>2, SMTT(60) DEF Dropped, Listed
<1>4. \A c \in Conns : LET q == [conn[c] EXCEPT !.told = TRUE]
                       IN  q \in ConnRec /\ q.by = conn[c].by /\ q.run = conn[c].run /\ q.pc = conn[c].pc /\ q.own = conn[c].own
                           /\ q.track = conn[c].track /\ q.at = conn[c].at /\ q.told = TRUE
  BY <1>1 DEF ConnRec
<1>5. \A c \in Conns : conn'[c] \in ConnRec /\ (c \in Listed(b) => conn'[c] = [conn[c] EXCEPT !.told = TRUE]) /\ (c \notin Listed(b) => conn'[c] = conn[c])
  BY <1>1, <1>3, <1>4
<1>6. conn' \in Seq(ConnRec) /\ Len(conn') = Len(conn)
  <2>1. conn' \in [1..Len(conn) -> ConnRec] BY <1>1, <1>3, <1>5
  <2> QED BY <1>1, <2>1
<1> QED BY <1>4, <1>5, <1>6

LEMMA BeatFailsKeeps ==
  ASSUME ConnInv, NEW b \in Instance, RunsBeat(b), BeatFails(b)
  PROVE  ConnInv'
<1> DEFINE n == [sweep[b] EXCEPT !.pc = "idle"]
<1>1. /\ ha /\ sweep[b].pc \in {"idle", "first"} /\ up[b] # "down" /\ UNCHANGED <<ha, up, run, lastRun, wsList, sub, failed, unlisted, robbed, lost>>
      /\ b \in cut /\ fenced' = (IF run[b] \in aged THEN fenced \cup {b} ELSE fenced)
      /\ conn' = IF run[b] \in aged /\ b \notin fenced THEN Dropped(b) ELSE conn
      /\ sweep' = [sweep EXCEPT ![b] = n] /\ UNCHANGED <<beats, aged, cut>>
  BY DEF RunsBeat, BeatFails, hosts, marks, SweepAt, ConnInv, ConnTypes
<1>2. sweep[b] \in SweepRec /\ SweepShape(b) /\ sweep \in [Instance -> SweepRec] /\ conn \in Seq(ConnRec) /\ lastRun \in Nat /\ ConnTypes BY DEF ConnInv, ConnTypes
<1>3. n \in SweepRec /\ n.pc = "idle" /\ n.todo = {} /\ n.live = sweep[b].live /\ n.docs = sweep[b].docs BY <1>1, <1>2 DEF SweepRec, SweepPc, SweepShape
<1> HIDE DEF n
<1>4. sweep' \in [Instance -> SweepRec] /\ sweep'[b] = n /\ \A o \in Instance \ {b} : sweep'[o] = sweep[o] BY <1>1, <1>2, <1>3
<1>5. /\ conn' \in Seq(ConnRec) /\ Len(conn') = Len(conn)
      /\ \A c \in Conns : /\ conn'[c].by = conn[c].by /\ conn'[c].run = conn[c].run /\ conn'[c].pc = conn[c].pc /\ conn'[c].own = conn[c].own
                          /\ conn'[c].track = conn[c].track /\ conn'[c].at = conn[c].at /\ (conn[c].told => conn'[c].told)
      /\ run[b] \in aged /\ b \notin fenced => \A c \in Conns : c \in Listed(b) => conn'[c].told
  BY <1>1, <1>2, DroppedConns
<1>6. /\ Conns' = Conns /\ (\A c \in Conns : ConnShape(c)') /\ OwnFollowed'
      /\ \A c \in Conns : conn'[c].pc = "ending" /\ conn'[c].at # "none" => sub'[conn'[c].at] \in {c, NoEndpoint}
      /\ \A c \in Conns : (Alive(c)' <=> Alive(c)) /\ (Notified(c)' <=> Notified(c))
  <2>1. lastRun' \in Nat /\ lastRun <= lastRun' /\ UNCHANGED <<ha, wsList, sub, failed, unlisted, robbed, lost>> BY <1>1, <1>2
  <2>2. \A o \in Instance : up[o] \in {"serving", "stopping"} => up'[o] \in {"serving", "stopping"} /\ run'[o] = run[o] BY <1>1
  <2> QED BY <1>5, <2>1, <2>2, ConnsStay
<1>7. ConnTypes' BY <1>1, <1>4, <1>5, <1>6 DEF ConnInv, ConnTypes
<1>8. BrokersApart' BY <1>1 DEF ConnInv, BrokersApart, Ups
<1>9. ASSUME NEW o \in Instance PROVE SweepShape(o)'
  <2>1. SweepShape(o) BY DEF ConnInv
  <2>2. CASE o # b BY <1>1, <1>4, <2>1, <2>2 DEF SweepShape
  <2>3. CASE o = b BY <1>1, <1>2, <1>3, <1>4, <2>3 DEF SweepShape
  <2> QED BY <2>2, <2>3
<1>10. BeatsKnown'
  <2>1. \A o \in Ups : sweep'[o].pc # "first" /\ o \notin cut => run[o] \in beats \ aged
    BY <1>1, <1>4 DEF ConnInv, BeatsKnown, Ups
  <2>2. \A o \in Instance : Looking(o)' => Looking(o) /\ sweep'[o].live = sweep[o].live BY <1>3, <1>4 DEF Looking
  <2>3. \A c \in Conns : Alive(c)' /\ Notified(c)' => conn'[c].run \in beats \cup aged BY <1>1, <1>5, <1>6 DEF ConnInv, BeatsKnown
  <2>4. \A o \in Ups \cap fenced' : run[o] \in aged BY <1>1 DEF ConnInv, BeatsKnown
  <2>5. \A o \in Instance : Looking(o)' => \A p \in Ups : run[p] \notin sweep'[o].live => run[p] \in aged \/ run[p] \notin beats
    BY <1>1, <2>2 DEF ConnInv, BeatsKnown
  <2> QED BY <1>1, <1>6, <2>1, <2>3, <2>4, <2>5 DEF BeatsKnown, Ups
<1>11. SweptAreTold'
  <2>1. \A c \in robbed : c \in Conns BY <1>2 DEF ConnTypes
  <2> QED BY <1>1, <1>5, <2>1 DEF ConnInv, SweptAreTold
<1>12. FencedAreTold'
  <2>1. ASSUME NEW o \in Ups \cap fenced', NEW c \in Conns, Alive(c), conn[c].by = o, c \notin unlisted, conn[c].pc = "open", Notified(c) \/ c \in robbed
        PROVE  conn'[c].told
    <3>1. CASE o \in fenced BY <1>5, <2>1, <3>1 DEF ConnInv, FencedAreTold, Of
    <3>2. CASE o \notin fenced
      <4>1. o = b /\ run[b] \in aged /\ b \notin fenced BY <1>1, <2>1, <3>2
      <4>2. c \in Listed(b) BY <2>1, <4>1 DEF ConnInv, ConnShape
      <4> QED BY <1>5, <4>1, <4>2
    <3> QED BY <3>1, <3>2
  <2> QED BY <1>1, <1>5, <1>6, <2>1 DEF FencedAreTold, Of, Ups
<1>13. LooksHold'
  <2>1. ASSUME NEW o \in Instance, NEW s \in sweep'[o].todo PROVE sub[s] = NoEndpoint \/ (sub[s] \in Conns /\ conn'[sub[s]].run \notin sweep'[o].live)
    <3>1. o # b BY <1>3, <1>4
    <3>2. sub[s] = NoEndpoint \/ (sub[s] \in Conns /\ conn[sub[s]].run \notin sweep[o].live) BY <1>4, <2>1, <3>1 DEF ConnInv, LooksHold
    <3> QED BY <1>4, <1>5, <3>1, <3>2
  <2> QED BY <1>1, <1>6, <2>1 DEF LooksHold
<1>14. SweepsCover'
  <2>1. ASSUME NEW o \in Instance, sweep'[o].pc \in {"delete", "docs"}, NEW s \in ConnSub, sub[s] \in Conns \ failed, conn'[sub[s]].run \notin sweep'[o].live
        PROVE  s \in sweep'[o].todo
    <3>1. o # b BY <1>3, <1>4, <2>1
    <3> QED BY <1>4, <1>5, <2>1, <3>1 DEF ConnInv, SweepsCover
  <2> QED BY <1>1, <1>6, <2>1 DEF SweepsCover, Ups
<1> QED BY <1>1, <1>6, <1>7, <1>8, <1>9, <1>10, <1>11, <1>12, <1>13, <1>14 DEF ConnInv

LEMMA BeatWrittenKeeps ==
  ASSUME ConnInv, ~Lag, NEW b \in Instance, RunsBeat(b), BeatWritten(b)
  PROVE  ConnInv'
<1> DEFINE n == [sweep[b] EXCEPT !.pc = "query"]
<1>1. /\ ha /\ sweep[b].pc \in {"idle", "first"} /\ up[b] # "down" /\ UNCHANGED <<ha, up, run, lastRun, wsList, sub, failed, unlisted, robbed, lost>>
      /\ b \notin cut \/ b \in fenced \/ run[b] \notin beats \cup aged
      /\ cut' = cut \ {b} /\ beats' = beats \cup {run[b]} /\ aged' = aged \ {run[b]} /\ fenced' = fenced \ {b}
      /\ conn' = conn /\ sweep' = [sweep EXCEPT ![b] = n]
      /\ \A o \in Instance : ~Looking(o) \/ run[b] \in sweep[o].live
  BY DEF RunsBeat, BeatWritten, hosts, marks, SweepAt, ConnInv, ConnTypes, Looking
<1>2. /\ sweep[b] \in SweepRec /\ SweepShape(b) /\ sweep \in [Instance -> SweepRec] /\ conn \in Seq(ConnRec) /\ lastRun \in Nat /\ ConnTypes
      /\ run[b] \in Nat /\ run[b] <= lastRun /\ b \in Ups
  BY <1>1 DEF ConnInv, ConnTypes, BrokersApart, Ups
<1>3. n \in SweepRec /\ n.pc = "query" /\ n.todo = {} /\ n.live = sweep[b].live /\ n.docs = sweep[b].docs BY <1>1, <1>2 DEF SweepRec, SweepPc, SweepShape
<1> HIDE DEF n
<1>4. sweep' \in [Instance -> SweepRec] /\ sweep'[b] = n /\ \A o \in Instance \ {b} : sweep'[o] = sweep[o] BY <1>1, <1>2, <1>3
<1>6. /\ Conns' = Conns /\ (\A c \in Conns : ConnShape(c)') /\ OwnFollowed'
      /\ \A c \in Conns : conn'[c].pc = "ending" /\ conn'[c].at # "none" => sub'[conn'[c].at] \in {c, NoEndpoint}
      /\ \A c \in Conns : (Alive(c)' <=> Alive(c)) /\ (Notified(c)' <=> Notified(c))
  <2>1. lastRun' \in Nat /\ lastRun <= lastRun' /\ UNCHANGED <<ha, wsList, sub, failed, unlisted, robbed, lost>> BY <1>1, <1>2
  <2>2. \A o \in Instance : up[o] \in {"serving", "stopping"} => up'[o] \in {"serving", "stopping"} /\ run'[o] = run[o] BY <1>1
  <2>3. \A c \in Conns : conn'[c] = conn[c] BY <1>1
  <2>4. conn' \in Seq(ConnRec) /\ Len(conn') = Len(conn) BY <1>1, <1>2
  <2> QED BY <2>1, <2>2, <2>3, <2>4, ConnsStay
<1>7. ConnTypes' BY <1>1, <1>4, <1>2, <1>6 DEF ConnInv, ConnTypes
<1>8. BrokersApart' BY <1>1, <1>2 DEF ConnInv, BrokersApart, Ups
<1>9. ASSUME NEW o \in Instance PROVE SweepShape(o)'
  <2>1. SweepShape(o) BY DEF ConnInv
  <2>2. CASE o # b BY <1>1, <1>4, <2>1, <2>2 DEF SweepShape
  <2>3. CASE o = b BY <1>1, <1>2, <1>3, <1>4, <2>3 DEF SweepShape
  <2> QED BY <2>2, <2>3
<1>5. \A o \in Ups \ {b} : run[o] # run[b] BY <1>2 DEF ConnInv, BrokersApart
<1>10. BeatsKnown'
  <2>1. \A o \in Ups : sweep'[o].pc # "first" /\ o \notin cut' => run[o] \in beats' \ aged'
    <3>1. ASSUME NEW o \in Ups, o # b, sweep[o].pc # "first", o \notin cut PROVE run[o] \in beats' \ aged'
      <4>1. run[o] \in beats \ aged BY <1>1, <3>1 DEF ConnInv, BeatsKnown
      <4> QED BY <1>1, <4>1
    <3> QED BY <1>1, <1>4, <3>1 DEF Ups
  <2>2. \A o \in Instance : Looking(o)' => o # b /\ Looking(o) /\ sweep'[o].live = sweep[o].live BY <1>3, <1>4 DEF Looking
  <2>3. \A c \in Conns : Alive(c)' /\ Notified(c)' => conn'[c].run \in beats' \cup aged' BY <1>1, <1>6 DEF ConnInv, BeatsKnown
  <2>4. \A o \in Ups \cap fenced' : run[o] \in aged' BY <1>1, <1>5 DEF ConnInv, BeatsKnown
  <2>5. ASSUME NEW o \in Instance, Looking(o)', NEW p \in Ups, run[p] \notin sweep'[o].live PROVE run[p] \in aged' \/ run[p] \notin beats'
    <3>1. p # b BY <1>1, <2>2, <2>5
    <3>2. run[p] \in aged \/ run[p] \notin beats BY <1>1, <2>2, <2>5 DEF ConnInv, BeatsKnown
    <3> QED BY <1>1, <1>5, <3>1, <3>2
  <2> QED BY <1>1, <1>6, <2>1, <2>3, <2>4, <2>5 DEF BeatsKnown, Ups
<1>11. SweptAreTold'
  <2>1. SUFFICES ASSUME NEW c \in robbed \ unlisted, conn[c].pc = "open", ~conn[c].told PROVE conn[c].run \in aged'
    BY <1>1 DEF SweptAreTold
  <2>2. c \in Conns /\ Alive(c) /\ conn[c].run \in aged BY <1>2, <2>1 DEF ConnTypes, ConnInv, SweptAreTold, Alive
  <2>3. SUFFICES ASSUME conn[c].run = run[b] PROVE FALSE BY <1>1, <2>2
  <2>4. b = conn[c].by /\ up[b] # "starting" BY <1>2, <2>2, <2>3, OneRun
  <2>5. sweep[b].pc # "first" BY <1>2, <2>4 DEF SweepShape
  <2>6. b \in cut BY <1>1, <1>2, <2>2, <2>3, <2>5 DEF ConnInv, BeatsKnown
  <2>7. b \in fenced BY <1>1, <2>2, <2>3, <2>6
  <2>8. c \in Of(b) \ unlisted BY <2>1, <2>2, <2>4 DEF Of
  <2> QED BY <1>2, <2>1, <2>7, <2>8 DEF ConnInv, FencedAreTold
<1>12. FencedAreTold' BY <1>1, <1>6 DEF ConnInv, FencedAreTold, Of, Ups
<1>13. LooksHold'
  <2>1. ASSUME NEW o \in Instance, NEW s \in sweep'[o].todo PROVE sub[s] = NoEndpoint \/ (sub[s] \in Conns /\ conn[sub[s]].run \notin sweep'[o].live)
    <3>1. o # b BY <1>3, <1>4
    <3> QED BY <1>4, <2>1, <3>1 DEF ConnInv, LooksHold
  <2> QED BY <1>1, <1>6, <2>1 DEF LooksHold
<1>14. SweepsCover'
  <2>1. ASSUME NEW o \in Instance, sweep'[o].pc \in {"delete", "docs"}, NEW s \in ConnSub, sub[s] \in Conns \ failed, conn[sub[s]].run \notin sweep'[o].live
        PROVE  s \in sweep'[o].todo
    <3>1. o # b BY <1>3, <1>4, <2>1
    <3> QED BY <1>4, <2>1, <3>1 DEF ConnInv, SweepsCover
  <2> QED BY <1>1, <1>6, <2>1 DEF SweepsCover, Ups
<1> QED BY <1>1, <1>6, <1>7, <1>8, <1>9, <1>10, <1>11, <1>12, <1>13, <1>14 DEF ConnInv

LEMMA StartKeeps ==
  ASSUME ConnInv, NEW b \in Instance, Start(b)
  PROVE  ConnInv'
<1> DEFINE n == IF ha THEN [NoSweep EXCEPT !.pc = "first"] ELSE [NoSweep EXCEPT !.pc = "walk", !.live = {lastRun + 1}]
<1>1. /\ up[b] = "down" /\ (ha \/ \A o \in Instance : up[o] = "down")
      /\ up' = [up EXCEPT ![b] = "starting"] /\ lastRun' = lastRun + 1 /\ run' = [run EXCEPT ![b] = lastRun + 1]
      /\ sweep' = [sweep EXCEPT ![b] = n] /\ fenced' = fenced \ {b}
      /\ UNCHANGED <<ha, conn, wsList, sub, beats, aged, cut, failed, unlisted, robbed, lost>>
  BY DEF Start, marks
<1>2. /\ sweep \in [Instance -> SweepRec] /\ conn \in Seq(ConnRec) /\ lastRun \in Nat /\ ConnTypes /\ SweepShape(b) /\ ha \in BOOLEAN
      /\ run \in [Instance -> Nat] /\ up \in [Instance -> {"down", "starting", "serving", "stopping"}]
  BY DEF ConnInv, ConnTypes
<1>3. n \in SweepRec /\ n.todo = {} /\ n.docs = {} /\ (IF ha THEN n.pc = "first" /\ n.live = {} ELSE n.pc = "walk" /\ n.live = {lastRun + 1})
  <2>1. CASE ha BY <2>1 DEF NoSweep, SweepRec, SweepPc
  <2>2. CASE ~ha
    <3>1. {lastRun + 1} \in SUBSET Nat BY <1>2
    <3> QED BY <2>2, <3>1 DEF NoSweep, SweepRec, SweepPc
  <2> QED BY <2>1, <2>2
<1> HIDE DEF n
<1>4. /\ sweep' \in [Instance -> SweepRec] /\ sweep'[b] = n /\ \A o \in Instance \ {b} : sweep'[o] = sweep[o]
      /\ run' \in [Instance -> Nat] /\ run'[b] = lastRun + 1 /\ \A o \in Instance \ {b} : run'[o] = run[o]
      /\ up' \in [Instance -> {"down", "starting", "serving", "stopping"}] /\ up'[b] = "starting" /\ \A o \in Instance \ {b} : up'[o] = up[o]
  BY <1>1, <1>2, <1>3
<1>5. Ups' = Ups \cup {b} /\ b \notin Ups /\ (~ha => Ups = {}) BY <1>1, <1>4 DEF Ups
<1>6. /\ Conns' = Conns /\ (\A c \in Conns : ConnShape(c)') /\ OwnFollowed'
      /\ \A c \in Conns : conn'[c].pc = "ending" /\ conn'[c].at # "none" => sub'[conn'[c].at] \in {c, NoEndpoint}
      /\ \A c \in Conns : (Alive(c)' <=> Alive(c)) /\ (Notified(c)' <=> Notified(c))
  <2>1. lastRun' \in Nat /\ lastRun <= lastRun' /\ UNCHANGED <<ha, wsList, sub, failed, unlisted, robbed, lost>> BY <1>1, <1>2
  <2>2. \A o \in Instance : up[o] \in {"serving", "stopping"} => up'[o] \in {"serving", "stopping"} /\ run'[o] = run[o]
    BY <1>1, <1>4
  <2>3. \A c \in Conns : conn'[c] = conn[c] BY <1>1
  <2>4. conn' \in Seq(ConnRec) /\ Len(conn') = Len(conn) BY <1>1, <1>2
  <2> QED BY <2>1, <2>2, <2>3, <2>4, ConnsStay
<1>7. ConnTypes' BY <1>1, <1>2, <1>4, <1>6 DEF ConnTypes
<1>8. \A o \in Instance : run[o] \in Nat /\ run[o] <= lastRun /\ run[o] # lastRun + 1 BY <1>2 DEF ConnInv, BrokersApart
<1>9. \A r \in beats \cup aged : r \in Nat /\ r <= lastRun /\ r # lastRun + 1 BY <1>2 DEF ConnInv, BrokersApart
<1>10. BrokersApart'
  <2>1. ASSUME NEW o \in Instance PROVE run'[o] <= lastRun' /\ (run'[o] = 0 <=> up'[o] = "down")
    <3>1. CASE o = b BY <1>1, <1>2, <1>4, <3>1
    <3>2. CASE o # b
      <4>1. run[o] <= lastRun /\ (run[o] = 0 <=> up[o] = "down") BY DEF ConnInv, BrokersApart
      <4> QED BY <1>1, <1>2, <1>4, <1>8, <3>2, <4>1
    <3> QED BY <3>1, <3>2
  <2>2. ASSUME NEW o \in Ups', NEW p \in Ups', run'[o] = run'[p] \/ ~ha PROVE o = p
    <3>1. o \in Instance /\ p \in Instance BY DEF Ups
    <3>2. CASE ~ha BY <1>5, <3>2
    <3>3. CASE ha /\ o # b /\ p # b BY <1>4, <1>5, <2>2, <3>1, <3>3 DEF ConnInv, BrokersApart
    <3>4. CASE ha /\ (o = b \/ p = b) BY <1>4, <1>8, <2>2, <3>1, <3>4
    <3> QED BY <3>2, <3>3, <3>4
  <2>3. \A r \in beats' \cup aged' : r \in Nat /\ r <= lastRun' BY <1>1, <1>2, <1>9
  <2>4. ~ha => fenced' = {} BY <1>1 DEF ConnInv, BrokersApart
  <2> QED BY <1>1, <2>1, <2>2, <2>3, <2>4 DEF BrokersApart
<1>11. ASSUME NEW o \in Instance PROVE SweepShape(o)'
  <2>1. SweepShape(o) BY DEF ConnInv
  <2>2. CASE o # b
    <3>1. sweep[o] \in SweepRec BY <1>2
    <3>2. \A r \in sweep[o].live \cup sweep[o].docs : r \in Nat /\ r <= lastRun BY <2>1, <3>1 DEF SweepShape, SweepRec
    <3>3. \A r \in sweep[o].live \cup sweep[o].docs : r <= lastRun' BY <1>1, <1>2, <3>2
    <3> QED BY <1>1, <1>4, <2>1, <2>2, <3>3 DEF SweepShape
  <2>3. CASE o = b
    <3>1. \A r \in n.live \cup n.docs : r <= lastRun' BY <1>1, <1>2, <1>3
    <3> QED BY <1>1, <1>3, <1>4, <2>3, <3>1 DEF SweepShape
  <2> QED BY <2>2, <2>3
<1>12. BeatsKnown'
  <2> SUFFICES ASSUME ha PROVE BeatsKnown' BY <1>1 DEF BeatsKnown
  <2>1. \A o \in Ups' : sweep'[o].pc # "first" /\ o \notin cut => run'[o] \in beats \ aged
    BY <1>3, <1>4, <1>5 DEF ConnInv, BeatsKnown, Ups
  <2>2. ASSUME NEW o \in Instance, Looking(o)', NEW p \in Ups', run'[p] \notin sweep'[o].live PROVE run'[p] \in aged \/ run'[p] \notin beats
    <3>1. o # b /\ Looking(o) /\ sweep'[o] = sweep[o] BY <1>3, <1>4, <2>2 DEF Looking
    <3>2. CASE p = b BY <1>4, <1>9, <3>2
    <3>3. CASE p # b
      <4>1. p \in Ups /\ run'[p] = run[p] BY <1>4, <1>5, <3>3 DEF Ups
      <4> QED BY <2>2, <3>1, <4>1 DEF ConnInv, BeatsKnown
    <3> QED BY <3>2, <3>3
  <2>3. \A c \in Conns : Alive(c)' /\ Notified(c)' => conn'[c].run \in beats \cup aged BY <1>1, <1>6 DEF ConnInv, BeatsKnown
  <2>4. \A o \in Ups' \cap fenced' : run'[o] \in aged BY <1>1, <1>4, <1>5 DEF ConnInv, BeatsKnown, Ups
  <2> QED BY <1>1, <1>6, <2>1, <2>2, <2>3, <2>4 DEF BeatsKnown
<1>13. SweptAreTold' BY <1>1 DEF ConnInv, SweptAreTold
<1>14. FencedAreTold'
  <2>1. \A o \in Ups' \cap fenced' : o \in Ups \cap fenced BY <1>1, <1>5
  <2>2. \A o \in Ups \cap fenced : Of(o)' = Of(o) BY <1>1, <1>6 DEF Of
  <2>3. \A o \in Ups \cap fenced : \A c \in Of(o) \ unlisted : conn[c].pc = "open" /\ (Notified(c) \/ c \in robbed) => conn[c].told
    BY DEF ConnInv, FencedAreTold
  <2>4. \A o \in Ups \cap fenced : \A c \in Of(o) : c \in Conns BY DEF Of
  <2>5. ASSUME NEW o \in Ups' \cap fenced', NEW c \in Of(o)' \ unlisted', conn'[c].pc = "open", Notified(c)' \/ c \in robbed'
        PROVE  conn'[c].told
    <3>1. o \in Ups \cap fenced BY <2>1
    <3>2. c \in Of(o) \ unlisted BY <1>1, <2>2, <3>1
    <3> QED BY <1>1, <1>6, <2>3, <2>4, <2>5, <3>1, <3>2
  <2> QED BY <2>5 DEF FencedAreTold
<1>15. LooksHold'
  <2>1. ASSUME NEW o \in Instance, NEW s \in sweep'[o].todo PROVE sub[s] = NoEndpoint \/ (sub[s] \in Conns /\ conn[sub[s]].run \notin sweep'[o].live)
    <3>1. o # b BY <1>3, <1>4
    <3> QED BY <1>4, <2>1, <3>1 DEF ConnInv, LooksHold
  <2> QED BY <1>1, <1>6, <2>1 DEF LooksHold
<1>16. SweepsCover'
  <2>1. ASSUME NEW o \in Instance, sweep'[o].pc \in {"delete", "docs"}, NEW s \in ConnSub, sub[s] \in Conns \ failed, conn[sub[s]].run \notin sweep'[o].live
        PROVE  s \in sweep'[o].todo
    <3>1. o # b BY <1>3, <1>4, <2>1
    <3> QED BY <1>4, <2>1, <3>1 DEF ConnInv, SweepsCover
  <2>2. ~ha => \A o \in Ups' : sweep'[o].pc # "idle" BY <1>3, <1>4, <1>5
  <2> QED BY <1>1, <1>6, <2>1, <2>2 DEF SweepsCover
<1> QED BY <1>1, <1>6, <1>7, <1>10, <1>11, <1>12, <1>13, <1>14, <1>15, <1>16 DEF ConnInv

\* A broker that serves, stops, or loses the database or finds it again; a run with no beat for long
LEMMA HostKeeps ==
  ASSUME ConnInv, conn' \in Seq(ConnRec), Len(conn') = Len(conn),
         \A c \in Conns : /\ conn'[c].by = conn[c].by /\ conn'[c].run = conn[c].run /\ conn'[c].pc = conn[c].pc /\ conn'[c].own = conn[c].own
                          /\ conn'[c].track = conn[c].track /\ conn'[c].at = conn[c].at /\ (conn[c].told => conn'[c].told),
         UNCHANGED <<ha, run, lastRun, wsList, sub, beats, fenced, sweep, marks>>,
         up' \in [Instance -> {"down", "starting", "serving", "stopping"}],
         \A b \in Instance : \/ up'[b] = up[b]
                             \/ up[b] # "down" /\ up'[b] \in {"serving", "stopping"} /\ (up[b] = "starting" => sweep[b].pc = "idle"),
         aged \subseteq aged', \A r \in aged' : r \in Nat /\ r <= lastRun,
         ha => \A b \in Ups : sweep[b].pc # "first" /\ b \notin cut' => run[b] \in beats \ aged'
  PROVE  ConnInv'
<1>1. UNCHANGED <<ha, run, lastRun, wsList, sub, beats, fenced, sweep, failed, unlisted, robbed, lost>> BY DEF marks
<1>2. ConnTypes /\ lastRun \in Nat /\ up \in [Instance -> {"down", "starting", "serving", "stopping"}] BY DEF ConnInv, ConnTypes
<1>3. \A b \in Instance : (up'[b] = "down" <=> up[b] = "down") OBVIOUS
<1>4. Ups' = Ups BY <1>3 DEF Ups
<1>6. /\ Conns' = Conns /\ (\A c \in Conns : ConnShape(c)') /\ OwnFollowed'
      /\ \A c \in Conns : conn'[c].pc = "ending" /\ conn'[c].at # "none" => sub'[conn'[c].at] \in {c, NoEndpoint}
      /\ \A c \in Conns : (Alive(c)' <=> Alive(c)) /\ (Notified(c)' <=> Notified(c))
  <2>1. lastRun' \in Nat /\ lastRun <= lastRun' /\ UNCHANGED <<ha, wsList, sub, failed, unlisted, robbed, lost>> BY <1>1, <1>2
  <2>2. \A o \in Instance : up[o] \in {"serving", "stopping"} => up'[o] \in {"serving", "stopping"} /\ run'[o] = run[o] BY <1>1
  <2> QED BY <2>1, <2>2, ConnsStay
<1>7. ConnTypes' BY <1>1, <1>2, <1>6 DEF ConnTypes
<1>8. BrokersApart' BY <1>1, <1>3, <1>4 DEF ConnInv, BrokersApart
<1>9. ASSUME NEW b \in Instance PROVE SweepShape(b)'
  <2>1. SweepShape(b) BY DEF ConnInv
  <2>2. CASE up'[b] = up[b] BY <1>1, <2>1, <2>2 DEF SweepShape
  <2>3. CASE up[b] # "down" /\ up'[b] \in {"serving", "stopping"} /\ (up[b] = "starting" => sweep[b].pc = "idle")
    <3>1. sweep[b].pc = "first" => FALSE BY <2>1, <2>3 DEF SweepShape
    <3>2. ~ha => sweep[b].pc = "idle" BY <2>1, <2>3 DEF SweepShape
    <3> QED BY <1>1, <2>1, <2>3, <3>1, <3>2 DEF SweepShape
  <2> QED BY <2>2, <2>3
<1>10. BeatsKnown'
  <2>1. \A o \in Instance : Looking(o)' <=> Looking(o) BY <1>1 DEF Looking
  <2>2. ha => \A o \in Instance : Looking(o) => \A p \in Ups : run[p] \notin sweep[o].live => run[p] \in aged' \/ run[p] \notin beats
    BY DEF ConnInv, BeatsKnown
  <2>3. ha => \A c \in Conns : Alive(c)' /\ Notified(c)' => conn'[c].run \in beats \cup aged' BY <1>6 DEF ConnInv, BeatsKnown
  <2>4. ha => \A o \in Ups \cap fenced : run[o] \in aged' BY DEF ConnInv, BeatsKnown
  <2> QED BY <1>1, <1>4, <1>6, <2>1, <2>2, <2>3, <2>4 DEF BeatsKnown
<1>11. SweptAreTold'
  <2>1. \A c \in robbed : c \in Conns BY <1>2 DEF ConnTypes
  <2> QED BY <1>1, <2>1 DEF ConnInv, SweptAreTold
<1>12. FencedAreTold'
  <2>1. \A o \in Ups : \A c \in Conns : c \in Of(o)' => c \in Of(o) BY <1>6 DEF Of
  <2>2. \A o \in Ups : Of(o)' \subseteq Conns BY <1>6 DEF Of
  <2> QED BY <1>1, <1>4, <1>6, <2>1, <2>2 DEF ConnInv, FencedAreTold
<1>13. LooksHold'
  <2>1. \A o \in Instance : \A s \in sweep[o].todo : sub[s] = NoEndpoint \/ (sub[s] \in Conns /\ conn'[sub[s]].run \notin sweep[o].live)
    BY DEF ConnInv, LooksHold
  <2> QED BY <1>1, <1>6, <2>1 DEF LooksHold
<1>14. SweepsCover' BY <1>1, <1>4, <1>6 DEF ConnInv, SweepsCover
<1> QED BY <1>1, <1>6, <1>7, <1>8, <1>9, <1>10, <1>11, <1>12, <1>13, <1>14 DEF ConnInv

LEMMA ServeKeeps ==
  ASSUME ConnInv, NEW b \in Instance, Serve(b) \/ TransportStop(b) \/ CutOff(b)
  PROVE  ConnInv'
<1>1. /\ ConnTypes /\ conn \in Seq(ConnRec) /\ up \in [Instance -> {"down", "starting", "serving", "stopping"}]
      /\ (\A r \in aged : r \in Nat /\ r <= lastRun)
      /\ (ha => \A o \in Ups : sweep[o].pc # "first" /\ o \notin cut => run[o] \in beats \ aged)
  BY DEF ConnInv, ConnTypes, BrokersApart, BeatsKnown
<1>2. UNCHANGED <<ha, run, lastRun, wsList, sub, beats, fenced, sweep, marks>> /\ aged' = aged /\ cut \subseteq cut'
  BY DEF Serve, TransportStop, CutOff, hosts, beatVars
<1>3. up' \in [Instance -> {"down", "starting", "serving", "stopping"}]
      /\ \A o \in Instance : \/ up'[o] = up[o]
                             \/ up[o] # "down" /\ up'[o] \in {"serving", "stopping"} /\ (up[o] = "starting" => sweep[o].pc = "idle")
  BY <1>1 DEF Serve, TransportStop, CutOff, hosts
<1>4. /\ conn' \in Seq(ConnRec) /\ Len(conn') = Len(conn)
      /\ \A c \in Conns : /\ conn'[c].by = conn[c].by /\ conn'[c].run = conn[c].run /\ conn'[c].pc = conn[c].pc /\ conn'[c].own = conn[c].own
                          /\ conn'[c].track = conn[c].track /\ conn'[c].at = conn[c].at /\ (conn[c].told => conn'[c].told)
  <2>1. conn' = conn \/ conn' = Dropped(b) BY DEF Serve, TransportStop, CutOff
  <2>2. CASE conn' = conn BY <1>1, <2>2
  <2>3. CASE conn' = Dropped(b) BY <1>1, <2>3, DroppedConns
  <2> QED BY <2>1, <2>2, <2>3
<1>5. ha => \A o \in Ups : sweep[o].pc # "first" /\ o \notin cut' => run[o] \in beats \ aged' BY <1>1, <1>2
<1>6. aged \subseteq aged' /\ \A r \in aged' : r \in Nat /\ r <= lastRun BY <1>1, <1>2
<1> QED BY <1>2, <1>3, <1>4, <1>5, <1>6, HostKeeps

LEMMA ReachedKeeps ==
  ASSUME ConnInv, ~Lag, NEW b \in Instance, Reached(b)
  PROVE  ConnInv'
<1>1. /\ ConnTypes /\ conn \in Seq(ConnRec) /\ up \in [Instance -> {"down", "starting", "serving", "stopping"}]
      /\ (\A r \in aged : r \in Nat /\ r <= lastRun)
      /\ (ha => \A o \in Ups : sweep[o].pc # "first" /\ o \notin cut => run[o] \in beats \ aged)
  BY DEF ConnInv, ConnTypes, BrokersApart, BeatsKnown
<1>2. /\ UNCHANGED <<ha, run, lastRun, wsList, sub, beats, fenced, sweep, marks>> /\ aged' = aged /\ up' = up /\ conn' = conn /\ cut' = cut \ {b}
      /\ (ha => run[b] \in beats \ aged)
  BY DEF Reached, hosts
<1>3. \A c \in Conns : conn'[c] = conn[c] BY <1>2
<1>4. conn' \in Seq(ConnRec) /\ Len(conn') = Len(conn) BY <1>1, <1>2
<1>5. ha => \A o \in Ups : sweep[o].pc # "first" /\ o \notin cut' => run[o] \in beats \ aged' BY <1>1, <1>2
<1>6. aged \subseteq aged' /\ \A r \in aged' : r \in Nat /\ r <= lastRun BY <1>1, <1>2
<1>7. up' \in [Instance -> {"down", "starting", "serving", "stopping"}] /\ \A o \in Instance : up'[o] = up[o] BY <1>1, <1>2
<1> QED BY <1>2, <1>3, <1>4, <1>5, <1>6, <1>7, HostKeeps

LEMMA AgeKeeps ==
  ASSUME ConnInv, NEW r \in Run, Age(r)
  PROVE  ConnInv'
<1>1. /\ ConnTypes /\ conn \in Seq(ConnRec) /\ up \in [Instance -> {"down", "starting", "serving", "stopping"}] /\ run \in [Instance -> Nat]
      /\ (\A x \in aged \cup beats : x \in Nat /\ x <= lastRun) /\ (\A b \in Instance : run[b] <= lastRun)
      /\ (ha => \A o \in Ups : sweep[o].pc # "first" /\ o \notin cut => run[o] \in beats \ aged)
  BY DEF ConnInv, ConnTypes, BrokersApart, BeatsKnown
<1>2. /\ UNCHANGED <<ha, run, lastRun, wsList, sub, beats, fenced, sweep, marks, up, conn, cut>> /\ aged' = aged \cup {r}
      /\ r \in beats \cup {run[b] : b \in Instance} /\ \A b \in Instance : run[b] = r => b \in cut
  BY DEF Age, hosts
<1>3. \A c \in Conns : conn'[c] = conn[c] BY <1>2
<1>4. conn' \in Seq(ConnRec) /\ Len(conn') = Len(conn) BY <1>1, <1>2
<1>5. ha => \A o \in Ups : sweep[o].pc # "first" /\ o \notin cut' => run[o] \in beats \ aged' BY <1>1, <1>2 DEF Ups
<1>6. aged \subseteq aged' /\ \A x \in aged' : x \in Nat /\ x <= lastRun BY <1>1, <1>2
<1>7. up' \in [Instance -> {"down", "starting", "serving", "stopping"}] /\ \A o \in Instance : up'[o] = up[o] BY <1>1, <1>2
<1>8. UNCHANGED <<ha, run, lastRun, wsList, sub, beats, fenced, sweep, marks>> BY <1>2
<1> QED BY <1>3, <1>4, <1>5, <1>6, <1>7, <1>8, HostKeeps

LEMMA DownKeeps ==
  ASSUME ConnInv, NEW b \in Instance, up[b] # "down", Down(b), beats' \subseteq beats, \A r \in beats \ beats' : r = run[b]
  PROVE  ConnInv'
<1>1. /\ up' = [up EXCEPT ![b] = "down"] /\ run' = [run EXCEPT ![b] = 0] /\ wsList' = [wsList EXCEPT ![b] = <<>>]
      /\ conn' = Broken(b) /\ sweep' = [sweep EXCEPT ![b] = NoSweep]
      /\ UNCHANGED <<ha, lastRun, sub, aged, cut, fenced, failed, unlisted, robbed, lost>>
  BY DEF Down, marks
<1>2. /\ sweep \in [Instance -> SweepRec] /\ conn \in Seq(ConnRec) /\ lastRun \in Nat /\ ConnTypes /\ wsList \in [Instance -> Seq(Nat)]
      /\ run \in [Instance -> Nat] /\ up \in [Instance -> {"down", "starting", "serving", "stopping"}]
  BY DEF ConnInv, ConnTypes
<1>3. NoSweep \in SweepRec /\ NoSweep.pc = "idle" /\ NoSweep.todo = {} /\ NoSweep.live = {} /\ NoSweep.docs = {} BY DEF NoSweep, SweepRec, SweepPc
<1>4. /\ sweep' \in [Instance -> SweepRec] /\ sweep'[b] = NoSweep /\ \A o \in Instance \ {b} : sweep'[o] = sweep[o]
      /\ run' \in [Instance -> Nat] /\ run'[b] = 0 /\ \A o \in Instance \ {b} : run'[o] = run[o]
      /\ up' \in [Instance -> {"down", "starting", "serving", "stopping"}] /\ up'[b] = "down" /\ \A o \in Instance \ {b} : up'[o] = up[o]
      /\ wsList' \in [Instance -> Seq(Nat)] /\ \A o \in Instance \ {b} : wsList'[o] = wsList[o]
  BY <1>1, <1>2, <1>3
<1>5. Ups' = Ups \ {b} /\ b \in Ups BY <1>4 DEF Ups
<1>6. Conns = 1..Len(conn) /\ Len(conn) \in Nat /\ \A c \in Conns : conn[c] \in ConnRec /\ conn[c].by \in Instance BY <1>2, Endpoints DEF ConnRec
<1>7. \A c \in Conns : LET q == [conn[c] EXCEPT !.pc = "dead"]
                       IN  q \in ConnRec /\ q.by = conn[c].by /\ q.run = conn[c].run /\ q.pc = "dead" /\ q.own = conn[c].own
                           /\ q.track = conn[c].track /\ q.at = conn[c].at /\ q.told = conn[c].told
  BY <1>6 DEF ConnRec, ConnPc
<1>8. \A c \in Conns : /\ conn'[c] \in ConnRec /\ (c \in Of(b) => conn'[c] = [conn[c] EXCEPT !.pc = "dead"]) /\ (c \notin Of(b) => conn'[c] = conn[c])
  BY <1>1, <1>6, <1>7 DEF Broken
<1>9. conn' \in Seq(ConnRec) /\ Len(conn') = Len(conn) /\ Conns' = Conns
  <2>1. conn' \in [1..Len(conn) -> ConnRec] BY <1>1, <1>6, <1>8 DEF Broken
  <2>2. conn' \in Seq(ConnRec) /\ Len(conn') = Len(conn) BY <1>6, <2>1
  <2> QED BY <2>2 DEF Conns
<1>10. \A c \in Conns : /\ conn'[c].by = conn[c].by /\ conn'[c].run = conn[c].run /\ conn'[c].own = conn[c].own /\ conn'[c].told = conn[c].told
                        /\ conn'[c].track = conn[c].track /\ conn'[c].at = conn[c].at
                        /\ (c \in Of(b) => conn'[c].pc = "dead") /\ (c \notin Of(b) => conn'[c].pc = conn[c].pc)
  BY <1>7, <1>8, ZenonT(60)
<1>11. \A c \in Conns : /\ Alive(c)' <=> Alive(c) /\ c \notin Of(b)
                        /\ Notified(c)' <=> Notified(c)
                        /\ Alive(c)' => conn[c].by # b /\ conn'[c].pc = conn[c].pc
  BY <1>1, <1>10 DEF Alive, Notified, Of
<1>12. ConnTypes' BY <1>1, <1>2, <1>4, <1>9 DEF ConnTypes
<1>13. BrokersApart'
  <2>1. \A o \in Instance : run[o] <= lastRun /\ (run[o] = 0 <=> up[o] = "down") BY DEF ConnInv, BrokersApart
  <2>2. ASSUME NEW o \in Instance PROVE run'[o] <= lastRun /\ (run'[o] = 0 <=> up'[o] = "down")
    <3>1. CASE o = b
      <4>1. run'[o] = 0 /\ up'[o] = "down" BY <1>4, <3>1
      <4> QED BY <1>2, <4>1
    <3>2. CASE o # b
      <4>1. run'[o] = run[o] /\ up'[o] = up[o] BY <1>4, <3>2
      <4> QED BY <2>1, <4>1
    <3> QED BY <3>1, <3>2
  <2>3. \A o, p \in Ups' : run'[o] = run'[p] \/ ~ha => o = p BY <1>4, <1>5 DEF ConnInv, BrokersApart, Ups
  <2> QED BY <1>1, <2>2, <2>3 DEF ConnInv, BrokersApart
<1>14. ASSUME NEW o \in Instance PROVE SweepShape(o)'
  <2>1. SweepShape(o) BY DEF ConnInv
  <2>2. CASE o # b BY <1>1, <1>4, <2>1, <2>2 DEF SweepShape
  <2>3. CASE o = b BY <1>1, <1>3, <1>4, <2>3 DEF SweepShape
  <2> QED BY <2>2, <2>3
<1>15. ASSUME NEW c \in Conns PROVE ConnShape(c)'
  <2>1. ConnShape(c) BY DEF ConnInv
  <2>2. PICK o \in Instance : o = conn[c].by BY <1>6
  <2>3. CASE c \in Of(b) BY <1>1, <1>10, <1>11, <2>1, <2>3 DEF ConnShape
  <2>4. CASE c \notin Of(b)
    <3>1. CASE Alive(c)
      <4>1. o # b BY <2>2, <2>4, <3>1 DEF Of
      <4>2. Listed(o)' = Listed(o) BY <1>4, <4>1 DEF Listed
      <4> QED BY <1>1, <1>4, <1>10, <1>11, <2>1, <2>2, <2>4, <3>1, <4>1, <4>2 DEF ConnShape
    <3>2. CASE ~Alive(c)
      <4>1. conn'[c].pc \in {"gone", "dead"} BY <1>10, <2>4, <3>2 DEF Alive
      <4> QED BY <1>1, <1>10, <1>11, <2>1, <2>4, <3>2, <4>1 DEF ConnShape
    <3> QED BY <3>1, <3>2
  <2> QED BY <2>3, <2>4
<1>16. BeatsKnown'
  <2> SUFFICES ASSUME ha PROVE BeatsKnown' BY <1>1 DEF BeatsKnown
  <2>1. \A o \in Ups' : o \in Ups /\ o # b /\ run'[o] = run[o] /\ run[o] # run[b] /\ sweep'[o] = sweep[o]
    BY <1>4, <1>5 DEF ConnInv, BrokersApart, Ups
  <2>2. ASSUME NEW o \in Ups', sweep'[o].pc # "first", o \notin cut PROVE run'[o] \in beats' \ aged
    <3>1. run[o] \in beats \ aged BY <2>1, <2>2 DEF ConnInv, BeatsKnown
    <3> QED BY <2>1, <3>1
  <2>3. ASSUME NEW o \in Instance, Looking(o)', NEW p \in Ups', run'[p] \notin sweep'[o].live PROVE run'[p] \in aged \/ run'[p] \notin beats'
    <3>1. o # b /\ Looking(o) /\ sweep'[o] = sweep[o] BY <1>3, <1>4, <2>3 DEF Looking
    <3> QED BY <2>1, <2>3, <3>1 DEF ConnInv, BeatsKnown
  <2>4. ASSUME NEW c \in Conns, Alive(c)', Notified(c)' PROVE conn'[c].run \in beats' \cup aged
    <3>1. Alive(c) /\ Notified(c) /\ conn[c].by # b BY <1>11, <2>4
    <3>2. conn[c].by \in Ups /\ run[conn[c].by] = conn[c].run BY <3>1, OneRun
    <3>3. conn[c].run # run[b] BY <1>5, <2>1, <3>1, <3>2
    <3>4. conn[c].run \in beats \cup aged BY <3>1 DEF ConnInv, BeatsKnown
    <3> QED BY <1>10, <3>3, <3>4
  <2>5. \A o \in Ups' \cap fenced : run'[o] \in aged BY <2>1 DEF ConnInv, BeatsKnown
  <2> QED BY <1>1, <1>9, <2>2, <2>3, <2>4, <2>5 DEF BeatsKnown
<1>17. SweptAreTold'
  <2>1. ASSUME NEW c \in robbed \ unlisted, conn'[c].pc = "open" PROVE conn'[c].told \/ conn'[c].run \in aged
    <3>1. c \in Conns /\ conn[c].pc = "open" BY <1>2, <1>10, <2>1 DEF ConnTypes
    <3> QED BY <1>10, <2>1, <3>1 DEF ConnInv, SweptAreTold
  <2> QED BY <1>1, <2>1 DEF SweptAreTold
<1>18. FencedAreTold'
  <2>1. ASSUME NEW o \in Ups' \cap fenced', NEW c \in Conns, conn'[c].by = o, Alive(c)', c \notin unlisted, conn'[c].pc = "open", Notified(c)' \/ c \in robbed
        PROVE  conn'[c].told
    <3>1. c \in Of(o) /\ o \in Ups \cap fenced /\ conn[c].pc = "open" BY <1>1, <1>5, <1>10, <1>11, <2>1 DEF Of
    <3> QED BY <1>10, <1>11, <2>1, <3>1 DEF ConnInv, FencedAreTold
  <2> QED BY <1>1, <1>9, <2>1 DEF FencedAreTold, Of
<1>19. LooksHold'
  <2>1. ASSUME NEW c \in Conns, conn'[c].pc = "ending", conn'[c].at # "none" PROVE sub[conn'[c].at] \in {c, NoEndpoint}
    BY <1>10, <2>1 DEF ConnInv, LooksHold
  <2>2. ASSUME NEW o \in Instance, NEW s \in sweep'[o].todo PROVE sub[s] = NoEndpoint \/ (sub[s] \in Conns /\ conn'[sub[s]].run \notin sweep'[o].live)
    <3>1. o # b BY <1>3, <1>4
    <3> QED BY <1>4, <1>10, <2>2, <3>1 DEF ConnInv, LooksHold
  <2> QED BY <1>1, <1>9, <2>1, <2>2 DEF LooksHold
<1>20. OwnFollowed'
  <2>1. ASSUME NEW c \in Conns, c \notin failed, NEW s \in ConnSub
        PROVE  /\ sub[s] = c => conn'[c].pc # "gone"
               /\ sub[s] = c /\ conn'[c].pc \in {"open", "ending"} => s \in conn'[c].own \/ (conn'[c].track = "own" /\ conn'[c].at = s)
               /\ conn'[c].track = "disown" /\ conn'[c].at = s => sub[s] # c
    BY <1>10, <2>1 DEF ConnInv, OwnFollowed
  <2> QED BY <1>1, <1>9, <2>1 DEF OwnFollowed
<1>21. SweepsCover'
  <2>1. ASSUME NEW o \in Instance, sweep'[o].pc \in {"delete", "docs"}, NEW s \in ConnSub, sub[s] \in Conns \ failed, conn'[sub[s]].run \notin sweep'[o].live
        PROVE  s \in sweep'[o].todo
    <3>1. o # b BY <1>3, <1>4, <2>1
    <3> QED BY <1>4, <1>10, <2>1, <3>1 DEF ConnInv, SweepsCover
  <2>2. ASSUME ~ha, NEW o \in Ups', sweep'[o].pc = "idle", NEW s \in ConnSub, sub[s] \in Conns \ failed PROVE conn'[sub[s]].run = run'[o]
    <3>1. o \in Ups /\ o # b BY <1>5
    <3>2. sweep'[o] = sweep[o] /\ run'[o] = run[o] /\ conn'[sub[s]].run = conn[sub[s]].run BY <1>4, <1>10, <2>2, <3>1 DEF Ups
    <3>3. sweep[o].pc = "idle" BY <2>2, <3>2
    <3>4. conn[sub[s]].run = run[o] BY <2>2, <3>1, <3>3 DEF ConnInv, SweepsCover
    <3> QED BY <3>2, <3>4
  <2> QED BY <1>1, <1>9, <2>1, <2>2 DEF SweepsCover
<1> QED BY <1>1, <1>9, <1>12, <1>13, <1>14, <1>15, <1>16, <1>17, <1>18, <1>19, <1>20, <1>21 DEF ConnInv

LEMMA ConnStart ==
  ASSUME ConnInit
  PROVE  ConnInv
<1>1. /\ ha \in BOOLEAN /\ up = [b \in Instance |-> "down"] /\ run = [b \in Instance |-> 0] /\ lastRun = 0
      /\ conn = <<>> /\ wsList = [b \in Instance |-> <<>>] /\ sub = [s \in ConnSub |-> NoEndpoint]
      /\ beats = {} /\ aged = {} /\ cut = {} /\ fenced = {} /\ sweep = [b \in Instance |-> NoSweep]
      /\ failed = {} /\ unlisted = {} /\ robbed = {} /\ lost = FALSE
  BY DEF ConnInit
<1>2. Conns = {} /\ Len(conn) = 0 /\ conn \in Seq(ConnRec) BY <1>1 DEF Conns
<1>3. NoSweep \in SweepRec /\ NoSweep.pc = "idle" /\ NoSweep.todo = {} /\ NoSweep.live = {} /\ NoSweep.docs = {} BY DEF NoSweep, SweepRec, SweepPc
<1>4. ConnTypes
  <2>1. NoEndpoint \in Nat /\ MaxConn \in Nat BY ConnectionAssumption DEF NoEndpoint
  <2>2. sweep \in [Instance -> SweepRec] BY <1>1, <1>3
  <2>3. wsList \in [Instance -> Seq(Nat)] BY <1>1
  <2>4. sub \in [ConnSub -> Nat] /\ \A s \in ConnSub : sub[s] = NoEndpoint BY <1>1, <2>1
  <2>5. run \in [Instance -> Nat] /\ up \in [Instance -> {"down", "starting", "serving", "stopping"}] BY <1>1
  <2>6. Len(conn) <= MaxConn BY <1>2, <2>1
  <2>7. ha \in BOOLEAN /\ lastRun \in Nat /\ failed \subseteq Conns /\ robbed \subseteq Conns /\ lost \in BOOLEAN BY <1>1
  <2>8. \A s \in ConnSub : sub[s] \in Conns \cup {NoEndpoint, Elsewhere} BY <2>4
  <2> QED BY <1>2, <2>2, <2>3, <2>4, <2>5, <2>6, <2>7, <2>8 DEF ConnTypes
<1>5. Ups = {} BY <1>1 DEF Ups
<1>6. \A b \in Instance : run[b] = 0 /\ up[b] = "down" /\ sweep[b] = NoSweep BY <1>1
<1>7. BrokersApart BY <1>1, <1>5, <1>6 DEF BrokersApart
<1>8. \A b \in Instance : SweepShape(b) BY <1>3, <1>6 DEF SweepShape
<1>9. BeatsKnown BY <1>2, <1>3, <1>5 DEF BeatsKnown
<1>10. SweptAreTold /\ FencedAreTold BY <1>1, <1>5 DEF SweptAreTold, FencedAreTold
<1>11. LooksHold BY <1>2, <1>3, <1>6 DEF LooksHold
<1>12. OwnFollowed BY <1>2 DEF OwnFollowed
<1>13. SweepsCover BY <1>3, <1>5, <1>6 DEF SweepsCover
<1> QED BY <1>1, <1>2, <1>4, <1>7, <1>8, <1>9, <1>10, <1>11, <1>12, <1>13 DEF ConnInv

LEMMA RequestsKeep ==
  ASSUME ConnInv, ~Lag, NEW c \in Conns, Requests(c)
  PROVE  ConnInv'
<1>1. PICK s \in ConnSub : \/ HostMessage(c, s, c, "own")
                           \/ HostMessage(c, s, Elsewhere, "disown")
                           \/ HostMessage(c, s, NoEndpoint, "disown")
  BY DEF Requests
<1>2. CASE HostMessage(c, s, c, "own") BY <1>2, MessageKeeps
<1>3. CASE HostMessage(c, s, Elsewhere, "disown") BY <1>3, MessageKeeps
<1>4. CASE HostMessage(c, s, NoEndpoint, "disown") BY <1>4, MessageKeeps
<1> QED BY <1>1, <1>2, <1>3, <1>4

LEMMA ConnStep ==
  ASSUME ConnInv, ~Lag, ConnNext
  PROVE  ConnInv'
<1>1. CASE \E c \in Conns : Take(c) \/ TakeThread(c) \/ Requests(c) \/ RunRespond(c) \/ ReadEnds(c) \/ EndpointLook(c) \/ CloseDelete(c) \/ WsGone(c)
  BY <1>1, TakeKeeps, ThreadKeeps, RequestsKeep, RespondKeeps, ReadEndsKeeps, EndpointLookKeeps, CloseDeleteKeeps, WsGoneKeeps
<1>2. CASE \E s \in ConnSub : HttpRequest(s) BY <1>2, HttpKeeps
<1>3. ASSUME NEW b \in Instance,
             \/ UpgradeTake(b) \/ RunsBeat(b) \/ DocQuery(b) \/ LeftoversWalk(b) \/ LeftoverDelete(b) \/ LeftoversDeleted(b) \/ DocsDelete(b)
             \/ Start(b) \/ Serve(b) \/ TransportStop(b) \/ TransportRunsStop(b) \/ Kill(b) \/ CutOff(b) \/ Reached(b)
      PROVE  ConnInv'
  <2>1. CASE UpgradeTake(b) BY <2>1, UpgradeKeeps
  <2>2. CASE RunsBeat(b)
    <3>1. BeatFails(b) \/ BeatWritten(b) BY <2>2 DEF RunsBeat
    <3> QED BY <2>2, <3>1, BeatFailsKeeps, BeatWrittenKeeps
  <2>3. CASE DocQuery(b) \/ LeftoversWalk(b) \/ LeftoverDelete(b) \/ LeftoversDeleted(b) \/ DocsDelete(b)
    BY <2>3, DocQueryKeeps, LeftoversWalkKeeps, LeftoverDeleteKeeps, LeftoversDeletedKeeps, DocsDeleteKeeps
  <2>4. CASE Start(b) BY <2>4, StartKeeps
  <2>5. CASE Serve(b) \/ TransportStop(b) \/ CutOff(b) BY <2>5, ServeKeeps
  <2>6. CASE TransportRunsStop(b)
    <3>1. up[b] # "down" /\ Down(b) /\ beats' \subseteq beats /\ \A r \in beats \ beats' : r = run[b] BY <2>6 DEF TransportRunsStop
    <3> QED BY <3>1, DownKeeps
  <2>7. CASE Kill(b)
    <3>1. up[b] # "down" /\ Down(b) /\ beats' = beats BY <2>7 DEF Kill
    <3>2. beats' \subseteq beats /\ \A r \in beats \ beats' : r = run[b] BY <3>1
    <3> QED BY <3>1, <3>2, DownKeeps
  <2>8. CASE Reached(b) BY <2>8, ReachedKeeps
  <2> QED BY <1>3, <2>1, <2>2, <2>3, <2>4, <2>5, <2>6, <2>7, <2>8
<1>4. CASE \E r \in Run : Age(r) BY <1>4, AgeKeeps
<1> QED BY <1>1, <1>2, <1>3, <1>4 DEF ConnNext

\* What has been followed, told and swept says that subscriptions follow their connections
LEMMA FollowsFromInv ==
  ASSUME ConnInv
  PROVE  SubscriptionsFollow
<1>1. ASSUME NEW s \in ConnSub, sub[s] \in Conns \ failed PROVE conn[sub[s]].pc # "gone" BY <1>1 DEF ConnInv, OwnFollowed
<1>2. ASSUME NEW s \in ConnSub, sub[s] \in Conns \ failed, NEW b \in Instance, ~ha, up[b] = "serving" PROVE conn[sub[s]].run = run[b]
  <2>1. b \in Ups /\ sweep[b].pc = "idle" BY <1>2 DEF ConnInv, SweepShape, Ups
  <2> QED BY <1>2, <2>1 DEF ConnInv, SweepsCover
<1>3. ASSUME NEW s \in ConnSub, sub[s] \in Conns \ failed, NEW b \in Instance, sweep[b].pc = "docs" PROVE conn[sub[s]].run \in sweep[b].live
  <2>1. sweep[b].todo = {} BY <1>3 DEF ConnInv, SweepShape
  <2> QED BY <1>3, <2>1 DEF ConnInv, SweepsCover
<1> QED BY <1>1, <1>2, <1>3 DEF ConnInv, SubscriptionsFollow

\* Subscriptions follow their connections: a connection that has closed leaves none that notifies it, a start or a sweep
\* leaves none of a run that had ended, none that notifies elsewhere is deleted, and who loses one to a sweep is told -
\* for any number of brokers, connections, subscriptions, kills and losses of the database, where no deletion comes
\* after what it was decided on has changed
THEOREM SubscriptionsFollowThem ==
  ASSUME ~Lag
  PROVE  ConnSpec => []SubscriptionsFollow
<1>1. ConnInit => ConnInv BY ConnStart
<1>2. ConnInv /\ [ConnNext]_connVars => ConnInv'
  <2>1. ASSUME ConnInv, UNCHANGED connVars PROVE ConnInv'
    <3>1. UNCHANGED <<ha, up, run, lastRun, conn, wsList, sub, beats, aged, cut, fenced, sweep, failed, unlisted, robbed, lost>> BY <2>1 DEF connVars
    <3>2. /\ conn \in Seq(ConnRec) /\ up \in [Instance -> {"down", "starting", "serving", "stopping"}] /\ (\A r \in aged : r \in Nat /\ r <= lastRun)
          /\ (ha => \A o \in Ups : sweep[o].pc # "first" /\ o \notin cut => run[o] \in beats \ aged)
      BY <2>1 DEF ConnInv, ConnTypes, BrokersApart, BeatsKnown
    <3>3. \A c \in Conns : conn'[c] = conn[c] BY <3>1
    <3>4. UNCHANGED <<ha, run, lastRun, wsList, sub, beats, fenced, sweep, marks>> BY <3>1 DEF marks
    <3>5. /\ conn' \in Seq(ConnRec) /\ Len(conn') = Len(conn) /\ up' \in [Instance -> {"down", "starting", "serving", "stopping"}]
          /\ (\A b \in Instance : up'[b] = up[b]) /\ aged \subseteq aged' /\ (\A r \in aged' : r \in Nat /\ r <= lastRun)
          /\ (ha => \A o \in Ups : sweep[o].pc # "first" /\ o \notin cut' => run[o] \in beats \ aged')
      BY <3>1, <3>2
    <3> QED BY <2>1, <3>3, <3>4, <3>5, HostKeeps
  <2> QED BY <2>1, ConnStep
<1>3. ConnInv => SubscriptionsFollow BY FollowsFromInv
<1> QED BY <1>1, <1>2, <1>3, PTL DEF ConnSpec

-----------------------------------------------------------------------------
(* Connections: the plugin's lists, whether deletions lag or not *)

Threaded == {"thread", "open", "ending"}
On(b) == {c \in Conns : conn[c].by = b /\ conn[c].pc \in Threaded}

\* Each broker's list holds connections of its own that have not been freed, each once, and all but those that fell out
ListOf(b) ==
  /\ IsInjective(wsList[b])
  /\ Range(wsList[b]) \subseteq On(b)
  /\ On(b) \ unlisted \subseteq Range(wsList[b])

\* A request that is followed to its response has a subscription
Tracked(q) == q.track # "no" => q.pc \in {"open", "dead"} /\ q.at \in ConnSub

ListTypes ==
  /\ conn \in Seq(ConnRec) /\ wsList \in [Instance -> Seq(Nat)] /\ run \in [Instance -> Nat] /\ sub \in [ConnSub -> Nat]
  /\ \A s \in ConnSub : sub[s] \in Conns \cup {NoEndpoint, Elsewhere}
  /\ \A c \in Conns : Tracked(conn[c])

\* The runs that beats are of are runs there have been
RunBounds ==
  /\ up \in [Instance -> {"down", "starting", "serving", "stopping"}]
  /\ run \in [Instance -> 0..MaxRun] /\ lastRun \in 0..MaxRun
  /\ \A b \in Instance : up[b] # "down" => run[b] # 0
  /\ beats \subseteq Run /\ aged \subseteq Run

ListInv == ListTypes /\ \A b \in Instance : ListOf(b)

\* A connection is put in front, of a list it is not in
LEMMA PutInFront ==
  ASSUME NEW l \in Seq(Nat), NEW c \in Nat, IsInjective(l), c \notin Range(l)
  PROVE  <<c>> \o l \in Seq(Nat) /\ IsInjective(<<c>> \o l) /\ Range(<<c>> \o l) = Range(l) \cup {c}
<1> DEFINE one == <<c>>
<1>1. one \in Seq(Nat) /\ Len(one) = 1 /\ one[1] = c OBVIOUS
<1> HIDE DEF one
<1>2. DOMAIN one = 1..1 /\ Range(one) = {one[i] : i \in 1..1} BY <1>1, LenProperties, RangeEquality
<1>3. Range(one) = {c} /\ IsInjective(one) BY <1>1, <1>2 DEF IsInjective
<1>4. one \o l \in Seq(Nat) /\ Range(one \o l) = Range(one) \cup Range(l) BY <1>1, ConcatProperties, RangeConcatenation
<1>5. IsInjective(one \o l)
  <2>1. Range(one) \cap Range(l) = {} BY <1>3
  <2> QED BY <1>1, <1>3, <2>1, ConcatInjective
<1> QED BY <1>3, <1>4, <1>5 DEF one

\* A list cut after one of its connections has neither that nor what was before it
LEMMA CutAfter ==
  ASSUME NEW l \in Seq(Nat), NEW k \in 1..Len(l), IsInjective(l)
  PROVE  /\ SubSeq(l, k + 1, Len(l)) \in Seq(Nat) /\ IsInjective(SubSeq(l, k + 1, Len(l)))
         /\ Range(SubSeq(l, k + 1, Len(l))) \subseteq Range(l) \ {l[k]}
         /\ Range(l) \subseteq Range(SubSeq(l, k + 1, Len(l))) \cup {l[k]} \cup {l[n] : n \in 1..(k - 1)}
<1> DEFINE p == SubSeq(l, 1, k)
           r == SubSeq(l, k + 1, Len(l))
<1>1. k \in 0..Len(l) /\ k \in Nat /\ k >= 1 OBVIOUS
<1>2. p \in Seq(Nat) /\ Len(p) = k /\ (\A i \in 1..k : p[i] = l[i]) /\ r \in Seq(Nat) BY <1>1, SplitSeq
<1>3. IsInjective(r) /\ Range(p) \cap Range(r) = {} /\ Range(l) = Range(p) \cup Range(r) BY <1>1, SplitInjective, SplitRange
<1>4. Range(p) = {p[i] : i \in 1..k} BY <1>2, RangeEquality
<1> HIDE DEF p, r
<1>5. l[k] \in Range(p) BY <1>1, <1>2, <1>4
<1>6. Range(p) \subseteq {l[k]} \cup {l[n] : n \in 1..(k - 1)}
  <2> SUFFICES ASSUME NEW i \in 1..k PROVE l[i] \in {l[k]} \cup {l[n] : n \in 1..(k - 1)} BY <1>2, <1>4
  <2>1. i = k \/ i \in 1..(k - 1) BY <1>1
  <2> QED BY <2>1
<1>7. r \in Seq(Nat) /\ IsInjective(r) /\ Range(r) \subseteq Range(l) \ {l[k]} /\ Range(l) \subseteq Range(r) \cup {l[k]} \cup {l[n] : n \in 1..(k - 1)}
  BY <1>2, <1>3, <1>5, <1>6
<1> QED BY <1>7 DEF r

\* One is taken out
LEMMA TakeOut ==
  ASSUME NEW l \in Seq(Nat), NEW k \in 1..Len(l), IsInjective(l)
  PROVE  LET m == SubSeq(l, 1, k - 1) \o SubSeq(l, k + 1, Len(l))
         IN  m \in Seq(Nat) /\ IsInjective(m) /\ Range(m) = Range(l) \ {l[k]}
<1> DEFINE j == k - 1
           f == SubSeq(l, 1, j)
           r == SubSeq(l, k + 1, Len(l))
<1>1. j \in 0..Len(l) /\ j \in Nat /\ k \in Nat OBVIOUS
<1>2. f \in Seq(Nat) /\ Len(f) = j /\ \A i \in 1..j : f[i] = l[i]
  <2> HIDE DEF j
  <2> QED BY <1>1, SplitSeq
<1>3. IsInjective(f)
  <2> HIDE DEF j
  <2> QED BY <1>1, SplitInjective
<1>4. Range(f) = {l[i] : i \in 1..j}
  <2>1. Range(f) = {f[i] : i \in 1..Len(f)} BY <1>2, RangeEquality
  <2> HIDE DEF f
  <2> QED BY <1>2, <2>1
<1>5. /\ r \in Seq(Nat) /\ IsInjective(r) /\ Range(r) \subseteq Range(l) \ {l[k]}
      /\ Range(l) \subseteq Range(r) \cup {l[k]} \cup Range(f)
  BY <1>4, CutAfter
<1>6. Range(f) \cap Range(r) = {} /\ Range(f) \subseteq Range(l) \ {l[k]}
  <2> DEFINE p == SubSeq(l, 1, k)
  <2>1. k \in 0..Len(l) OBVIOUS
  <2>2. Range(p) \cap Range(r) = {} /\ Range(l) = Range(p) \cup Range(r) BY <2>1, SplitInjective, SplitRange
  <2>3. p \in Seq(Nat) /\ Len(p) = k /\ \A i \in 1..k : p[i] = l[i] BY <2>1, SplitSeq
  <2>4. Range(p) = {p[i] : i \in 1..k} BY <2>3, RangeEquality
  <2> HIDE DEF p, r
  <2>5. Range(f) \subseteq Range(p)
    <3> SUFFICES ASSUME NEW i \in 1..j PROVE l[i] \in Range(p) BY <1>4
    <3>1. i \in 1..k BY <1>1
    <3> QED BY <2>3, <2>4, <3>1
  <2>6. ASSUME NEW i \in 1..j PROVE l[i] # l[k]
    <3>1. DOMAIN l = 1..Len(l) BY LenProperties
    <3>2. i \in 1..Len(l) /\ i # k BY <1>1
    <3> QED BY <3>1, <3>2 DEF IsInjective
  <2> QED BY <1>4, <2>2, <2>5, <2>6
<1> HIDE DEF f, r
<1>7. f \o r \in Seq(Nat) /\ Range(f \o r) = Range(f) \cup Range(r) BY <1>2, <1>5, ConcatProperties, RangeConcatenation
<1>8. IsInjective(f \o r) BY <1>2, <1>3, <1>5, <1>6, ConcatInjective
<1>9. Range(f \o r) = Range(l) \ {l[k]} BY <1>5, <1>6, <1>7
<1> QED BY <1>7, <1>8, <1>9 DEF f, r

\* Where no connection gets a thread or is freed the lists stay
LEMMA ListsStay ==
  ASSUME ListInv, NEW b \in Instance, On(b)' = On(b), wsList'[b] = wsList[b], unlisted \subseteq unlisted'
  PROVE  ListOf(b)'
<1>1. PICK l : l = wsList[b] OBVIOUS
<1>2. IsInjective(l) /\ Range(l) \subseteq On(b) /\ On(b) \ unlisted \subseteq Range(l) BY <1>1 DEF ListInv, ListOf
<1>3. wsList'[b] = l BY <1>1
<1> QED BY <1>2, <1>3 DEF ListOf

\* ... as where one connection changes, and has a thread as before
LEMMA OneOn ==
  ASSUME ListTypes, NEW c \in Conns, NEW n \in ConnRec, conn' = [conn EXCEPT ![c] = n], n.by = conn[c].by
  PROVE  /\ conn' \in Seq(ConnRec) /\ Conns' = Conns /\ conn[c] \in ConnRec /\ c \in Nat
         /\ conn'[c] = n /\ \A d \in Conns \ {c} : conn'[d] = conn[d]
         /\ \A b \in Instance : b # n.by => On(b)' = On(b)
         /\ \A b \in Instance : b = n.by /\ n.pc \in Threaded => On(b)' = On(b) \cup {c}
         /\ \A b \in Instance : b = n.by /\ n.pc \notin Threaded => On(b)' = On(b) \ {c}
<1>1. Conns = 1..Len(conn) /\ Len(conn) \in Nat /\ conn \in Seq(ConnRec) BY DEF ListTypes, Conns
<1>2. conn' \in Seq(ConnRec) /\ Len(conn') = Len(conn) /\ conn[c] \in ConnRec /\ c \in Nat BY <1>1
<1>3. Conns' = Conns /\ conn'[c] = n /\ \A d \in Conns \ {c} : conn'[d] = conn[d] BY <1>1, <1>2 DEF Conns
<1>4. \A b \in Instance : \A d \in Conns \ {c} : d \in On(b)' <=> d \in On(b) BY <1>3 DEF On
<1>5. \A b \in Instance : c \in On(b)' <=> n.by = b /\ n.pc \in Threaded BY <1>3 DEF On
<1>6. \A b \in Instance : On(b) \subseteq Conns /\ On(b)' \subseteq Conns /\ (c \in On(b) => n.by = b) BY <1>3 DEF On
<1>7. ASSUME NEW b \in Instance
      PROVE  /\ b # n.by => On(b)' = On(b)
             /\ b = n.by /\ n.pc \in Threaded => On(b)' = On(b) \cup {c}
             /\ b = n.by /\ n.pc \notin Threaded => On(b)' = On(b) \ {c}
  <2>1. PICK A, B : A = On(b) /\ B = On(b)' OBVIOUS
  <2>2. /\ A \subseteq Conns /\ B \subseteq Conns /\ (\A d \in Conns \ {c} : d \in B <=> d \in A)
        /\ (c \in B <=> n.by = b /\ n.pc \in Threaded) /\ (c \in A => n.by = b)
    BY <2>1, <1>4, <1>5, <1>6
  <2>3. b # n.by => B = A BY <2>2
  <2>4. b = n.by /\ n.pc \in Threaded => B = A \cup {c} BY <2>2
  <2>5. b = n.by /\ n.pc \notin Threaded => B = A \ {c} BY <2>2
  <2> QED BY <2>1, <2>3, <2>4, <2>5
<1> QED BY <1>2, <1>3, <1>7

LEMMA OwnStepLists ==
  ASSUME ListInv, NEW c \in Conns, NEW n \in ConnRec, conn' = [conn EXCEPT ![c] = n], n.by = conn[c].by, Tracked(n),
         n.pc \in Threaded <=> conn[c].pc \in Threaded, UNCHANGED <<wsList, run>>, unlisted \subseteq unlisted', sub' \in [ConnSub -> Nat],
         \A s \in ConnSub : sub'[s] = sub[s] \/ sub'[s] \in {NoEndpoint, Elsewhere, c}
  PROVE  ListInv'
<1>0. ListTypes BY DEF ListInv
<1>1. /\ conn' \in Seq(ConnRec) /\ Conns' = Conns /\ conn[c] \in ConnRec
      /\ conn'[c] = n /\ (\A d \in Conns \ {c} : conn'[d] = conn[d])
      /\ \A b \in Instance : b # n.by => On(b)' = On(b)
      /\ \A b \in Instance : b = n.by /\ n.pc \in Threaded => On(b)' = On(b) \cup {c}
      /\ \A b \in Instance : b = n.by /\ n.pc \notin Threaded => On(b)' = On(b) \ {c}
  BY <1>0, OneOn
<1>2. \A b \in Instance : b = n.by => (c \in On(b) <=> n.pc \in Threaded) BY DEF On
<1>3. ASSUME NEW b \in Instance PROVE On(b)' = On(b)
  <2>1. CASE b # n.by BY <1>1, <2>1
  <2>2. CASE b = n.by /\ n.pc \in Threaded
    <3>1. PICK A : A = On(b) OBVIOUS
    <3>2. PICK B : B = On(b)' OBVIOUS
    <3>3. c \in A /\ B = A \cup {c} BY <1>1, <1>2, <2>2, <3>1, <3>2
    <3>4. B = A BY <3>3
    <3> QED BY <3>1, <3>2, <3>4
  <2>3. CASE b = n.by /\ n.pc \notin Threaded
    <3>1. PICK A : A = On(b) OBVIOUS
    <3>2. PICK B : B = On(b)' OBVIOUS
    <3>3. c \notin A /\ B = A \ {c} BY <1>1, <1>2, <2>3, <3>1, <3>2
    <3>4. B = A BY <3>3
    <3> QED BY <3>1, <3>2, <3>4
  <2> QED BY <2>1, <2>2, <2>3
<1>4. \A b \in Instance : ListOf(b)' BY <1>3, ListsStay
<1>5. ListTypes' BY <1>1 DEF ListInv, ListTypes
<1> QED BY <1>4, <1>5 DEF ListInv

\* What leaves connections, lists and endpoints alone
LEMMA OthersLists ==
  ASSUME ListInv, UNCHANGED <<conn, wsList, unlisted>>, run' \in [Instance -> Nat], sub' \in [ConnSub -> Nat],
         \A s \in ConnSub : sub'[s] = sub[s] \/ sub'[s] \in {NoEndpoint, Elsewhere}
  PROVE  ListInv'
<1>1. Conns' = Conns /\ \A b \in Instance : On(b)' = On(b) BY DEF Conns, On
<1>2. \A b \in Instance : ListOf(b)' BY <1>1, ListsStay
<1>3. ListTypes' BY <1>1 DEF ListInv, ListTypes
<1> QED BY <1>2, <1>3 DEF ListInv

\* A list of which one broker's changes, as its connections do
LEMMA OtherLists ==
  ASSUME ListInv, NEW c \in Conns, NEW n \in ConnRec, conn' = [conn EXCEPT ![c] = n], n.by = conn[c].by, Tracked(n),
         UNCHANGED <<run, sub>>, unlisted \subseteq unlisted',
         NEW b \in Instance, b = n.by, NEW m \in Seq(Nat), wsList' = [wsList EXCEPT ![b] = m],
         IsInjective(m), Range(m) \subseteq On(b)', On(b)' \ unlisted' \subseteq Range(m)
  PROVE  ListInv'
<1>1. wsList \in [Instance -> Seq(Nat)] BY DEF ListInv, ListTypes
<1>2. wsList' \in [Instance -> Seq(Nat)] /\ wsList'[b] = m /\ \A o \in Instance \ {b} : wsList'[o] = wsList[o] BY <1>1
<1>3. conn' \in Seq(ConnRec) /\ Conns' = Conns /\ (\A o \in Instance : o # b => On(o)' = On(o))
      /\ conn'[c] = n /\ \A d \in Conns \ {c} : conn'[d] = conn[d]
  <2>1. ListTypes BY DEF ListInv
  <2>2. ASSUME NEW o \in Instance, o # b PROVE On(o)' = On(o)
    <3>1. o # n.by BY <2>2
    <3>2. \A a \in Instance : a # n.by => On(a)' = On(a) BY <2>1, OneOn
    <3> QED BY <3>1, <3>2
  <2>3. conn' \in Seq(ConnRec) /\ Conns' = Conns /\ conn'[c] = n /\ \A d \in Conns \ {c} : conn'[d] = conn[d] BY <2>1, OneOn
  <2> QED BY <2>2, <2>3
<1>4. ListTypes' BY <1>2, <1>3 DEF ListInv, ListTypes
<1>5. ListOf(b)' BY <1>2 DEF ListOf
<1>6. ASSUME NEW o \in Instance, o # b PROVE ListOf(o)' BY <1>2, <1>3, <1>6, ListsStay
<1> QED BY <1>4, <1>5, <1>6 DEF ListInv

-----------------------------------------------------------------------------
(* ... step by step *)

\* Listed as it gets its thread
LEMMA TakeLists == ASSUME ListInv, NEW c \in Conns, Take(c) PROVE ListInv'
<1> DEFINE q == conn[c]
<1>0. PICK n : n = [q EXCEPT !.pc = "thread"] OBVIOUS
<1>1. q \in ConnRec /\ c \in Nat /\ Tracked(q) /\ q.pc = "taking" BY DEF ListInv, ListTypes, Conns, Take
<1>2. n \in ConnRec /\ n.by = q.by /\ n.pc = "thread" /\ q.by \in Instance /\ Tracked(n) BY <1>0, <1>1 DEF ConnRec, ConnPc, Tracked
<1>3. PICK b \in Instance : b = n.by BY <1>2
<1>4. PICK l : l = wsList[b] OBVIOUS
<1>5. /\ q.pc = "taking" /\ conn' = [conn EXCEPT ![c] = n] /\ wsList' = [wsList EXCEPT ![b] = <<c>> \o l]
      /\ UNCHANGED <<run, sub, unlisted>>
  BY <1>0, <1>2, <1>3, <1>4 DEF Take, hosts, marks
<1>6. On(b)' = On(b) \cup {c} /\ c \notin On(b)
  <2>1. ListTypes BY DEF ListInv
  <2>2. n.pc \in Threaded BY <1>2 DEF Threaded
  <2>3. On(b)' = On(b) \cup {c} BY <1>2, <1>3, <1>5, <2>1, <2>2, OneOn
  <2> QED BY <1>5, <2>3 DEF On, Threaded
<1>7. l \in Seq(Nat) /\ IsInjective(l) /\ Range(l) \subseteq On(b) /\ On(b) \ unlisted \subseteq Range(l) BY <1>4 DEF ListInv, ListTypes, ListOf
<1>8. PICK m : m = <<c>> \o l OBVIOUS
<1>9. m \in Seq(Nat) /\ IsInjective(m) /\ Range(m) = Range(l) \cup {c} BY <1>1, <1>6, <1>7, <1>8, PutInFront
<1>10. PICK B : B = On(b)' OBVIOUS
<1>11. Range(m) \subseteq B /\ B \ unlisted' \subseteq Range(m) BY <1>5, <1>6, <1>7, <1>9, <1>10
<1>12. Range(m) \subseteq On(b)' /\ On(b)' \ unlisted' \subseteq Range(m) BY <1>10, <1>11
<1>13. wsList' = [wsList EXCEPT ![b] = m] /\ unlisted \subseteq unlisted' BY <1>5, <1>8
<1> QED BY <1>2, <1>3, <1>5, <1>9, <1>12, <1>13, OtherLists

\* With its thread; or without: freed, and the list cut after it
LEMMA ThreadLists == ASSUME ListInv, NEW c \in Conns, TakeThread(c) PROVE ListInv'
<1> DEFINE q == conn[c]
<1>0. q \in ConnRec /\ c \in Nat BY DEF ListInv, ListTypes, Conns
<1>1. q \in ConnRec /\ c \in Nat /\ q.by \in Instance BY <1>0 DEF ConnRec
<1>2. PICK l : l = wsList[q.by] OBVIOUS
<1>3. q.pc = "thread" /\ q.track = "no" /\ UNCHANGED <<run, sub>> BY DEF TakeThread, hosts, ListInv, ListTypes, Tracked
<1>4. CASE conn' = [conn EXCEPT ![c].pc = "open"] /\ UNCHANGED <<wsList, unlisted>>
  <2> DEFINE n == [q EXCEPT !.pc = "open"]
  <2>1. n \in ConnRec /\ n.by = q.by /\ n.pc = "open" /\ conn' = [conn EXCEPT ![c] = n] /\ n.track = "no" BY <1>1, <1>3, <1>4 DEF ConnRec, ConnPc
  <2>3. Tracked(n) BY <2>1 DEF Tracked
  <2>2. n.pc \in Threaded <=> q.pc \in Threaded BY <1>3, <2>1 DEF Threaded
  <2> HIDE DEF n
  <2>4. sub' = sub /\ sub' \in [ConnSub -> Nat] BY <1>3 DEF ListInv, ListTypes
  <2>5. unlisted \subseteq unlisted' BY <1>4
  <2> QED BY <1>3, <1>4, <2>1, <2>2, <2>3, <2>4, <2>5, OwnStepLists
<1>5. ASSUME conn' = [conn EXCEPT ![c].pc = "gone"],
             NEW k \in 1..Len(l), l[k] = c, wsList' = [wsList EXCEPT ![q.by] = SubSeq(l, k + 1, Len(l))],
             unlisted' = unlisted \cup {l[x] : x \in 1..(k - 1)}
      PROVE  ListInv'
  <2>0. PICK n : n = [q EXCEPT !.pc = "gone"] OBVIOUS
  <2>1. n \in ConnRec /\ n.by = q.by /\ n.pc = "gone" /\ conn' = [conn EXCEPT ![c] = n] /\ Tracked(n)
    BY <1>1, <1>3, <1>5, <2>0 DEF ConnRec, ConnPc, Tracked
  <2>2. PICK b \in Instance : b = n.by BY <1>1, <2>1
  <2>3. On(b)' = On(b) \ {c}
    <3>1. ListTypes BY DEF ListInv
    <3>2. n.pc \notin Threaded BY <2>1 DEF Threaded
    <3> QED BY <2>1, <2>2, <3>1, <3>2, OneOn
  <2>4. l \in Seq(Nat) /\ IsInjective(l) /\ Range(l) \subseteq On(b) /\ On(b) \ unlisted \subseteq Range(l)
    <3>1. l = wsList[b] BY <1>2, <2>1, <2>2
    <3> QED BY <3>1 DEF ListInv, ListTypes, ListOf
  <2>5. PICK m : m = SubSeq(l, k + 1, Len(l)) OBVIOUS
  <2>6. PICK X : X = {l[x] : x \in 1..(k - 1)} OBVIOUS
  <2>7. m \in Seq(Nat) /\ IsInjective(m) /\ Range(m) \subseteq Range(l) \ {c} /\ Range(l) \subseteq Range(m) \cup {c} \cup X
    BY <1>5, <2>4, <2>5, <2>6, CutAfter
  <2>8. PICK B : B = On(b)' OBVIOUS
  <2>9. Range(m) \subseteq B /\ B \ unlisted' \subseteq Range(m) BY <1>5, <2>3, <2>4, <2>6, <2>7, <2>8
  <2>10. Range(m) \subseteq On(b)' /\ On(b)' \ unlisted' \subseteq Range(m) BY <2>8, <2>9
  <2>11. wsList' = [wsList EXCEPT ![b] = m] /\ unlisted \subseteq unlisted' BY <1>5, <2>1, <2>2, <2>5
  <2> QED BY <1>3, <2>1, <2>2, <2>7, <2>10, <2>11, OtherLists
<1>6. \/ conn' = [conn EXCEPT ![c].pc = "open"] /\ UNCHANGED <<wsList, unlisted>>
      \/ /\ conn' = [conn EXCEPT ![c].pc = "gone"]
         /\ \E k \in 1..Len(wsList[q.by]) : /\ wsList[q.by][k] = c
                                           /\ wsList' = [wsList EXCEPT ![q.by] = SubSeq(wsList[q.by], k + 1, Len(wsList[q.by]))]
                                           /\ unlisted' = unlisted \cup {wsList[q.by][x] : x \in 1..(k - 1)}
  BY DEF TakeThread
<1> HIDE DEF q
<1> QED BY <1>2, <1>4, <1>5, <1>6

\* Freed, and taken out if it is still there
LEMMA GoneLists == ASSUME ListInv, NEW c \in Conns, WsGone(c) PROVE ListInv'
<1> DEFINE q == conn[c]
<1>a. PICK n : n = [q EXCEPT !.pc = "gone"] OBVIOUS
<1>0. q \in ConnRec /\ c \in Nat BY DEF ListInv, ListTypes, Conns
<1>1. q \in ConnRec /\ c \in Nat /\ q.by \in Instance BY <1>0 DEF ConnRec
<1>2. n \in ConnRec /\ n.by = q.by /\ n.pc = "gone" /\ n.track = q.track BY <1>1, <1>a DEF ConnRec, ConnPc
<1>3. PICK b \in Instance : b = q.by BY <1>1
<1>4. PICK l : l = wsList[b] OBVIOUS
<1>5. q.pc = "ending" /\ conn' = [conn EXCEPT ![c] = n] /\ UNCHANGED <<run, sub, unlisted>> BY <1>a DEF WsGone, hosts, marks
<1>6. \/ \E k \in DOMAIN l : l[k] = c /\ wsList' = [wsList EXCEPT ![b] = SubSeq(l, 1, k - 1) \o SubSeq(l, k + 1, Len(l))]
      \/ (\A k \in DOMAIN l : l[k] # c) /\ UNCHANGED wsList
  BY <1>3, <1>4 DEF WsGone
<1>b. Tracked(n) BY <1>2, <1>5 DEF ListInv, ListTypes, Tracked
<1>7. On(b)' = On(b) \ {c}
  <2>1. ListTypes BY DEF ListInv
  <2>2. n.pc \notin Threaded BY <1>2 DEF Threaded
  <2> QED BY <1>2, <1>3, <1>5, <2>1, <2>2, OneOn
<1>8. l \in Seq(Nat) /\ IsInjective(l) /\ Range(l) \subseteq On(b) /\ On(b) \ unlisted \subseteq Range(l) BY <1>4 DEF ListInv, ListTypes, ListOf
<1>9. DOMAIN l = 1..Len(l) /\ Range(l) = {l[i] : i \in 1..Len(l)} BY <1>8, LenProperties, RangeEquality
<1>10. PICK m : wsList' = [wsList EXCEPT ![b] = m] /\ m \in Seq(Nat) /\ IsInjective(m) /\ Range(m) = Range(l) \ {c}
  <2>1. ASSUME NEW k \in DOMAIN l, l[k] = c, wsList' = [wsList EXCEPT ![b] = SubSeq(l, 1, k - 1) \o SubSeq(l, k + 1, Len(l))]
        PROVE  \E m : wsList' = [wsList EXCEPT ![b] = m] /\ m \in Seq(Nat) /\ IsInjective(m) /\ Range(m) = Range(l) \ {c}
    <3>1. k \in 1..Len(l) BY <1>9
    <3>2. PICK m : m = SubSeq(l, 1, k - 1) \o SubSeq(l, k + 1, Len(l)) OBVIOUS
    <3>3. m \in Seq(Nat) /\ IsInjective(m) /\ Range(m) = Range(l) \ {l[k]} BY <1>8, <3>1, <3>2, TakeOut
    <3> QED BY <2>1, <3>2, <3>3
  <2>2. CASE (\A k \in DOMAIN l : l[k] # c) /\ UNCHANGED wsList
    <3>1. c \notin Range(l) BY <1>9, <2>2
    <3>2. wsList' = [wsList EXCEPT ![b] = l] BY <1>4, <2>2 DEF ListInv, ListTypes
    <3>3. Range(l) = Range(l) \ {c} BY <3>1
    <3> QED BY <1>8, <3>2, <3>3
  <2> QED BY <1>6, <2>1, <2>2
<1>11. PICK B : B = On(b)' OBVIOUS
<1>12. Range(m) \subseteq B /\ B \ unlisted' \subseteq Range(m) BY <1>5, <1>7, <1>8, <1>10, <1>11
<1>13. Range(m) \subseteq On(b)' /\ On(b)' \ unlisted' \subseteq Range(m) BY <1>11, <1>12
<1>14. unlisted \subseteq unlisted' BY <1>5
<1> QED BY <1>2, <1>3, <1>b, <1>5, <1>10, <1>13, <1>14, OtherLists

\* A request, its response, the end of the reads, and the deletions of a close
LEMMA RequestLists ==
  ASSUME ListInv, NEW c \in Conns, Requests(c) \/ RunRespond(c) \/ ReadEnds(c) \/ EndpointLook(c) \/ CloseDelete(c)
  PROVE  ListInv'
<1> DEFINE q == conn[c]
<1>1. q \in ConnRec /\ Tracked(q) BY DEF ListInv, ListTypes, Conns
<1>2. \E n \in ConnRec : conn' = [conn EXCEPT ![c] = n] /\ n.by = q.by /\ Tracked(n) /\ (n.pc = q.pc \/ (n.pc = "ending" /\ q.pc = "open"))
  <2>1. ASSUME NEW s \in ConnSub, NEW to, NEW track \in {"own", "disown"}, HostMessage(c, s, to, track)
        PROVE  \E n \in ConnRec : conn' = [conn EXCEPT ![c] = n] /\ n.by = q.by /\ Tracked(n) /\ n.pc = q.pc
    <3> DEFINE n == [q EXCEPT !.track = track, !.at = s]
    <3>1. n \in ConnRec /\ n.by = q.by /\ n.pc = q.pc /\ n.at = s BY <1>1 DEF ConnRec
    <3>2. conn' = [conn EXCEPT ![c] = n] /\ q.pc = "open" BY <2>1 DEF HostMessage
    <3>3. Tracked(n) BY <3>1, <3>2 DEF Tracked
    <3> QED BY <3>1, <3>2, <3>3
  <2>2. CASE Requests(c) BY <2>1, <2>2 DEF Requests
  <2>3. CASE RunRespond(c)
    <3> DEFINE o == IF q.track = "own" THEN q.own \cup {q.at} ELSE q.own \ {q.at}
               n == [q EXCEPT !.track = "no", !.own = o]
    <3>1. conn' = [conn EXCEPT ![c] = n] BY <2>3 DEF RunRespond
    <3>2. o \in SUBSET ConnSub BY <1>1, <2>3 DEF ConnRec, RunRespond, Tracked
    <3> HIDE DEF o
    <3>3. n \in ConnRec /\ n.by = q.by /\ n.pc = q.pc /\ Tracked(n) BY <1>1, <3>2 DEF ConnRec, Tracked
    <3> QED BY <3>1, <3>3
  <2>4. CASE ReadEnds(c)
    <3> DEFINE n == [q EXCEPT !.pc = "ending", !.at = "none"]
    <3>1. n \in ConnRec /\ n.by = q.by /\ n.pc = "ending" /\ n.track = q.track BY <1>1 DEF ConnRec, ConnPc
    <3>2. conn' = [conn EXCEPT ![c] = n] /\ q.pc = "open" /\ q.track = "no" BY <2>4 DEF ReadEnds
    <3>3. Tracked(n) BY <3>1, <3>2 DEF Tracked
    <3> QED BY <3>1, <3>2, <3>3
  <2>5. CASE EndpointLook(c)
    <3>1. PICK s \in q.own : \/ conn' = [conn EXCEPT ![c].at = s]
                             \/ conn' = [conn EXCEPT ![c].own = @ \ {s}]
      BY <2>5 DEF EndpointLook
    <3>2. s \in ConnSub /\ q.track = "no" BY <1>1, <2>5 DEF ConnRec, EndpointLook, Tracked
    <3>3. [q EXCEPT !.at = s] \in ConnRec /\ [q EXCEPT !.at = s].by = q.by /\ [q EXCEPT !.at = s].pc = q.pc
          /\ Tracked([q EXCEPT !.at = s])
      BY <1>1, <3>2 DEF ConnRec, Tracked
    <3>4. LET n == [q EXCEPT !.own = @ \ {s}] IN n \in ConnRec /\ n.by = q.by /\ n.pc = q.pc /\ Tracked(n) BY <1>1, <3>2 DEF ConnRec, Tracked
    <3> QED BY <3>1, <3>3, <3>4
  <2>6. CASE CloseDelete(c)
    <3> DEFINE n == [q EXCEPT !.at = "none", !.own = @ \ {q.at}]
    <3>1. n \in ConnRec /\ n.by = q.by /\ n.pc = q.pc /\ n.track = q.track BY <1>1 DEF ConnRec
    <3>2. conn' = [conn EXCEPT ![c] = n] /\ q.pc = "ending" BY <2>6 DEF CloseDelete
    <3>3. Tracked(n) BY <1>1, <3>1, <3>2 DEF Tracked
    <3> QED BY <3>1, <3>2, <3>3
  <2> QED BY <2>2, <2>3, <2>4, <2>5, <2>6
<1>3. PICK n \in ConnRec : conn' = [conn EXCEPT ![c] = n] /\ n.by = q.by /\ Tracked(n) /\ (n.pc = q.pc \/ (n.pc = "ending" /\ q.pc = "open")) BY <1>2
<1>4. UNCHANGED <<wsList, run, unlisted>>
  BY DEF Requests, HostMessage, RunRespond, ReadEnds, EndpointLook, CloseDelete, hosts, marks
<1>5. sub' \in [ConnSub -> Nat] /\ \A s \in ConnSub : sub'[s] = sub[s] \/ sub'[s] \in {NoEndpoint, Elsewhere, c}
  <2>0. sub \in [ConnSub -> Nat] /\ c \in Nat /\ NoEndpoint \in Nat /\ Elsewhere \in Nat
    BY ConnectionAssumption DEF ListInv, ListTypes, Conns, NoEndpoint, Elsewhere
  <2>1. ASSUME NEW to \in {NoEndpoint, Elsewhere, c}, NEW x, sub' = [sub EXCEPT ![x] = to]
        PROVE  sub' \in [ConnSub -> Nat] /\ \A s \in ConnSub : sub'[s] = sub[s] \/ sub'[s] \in {NoEndpoint, Elsewhere, c}
    BY <2>0, <2>1
  <2>2. CASE Requests(c) BY <2>1, <2>2 DEF Requests, HostMessage
  <2>3. CASE RunRespond(c) \/ ReadEnds(c) \/ EndpointLook(c) BY <2>0, <2>3 DEF RunRespond, ReadEnds, EndpointLook
  <2>4. CASE CloseDelete(c) BY <2>0, <2>1, <2>4 DEF CloseDelete
  <2> QED BY <2>2, <2>3, <2>4
<1>6. n.pc \in Threaded <=> q.pc \in Threaded BY <1>3 DEF Threaded
<1> QED BY <1>3, <1>4, <1>5, <1>6, OwnStepLists

\* A new one is not in a list yet
LEMMA UpgradeLists == ASSUME ListInv, NEW b \in Instance, UpgradeTake(b) PROVE ListInv'
<1>0. PICK k : k = Len(conn) + 1 OBVIOUS
<1>1. conn \in Seq(ConnRec) /\ Len(conn) \in Nat /\ Conns = 1..Len(conn) /\ run[b] \in Nat BY DEF ListInv, ListTypes, Conns
<1>2. PICK q : q = NewConn(b) OBVIOUS
<1>3. q \in ConnRec /\ q.pc = "taking" /\ q.track = "no" BY <1>1, <1>2 DEF NewConn, ConnRec, ConnPc
<1>4. conn' = Append(conn, q) /\ UNCHANGED <<run, sub, wsList, unlisted>> BY <1>2 DEF UpgradeTake, hosts, marks
<1>5. /\ conn' \in Seq(ConnRec) /\ Conns' = Conns \cup {k} /\ k \notin Conns
      /\ conn'[k] = q /\ \A c \in Conns : conn'[c] = conn[c]
  BY <1>0, <1>1, <1>3, <1>4 DEF Conns
<1>6. \A o \in Instance : On(o)' = On(o) BY <1>3, <1>5 DEF On, Threaded
<1>7. \A o \in Instance : ListOf(o)' BY <1>4, <1>6, ListsStay
<1>8. Tracked(q) BY <1>3 DEF Tracked
<1>9. ListTypes' BY <1>4, <1>5, <1>8 DEF ListInv, ListTypes
<1> QED BY <1>7, <1>9 DEF ListInv

\* Told to close: no list changes yet
LEMMA ToldLists ==
  ASSUME ListInv, NEW b \in Instance, conn' = Dropped(b), UNCHANGED <<run, sub, wsList, unlisted>>
  PROVE  ListInv'
<1>1. conn \in Seq(ConnRec) /\ Conns = 1..Len(conn) /\ Len(conn) \in Nat /\ \A c \in Conns : conn[c] \in ConnRec /\ Tracked(conn[c])
  BY DEF ListInv, ListTypes, Conns
<1>2. ASSUME NEW c \in Conns
      PROVE  LET q == [conn[c] EXCEPT !.told = TRUE] IN q \in ConnRec /\ q.by = conn[c].by /\ q.pc = conn[c].pc /\ Tracked(q)
  <2>1. PICK o : o = conn[c] OBVIOUS
  <2>2. PICK q : q = [o EXCEPT !.told = TRUE] OBVIOUS
  <2>3. o \in ConnRec /\ Tracked(o) BY <1>1, <2>1
  <2>4. q \in ConnRec /\ q.by = o.by /\ q.pc = o.pc /\ q.track = o.track /\ q.at = o.at BY <2>2, <2>3 DEF ConnRec
  <2>5. Tracked(q) BY <2>3, <2>4 DEF Tracked
  <2> QED BY <2>1, <2>2, <2>4, <2>5
<1>3. conn' \in [1..Len(conn) -> ConnRec] /\ \A c \in Conns : conn'[c].by = conn[c].by /\ conn'[c].pc = conn[c].pc /\ Tracked(conn'[c])
  BY <1>1, <1>2 DEF Dropped
<1>4. conn' \in Seq(ConnRec) /\ Conns' = Conns BY <1>1, <1>3 DEF Conns
<1>5. \A o \in Instance : On(o)' = On(o) BY <1>3, <1>4 DEF On
<1>6. \A o \in Instance : ListOf(o)' BY <1>5, ListsStay
<1>7. ListTypes' BY <1>3, <1>4 DEF ListInv, ListTypes
<1> QED BY <1>6, <1>7 DEF ListInv

\* Gone with their broker, and its list with them
LEMMA DownLists == ASSUME ListInv, NEW b \in Instance, Down(b) PROVE ListInv'
<1>1. /\ conn \in Seq(ConnRec) /\ Conns = 1..Len(conn) /\ Len(conn) \in Nat /\ \A c \in Conns : conn[c] \in ConnRec /\ Tracked(conn[c])
      /\ wsList \in [Instance -> Seq(Nat)] /\ run \in [Instance -> Nat]
  BY DEF ListInv, ListTypes, Conns
<1>2. conn' = Broken(b) /\ wsList' = [wsList EXCEPT ![b] = <<>>] /\ run' = [run EXCEPT ![b] = 0] /\ UNCHANGED <<sub, unlisted>>
  BY DEF Down, marks
<1>3. ASSUME NEW c \in Conns
      PROVE  LET q == [conn[c] EXCEPT !.pc = "dead"] IN q \in ConnRec /\ q.by = conn[c].by /\ q.pc = "dead" /\ Tracked(q)
  <2>1. PICK o : o = conn[c] OBVIOUS
  <2>2. PICK q : q = [o EXCEPT !.pc = "dead"] OBVIOUS
  <2>3. o \in ConnRec /\ Tracked(o) BY <1>1, <2>1
  <2>4. q \in ConnRec /\ q.by = o.by /\ q.pc = "dead" /\ q.track = o.track /\ q.at = o.at BY <2>2, <2>3 DEF ConnRec, ConnPc
  <2>5. Tracked(q) BY <2>3, <2>4 DEF Tracked
  <2> QED BY <2>1, <2>2, <2>4, <2>5
<1>4. \A c \in Conns : (conn[c].by = b /\ conn[c].pc \in Threaded => c \in Of(b)) /\ (c \in Of(b) => conn[c].by = b)
  BY DEF Of, Alive, Threaded
<1>5. conn' \in [1..Len(conn) -> ConnRec]
      /\ \A c \in Conns : /\ conn'[c].by = conn[c].by /\ Tracked(conn'[c])
                          /\ c \in Of(b) => conn'[c].pc = "dead"
                          /\ c \notin Of(b) => conn'[c] = conn[c]
  BY <1>1, <1>2, <1>3 DEF Broken
<1>6. conn' \in Seq(ConnRec) /\ Conns' = Conns
  <2>1. PICK k \in Nat : k = Len(conn) BY <1>1
  <2>2. conn' \in [1..k -> ConnRec] BY <1>5, <2>1
  <2>3. conn' \in Seq(ConnRec) /\ DOMAIN conn' = 1..k BY <2>2
  <2>4. Len(conn') = k BY <2>1, <2>3
  <2> QED BY <2>1, <2>3, <2>4 DEF Conns
<1>7. On(b)' = {}
  <2>1. \A c \in Conns : ~(conn'[c].by = b /\ conn'[c].pc \in Threaded) BY <1>4, <1>5 DEF Threaded
  <2> QED BY <1>6, <2>1 DEF On
<1>8. ASSUME NEW o \in Instance, o # b PROVE On(o)' = On(o)
  <2>1. \A c \in Conns : (conn'[c].by = o /\ conn'[c].pc \in Threaded) <=> (conn[c].by = o /\ conn[c].pc \in Threaded)
    BY <1>4, <1>5, <1>8
  <2> QED BY <1>6, <2>1 DEF On
<1>9. ASSUME NEW o \in Instance, o # b PROVE ListOf(o)' BY <1>1, <1>2, <1>8, <1>9, ListsStay
<1>10. ListOf(b)'
  <2>1. PICK m : m = <<>> OBVIOUS
  <2>2. m \in Seq(Nat) /\ Len(m) = 0 BY <2>1
  <2>3. Range(m) = {m[i] : i \in 1..0} /\ DOMAIN m = 1..0 BY <2>2, RangeEquality, LenProperties
  <2>4. Range(m) = {} /\ IsInjective(m) BY <2>3 DEF IsInjective
  <2>5. wsList'[b] = m BY <1>1, <1>2, <2>1
  <2> QED BY <1>7, <2>4, <2>5 DEF ListOf
<1>11. ListTypes' BY <1>1, <1>2, <1>5, <1>6 DEF ListInv, ListTypes
<1> QED BY <1>9, <1>10, <1>11 DEF ListInv

LEMMA ListsStep == ASSUME ListInv, lastRun \in Nat, ConnNext PROVE ListInv'
<1>b. run \in [Instance -> Nat] /\ sub \in [ConnSub -> Nat] /\ NoEndpoint \in Nat /\ Elsewhere \in Nat
  BY ConnectionAssumption DEF ListInv, ListTypes, NoEndpoint, Elsewhere
<1> DEFINE Ended == sub' \in [ConnSub -> Nat] /\ \A s \in ConnSub : sub'[s] = sub[s] \/ sub'[s] \in {NoEndpoint, Elsewhere}
<1>a. sub' = sub => Ended BY <1>b
<1>c. ASSUME NEW x, NEW to \in {NoEndpoint, Elsewhere}, sub' = [sub EXCEPT ![x] = to] PROVE Ended BY <1>b, <1>c
<1>1. ASSUME NEW c \in Conns, Take(c) \/ TakeThread(c) \/ Requests(c) \/ RunRespond(c) \/ ReadEnds(c) \/ EndpointLook(c) \/ CloseDelete(c) \/ WsGone(c)
      PROVE  ListInv'
  BY <1>1, TakeLists, ThreadLists, RequestLists, GoneLists
<1>2. ASSUME NEW s \in ConnSub, HttpRequest(s) PROVE ListInv'
  <2>1. UNCHANGED <<conn, wsList, unlisted, run>> BY <1>2 DEF HttpRequest, hosts, marks
  <2>2. Ended BY <1>2, <1>c DEF HttpRequest
  <2> QED BY <1>b, <2>1, <2>2, OthersLists
<1>3. ASSUME NEW b \in Instance, UpgradeTake(b) PROVE ListInv' BY <1>3, UpgradeLists
<1>4. ASSUME NEW b \in Instance, RunsBeat(b) PROVE ListInv'
  <2>1. UNCHANGED <<run, sub, wsList, unlisted>> /\ (conn' = conn \/ conn' = Dropped(b))
    BY <1>4 DEF RunsBeat, BeatFails, BeatWritten, hosts, marks
  <2>2. CASE conn' = conn BY <1>a, <1>b, <2>1, <2>2, OthersLists
  <2> QED BY <2>1, <2>2, ToldLists
<1>5. ASSUME NEW b \in Instance, DocQuery(b) \/ LeftoversWalk(b) \/ LeftoversDeleted(b) \/ DocsDelete(b) PROVE ListInv'
  <2>1. UNCHANGED <<run, sub, wsList, conn, unlisted>> BY <1>5 DEF DocQuery, LeftoversWalk, LeftoversDeleted, DocsDelete, hosts, marks
  <2> QED BY <1>a, <1>b, <2>1, OthersLists
<1>6. ASSUME NEW b \in Instance, LeftoverDelete(b) PROVE ListInv'
  <2>1. UNCHANGED <<run, wsList, conn, unlisted>> /\ \E s \in sweep[b].todo : sub' = sub \/ sub' = [sub EXCEPT ![s] = NoEndpoint]
    BY <1>6 DEF LeftoverDelete, hosts
  <2>2. Ended BY <1>a, <1>c, <2>1
  <2> QED BY <1>b, <2>1, <2>2, OthersLists
<1>d. ASSUME NEW r \in Nat, NEW b \in Instance PROVE [run EXCEPT ![b] = r] \in [Instance -> Nat] BY <1>b
<1>7. ASSUME NEW b \in Instance, Start(b) PROVE ListInv'
  <2>1. UNCHANGED <<sub, wsList, conn, unlisted>> /\ run' = [run EXCEPT ![b] = lastRun + 1] BY <1>7 DEF Start, marks
  <2> QED BY <1>a, <1>b, <1>d, <2>1, OthersLists
<1>8. ASSUME NEW b \in Instance, Serve(b) \/ CutOff(b) \/ Reached(b) PROVE ListInv'
  <2>1. UNCHANGED <<run, sub, wsList, conn, unlisted>> BY <1>8 DEF Serve, CutOff, Reached, hosts, marks
  <2> QED BY <1>a, <1>b, <2>1, OthersLists
<1>9. ASSUME NEW b \in Instance, TransportStop(b) PROVE ListInv'
  <2>1. UNCHANGED <<run, sub, wsList, unlisted>> /\ conn' = Dropped(b) BY <1>9 DEF TransportStop, marks
  <2> QED BY <2>1, ToldLists
<1>10. ASSUME NEW b \in Instance, TransportRunsStop(b) \/ Kill(b) PROVE ListInv' BY <1>10, DownLists DEF TransportRunsStop, Kill
<1>11. ASSUME NEW r \in Run, Age(r) PROVE ListInv'
  <2>1. UNCHANGED <<run, sub, wsList, conn, unlisted>> BY <1>11 DEF Age, hosts, marks
  <2> QED BY <1>a, <1>b, <2>1, OthersLists
<1> QED BY <1>1, <1>2, <1>3, <1>4, <1>5, <1>6, <1>7, <1>8, <1>9, <1>10, <1>11 DEF ConnNext

\* Runs are numbered as they start, and no beat is of a run there was not
LEMMA RunsStep == ASSUME RunBounds, ConnNext PROVE RunBounds'
<1>0. MaxRun \in Nat BY ConnectionAssumption
<1>1. CASE UNCHANGED <<up, run, lastRun, beats, aged>> BY <1>1 DEF RunBounds
<1>2. ASSUME NEW b \in Instance, RunsBeat(b) PROVE RunBounds'
  <2>1. UNCHANGED <<up, run, lastRun>> /\ up[b] # "down" BY <1>2 DEF RunsBeat, hosts
  <2>2. run[b] \in Run BY <2>1 DEF RunBounds, Run
  <2>3. (UNCHANGED <<beats, aged>>) \/ (beats' = beats \cup {run[b]} /\ aged' = aged \ {run[b]})
    BY <1>2 DEF RunsBeat, BeatFails, BeatWritten
  <2>4. beats' \subseteq Run /\ aged' \subseteq Run BY <2>2, <2>3 DEF RunBounds
  <2> QED BY <2>1, <2>4 DEF RunBounds
<1>3. ASSUME NEW b \in Instance, DocsDelete(b) PROVE RunBounds'
  <2>1. UNCHANGED <<up, run, lastRun, aged>> /\ beats' \subseteq beats BY <1>3 DEF DocsDelete, hosts
  <2> QED BY <2>1 DEF RunBounds
<1>4. ASSUME NEW b \in Instance, Start(b) PROVE RunBounds'
  <2>1. /\ up' = [up EXCEPT ![b] = "starting"] /\ lastRun < MaxRun /\ lastRun' = lastRun + 1 /\ run' = [run EXCEPT ![b] = lastRun + 1]
        /\ UNCHANGED <<beats, aged>>
    BY <1>4 DEF Start
  <2>2. lastRun + 1 \in 0..MaxRun /\ lastRun + 1 # 0 BY <1>0, <2>1 DEF RunBounds
  <2> QED BY <2>1, <2>2 DEF RunBounds
<1>5. ASSUME NEW b \in Instance, Serve(b) \/ TransportStop(b) PROVE RunBounds'
  <2>1. /\ up[b] # "down" /\ \E x \in {"serving", "stopping"} : up' = [up EXCEPT ![b] = x]
        /\ UNCHANGED <<run, lastRun, beats, aged>>
    BY <1>5 DEF Serve, TransportStop, beatVars
  <2> QED BY <2>1 DEF RunBounds
<1>6. ASSUME NEW b \in Instance, TransportRunsStop(b) \/ Kill(b) PROVE RunBounds'
  <2>1. /\ up' = [up EXCEPT ![b] = "down"] /\ run' = [run EXCEPT ![b] = 0] /\ UNCHANGED <<lastRun, aged>> /\ beats' \subseteq beats
    BY <1>6 DEF TransportRunsStop, Kill, Down
  <2>2. 0 \in 0..MaxRun BY <1>0
  <2> QED BY <2>1, <2>2 DEF RunBounds
<1>7. ASSUME NEW r \in Run, Age(r) PROVE RunBounds'
  <2>1. UNCHANGED <<up, run, lastRun, beats>> /\ aged' = aged \cup {r} BY <1>7 DEF Age, hosts
  <2> QED BY <2>1 DEF RunBounds
<1>8. ASSUME NEW c \in Conns, Take(c) \/ TakeThread(c) \/ Requests(c) \/ RunRespond(c) \/ ReadEnds(c) \/ EndpointLook(c) \/ CloseDelete(c) \/ WsGone(c)
      PROVE  UNCHANGED <<up, run, lastRun, beats, aged>>
  BY <1>8 DEF Take, TakeThread, Requests, HostMessage, RunRespond, ReadEnds, EndpointLook, CloseDelete, WsGone, hosts, beatVars
<1>9. ASSUME NEW b \in Instance, UpgradeTake(b) \/ DocQuery(b) \/ LeftoversWalk(b) \/ LeftoverDelete(b) \/ LeftoversDeleted(b) \/ CutOff(b) \/ Reached(b)
      PROVE  UNCHANGED <<up, run, lastRun, beats, aged>>
  BY <1>9 DEF UpgradeTake, DocQuery, LeftoversWalk, LeftoverDelete, LeftoversDeleted, CutOff, Reached, hosts, beatVars
<1>10. ASSUME NEW s \in ConnSub, HttpRequest(s) PROVE UNCHANGED <<up, run, lastRun, beats, aged>>
  BY <1>10 DEF HttpRequest, hosts, beatVars
<1> QED BY <1>1, <1>2, <1>3, <1>4, <1>5, <1>6, <1>7, <1>8, <1>9, <1>10 DEF ConnNext

\* A list without repeats is as long as it has connections
LEMMA ListLength ==
  ASSUME NEW l \in Seq(Nat), IsInjective(l)
  PROVE  Cardinality({l[n] : n \in 1..Len(l)}) = Len(l)
<1>1. Len(l) \in Nat /\ DOMAIN l = 1..Len(l) /\ Range(l) = {l[n] : n \in 1..Len(l)} BY LenProperties, RangeEquality
<1>2. PICK k \in Nat : k = Len(l) BY <1>1
<1>3. l \in [1..k -> Range(l)] /\ l \in Surjection(1..k, Range(l))
  <2>1. l \in [1..k -> Nat] BY <1>2, LenProperties
  <2>2. l \in Surjection(1..k, Range(l)) BY <2>1, Fun_RangeProperties
  <2> QED BY <2>2 DEF Surjection
<1>4. l \in Injection(1..k, Range(l)) BY <1>1, <1>2, <1>3 DEF IsInjective, Injection
<1>5. IsFiniteSet(1..k) /\ Cardinality(1..k) = k BY FS_Interval
<1>6. Cardinality(Range(l)) = k BY <1>3, <1>4, <1>5, FS_Surjection
<1> QED BY <1>1, <1>2, <1>6

\* A broker's list of its WebSocket connections has each of them once and none that was freed, and all that are open -
\* but for those that were cut from it with one whose thread could not be made (wsTake); every subscription notifies a
\* connection there has been, or something else, or is gone; beats are of runs that started. Whether deletions lag or not
THEOREM ConnTypesCorrect == ConnSpec => []ConnTypeOK
<1>1. ConnInit => ListInv /\ RunBounds
  <2> SUFFICES ASSUME ConnInit PROVE ListInv /\ RunBounds OBVIOUS
  <2>1. /\ conn = <<>> /\ wsList = [b \in Instance |-> <<>>] /\ sub = [s \in ConnSub |-> NoEndpoint] /\ run = [b \in Instance |-> 0]
        /\ up = [b \in Instance |-> "down"] /\ lastRun = 0 /\ beats = {} /\ aged = {}
    BY DEF ConnInit
  <2>2. conn \in Seq(ConnRec) /\ Conns = {} BY <2>1 DEF Conns
  <2>3. ListTypes BY <2>1, <2>2 DEF ListTypes, NoEndpoint
  <2>4. ASSUME NEW b \in Instance PROVE ListOf(b)
    <3>1. PICK m : m = <<>> OBVIOUS
    <3>2. m \in Seq(Nat) /\ Len(m) = 0 BY <3>1
    <3>3. Range(m) = {m[i] : i \in 1..0} /\ DOMAIN m = 1..0 BY <3>2, RangeEquality, LenProperties
    <3>4. Range(m) = {} /\ IsInjective(m) BY <3>3 DEF IsInjective
    <3>5. wsList[b] = m BY <2>1, <3>1
    <3>6. On(b) = {} BY <2>2 DEF On
    <3> QED BY <3>4, <3>5, <3>6 DEF ListOf
  <2>5. RunBounds BY <2>1, ConnectionAssumption DEF RunBounds
  <2> QED BY <2>3, <2>4, <2>5 DEF ListInv
<1>2. ListInv /\ RunBounds /\ [ConnNext]_connVars => (ListInv /\ RunBounds)'
  <2> SUFFICES ASSUME ListInv, RunBounds, [ConnNext]_connVars PROVE (ListInv /\ RunBounds)' OBVIOUS
  <2>1. CASE UNCHANGED connVars
    <3>1. UNCHANGED <<conn, wsList, unlisted, run, sub, up, lastRun, beats, aged>> BY <2>1 DEF connVars
    <3>2. ListInv' BY <3>1, OthersLists DEF ListInv, ListTypes
    <3> QED BY <3>1, <3>2 DEF RunBounds
  <2>2. CASE ConnNext BY <2>2, ListsStep, RunsStep DEF RunBounds
  <2> QED BY <2>1, <2>2
<1>3. ListInv /\ RunBounds => ConnTypeOK
  <2> SUFFICES ASSUME ListInv, RunBounds PROVE ConnTypeOK OBVIOUS
  <2>1. \A s \in ConnSub : sub[s] \in 0..Len(conn) \cup {Elsewhere}
    <3>1. Len(conn) \in Nat /\ Conns = 1..Len(conn) BY DEF ListInv, ListTypes, Conns
    <3> QED BY <3>1 DEF ListInv, ListTypes, NoEndpoint
  <2>2. ASSUME NEW b \in Instance
        PROVE  /\ Cardinality({wsList[b][n] : n \in 1..Len(wsList[b])}) = Len(wsList[b])
               /\ {c \in Of(b) : conn[c].pc \in {"open", "ending"}} \ unlisted \subseteq {wsList[b][n] : n \in 1..Len(wsList[b])}
    <3>1. PICK l : l = wsList[b] OBVIOUS
    <3>2. l \in Seq(Nat) /\ IsInjective(l) /\ On(b) \ unlisted \subseteq Range(l) BY <3>1 DEF ListInv, ListTypes, ListOf
    <3>3. Cardinality({l[n] : n \in 1..Len(l)}) = Len(l) /\ Range(l) = {l[n] : n \in 1..Len(l)} BY <3>2, ListLength, RangeEquality
    <3>4. {c \in Of(b) : conn[c].pc \in {"open", "ending"}} \subseteq On(b) BY DEF Of, On, Threaded
    <3> QED BY <3>1, <3>2, <3>3, <3>4
  <2> QED BY <2>1, <2>2 DEF RunBounds, ConnTypeOK
<1> QED BY <1>1, <1>2, <1>3, PTL DEF ConnSpec

=============================================================================
