------------------------------ MODULE MCHaSync ------------------------------
(* Brokers on one database, three parts of them checked one at a time: the *)
(* caches of subscriptions and registrations, the connections, and what a  *)
(* broker makes of its registrations when an entity is written.            *)
EXTENDS HaSync, Connections, MCForwarding

CONSTANTS b1, b2

VARIABLE focus

-----------------------------------------------------------------------------
\* Caches: one record at a time - what a broker does about a record asks nothing of another one
OneRecord(ids) == \A i \in ids, j \in ids : i = j
CachesMove == HaSyncNext /\ OneRecord({req'[r].id : r \in DOMAIN req'} \cup {i \in Id : db[i] # NoDoc})

\* Connections: one at a time and one sweep at a time on the brokers of one database, b1 the first to start
ConnectionsMove ==
  /\ ConnNext
  /\ ha => /\ Len(conn') <= 1
           /\ \A b \in Instance : \A o \in Instance \ {b} : sweep'[b].pc = "idle" \/ sweep'[o].pc \in {"idle", "first"}
  /\ run'[b1] # 2 /\ run'[b2] # 1

\* Forwards: the threads are interchangeable - the second starts beside the first; a second request, of one kind,
\* meets one registration
ForwardsMove ==
  /\ ForwardingNext
  /\ regCall'[b2].pc # "idle" => regCall[b2].pc # "idle" \/ regCall[b1].pc # "idle"
  /\ Len(write') = 2 =>
       /\ UNCHANGED regVars /\ made <= 1 /\ write'[1].op = "patchEntityAttrs"
       /\ write'[2].op = "batchUpsert" /\ write'[2].want = {"a"}

-----------------------------------------------------------------------------
Init ==
  /\ focus \in {"caches", "connections", "forwards"}
  /\ HaSyncInit /\ OneRecord({i \in Id : db[i] # NoDoc}) /\ (focus # "caches" => \A i \in Id : db[i] = NoDoc)
  /\ ConnInit /\ (focus # "connections" => ha)
  /\ ForwardingInit /\ (there => focus = "forwards" /\ data["b"] # Absent)

Next ==
  \/ focus = "caches" /\ CachesMove /\ UNCHANGED <<focus, connVars, fwdVars>>
  \/ focus = "connections" /\ ConnectionsMove /\ UNCHANGED <<focus, haVars, fwdVars>>
  \/ focus = "forwards" /\ ForwardsMove /\ UNCHANGED <<focus, haVars, connVars>>

\* The caches' fairness: in another focus they do not move, and owe nothing
Spec == Init /\ [][Next]_<<focus, haVars, connVars, fwdVars>> /\ HaSyncFairness

\* Types, of all parts
HaTypesOK == HaSyncTypeOK /\ ConnTypeOK /\ ForwardingTypeOK

=============================================================================
