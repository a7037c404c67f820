------------------------------ MODULE MCParts ------------------------------
(* Six parts that share no state in their modules, checked one at a time:  *)
(* "focus" is the part that moves.                                         *)
EXTENDS EntityWrite, BridgeRequests, TimescalePool, Sse, Snapshots, TroeWriter

CONSTANTS r1, r2, s1, s2

VARIABLE focus

\* coraine-import: the history writers where each unit is waited for; units of one byte, but for those of Bad: two
ImportBytes(S) == Cardinality(S) + Cardinality(S \cap Bad)

partsVars == <<focus, entityVars, bridgeVars, poolVars, sseVars, snapVars, vars>>

-----------------------------------------------------------------------------
\* Requests on an entity: any two, and a third of a few kinds
ThirdOp == {"create", "patchEntity"}

EntityMoves ==
  /\ EntityNext
  /\ Len(call') = 3 => \A r \in 1..3 : call'[r].op \in ThirdOp

\* Requests on bound attributes: what the first and the second send, and how
Sends(r) ==
  IF r = r1
  THEN {<<{"svc"}, "set", TRUE>>, <<{"svc", "act"}, "set", FALSE>>, <<{"svc"}, "merge", TRUE>>, <<{"act", "top"}, "merge", FALSE>>}
  ELSE {<<{"svc"}, "merge", TRUE>>, <<{"act"}, "set", FALSE>>}

BridgeMoves ==
  /\ BridgeNext
  /\ \A r \in Caller : ask[r].pc = "idle" /\ ask'[r].pc # "idle" => <<ask'[r].frag, ask'[r].route, ask'[r].wait>> \in Sends(r)
  /\ ask'[r1].frag = {"svc", "act"} => ask'[r2].frag # {"act"}

\* Two streams, of which one is notified, left by its client and deleted; killed with a subscription in the store
SseMoves ==
  /\ SseNext /\ made'[s2] = 0 /\ s2 \notin gone' /\ deleter'["client"].sub # s2
  /\ kills' > kills => stored # {}

-----------------------------------------------------------------------------
PartsInit ==
  /\ focus \in {"entities", "bridge", "pool", "streams", "snapshots", "import"}
  /\ EntityInit /\ (focus # "entities" => doc = NoEntity)
  /\ BridgeInit /\ PoolInit /\ SseInit /\ SnapInit /\ Init

PartsNext ==
  \/ focus = "entities" /\ EntityMoves /\ UNCHANGED <<focus, bridgeVars, poolVars, sseVars, snapVars, vars>>
  \/ focus = "bridge" /\ BridgeMoves /\ UNCHANGED <<focus, entityVars, poolVars, sseVars, snapVars, vars>>
  \/ focus = "pool" /\ PoolNext /\ UNCHANGED <<focus, entityVars, bridgeVars, sseVars, snapVars, vars>>
  \/ focus = "streams" /\ SseMoves /\ UNCHANGED <<focus, entityVars, bridgeVars, poolVars, snapVars, vars>>
  \/ focus = "snapshots" /\ SnapNext /\ UNCHANGED <<focus, entityVars, bridgeVars, poolVars, sseVars, vars>>
  \/ focus = "import" /\ Next /\ UNCHANGED <<focus, entityVars, bridgeVars, poolVars, sseVars, snapVars>>

\* A part that is not in focus owes nothing
PartsFairness ==
  \A r \in Caller : SF_bridgeVars(focus = "bridge" /\ RequestRuns(r)) /\ SF_bridgeVars(focus = "bridge" /\ PluginThread(r))

PartsSpec == PartsInit /\ [][PartsNext]_partsVars /\ PartsFairness

\* Types, of every part
PartsTypeOK == EntityTypeOK /\ BridgeTypeOK /\ PoolTypeOK /\ SseTypeOK /\ SnapTypeOK

=============================================================================
