----------------------------- MODULE TroeHistory -----------------------------
(***************************************************************************)
(* What the TRoE writers promise, without queue, threads or transactions:  *)
(* a unit taken has one outcome, later; none is lost unless the database   *)
(* goes away or the broker stops; and a reader goes on when every unit     *)
(* taken before it has its outcome, or when the database went away.        *)
(* (src/src/plugins/temporal/timescale/timescaleWriter.h)                  *)
(***************************************************************************)
CONSTANTS Unit, Reader

VARIABLES
  taken,    \* the units the writers answer for
  fate,     \* "none", or a unit's outcome
  trouble,  \* the database has been away, or the broker stops
  reading,  \* "new", "waiting", "served" with the history, "released" without a promise, "done"
  owed,     \* what was taken before a reader came
  quiet     \* no outage began since a reader came

vars == <<taken, fate, trouble, reading, owed, quiet>>

Init ==
  /\ taken = {} /\ fate = [u \in Unit |-> "none"] /\ trouble = FALSE
  /\ reading = [r \in Reader |-> "new"] /\ owed = [r \in Reader |-> {}]
  /\ quiet = [r \in Reader |-> TRUE]

Held == {u \in taken : fate[u] = "none"}

\* A unit handed over
Take(u) ==
  /\ u \notin taken /\ fate[u] = "none"
  /\ taken' = taken \cup {u}
  /\ UNCHANGED <<fate, trouble, reading, owed, quiet>>

\* A unit not taken: lost, told, or written by its caller
TurnAway(u) ==
  /\ u \notin taken /\ fate[u] = "none" /\ trouble
  /\ \E f \in {"ok", "err", "lost"} : fate' = [fate EXCEPT ![u] = f]
  /\ UNCHANGED <<taken, trouble, reading, owed, quiet>>

Outcomes == {"ok", "err"} \cup (IF trouble THEN {"lost"} ELSE {})

\* A batch ends; an outage may begin with it
Settle ==
  /\ \E S \in SUBSET Held :
       \E f \in [S -> Outcomes] : fate' = [u \in Unit |-> IF u \in S THEN f[u] ELSE fate[u]]
  /\ \/ quiet' = quiet
     \/ trouble /\ quiet' = [r \in Reader |-> FALSE]
  /\ UNCHANGED <<taken, trouble, reading, owed>>

Trouble == trouble' = TRUE /\ UNCHANGED <<taken, fate, reading, owed, quiet>>

\* A reader comes: served at once if nothing is held, or if it is during an outage sent on
Come(r) ==
  /\ reading[r] = "new"
  /\ owed' = [owed EXCEPT ![r] = taken]
  /\ quiet' = [quiet EXCEPT ![r] = TRUE]
  /\ reading' = [reading EXCEPT ![r] = IF Held = {} THEN "served" ELSE "waiting"]
  /\ UNCHANGED <<taken, fate, trouble>>

ComeDown(r) ==
  /\ reading[r] = "new" /\ trouble
  /\ owed' = [owed EXCEPT ![r] = taken]
  /\ quiet' = [quiet EXCEPT ![r] = TRUE]
  /\ reading' = [reading EXCEPT ![r] = "released"]
  /\ UNCHANGED <<taken, fate, trouble>>

\* All that was taken before it has its outcome
Serve(r) ==
  /\ reading[r] = "waiting" /\ owed[r] \cap Held = {}
  /\ reading' = [reading EXCEPT ![r] = "served"]
  /\ UNCHANGED <<taken, fate, trouble, owed, quiet>>

\* An outage began while it waited
Release(r) ==
  /\ reading[r] = "waiting" /\ ~quiet[r]
  /\ \E how \in {"served", "released"} : reading' = [reading EXCEPT ![r] = how]
  /\ UNCHANGED <<taken, fate, trouble, owed, quiet>>

Done(r) ==
  /\ reading[r] \in {"served", "released"}
  /\ reading' = [reading EXCEPT ![r] = "done"]
  /\ UNCHANGED <<taken, fate, trouble, owed, quiet>>

Next ==
  \/ \E u \in Unit : Take(u) \/ TurnAway(u)
  \/ Settle \/ Trouble
  \/ \E r \in Reader : Come(r) \/ ComeDown(r) \/ Serve(r) \/ Release(r) \/ Done(r)

Spec == Init /\ [][Next]_vars
=============================================================================
