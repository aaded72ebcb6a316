------------------------------- MODULE Lifecycle -------------------------------
(***************************************************************************)
(* What the cluster state machine promises, without Kubernetes, YTsaurus or *)
(* failures: the diagram of states of docs/guide.md, and sessions of update. *)
(* A session fixes the components under update when it begins; until it is   *)
(* closed only these components get a new version, and outside a session    *)
(* none does, except for the first.                                         *)
(***************************************************************************)
EXTENDS Naturals

CONSTANTS Components, Versions

VARIABLES
  state,    \* status.state
  session,  \* components under update
  deployed  \* version that each component is deployed at, 0 for none

vars == <<state, session, deployed>>

Checking == {"Preparing", "Running", "Maintenance", "UpdateBlocked"}

Init ==
  /\ state = "Created"
  /\ session = {}
  /\ deployed = [c \in Components |-> 0]

(* Arrows of the diagram that do not concern an update.                      *)
Arrow(from, to) ==
  \/ from = "Created" /\ to = "Initializing"
  \/ from \in {"Initializing", "Reconfiguration"} /\ to = "Preparing"
  \/ from \in Checking /\ to \in {"Running", "Maintenance", "Reconfiguration", "UpdateBlocked"}
  \/ from = "Running" /\ to = "Preparing"

Move ==
  /\ Arrow(state, state')
  /\ UNCHANGED <<session, deployed>>

Install ==
  /\ \E first \in [Components -> Versions \cup {0}] :
       deployed' = [c \in Components |-> IF deployed[c] = 0 THEN first[c] ELSE deployed[c]]
  /\ UNCHANGED <<state, session>>

Begin ==
  /\ state \in Checking
  /\ \E chosen \in SUBSET Components \ {{}} : session' = chosen
  /\ state' = "Updating"
  /\ UNCHANGED deployed

Deploy ==
  /\ state = "Updating"
  /\ \E next \in [session -> Versions] :
       deployed' = [c \in Components |-> IF c \in session THEN next[c] ELSE deployed[c]]
  /\ UNCHANGED <<state, session>>

End ==
  /\ state = "Updating"
  /\ state' \in {"UpdateFinished", "UpdateCanceled"}
  /\ UNCHANGED <<session, deployed>>

Close ==
  /\ state \in {"UpdateFinished", "UpdateCanceled"}
  /\ state' = "Preparing"
  /\ session' = {}
  /\ UNCHANGED deployed

Next == Move \/ Install \/ Begin \/ Deploy \/ End \/ Close

Spec == Init /\ [][Next]_vars
===============================================================================
