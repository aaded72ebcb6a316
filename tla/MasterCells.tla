------------------------------ MODULE MasterCells ------------------------------
(***************************************************************************)
(* Extension of a cluster with secondary master cells (Master.Sync in       *)
(* pkg/components/master.go, masterMaintenanceFlow in                        *)
(* controllers/update_flow_steps.go), and the assignment of cell roles.      *)
(*                                                                         *)
(* The cluster is under maintenance with shutdown ExceptMasters throughout.  *)
(* New cells appear in the specification with no instances, are marked       *)
(* unregistered, get instances, and are then brought in by three updates     *)
(* (passes) which hand over to each other through the status conditions      *)
(* MasterCellsPreparation, ...Registration and ...Completion.                *)
(*                                                                         *)
(* Scripts are run by an init job; what a job does about lost writes and     *)
(* failures of its own is the subject of InitJob, and ScriptRun is what is   *)
(* used of it here: a script runs in its own step, and the step is confirmed *)
(* after that.                                                               *)
(***************************************************************************)
EXTENDS UpdateFlow

CONSTANTS
  Cells,    \* secondary master cells
  Patient,  \* instances are added and roles changed in state Maintenance only, as
            \* docs/guide.md has it
  MaxRoles  \* bound: versions of the roles of master cells

ASSUME MasterCellsAssumption == Patient \in BOOLEAN /\ MaxRoles \in Nat \ {0}

Primary == "primary"
Masters == Cells \cup {Primary}

VARIABLES
  cr,    \* the Ytsaurus resource: specification and status
  old,   \* the resource before the last write, as a stale cache has it
  job,   \* the job of the primary master
  pods,  \* StatefulSets and pods of the masters
  yt     \* what the masters have agreed on

vars == <<cr, old, job, pods, yt>>

NoJob == [step |-> "None", cells |-> {}, present |-> {}, roles |-> 0, ran |-> FALSE]

Init ==
  /\ cr = [present |-> {}, initiated |-> {}, assign |-> FALSE, roles |-> 1,
           observed |-> TRUE, state |-> "Maintenance", step |-> "None", done |-> {},
           passes |-> {}, batch |-> {}, open |-> {}, unregistered |-> {},
           initialized |-> "Assigned"]
  /\ old = cr
  /\ job = NoJob
  /\ pods = [on |-> {Primary}, up |-> {Primary},
             config |-> [m \in Masters |-> {}], knows |-> [m \in Masters |-> {}]]
  /\ yt = [lock |-> FALSE, refresh |-> TRUE, readOnly |-> FALSE, registered |-> {},
           dynamic |-> {}, snapshot |-> {}, roles |-> 1, holders |-> {}, cached |-> {}]

-----------------------------------------------------------------------------
(* A status write may be lost, and one that is based on a stale copy is       *)
(* refused.                                                                   *)
Save(v, new, write) ==
  /\ cr' = IF write /\ v = cr THEN new ELSE cr
  /\ old' = IF cr' = cr THEN old ELSE cr

(* MasterServer configs list every secondary cell with instances, registered  *)
(* or not; clients know the registered ones only.                             *)
MasterConfig(v) == v.initiated
ClientConfig(v) == v.initiated \ v.unregistered

(* Cells that a master component would mark unregistered, and cells that wait *)
(* for somebody to start the extension.                                       *)
Unmarked(v) == v.present \ (v.initiated \cup v.unregistered)
Waiting(v) ==
  IF v.open \cap {"Preparation", "Registration"} = {} THEN v.initiated \cap v.unregistered ELSE {}

(* setInstanceCount(0): new instances start when registration is open.        *)
DesiredAtOnce(v) == {Primary} \cup v.initiated
Desired(v) ==
  {Primary} \cup {c \in v.initiated : c \in v.unregistered => "Registration" \in v.open}

Existing(v) == {Primary} \cup v.present
NeedSync(v, m) == m \in Desired(v) <=> m \notin pods.on
Running(v, m) ==
  /\ m \notin Unmarked(v) \cup Waiting(v)
  /\ ~NeedSync(v, m)
  /\ m \in pods.up <=> m \in Desired(v)

(* assignMasterCellsRoles starts the passes, once.                            *)
AssignRoles(v) ==
  IF v.assign /\ v.initialized \notin {"Assignment", "AssignmentDone"}
  THEN [v EXCEPT !.initialized = "Assignment", !.open = @ \cup {"Preparation"}]
  ELSE IF ~v.assign /\ v.initialized = "AssignmentDone"
  THEN [v EXCEPT !.initialized = "Assigned"]
  ELSE v

(* What Sync records about cells.                                             *)
MarkCells(v) ==
  [v EXCEPT !.unregistered = @ \cup Unmarked(v),
            !.open = @ \cup IF Waiting(v) # {} THEN {"Preparation"} ELSE {}]

(* doServerSync of those among ms whose replicas are not right.               *)
Synced(v, ms) ==
  LET changed == {m \in ms : NeedSync(v, m)} IN
  [pods EXCEPT !.on = (@ \ changed) \cup (changed \cap Desired(v)),
               !.config = [m \in Masters |-> IF m \in changed \cap Desired(v)
                                             THEN MasterConfig(v) ELSE @[m]]]

-----------------------------------------------------------------------------
(* Preparing, Running, Maintenance: NeedUpdate of each master, Sync of those  *)
(* that do not need one, then the choice of the next state.  When Sync of a   *)
(* master opens the preparation, the ones that come after it need an update.  *)
ConfigChanged(v, m) ==
  m \in ({Primary} \cup v.initiated) \ v.unregistered /\ pods.config[m] # MasterConfig(v)
NeedUpdateOfConfig(v) == {m \in Existing(v) : ConfigChanged(v, m)}
NeedUpdate(v) ==
  {m \in Existing(v) : v.open # {} \/ ConfigChanged(v, m)}

Begin(v, batch) ==
  [v EXCEPT !.state = "Updating", !.step = "None", !.done = {}, !.passes = v.open,
            !.batch = batch]

IsReadyToUpdate(v) == v.state \in {"Preparing", "Maintenance"}

ApplyUpdatePlan(v, write) ==
  LET w == IF NeedUpdate(v) = Existing(v) THEN [v EXCEPT !.observed = TRUE]
           ELSE [AssignRoles(v) EXCEPT !.observed = TRUE] IN
  /\ IsReadyToUpdate(v)
  /\ IF \E m \in Existing(v) \ NeedUpdate(v) : ~Running(v, m)
     THEN Save(v, [w EXCEPT !.state = "Reconfiguration"], write)
     ELSE IF w.open = v.open
     THEN Save(v, IF NeedUpdate(v) = {} THEN [w EXCEPT !.state = "Maintenance"]
                  ELSE Begin(w, NeedUpdate(v)), write)
     ELSE \E first \in v.present : Save(v, Begin(w, Existing(v) \ {first}), write)
  /\ UNCHANGED <<job, pods, yt>>

(* Reconfiguration: all masters are synced until all of them run.             *)
Reconfigure(v, write) ==
  LET w == AssignRoles(MarkCells(v)) IN
  /\ v.state = "Reconfiguration"
  /\ IF \A m \in Existing(v) : Running(v, m)
     THEN Save(v, [AssignRoles(v) EXCEPT !.state = "Preparing"], write) /\ UNCHANGED pods
     ELSE /\ pods' = Synced(v, Existing(v) \ Unmarked(v))
          /\ Save(v, w, write)
  /\ UNCHANGED <<job, yt>>

-----------------------------------------------------------------------------
(* Updating.                                                                  *)
Flow(v) ==
  [kinds |-> {"Master"}, heater |-> FALSE, shutdown |-> "ExceptMasters", hot |-> FALSE,
   removeCells |-> FALSE, passes |-> v.passes]

At(v, step) == v.state = "Updating" /\ v.step = step
Done(v, condition) == [v EXCEPT !.done = @ \cup {condition}]

Passed(v) ==
  CASE v.step \in {"None", "WaitingForPodsCreation"} -> TRUE
    [] v.step = "WaitingForMasterReady" -> \A m \in v.batch \cap Existing(v) : Running(v, m)
    [] OTHER -> v.step \in v.done

Advance(v, write) ==
  /\ v.state = "Updating" /\ Passed(v)
  /\ \/ \E next \in FlowSteps(Flow(v)) :
          Follows(Flow(v), v.step, next) /\ Save(v, [v EXCEPT !.step = next], write)
     \/ IsLast(Flow(v), v.step) /\ Save(v, [v EXCEPT !.state = "UpdateFinished"], write)
  /\ job' = IF cr' = cr THEN job ELSE NoJob
  /\ UNCHANGED <<pods, yt>>

(* ClearUpdateStatus keeps MasterCellsMaintenance.                            *)
FinishUpdate(v, write) ==
  /\ v.state = "UpdateFinished"
  /\ Save(v, [v EXCEPT !.state = "Preparing", !.step = "None", !.done = {}, !.passes = {},
                       !.batch = {}], write)
  /\ UNCHANGED <<job, pods, yt>>

(* Pods are removed, and started again with new configs when masters are to   *)
(* get ready; new cells are started while their registration is waited for.   *)
RemovePods(v, write) ==
  /\ At(v, "WaitingForPodsRemoval") /\ v.step \notin v.done
  /\ pods' = IF "PodsRemovingStarted" \in v.done THEN pods ELSE [pods EXCEPT !.on = @ \ v.batch]
  /\ Save(v, IF "PodsRemovingStarted" \notin v.done THEN Done(v, "PodsRemovingStarted")
             ELSE IF pods.up \cap v.batch = {} THEN Done(v, v.step) ELSE v, write)
  /\ UNCHANGED <<job, yt>>

StartMastersWhenReady(v, write) ==
  /\ At(v, "WaitingForMasterReady")
  /\ pods' = Synced(v, (v.batch \cap Existing(v)) \ Unmarked(v))
  /\ ~Passed(v)
  /\ Save(v, AssignRoles(MarkCells(v)), write)
  /\ UNCHANGED <<job, yt>>
StartMasters(v, write) ==
  /\ \/ At(v, "WaitingForMasterReady") /\ pods' = Synced(v, (v.batch \cap Existing(v)) \ Unmarked(v))
     \/ /\ At(v, "WaitingForMasterCellsRegistration")
        /\ pods' = Synced(v, (v.batch \cap v.present) \ Unmarked(v))
  /\ ~Passed(v)
  /\ Save(v, IF v.batch \cap Existing(v) = {} THEN v ELSE AssignRoles(MarkCells(v)), write)
  /\ UNCHANGED <<job, yt>>

-----------------------------------------------------------------------------
(* Scripts of the primary master: the config of the job is made when the job  *)
(* is, from the resource as it is then.                                       *)
ScriptSteps ==
  {"WaitingForMasterCellsPreparation", "WaitingForMasterCellsRegistration",
   "WaitingForMasterCellsEnterReadOnly", "WaitingForMasterCellsExitReadOnly",
   "WaitingForMasterCellsSettlement", "WaitingForMasterCellsCompletion"}

StartScript(v, write) ==
  /\ v.state = "Updating" /\ v.step \in ScriptSteps \ v.done /\ v = cr
  /\ job = NoJob /\ write
  /\ job' = [step |-> v.step, ran |-> FALSE, roles |-> v.roles, present |-> v.present,
             cells |-> IF v.step = "WaitingForMasterCellsRegistration"
                       THEN MasterConfig(v) ELSE ClientConfig(v)]
  /\ UNCHANGED <<cr, old, pods, yt>>

(* The callbacks that follow a completed script.                              *)
CompleteForGood(v) ==
  CASE v.step = "WaitingForMasterCellsRegistration" ->
         [v EXCEPT !.unregistered = @ \ v.initiated, !.open = @ \ {"Registration"}]
    [] v.step = "WaitingForMasterCellsSettlement" -> [v EXCEPT !.initialized = "AssignmentDone"]
    [] OTHER -> v
Complete(v) ==
  CASE v.step = "WaitingForMasterCellsRegistration" ->
         [v EXCEPT !.unregistered = @ \ v.initiated, !.open = @ \ {"Registration"}]
    [] v.step = "WaitingForMasterCellsSettlement" ->
         [v EXCEPT !.initialized = "AssignmentDone", !.open = @ \cup {"Completion"}]
    [] v.step = "WaitingForMasterCellsCompletion" ->
         [v EXCEPT !.open = @ \ {"Completion"}]
    [] OTHER -> v

FinishScript(v, write) ==
  /\ v.state = "Updating" /\ v.step \in ScriptSteps \ v.done /\ v = cr
  /\ job.step = v.step /\ job.ran
  /\ Save(v, Done(Complete(v), v.step), write)
  /\ UNCHANGED <<job, pods, yt>>

(* Acception has no script: it closes the preparation and opens registration. *)
Accept(v, write) ==
  /\ At(v, "WaitingForMasterCellsAcception") /\ v.step \notin v.done
  /\ Save(v, Done([v EXCEPT !.open = (@ \ {"Preparation"}) \cup {"Registration"}], v.step), write)
  /\ UNCHANGED <<job, pods, yt>>

Reconcile(v, write) ==
  \/ ApplyUpdatePlan(v, write) \/ Reconfigure(v, write) \/ Advance(v, write)
  \/ FinishUpdate(v, write) \/ RemovePods(v, write) \/ StartMasters(v, write)
  \/ StartScript(v, write) \/ FinishScript(v, write) \/ Accept(v, write)

-----------------------------------------------------------------------------
(* The job's pod runs its script to the end, as often as it takes.            *)
Script ==
  CASE job.step = "WaitingForMasterCellsPreparation" ->
         ~yt.readOnly /\ yt' = [yt EXCEPT !.lock = TRUE, !.refresh = FALSE]
    [] job.step = "WaitingForMasterCellsRegistration" ->
         yt.registered = job.cells /\ UNCHANGED yt
    [] job.step = "WaitingForMasterCellsEnterReadOnly" ->
         /\ job.cells \subseteq pods.up \cap yt.registered
         /\ yt' = [yt EXCEPT !.readOnly = TRUE, !.snapshot = job.cells]
    [] job.step = "WaitingForMasterCellsExitReadOnly" -> yt' = [yt EXCEPT !.readOnly = FALSE]
    [] job.step = "WaitingForMasterCellsSettlement" ->
         /\ ~yt.readOnly /\ yt.lock /\ yt.dynamic = {}
         /\ yt' = [yt EXCEPT !.roles = job.roles, !.holders = job.present, !.cached = pods.up]
    [] job.step = "WaitingForMasterCellsCompletion" ->
         ~yt.readOnly /\ yt' = [yt EXCEPT !.lock = FALSE, !.refresh = TRUE]

RunScript ==
  /\ job # NoJob /\ ~job.ran /\ Primary \in pods.up
  /\ Script
  /\ job' = [job EXCEPT !.ran = TRUE]
  /\ UNCHANGED <<cr, old, pods>>

(* Pods follow their StatefulSets.  Masters restarted from a common snapshot  *)
(* have the cells in it in their static configuration.                        *)
PodsStart(m) ==
  /\ m \in pods.on \ pods.up
  /\ pods' = [pods EXCEPT !.up = @ \cup {m}, !.knows[m] = pods.config[m]]
  /\ yt' = IF m = Primary THEN [yt EXCEPT !.dynamic = @ \ yt.snapshot] ELSE yt
  /\ UNCHANGED <<cr, old, job>>

PodsStop(m) ==
  /\ m \in pods.up \ pods.on
  /\ pods' = [pods EXCEPT !.up = @ \ {m}, !.knows[m] = {}]
  /\ yt' = [yt EXCEPT !.cached = @ \ {m}]
  /\ UNCHANGED <<cr, old, job>>

(* A cell registers at the primary cell when that knows of it.                *)
Register(c) ==
  /\ c \in pods.up \ yt.registered /\ Primary \in pods.up /\ c \in pods.knows[Primary]
  /\ ~yt.readOnly
  /\ yt' = [yt EXCEPT !.registered = @ \cup {c}, !.dynamic = @ \cup {c}]
  /\ UNCHANGED <<cr, old, job, pods>>

-----------------------------------------------------------------------------
(* The administrator's edits, as far as validateMasterSpec lets them through. *)
Edit(new) ==
  /\ cr' = [new EXCEPT !.observed = FALSE] /\ old' = cr
  /\ UNCHANGED <<job, pods, yt>>
InTurn == Patient => cr.state = "Maintenance" /\ cr.observed

AddCells(cs) == cs \cap cr.present = {} /\ Edit([cr EXCEPT !.present = @ \cup cs])
AddInstances(cs) ==
  /\ InTurn /\ cs \subseteq cr.unregistered \ cr.initiated
  /\ Edit([cr EXCEPT !.initiated = @ \cup cs])
ChangeRoles ==
  /\ InTurn /\ cr.present # {} /\ ~cr.assign /\ cr.roles < MaxRoles
  /\ Edit([cr EXCEPT !.assign = TRUE, !.roles = @ + 1])
StopAssigning == InTurn /\ cr.assign /\ Edit([cr EXCEPT !.assign = FALSE])

Next ==
  \/ \E v \in {cr, old}, write \in BOOLEAN : Reconcile(v, write)
  \/ RunScript
  \/ \E m \in Masters : PodsStart(m) \/ PodsStop(m)
  \/ \E c \in Cells : Register(c)
  \/ \E cs \in SUBSET Cells \ {{}} : AddCells(cs) \/ AddInstances(cs)
  \/ ChangeRoles \/ StopAssigning

Spec == Init /\ [][Next]_vars

(* Reconciles go through in the end, pods start and stop, new cells register, *)
(* and scripts that can complete do.                                          *)
Fairness ==
  /\ WF_vars(Reconcile(cr, TRUE)) /\ WF_vars(RunScript)
  /\ \A m \in Masters : WF_vars(PodsStart(m)) /\ WF_vars(PodsStop(m))
  /\ \A c \in Cells : WF_vars(Register(c))
FairSpec == Spec /\ Fairness

-----------------------------------------------------------------------------
(* Types of the state.                                                       *)
Resource ==
  [present : SUBSET Cells, initiated : SUBSET Cells, assign : BOOLEAN, roles : 1 .. MaxRoles,
   observed : BOOLEAN,
   state : {"Preparing", "Maintenance", "Reconfiguration", "Updating", "UpdateFinished"},
   step : UNION {MasterMaintenanceFlow(Flow([passes |-> p])) :
                   p \in SUBSET {"Preparation", "Registration", "Completion"}},
   done : SUBSET (ScriptSteps \cup {"WaitingForMasterCellsAcception", "WaitingForPodsRemoval",
                                    "PodsRemovingStarted"}),
   passes : SUBSET {"Preparation", "Registration", "Completion"},
   open : SUBSET {"Preparation", "Registration", "Completion"},
   batch : SUBSET Masters, unregistered : SUBSET Cells,
   initialized : {"Assignment", "AssignmentDone", "Assigned"}]

TypeOK ==
  /\ cr \in Resource /\ old \in Resource
  /\ cr.initiated \subseteq cr.present /\ cr.unregistered \subseteq cr.present
  /\ job \in [step : ScriptSteps \cup {"None"}, cells : SUBSET Cells, present : SUBSET Cells,
              roles : 0 .. MaxRoles, ran : BOOLEAN]
  /\ pods \in [on : SUBSET Masters, up : SUBSET Masters, config : [Masters -> SUBSET Cells],
               knows : [Masters -> SUBSET Cells]]
  /\ yt \in [lock : BOOLEAN, refresh : BOOLEAN, readOnly : BOOLEAN, registered : SUBSET Cells,
             dynamic : SUBSET Cells, snapshot : SUBSET Cells, roles : 1 .. MaxRoles,
             holders : SUBSET Cells, cached : SUBSET Masters]

(* "Old muster must knew unregistered master cells before their first start   *)
(* or all breaks" (update_flow_steps.go:378): no instance of a cell runs next *)
(* to a registered master whose config does not have the cell.                *)
KnownFirst ==
  \A c \in Cells \cap pods.up, m \in pods.up \cap ({Primary} \cup yt.registered) :
    c \in pods.knows[m]

(* While chunk refresh is off, or the provision lock is set, the status says  *)
(* that there is a pass to come, or the pass under way is one that asks for   *)
(* the next; so neither is left behind (MasterCellsPreparation, ...Completion *)
(* scripts, initUpdateConditions).                                            *)
NothingForgotten ==
  yt.lock \/ ~yt.refresh =>
    \/ cr.open # {}
    \/ cr.state = "Updating" /\ cr.passes \cap {"Registration", "Completion"} # {}

(* The playbook of docs/guide.md waits for Maintenance "after all             *)
(* registration and update passes finish": in this state, for the current     *)
(* generation, the cells with instances are registered, run, are known to all *)
(* masters, have the roles asked for, no master has older roles cached, and   *)
(* chunk refresh is on and read-only mode off.                                *)
Extended(v) ==
  /\ v.initiated \subseteq (yt.registered \cap pods.up) \ v.unregistered
  /\ v.initiated \subseteq yt.holders /\ yt.roles = v.roles
  /\ \A m \in {Primary} \cup v.initiated : pods.knows[m] = v.initiated
  /\ yt.cached = {} /\ yt.dynamic = {}
  /\ ~yt.lock /\ yt.refresh /\ ~yt.readOnly
MaintenanceMeansExtended == cr.state = "Maintenance" /\ cr.observed => Extended(cr)

(* Whatever is added, the extension comes to an end, in Maintenance.          *)
ExtensionEnds == []<>(cr.state = "Maintenance" /\ cr.observed)
================================================================================
