----------------------------- MODULE ClusterUpdate -----------------------------
(***************************************************************************)
(* The cluster state machine of controllers/ytsaurus_controller.go driving  *)
(* the update flow (UpdateFlow) over the components of                      *)
(* controllers/component_manager.go.                                        *)
(*                                                                         *)
(* A reconcile reads the Ytsaurus resource, computes the status of every    *)
(* component from the Kubernetes objects, and then does ONE of two things:   *)
(* it moves the cluster or update state and writes the status, or it syncs   *)
(* the components that have something to do and writes the status.  Effects  *)
(* on StatefulSets and on YTsaurus are immediate; the status write at the    *)
(* end may be lost (conflict, crash of the operator), and the informer cache *)
(* may serve the version of the resource before the operator's last write.   *)
(*                                                                         *)
(* A component has a StatefulSet (template version, scaled up or to zero,    *)
(* OnDelete or automatic replacement of pods) and pods, all in one phase.    *)
(* Left to other modules: the scripts' jobs (InitJob), pod by pod progress   *)
(* of one StatefulSet (PodsUpdate).  The init jobs of a new cluster, the     *)
(* Cypress patch document and the columns shown by kubectl are left out.     *)
(***************************************************************************)
EXTENDS UpdateFlow, FiniteSets, Sequences

CONSTANTS
  Loop,          \* server components in the order in which they are created
  Primary,       \* the primary master
  Proxy,         \* the HTTP proxies the operator's client goes through
  Type,          \* component type of each component
  Heater,        \* TRUE when the image heater is configured
  Concurrency,   \* components one selector of the plan updates at a time
  Edits,         \* edits of the specification that may be made
  MidUpdateEdits,\* TRUE when plan and maintenance may change during an update
  MaxGeneration, \* bound: edits of the specification
  MaxFaults      \* bound: pod failures and losses of cluster health

Components == {Loop[i] : i \in DOMAIN Loop}
Versions == 1..MaxGeneration
Masters == {c \in Components : Type[c] = "Master"}

ASSUME ClusterAssumption ==
  /\ Loop \in Seq(Components)
  /\ Primary \in Components /\ Type[Primary] = "Master"
  /\ Proxy \in Components /\ Type[Proxy] = "HttpProxy"
  /\ MaxGeneration \in Nat \ {0} /\ MaxFaults \in Nat /\ Concurrency \in Nat
  /\ Heater \in BOOLEAN /\ MidUpdateEdits \in BOOLEAN

Shutdowns == {"None", "Compute", "Everything", "ExceptMasters", "Tablets"}

ASSUME EditAssumption ==
  Edits \subseteq [touch : SUBSET Components, plan : SUBSET Components,
                   onDelete : SUBSET Components, shutdown : Shutdowns]

VARIABLES
  cr,     \* the Ytsaurus resource: its specification and its status
  old,    \* the oldest version of it that the informer cache may still serve
  sts,    \* StatefulSet of each component (version 0: not created)
  pods,   \* pods of each component
  yt,     \* the YTsaurus cluster
  probed, \* history: health was checked since the current update began
  faults  \* faults so far

vars == <<cr, old, sts, pods, yt, probed, faults>>

NoPods == [phase |-> "none", version |-> 0]
Cleared == [update |-> "", updating |-> {}, done |-> {}, removing |-> {}, removed |-> {}]

(* The resource as it is created: everything may be updated at once.         *)
Init ==
  /\ cr = [spec |-> [gen |-> 1, version |-> [c \in Components |-> 1], plan |-> Components,
                     onDelete |-> {}, shutdown |-> "None"],
           status |-> [state |-> "Created", step |-> Cleared, possible |-> "Unknown",
                       checked |-> 0, observed |-> 0]]
  /\ old = cr
  /\ sts = [c \in Components |-> [version |-> 0, up |-> FALSE, onDelete |-> FALSE]]
  /\ pods = [c \in Components |-> NoPods]
  /\ yt = [safeMode |-> FALSE, readOnly |-> FALSE, cells |-> TRUE, healthy |-> TRUE]
  /\ probed = FALSE
  /\ faults = 0

-----------------------------------------------------------------------------
(* What a component reports.  v is the version of the resource that was read. *)

IsUpdating(v) == v.status.state = "Updating"
IsReadyToUpdate(v) == v.status.state \in {"Preparing", "Running", "UpdateBlocked", "Maintenance"}
Update(v) == v.status.step.update
IsUpdatingComponent(v, c) == c \in v.status.step.updating

(* newServerConfigured: maintenance scales components down to zero.          *)
InstanceCount(v, c) ==
  CASE v.spec.shutdown = "None" -> 1
    [] v.spec.shutdown = "Everything" -> 0
    [] v.spec.shutdown = "ExceptMasters" -> IF Type[c] = "Master" THEN 1 ELSE 0
    [] v.spec.shutdown = "Compute" -> IF Type[c] \in {"ExecNode", "YqlAgent"} THEN 0 ELSE 1
    [] v.spec.shutdown = "Tablets" -> IF Type[c] = "TabletNode" THEN 0 ELSE 1

IsUp(v, c) == InstanceCount(v, c) # 0

(* serverImpl.needUpdate and needSync.                                       *)
NeedUpdate(v, c) == sts[c].version # 0 /\ sts[c].version # v.spec.version[c]

IsUpdatingResources(v, c) ==
  IsUpdating(v) /\ IsUpdatingComponent(v, c) /\ Update(v) = "WaitingForPodsCreation"

NeedSync(v, c) ==
  \/ IsUpdatingResources(v, c) /\ NeedUpdate(v, c)
  \/ sts[c].version = 0
  \/ sts[c].up # IsUp(v, c)

(* arePodsReady.                                                             *)
PodsStatus(v, c) ==
  CASE ~IsUp(v, c) -> IF pods[c].phase = "none" THEN "Ready" ELSE "Blocked"
    [] pods[c].phase = "ready" -> "Ready"
    [] pods[c].phase = "running" -> "Started"
    [] OTHER -> "Blocked"

ServerStatus(v, c) == IF NeedSync(v, c) THEN "Pending" ELSE PodsStatus(v, c)

IsRunning(status) == status \in {"Ready", "NeedUpdate"}

MasterScriptsOfUpdates ==
  {"WaitingForSnapshots", "WaitingForMasterExitReadOnly", "WaitingForSidecarsInitialize"}

(* Steps of the flow that a job of the primary master, or of another         *)
(* component, carries out; steps that the operator's client carries out.     *)
MasterScripts ==
  {"WaitingForSnapshots", "WaitingForMasterExitReadOnly", "WaitingForSidecarsInitialize",
   "WaitingForMasterCellsEnterReadOnly", "WaitingForMasterCellsExitReadOnly"}
ScriptsOf(type) ==
  CASE type = "Scheduler" -> {"WaitingForOpArchiveUpdate"}
    [] type = "QueryTracker" -> {"WaitingForQTStateUpdatingPrepare", "WaitingForQTStateUpdate"}
    [] type = "QueueAgent" -> {"WaitingForQAStateUpdatingPrepare", "WaitingForQAStateUpdate"}
    [] type = "YqlAgent" -> {"WaitingForYqlaUpdate"}
    [] OTHER -> {}
ClientSteps ==
  {"PossibilityCheck", "WaitingForSafeModeEnabled", "WaitingForSafeModeDisabled",
   "WaitingForTabletCellsSaving", "WaitingForTabletCellsRecovery",
   "WaitingForTabletCellsRemovingStart", "WaitingForTabletCellsRemoved",
   "WaitingForImaginaryChunksAbsence", "WaitingForCypressPatch"}

(* Master.Sync, dry, given the status of the server.                         *)
MasterSync(v, c, server) ==
  CASE ~IsUpdating(v) -> server
    [] ~IsUpdatingComponent(v, c) -> "Ready"
    [] c = Primary /\ Update(v) \in MasterScripts -> "Pending"
    [] Update(v) = "WaitingForPodsRemoval" -> "Updating"
    [] Update(v) = "WaitingForMasterReady" -> server
    [] OTHER -> "Ready"

(* Only the primary master waits for others, the secondary ones.             *)
Behind(others, server) ==
  IF server = "Ready" /\ (\E d \in DOMAIN others : ~IsRunning(others[d])) THEN "Blocked" ELSE server

MasterStatus(v, c, others) == MasterSync(v, c, Behind(others, ServerStatus(v, c)))

(* Sync of any other component, dry: nodes go on to the server in every      *)
(* update state, the rest only while pods are created.                       *)
ComponentSync(v, c, server) ==
  CASE ~IsUpdating(v) -> server
    [] ~IsUpdatingComponent(v, c) -> "Ready"
    [] Update(v) = "WaitingForPodsRemoval" -> "Updating"
    [] Update(v) \in ScriptsOf(Type[c]) -> "Pending"
    [] Update(v) = "WaitingForPodsCreation" -> server
    [] Type[c] \in {"DataNode", "TabletNode", "ExecNode"} -> server
    [] OTHER -> "Ready"

ComponentStatusUnordered(v, c, master) == ComponentSync(v, c, ServerStatus(v, c))

ComponentStatus(v, c, master) ==
  ComponentSync(v, c, IF IsRunning(master) THEN ServerStatus(v, c) ELSE "Blocked")

(* The statuses of all components: FetchStatus asks NeedUpdate first when    *)
(* the cluster is ready to update (fetch), ComponentManager.Sync does not.   *)
Asked(v, c, fetch, status) ==
  IF fetch /\ IsReadyToUpdate(v) /\ NeedUpdate(v, c) THEN "NeedUpdate" ELSE status

SecondaryStatuses(v, fetch) ==
  [c \in Masters \ {Primary} |-> Asked(v, c, fetch, MasterStatus(v, c, << >>))]
PrimaryStatus(v, fetch, secondary) ==
  Asked(v, Primary, fetch, MasterStatus(v, Primary, secondary))

AfterMasters(v, fetch, secondary, primary) ==
  [c \in Components |->
     CASE c = Primary -> primary
       [] c \in Masters \ {Primary} -> secondary[c]
       [] OTHER -> Asked(v, c, fetch, ComponentStatus(v, c, primary))]

Statuses(v, fetch) ==
  LET secondary == SecondaryStatuses(v, fetch)
  IN AfterMasters(v, fetch, secondary, PrimaryStatus(v, fetch, secondary))

ClientStatusOnce(v, statuses) ==
  CASE ~IsRunning(statuses[Proxy]) -> "Blocked"
    [] v.spec.shutdown \in {"Everything", "ExceptMasters"} -> "Ready"
    [] IsUpdating(v) -> IF Update(v) \in ClientSteps THEN "Updating" ELSE "Ready"
    [] v.status.checked = v.spec.gen -> "Ready"
    [] OTHER -> "Pending"

(* YtsaurusClient.Sync, dry.                                                 *)
ClientStatus(v, statuses) ==
  CASE ~IsRunning(statuses[Proxy]) -> "Blocked"
    [] v.spec.shutdown \in {"Everything", "ExceptMasters"} -> "Ready"
    [] IsUpdating(v) -> IF Update(v) \in ClientSteps THEN "Updating" ELSE "Ready"
    [] v.status.possible = "True" /\ v.status.checked = v.spec.gen -> "Ready"
    [] OTHER -> "Pending"

AllIn(statuses, wanted) == \A c \in Components : statuses[c] \in wanted
AllRunning(v) == AllIn(Statuses(v, TRUE), {"Ready", "NeedUpdate"})
AllStarted(v) == AllIn(Statuses(v, TRUE), {"Ready", "NeedUpdate", "Started"})
AllWith(v, statuses, wanted) == AllIn(statuses, wanted) /\ ClientStatus(v, statuses) = "Ready"
AllReadyNeedUpdateToo(v) == AllWith(v, Statuses(v, TRUE), {"Ready", "NeedUpdate"})
AllReady(v) == AllWith(v, Statuses(v, TRUE), {"Ready"})
MasterReady(v) == LET statuses == Statuses(v, TRUE)
                  IN \A c \in Masters : statuses[c] = "Ready"

-----------------------------------------------------------------------------
(* The end of a reconcile that writes the status: env.write says whether the  *)
(* write succeeds, which takes the current version of the resource.           *)

Save(v, new, env) ==
  IF env.write THEN v = cr /\ cr' = [cr EXCEPT !.status = new] /\ old' = cr
  ELSE cr' = cr /\ old' = v

(* What may go wrong in one reconcile: the status write; calls to YTsaurus    *)
(* and jobs that have not finished; and an error of one component, which ends *)
(* the loop over the components, so that only the first of them are reached.  *)
Prefixes == {{Loop[i] : i \in 1..n} : n \in 0..Len(Loop)}
Env == [write : BOOLEAN, call : BOOLEAN, reach : Prefixes]
NoFault == [write |-> TRUE, call |-> TRUE, reach |-> Components]

EnterState(v, state) == [v.status EXCEPT !.state = state]

MoveTo(v, state, env) ==
  /\ Save(v, EnterState(v, state), env)
  /\ UNCHANGED <<sts, pods, yt, probed, faults>>

Create(v, env) ==
  /\ v.status.state = "Created"
  /\ MoveTo(v, "Initializing", env)

(* Initialization and reconfiguration are over when all components run.      *)
Prepare(v, env) ==
  /\ v.status.state \in {"Initializing", "Reconfiguration"}
  /\ AllRunning(v)
  /\ MoveTo(v, "Preparing", env)

(* applyUpdatePlan: the components that need an update and the plan allows,  *)
(* as many as the selector takes at a time.                                  *)
Needy(v) == {c \in Components : NeedUpdate(v, c)}
Batches(v) ==
  LET allowed == Needy(v) \cap v.spec.plan
  IN {batch \in SUBSET allowed :
        \/ batch = allowed /\ Cardinality(batch) <= Concurrency
        \/ Cardinality(batch) = Concurrency}

(* The switch over the states in which an update may begin.                  *)
StateAfter(v, batch, ready, running) ==
  LET stay == v.status.state
      needy == Needy(v)
  IN CASE ready -> IF v.spec.shutdown # "None" THEN "Maintenance" ELSE "Running"
       [] ~ready /\ ~running -> "Reconfiguration"
       [] ~ready /\ running /\ needy = {} -> IF stay = "Running" THEN "Preparing" ELSE stay
       [] ~ready /\ running /\ needy # {} /\ v.status.possible # "True" ->
            IF v.status.possible = "False" THEN "UpdateBlocked" ELSE stay
       [] ~ready /\ running /\ needy # {} /\ v.status.possible = "True" ->
            IF batch # {} THEN "Updating" ELSE "UpdateBlocked"

Settled(v, batch) == StateAfter(v, batch, AllReady(v), AllRunning(v))

Observed(v, state) == [v.status EXCEPT !.state = state, !.observed = v.spec.gen]

(* That state, the observed generation and the components to update are      *)
(* written together.                                                         *)
Started(v, batch, state) ==
  IF state = "Updating"
  THEN [Observed(v, state) EXCEPT !.step.update = "None", !.step.updating = batch]
  ELSE Observed(v, state)

SettledStatus(v, batch) == Started(v, batch, Settled(v, batch))

Settle(v, env) ==
  /\ IsReadyToUpdate(v)
  /\ \E batch \in Batches(v) : LET status == SettledStatus(v, batch) IN
       /\ status # v.status
       /\ Save(v, status, env)
       /\ probed' = (probed /\ ~(env.write /\ status.state = "Updating"))
  /\ UNCHANGED <<sts, pods, yt, faults>>

IsSettled(v) == IsReadyToUpdate(v) /\ \A batch \in Batches(v) : SettledStatus(v, batch) = v.status

(* All done: the reconcile ends without being requeued.                      *)
Rest(v) ==
  /\ IsSettled(v) /\ AllReady(v)
  /\ UNCHANGED vars

-----------------------------------------------------------------------------
(* The update flow: flowTree.execute.                                         *)

(* shouldRunPreUpdateStepsFor: some component of the type is updated by a     *)
(* strategy other than OnDelete.                                              *)
ShouldRunPreUpdateStepsFor(v, type) ==
  \E c \in v.status.step.updating : Type[c] = type /\ c \in v.spec.plan \ v.spec.onDelete

FlowInput(v) ==
  [kinds |-> {Type[c] : c \in v.status.step.updating}, heater |-> Heater,
   shutdown |-> v.spec.shutdown, hot |-> ~ShouldRunPreUpdateStepsFor(v, "Master"),
   removeCells |-> ShouldRunPreUpdateStepsFor(v, "TabletNode"), passes |-> {}]

(* flowConditions: what each step waits for.  Heated images are a matter of   *)
(* env; log delivery is taken to be off, so that its step is always over.     *)
Satisfied(v, env) ==
  LET step == Update(v) IN
  CASE step \in {"None", "WaitingForTimbertruckPrepared"} -> TRUE
    [] step = "WaitingForImageHeater" -> env.call
    [] step = "PossibilityCheck" -> v.status.possible = "True" /\ v.status.checked = v.spec.gen
    [] step = "ImpossibleToStart" -> AllReady(v)
    [] step = "WaitingForMasterReady" -> MasterReady(v)
    [] step = "WaitingForPodsRemoval" -> v.status.step.updating \subseteq v.status.step.removed
    [] step = "WaitingForPodsCreation" -> AllStarted(v)
    [] OTHER -> step \in v.status.step.done

Impossible(v) == Update(v) = "PossibilityCheck" /\ v.status.possible = "False"

Executes(v) == IsUpdating(v) /\ Update(v) \in Indexed(FlowInput(v))

EnterStep(v, step) == [v.status EXCEPT !.step.update = step]

Advance(v, env) ==
  /\ Executes(v) /\ Satisfied(v, env)
  /\ Update(v) # "ImpossibleToStart"
  /\ \E step \in FlowSteps(FlowInput(v)) :
       Follows(FlowInput(v), Update(v), step) /\ Save(v, EnterStep(v, step), env)
  /\ UNCHANGED <<sts, pods, yt, probed, faults>>

GiveUp(v, env) ==
  /\ Executes(v) /\ Impossible(v)
  /\ Save(v, EnterStep(v, "ImpossibleToStart"), env)
  /\ UNCHANGED <<sts, pods, yt, probed, faults>>

Finish(v, env) ==
  /\ Executes(v) /\ Satisfied(v, env)
  /\ Update(v) # "ImpossibleToStart" /\ IsLast(FlowInput(v), Update(v))
  /\ MoveTo(v, "UpdateFinished", env)

Cancel(v, env) ==
  /\ Executes(v) /\ Satisfied(v, env)
  /\ Update(v) = "ImpossibleToStart"
  /\ MoveTo(v, "UpdateCanceled", env)

ClearStateOnly(v, env) ==
  /\ v.status.state \in {"UpdateFinished", "UpdateCanceled"}
  /\ Save(v, [v.status EXCEPT !.state = "Preparing", !.step.update = ""], env)
  /\ UNCHANGED <<sts, pods, yt, probed, faults>>

(* ClearUpdateStatus.                                                        *)
Clear(v, env) ==
  /\ v.status.state \in {"UpdateFinished", "UpdateCanceled"}
  /\ Save(v, [v.status EXCEPT !.state = "Preparing", !.step = Cleared], env)
  /\ UNCHANGED <<sts, pods, yt, probed, faults>>

-----------------------------------------------------------------------------
(* ComponentManager.Sync: the components with something to do are synced.     *)

Works(v, env) ==
  \/ v.status.state \in {"Initializing", "Reconfiguration"} /\ ~AllRunning(v)
  \/ IsSettled(v) /\ ~AllReady(v)
  \/ Executes(v) /\ ~Satisfied(v, env) /\ ~Impossible(v)

(* Components that are reached and are not waiting for others.               *)
Busy(v, env) ==
  LET statuses == Statuses(v, FALSE)
  IN {c \in env.reach : statuses[c] \in {"Pending", "Updating"}}

Removes(v) == IsUpdating(v) /\ Update(v) = "WaitingForPodsRemoval"

RunsScript(v, c) ==
  IsUpdating(v) /\ Update(v) \in (IF c = Primary THEN MasterScripts ELSE ScriptsOf(Type[c]))

(* server.Sync writes the template for the current specification whatever    *)
(* was the reason to sync; removePods does so with no replicas.              *)
Built(v, c) == [version |-> v.spec.version[c], up |-> IsUp(v, c), onDelete |-> FALSE]

Synced(v, c) ==
  CASE Removes(v) /\ c \in v.spec.onDelete -> [Built(v, c) EXCEPT !.onDelete = TRUE]
    [] Removes(v) /\ c \notin v.spec.onDelete ->
         IF c \in v.status.step.removing THEN sts[c] ELSE [Built(v, c) EXCEPT !.up = FALSE]
    [] RunsScript(v, c) -> sts[c]
    [] OTHER -> Built(v, c)

(* PodsRemoved, or PodsUpdated under OnDelete.                               *)
IsRemoved(v, c) ==
  /\ Removes(v)
  /\ IF c \in v.spec.onDelete
     THEN IF IsUp(v, c) THEN pods[c] = [phase |-> "ready", version |-> v.spec.version[c]]
                        ELSE pods[c] = NoPods
     ELSE c \in v.status.step.removing /\ pods[c] = NoPods

(* Calls are answered, and scripts succeed, while the pods they need run.    *)
Answers(servers, env) == env.call /\ \A c \in servers : pods[c].phase = "ready"

ClientWorks(v) == ClientStatus(v, Statuses(v, FALSE)) \in {"Pending", "Updating"}
ChecksHealth(v) == ClientWorks(v) /\ (IsUpdating(v) => Update(v) = "PossibilityCheck")

Performs(v, env) ==
  \/ /\ ClientWorks(v) /\ ~ChecksHealth(v)
     /\ Answers(Masters \cup {Proxy}, env)
  \/ /\ \E c \in Busy(v, env) : RunsScript(v, c)
     /\ Answers(Masters, env)

(* What a step does to the cluster.                                          *)
Effect(step) ==
  CASE step = "WaitingForSafeModeEnabled" -> [yt EXCEPT !.safeMode = TRUE]
    [] step = "WaitingForSafeModeDisabled" -> [yt EXCEPT !.safeMode = FALSE]
    [] step \in {"WaitingForSnapshots", "WaitingForMasterCellsEnterReadOnly"} ->
         [yt EXCEPT !.readOnly = TRUE]
    [] step \in {"WaitingForMasterExitReadOnly", "WaitingForMasterCellsExitReadOnly"} ->
         [yt EXCEPT !.readOnly = FALSE]
    [] step = "WaitingForTabletCellsRemovingStart" -> [yt EXCEPT !.cells = FALSE]
    [] step = "WaitingForTabletCellsRecovery" -> [yt EXCEPT !.cells = TRUE]
    [] OTHER -> yt

(* UpdateClusterHealthChecks: checks that fail leave the verdict unknown.    *)
Checked(v, status, env) ==
  IF ~ChecksHealth(v) THEN status
  ELSE [status EXCEPT !.checked = v.spec.gen, !.possible =
          CASE ~Answers(Masters \cup {Proxy}, env) -> "Unknown"
            [] Answers(Masters \cup {Proxy}, env) -> IF yt.healthy THEN "True" ELSE "False"]

Worked(v, env) ==
  LET step == v.status.step
      busy == Busy(v, env)
      bulk == IF Removes(v) THEN busy \ v.spec.onDelete ELSE {}
  IN [v.status EXCEPT !.step =
       [step EXCEPT !.removing = @ \cup bulk,
                    !.removed = @ \cup {c \in busy : IsRemoved(v, c)},
                    !.done = IF Performs(v, env) THEN @ \cup {Update(v)} ELSE @]]

Work(v, env) ==
  /\ Works(v, env)
  /\ LET busy == Busy(v, env)
     IN sts' = [c \in Components |-> IF c \in busy THEN Synced(v, c) ELSE sts[c]]
  /\ yt' = IF Performs(v, env) THEN Effect(Update(v)) ELSE yt
  /\ probed' = (probed \/ (IsUpdating(v) /\ ChecksHealth(v) /\ Answers(Masters \cup {Proxy}, env)))
  /\ Save(v, Checked(v, Worked(v, env), env), env)
  /\ UNCHANGED <<pods, faults>>

Decide(v, env) ==
  \/ Create(v, env)
  \/ Prepare(v, env)
  \/ Settle(v, env)
  \/ Advance(v, env)
  \/ GiveUp(v, env)
  \/ Finish(v, env)
  \/ Cancel(v, env)
  \/ Clear(v, env)

Reconcile(v, env) == Decide(v, env) \/ Work(v, env)

-----------------------------------------------------------------------------
(* Kubernetes: pods follow their StatefulSet.  A template change replaces     *)
(* running pods, by itself or, under OnDelete, once they are deleted by hand. *)

MovePods(c, phase, version) ==
  /\ pods' = [pods EXCEPT ![c] = [phase |-> phase, version |-> version]]
  /\ UNCHANGED <<cr, old, sts, yt, probed>>

PodsVanish(c) ==
  /\ ~sts[c].up /\ pods[c] # NoPods
  /\ MovePods(c, "none", 0) /\ UNCHANGED faults

PodsStart(c) ==
  /\ sts[c].up /\ pods[c].version # sts[c].version
  /\ MovePods(c, "pending", sts[c].version) /\ UNCHANGED faults

PodsProgress(c) ==
  /\ sts[c].up /\ pods[c].version = sts[c].version
  /\ \/ pods[c].phase = "pending" /\ MovePods(c, "running", pods[c].version)
     \/ pods[c].phase = "running" /\ MovePods(c, "ready", pods[c].version)
  /\ UNCHANGED faults

PodsFail(c) ==
  /\ pods[c].phase = "ready" /\ faults < MaxFaults
  /\ MovePods(c, "pending", pods[c].version)
  /\ faults' = faults + 1

HealthLost ==
  /\ yt.healthy /\ faults < MaxFaults
  /\ yt' = [yt EXCEPT !.healthy = FALSE]
  /\ faults' = faults + 1
  /\ UNCHANGED <<cr, old, sts, pods, probed>>

HealthRestored ==
  /\ ~yt.healthy
  /\ yt' = [yt EXCEPT !.healthy = TRUE]
  /\ UNCHANGED <<cr, old, sts, pods, probed, faults>>

(* The user edits the specification: new versions of some components, the    *)
(* update plan, the maintenance.                                             *)
Edit(e) ==
  /\ cr.spec.gen < MaxGeneration
  /\ \/ MidUpdateEdits
     \/ cr.status.state # "Updating"
     \/ <<e.plan, e.onDelete, e.shutdown>> = <<cr.spec.plan, cr.spec.onDelete, cr.spec.shutdown>>
  /\ cr' = [cr EXCEPT !.spec =
       [gen |-> @.gen + 1, plan |-> e.plan, onDelete |-> e.onDelete, shutdown |-> e.shutdown,
        version |-> [c \in Components |-> IF c \in e.touch THEN @.gen + 1 ELSE @.version[c]]]]
  /\ UNCHANGED <<old, sts, pods, yt, probed, faults>>

Next ==
  \/ \E v \in {cr, old}, write, call \in BOOLEAN :
       \/ Decide(v, [write |-> write, call |-> call, reach |-> Components])
       \/ \E reach \in Prefixes :
            Work(v, [write |-> write, call |-> call, reach |-> reach])
  \/ Rest(cr)
  \/ \E c \in Components : PodsVanish(c) \/ PodsStart(c) \/ PodsProgress(c) \/ PodsFail(c)
  \/ HealthLost
  \/ HealthRestored
  \/ \E e \in Edits : Edit(e)

Spec == Init /\ [][Next]_vars

(* Reconciles are requeued until one goes well; pods follow their set, and    *)
(* the administrator replaces the pods of an OnDelete update; lost health    *)
(* comes back.                                                               *)
Fairness ==
  /\ WF_vars(Reconcile(cr, NoFault))
  /\ \A c \in Components : WF_vars(PodsVanish(c)) /\ WF_vars(PodsStart(c)) /\ WF_vars(PodsProgress(c))
  /\ WF_vars(HealthRestored)

FairSpec == Spec /\ Fairness

-----------------------------------------------------------------------------
(* Properties.                                                                *)

States ==
  {"Created", "Initializing", "Preparing", "Running", "Reconfiguration", "UpdateBlocked",
   "Maintenance", "Updating", "UpdateFinished", "UpdateCanceled"}
Sessions == {"Updating", "UpdateFinished", "UpdateCanceled"}
Steps == UNION {Indexed(in) : in \in Inputs({Type[c] : c \in Components}, Shutdowns, {})}

Specs ==
  [gen : 1..MaxGeneration, version : [Components -> Versions], plan : SUBSET Components,
   onDelete : SUBSET Components, shutdown : Shutdowns]

StepRecords ==
  [update : Steps \cup {""}, updating : SUBSET Components, done : SUBSET Steps,
   removing : SUBSET Components, removed : SUBSET Components]
StatusRecords ==
  [state : States, step : StepRecords, possible : {"Unknown", "True", "False"},
   checked : 0..MaxGeneration, observed : 0..MaxGeneration]
Resources == [spec : Specs, status : StatusRecords]

RecordsStep(v) == v.status.state \in Sessions <=> Update(v) # ""

(* The types of all variables; in the resource, an update step is recorded   *)
(* exactly while an update goes on or waits to be cleared (UpdateStatus of   *)
(* api/v1/ytsaurus_types.go).                                                *)
TypeOK ==
  /\ cr \in Resources /\ RecordsStep(cr)
  /\ old \in Resources /\ RecordsStep(old)
  /\ sts \in [Components -> [version : 0..MaxGeneration, up : BOOLEAN, onDelete : BOOLEAN]]
  /\ pods \in [Components -> [phase : {"none", "pending", "running", "ready"},
                              version : 0..MaxGeneration]]
  /\ yt \in [safeMode : BOOLEAN, readOnly : BOOLEAN, cells : BOOLEAN, healthy : BOOLEAN]
  /\ probed \in BOOLEAN
  /\ faults \in 0..MaxFaults

(* Whatever an update did to the running cluster it has undone when it is     *)
(* over, finished or canceled: safe mode is off, masters accept writes, the   *)
(* tablet cells are back.  The pairs of steps of buildFlowTree see to it.     *)
Undone ==
  ~IsUpdating(cr) => ~yt.safeMode /\ ~yt.readOnly /\ yt.cells

(* An update takes pods away only from a cluster that is prepared for it: a   *)
(* master's after the masters have built a read-only snapshot, and outside    *)
(* master maintenance only in safe mode; a tablet node's when the tablet      *)
(* cells have been removed, unless maintenance shuts the tablet nodes down    *)
(* (buildFlowTree, masterMaintenanceFlow).                                    *)
StopsPrepared ==
  [][\A c \in Components : IsUpdating(cr) /\ sts[c].up /\ ~sts'[c].up =>
       /\ c \in Masters => yt.readOnly /\ (yt.safeMode \/ cr.spec.shutdown = "ExceptMasters")
       /\ Type[c] = "TabletNode" => ~yt.cells \/ ~IsUp(cr, c)]_vars

(* "Masters are upgraded first" (master.go:689): no other component is scaled *)
(* up in an update while a master that is updated too is without its pods or  *)
(* runs pods of the template before.                                          *)
MastersFirst ==
  [][\A c \in Components \ Masters : IsUpdating(cr) /\ ~sts[c].up /\ sts'[c].up =>
       \A m \in Masters \cap cr.status.step.updating :
         sts[m].up /\ pods[m].version = sts[m].version]_vars

(* The state Running together with the current generation as the observed one *)
(* says that every component is deployed as specified: both are written in    *)
(* one status update (ytsaurus_controller.go:186).                            *)
RunningIsCurrent ==
  cr.status.state = "Running" /\ cr.status.observed = cr.spec.gen =>
    \A c \in Components : sts[c].version = cr.spec.version[c] /\ sts[c].up

(* "Update step must see own update of cluster health condition"              *)
(* (update_flow_steps.go:204): the possibility check is passed only on the    *)
(* verdict of a health check made in the same update.  It does not hold: a    *)
(* second batch of the same generation passes on the verdict of the first.    *)
OwnVerdict ==
  [][IsUpdating(cr) /\ Update(cr) = "PossibilityCheck" /\ Update(cr') # Update(cr)
       /\ Update(cr') # "ImpossibleToStart" => probed]_vars

(* Once the specification stays as it is, the cluster comes to rest: every    *)
(* component that the plan allows to be updated is up to date and the state   *)
(* says whether something is left (docs/guide.md:59-81).                      *)
Rested ==
  /\ \A c \in cr.spec.plan : ~NeedUpdate(cr, c)
  /\ cr.status.state = (CASE Needy(cr) # {} -> "UpdateBlocked"
                          [] Needy(cr) = {} /\ cr.spec.shutdown = "None" -> "Running"
                          [] Needy(cr) = {} /\ cr.spec.shutdown # "None" -> "Maintenance")
Converges == <>[]Rested

(* Every update comes to an end: it is finished or canceled                   *)
(* (docs/guide.md:37-38).                                                     *)
UpdateEnds == IsUpdating(cr) ~> ~IsUpdating(cr)

(* The state machine and the versions that StatefulSets are deployed at        *)
(* implement the promise of docs/guide.md (Lifecycle).                         *)
Deployed == [c \in Components |-> sts[c].version]
Life == INSTANCE Lifecycle
          WITH state <- cr.status.state, session <- cr.status.step.updating, deployed <- Deployed
ImplementsLifecycle == Life!Spec

-----------------------------------------------------------------------------
(* Why Undone holds: from step to step, what is switched on is bracketed by     *)
(* the two steps of its pair, and the second one is not done yet.              *)

Within(v, first, last) ==
  LET in == FlowInput(v) IN
  /\ last \in FlowSteps(in)
  /\ Order(in, first) <= Order(in, Update(v)) /\ Order(in, Update(v)) <= Order(in, last)
  /\ last \notin v.status.step.done

Bracketed(v) ==
  /\ yt.safeMode => Within(v, "WaitingForSafeModeEnabled", "WaitingForSafeModeDisabled")
  /\ yt.readOnly => \/ Within(v, "WaitingForSnapshots", "WaitingForMasterExitReadOnly")
                    \/ Within(v, "WaitingForMasterCellsEnterReadOnly",
                                 "WaitingForMasterCellsExitReadOnly")
  /\ ~yt.cells => Within(v, "WaitingForTabletCellsRemovingStart", "WaitingForTabletCellsRecovery")

(* The steps done so far are steps of the flow up to the current one.          *)
DoneSoFar(v) ==
  \A step \in v.status.step.done :
    step \in FlowSteps(FlowInput(v)) /\ Order(FlowInput(v), step) <= Order(FlowInput(v), Update(v))

(* A stale copy of the resource whose step is not done is at the same step.    *)
SameStep == 
  IsUpdating(old) /\ Update(old) \notin old.status.step.done
    /\ Update(old) \in MasterScripts \cup (ClientSteps \ {"PossibilityCheck"})
    => IsUpdating(cr) /\ Update(cr) = Update(old)

Inv ==
  /\ IsUpdating(cr) => Executes(cr) /\ DoneSoFar(cr) /\ Bracketed(cr)
  /\ cr.status.state \notin Sessions => cr.status.step.done = {}
  /\ SameStep
  /\ Undone

===============================================================================
