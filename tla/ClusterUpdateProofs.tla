-------------------------- MODULE ClusterUpdateProofs --------------------------
(***************************************************************************)
(* Proofs about the cluster state machine: for every set of components,     *)
(* every set of edits and all bounds, the types of its variables, and that   *)
(* an update leaves nothing behind.                                         *)
(***************************************************************************)
EXTENDS ClusterUpdate, TLAPS

(* The steps that switch something on, and those that switch it off.         *)
Paired(first, last) ==
  \/ first = "WaitingForSafeModeEnabled" /\ last = "WaitingForSafeModeDisabled"
  \/ first = "WaitingForSnapshots" /\ last = "WaitingForMasterExitReadOnly"
  \/ first = "WaitingForMasterCellsEnterReadOnly" /\ last = "WaitingForMasterCellsExitReadOnly"
  \/ first = "WaitingForTabletCellsRemovingStart" /\ last = "WaitingForTabletCellsRecovery"

-----------------------------------------------------------------------------
(* The flow.                                                                  *)

(* A flow that has the first step of a pair has the second one: both are      *)
(* chained under the same conditions in buildFlowTree, and in                 *)
(* masterMaintenanceFlow.                                                     *)
LEMMA PairIsWhole ==
  ASSUME NEW in, NEW first, NEW last, Paired(first, last), first \in Indexed(in)
  PROVE  last \in FlowSteps(in)
BY DEF Paired, Indexed, FlowSteps, BuildFlowTree, MasterMaintenanceFlow, If

(* A flow begins with None.                                                   *)
LEMMA FlowBegins == ASSUME NEW in PROVE "None" \in FlowSteps(in)
BY DEF FlowSteps, BuildFlowTree, MasterMaintenanceFlow

(* Positions in a flow are natural numbers.                                   *)
LEMMA OrderIsNat == ASSUME NEW in, NEW step PROVE Order(in, step) \in Nat
<1>1. TreeOrder(step) \in Nat
  BY DEF TreeOrder
<1>2. MaintenanceOrder(step) \in Nat
  BY DEF MaintenanceOrder
<1> QED BY <1>1, <1>2 DEF Order

(* The second step of a pair comes after the first, no other step has its     *)
(* position, and the pair lies between the possibility check and the step     *)
(* that gives up.                                                             *)
LEMMA PairOrder ==
  ASSUME NEW in, NEW first, NEW last, Paired(first, last), last \in FlowSteps(in)
  PROVE  /\ Order(in, first) < Order(in, last)
         /\ \A step \in FlowSteps(in) : Order(in, step) = Order(in, last) => step = last
         /\ Order(in, "None") < Order(in, first)
         /\ "PossibilityCheck" \in FlowSteps(in) => Order(in, "PossibilityCheck") < Order(in, first)
         /\ Order(in, last) < Order(in, "ImpossibleToStart")
<1>1. CASE MastersMaintenance(in)
  <2>1. first = "WaitingForMasterCellsEnterReadOnly" /\ last = "WaitingForMasterCellsExitReadOnly"
    BY <1>1 DEF Paired, FlowSteps, MasterMaintenanceFlow, If
  <2>2. "PossibilityCheck" \notin FlowSteps(in)
    BY <1>1 DEF FlowSteps, MasterMaintenanceFlow, If
  <2>3. \A step \in FlowSteps(in) : Order(in, step) = Order(in, last) => step = last
    BY <1>1, <2>1 DEF FlowSteps, MasterMaintenanceFlow, If, Order, MaintenanceOrder
  <2> QED BY <1>1, <2>1, <2>2, <2>3 DEF Order, MaintenanceOrder
<1>2. CASE ~MastersMaintenance(in)
  <2>1. last \in {"WaitingForSafeModeDisabled", "WaitingForMasterExitReadOnly",
                  "WaitingForTabletCellsRecovery"}
    BY <1>2 DEF Paired, FlowSteps, BuildFlowTree, If
  <2>2. \A step \in FlowSteps(in) : TreeOrder(step) = TreeOrder(last) => step = last
    BY <1>2, <2>1 DEF FlowSteps, BuildFlowTree, If, TreeOrder
  <2>3. /\ TreeOrder(first) < TreeOrder(last)
        /\ TreeOrder("None") < TreeOrder(first)
        /\ TreeOrder("PossibilityCheck") < TreeOrder(first)
        /\ TreeOrder(last) < TreeOrder("ImpossibleToStart")
    BY <2>1 DEF Paired, TreeOrder
  <2> QED BY <1>2, <2>2, <2>3 DEF Order
<1> QED BY <1>1, <1>2

-----------------------------------------------------------------------------
(* Types.                                                                     *)

(* Steps of a flow are known and have a name.                                 *)
LEMMA FlowTyped ==
  ASSUME NEW v \in Resources
  PROVE  /\ Indexed(FlowInput(v)) \subseteq Steps
         /\ FlowSteps(FlowInput(v)) \subseteq Steps
         /\ "" \notin Indexed(FlowInput(v)) /\ "" \notin FlowSteps(FlowInput(v))
<1>1. FlowInput(v) \in Inputs({Type[c] : c \in Components}, Shutdowns, {})
  <2>1. v.spec.shutdown \in Shutdowns /\ v.status.step.updating \subseteq Components
    BY Zenon DEF Resources, Specs, StatusRecords, StepRecords
  <2>2. {Type[c] : c \in v.status.step.updating} \in SUBSET {Type[c] : c \in Components}
    BY <2>1
  <2> QED BY <2>1, <2>2, ClusterAssumption DEF FlowInput, Inputs, ShouldRunPreUpdateStepsFor
<1>2. Indexed(FlowInput(v)) \subseteq Steps
  BY <1>1, Zenon DEF Steps
<1>3. "" \notin Indexed(FlowInput(v))
  BY DEF Indexed, FlowSteps, BuildFlowTree, MasterMaintenanceFlow, If
<1>4. FlowSteps(FlowInput(v)) \subseteq Indexed(FlowInput(v))
  BY DEF Indexed
<1> QED BY <1>2, <1>3, <1>4, Zenon

(* Writing a well-typed status leaves both copies of the resource well typed. *)
LEMMA SaveTyped ==
  ASSUME TypeOK, NEW v \in {cr, old}, NEW new \in StatusRecords, NEW env,
         new.state \in Sessions <=> new.step.update # "",
         Save(v, new, env)
  PROVE  cr' \in Resources /\ RecordsStep(cr') /\ old' \in Resources /\ RecordsStep(old')
<1>1. CASE env.write
  <2>1. cr' = [cr EXCEPT !.status = new] /\ old' = cr
    BY <1>1, Zenon DEF Save
  <2>2. cr' \in Resources /\ cr'.status = new
    BY <2>1, Zenon DEF TypeOK, Resources
  <2> QED BY <2>1, <2>2, Zenon DEF TypeOK, RecordsStep, Update
<1>2. CASE ~env.write
  BY <1>2, Zenon DEF Save, TypeOK
<1> QED BY <1>1, <1>2, Zenon

(* The status that a change of state writes.                                  *)
LEMMA EnterStateTyped ==
  ASSUME NEW v \in Resources, NEW state \in States
  PROVE  /\ EnterState(v, state) \in StatusRecords
         /\ EnterState(v, state).state = state
         /\ EnterState(v, state).step = v.status.step
BY Zenon DEF EnterState, Resources, StatusRecords, StepRecords

(* Entering an update step changes the step and nothing else of the session.  *)
LEMMA EnterStepTyped ==
  ASSUME NEW v \in Resources, NEW step \in Steps
  PROVE  /\ EnterStep(v, step) \in StatusRecords
         /\ EnterStep(v, step).state = v.status.state
         /\ EnterStep(v, step).step = [v.status.step EXCEPT !.update = step]
         /\ EnterStep(v, step).step.update = step
         /\ EnterStep(v, step).step.updating = v.status.step.updating
         /\ EnterStep(v, step).step.done = v.status.step.done
BY Zenon DEF EnterStep, Resources, StatusRecords, StepRecords

(* The status that a cluster ready to update settles on.                      *)
LEMMA SettledTyped ==
  ASSUME NEW v \in Resources, RecordsStep(v), IsReadyToUpdate(v), NEW batch \in SUBSET Components
  PROVE  /\ SettledStatus(v, batch) \in StatusRecords
         /\ SettledStatus(v, batch).state \in States \ {"UpdateFinished", "UpdateCanceled"}
         /\ SettledStatus(v, batch).state # "Updating" => SettledStatus(v, batch).step = v.status.step
         /\ SettledStatus(v, batch).state = "Updating" =>
              SettledStatus(v, batch).step = [v.status.step EXCEPT !.update = "None", !.updating = batch]
<1>1. Settled(v, batch) \in States \ {"UpdateFinished", "UpdateCanceled"}
  <2>1. v.status.state \in {"Preparing", "Running", "UpdateBlocked", "Maintenance"}
    BY DEF IsReadyToUpdate
  <2>2. v.status.possible \in {"Unknown", "True", "False"}
    BY Zenon DEF Resources, StatusRecords, StepRecords
  <2> QED BY <2>1, <2>2, Zenon DEF Settled, StateAfter, States
<1>2. "None" \in Steps
  BY FlowBegins, FlowTyped, Zenon
<1>3. v.spec.gen \in 0..MaxGeneration
  BY ClusterAssumption DEF Resources, Specs
<1> DEFINE state == Settled(v, batch)
<1> HIDE DEF state
<1> QED BY <1>1, <1>2, <1>3, Zenon DEF SettledStatus, Started, Observed, Resources, StatusRecords, StepRecords, state

(* A step is performed only in an update, and it is the current one.          *)
LEMMA PerformsFacts ==
  ASSUME NEW v, NEW env, Works(v, env), Performs(v, env)
  PROVE  IsUpdating(v) /\ Executes(v) /\ ~Satisfied(v, env)
<1>1. IsUpdating(v)
  BY DEF Performs, ChecksHealth, RunsScript
<1>2. ~IsReadyToUpdate(v) /\ v.status.state \notin {"Initializing", "Reconfiguration"}
  BY <1>1 DEF IsUpdating, IsReadyToUpdate
<1> QED BY <1>1, <1>2 DEF Works, IsSettled

(* The status that syncing the components writes.                             *)
LEMMA WorkedTyped ==
  ASSUME NEW v \in Resources, NEW env, env.reach \subseteq Components, Works(v, env)
  PROVE  LET new == Checked(v, Worked(v, env), env) IN
         /\ new \in StatusRecords
         /\ new.state = v.status.state
         /\ new.step.update = Update(v)
         /\ new.step.updating = v.status.step.updating
         /\ new.step.done = IF Performs(v, env) THEN v.status.step.done \cup {Update(v)}
                                               ELSE v.status.step.done
<1>1. Busy(v, env) \subseteq Components
  BY Zenon DEF Busy
<1>2. Performs(v, env) => Update(v) \in Steps
  BY PerformsFacts, FlowTyped, Zenon DEF Executes
<1> DEFINE busy == Busy(v, env)
           bulk == IF Removes(v) THEN busy \ v.spec.onDelete ELSE {}
           removed == {c \in busy : IsRemoved(v, c)}
           performs == Performs(v, env)
           new == Worked(v, env)
<1>3. bulk \subseteq Components /\ removed \subseteq Components
  BY <1>1
<1> DEFINE step == [v.status.step EXCEPT
                      !.removing = @ \cup bulk,
                      !.removed = @ \cup removed,
                      !.done = IF performs THEN @ \cup {Update(v)} ELSE @]
<1>4. Worked(v, env) = [v.status EXCEPT !.step = step]
  BY Zenon DEF Worked
<1>5. performs => Update(v) \in Steps
  BY <1>2
<1> HIDE DEF bulk, removed, performs
<1>a. /\ step \in StepRecords
      /\ step.update = Update(v)
      /\ step.updating = v.status.step.updating
      /\ step.done = IF performs THEN v.status.step.done \cup {Update(v)}
                                 ELSE v.status.step.done
  BY <1>3, <1>5, Zenon DEF Resources, StatusRecords, StepRecords, Update
<1> HIDE DEF step
<1>6. /\ new \in StatusRecords
      /\ new.state = v.status.state
      /\ new.step.update = Update(v)
      /\ new.step.updating = v.status.step.updating
      /\ new.step.done = IF performs THEN v.status.step.done \cup {Update(v)}
                                     ELSE v.status.step.done
  BY <1>a, <1>4 DEF Resources, StatusRecords
<1> HIDE DEF new
<1>7. v.spec.gen \in 0..MaxGeneration
  BY ClusterAssumption DEF Resources, Specs
<1> DEFINE verdict == CASE ~Answers(Masters \cup {Proxy}, env) -> "Unknown"
                        [] Answers(Masters \cup {Proxy}, env) -> IF yt.healthy THEN "True" ELSE "False"
<1>8. verdict \in {"Unknown", "True", "False"}
  BY Zenon
<1>9. \/ Checked(v, new, env) = new
      \/ Checked(v, new, env) = [new EXCEPT !.checked = v.spec.gen, !.possible = verdict]
  BY Zenon DEF Checked
<1> HIDE DEF verdict
<1>10. LET status == Checked(v, new, env) IN
       /\ status \in StatusRecords
       /\ status.state = new.state /\ status.step = new.step
  BY <1>6, <1>7, <1>8, <1>9, Zenon DEF StatusRecords
<1> QED BY <1>6, <1>10 DEF new, performs

(* What syncing the components leaves of StatefulSets and of the cluster.      *)
StatefulSets == [version : 0..MaxGeneration, up : BOOLEAN, onDelete : BOOLEAN]
Clusters == [safeMode : BOOLEAN, readOnly : BOOLEAN, cells : BOOLEAN, healthy : BOOLEAN]

(* The StatefulSet that a sync writes (server.go Sync) is well typed.         *)
LEMMA SyncedTyped ==
  ASSUME NEW v \in Resources, NEW c \in Components, sts[c] \in StatefulSets
  PROVE  Synced(v, c) \in StatefulSets
<1>1. v.spec.version[c] \in 0..MaxGeneration
  BY ClusterAssumption DEF Resources, Specs, Versions
<1>2. IsUp(v, c) \in BOOLEAN
  BY DEF IsUp
<1>3. Built(v, c) \in StatefulSets
  BY <1>1, <1>2 DEF Built, StatefulSets
<1>4. /\ [Built(v, c) EXCEPT !.onDelete = TRUE] \in StatefulSets
      /\ [Built(v, c) EXCEPT !.up = FALSE] \in StatefulSets
  BY <1>3, Zenon DEF StatefulSets
<1> QED BY <1>3, <1>4, Zenon DEF Synced

(* What a step does to YTsaurus only sets its flags.                          *)
LEMMA EffectTyped ==
  ASSUME yt \in Clusters, NEW step
  PROVE  Effect(step) \in Clusters
BY Zenon DEF Effect, Clusters

(* What a reconcile acts on, and with which failures.                         *)
Reads(v, env) == v \in {cr, old} /\ env.reach \subseteq Components

(* A loop over the components that an error ends has reached some of them.    *)
LEMMA ReachTyped == \A reach \in Prefixes : reach \subseteq Components
BY ClusterAssumption DEF Prefixes, Components

(* A loop that no error ends has reached all components.                      *)
LEMMA AllReached == Components \in Prefixes
<1>1. Len(Loop) \in 0..Len(Loop) /\ DOMAIN Loop = 1..Len(Loop)
  BY ClusterAssumption
<1> QED BY <1>1, Zenon DEF Prefixes, Components

(* Moving the cluster to another state keeps the types, if it neither begins  *)
(* nor closes a session.                                                      *)
LEMMA MoveTyped ==
  ASSUME TypeOK, NEW v, NEW env, Reads(v, env), NEW state \in States,
         v.status.state \in Sessions <=> state \in Sessions, MoveTo(v, state, env)
  PROVE  TypeOK'
<1>1. v \in Resources /\ RecordsStep(v)
  BY DEF Reads, TypeOK
<1>2. /\ EnterState(v, state) \in StatusRecords
      /\ EnterState(v, state).state \in Sessions <=> EnterState(v, state).step.update # ""
  BY <1>1, EnterStateTyped, Zenon DEF RecordsStep, Update
<1>3. cr' \in Resources /\ RecordsStep(cr') /\ old' \in Resources /\ RecordsStep(old')
  BY <1>2, SaveTyped, Zenon DEF MoveTo, Reads
<1> QED BY <1>3 DEF MoveTo, TypeOK

(* So does moving an update to its next step.                                 *)
LEMMA StepTyped ==
  ASSUME TypeOK, NEW v, NEW env, Reads(v, env), IsUpdating(v), NEW step \in Steps \ {""},
         Save(v, EnterStep(v, step), env), UNCHANGED <<sts, pods, yt, probed, faults>>
  PROVE  TypeOK'
<1>1. v \in Resources /\ v.status.state \in Sessions
  BY Zenon DEF Reads, TypeOK, IsUpdating, Sessions
<1>2. /\ EnterStep(v, step) \in StatusRecords
      /\ EnterStep(v, step).state \in Sessions <=> EnterStep(v, step).step.update # ""
  BY <1>1, EnterStepTyped, Zenon
<1>3. cr' \in Resources /\ RecordsStep(cr') /\ old' \in Resources /\ RecordsStep(old')
  BY <1>2, SaveTyped, Zenon DEF Reads
<1> QED BY <1>3, Zenon DEF TypeOK

(* ClearUpdateStatus leaves a well-typed status without a step.               *)
LEMMA ClearedTyped ==
  ASSUME NEW v \in Resources
  PROVE  LET new == [v.status EXCEPT !.state = "Preparing", !.step = Cleared] IN
         /\ new \in StatusRecords /\ new.state = "Preparing"
         /\ new.step = Cleared /\ new.step.update = ""
<1> DEFINE new == [v.status EXCEPT !.state = "Preparing", !.step = Cleared]
<1>1. Cleared \in StepRecords /\ Cleared.update = ""
  BY DEF StepRecords, Cleared
<1>2. new \in StatusRecords /\ new.state = "Preparing" /\ new.step = Cleared
  BY <1>1, Zenon DEF Resources, StatusRecords, States
<1> QED BY <1>1, <1>2, Zenon

(* A reconcile that moves the state machine keeps the types.                  *)
LEMMA DecideTyped ==
  ASSUME TypeOK, NEW v, NEW env, Reads(v, env), Decide(v, env)
  PROVE  TypeOK'
<1>0. v \in Resources /\ RecordsStep(v)
  BY DEF Reads, TypeOK
<1>1. CASE Create(v, env)
  BY <1>1, MoveTyped DEF Create, States, Sessions
<1>2. CASE Prepare(v, env)
  BY <1>2, MoveTyped DEF Prepare, States, Sessions
<1>3. CASE Settle(v, env)
  <2>1. PICK batch \in Batches(v) :
          /\ Save(v, SettledStatus(v, batch), env)
          /\ probed' = (probed /\ ~(env.write /\ SettledStatus(v, batch).state = "Updating"))
    BY <1>3 DEF Settle
  <2>2. batch \in SUBSET Components
    BY DEF Batches, Needy
  <2> DEFINE new == SettledStatus(v, batch)
  <2>3. /\ new \in StatusRecords
        /\ new.state \in States \ {"UpdateFinished", "UpdateCanceled"}
        /\ new.state # "Updating" => new.step = v.status.step
        /\ new.state = "Updating" => new.step = [v.status.step EXCEPT !.update = "None", !.updating = batch]
    BY <1>0, <1>3, <2>2, SettledTyped, Zenon DEF Settle
  <2> HIDE DEF new
  <2>4. v.status.step.update = "" /\ v.status.step \in StepRecords
    BY <1>0, <1>3, Zenon DEF Settle, IsReadyToUpdate, RecordsStep, Sessions, Update, Resources, StatusRecords
  <2>5. new.state \in Sessions <=> new.step.update # ""
    BY <2>3, <2>4, Zenon DEF Sessions, StepRecords
  <2>6. cr' \in Resources /\ RecordsStep(cr') /\ old' \in Resources /\ RecordsStep(old')
    BY <2>1, <2>3, <2>5, SaveTyped, Zenon DEF Reads, new
  <2>7. probed' \in BOOLEAN
    BY <2>1
  <2> QED BY <1>3, <2>6, <2>7 DEF Settle, TypeOK
<1>4. CASE Advance(v, env)
  <2>1. PICK step \in FlowSteps(FlowInput(v)) : Save(v, EnterStep(v, step), env)
    BY <1>4 DEF Advance
  <2>2. step \in Steps \ {""}
    BY <1>0, FlowTyped, Zenon
  <2> QED BY <1>4, <2>1, <2>2, StepTyped, Zenon DEF Advance, Executes
<1>5. CASE GiveUp(v, env)
  <2>1. "ImpossibleToStart" \in Steps
    <3>1. "ImpossibleToStart" \in Indexed(FlowInput(v))
      BY <1>5 DEF GiveUp, Executes, Impossible, Indexed, If
    <3> QED BY <1>0, <3>1, FlowTyped, Zenon
  <2> QED BY <1>5, <2>1, StepTyped, Zenon DEF GiveUp, Executes
<1>6. CASE Finish(v, env)
  BY <1>6, MoveTyped DEF Finish, Executes, IsUpdating, States, Sessions
<1>7. CASE Cancel(v, env)
  BY <1>7, MoveTyped DEF Cancel, Executes, IsUpdating, States, Sessions
<1>8. CASE Clear(v, env)
  <2> DEFINE new == [v.status EXCEPT !.state = "Preparing", !.step = Cleared]
  <2>0. new \in StatusRecords /\ new.state = "Preparing" /\ new.step.update = ""
    BY <1>0, ClearedTyped, Zenon
  <2> HIDE DEF new
  <2>1. new \in StatusRecords /\ (new.state \in Sessions <=> new.step.update # "")
    BY <2>0, Zenon DEF Sessions
  <2>2. cr' \in Resources /\ RecordsStep(cr') /\ old' \in Resources /\ RecordsStep(old')
    BY <1>8, <2>1, SaveTyped, Zenon DEF Reads, Clear, new
  <2> QED BY <1>8, <2>2 DEF Clear, TypeOK
<1> QED BY <1>1, <1>2, <1>3, <1>4, <1>5, <1>6, <1>7, <1>8 DEF Decide

(* A reconcile that syncs components keeps the types.                         *)
LEMMA WorkTyped ==
  ASSUME TypeOK, NEW v, NEW env, Reads(v, env), Work(v, env)
  PROVE  TypeOK'
<1>0. v \in Resources /\ RecordsStep(v) /\ Works(v, env)
  BY DEF Reads, TypeOK, Work
<1> DEFINE new == Checked(v, Worked(v, env), env)
<1>1. new \in StatusRecords /\ (new.state \in Sessions <=> new.step.update # "")
  BY <1>0, WorkedTyped, Zenon DEF Reads, RecordsStep, Update
<1> HIDE DEF new
<1>2. cr' \in Resources /\ RecordsStep(cr') /\ old' \in Resources /\ RecordsStep(old')
  BY <1>1, SaveTyped, Zenon DEF Work, Reads, new
<1>3. sts' \in [Components -> StatefulSets]
  <2>1. sts \in [Components -> StatefulSets]
    BY DEF TypeOK, StatefulSets
  <2>2. \A c \in Components : Synced(v, c) \in StatefulSets
    BY <1>0, <2>1, SyncedTyped
  <2> QED BY <2>1, <2>2, Zenon DEF Work
<1>4. yt' \in Clusters
  BY EffectTyped DEF Work, TypeOK, Clusters
<1>5. probed' \in BOOLEAN
  BY DEF Work
<1> QED BY <1>2, <1>3, <1>4, <1>5 DEF Work, TypeOK, StatefulSets, Clusters

(* A new resource is well typed.                                              *)
LEMMA TypeInit == Init => TypeOK
<1> SUFFICES ASSUME Init PROVE TypeOK
  OBVIOUS
<1> DEFINE spec == [gen |-> 1, version |-> [c \in Components |-> 1], plan |-> Components,
                    onDelete |-> {}, shutdown |-> "None"]
           status == [state |-> "Created", step |-> Cleared, possible |-> "Unknown",
                      checked |-> 0, observed |-> 0]
<1>a. spec \in Specs
  <2>1. 1 \in 1..MaxGeneration
    BY ClusterAssumption
  <2>2. spec.version \in [Components -> Versions]
    BY <2>1 DEF Versions
  <2> QED BY <2>1, <2>2 DEF Specs, Shutdowns
<1>b. Cleared \in StepRecords /\ Cleared.update = ""
  BY DEF StepRecords, Cleared
<1>c. status \in StatusRecords /\ status.state = "Created" /\ status.step = Cleared
  <2>1. 0 \in 0..MaxGeneration
    BY ClusterAssumption
  <2> QED BY <1>b, <2>1, Zenon DEF StatusRecords, States
<1>d. cr = [spec |-> spec, status |-> status]
  BY DEF Init
<1> HIDE DEF spec, status
<1>1. cr \in Resources /\ cr.status.state = "Created" /\ Update(cr) = ""
  BY <1>a, <1>b, <1>c, <1>d, Zenon DEF Resources, Update
<1>2. RecordsStep(cr) /\ old = cr
  BY <1>1, Zenon DEF Init, RecordsStep, Sessions
<1>3. 0 \in 0..MaxGeneration /\ 0 \in 0..MaxFaults
  BY ClusterAssumption
<1> QED BY <1>1, <1>2, <1>3, Zenon DEF Init, TypeOK, NoPods

(* Pods and the health of the cluster keep the types.                         *)
LEMMA EnvironmentTyped ==
  ASSUME TypeOK,
         \/ \E c \in Components : PodsVanish(c) \/ PodsStart(c) \/ PodsProgress(c) \/ PodsFail(c)
         \/ HealthLost \/ HealthRestored
  PROVE  TypeOK'
<1> DEFINE Phases == {"none", "pending", "running", "ready"}
           PodSets == [phase : Phases, version : 0..MaxGeneration]
<1>0. pods \in [Components -> PodSets] /\ sts \in [Components -> StatefulSets]
  BY DEF TypeOK, StatefulSets
<1>1. ASSUME NEW c \in Components, NEW phase \in Phases, NEW version \in 0..MaxGeneration,
             MovePods(c, phase, version), faults' \in 0..MaxFaults
      PROVE  TypeOK'
  <2>1. pods' \in [Components -> PodSets]
    BY <1>0, <1>1 DEF MovePods
  <2> QED BY <1>1, <2>1 DEF MovePods, TypeOK
<1>2. ASSUME NEW c \in Components, PodsVanish(c) \/ PodsStart(c) \/ PodsProgress(c) \/ PodsFail(c)
      PROVE  TypeOK'
  <2>1. sts[c].version \in 0..MaxGeneration /\ pods[c].version \in 0..MaxGeneration
        /\ 0 \in 0..MaxGeneration
    BY <1>0, ClusterAssumption DEF StatefulSets
  <2>2. faults' \in 0..MaxFaults
    <3>1. faults' = faults \/ (faults < MaxFaults /\ faults' = faults + 1)
      BY <1>2 DEF PodsVanish, PodsStart, PodsProgress, PodsFail
    <3> QED BY <3>1, ClusterAssumption DEF TypeOK
  <2> QED BY <1>1, <1>2, <2>1, <2>2 DEF PodsVanish, PodsStart, PodsProgress, PodsFail
<1>3. CASE HealthLost \/ HealthRestored
  <2>1. faults' \in 0..MaxFaults
    BY <1>3, ClusterAssumption DEF TypeOK, HealthLost, HealthRestored
  <2>2. yt' \in Clusters
    BY <1>3, Zenon DEF TypeOK, HealthLost, HealthRestored, Clusters
  <2> QED BY <1>3, <2>1, <2>2 DEF HealthLost, HealthRestored, TypeOK, Clusters
<1> QED BY <1>2, <1>3

(* An edit changes the specification only.                                    *)
LEMMA EditFacts ==
  ASSUME TypeOK, NEW e \in Edits, Edit(e)
  PROVE  /\ cr' \in Resources /\ cr'.status = cr.status
         /\ cr'.spec.plan = e.plan /\ cr'.spec.onDelete = e.onDelete
         /\ cr'.spec.shutdown = e.shutdown
<1> DEFINE spec == [gen |-> cr.spec.gen + 1, plan |-> e.plan, onDelete |-> e.onDelete,
                    shutdown |-> e.shutdown,
                    version |-> [c \in Components |->
                                   IF c \in e.touch THEN cr.spec.gen + 1 ELSE cr.spec.version[c]]]
<1>1. e.plan \in SUBSET Components /\ e.onDelete \in SUBSET Components /\ e.shutdown \in Shutdowns
  BY EditAssumption
<1>2. cr.spec.gen \in 1..MaxGeneration /\ cr.spec.version \in [Components -> Versions]
  BY DEF TypeOK, Resources, Specs
<1>3. cr.spec.gen + 1 \in 1..MaxGeneration
  BY <1>2, ClusterAssumption DEF Edit
<1>4. spec.version \in [Components -> Versions]
  BY <1>2, <1>3 DEF Versions
<1>5. spec \in Specs
  BY <1>1, <1>3, <1>4 DEF Specs
<1>6. cr' = [cr EXCEPT !.spec = spec]
  BY DEF Edit
<1>7. spec.plan = e.plan /\ spec.onDelete = e.onDelete /\ spec.shutdown = e.shutdown
  OBVIOUS
<1> HIDE DEF spec
<1> QED BY <1>5, <1>6, <1>7 DEF TypeOK, Resources

(* Every step keeps the types.                                                *)
LEMMA TypeNext == TypeOK /\ [Next]_vars => TypeOK'
<1> SUFFICES ASSUME TypeOK, [Next]_vars PROVE TypeOK'
  OBVIOUS
<1>1. ASSUME NEW v \in {cr, old}, NEW write, NEW call, NEW reach \in Prefixes,
             LET env == [write |-> write, call |-> call, reach |-> reach]
             IN Decide(v, env) \/ Work(v, env)
      PROVE  TypeOK'
  <2> DEFINE env == [write |-> write, call |-> call, reach |-> reach]
  <2>1. env.reach \subseteq Components
    BY ReachTyped
  <2> HIDE DEF env
  <2>2. Reads(v, env)
    BY <2>1 DEF Reads
  <2> QED BY <1>1, <2>2, DecideTyped, WorkTyped DEF env
<1>3. CASE \E e \in Edits : Edit(e)
  <2>1. PICK e \in Edits : Edit(e)
    BY <1>3
  <2>2. cr' \in Resources /\ cr'.status = cr.status
    BY <2>1, EditFacts
  <2> QED BY <2>1, <2>2, Zenon DEF Edit, TypeOK, RecordsStep, Update
<1>4. CASE UNCHANGED vars
  BY <1>4 DEF vars, TypeOK
<1> QED BY <1>1, <1>3, <1>4, AllReached, EnvironmentTyped, Zenon DEF Next, Rest

(* All variables keep their types (UpdateStatus and the rest of the resource   *)
(* in api/v1/ytsaurus_types.go).                                               *)
THEOREM TypeCorrect == Spec => []TypeOK
BY TypeInit, TypeNext, PTL DEF Spec

-----------------------------------------------------------------------------
(* What an update switches on it switches off: Inv is inductive, as long as    *)
(* the plan and the maintenance stay as they are during an update.             *)

(* Steps that are over when they are among the steps done.                     *)
Recorded == MasterScripts \cup (ClientSteps \ {"PossibilityCheck"})

Clean == ~yt.safeMode /\ ~yt.readOnly /\ yt.cells
SameFlags ==
  yt'.safeMode = yt.safeMode /\ yt'.readOnly = yt.readOnly /\ yt'.cells = yt.cells

(* Both steps of a pair are confirmed by a condition.                         *)
LEMMA PairRecorded ==
  ASSUME NEW first, NEW last, Paired(first, last)
  PROVE  first \in Recorded /\ last \in Recorded /\ first # last
BY DEF Paired, Recorded, MasterScripts, ClientSteps

(* Such a step is over exactly when its condition is set.                     *)
LEMMA SatisfiedRecorded ==
  ASSUME NEW v, NEW env, Update(v) \in Recorded
  PROVE  Satisfied(v, env) <=> Update(v) \in v.status.step.done
BY DEF Satisfied, Recorded, MasterScripts, ClientSteps

(* The current step is inside an open pair, or the pair has not begun; the     *)
(* pair's last step is not over, so the flow has not gone past it.             *)
LEMMA PairOpen ==
  ASSUME NEW v, NEW env, NEW first, NEW last, Paired(first, last), Within(v, first, last),
         Satisfied(v, env), Update(v) \in FlowSteps(FlowInput(v))
  PROVE  Order(FlowInput(v), Update(v)) < Order(FlowInput(v), last)
<1>1. Update(v) # last
  BY PairRecorded, SatisfiedRecorded DEF Within
<1>2. Order(FlowInput(v), Update(v)) # Order(FlowInput(v), last)
  BY <1>1, PairOrder DEF Within
<1> QED BY <1>2, OrderIsNat DEF Within

(* Outside of every pair nothing is switched on.                              *)
LEMMA NoPairNoFlag ==
  ASSUME NEW v, Bracketed(v), yt \in Clusters,
         \A first, last : Paired(first, last) => ~Within(v, first, last)
  PROVE  Clean
BY DEF Bracketed, Paired, Clean, Clusters

(* If every open pair stays open, what is switched on stays bracketed.        *)
LEMMA CarryPairs ==
  ASSUME NEW v, NEW w, Bracketed(v), SameFlags,
         \A first, last : Paired(first, last) /\ Within(v, first, last) => Within(w, first, last)
  PROVE  /\ yt'.safeMode => Within(w, "WaitingForSafeModeEnabled", "WaitingForSafeModeDisabled")
         /\ yt'.readOnly => \/ Within(w, "WaitingForSnapshots", "WaitingForMasterExitReadOnly")
                            \/ Within(w, "WaitingForMasterCellsEnterReadOnly",
                                          "WaitingForMasterCellsExitReadOnly")
         /\ ~yt'.cells => Within(w, "WaitingForTabletCellsRemovingStart", "WaitingForTabletCellsRecovery")
BY DEF Bracketed, Paired, SameFlags

(* A step that leaves the resource and the flags of the cluster as they are.    *)
LEMMA Quiet ==
  ASSUME Inv, cr' = cr, old' \in {cr, old}, SameFlags
  PROVE  Inv'
<1>1. SameStep'
  BY DEF Inv, SameStep, IsUpdating, Update
<1>2. IsUpdating(cr') => Executes(cr') /\ DoneSoFar(cr')
  BY DEF Inv
<1>3. IsUpdating(cr') => Bracketed(cr)'
  BY CarryPairs DEF Inv, Bracketed
<1>4. Undone'
  BY DEF Inv, Undone, SameFlags
<1> QED BY <1>1, <1>2, <1>3, <1>4 DEF Inv

(* A reconcile that fails to write leaves the resource alone; the next one may  *)
(* read what this one read.                                                    *)
LEMMA Unwritten ==
  ASSUME TypeOK, Inv, NEW v \in {cr, old}, NEW new, NEW env, Save(v, new, env), ~env.write, yt' = yt
  PROVE  Inv'
BY Quiet DEF Save, SameFlags

(* A reconcile that writes has read the current resource.                       *)
LEMMA Written ==
  ASSUME TypeOK, NEW v \in {cr, old}, NEW new \in StatusRecords, NEW env, Save(v, new, env), env.write
  PROVE  /\ v = cr /\ old' = cr
         /\ cr' \in Resources /\ cr'.spec = cr.spec /\ cr'.status = new
BY DEF Save, TypeOK, Resources

(* Outside an update everything is switched off and nothing is recorded.        *)
LEMMA StateInv ==
  ASSUME TypeOK, Inv, NEW v, NEW env, Reads(v, env), NEW state \in States \ Sessions,
         v.status.state \notin Sessions, MoveTo(v, state, env)
  PROVE  Inv'
<1> DEFINE new == EnterState(v, state)
<1>0. v \in Resources /\ v \in {cr, old}
  BY DEF Reads, TypeOK
<1>1. new \in StatusRecords /\ new.state = state /\ new.step = v.status.step
  BY <1>0, EnterStateTyped
<1>2. Save(v, new, env) /\ yt' = yt
  BY DEF MoveTo
<1> HIDE DEF new
<1>3. CASE ~env.write
  BY <1>0, <1>2, <1>3, Unwritten
<1>4. CASE env.write
  <2>1. v = cr /\ old' = cr /\ cr'.status = new
    BY <1>0, <1>1, <1>2, <1>4, Written
  <2>2. ~IsUpdating(cr') /\ ~IsUpdating(old') /\ ~IsUpdating(cr)
    BY <1>1, <2>1 DEF IsUpdating, Sessions
  <2>3. cr'.status.step.done = {}
    BY <1>1, <2>1 DEF Inv
  <2> QED BY <1>2, <2>2, <2>3 DEF Inv, SameStep, Undone
<1> QED BY <1>3, <1>4

(* Clearing the status of an update that is over preserves the invariant.     *)
LEMMA ClearInv ==
  ASSUME TypeOK, Inv, NEW v, NEW env, Reads(v, env), Clear(v, env)
  PROVE  Inv'
<1> DEFINE new == [v.status EXCEPT !.state = "Preparing", !.step = Cleared]
<1>0. v \in Resources /\ v \in {cr, old}
  BY DEF Reads, TypeOK
<1>1. new \in StatusRecords /\ new.state = "Preparing" /\ new.step = Cleared
  BY <1>0, ClearedTyped, Zenon
<1>2. Save(v, new, env) /\ yt' = yt
  BY DEF Clear
<1> HIDE DEF new
<1>3. CASE ~env.write
  BY <1>0, <1>2, <1>3, Unwritten
<1>4. CASE env.write
  <2>1. v = cr /\ old' = cr /\ cr'.status = new
    BY <1>0, <1>1, <1>2, <1>4, Written
  <2>2. ~IsUpdating(cr') /\ ~IsUpdating(old') /\ ~IsUpdating(cr)
    BY <1>1, <2>1 DEF IsUpdating, Clear
  <2>3. cr'.status.step.done = {}
    <3>1. Cleared.done = {}
      BY DEF Cleared
    <3> QED BY <1>1, <2>1, <3>1
  <2> QED BY <1>2, <2>2, <2>3 DEF Inv, SameStep, Undone
<1> QED BY <1>3, <1>4

(* An update begins at None, with nothing done and nothing switched on.          *)
LEMMA SettleInv ==
  ASSUME TypeOK, Inv, NEW v, NEW env, Reads(v, env), Settle(v, env)
  PROVE  Inv'
<1>0. v \in Resources /\ v \in {cr, old} /\ RecordsStep(v) /\ IsReadyToUpdate(v)
  BY DEF Reads, TypeOK, Settle
<1>1. PICK batch \in Batches(v) : Save(v, SettledStatus(v, batch), env)
  BY DEF Settle
<1>2. batch \in SUBSET Components
  BY DEF Batches, Needy
<1> DEFINE new == SettledStatus(v, batch)
<1>3. /\ new \in StatusRecords
      /\ new.state \in States \ {"UpdateFinished", "UpdateCanceled"}
      /\ new.state # "Updating" => new.step = v.status.step
      /\ new.state = "Updating" => new.step = [v.status.step EXCEPT !.update = "None", !.updating = batch]
  BY <1>0, <1>2, SettledTyped, Zenon
<1>4. Save(v, new, env) /\ yt' = yt
  BY <1>1 DEF Settle
<1> HIDE DEF new
<1>5. CASE ~env.write
  BY <1>0, <1>4, <1>5, Unwritten
<1>6. CASE env.write
  <2>1. v = cr /\ old' = cr /\ cr'.status = new
    BY <1>0, <1>3, <1>4, <1>6, Written
  <2>2. ~IsUpdating(cr) /\ ~IsUpdating(old') /\ cr.status.state \notin Sessions
    BY <1>0, <2>1 DEF IsUpdating, IsReadyToUpdate, Sessions
  <2>3. Clean
    BY <2>2 DEF Inv, Undone, Clean
  <2>4. cr.status.step.done = {} /\ cr.status.step \in StepRecords
    BY <2>2 DEF Inv, TypeOK, Resources, StatusRecords
  <2>5. CASE new.state # "Updating"
    <3>1. ~IsUpdating(cr') /\ cr'.status.step.done = {}
      BY <1>3, <2>1, <2>4, <2>5 DEF IsUpdating
    <3> QED BY <1>4, <2>2, <2>3, <3>1 DEF Inv, SameStep, Undone, Clean
  <2>6. CASE new.state = "Updating"
    <3>1. cr'.status.state = "Updating" /\ Update(cr') = "None" /\ cr'.status.step.done = {}
      <4>1. new.step = [cr.status.step EXCEPT !.update = "None", !.updating = batch]
        BY <1>3, <2>1, <2>6
      <4>2. new.step.update = "None" /\ new.step.done = {}
        BY <2>4, <4>1, Zenon DEF StepRecords
      <4> QED BY <2>1, <2>6, <4>2 DEF Update
    <3>2. Executes(cr') /\ DoneSoFar(cr')
      BY <3>1, FlowBegins DEF Executes, IsUpdating, DoneSoFar, Indexed
    <3>3. Bracketed(cr)'
      BY <1>4, <2>3 DEF Bracketed, Clean
    <3> QED BY <2>2, <3>1, <3>2, <3>3 DEF Inv, SameStep, Undone, IsUpdating, Sessions
  <2> QED BY <2>5, <2>6
<1> QED BY <1>5, <1>6

(* The flow goes on by one step, which stays inside every pair that is open.    *)
LEMMA AdvanceInv ==
  ASSUME TypeOK, Inv, NEW v, NEW env, Reads(v, env), Advance(v, env)
  PROVE  Inv'
<1>0. /\ v \in Resources /\ v \in {cr, old}
      /\ Executes(v) /\ Satisfied(v, env) /\ Update(v) # "ImpossibleToStart" /\ yt' = yt
  BY DEF Reads, TypeOK, Advance
<1>1. PICK step \in FlowSteps(FlowInput(v)) :
        Follows(FlowInput(v), Update(v), step) /\ Save(v, EnterStep(v, step), env)
  BY DEF Advance
<1> DEFINE new == EnterStep(v, step)
           in == FlowInput(v)
<1>2. step \in Steps
  BY <1>0, FlowTyped, Zenon
<1>3. /\ new \in StatusRecords /\ new.state = v.status.state /\ new.step.update = step
      /\ new.step.updating = v.status.step.updating /\ new.step.done = v.status.step.done
  BY <1>0, <1>2, EnterStepTyped, Zenon
<1>4. Save(v, new, env)
  BY <1>1
<1> HIDE DEF new
<1>5. CASE ~env.write
  BY <1>0, <1>4, <1>5, Unwritten
<1>6. CASE env.write
  <2>1. v = cr /\ old' = cr /\ cr'.spec = cr.spec /\ cr'.status = new
    BY <1>0, <1>3, <1>4, <1>6, Written
  <2>2. FlowInput(cr') = in
    BY <1>3, <2>1, Zenon DEF FlowInput, ShouldRunPreUpdateStepsFor
  <2>3. IsUpdating(cr') /\ IsUpdating(cr) /\ Update(cr') = step /\ cr'.status.step.done = cr.status.step.done
    BY <1>0, <1>3, <2>1 DEF Executes, IsUpdating, Update
  <2>4. Update(v) \in FlowSteps(in)
    BY <1>0 DEF Executes, Indexed, If
  <2>5. Executes(cr')
    BY <2>2, <2>3 DEF Executes, Indexed
  <2>6. DoneSoFar(v) /\ Bracketed(v)
    BY <2>1, <2>3 DEF Inv
  <2>7. DoneSoFar(cr')
    <3>1. Order(in, Update(v)) < Order(in, step)
      BY <1>1 DEF Follows
    <3> HIDE DEF in
    <3>2. \A s \in v.status.step.done : s \in FlowSteps(in) /\ Order(in, s) <= Order(in, step)
      BY <2>6, <3>1, OrderIsNat DEF DoneSoFar, in
    <3> QED BY <2>1, <2>2, <2>3, <3>2 DEF DoneSoFar
  <2>8. ASSUME NEW first, NEW last, Paired(first, last), Within(v, first, last)
        PROVE  Within(cr', first, last)
    <3>1. /\ last \in FlowSteps(in) /\ last \notin v.status.step.done
          /\ Order(in, first) <= Order(in, Update(v))
      BY <2>8 DEF Within
    <3>2. Order(in, Update(v)) < Order(in, last)
      BY <1>0, <2>4, <2>8, PairOpen
    <3>3. Order(in, Update(v)) < Order(in, step) /\ Order(in, step) <= Order(in, last)
      BY <1>1, <3>1, <3>2 DEF Follows
    <3> HIDE DEF in
    <3>4. Order(in, first) <= Order(in, step)
      BY <3>1, <3>3, OrderIsNat
    <3> QED BY <2>1, <2>2, <2>3, <3>1, <3>3, <3>4 DEF Within
  <2>9. Bracketed(cr)'
    BY <1>0, <2>6, <2>8, CarryPairs DEF Bracketed, SameFlags
  <2>10. SameStep'
    <3>1. Update(v) \in Recorded => Update(v) \in v.status.step.done
      BY <1>0, SatisfiedRecorded
    <3> QED BY <2>1, <3>1 DEF SameStep, Recorded
  <2> QED BY <2>3, <2>5, <2>7, <2>9, <2>10 DEF Inv, Undone, IsUpdating, Sessions
<1> QED BY <1>5, <1>6

(* No pair has begun when the possibility check fails.                          *)
LEMMA GiveUpInv ==
  ASSUME TypeOK, Inv, NEW v, NEW env, Reads(v, env), GiveUp(v, env)
  PROVE  Inv'
<1>0. /\ v \in Resources /\ v \in {cr, old}
      /\ Executes(v) /\ Update(v) = "PossibilityCheck" /\ yt' = yt
  BY DEF Reads, TypeOK, GiveUp, Impossible
<1> DEFINE new == EnterStep(v, "ImpossibleToStart")
           in == FlowInput(v)
<1>1. "PossibilityCheck" \in FlowSteps(in) /\ "ImpossibleToStart" \in Indexed(in)
  BY <1>0 DEF Executes, Indexed, If
<1>2. "ImpossibleToStart" \in Steps
  BY <1>0, <1>1, FlowTyped, Zenon
<1>3. /\ new \in StatusRecords /\ new.state = v.status.state /\ new.step.update = "ImpossibleToStart"
      /\ new.step.updating = v.status.step.updating /\ new.step.done = v.status.step.done
  BY <1>0, <1>2, EnterStepTyped, Zenon
<1>4. Save(v, new, env)
  BY DEF GiveUp
<1> HIDE DEF new
<1>5. CASE ~env.write
  BY <1>0, <1>4, <1>5, Unwritten
<1>6. CASE env.write
  <2>1. v = cr /\ old' = cr /\ cr'.spec = cr.spec /\ cr'.status = new
    BY <1>0, <1>3, <1>4, <1>6, Written
  <2>2. FlowInput(cr') = in
    BY <1>3, <2>1, Zenon DEF FlowInput, ShouldRunPreUpdateStepsFor
  <2>3. /\ IsUpdating(cr') /\ IsUpdating(cr) /\ Update(cr') = "ImpossibleToStart"
        /\ cr'.status.step.done = v.status.step.done
    BY <1>0, <1>3, <2>1 DEF Executes, IsUpdating, Update
  <2>4. DoneSoFar(v) /\ Bracketed(v)
    BY <2>1, <2>3 DEF Inv
  <2>5. Order(in, "PossibilityCheck") <= Order(in, "ImpossibleToStart")
    <3>1. ~MastersMaintenance(in)
      BY <1>1 DEF FlowSteps, MasterMaintenanceFlow, If
    <3> QED BY <3>1 DEF Order, TreeOrder
  <2>6. DoneSoFar(cr')
    <3> HIDE DEF in
    <3>1. \A s \in v.status.step.done :
            s \in FlowSteps(in) /\ Order(in, s) <= Order(in, "ImpossibleToStart")
      BY <1>0, <2>4, <2>5, OrderIsNat DEF DoneSoFar, in
    <3> QED BY <2>2, <2>3, <3>1 DEF DoneSoFar
  <2>7. ASSUME NEW first, NEW last, Paired(first, last), Within(v, first, last) PROVE FALSE
    <3>1. Order(in, "PossibilityCheck") < Order(in, first) /\ Order(in, first) <= Order(in, "PossibilityCheck")
      BY <1>0, <1>1, <2>7, PairOrder DEF Within
    <3> HIDE DEF in
    <3> QED BY <3>1, OrderIsNat
  <2>8. Clean
    BY <2>4, <2>7, NoPairNoFlag DEF TypeOK, Clusters
  <2>9. Bracketed(cr)'
    BY <1>0, <2>8 DEF Bracketed, Clean
  <2>10. SameStep'
    BY <1>0, <2>1 DEF SameStep, MasterScripts
  <2>11. Executes(cr')
    BY <1>1, <2>2, <2>3 DEF Executes
  <2> QED BY <2>3, <2>6, <2>9, <2>10, <2>11 DEF Inv, Undone, IsUpdating, Sessions
<1> QED BY <1>5, <1>6

(* An update ends, finished or canceled, outside all pairs.                      *)
LEMMA EndInv ==
  ASSUME TypeOK, Inv, NEW v, NEW env, Reads(v, env), Finish(v, env) \/ Cancel(v, env)
  PROVE  Inv'
<1> DEFINE in == FlowInput(v)
<1>0. /\ v \in Resources /\ v \in {cr, old}
      /\ Executes(v) /\ Satisfied(v, env) /\ yt' = yt
      /\ \/ Update(v) = "ImpossibleToStart"
         \/ Update(v) # "ImpossibleToStart" /\ IsLast(in, Update(v))
  BY DEF Reads, TypeOK, Finish, Cancel, MoveTo
<1>1. PICK state \in {"UpdateFinished", "UpdateCanceled"} : Save(v, EnterState(v, state), env)
  BY DEF Finish, Cancel, MoveTo
<1> DEFINE new == EnterState(v, state)
<1>2. new \in StatusRecords /\ new.state = state
  <2>1. state \in States
    BY DEF States
  <2> QED BY <1>0, <2>1, EnterStateTyped
<1>3. Save(v, new, env)
  BY <1>1
<1> HIDE DEF new
<1>4. CASE ~env.write
  BY <1>0, <1>3, <1>4, Unwritten
<1>5. CASE env.write
  <2>1. v = cr /\ old' = cr /\ cr'.status = new
    BY <1>0, <1>2, <1>3, <1>5, Written
  <2>2. ~IsUpdating(cr') /\ cr'.status.state \in Sessions /\ IsUpdating(cr)
    BY <1>0, <1>2, <2>1 DEF IsUpdating, Sessions, Executes
  <2>3. Bracketed(v)
    BY <2>1, <2>2 DEF Inv
  <2>4. ASSUME NEW first, NEW last, Paired(first, last), Within(v, first, last) PROVE FALSE
    <3>1. last \in FlowSteps(in) /\ Order(in, Update(v)) <= Order(in, last)
      BY <2>4 DEF Within
    <3>2. CASE Update(v) = "ImpossibleToStart"
      <4>1. Order(in, last) < Order(in, Update(v))
        BY <2>4, <3>1, <3>2, PairOrder, Zenon
      <4> HIDE DEF in
      <4> QED BY <3>1, <4>1, OrderIsNat
    <3>3. CASE Update(v) # "ImpossibleToStart" /\ IsLast(in, Update(v))
      <4>1. Update(v) \in FlowSteps(in)
        BY <1>0, <3>3 DEF Executes, Indexed, If
      <4>2. Order(in, Update(v)) < Order(in, last)
        BY <1>0, <2>4, <4>1, PairOpen
      <4>3. Order(in, last) <= Order(in, Update(v))
        BY <3>1, <3>3 DEF IsLast
      <4> HIDE DEF in
      <4> QED BY <4>2, <4>3, OrderIsNat
    <3> QED BY <1>0, <3>2, <3>3
  <2>5. Clean
    BY <2>3, <2>4, NoPairNoFlag DEF TypeOK, Clusters
  <2>6. SameStep'
    <3>1. Update(v) \in Recorded => Update(v) \in v.status.step.done
      BY <1>0, SatisfiedRecorded
    <3> QED BY <2>1, <3>1 DEF SameStep, Recorded
  <2> QED BY <1>0, <2>2, <2>5, <2>6 DEF Inv, Undone, Clean
<1> QED BY <1>4, <1>5

(* What a step switches on is closed by the second step of its pair.             *)
LEMMA EffectFacts ==
  ASSUME yt \in Clusters, NEW step
  PROVE  LET new == Effect(step) IN
         /\ new.safeMode => \/ yt.safeMode /\ step # "WaitingForSafeModeDisabled"
                            \/ step = "WaitingForSafeModeEnabled"
         /\ new.readOnly => \/ /\ yt.readOnly
                               /\ step # "WaitingForMasterExitReadOnly"
                               /\ step # "WaitingForMasterCellsExitReadOnly"
                            \/ step = "WaitingForSnapshots"
                            \/ step = "WaitingForMasterCellsEnterReadOnly"
         /\ ~new.cells => \/ ~yt.cells /\ step # "WaitingForTabletCellsRecovery"
                          \/ step = "WaitingForTabletCellsRemovingStart"
         /\ step \notin Recorded => new = yt
<1>1. step \notin Recorded => Effect(step) = yt
  BY DEF Effect, Recorded, MasterScripts, ClientSteps
<1> QED BY <1>1 DEF Effect, Clusters

(* A pair that begins, or is open and does not end, is open for the resource as  *)
(* a step records itself as done, and also when that record is lost.             *)
LEMMA PairStays ==
  ASSUME NEW v, NEW w, NEW first, NEW last, Paired(first, last), Executes(v), DoneSoFar(v),
         FlowInput(w) = FlowInput(v), Update(w) = Update(v),
         w.status.step.done \subseteq v.status.step.done \cup {Update(v)},
         Update(v) = first \/ (Within(v, first, last)
                               /\ last \notin w.status.step.done \ v.status.step.done)
  PROVE  Within(w, first, last)
<1> DEFINE in == FlowInput(v)
<1>1. CASE Update(v) = first
  <2>1. last \in FlowSteps(in)
    BY <1>1, PairIsWhole DEF Executes
  <2>2. Order(in, first) < Order(in, last)
    BY <2>1, PairOrder
  <2>3. Order(in, first) \in Nat /\ Order(in, last) \in Nat
    BY OrderIsNat
  <2>4. last \notin v.status.step.done
    BY <1>1, <2>2, <2>3 DEF DoneSoFar
  <2>5. last \notin w.status.step.done
    BY <1>1, <2>4, PairRecorded
  <2>6. Order(in, first) <= Order(in, first) /\ Order(in, first) <= Order(in, last)
    BY <2>2, <2>3
  <2> QED BY <1>1, <2>1, <2>5, <2>6 DEF Within
<1>2. CASE Within(v, first, last) /\ last \notin w.status.step.done \ v.status.step.done
  BY <1>2 DEF Within
<1> QED BY <1>1, <1>2

(* The operator's client and the scripts have nothing to do at the step that     *)
(* gives an update up.                                                          *)
LEMMA PerformsWhere ==
  ASSUME NEW v, NEW env, IsUpdating(v), Performs(v, env)
  PROVE  Update(v) # "ImpossibleToStart"
<1>1. CASE ClientWorks(v)
  BY <1>1 DEF ClientWorks, ClientStatus, ClientSteps
<1>2. CASE \E c \in Busy(v, env) : RunsScript(v, c)
  BY <1>2 DEF RunsScript, MasterScripts, ScriptsOf
<1> QED BY <1>1, <1>2 DEF Performs

(* Work at a step of a pair is done at that step of the resource, even by a       *)
(* reconcile that has read an old copy of it.                                    *)
LEMMA PerformsNow ==
  ASSUME TypeOK, SameStep, NEW v \in {cr, old}, NEW env, Works(v, env), Performs(v, env),
         Update(v) \in Recorded
  PROVE  IsUpdating(cr) /\ Update(cr) = Update(v)
<1>1. IsUpdating(v) /\ ~Satisfied(v, env)
  BY PerformsFacts
<1>2. Update(v) \notin v.status.step.done
  BY <1>1, SatisfiedRecorded
<1> QED BY <1>1, <1>2 DEF SameStep, Recorded

(* A reconcile that performs the work of a step preserves the invariant.      *)
LEMMA WorkInv ==
  ASSUME TypeOK, Inv, NEW v, NEW env, Reads(v, env), Work(v, env)
  PROVE  Inv'
<1> DEFINE new == Checked(v, Worked(v, env), env)
           gained == cr'.status.step.done \ cr.status.step.done
<1>0. /\ v \in Resources /\ v \in {cr, old} /\ Works(v, env) /\ yt \in Clusters
      /\ Save(v, new, env) /\ env.reach \subseteq Components
  BY Zenon DEF Reads, TypeOK, Work, Clusters
<1>1. /\ new \in StatusRecords /\ new.state = v.status.state /\ new.step.update = Update(v)
      /\ new.step.updating = v.status.step.updating
      /\ new.step.done = IF Performs(v, env) THEN v.status.step.done \cup {Update(v)}
                                             ELSE v.status.step.done
  BY <1>0, WorkedTyped
<1> HIDE DEF new
<1>2. \/ cr' = cr /\ old' \in {cr, old}
      \/ v = cr /\ old' = cr /\ cr'.spec = cr.spec /\ cr'.status = new
  <2>1. CASE ~env.write
    BY <1>0, <2>1 DEF Save
  <2>2. CASE env.write
    BY <1>0, <1>1, <2>2, Written
  <2> QED BY <2>1, <2>2
<1>3. /\ cr'.spec = cr.spec /\ cr'.status.state = cr.status.state
      /\ cr'.status.step.updating = cr.status.step.updating /\ Update(cr') = Update(cr)
  BY <1>1, <1>2 DEF Update
<1>4. /\ cr.status.step.done \subseteq cr'.status.step.done
      /\ gained # {} => v = cr /\ Performs(v, env) /\ gained = {Update(cr)}
  BY <1>1, <1>2
<1>5. \/ yt' = yt /\ ~Performs(v, env)
      \/ Performs(v, env) /\ yt' = Effect(Update(v))
  BY DEF Work
<1>6. Performs(v, env) => IsUpdating(v) /\ Executes(v) /\ Update(v) # "ImpossibleToStart"
  BY <1>0, PerformsFacts, PerformsWhere
<1>7. Performs(v, env) /\ Update(v) \in Recorded => IsUpdating(cr) /\ Update(cr) = Update(v)
  BY <1>0, PerformsNow DEF Inv
<1>8. Update(v) \notin Recorded => yt' = yt
  BY <1>0, <1>5, EffectFacts
<1>9. SameStep'
  BY <1>2, <1>3 DEF Inv, SameStep, IsUpdating
<1>10. CASE ~IsUpdating(cr)
  <2>1. yt' = yt
    BY <1>5, <1>7, <1>8, <1>10
  <2>2. cr'.status.step.done = cr.status.step.done
    BY <1>4, <1>6, <1>10, Zenon
  <2>3. ~IsUpdating(cr')
    BY <1>3, <1>10 DEF IsUpdating
  <2> QED BY <1>3, <1>9, <1>10, <2>1, <2>2, <2>3 DEF Inv, Undone
<1>11. CASE IsUpdating(cr)
  <2>0. Executes(cr) /\ DoneSoFar(cr) /\ Bracketed(cr)
    BY <1>11 DEF Inv
  <2>1. FlowInput(cr') = FlowInput(cr)
    BY <1>3 DEF FlowInput, ShouldRunPreUpdateStepsFor
  <2>2. IsUpdating(cr') /\ Executes(cr')
    BY <1>3, <1>11, <2>0, <2>1 DEF IsUpdating, Executes
  <2>3. DoneSoFar(cr')
    <3>1. ASSUME NEW s \in gained
          PROVE  s \in FlowSteps(FlowInput(cr)) /\ Order(FlowInput(cr), s) <= Order(FlowInput(cr), Update(cr))
      <4>1. s = Update(cr) /\ Executes(cr) /\ s # "ImpossibleToStart"
        BY <1>4, <1>6, <3>1
      <4>2. s \in FlowSteps(FlowInput(cr))
        BY <4>1 DEF Executes, Indexed, If
      <4>3. Order(FlowInput(cr), s) \in Nat
        BY OrderIsNat
      <4> QED BY <4>1, <4>2, <4>3
    <3> QED BY <1>3, <2>0, <2>1, <3>1 DEF DoneSoFar
  <2>4. ASSUME NEW first, NEW last, Paired(first, last),
               Update(cr) = first \/ (Within(cr, first, last) /\ last \notin gained)
        PROVE  Within(cr', first, last)
    BY <1>3, <1>4, <2>0, <2>1, <2>4, PairStays, Zenon
  <2>5. ASSUME NEW first, NEW last, Paired(first, last), last \in gained
        PROVE  Update(v) = last /\ yt' = Effect(last)
    BY <1>2, <1>4, <1>5, <2>5
  <2>6. yt'.safeMode => Within(cr', "WaitingForSafeModeEnabled", "WaitingForSafeModeDisabled")
    <3> DEFINE first == "WaitingForSafeModeEnabled"
               last == "WaitingForSafeModeDisabled"
    <3>1. Paired(first, last)
      BY DEF Paired
    <3>2. yt'.safeMode => (yt.safeMode /\ last \notin gained) \/ Update(cr) = first
      <4>1. CASE Performs(v, env) /\ Update(v) \in Recorded
        BY <1>0, <1>5, <1>7, <2>5, <3>1, <4>1, EffectFacts
      <4>2. CASE ~(Performs(v, env) /\ Update(v) \in Recorded)
        BY <1>4, <1>5, <1>8, <2>5, <3>1, <4>2, PairRecorded
      <4> QED BY <4>1, <4>2
    <3> QED BY <2>0, <2>4, <3>1, <3>2 DEF Bracketed
  <2>7. yt'.readOnly => \/ Within(cr', "WaitingForSnapshots", "WaitingForMasterExitReadOnly")
                        \/ Within(cr', "WaitingForMasterCellsEnterReadOnly",
                                       "WaitingForMasterCellsExitReadOnly")
    <3> DEFINE first == "WaitingForSnapshots"
               last == "WaitingForMasterExitReadOnly"
               cellsFirst == "WaitingForMasterCellsEnterReadOnly"
               cellsLast == "WaitingForMasterCellsExitReadOnly"
    <3>1. Paired(first, last) /\ Paired(cellsFirst, cellsLast)
      BY DEF Paired
    <3>2. yt'.readOnly => \/ yt.readOnly /\ last \notin gained /\ cellsLast \notin gained
                          \/ Update(cr) = first \/ Update(cr) = cellsFirst
      <4>1. CASE Performs(v, env) /\ Update(v) \in Recorded
        BY <1>0, <1>5, <1>7, <2>5, <3>1, <4>1, EffectFacts
      <4>2. CASE ~(Performs(v, env) /\ Update(v) \in Recorded)
        BY <1>4, <1>5, <1>8, <2>5, <3>1, <4>2, PairRecorded
      <4> QED BY <4>1, <4>2
    <3> QED BY <2>0, <2>4, <3>1, <3>2 DEF Bracketed
  <2>8. ~yt'.cells => Within(cr', "WaitingForTabletCellsRemovingStart", "WaitingForTabletCellsRecovery")
    <3> DEFINE first == "WaitingForTabletCellsRemovingStart"
               last == "WaitingForTabletCellsRecovery"
    <3>1. Paired(first, last)
      BY DEF Paired
    <3>2. ~yt'.cells => (~yt.cells /\ last \notin gained) \/ Update(cr) = first
      <4>1. CASE Performs(v, env) /\ Update(v) \in Recorded
        BY <1>0, <1>5, <1>7, <2>5, <3>1, <4>1, EffectFacts
      <4>2. CASE ~(Performs(v, env) /\ Update(v) \in Recorded)
        BY <1>4, <1>5, <1>8, <2>5, <3>1, <4>2, PairRecorded
      <4> QED BY <4>1, <4>2
    <3> QED BY <2>0, <2>4, <3>1, <3>2 DEF Bracketed
  <2>9. Bracketed(cr)'
    BY <2>6, <2>7, <2>8 DEF Bracketed
  <2>10. cr'.status.state \in Sessions
    BY <2>2 DEF IsUpdating, Sessions
  <2> QED BY <1>9, <2>2, <2>3, <2>9, <2>10 DEF Inv, Undone
<1> QED BY <1>10, <1>11

(* Edits made during an update leave its flow as it is.                           *)
LEMMA EditInv ==
  ASSUME ~MidUpdateEdits, TypeOK, Inv, NEW e \in Edits, Edit(e)
  PROVE  Inv'
<1>1. cr'.status = cr.status /\ old' = old /\ yt' = yt
  BY EditFacts DEF Edit
<1>2. SameStep' /\ Undone'
  BY <1>1 DEF Inv, SameStep, Undone, IsUpdating, Update
<1>3. CASE ~IsUpdating(cr)
  BY <1>1, <1>2, <1>3 DEF Inv, IsUpdating
<1>4. CASE IsUpdating(cr)
  <2>1. e.plan = cr.spec.plan /\ e.onDelete = cr.spec.onDelete /\ e.shutdown = cr.spec.shutdown
    BY <1>4 DEF Edit, IsUpdating
  <2>2. FlowInput(cr') = FlowInput(cr)
    BY <1>1, <2>1, EditFacts, Zenon DEF FlowInput, ShouldRunPreUpdateStepsFor
  <2>3. Update(cr') = Update(cr) /\ IsUpdating(cr')
    BY <1>1, <1>4 DEF Update, IsUpdating
  <2>4. Executes(cr) /\ DoneSoFar(cr) /\ Bracketed(cr)
    BY <1>4 DEF Inv
  <2>5. Executes(cr') /\ DoneSoFar(cr')
    BY <1>1, <2>2, <2>3, <2>4 DEF Executes, DoneSoFar
  <2>6. \A first, last : Within(cr, first, last) => Within(cr', first, last)
    BY <1>1, <2>2, <2>3 DEF Within
  <2>7. Bracketed(cr)'
    BY <1>1, <2>4, <2>6, CarryPairs DEF Bracketed, SameFlags
  <2> QED BY <1>1, <1>2, <2>3, <2>5, <2>7 DEF Inv, IsUpdating, Sessions
<1> QED BY <1>3, <1>4

(* The invariant holds of a new resource.                                     *)
LEMMA InvInit == Init => Inv
<1> SUFFICES ASSUME Init PROVE Inv
  OBVIOUS
<1>1. cr.status.state = "Created" /\ cr.status.step = Cleared /\ old = cr
  BY DEF Init
<1>2. Cleared.done = {}
  BY DEF Cleared
<1>3. ~yt.safeMode /\ ~yt.readOnly /\ yt.cells
  BY DEF Init
<1> QED BY <1>1, <1>2, <1>3 DEF Inv, SameStep, Undone, IsUpdating, Sessions

(* Every step preserves the invariant.                                        *)
LEMMA InvNext ==
  ASSUME ~MidUpdateEdits
  PROVE  TypeOK /\ Inv /\ [Next]_vars => Inv'
<1> SUFFICES ASSUME TypeOK, Inv, [Next]_vars PROVE Inv'
  OBVIOUS
<1>1. ASSUME NEW v, NEW env, Reads(v, env), Decide(v, env)
      PROVE  Inv'
  <2>1. CASE Create(v, env)
    BY <1>1, <2>1, StateInv DEF Create, States, Sessions
  <2>2. CASE Prepare(v, env)
    BY <1>1, <2>2, StateInv DEF Prepare, States, Sessions
  <2> QED BY <1>1, <2>1, <2>2, SettleInv, AdvanceInv, GiveUpInv, EndInv, ClearInv DEF Decide
<1>2. ASSUME NEW v \in {cr, old}, NEW write, NEW call, NEW reach \in Prefixes,
             LET env == [write |-> write, call |-> call, reach |-> reach]
             IN Decide(v, env) \/ Work(v, env)
      PROVE  Inv'
  <2> DEFINE env == [write |-> write, call |-> call, reach |-> reach]
  <2>1. env.reach \subseteq Components
    BY ReachTyped
  <2> HIDE DEF env
  <2>2. Reads(v, env)
    BY <2>1 DEF Reads
  <2> QED BY <1>1, <1>2, <2>2, WorkInv DEF env
<1>3. CASE \E e \in Edits : Edit(e)
  BY <1>3, EditInv
<1>4. CASE \E c \in Components : PodsVanish(c) \/ PodsStart(c) \/ PodsProgress(c) \/ PodsFail(c)
  BY <1>4, Quiet DEF PodsVanish, PodsStart, PodsProgress, PodsFail, MovePods, SameFlags
<1>5. CASE HealthLost \/ HealthRestored
  <2>1. SameFlags
    BY <1>5 DEF HealthLost, HealthRestored, SameFlags, TypeOK
  <2> QED BY <1>5, <2>1, Quiet DEF HealthLost, HealthRestored
<1>6. CASE UNCHANGED vars
  BY <1>6, Quiet DEF vars, SameFlags
<1> QED BY <1>2, <1>3, <1>4, <1>5, <1>6, AllReached, Zenon DEF Next, Rest

(* Whatever an update did to the cluster is undone when it is over, however       *)
(* many status writes are lost and however stale the copies of the resource that  *)
(* reconciles read, if plan and maintenance are left alone during updates.        *)
THEOREM UpdatesUndo == ASSUME ~MidUpdateEdits PROVE Spec => []Undone
<1>1. Init => TypeOK /\ Inv
  BY TypeInit, InvInit
<1>2. TypeOK /\ Inv /\ [Next]_vars => (TypeOK /\ Inv)'
  BY TypeNext, InvNext
<1>3. Inv => Undone
  BY DEF Inv
<1> QED BY <1>1, <1>2, <1>3, PTL DEF Spec

===============================================================================
