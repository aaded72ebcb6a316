------------------------------ MODULE UpdateFlow ------------------------------
(***************************************************************************)
(* The update flow of controllers/update_flow_steps.go: which steps an      *)
(* update goes through, and in which order.  The flow is not stored: every   *)
(* reconcile builds it again from the components under update and from the   *)
(* CURRENT specification, and looks up the stored update state in it.        *)
(***************************************************************************)
EXTENDS Naturals

(* What a flow is built from: the types of the components under update       *)
(* (kinds), whether images are heated, spec.clusterMaintenance.shutdown, the *)
(* two answers of shouldRunPreUpdateStepsFor (hot: no master needs the       *)
(* pre-update steps; removeCells: some tablet node does), and the conditions *)
(* MasterCellsPreparation, ...Registration and ...Completion as they were    *)
(* when the update began (passes).                                           *)
Inputs(Kinds, Shutdowns, Passes) ==
  [kinds : SUBSET Kinds, heater : BOOLEAN, shutdown : Shutdowns, hot : BOOLEAN,
   removeCells : BOOLEAN, passes : SUBSET Passes]

If(cond, steps) == IF cond THEN steps ELSE {}

MastersMaintenance(in) == in.shutdown = "ExceptMasters"
ClusterMaintenance(in) == in.shutdown # "None"
ShutdownTablets(in) == in.shutdown \in {"ExceptMasters", "Everything", "Tablets"}

SafeMaster(in) == "Master" \in in.kinds /\ ~in.hot
MovesCells(in) == "TabletNode" \in in.kinds /\ ~ShutdownTablets(in) /\ in.removeCells
Updates(in, kind) == kind \in in.kinds /\ ~ClusterMaintenance(in)

BuildFlowTreeStaysReadOnly(in) ==
  {"None", "WaitingForPodsRemoval", "WaitingForPodsCreation", "WaitingForCypressPatch",
   "WaitingForTimbertruckPrepared"}
  \cup If("Master" \in in.kinds, {"PossibilityCheck", "WaitingForMasterReady"})
  \cup If(SafeMaster(in),
          {"WaitingForSafeModeEnabled", "WaitingForSnapshots", "WaitingForSafeModeDisabled"})
  \cup If(MovesCells(in),
          {"WaitingForTabletCellsSaving", "WaitingForTabletCellsRemovingStart",
           "WaitingForTabletCellsRemoved", "WaitingForTabletCellsRecovery"})

(* buildFlowTree: the steps of an ordinary update.                           *)
BuildFlowTree(in) ==
  {"None", "WaitingForPodsRemoval", "WaitingForPodsCreation", "WaitingForCypressPatch",
   "WaitingForTimbertruckPrepared"}
  \cup If(in.heater, {"WaitingForImageHeater"})
  \cup If({"Master", "TabletNode"} \cap in.kinds # {} /\ ~MastersMaintenance(in),
          {"PossibilityCheck"})
  \cup If("Master" \in in.kinds, {"WaitingForMasterReady", "WaitingForSidecarsInitialize"})
  \cup If({"Master", "DataNode"} \cap in.kinds # {}, {"WaitingForImaginaryChunksAbsence"})
  \cup If(SafeMaster(in),
          {"WaitingForSafeModeEnabled", "WaitingForSnapshots", "WaitingForMasterExitReadOnly",
           "WaitingForSafeModeDisabled"})
  \cup If(MovesCells(in),
          {"WaitingForTabletCellsSaving", "WaitingForTabletCellsRemovingStart",
           "WaitingForTabletCellsRemoved", "WaitingForTabletCellsRecovery"})
  \cup If(Updates(in, "Scheduler"), {"WaitingForOpArchiveUpdate"})
  \cup If(Updates(in, "QueryTracker"),
          {"WaitingForQTStateUpdatingPrepare", "WaitingForQTStateUpdate"})
  \cup If(Updates(in, "YqlAgent"), {"WaitingForYqlaUpdate"})
  \cup If(Updates(in, "QueueAgent"),
          {"WaitingForQAStateUpdatingPrepare", "WaitingForQAStateUpdate"})

(* masterMaintenanceFlow: the steps under shutdown ExceptMasters.            *)
MasterMaintenanceFlow(in) ==
  LET updMaster == "Master" \in in.kinds IN
  {"None", "WaitingForPodsRemoval", "WaitingForPodsCreation", "WaitingForMasterReady"}
  \cup If(updMaster, {"WaitingForMasterCellsEnterReadOnly", "WaitingForMasterCellsExitReadOnly"})
  \cup If(updMaster /\ "Preparation" \in in.passes,
          {"WaitingForMasterCellsPreparation", "WaitingForMasterCellsAcception"})
  \cup If(updMaster /\ "Registration" \in in.passes,
          {"WaitingForMasterCellsRegistration", "WaitingForMasterCellsSettlement"})
  \cup If(updMaster /\ "Completion" \in in.passes, {"WaitingForMasterCellsCompletion"})

FlowSteps(in) ==
  IF MastersMaintenance(in) THEN MasterMaintenanceFlow(in) ELSE BuildFlowTree(in)

TreeOrderLateSnapshots(step) ==
  CASE step = "None" -> 0
    [] step = "WaitingForImageHeater" -> 1
    [] step = "PossibilityCheck" -> 2
    [] step = "WaitingForSafeModeEnabled" -> 3
    [] step = "WaitingForTabletCellsSaving" -> 4
    [] step = "WaitingForTabletCellsRemovingStart" -> 5
    [] step = "WaitingForTabletCellsRemoved" -> 6
    [] step = "WaitingForPodsRemoval" -> 7
    [] step = "WaitingForSnapshots" -> 8
    [] OTHER -> 9

(* The order in which the two functions chain their steps.                   *)
TreeOrder(step) ==
  CASE step = "None" -> 0
    [] step = "WaitingForImageHeater" -> 1
    [] step = "PossibilityCheck" -> 2
    [] step = "WaitingForSafeModeEnabled" -> 3
    [] step = "WaitingForTabletCellsSaving" -> 4
    [] step = "WaitingForTabletCellsRemovingStart" -> 5
    [] step = "WaitingForTabletCellsRemoved" -> 6
    [] step = "WaitingForImaginaryChunksAbsence" -> 7
    [] step = "WaitingForSnapshots" -> 8
    [] step = "WaitingForPodsRemoval" -> 9
    [] step = "WaitingForMasterReady" -> 10
    [] step = "WaitingForMasterExitReadOnly" -> 11
    [] step = "WaitingForPodsCreation" -> 12
    [] step = "WaitingForSidecarsInitialize" -> 13
    [] step = "WaitingForCypressPatch" -> 14
    [] step = "WaitingForTabletCellsRecovery" -> 15
    [] step = "WaitingForOpArchiveUpdate" -> 16
    [] step = "WaitingForQTStateUpdatingPrepare" -> 17
    [] step = "WaitingForQTStateUpdate" -> 18
    [] step = "WaitingForYqlaUpdate" -> 19
    [] step = "WaitingForQAStateUpdatingPrepare" -> 20
    [] step = "WaitingForQAStateUpdate" -> 21
    [] step = "WaitingForSafeModeDisabled" -> 22
    [] step = "WaitingForTimbertruckPrepared" -> 23
    [] OTHER -> 24

MaintenanceOrder(step) ==
  CASE step = "None" -> 0
    [] step = "WaitingForMasterCellsPreparation" -> 1
    [] step = "WaitingForMasterCellsRegistration" -> 2
    [] step = "WaitingForMasterCellsEnterReadOnly" -> 3
    [] step = "WaitingForPodsRemoval" -> 4
    [] step = "WaitingForPodsCreation" -> 5
    [] step = "WaitingForMasterReady" -> 6
    [] step = "WaitingForMasterCellsExitReadOnly" -> 7
    [] step = "WaitingForMasterCellsAcception" -> 8
    [] step = "WaitingForMasterCellsSettlement" -> 9
    [] step = "WaitingForMasterCellsCompletion" -> 10
    [] OTHER -> 11

Order(in, step) ==
  IF MastersMaintenance(in) THEN MaintenanceOrder(step) ELSE TreeOrder(step)

(* flowTree.index: the steps of the flow and the unhappy end of the fork.    *)
Indexed(in) ==
  FlowSteps(in) \cup If("PossibilityCheck" \in FlowSteps(in), {"ImpossibleToStart"})

(* nextSteps[happy]: the step that was chained after this one.               *)
Follows(in, step, next) ==
  /\ next \in FlowSteps(in)
  /\ Order(in, next) > Order(in, step)
  /\ \A other \in FlowSteps(in) :
       Order(in, other) > Order(in, step) => Order(in, next) <= Order(in, other)

IsLast(in, step) == \A other \in FlowSteps(in) : Order(in, other) <= Order(in, step)
===============================================================================
