------------------------------ MODULE ClientSteps ------------------------------
(***************************************************************************)
(* What the YtsaurusClient component does to the running cluster in the     *)
(* course of an update (pkg/components/ytsaurus_client.go): safe mode, the   *)
(* removal and recovery of tablet cells with the bundle controller held      *)
(* still, the migration from imaginary to real chunk locations together with *)
(* the data nodes (data_node.go), and the Cypress patch.                     *)
(*                                                                         *)
(* Each step is a few calls to the cluster followed by one write of the      *)
(* Ytsaurus status.  Any call may fail half way, the status write may be     *)
(* lost, and a reconcile may start from the status before the last write;    *)
(* in all these cases the step is done again.                                *)
(***************************************************************************)
EXTENDS UpdateFlow

Kinds == {"Master", "TabletNode", "DataNode"}

CONSTANTS
  Bundles,      \* tablet cell bundles
  Nodes,        \* data nodes
  Batches,      \* sets of component types that an update may be about
  MaxCells,     \* bound: tablet cells of a bundle
  ListFails,    \* the list of data nodes may be unavailable
  MaxOverrides  \* bound: versions of the configuration overrides

ASSUME ClientAssumption ==
  /\ MaxCells \in Nat /\ MaxOverrides \in Nat \ {0}
  /\ Batches \subseteq SUBSET Kinds
  /\ ListFails \in BOOLEAN

VARIABLES
  cr,        \* status of the Ytsaurus resource
  old,       \* the status before the last write, as a stale cache has it
  batch,     \* types of the components under update
  yt,        \* the YTsaurus cluster
  dnd,       \* the data nodes: their StatefulSet, pods and state at the master
  patch,     \* the Cypress patch: what the ConfigMap holds, what Cypress has
  overrides, \* version of the configuration overrides
  before     \* history: the tablet cells and the bundle controller before the update

vars == <<cr, old, batch, yt, dnd, patch, overrides, before>>

Keys == Kinds \cup {"Overrides"}
Counts == [Bundles -> 0 .. MaxCells]
None == [b \in Bundles |-> 0]
Controllers == {"absent", "enabled", "disabled"} \* //sys/@disable_bundle_controller

(* The new specification changes the Cypress patch of every component; the   *)
(* update plan lets only the batch be updated.                               *)
SpecVersion == 2

Flow ==
  [kinds |-> batch, heater |-> FALSE, shutdown |-> "None", hot |-> FALSE,
   removeCells |-> TRUE, passes |-> {}]

(* Any state of the parts of the cluster that the update concerns.           *)
CellStates ==
  IF "TabletNode" \in batch THEN Counts \X Controllers ELSE {<<None, "disabled">>}
NodeStates ==
  IF {"Master", "DataNode"} \cap batch = {}
  THEN {<<"absent", [n \in Nodes |-> "real"]>>}
  ELSE {<<"absent", [n \in Nodes |-> "real"]>>, <<"false", [n \in Nodes |-> "imaginary"]>>}
         \cup {"true"} \X [Nodes -> {"real", "imaginary"}]

Init ==
  /\ cr = [step |-> "None", done |-> {}, cells |-> None, controller |-> "unknown",
           patched |-> TRUE]
  /\ old = cr
  /\ batch \in Batches
  /\ \E cells \in CellStates, state \in NodeStates :
       /\ yt = [safeMode |-> FALSE, live |-> cells[1], dying |-> None, controller |-> cells[2],
                decommission |-> TRUE, realChunks |-> state[1]]
       /\ before = [cells |-> cells[1], controller |-> cells[2]]
       /\ dnd = [up |-> TRUE, pods |-> Nodes, seen |-> state[2]]
  /\ patch = [file |-> [k \in Keys |-> 1], applied |-> [k \in Keys |-> 1]]
  /\ overrides = 1

-----------------------------------------------------------------------------
(* How the calls of a reconcile go: those to the cluster (none gets through;  *)
(* some do, or one takes effect and its answer is lost; all succeed), the one *)
(* whose failure does not hold the step up (decommission switched on again,   *)
(* the Cypress patch built, the data nodes listed), and the status write.     *)
Env == [call : {"ok", "first", "later"}, side : BOOLEAN, write : BOOLEAN]
NoFault == [call |-> "ok", side |-> TRUE, write |-> TRUE]

IsUpdating(v) == v.step # "Over"
At(v, step) == v.step = step /\ step \notin v.done
With(v, conditions) == [v EXCEPT !.done = @ \cup conditions]

(* A write that is based on a stale copy is refused.                         *)
Save(v, new, env) ==
  /\ cr' = IF env.write /\ v = cr THEN new ELSE cr
  /\ old' = IF cr' = cr THEN old ELSE cr

Total(b) == yt.live[b] + yt.dying[b]
NoCells == \A b \in Bundles : Total(b) = 0
Between(low, high) == {c \in Counts : \A b \in Bundles : low[b] <= c[b] /\ c[b] <= high[b]}

-----------------------------------------------------------------------------
(* EnableSafeMode, DisableSafeMode                                           *)
SetSafeMode(v, env) ==
  \E step \in {"WaitingForSafeModeEnabled", "WaitingForSafeModeDisabled"} :
    /\ At(v, step)
    /\ yt' = IF env.call = "first" THEN yt
             ELSE [yt EXCEPT !.safeMode = step = "WaitingForSafeModeEnabled"]
    /\ Save(v, IF env.call = "ok" THEN With(v, {step}) ELSE v, env)
    /\ UNCHANGED <<dnd, patch>>

(* IsBundleControllerDisabled, GetTabletCells                                *)
SaveCells(v, env) ==
  /\ At(v, "WaitingForTabletCellsSaving")
  /\ env.call = "ok"
  /\ Save(v, [With(v, {v.step}) EXCEPT !.cells = [b \in Bundles |-> Total(b)],
                                       !.controller = yt.controller], env)
  /\ UNCHANGED <<yt, dnd, patch>>

(* SetBundleControllerDisabled(true), RemoveTabletCells: on a failure some    *)
(* cells have been removed and decommission is switched on all the same,      *)
(* unless that call fails too, which is only logged.                          *)
Removed(left, controller, decommission) ==
  [yt EXCEPT !.live = left, !.dying = [b \in Bundles |-> Total(b) - left[b]],
             !.controller = controller, !.decommission = decommission]

RemoveCellsOnly(v, env) ==
  /\ At(v, "WaitingForTabletCellsRemovingStart")
  /\ env.call = "ok"
  /\ yt' = Removed(None, yt.controller, TRUE)
  /\ Save(v, With(v, {v.step}), env)
  /\ UNCHANGED <<dnd, patch>>
RemoveCells(v, env) ==
  /\ At(v, "WaitingForTabletCellsRemovingStart")
  /\ \/ /\ env.call = "ok"
        /\ yt' = Removed(None, "disabled", IF NoCells THEN yt.decommission ELSE env.side)
        /\ Save(v, With(v, {v.step}), env)
     \/ /\ env.call = "later"
        /\ \E left \in Between(None, yt.live) : yt' = Removed(left, "disabled", env.side)
        /\ Save(v, v, env)
  /\ UNCHANGED <<dnd, patch>>

(* AreTabletCellsRemoved                                                     *)
AwaitRemoval(v, env) ==
  /\ At(v, "WaitingForTabletCellsRemoved")
  /\ env.call = "ok" /\ NoCells
  /\ Save(v, With(v, {v.step}), env)
  /\ UNCHANGED <<yt, dnd, patch>>

(* RecoverTableCells creates what a bundle lacks, and then the attribute of   *)
(* the bundle controller is set, or removed, to what it was.                  *)
LackingButOne(saved, b) == IF saved[b] > Total(b) + 1 THEN saved[b] - Total(b) - 1 ELSE 0
Lacking(saved, b) == IF saved[b] > Total(b) THEN saved[b] - Total(b) ELSE 0
Recovered(saved) == [b \in Bundles |-> yt.live[b] + Lacking(saved, b)]
Restored(v) == IF v.controller = "unknown" THEN yt.controller ELSE v.controller

RecoverCells(v, env) ==
  LET full == IF "WaitingForTabletCellsSaving" \in v.done THEN Recovered(v.cells) ELSE yt.live IN
  /\ At(v, "WaitingForTabletCellsRecovery")
  /\ \/ /\ env.call = "ok"
        /\ yt' = [yt EXCEPT !.live = full, !.controller = Restored(v)]
        /\ Save(v, With(v, {v.step}), env)
     \/ /\ env.call = "later"
        /\ \E cells \in Between(yt.live, full) : yt' = [yt EXCEPT !.live = cells]
        /\ Save(v, v, env)
  /\ UNCHANGED <<dnd, patch>>

-----------------------------------------------------------------------------
(* Imaginary chunks: the client switches real chunk locations on, looks for   *)
(* active data nodes with imaginary ones, and asks the data nodes to remove   *)
(* their pods when there are some.                                            *)
EnableRealChunksInNameOnly(v, env) ==
  /\ At(v, "WaitingForImaginaryChunksAbsence")
  /\ "RealChunksAttributeEnabled" \notin v.done
  /\ Save(v, With(v, {"RealChunksAttributeEnabled"}), env)
  /\ UNCHANGED <<yt, dnd, patch>>
EnableRealChunks(v, env) ==
  /\ At(v, "WaitingForImaginaryChunksAbsence")
  /\ "RealChunksAttributeEnabled" \notin v.done
  /\ yt' = IF env.call # "first" /\ yt.realChunks = "false"
           THEN [yt EXCEPT !.realChunks = "true"] ELSE yt
  /\ Save(v, IF env.call = "ok" THEN With(v, {"RealChunksAttributeEnabled"}) ELSE v, env)
  /\ UNCHANGED <<dnd, patch>>

ActiveImaginary == {n \in Nodes : dnd.seen[n] = "imaginary"}

(* removePods of the data nodes: the StatefulSet is scaled to zero once, then *)
(* the pods are waited for.                                                   *)
ScaledDown(v) == IF "PodsRemovingStarted" \in v.done THEN dnd ELSE [dnd EXCEPT !.up = FALSE]
AfterRemoval(v) ==
  IF "PodsRemovingStarted" \notin v.done THEN With(v, {"PodsRemovingStarted"})
  ELSE IF dnd.pods = {} THEN With(v, {"PodsRemoved"}) ELSE v

(* When the list is not available the client sets the condition all the same, *)
(* and its error ends the loop before the data nodes have their turn.         *)
Listed(env) == env.side \/ ~ListFails
AfterListing(v, env) ==
  IF ~Listed(env) \/ ActiveImaginary = {} THEN With(v, {v.step})
  ELSE With(v, {"DataNodesNeedPodsRemoval"})

AwaitRealChunks(v, env) ==
  LET client == AfterListing(v, env)
      asked == Listed(env) /\ env.call = "ok" /\ "DataNodesNeedPodsRemoval" \in client.done IN
  /\ At(v, "WaitingForImaginaryChunksAbsence")
  /\ "RealChunksAttributeEnabled" \in v.done
  /\ dnd' = IF asked THEN ScaledDown(client) ELSE dnd
  /\ Save(v, IF asked THEN AfterRemoval(client) ELSE client, env)
  /\ UNCHANGED <<yt, patch>>

(* Data nodes that are updated themselves lose their pods in the step for     *)
(* that, and get them back once the masters run.                              *)
StopDataNodes(v, env) ==
  /\ "DataNode" \in batch /\ v.step = "WaitingForPodsRemoval" /\ "PodsRemoved" \notin v.done
  /\ env.call = "ok"
  /\ dnd' = ScaledDown(v)
  /\ Save(v, AfterRemoval(v), env)
  /\ UNCHANGED <<yt, patch>>

(* Other data nodes stay down until the update is over.                       *)
StartDataNodes(v, env) ==
  /\ \/ "DataNode" \in batch /\ v.step \in {"WaitingForMasterReady", "WaitingForPodsCreation"}
     \/ ~IsUpdating(v)
  /\ ~dnd.up /\ env.call = "ok"
  /\ dnd' = [dnd EXCEPT !.up = TRUE]
  /\ Save(v, v, env)
  /\ UNCHANGED <<yt, patch>>

-----------------------------------------------------------------------------
(* BuildCypressPatch: the new patch of components under update, the saved     *)
(* patch of all others, and the current overrides.                            *)
Built(v) ==
  [k \in Keys |-> CASE k = "Overrides" -> overrides
                    [] k \in batch /\ IsUpdating(v) -> SpecVersion
                    [] OTHER -> patch.file[k]]

Patched(v, applied) == [v EXCEPT !.patched = applied]

(* SyncCypressPatch: the ConfigMap is written, the patch is applied, and the  *)
(* outcome is recorded in a condition; only the first can fail.               *)
SyncCypressPatchForgiving(v, new, env) ==
  \/ /\ env.side /\ env.call = "ok"
     /\ patch' = [file |-> Built(v), applied |-> Built(v)]
     /\ Save(v, Patched(new, TRUE), env)
  \/ /\ env.side /\ env.call = "later"
     /\ patch' = [file |-> Built(v), applied |-> patch.applied]
     /\ Save(v, new, env)
SyncCypressPatch(v, new, env) ==
  \/ /\ ~env.side
     /\ Save(v, Patched(new, FALSE), env)
     /\ UNCHANGED patch
  \/ /\ env.side /\ env.call = "ok"
     /\ patch' = [file |-> Built(v), applied |-> Built(v)]
     /\ Save(v, Patched(new, TRUE), env)
  \/ /\ env.side /\ env.call = "later"
     /\ \E keys \in SUBSET Keys :
          patch' = [file |-> Built(v),
                    applied |-> [k \in Keys |-> IF k \in keys THEN Built(v)[k] ELSE patch.applied[k]]]
     /\ Save(v, Patched(new, FALSE), env)

NeedSyncCypressPatch(v) == patch.file["Overrides"] # overrides \/ ~v.patched

ApplyPatch(v, env) ==
  /\ \/ At(v, "WaitingForCypressPatch") /\ SyncCypressPatch(v, With(v, {v.step}), env)
     \/ ~IsUpdating(v) /\ NeedSyncCypressPatch(v) /\ SyncCypressPatch(v, v, env)
  /\ UNCHANGED <<yt, dnd>>

-----------------------------------------------------------------------------
(* The update flow goes on.  The steps of other components are passed at      *)
(* their time; at the end the update status is cleared.                       *)
ClientConditions ==
  {"WaitingForSafeModeEnabled", "WaitingForTabletCellsSaving",
   "WaitingForTabletCellsRemovingStart", "WaitingForTabletCellsRemoved",
   "WaitingForImaginaryChunksAbsence", "WaitingForCypressPatch",
   "WaitingForTabletCellsRecovery", "WaitingForSafeModeDisabled"}

Passed(v) ==
  /\ v.step \in ClientConditions => v.step \in v.done
  /\ "DataNode" \in batch =>
       /\ v.step = "WaitingForPodsRemoval" => "PodsRemoved" \in v.done
       /\ v.step = "WaitingForPodsCreation" => dnd.up /\ dnd.pods = Nodes

Advance(v, env) ==
  /\ IsUpdating(v) /\ Passed(v)
  /\ \/ \E next \in FlowSteps(Flow) :
          Follows(Flow, v.step, next) /\ Save(v, [v EXCEPT !.step = next], env)
     \/ /\ IsLast(Flow, v.step)
        /\ Save(v, [v EXCEPT !.step = "Over", !.done = {}, !.cells = None,
                             !.controller = "unknown"], env)
  /\ UNCHANGED <<yt, dnd, patch, batch, overrides, before>>

Work(v, env) ==
  /\ \/ SetSafeMode(v, env)
     \/ SaveCells(v, env) \/ RemoveCells(v, env) \/ AwaitRemoval(v, env) \/ RecoverCells(v, env)
     \/ EnableRealChunks(v, env) \/ AwaitRealChunks(v, env)
     \/ StopDataNodes(v, env) \/ StartDataNodes(v, env)
     \/ ApplyPatch(v, env)
  /\ UNCHANGED <<batch, overrides, before>>

Reconcile(v, env) == Advance(v, env) \/ Work(v, env)

-----------------------------------------------------------------------------
(* The cluster.  The bundle controller adds cells unless it is disabled;      *)
(* removed cells disappear after a while.                                     *)
BundleController(b) ==
  /\ yt.controller # "disabled" /\ Total(b) < MaxCells
  /\ yt' = [yt EXCEPT !.live[b] = @ + 1]
  /\ UNCHANGED <<cr, old, batch, dnd, patch, overrides, before>>

CellGone(b) ==
  /\ yt.dying[b] > 0
  /\ yt' = [yt EXCEPT !.dying[b] = @ - 1]
  /\ UNCHANGED <<cr, old, batch, dnd, patch, overrides, before>>

(* Pods of data nodes follow their StatefulSet.  The master notices that a    *)
(* node has gone some time later; a node that connects again is registered    *)
(* with the kind of chunk locations that is switched on then.                 *)
SetDataNodes(new) ==
  /\ dnd' = new /\ dnd' # dnd
  /\ UNCHANGED <<cr, old, batch, yt, patch, overrides, before>>

PodGone(n) == ~dnd.up /\ SetDataNodes([dnd EXCEPT !.pods = @ \ {n}])
PodStarts(n) == dnd.up /\ SetDataNodes([dnd EXCEPT !.pods = @ \cup {n}])
Lost(n) == SetDataNodes([dnd EXCEPT !.seen[n] = "offline"])
Registers(n) ==
  /\ n \in dnd.pods /\ dnd.seen[n] = "offline"
  /\ SetDataNodes([dnd EXCEPT !.seen[n] = IF yt.realChunks = "false" THEN "imaginary" ELSE "real"])

EditOverrides ==
  /\ overrides < MaxOverrides /\ overrides' = overrides + 1
  /\ UNCHANGED <<cr, old, batch, yt, dnd, patch, before>>

Next ==
  \/ \E write \in BOOLEAN : Advance(cr, [NoFault EXCEPT !.write = write])
  \/ \E v \in {cr, old}, env \in Env : Work(v, env)
  \/ \E b \in Bundles : BundleController(b) \/ CellGone(b)
  \/ \E n \in Nodes : PodGone(n) \/ PodStarts(n) \/ Lost(n) \/ Registers(n)
  \/ EditOverrides

Spec == Init /\ [][Next]_vars

(* Reconciles are requeued until one goes well, removed cells and pods go,    *)
(* pods start, and the master notices the loss of a node without a pod.       *)
Fairness ==
  /\ WF_vars(Reconcile(cr, NoFault))
  /\ \A b \in Bundles : WF_vars(CellGone(b))
  /\ \A n \in Nodes : /\ WF_vars(PodGone(n)) /\ WF_vars(PodStarts(n))
                      /\ WF_vars(n \notin dnd.pods /\ Lost(n))
FairSpec == Spec /\ Fairness

-----------------------------------------------------------------------------
(* Types of the state.                                                       *)
Status ==
  [step : FlowSteps(Flow) \cup {"Over"},
   done : SUBSET (ClientConditions \cup {"RealChunksAttributeEnabled", "DataNodesNeedPodsRemoval",
                                         "PodsRemovingStarted", "PodsRemoved"}),
   cells : Counts, controller : Controllers \cup {"unknown"}, patched : BOOLEAN]

TypeOK ==
  /\ cr \in Status /\ old \in Status
  /\ batch \in SUBSET Kinds
  /\ yt \in [safeMode : BOOLEAN, live : Counts, dying : Counts, controller : Controllers,
             decommission : BOOLEAN, realChunks : {"absent", "true", "false"}]
  /\ dnd \in [up : BOOLEAN, pods : SUBSET Nodes,
              seen : [Nodes -> {"offline", "real", "imaginary"}]]
  /\ patch \in [file : [Keys -> Nat], applied : [Keys -> Nat]]
  /\ overrides \in 1 .. MaxOverrides
  /\ before \in [cells : Counts, controller : Controllers]

(* From the step that waits for the removal of tablet cells to the one that   *)
(* recovers them no cell exists, so that tablet nodes are restarted empty:    *)
(* the bundle controller stays disabled until the cells are back              *)
(* (handleUpdatingState, SetBundleControllerDisabled, AreTabletCellsRemoved). *)
NoCellsWhileDown ==
  IsUpdating(cr) /\ "WaitingForTabletCellsRemoved" \in cr.done
    /\ Order(Flow, cr.step) < Order(Flow, "WaitingForTabletCellsRecovery") => NoCells

(* After an update every bundle has at least the tablet cells it had before,  *)
(* whichever calls failed half way and were made again (GetTabletCells,       *)
(* RemoveTabletCells, RecoverTableCells), and                                 *)
(* //sys/@disable_bundle_controller is what it was before, absent included    *)
(* (BundleControllerInfo, SetBundleControllerDisabled).                       *)
TabletsBack ==
  ~IsUpdating(cr) =>
    /\ \A b \in Bundles : yt.live[b] >= before.cells[b]
    /\ yt.controller = before.controller

(* DataNodesWithImaginaryChunksAbsent "is set by client component when it     *)
(* ensures that there are no active data nodes with imaginary chunks"         *)
(* (consts/conditions.go:90), and no such node appears while masters are      *)
(* updated.                                                                   *)
RealChunksOnly == "WaitingForImaginaryChunksAbsence" \in cr.done => ActiveImaginary = {}

(* The update comes to an end and, unless the overrides are edited, the patch *)
(* that the ConfigMap records as current gets applied, although an update     *)
(* step goes on when it could not be (SyncCypressPatch,                       *)
(* NeedSyncCypressPatch).                                                     *)
UpdateSettles ==
  /\ <>(~IsUpdating(cr))
  /\ [](overrides = 1) => <>[](cr.patched /\ patch.applied = patch.file)

(* When the client reports "Cypress patch is up to date and applied"          *)
(* (ytsaurus_client.go:445), Cypress has what the ConfigMap records.          *)
PatchReported ==
  ~IsUpdating(cr) /\ ~NeedSyncCypressPatch(cr) => patch.applied = patch.file
================================================================================
