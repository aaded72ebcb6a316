----------------------------- MODULE PodsUpdate -----------------------------
(***************************************************************************)
(* How one server component replaces its pods inside an update: the part    *)
(* of the flow between WaitingForPodsRemoval and the end of                 *)
(* WaitingForPodsCreation, for each of the strategies of the update plan    *)
(* (pkg/components/helpers.go, server.go, pods_manager.go, exec_node.go).   *)
(*                                                                         *)
(* The operator drives a StatefulSet.  It reads it through an informer      *)
(* cache, which lags behind, and its writes carry the resource version that *)
(* was read, so a write based on a stale copy fails.  The StatefulSet       *)
(* controller replaces pods and reports the counts some time later.  The    *)
(* Ytsaurus status is written at the end of a reconcile and the write may   *)
(* be lost.                                                                 *)
(***************************************************************************)
EXTENDS Integers, FiniteSets, FiniteSetsExt

CONSTANTS
  Count,        \* instanceCount of the component
  MinReady,     \* minReadyInstanceCount, or Unset
  Drains,       \* the component's pre-check drains a node (exec nodes)
  Modes,        \* strategies the update plan may name, "" is a plan without one
  ConfigOnly,   \* edits change the configuration and not the image
  SlowFetch,    \* the cache may lag behind a write of the same reconcile
  OthersBusy,   \* other components are still being removed when this one starts
  MaxVersion,   \* bound: edits of the component's specification
  MaxTrouble    \* bound: edits of the update plan and pod failures, together

Unset == -1

ASSUME ConfigAssumption ==
  /\ Count \in Nat /\ MinReady \in Nat \cup {Unset}
  /\ {Drains, ConfigOnly, SlowFetch, OthersBusy} \subseteq BOOLEAN
  /\ Modes # {} /\ Modes \subseteq {"", "BulkUpdate", "OnDelete", "RollingUpdate"}
  /\ {MaxVersion, MaxTrouble} \subseteq Nat

VARIABLES
  cr,       \* the Ytsaurus resource: the component's part of spec and status
  sts,      \* the StatefulSet
  cache,    \* the operator's copy of the StatefulSet
  config,   \* version of the configuration in the ConfigMap
  pods,     \* the pods by ordinal
  busy,     \* nodes that run jobs of the scheduler
  disabled, \* nodes with disable_scheduler_jobs
  others,   \* some other component of this update still has pods to remove
  edits,    \* edits of the plan so far
  faults,   \* pod failures so far
  checked   \* history: pods next in line when a pre-check succeeded

kube == <<sts, config>>
nodes == <<busy, disabled>>
vars == <<cr, sts, cache, config, pods, busy, disabled, others, edits, faults, checked>>

Ordinals == 0 .. (Count - 1)

(* The StatefulSet's specification; when the operator gives no strategy the  *)
(* API server defaults to a rolling update of every pod, one at a time.      *)
StsSpec(version, replicas, strategy, partition, max) ==
  [version |-> version, replicas |-> replicas, strategy |-> strategy,
   partition |-> partition, max |-> max]
Defaulted(version, replicas) == StsSpec(version, replicas, "RollingUpdate", 0, 1)

Present == {i \in Ordinals : pods[i].phase # "absent"}
ReadyPods == {i \in Ordinals : pods[i].phase = "ready"}
AtVersion(version) == {i \in Present : pods[i].version = version}

(* An update of the component from version 1 to version 2 begins.            *)
Init ==
  /\ \E mode \in Modes :
       cr = [version |-> 2, mode |-> mode, step |-> "WaitingForPodsRemoval",
             precheck |-> FALSE, removing |-> FALSE, removed |-> FALSE, updated |-> FALSE]
  /\ sts = [spec |-> Defaulted(1, Count), seen |-> TRUE, available |-> Count, updated |-> Count]
  /\ cache = sts
  /\ config = 1
  /\ pods = [i \in Ordinals |-> [version |-> 1, phase |-> "ready"]]
  /\ busy \in [Ordinals -> IF Drains THEN BOOLEAN ELSE {FALSE}]
  /\ disabled = [i \in Ordinals |-> FALSE]
  /\ others = OthersBusy
  /\ edits = 0 /\ faults = 0
  /\ checked = {}

-----------------------------------------------------------------------------
(* What happens to the calls of one reconcile: api is the sync of the        *)
(* StatefulSet and then of the ConfigMap ("half": only the first succeeds),  *)
(* yt the calls to the YTsaurus cluster, health the verdict of a pre-check   *)
(* that looks at the whole cluster, write the status update, fetch whether   *)
(* the cache has caught up when it is read again after the sync.             *)
Env == [api : {"ok", "half", "fail"}, yt : BOOLEAN, health : BOOLEAN,
        write : BOOLEAN, fetch : IF SlowFetch THEN BOOLEAN ELSE {TRUE}]
NoFault == [api |-> "ok", yt |-> TRUE, health |-> TRUE, write |-> TRUE, fetch |-> TRUE]

Save(new, env) == cr' = IF env.write THEN new ELSE cr

(* server.needUpdate: the image is compared with the StatefulSet that was    *)
(* read, the configuration with the ConfigMap.                               *)
ImageOnlyNeedUpdate == ~ConfigOnly /\ cache.spec.version # cr.version
NeedUpdate == ImageOnlyNeedUpdate \/ config # cr.version

(* server.Sync                                                               *)
Accepted(env) == env.api # "fail" /\ cache = sts
Written(spec) == IF sts.spec = spec THEN sts ELSE [sts EXCEPT !.spec = spec, !.seen = FALSE]
SyncServer(spec, env) ==
  /\ sts' = IF Accepted(env) THEN Written(spec) ELSE sts
  /\ config' = IF Accepted(env) /\ env.api = "ok" THEN spec.version ELSE config
Synced(env) == Accepted(env) /\ env.api = "ok"

MinReadyInstanceCount(margin) ==
  LET bound == Max({Count - margin, 0})
  IN IF MinReady = Unset THEN bound ELSE Min({MinReady, bound})

NoMinReady == Count
MaxUnavailable == Count - MinReadyInstanceCount(1)

-----------------------------------------------------------------------------
(* Pre-checks.  An exec node that is next in line is drained, other          *)
(* components look at the health of the cluster.                             *)

ShouldRunPreChecks == cr.mode # "" /\ ~cr.precheck

Drain(next, env) ==
  IF ~env.yt THEN disabled
  ELSE IF busy[next] THEN [disabled EXCEPT ![next] = TRUE]
  ELSE [i \in Ordinals |-> disabled[i] /\ i <= next]

PreCheckPasses(next, env) ==
  env.yt /\ IF Drains THEN next \in Ordinals => ~busy[next] ELSE env.health

(* runPrechecks for the pods "inLine"; next is the one a drain looks at, -1  *)
(* when the strategy has none.                                               *)
RunPreChecks(next, inLine, env) ==
  /\ disabled' = IF ShouldRunPreChecks /\ Drains /\ next \in Ordinals
                 THEN Drain(next, env) ELSE disabled
  /\ checked' = IF ShouldRunPreChecks /\ PreCheckPasses(next, env)
                THEN checked \cup inLine ELSE checked

SkippedPreChecks(next, env) == TRUE
Cleared(next, env) == ~ShouldRunPreChecks \/ PreCheckPasses(next, env)

-----------------------------------------------------------------------------
(* handleBulkUpdatingClusterState, and the plain pods removal it falls back  *)
(* to: the StatefulSet is scaled to zero and the pods are waited for.        *)
BulkUpdate(env) ==
  /\ cr.mode \in {"", "BulkUpdate"}
  /\ RunPreChecks(-1, Ordinals, env)
  /\ IF Cleared(-1, env)
     THEN LET passed == [cr EXCEPT !.precheck = cr.mode # ""] IN
          IF cr.removing
          THEN /\ Save([passed EXCEPT !.removed = cr.removed \/ Present = {}], env)
               /\ UNCHANGED kube
          ELSE /\ SyncServer(Defaulted(cr.version, 0), env)
               /\ Save([passed EXCEPT !.removing = Synced(env)], env)
     ELSE UNCHANGED <<cr, sts, config>>
  /\ UNCHANGED <<cache, busy>>

(* handleOnDeleteUpdatingClusterState: the StatefulSet gets the new template *)
(* and the OnDelete strategy, and the operator waits until somebody has      *)
(* deleted every pod.  The StatefulSet is read again after the write.        *)
AllPresent(read) == read.seen /\ Cardinality(Present) = read.spec.replicas
AllRecreated(read) ==
  /\ read.seen
  /\ IF read.spec.strategy = "OnDelete"
     THEN /\ Cardinality(Present) = read.spec.replicas
          /\ AtVersion(read.spec.version) = Present
          /\ Cardinality(ReadyPods) >= MinReadyInstanceCount(0)
     ELSE read.updated = read.spec.replicas

OnDelete(env) ==
  /\ cr.mode = "OnDelete"
  /\ RunPreChecks(-1, Ordinals, env)
  /\ IF Cleared(-1, env)
     THEN /\ SyncServer(StsSpec(cr.version, Count, "OnDelete", 0, 1), env)
          /\ cache' = IF Accepted(env) /\ env.fetch THEN sts' ELSE cache
          /\ Save([cr EXCEPT !.precheck = TRUE,
                             !.updated = @ \/ (Synced(env) /\ AllRecreated(cache'))], env)
     ELSE UNCHANGED <<cr, sts, config, cache>>
  /\ UNCHANGED busy

-----------------------------------------------------------------------------
(* handleRollingUpdatingClusterState.  The status of the StatefulSet is used *)
(* only when it is about the generation that was read.                       *)

AnyStatus(read) == TRUE
Validated(read) == read.seen

IsFinished(read) == read.spec.partition = 0 /\ read.updated = read.spec.replicas

UnavailableOrInProgressReplicas(read) ==
  Max({0, read.spec.replicas - read.available,
       read.spec.replicas - read.spec.partition - read.updated})

Rolled(partition) == StsSpec(cr.version, Count, "RollingUpdate", partition, MaxUnavailable)

(* The start of a rolling cycle: the new template with every pod held back.  *)
StartRolling(env) ==
  /\ NeedUpdate
  /\ SyncServer(Rolled(cache.spec.replicas), env)
  /\ UNCHANGED <<cr, disabled, checked>>

(* enableSchedulerJobs stops at the first call that fails.                   *)
EnableSchedulerJobs(env) ==
  \/ ~Drains /\ UNCHANGED disabled
  \/ Drains /\ env.yt /\ disabled' = [i \in Ordinals |-> FALSE]
  \/ /\ Drains /\ ~env.yt
     /\ \E failing \in Ordinals : disabled' = [i \in Ordinals |-> disabled[i] /\ i >= failing]

FinishRolling(env) ==
  /\ ~NeedUpdate /\ IsFinished(cache)
  /\ Save([cr EXCEPT !.updated = TRUE], env)
  /\ EnableSchedulerJobs(env)
  /\ UNCHANGED <<sts, config, checked>>

AdvanceRolling(env) ==
  LET next == cache.spec.partition - 1 IN
  /\ ~NeedUpdate /\ ~IsFinished(cache)
  /\ UnavailableOrInProgressReplicas(cache) < MaxUnavailable
  /\ cache.spec.partition # 0
  /\ RunPreChecks(next, {next}, env)
  /\ IF Cleared(next, env)
     THEN SyncServer(Rolled(next), env) /\ Save([cr EXCEPT !.precheck = TRUE], env)
     ELSE UNCHANGED <<cr, sts, config>>

RollingUpdate(env) ==
  /\ cr.mode = "RollingUpdate"
  /\ MaxUnavailable > 0
  /\ Validated(cache)
  /\ StartRolling(env) \/ FinishRolling(env) \/ AdvanceRolling(env)
  /\ UNCHANGED <<cache, busy>>

-----------------------------------------------------------------------------
(* Component.Sync in WaitingForPodsCreation: needSync(updating), server.Sync *)
(* When the update is over a StatefulSet of the wrong size is still synced.  *)
NeedSync == NeedUpdate \/ cache.spec.replicas # Count

CreatePods(env) ==
  /\ \/ cr.step = "WaitingForPodsCreation" /\ NeedSync
     \/ cr.step = "Over" /\ cache.spec.replicas # Count
  /\ SyncServer(Defaulted(cr.version, Count), env)
  /\ UNCHANGED <<cr, cache, disabled, checked, busy>>

(* ComponentManager.arePodsRemoved, for this component and the others.       *)
ArePodsRemoved == (cr.removed \/ cr.updated) /\ ~others

RemovePods(env) ==
  /\ cr.step = "WaitingForPodsRemoval" /\ ~ArePodsRemoved
  /\ BulkUpdate(env) \/ OnDelete(env) \/ RollingUpdate(env)

(* The update flow goes on: from removal to creation, and on when the pods   *)
(* are there.                                                                *)
ArePodsReady == Cardinality(ReadyPods) >= MinReadyInstanceCount(0)

Advance(env) ==
  /\ env.write
  /\ \/ /\ cr.step = "WaitingForPodsRemoval" /\ ArePodsRemoved
        /\ cr' = [cr EXCEPT !.step = "WaitingForPodsCreation"]
     \/ /\ cr.step = "WaitingForPodsCreation" /\ ~NeedSync /\ ArePodsReady
        /\ cr' = [cr EXCEPT !.step = "Over"]
  /\ UNCHANGED <<sts, cache, config, busy, disabled, checked>>

Reconcile(env) ==
  /\ RemovePods(env) \/ CreatePods(env) \/ Advance(env)
  /\ UNCHANGED <<pods, others, edits, faults>>

-----------------------------------------------------------------------------
(* The rest of the world.                                                    *)

(* Somebody edits the component's specification or the update plan.          *)
Edit ==
  /\ cr.step # "Over"
  /\ \/ /\ cr.version < MaxVersion
        /\ cr' = [cr EXCEPT !.version = @ + 1]
        /\ UNCHANGED edits
     \/ /\ edits + faults < MaxTrouble
        /\ edits' = edits + 1
        /\ \E mode \in Modes \ {cr.mode} : cr' = [cr EXCEPT !.mode = mode]
  /\ UNCHANGED <<sts, cache, config, pods, nodes, others, faults, checked>>

OthersRemoved ==
  /\ others /\ others' = FALSE
  /\ UNCHANGED <<cr, sts, cache, config, pods, nodes, edits, faults, checked>>

Informer ==
  /\ cache # sts /\ cache' = sts
  /\ UNCHANGED <<cr, sts, config, pods, nodes, others, edits, faults, checked>>

(* The StatefulSet controller reports what it sees.                          *)
Report ==
  /\ sts' = [sts EXCEPT !.seen = TRUE, !.available = Cardinality(ReadyPods),
                        !.updated = Cardinality(AtVersion(sts.spec.version))]
  /\ sts' # sts
  /\ UNCHANGED <<cr, cache, config, pods, nodes, others, edits, faults, checked>>

SetPod(i, version, phase) ==
  /\ pods' = [pods EXCEPT ![i] = [version |-> version, phase |-> phase]]
  /\ busy' = IF phase = "ready" THEN busy ELSE [busy EXCEPT ![i] = FALSE]
  /\ UNCHANGED <<cr, sts, cache, config, disabled, others, edits, checked>>

(* ... scales ...                                                            *)
Scale(i) ==
  /\ \/ i >= sts.spec.replicas /\ pods[i].phase # "absent"
        /\ SetPod(i, pods[i].version, "absent")
     \/ i < sts.spec.replicas /\ pods[i].phase = "absent"
        /\ SetPod(i, sts.spec.version, "starting")
  /\ UNCHANGED faults

(* ... and replaces pods from the last ordinal down to the partition, while  *)
(* fewer than max pods are unavailable.                                      *)
Outdated ==
  {i \in Present : i >= sts.spec.partition /\ i < sts.spec.replicas
                   /\ pods[i].version # sts.spec.version}

Replace(i) ==
  /\ sts.spec.strategy = "RollingUpdate"
  /\ i \in Outdated /\ \A j \in Outdated : j <= i
  /\ Cardinality({j \in Ordinals : j < sts.spec.replicas} \ ReadyPods) < sts.spec.max
  /\ SetPod(i, sts.spec.version, "starting")
  /\ UNCHANGED faults

PodStarts(i) ==
  /\ pods[i].phase \in {"starting", "failed"}
  /\ SetPod(i, pods[i].version, "ready")
  /\ UNCHANGED faults

PodFails(i) ==
  /\ edits + faults < MaxTrouble /\ faults' = faults + 1
  /\ pods[i].phase = "ready"
  /\ SetPod(i, pods[i].version, "failed")

(* While the operator waits for it, somebody deletes a pod of a StatefulSet  *)
(* with the OnDelete strategy, and it comes back at the new version.         *)
DeletedByHand(i) ==
  /\ cr.step = "WaitingForPodsRemoval"
  /\ pods[i].phase = "ready" /\ sts.spec.strategy = "OnDelete"
  /\ pods[i].version # sts.spec.version
  /\ SetPod(i, sts.spec.version, "failed")
  /\ UNCHANGED faults

(* The scheduler gives jobs to nodes that are not disabled.                  *)
JobsStart(i) ==
  /\ Drains /\ pods[i].phase = "ready" /\ ~disabled[i] /\ ~busy[i]
  /\ busy' = [busy EXCEPT ![i] = TRUE]
  /\ UNCHANGED <<cr, sts, cache, config, pods, disabled, others, edits, faults, checked>>

JobsEnd(i) ==
  /\ busy[i] /\ busy' = [busy EXCEPT ![i] = FALSE]
  /\ UNCHANGED <<cr, sts, cache, config, pods, disabled, others, edits, faults, checked>>

Rest == cr.step = "Over" /\ UNCHANGED vars

Next ==
  \/ \E env \in Env : Reconcile(env)
  \/ Edit \/ OthersRemoved \/ Informer \/ Report \/ Rest
  \/ \E i \in Ordinals :
       \/ Scale(i) \/ Replace(i) \/ PodStarts(i) \/ PodFails(i) \/ DeletedByHand(i)
       \/ JobsStart(i) \/ JobsEnd(i)

Spec == Init /\ [][Next]_vars

(* The operator requeues itself while an update runs and its calls succeed   *)
(* in the end; Kubernetes acts on what it is asked; the other components     *)
(* finish; whoever asked for OnDelete deletes the pods; jobs end.            *)
Fairness ==
  /\ WF_vars(Reconcile(NoFault)) /\ WF_vars(OthersRemoved)
  /\ WF_vars(Informer) /\ WF_vars(Report)
  /\ \A i \in Ordinals :
       /\ WF_vars(Scale(i)) /\ WF_vars(Replace(i)) /\ WF_vars(PodStarts(i))
       /\ WF_vars(DeletedByHand(i)) /\ SF_vars(JobsEnd(i))
FairSpec == Spec /\ Fairness

-----------------------------------------------------------------------------
(* Types of the state.                                                       *)
StsType ==
  [spec : [version : 1 .. MaxVersion, replicas : {0, Count},
           strategy : {"RollingUpdate", "OnDelete"}, partition : 0 .. Count,
           max : {1, MaxUnavailable}],
   seen : BOOLEAN, available : 0 .. Count, updated : 0 .. Count]

TypeOK ==
  /\ cr \in [version : 2 .. MaxVersion, mode : Modes,
             step : {"WaitingForPodsRemoval", "WaitingForPodsCreation", "Over"},
             precheck : BOOLEAN, removing : BOOLEAN, removed : BOOLEAN, updated : BOOLEAN]
  /\ sts \in StsType /\ cache \in StsType
  /\ config \in 1 .. MaxVersion
  /\ pods \in [Ordinals -> [version : 1 .. MaxVersion,
                            phase : {"absent", "starting", "ready", "failed"}]]
  /\ busy \in [Ordinals -> BOOLEAN] /\ disabled \in [Ordinals -> BOOLEAN]
  /\ others \in BOOLEAN
  /\ edits \in Nat /\ faults \in Nat /\ edits + faults <= MaxTrouble
  /\ checked \subseteq Ordinals

(* PodsUpdated is set only when every pod runs the version the StatefulSet   *)
(* asks for (handleRollingUpdatingClusterState, stsRollingStatus.IsFinished; *)
(* arePodsUpdatedToNewRevision for OnDelete), although the operator decides  *)
(* on counts from a cached object that may be about an older generation.     *)
(* The strategy is the one the update began with: after a change of it the   *)
(* test of the new strategy meets a StatefulSet that the old one prepared.   *)
UpdatedMeansUpdated ==
  [][edits = 0 /\ ~cr.updated /\ cr'.updated => AtVersion(sts'.spec.version) = Present]_vars

(* The StatefulSet controller takes pod i down.                              *)
TakenDown(i) ==
  pods[i].phase \in {"ready", "failed"} /\ pods'[i].phase \in {"starting", "absent"}

(* No pod is taken down before a pre-check of this update has succeeded      *)
(* (runPrechecks before removePods and before the first partition that       *)
(* exposes a pod), whatever writes are lost or repeated.                     *)
PreChecked == [][\A i \in Ordinals : TakenDown(i) => checked # {}]_vars

(* The update has been a rolling one from its beginning.                     *)
RollingOnly == cr.mode = "RollingUpdate" /\ edits = 0

(* The pods that the partition exposes and that are not ready at the new     *)
(* version.                                                                  *)
Exposed ==
  {i \in Ordinals : sts.spec.strategy = "RollingUpdate" /\ i >= sts.spec.partition
                    /\ (pods[i].version # sts.spec.version \/ pods[i].phase = "starting")}

(* A rolling update stays within its budget.  Without failures it keeps      *)
(* minReadyInstanceCount pods ready, and all but one when that is not set    *)
(* (getMinReadyInstanceCount with margin 1, maxUnavailable in the            *)
(* StatefulSet); and failures or not, lowering the partition never runs      *)
(* ahead of the pods: at most maxUnavailable of them are exposed and not yet *)
(* ready at the new version, one pod at a time in the default setting        *)
(* (UnavailableOrInProgressReplicas).                                        *)
WithinBudget ==
  RollingOnly =>
    /\ faults = 0 => Cardinality(ReadyPods) >= MinReadyInstanceCount(1)
    /\ cr.step = "WaitingForPodsRemoval" /\ MaxUnavailable = 1 => Cardinality(Exposed) <= 1

(* The update of the component ends, and all pods end up at the version of   *)
(* the specification, and ready (handleUpdatingClusterState, arePodsReady).  *)
PodsCatchUp ==
  <>[](/\ cr.step = "Over"
       /\ \A i \in Ordinals : pods[i] = [version |-> cr.version, phase |-> "ready"])

(* An exec node is taken down by a rolling update only after a pre-check     *)
(* found it drained when it was next in line                                 *)
(* (drainExecNodeForRollingUpdate).  It does not hold: after the pre-check of *)
(* the first node none is made for the others.                               *)
DrainedFirst == [][\A i \in Ordinals : TakenDown(i) => i \in checked]_vars

(* When the update is over no node is left with scheduler jobs disabled      *)
(* (enableSchedulerJobs).  It does not hold when a call of EnableSchedulerJobs *)
(* fails, for the roll is recorded as done all the same.                      *)
JobsEnabledAgain == cr.step = "Over" => \A i \in Ordinals : ~disabled[i]
=============================================================================
