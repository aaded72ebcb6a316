------------------------------- MODULE InitJob -------------------------------
(***************************************************************************)
(* The init-job protocol of pkg/components/init_job.go: how the operator    *)
(* runs a script in a Kubernetes Job once for every step of an update, with *)
(* one Job object, one ConfigMap and one status condition reused by all     *)
(* steps (the master component runs eleven different scripts this way).     *)
(*                                                                         *)
(* A reconcile reads the Ytsaurus status, acts on the Job and on the        *)
(* ConfigMap at once, changes the status in memory and writes it back at    *)
(* the end (ComponentManager.Sync).  The write may be lost (conflict, crash *)
(* of the operator) while the effects on the Job and ConfigMap stay; and    *)
(* the informer cache may serve the version before the operator's own last  *)
(* write, in which case the effects are repeated and the write conflicts.   *)
(***************************************************************************)
EXTENDS Integers

CONSTANTS
  CellsInitialization,   \* reason of the first script of a new cluster
  ClusterInitialization, \* reason of the second one
  UpdateReasons,         \* update states that run a script (the job's reason)
  NoReason,
  MaxEpoch,              \* bound: number of steps
  MaxManual              \* bound: objects removed by hand

Reasons == {CellsInitialization, ClusterInitialization} \cup UpdateReasons

ASSUME ReasonAssumption ==
  /\ CellsInitialization # ClusterInitialization
  /\ CellsInitialization \notin UpdateReasons
  /\ ClusterInitialization \notin UpdateReasons
  /\ NoReason \notin Reasons

ASSUME BoundAssumption == MaxEpoch \in Nat \ {0} /\ MaxManual \in Nat

VARIABLES
  status,  \* the stored Ytsaurus status
  stale,   \* the oldest version of it that the informer cache may still serve
  job,     \* the Job object and its pod
  config,  \* the ConfigMap that holds the scripts
  pods,    \* number of pods that are running a script
  ran,     \* history: steps for which a job created in that step succeeded
  manual   \* number of manual removals so far

vars == <<status, stale, job, config, pods, ran, manual>>

NoCond == [status |-> "None", reason |-> NoReason]
Cond(st, r) == [status |-> st, reason |-> r]
NoJob == [phase |-> "Absent", deleting |-> FALSE, born |-> 0]
NoConfig == [exists |-> FALSE, reason |-> NoReason, born |-> 0]

IsUpdate(s) == s.reason \in UpdateReasons

Init ==
  /\ status = [epoch |-> 1, reason |-> CellsInitialization, done |-> "None", cond |-> NoCond]
  /\ stale = status
  /\ job = NoJob
  /\ config = NoConfig
  /\ pods = 0
  /\ ran = {}
  /\ manual = 0

-----------------------------------------------------------------------------
(* The end of every reconcile: the status is written, or the write is lost.  *)
(* env says what goes wrong: whether the API calls succeed (env.api) and     *)
(* whether the status is written (env.write).                                *)

Save(s, new, env) ==
  IF env.write THEN s = status /\ status' = new /\ stale' = status
  ELSE status' = status /\ stale' = s

Env == [api : BOOLEAN, write : BOOLEAN]
NoFault == [api |-> TRUE, write |-> TRUE]

(* RunUpdateScript: the first visit to a step drops the job's condition.     *)

NeverFirstVisit(s) == FALSE
FirstVisit(s) == IsUpdate(s) /\ s.done = "None"

Restarted(s) ==
  IF FirstVisit(s) THEN [s EXCEPT !.done = "False", !.cond = NoCond] ELSE s

Exists == job.phase # "Absent" /\ config.exists

Started(s) == s.cond.status # "None" /\ s.cond.reason = s.reason
Completed(s) == s.cond.status = "True" /\ s.cond.reason = s.reason

MustStartUnlessFailed(s) == ~Started(s) \/ ~Exists
MustStart(s) == ~Started(s) \/ ~Exists \/ job.phase = "Failed"

(* InitJob.Sync, and RunScript's callback, when the condition is True for    *)
(* the reason: the step is confirmed.  Here and below s is the version of    *)
(* the status that was read and r is that version after RunUpdateScript's    *)
(* restart.                                                                  *)
Confirm(s, r, env) ==
  /\ Exists /\ Completed(r)
  /\ Save(s, [r EXCEPT !.done = "True"], env)
  /\ UNCHANGED <<job, config, pods>>

(* start: an existing Job is deleted in the foreground: the object outlives  *)
(* its pod.  The API call may fail.                                          *)
DeleteBackgroundInstead == job' = NoJob /\ UNCHANGED pods
DeleteForeground == job' = [job EXCEPT !.deleting = TRUE] /\ UNCHANGED pods

DeletePrevious(s, r, env) ==
  /\ ~(Exists /\ Completed(r)) /\ MustStart(r)
  /\ job.phase # "Absent"
  /\ Save(s, r, env)
  /\ IF env.api THEN DeleteForeground ELSE UNCHANGED <<job, pods>>
  /\ UNCHANGED config

(* start: a restarted job gets a new ConfigMap.                              *)
DeleteConfig(s, r, env) ==
  /\ job.phase = "Absent" /\ r.cond.status = "None" /\ config.exists
  /\ Save(s, r, env)
  /\ config' = IF env.api THEN NoConfig ELSE config
  /\ UNCHANGED <<job, pods>>

(* start: the condition's reason is the checkpoint of the fresh start.       *)
Checkpoint(s, r, env) ==
  /\ job.phase = "Absent" /\ ~Started(r)
  /\ r.cond.status # "None" \/ ~config.exists
  /\ Save(s, [r EXCEPT !.cond = Cond("False", r.reason)], env)
  /\ UNCHANGED <<job, config, pods>>

(* start: the ConfigMap (unless it is there for this reason) and the Job;    *)
(* each of the two API calls may fail, and then the condition stays.         *)
AnyConfigWillDo(r) ==
  IF config.exists THEN config ELSE [exists |-> TRUE, reason |-> r.reason, born |-> r.epoch]
BuiltConfig(r) ==
  IF config.exists /\ config.reason = r.reason
  THEN config ELSE [exists |-> TRUE, reason |-> r.reason, born |-> r.epoch]

Launch(s, r, env) ==
  /\ job.phase = "Absent" /\ Started(r)
  /\ IF env.api
     THEN /\ config' = BuiltConfig(r)
          /\ job' = [phase |-> "Active", deleting |-> FALSE, born |-> r.epoch]
          /\ pods' = pods + 1
          /\ Save(s, [r EXCEPT !.cond = Cond("False", r.reason)], env)
     ELSE /\ config' \in {config, BuiltConfig(r)}
          /\ UNCHANGED <<job, pods>>
          /\ Save(s, r, env)

(* Sync: the Job is there for this reason, and is running or has finished.   *)
Wait(s, r, env) ==
  /\ ~Completed(r) /\ ~MustStart(r)
  /\ job.phase = "Active"
  /\ Save(s, [r EXCEPT !.cond = Cond("False", r.reason)], env)
  /\ UNCHANGED <<job, config, pods>>

Record(s, r, env) ==
  /\ ~Completed(r) /\ ~MustStart(r)
  /\ job.phase = "Complete"
  /\ Save(s, [r EXCEPT !.cond = Cond("True", r.reason)], env)
  /\ UNCHANGED <<job, config, pods>>

(* One reconcile of the step, from the version s of the status.              *)
SyncStep(s, r, env) ==
  \/ Confirm(s, r, env)
  \/ DeletePrevious(s, r, env)
  \/ DeleteConfig(s, r, env)
  \/ Checkpoint(s, r, env)
  \/ Launch(s, r, env)
  \/ Wait(s, r, env)
  \/ Record(s, r, env)

Sync(s, env) ==
  /\ s.done # "True"
  /\ SyncStep(s, Restarted(s), env)
  /\ UNCHANGED <<ran, manual>>

(* The step is done: the update flow moves on (no component is synced in     *)
(* that reconcile).  A new cluster runs the two initialization scripts; an   *)
(* update step may have any reason, the one of an earlier update included.   *)
NextReasons(s) ==
  IF s.reason = CellsInitialization THEN {ClusterInitialization} ELSE UpdateReasons

NextStep(env) ==
  /\ status.done = "True" /\ status.epoch < MaxEpoch
  /\ \E r \in NextReasons(status) :
       Save(status, [epoch |-> status.epoch + 1, reason |-> r, done |-> "None",
                     cond |-> status.cond], env)
  /\ UNCHANGED <<job, config, pods, ran, manual>>

-----------------------------------------------------------------------------
(* Kubernetes: the pod of the Job succeeds or exhausts its retries; a        *)
(* deleted Job disappears once its pod is gone.                              *)

JobSucceeds ==
  /\ job.phase = "Active"
  /\ job' = [job EXCEPT !.phase = "Complete"]
  /\ pods' = pods - 1
  /\ ran' = ran \cup {job.born}
  /\ UNCHANGED <<status, stale, config, manual>>

JobFails ==
  /\ job.phase = "Active"
  /\ job' = [job EXCEPT !.phase = "Failed"]
  /\ pods' = pods - 1
  /\ UNCHANGED <<status, stale, config, ran, manual>>

JobRemoved ==
  /\ job.deleting
  /\ job' = NoJob
  /\ pods' = IF job.phase = "Active" THEN pods - 1 ELSE pods
  /\ UNCHANGED <<status, stale, config, ran, manual>>

(* An administrator removes a finished Job or the ConfigMap, which restarts  *)
(* the job (NOTE in IsCompleted).                                            *)
ManualRemove ==
  /\ manual < MaxManual
  /\ manual' = manual + 1
  /\ \/ job.phase \in {"Complete", "Failed"} /\ job' = NoJob /\ UNCHANGED config
     \/ config.exists /\ config' = NoConfig /\ UNCHANGED job
  /\ UNCHANGED <<status, stale, pods, ran>>

BoundReached == status.done = "True" /\ status.epoch = MaxEpoch /\ UNCHANGED vars

Next ==
  \/ \E env \in Env : Sync(status, env)
  \/ \E env \in Env : Sync(stale, env)
  \/ \E env \in Env : NextStep(env)
  \/ JobSucceeds
  \/ JobFails
  \/ JobRemoved
  \/ ManualRemove
  \/ BoundReached

Spec == Init /\ [][Next]_vars

(* Reconciles are requeued until one reads the current status, has its API   *)
(* calls succeed and writes its result; pods end, a deleted Job goes, and a  *)
(* script that is retried without end succeeds at last.                      *)
Fairness ==
  /\ SF_vars(Sync(status, NoFault))
  /\ SF_vars(NextStep(NoFault))
  /\ WF_vars(JobRemoved)
  /\ SF_vars(JobSucceeds)

FairSpec == Spec /\ Fairness

-----------------------------------------------------------------------------

Statuses == [epoch : 1..MaxEpoch, reason : Reasons, done : {"None", "False", "True"},
             cond : [status : {"None", "False", "True"}, reason : Reasons \cup {NoReason}]]

(* Types of the stored status, of its cached version and of the two objects. *)
TypeOK ==
  /\ status \in Statuses
  /\ stale \in Statuses
  /\ job \in [phase : {"Absent", "Active", "Complete", "Failed"}, deleting : BOOLEAN,
             born : 0..MaxEpoch]
  /\ config \in [exists : BOOLEAN, reason : Reasons \cup {NoReason}, born : 0..MaxEpoch]
  /\ pods \in Nat
  /\ ran \subseteq 0..MaxEpoch
  /\ manual \in 0..MaxManual

(* A step is confirmed (its update condition is True, init_job.go:222) only  *)
(* after a job created during that very step has succeeded: the True         *)
(* condition left by an earlier step, or by the same step of an earlier      *)
(* update, never passes for this one, whatever writes were lost.             *)
FreshCompletion == status.done = "True" => status.epoch \in ran

(* Two invocations of the job never overlap (init_job.go:343 deletes the     *)
(* previous Job in the foreground "to avoid concurrent invocations").        *)
NoConcurrentInvocations == pods <= 1

(* A job never runs with scripts generated for an earlier step: a restart    *)
(* removes the ConfigMap and a new reason rewrites it (init_job.go:348,369). *)
ScriptsOfThisStep == job.phase = "Active" /\ config.exists => config.born = job.born

(* The protocol implements its abstract specification: every step's script   *)
(* is executed to the end, then confirmed, then the next step begins.        *)
Promise == INSTANCE ScriptRun WITH
  step <- status.epoch, executed <- status.epoch \in ran, confirmed <- status.done = "True"
RunsEveryScript == Promise!Spec

(* Every step that is begun is eventually confirmed, although jobs fail,     *)
(* writes are lost and objects are removed by hand.                          *)
StepCompletes == \A e \in 1..MaxEpoch : status.epoch = e ~> (status.epoch = e /\ status.done = "True")
=============================================================================
