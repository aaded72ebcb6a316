------------------------------- MODULE Releases -------------------------------
(***************************************************************************)
(* The Chyt and Spyt resources: a release of CHYT or SPYT is published in a   *)
(* running YTsaurus once, by a chain of init jobs (pkg/components/chyt.go,    *)
(* spyt.go, controllers/chyt_*.go, spyt_*.go).                               *)
(*                                                                         *)
(* The operator keeps its place in the chain in the conditions of the         *)
(* resource, its secret and its jobs.  It reads them through informer caches  *)
(* that lag, each on its own; every write may fail, and a status based on an  *)
(* outdated copy is refused.  Jobs run, and fail, on their own.               *)
(***************************************************************************)
EXTENDS Integers

CONSTANTS
  MaxJobFailures,    \* bound: init jobs that fail
  MaxClusterStops    \* bound: times the YTsaurus stops running

ASSUME ReleaseAssumption == MaxJobFailures \in Nat /\ MaxClusterStops \in Nat

Stages == {"user", "environment", "clique"}
NoScript == -1
OldToken == 0

VARIABLES
  product,    \* "chyt" or "spyt"
  clique,     \* a public clique is asked for and there is a strawberry controller
  cluster,    \* state of the Ytsaurus resource
  status,     \* release status, and the condition of every job
  token,      \* the token in the secret, 0 when there is no secret
  script,     \* token written into the script of every job, NoScript: no ConfigMap
  job,        \* the jobs
  seen,       \* what the informers have delivered of status and token
  tokens,     \* tokens that the user in YTsaurus has
  published,  \* stages of this release whose script has run to its end
  jobFailures, clusterStops

releaseVars == <<product, clique, cluster, status, token, script, job, seen, tokens, published,
                 jobFailures, clusterStops>>

(* A resource of the same name may have been deleted just before: its secret,  *)
(* jobs and scripts are still there, the latter with a token of their own.     *)
ReleaseInit ==
  /\ product \in {"chyt", "spyt"} /\ clique \in BOOLEAN
  /\ product = "spyt" => ~clique
  /\ cluster \in {"Running", "Updating"}
  /\ status = [release |-> "", condition |-> [s \in Stages |-> "none"]]
  /\ token \in {0, 1}
  /\ script \in [Stages -> {NoScript, OldToken}]
  /\ \E old \in {"active", "succeeded", "failed"} :
       job = [s \in Stages |-> IF script[s] = OldToken THEN old ELSE "absent"]
  /\ token = 0 => \A s \in Stages : script[s] = NoScript
  /\ seen = [status |-> status, token |-> token]
  /\ tokens = {} /\ published = {}
  /\ jobFailures = 0 /\ clusterStops = 0

-----------------------------------------------------------------------------
(* The component's steps.  A step that only talks to the API server may fail  *)
(* there; `ok` says that it did not, `write` that the status was stored.      *)

(* UpdateStatus: refused when the copy it is based on is not the current one. *)
UpdateStatus(new, write) ==
  IF write THEN seen.status = status /\ status' = new ELSE UNCHANGED status

Condition(s, value) == [seen.status EXCEPT !.condition[s] = value]
Released(new, label) == [new EXCEPT !.release = label]

(* The secret is created from what the cache says is missing; creating it     *)
(* twice is refused by the API server.                                        *)
SyncSecret(ok) ==
  IF ok THEN token = 0 /\ token' = 1 ELSE UNCHANGED token

CreateSecret(ok, write) ==
  /\ seen.token = 0
  /\ SyncSecret(ok)
  /\ UpdateStatus(Released(seen.status, "CreatingUserSecret"), ok /\ write)
  /\ UNCHANGED <<script, job>>

(* InitJob.Sync: where the job of a stage stands.                             *)
JobExists(s) == job[s] # "absent" /\ script[s] # NoScript
StageReadySkipped(s) == seen.status.condition[s] # "none" /\ JobExists(s)
StageReady(s) == seen.status.condition[s] = "done" /\ JobExists(s)

(* InitJob.start: remove the previous job, and before a first start the       *)
(* previous script; checkpoint the start in the condition; then create the    *)
(* script, unless it is there, and the job.                                   *)
StartJob(s, ok, label, write) ==
  LET started == seen.status.condition[s] # "none" IN
  \/ /\ job[s] # "absent"
     /\ job' = [job EXCEPT ![s] = IF ok THEN "deleting" ELSE @]
     /\ UpdateStatus(Released(seen.status, label), ok /\ write)
     /\ UNCHANGED script
  \/ /\ job[s] = "absent" /\ ~started /\ script[s] # NoScript
     /\ script' = [script EXCEPT ![s] = IF ok THEN NoScript ELSE @]
     /\ UpdateStatus(Released(seen.status, label), ok /\ write)
     /\ UNCHANGED job
  \/ /\ job[s] = "absent" /\ ~started /\ script[s] = NoScript
     /\ UpdateStatus(Released(Condition(s, "started"), label), write)
     /\ UNCHANGED <<script, job>>
  \/ /\ job[s] = "absent" /\ started
     /\ script' = [script EXCEPT ![s] = IF @ = NoScript THEN seen.token ELSE @]
     /\ job' = [job EXCEPT ![s] = IF ok THEN "active" ELSE @]
     /\ UpdateStatus(Released(Condition(s, "started"), label), ok /\ write)

IsFailedUnnoticed(s) == FALSE
IsFailed(s) == job[s] \in {"failed", "deleting"}

SyncJob(s, ok, label, write) ==
  LET started == seen.status.condition[s] # "none" IN
  /\ ~StageReady(s)
  /\ \/ /\ ~started \/ ~JobExists(s) \/ IsFailed(s)
        /\ StartJob(s, ok, label, write)
     \/ /\ started /\ JobExists(s) /\ job[s] = "active"
        /\ UpdateStatus(Released(Condition(s, "started"), label), write)
        /\ UNCHANGED <<script, job>>
     \/ /\ started /\ JobExists(s) /\ job[s] = "succeeded"
        /\ UpdateStatus(Released(Condition(s, "done"), label), write)
        /\ UNCHANGED <<script, job>>
  /\ UNCHANGED token

Finish(write) ==
  /\ UpdateStatus(Released(seen.status, "Finished"), write)
  /\ UNCHANGED <<token, script, job>>

(* Sync of the two components: the first thing that is not done yet.          *)
ChytSync(ok, write) ==
  \/ CreateSecret(ok, write)
  \/ /\ seen.token # 0
     /\ \/ SyncJob("user", ok, "CreatingUser", write)
        \/ StageReady("user") /\ SyncJob("environment", ok, "UploadingIntoCypress", write)
        \/ /\ StageReady("user") /\ StageReady("environment") /\ clique
           /\ SyncJob("clique", ok, "CreatingChPublicClique", write)
        \/ /\ StageReady("user") /\ StageReady("environment") /\ (clique => StageReady("clique"))
           /\ Finish(write)

SpytSync(ok, write) ==
  \/ CreateSecret(ok, write)
  \/ /\ seen.token # 0
     /\ \/ SyncJob("user", ok, "CreatingUser", write)
        \/ StageReady("user") /\ SyncJob("environment", ok, "UploadingIntoCypress", write)
        \/ StageReady("user") /\ StageReady("environment") /\ Finish(write)

(* The reconcilers: nothing after Finished, nothing while the cluster is not   *)
(* running; otherwise they always come back.                                  *)
Reconcilable ==
  /\ seen.status.release # "Finished" /\ cluster = "Running"
  /\ UNCHANGED <<product, clique, cluster, seen, tokens, published, jobFailures, clusterStops>>

ReconcileChyt(ok, write) == product = "chyt" /\ Reconcilable /\ ChytSync(ok, write)
ReconcileSpyt(ok, write) == product = "spyt" /\ Reconcilable /\ SpytSync(ok, write)

ReconcileRelease(ok, write) == ReconcileChyt(ok, write) \/ ReconcileSpyt(ok, write)

-----------------------------------------------------------------------------
(* Around the operator.                                                       *)

DeliverStatus ==
  /\ seen.status # status
  /\ seen' = [seen EXCEPT !.status = status]
  /\ UNCHANGED <<product, clique, cluster, status, token, script, job, tokens, published,
                 jobFailures, clusterStops>>

DeliverSecret ==
  /\ seen.token # token
  /\ seen' = [seen EXCEPT !.token = token]
  /\ UNCHANGED <<product, clique, cluster, status, token, script, job, tokens, published,
                 jobFailures, clusterStops>>

(* The user's script creates the user with the token it was written with; the *)
(* other scripts act as that user with the token of the secret.               *)
Effect(s) ==
  /\ tokens' = IF s = "user" THEN tokens \union {script[s]} ELSE tokens
  /\ published' = IF status.condition[s] = "none" THEN published ELSE published \union {s}

MayRun(s) == s = "user" \/ token \in tokens

RunJob(s) ==
  /\ job[s] = "active" /\ MayRun(s)
  /\ job' = [job EXCEPT ![s] = "succeeded"]
  /\ Effect(s)
  /\ UNCHANGED <<product, clique, cluster, status, token, script, seen, jobFailures, clusterStops>>

(* A job may fail before or after it had its effect.                          *)
FailJob(s) ==
  /\ job[s] = "active" /\ jobFailures < MaxJobFailures
  /\ job' = [job EXCEPT ![s] = "failed"]
  /\ jobFailures' = jobFailures + 1
  /\ (MayRun(s) /\ Effect(s)) \/ UNCHANGED <<tokens, published>>
  /\ UNCHANGED <<product, clique, cluster, status, token, script, seen, clusterStops>>

JobDeleted(s) ==
  /\ job[s] = "deleting"
  /\ job' = [job EXCEPT ![s] = "absent"]
  /\ UNCHANGED <<product, clique, cluster, status, token, script, seen, tokens, published,
                 jobFailures, clusterStops>>

ClusterRuns ==
  /\ cluster = "Updating" /\ cluster' = "Running"
  /\ UNCHANGED <<product, clique, status, token, script, job, seen, tokens, published, jobFailures,
                 clusterStops>>

ClusterStops ==
  /\ cluster = "Running" /\ clusterStops < MaxClusterStops
  /\ cluster' = "Updating" /\ clusterStops' = clusterStops + 1
  /\ UNCHANGED <<product, clique, status, token, script, job, seen, tokens, published, jobFailures>>

ReleaseNext ==
  \/ \E ok, write \in BOOLEAN : ReconcileRelease(ok, write)
  \/ DeliverStatus
  \/ DeliverSecret
  \/ \E s \in Stages : RunJob(s) \/ FailJob(s) \/ JobDeleted(s)
  \/ ClusterRuns
  \/ ClusterStops

ReleaseSpec == ReleaseInit /\ [][ReleaseNext]_releaseVars

ReleaseFairness ==
  /\ WF_releaseVars(ReconcileRelease(TRUE, TRUE))
  /\ WF_releaseVars(DeliverStatus) /\ WF_releaseVars(DeliverSecret) /\ WF_releaseVars(ClusterRuns)
  /\ \A s \in Stages : WF_releaseVars(RunJob(s)) /\ WF_releaseVars(JobDeleted(s))

ReleaseFairSpec == ReleaseSpec /\ ReleaseFairness

-----------------------------------------------------------------------------
(* Properties.                                                                *)

Statuses ==
  [release : {"", "CreatingUserSecret", "CreatingUser", "UploadingIntoCypress",
              "CreatingChPublicClique", "Finished"},
   condition : [Stages -> {"none", "started", "done"}]]

(* Status, jobs, scripts and caches have their types.                         *)
ReleaseTypeOK ==
  /\ product \in {"chyt", "spyt"} /\ clique \in BOOLEAN
  /\ cluster \in {"Running", "Updating"}
  /\ status \in Statuses
  /\ token \in {0, 1}
  /\ script \in [Stages -> {NoScript, 0, 1}]
  /\ job \in [Stages -> {"absent", "active", "succeeded", "failed", "deleting"}]
  /\ seen \in [status : Statuses, token : {0, 1}]
  /\ tokens \subseteq {0, 1} /\ published \subseteq Stages
  /\ jobFailures \in 0..MaxJobFailures /\ clusterStops \in 0..MaxClusterStops

(* A stage that acts as the release user is started only when YTsaurus knows  *)
(* the token of the secret it is given, and each stage only after the one     *)
(* before it ran to its end, whatever the caches served and whatever an       *)
(* earlier resource of the same name left behind (chyt.go:137-183).           *)
StagesInOrder ==
  /\ \A s \in Stages \ {"user"} :
       status.condition[s] # "none" => token \in tokens /\ "user" \in published
  /\ status.condition["clique"] # "none" => "environment" \in published

(* Finished is reported for a release whose stages have all run, and it is    *)
(* final: no stale cache makes the operator run a stage again                 *)
(* (chyt_sync.go:34-36).                                                      *)
FinishedForGood ==
  [][status.release = "Finished" =>
       /\ status' = status /\ token' = token
       /\ \A s \in Stages : job[s] = "absent" => job'[s] = "absent"
       /\ {"user", "environment"} \subseteq published /\ (clique => "clique" \in published)]_releaseVars

(* The release is published in the end, through failed jobs, failed writes    *)
(* and a cluster that stops in between.                                       *)
ReleaseFinishes == <>(status.release = "Finished")

================================================================================
