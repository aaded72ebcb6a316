-------------------------------- MODULE Bringup --------------------------------
(***************************************************************************)
(* How a cluster comes up, and how components added to its specification    *)
(* later come up: the list that NewComponentManager builds, FetchStatus and  *)
(* ComponentManager.Sync (controllers/component_manager.go), the cluster     *)
(* states outside updates (controllers/ytsaurus_controller.go), and the Sync *)
(* of every component (pkg/components) while the cluster is not updating.    *)
(*                                                                         *)
(* A component's Sync is a list of stages.  The first stage that is not over *)
(* makes the component Pending, and then the stage is worked on, or Blocked  *)
(* or Started, and then the component waits.  The components run through     *)
(* their stages concurrently, waiting for one another; a reconcile may be    *)
(* cut short by an error, may lose its status write or may start from the    *)
(* resource as it was before the last write.                                 *)
(***************************************************************************)
EXTENDS Naturals, FiniteSets, SequencesExt

CONSTANTS
  Order,         \* names of the components, in the order of NewComponentManager
  Type,          \* their types
  Clusters,      \* specifications: sets of components
  MaxGeneration, \* bound: generations of the specification
  MaxFaults      \* bound: errors, lost writes and pod failures

Components == ToSet(Order)
Virtual == {"YtsaurusClient", "ImageHeater", "Timbertruck"}

ASSUME BringupAssumption ==
  /\ Type \in [Components -> STRING]
  /\ \A s \in Clusters : s \subseteq Components
  /\ MaxGeneration \in Nat /\ MaxFaults \in Nat

VARIABLES
  cr,    \* the Ytsaurus resource
  old,   \* the resource before its last change, as a stale cache has it
  objs,  \* Kubernetes objects: <<component, kind>>
  pods,  \* pods of a component: "none", "ready", or "old", ready from an earlier template
  armed, \* masters whose template has the cells initialization annotation
  warm,  \* components whose images are on the nodes
  job,   \* the init jobs in Kubernetes
  yt,    \* what has been done in the YTsaurus cluster
  faults, \* faults so far
  turn   \* flips with every reconcile that is up to date and meets no fault

vars == <<cr, old, objs, pods, armed, warm, job, yt, faults, turn>>

None == "none"
JobNames == {"master", "client", "scheduler-user", "archive", "qt", "qa", "yqla", "ui",
             "strawberry", "chyt"}
Stamps == {"ImageHeaterComplete", "UpdateIsPossible", "TimbertruckPrepared"}

Init ==
  /\ \E s \in Clusters :
       cr = [state |-> "Created", spec |-> s, generation |-> 1, observed |-> 0, conds |-> {},
             stamps |-> [x \in Stamps |-> 0],
             jobs |-> [j \in JobNames |-> [reason |-> None, over |-> FALSE]]]
  /\ old = cr
  /\ objs = {} /\ armed = {} /\ warm = {} /\ yt = {}
  /\ pods = [c \in Components |-> "none"]
  /\ job = [j \in JobNames |-> [phase |-> "Absent", reason |-> None]]
  /\ faults = 0 /\ turn = 0

-----------------------------------------------------------------------------
(* NewComponentManager: a component is left out without what it needs.         *)
HasType(s, t) == \E c \in s : Type[c] = t
IsBuilt(s, c) ==
  /\ Type[c] = "QueryTracker" => HasType(s, "Scheduler") /\ HasType(s, "TabletNode")
  /\ Type[c] = "QueueAgent" => HasType(s, "TabletNode")
  /\ Type[c] = "StrawberryController" => HasType(s, "Scheduler")
NewComponentManager ==
  [s \in Clusters |-> SelectSeq(Order, LAMBDA c : c \in s /\ IsBuilt(s, c))]
BuiltFor == [s \in Clusters |-> ToSet(NewComponentManager[s])]

AllComponents(v) == NewComponentManager[v.spec]
Built(v) == BuiltFor[v.spec]
Has(v, t) == HasType(Built(v), t)
Of(v, t) == {c \in Built(v) : Type[c] = t}
First(v, t) ==
  AllComponents(v)[Min({n \in DOMAIN AllComponents(v) : Type[AllComponents(v)[n]] = t})]
Masters(v) == Of(v, "Master") \cup Of(v, "SecondaryMaster")

IsUp(c) == pods[c] # "none"
IsInitializing(v) == v.state = "Initializing"

-----------------------------------------------------------------------------
(* The stages.  A stage has the objects, the job, the calls to the cluster    *)
(* and the status condition that it is about.                                *)
Stage(kind, name, needs, calls, mark) ==
  [kind |-> kind, name |-> name, needs |-> needs, calls |-> calls, mark |-> mark]

Await(cs) == Stage("await", None, cs, <<>>, None)
Object(name) == Stage("object", name, {}, <<>>, None)
Pods == Stage("pods", None, {}, <<>>, None)
Job(name, reason) == Stage("job", name, {reason}, <<>>, None)
Call(condition, calls) == Stage("call", None, {}, calls, condition)
PerGeneration(condition, calls) == Stage("stamp", None, {}, calls, condition)
Over == Stage("over", None, {}, <<>>, None)

Secret == Object("secret")
HTTPService == Object("service")
RPCService == Object("service")
TCPService == Object("service")

AfterMasters(v) == Await(Of(v, "Master"))
Server == <<Object("server"), Pods>>
Microservice == <<Object("server"), Pods>>
ServerAfterMasters(v) == <<AfterMasters(v)>> \o Server

Heaters == Stage("heaters", None, {}, <<>>, None)
ImageHeater(v) == <<Heaters>>

SecondaryMaster(v) == Server

Master(v) ==
  Server \o <<Await(Of(v, "SecondaryMaster"))>> \o
  (IF ~IsInitializing(v) THEN <<>>
   ELSE IF "MasterCellsInitialized" \notin v.conds THEN <<Job("master", "CellsInitialization")>>
   ELSE <<Job("master", "ClusterInitialization")>>)

HTTPProxy(v) == <<AfterMasters(v), Object("server"), HTTPService, Pods>>

InitUser == Job("client", "Init")
YtsaurusClient(v) ==
  <<Await({First(v, "HTTPProxy")}), Secret, InitUser,
    Stage("patch", "patch", {}, <<<<"client", "patch">>>>, "CypressPatchApplied"),
    PerGeneration("UpdateIsPossible", <<>>)>>

Discovery(v) == ServerAfterMasters(v)
DataNode(v) == ServerAfterMasters(v)
UI(v) == <<AfterMasters(v), Secret, Job("ui", "Init")>> \o Microservice
RPCProxy(v) == <<AfterMasters(v), Object("server"), RPCService, Pods>>
TCPProxy(v) == <<AfterMasters(v), Object("server"), TCPService, Pods>>
KafkaProxy(v) == <<AfterMasters(v), Object("server"), RPCService, Pods>>
ExecNode(v) == ServerAfterMasters(v)

(* The first group of tablet nodes creates the bundles and their cells.       *)
InitBundles == <<<<"tnd", "bundles">>, <<"tnd", "cells">>>>
TabletNode(v, c) ==
  ServerAfterMasters(v) \o
  (IF c = First(v, "TabletNode") /\ "InitBundles" \notin v.conds
   THEN <<Await(Of(v, "YtsaurusClient")), Call("InitBundles", InitBundles)>>
   ELSE <<>>)

(* IsCompleted: the job exists and its condition is true, for any reason.     *)
IsCompleted(v, j) == job[j].phase # "Absent" /\ v.jobs[j].over

InitOpArchive == Job("archive", "InitOperationsArchive")
SchedulerAtOnce(v) ==
  <<AfterMasters(v), Secret>> \o Server \o
  <<Job("scheduler-user", "Init"), InitOpArchive>>
Scheduler(v) ==
  <<AfterMasters(v), Secret>> \o Server \o
  (IF Of(v, "TabletNode") = {} \/ IsCompleted(v, "archive") THEN <<>>
   ELSE <<Job("scheduler-user", "Init"), Await(Of(v, "TabletNode")), InitOpArchive>>)

ControllerAgent(v) == ServerAfterMasters(v)

(* The user and the nodes of the state of a tracker or agent.                 *)
InitQueryTracker == <<<<"qt", "user">>, <<"qt", "init">>>>
QueryTracker(v) ==
  <<Secret, Await(Of(v, "TabletNode")),
    Stage("job", "qt", {"Init"}, InitQueryTracker, "QueryTrackerInit")>> \o Server

InitQueueAgent == <<<<"qa", "user">>, <<"qa", "init">>>>
InitQAState == Stage("job", "qa", {"Init"}, <<<<"qa", "user">>>>, None)
QueueAgent(v) ==
  <<AfterMasters(v), Await(Of(v, "TabletNode")), Secret>> \o Server \o
  <<Await(Of(v, "YtsaurusClient")), InitQAState,
    Call("QueueAgentInit", InitQueueAgent)>>

YQLAgentInit == Job("yqla", "YQLAgentInit")
YqlAgent(v) ==
  <<AfterMasters(v), Secret, Object("exec-secret")>> \o
  (IF IsCompleted(v, "yqla") THEN <<>> ELSE <<YQLAgentInit>>) \o Server

(* A user and a cluster of CHYT; the pods are not waited for.                 *)
InitStrawberry == <<Job("strawberry", "Init"), Job("chyt", "Init")>>
StrawberryController(v) ==
  <<AfterMasters(v), Await(Of(v, "Scheduler") \cup Of(v, "DataNode")), Secret>>
  \o InitStrawberry \o <<Object("server")>>

MasterCache(v) == ServerAfterMasters(v)
CypressProxy(v) == Server
BundleController(v) == Server
TabletBalancer(v) == Server

(* initTimbertruckUser returns early when the user exists.                   *)
InitTimbertruckUser ==
  IF <<"tt", "user">> \in yt THEN <<>> ELSE <<<<"tt", "user">>, <<"tt", "acl">>>>
PrepareTimbertruckTables == <<<<"tt", "tables">>>>

Timbertruck(v) ==
  <<Secret, Await(Of(v, "YtsaurusClient"))>> \o
  (IF Of(v, "TabletNode") = {} THEN <<>>
   ELSE <<Await(Of(v, "TabletNode")), Call("TimbertruckUserInitialized", InitTimbertruckUser),
          PerGeneration("TimbertruckPrepared", PrepareTimbertruckTables)>>)

Stages(v, c) ==
  CASE Type[c] = "ImageHeater" -> ImageHeater(v)
    [] Type[c] = "SecondaryMaster" -> SecondaryMaster(v)
    [] Type[c] = "Master" -> Master(v)
    [] Type[c] = "HTTPProxy" -> HTTPProxy(v)
    [] Type[c] = "YtsaurusClient" -> YtsaurusClient(v)
    [] Type[c] = "Discovery" -> Discovery(v)
    [] Type[c] = "DataNode" -> DataNode(v)
    [] Type[c] = "UI" -> UI(v)
    [] Type[c] = "RPCProxy" -> RPCProxy(v)
    [] Type[c] = "TCPProxy" -> TCPProxy(v)
    [] Type[c] = "KafkaProxy" -> KafkaProxy(v)
    [] Type[c] = "ExecNode" -> ExecNode(v)
    [] Type[c] = "TabletNode" -> TabletNode(v, c)
    [] Type[c] = "Scheduler" -> Scheduler(v)
    [] Type[c] = "ControllerAgent" -> ControllerAgent(v)
    [] Type[c] = "QueryTracker" -> QueryTracker(v)
    [] Type[c] = "QueueAgent" -> QueueAgent(v)
    [] Type[c] = "YqlAgent" -> YqlAgent(v)
    [] Type[c] = "StrawberryController" -> StrawberryController(v)
    [] Type[c] = "MasterCache" -> MasterCache(v)
    [] Type[c] = "CypressProxy" -> CypressProxy(v)
    [] Type[c] = "BundleController" -> BundleController(v)
    [] Type[c] = "TabletBalancer" -> TabletBalancer(v)
    [] Type[c] = "Timbertruck" -> Timbertruck(v)

-----------------------------------------------------------------------------
(* ComponentStatus of the dry Sync: the first stage that is not over, given   *)
(* the components before this one that run.                                   *)
HeatersExist(v) == \A c \in Built(v) :
                     Type[c] \notin Virtual => <<c, "heater">> \in objs
AllWarm(v) == \A c \in Built(v) : Type[c] \notin Virtual => c \in warm

JobDone(v, s) ==
  /\ job[s.name].phase # "Absent"
  /\ v.jobs[s.name].over /\ v.jobs[s.name].reason \in s.needs

(* Master.ServerSync: masters armed for it are restarted once the roles of    *)
(* the cells are initialized.                                                *)
NeedsRestart(v, c) ==
  IsInitializing(v) /\ "MasterCellsInitialized" \in v.conds /\ c \in armed

IsOver(v, ready, c, s) ==
  \/ s.kind = "await" /\ s.needs \subseteq ready
  \/ s.kind = "object" /\ <<c, s.name>> \in objs /\ ~(s.name = "server" /\ NeedsRestart(v, c))
  \/ s.kind = "pods" /\ IsUp(c)
  \/ s.kind = "job" /\ JobDone(v, s) /\ s.mark \in v.conds \cup {None}
  \/ s.kind = "call" /\ s.mark \in v.conds
  \/ s.kind = "patch" /\ <<c, s.name>> \in objs /\ s.mark \in v.conds
  \/ s.kind = "stamp" /\ v.stamps[s.mark] = v.generation
  \/ s.kind = "heaters" /\ (v.stamps["ImageHeaterComplete"] = v.generation \/ HeatersExist(v))

FirstOpen(stages, open) == IF open = {} THEN Over ELSE stages[Min(open)]
Open(v, ready, c, stages) ==
  FirstOpen(stages, {n \in DOMAIN stages : ~IsOver(v, ready, c, stages[n])})

(* The loop of FetchStatus: the open stages of all components.                *)
Ready(status) == {c \in DOMAIN status : status[c] = Over}
WithStatus(v, status, c) ==
  CHOOSE next \in {(c :> Open(v, ready, c, stages)) @@ status :
                     ready \in {Ready(status)}, stages \in {Stages(v, c)}} : TRUE
StatusOf(v, loop) ==
  LET upTo[n \in 0 .. Len(loop)] ==
        IF n = 0 THEN [c \in {} |-> Over]
        ELSE CHOOSE next \in {WithStatus(v, status, loop[n]) : status \in {upTo[n - 1]}} : TRUE
  IN upTo[Len(loop)]
Status(v) == StatusOf(v, AllComponents(v))

(* What the dry Syncs of FetchStatus change in the status that is in memory:  *)
(* the primary master notes that the roles of the cells are initialized, the  *)
(* image heater notes its progress.                                          *)
WithCells(v, status) ==
  IF IsInitializing(v) /\ Of(v, "Master") \subseteq Ready(status)
  THEN [v EXCEPT !.conds = @ \cup {"MasterCellsInitialized"}]
  ELSE v

WithHeat(v) ==
  IF ~Has(v, "ImageHeater") \/ v.stamps["ImageHeaterComplete"] = v.generation THEN v
  ELSE [v EXCEPT !.stamps["ImageHeaterComplete"] = IF AllWarm(v) THEN v.generation ELSE 0]

-----------------------------------------------------------------------------
(* How the calls of a reconcile go: the component whose operation fails, the  *)
(* number of its calls to the cluster that took effect, the status write.     *)
NoFault == [error |-> None, calls |-> 0, write |-> TRUE]
LostWrite == [NoFault EXCEPT !.write = FALSE]
Error(c, n) == [error |-> c, calls |-> n, write |-> TRUE]

(* UpdateClusterHealthChecks: the masters have a quorum and the tablet cells  *)
(* have nodes to run on.                                                     *)
Healthy(v) ==
  /\ \A c \in Masters(v) : IsUp(c)
  /\ <<"tnd", "cells">> \in yt => \E c \in Of(v, "TabletNode") : IsUp(c)

(* A write that is based on a stale copy is refused.                          *)
Save(v, new, env) ==
  /\ cr' = IF env.write /\ v = cr THEN new ELSE cr
  /\ old' = IF cr' = cr THEN old ELSE cr

(* The client library is there once the operator's user is.                   *)
HasYtClient(status) ==
  \A c \in DOMAIN status :
    Type[c] = "YtsaurusClient" => status[c].kind \in {"patch", "stamp", "over"}

(* InitJob.Sync for the given reason, if any (module InitJob has the whole of *)
(* it): a job that failed or was for another reason is deleted, the start is   *)
(* noted in the condition, the job is created, its completion is noted.        *)
NeedsStartUnlessFailed(c, j, reasons) == c.reason \notin reasons \/ j.phase = "Absent"
NeedsStart(c, j, reasons) == c.reason \notin reasons \/ j.phase \in {"Absent", "Failed"}
SyncedJob(c, j, reasons) ==
  IF ~NeedsStart(c, j, reasons) THEN j
  ELSE IF j.phase # "Absent" THEN [phase |-> "Absent", reason |-> None]
  ELSE IF c.reason \in reasons THEN [phase |-> "Active", reason |-> c.reason]
  ELSE j
SyncedCondition(c, j, reasons) ==
  IF ~NeedsStart(c, j, reasons) THEN [c EXCEPT !.over = j.phase = "Complete"]
  ELSE IF j.phase # "Absent" THEN c
  ELSE [reason |-> CHOOSE reason \in reasons : TRUE, over |-> FALSE]

-----------------------------------------------------------------------------
(* ComponentManager.Sync.  The work of a pass is the set of the components    *)
(* that are Pending, each with its open stage.  An error ends the loop, except *)
(* one of the Cypress patch or of the health checks; so does the image heater  *)
(* as long as a cluster under initialization waits for it.                     *)
EndsLoop(s) == s.kind # "patch" /\ s.mark # "UpdateIsPossible"
HeaterBlocks(v) ==
  IsInitializing(v) /\ Has(v, "ImageHeater") /\ v.stamps["ImageHeaterComplete"] # v.generation

Reached(v, status, env, loop) ==
  {loop[n] : n \in {i \in DOMAIN loop :
     \A k \in 1 .. i - 1 :
       /\ loop[k] = env.error => ~EndsLoop(status[loop[k]])
       /\ Type[loop[k]] = "ImageHeater" => ~HeaterBlocks(v)}}

IsPending(status, s) ==
  /\ s.kind \notin {"await", "pods", "over"}
  /\ s.kind = "job" /\ s.calls # <<>> => HasYtClient(status)

Work(v, status, env) ==
  {[of |-> c, stage |-> status[c], ok |-> c # env.error] :
     c \in {d \in Reached(v, status, env, AllComponents(v)) : IsPending(status, status[d])}}

(* What can go wrong in a reconcile.                                          *)
Faults(status) ==
  {LostWrite} \cup
  UNION {{Error(c, n) : n \in 0 .. Len(status[c].calls)} :
           c \in {d \in DOMAIN status : IsPending(status, status[d])}}

(* The calls to the cluster that take effect.                                 *)
Effective(w, env) ==
  {w.stage.calls[i] : i \in {n \in DOMAIN w.stage.calls : w.ok \/ n <= env.calls}}

Created(v, w) ==
  CASE w.stage.kind = "heaters" /\ w.ok ->
         {<<c, "heater">> : c \in {d \in Built(v) : Type[d] \notin Virtual}}
    [] w.stage.kind = "object" /\ w.ok -> {<<w.of, w.stage.name>>}
    [] w.stage.kind = "patch" -> {<<w.of, w.stage.name>>}
    [] OTHER -> {}

Marks(work, kinds) == {w.stage.mark : w \in {x \in work : x.ok /\ x.stage.kind \in kinds}} \ {None}
Jobs(work) == {x.stage : x \in {w \in work : w.ok /\ w.stage.kind = "job"}}
Reasons(work, j) == UNION {s.needs : s \in {x \in Jobs(work) : x.name = j}}

(* doServerSync: masters are armed until the roles of the cells are known.     *)
SyncMasters(v, masters) ==
  /\ armed' = IF IsInitializing(v) /\ "MasterCellsInitialized" \notin v.conds
              THEN armed \cup masters ELSE armed \ masters
  /\ pods' = [c \in Components |->
                IF c \in masters /\ pods[c] = "ready" THEN "old" ELSE pods[c]]

Perform(v, from, work, env) ==
  /\ objs' = objs \cup UNION {Created(v, w) : w \in work}
  /\ SyncMasters(v, {w.of : w \in {x \in work : x.ok /\ x.stage.name = "server"}} \cap Masters(v))
  /\ yt' = yt \cup UNION {Effective(w, env) : w \in work}
  /\ job' = [j \in {s.name : s \in Jobs(work)} |->
               SyncedJob(v.jobs[j], job[j], Reasons(work, j))] @@ job
  /\ Save(from,
       [v EXCEPT !.conds = @ \cup Marks(work, {"job", "call", "patch"}),
                 !.stamps = [x \in {m \in Marks(work, {"stamp"}) :
                                      m = "UpdateIsPossible" => Healthy(v)} |-> v.generation] @@ @,
                 !.jobs = [j \in {s.name : s \in Jobs(work)} |->
                   SyncedCondition(v.jobs[j], job[j], Reasons(work, j))] @@ @],
       env)

-----------------------------------------------------------------------------
(* YtsaurusReconciler.Sync outside updates.  v is the resource as fetched,     *)
(* from is what the reconcile read.                                           *)
AllReady(v, ready) == Built(v) \subseteq ready
AllRunning(v, ready) ==
  \A c \in Built(v) \ ready : Type[c] = "YtsaurusClient"

Judged(v, ready) ==
  [v EXCEPT !.observed = v.generation,
            !.state = IF AllReady(v, ready) THEN "Running"
                      ELSE IF AllRunning(v, ready) THEN "Preparing"
                      ELSE "Reconfiguration"]

NextState(v, ready) ==
  CASE v.state = "Created" -> [v EXCEPT !.state = "Initializing"]
    [] v.state \in {"Initializing", "Reconfiguration"} /\ AllRunning(v, ready) ->
         [v EXCEPT !.state = "Preparing"]
    [] v.state \in {"Preparing", "Running"} -> Judged(v, ready)
    [] OTHER -> v

IsFinal(v, ready) == v.state \in {"Preparing", "Running"} /\ AllReady(v, ready)

Decide(v, from, status, env) ==
  \/ /\ NextState(v, Ready(status)) # v
     /\ env.error = None
     /\ Save(from, NextState(v, Ready(status)), env)
     /\ UNCHANGED <<objs, pods, armed, job, yt>>
  \/ /\ NextState(v, Ready(status)) = v /\ ~IsFinal(v, Ready(status))
     /\ \E work \in {Work(v, status, env)} : Perform(v, from, work, env)
  \/ /\ NextState(v, Ready(status)) = v /\ IsFinal(v, Ready(status))
     /\ UNCHANGED <<cr, old, objs, pods, armed, job, yt>>

(* A value that is used more than once is bound over a singleton, here and in  *)
(* StatusOf: TLC then evaluates it once.                                      *)
Reconcile(from, faulty) ==
  \E u \in {WithHeat(from)} : \E v \in {WithCells(u, Status(u))} : \E status \in {Status(v)} :
    \E env \in IF faulty THEN Faults(status) ELSE {NoFault} :
      Decide(v, from, status, env) /\ UNCHANGED warm

(* A reconcile in which nothing fails, and one in which something does.        *)
Operator ==
  \E from \in {cr, old} :
    /\ Reconcile(from, FALSE)
    /\ turn' = IF from = cr THEN 1 - turn ELSE turn
    /\ UNCHANGED faults
FaultyOperator ==
  /\ faults < MaxFaults
  /\ faults' = faults + 1
  /\ Reconcile(cr, TRUE)
  /\ UNCHANGED turn

(* The cache of the operator receives the last change.                        *)
CatchUp ==
  /\ old' = cr
  /\ UNCHANGED <<cr, objs, pods, armed, warm, job, yt, faults, turn>>

(* The user adds components; cells of masters are the subject of MasterCells.  *)
Edit ==
  \E s \in Clusters :
    /\ cr.generation < MaxGeneration
    /\ cr.spec \subseteq s /\ cr.spec # s
    /\ \A c \in s \ cr.spec : Type[c] # "SecondaryMaster"
    /\ cr' = [cr EXCEPT !.spec = s, !.generation = @ + 1]
    /\ old' = cr
    /\ UNCHANGED <<objs, pods, armed, warm, job, yt, faults, turn>>

-----------------------------------------------------------------------------
(* Kubernetes                                                               *)
PodsStart ==
  \E c \in Components :
    /\ <<c, "server">> \in objs /\ pods[c] = "none"
    /\ pods' = [pods EXCEPT ![c] = "ready"]
    /\ UNCHANGED <<cr, old, objs, armed, warm, job, yt, faults, turn>>

PodsRestart ==
  \E c \in Components :
    /\ pods[c] = "old"
    /\ pods' = [pods EXCEPT ![c] = "none"]
    /\ UNCHANGED <<cr, old, objs, armed, warm, job, yt, faults, turn>>

PodsFail ==
  \E c \in Components :
    /\ faults < MaxFaults /\ IsUp(c)
    /\ pods' = [pods EXCEPT ![c] = "none"]
    /\ faults' = faults + 1
    /\ UNCHANGED <<cr, old, objs, armed, warm, job, yt, turn>>

Heat ==
  \E c \in Components :
    /\ <<c, "heater">> \in objs /\ c \notin warm
    /\ warm' = warm \cup {c}
    /\ UNCHANGED <<cr, old, objs, pods, armed, job, yt, faults, turn>>

(* A script needs the masters.                                              *)
JobSucceeds ==
  \E j \in JobNames :
    /\ job[j].phase = "Active" /\ \A c \in Masters(cr) : IsUp(c)
    /\ job' = [job EXCEPT ![j].phase = "Complete"]
    /\ yt' = yt \cup {<<j, job[j].reason>>}
    /\ UNCHANGED <<cr, old, objs, pods, armed, warm, faults, turn>>

JobFails ==
  \E j \in JobNames :
    /\ faults < MaxFaults /\ job[j].phase = "Active"
    /\ job' = [job EXCEPT ![j].phase = "Failed"]
    /\ faults' = faults + 1
    /\ UNCHANGED <<cr, old, objs, pods, armed, warm, yt, turn>>

Next ==
  \/ Operator \/ FaultyOperator \/ CatchUp \/ Edit
  \/ PodsStart \/ PodsRestart \/ PodsFail \/ Heat \/ JobSucceeds \/ JobFails

Spec == Init /\ [][Next]_vars

(* The operator reconciles again and again, its cache catches up, Kubernetes  *)
(* starts pods and pulls images, and scripts that are let run succeed.         *)
FairSpec ==
  /\ Spec
  /\ []<>(turn = 0) /\ []<>(turn = 1) /\ WF_vars(CatchUp)
  /\ WF_vars(PodsStart) /\ WF_vars(PodsRestart) /\ WF_vars(Heat) /\ WF_vars(JobSucceeds)

-----------------------------------------------------------------------------
States == {"Created", "Initializing", "Preparing", "Running", "Reconfiguration"}

TypeOK ==
  /\ \A v \in {cr, old} :
       /\ v.state \in States /\ v.spec \in Clusters
       /\ v.generation \in 1 .. 1 + MaxGeneration /\ v.observed \in 0 .. v.generation
       /\ v.stamps \in [Stamps -> 0 .. v.generation]
       /\ DOMAIN v.jobs = JobNames
  /\ pods \in [Components -> {"none", "ready", "old"}]
  /\ \A o \in objs : o[1] \in Components
  /\ armed \subseteq Components /\ warm \subseteq Components
  /\ \A j \in JobNames : job[j].phase \in {"Absent", "Active", "Failed", "Complete"}
  /\ faults \in 0 .. MaxFaults /\ turn \in 0 .. 1

(* What must have happened in YTsaurus before the server of a component is    *)
(* created.                                                                  *)
Cells == <<"tnd", "cells">>
Prerequisites(t) ==
  CASE t \in {"Master", "SecondaryMaster", "CypressProxy", "BundleController", "TabletBalancer"} -> {}
    [] t = "QueryTracker" -> {Cells, <<"qt", "user">>, <<"qt", "init">>, <<"qt", "Init">>}
    [] t = "QueueAgent" -> {Cells}
    [] t = "UI" -> {<<"ui", "Init">>}
    [] t = "YqlAgent" -> {<<"yqla", "YQLAgentInit">>}
    [] t = "StrawberryController" -> {<<"strawberry", "Init">>, <<"chyt", "Init">>}
    [] OTHER -> {<<"master", "ClusterInitialization">>}

(* Nothing is created before the cluster is ready for it.  A server: other    *)
(* servers than masters only in an initialized cluster ("otherwise may cache   *)
(* incomplete ClusterMeta"), agents and trackers only with their users and     *)
(* state tables, and in a cluster under initialization only where its image    *)
(* has been pulled, if there is an image heater.  A job: those that create     *)
(* dynamic tables, the operations archive and the state of the query tracker   *)
(* and the queue agents, only once there are tablet cells, and none but those  *)
(* of the masters before the cluster is initialized.                           *)
NothingStartsEarly ==
  [][/\ \A o \in objs' \ objs :
          o[2] = "server" =>
            /\ Prerequisites(Type[o[1]]) \subseteq yt
            /\ cr.state = "Initializing" /\ Has(cr, "ImageHeater") /\ Has(old, "ImageHeater")
                 => o[1] \in warm
     /\ \A j \in JobNames :
          job[j].phase = "Absent" /\ job'[j].phase # "Absent" =>
            /\ j \in {"archive", "qt", "qa"} => Cells \in yt
            /\ j # "master" => <<"master", "ClusterInitialization">> \in yt]_vars

(* The cluster comes up, and so do the components that are added to it: in    *)
(* the end it is reported Running for the latest generation and everything is  *)
(* up, with its state in YTsaurus.                                            *)
BringsUp ==
  <>[](/\ cr.state = "Running" /\ cr.observed = cr.generation
       /\ \A c \in Built(cr) :
            Type[c] \notin Virtual => pods[c] = "ready" /\ Prerequisites(Type[c]) \subseteq yt
       /\ Has(cr, "TabletNode") /\ Has(cr, "Scheduler")
            => <<"archive", "InitOperationsArchive">> \in yt)

(* The condition that says "Timbertruck user initialized successfully" means  *)
(* that the user exists and may write where the logs are delivered.  It does   *)
(* not hold: a retry after the user was created returns early.                 *)
TimbertruckPermitted ==
  "TimbertruckUserInitialized" \in cr.conds => {<<"tt", "user">>, <<"tt", "acl">>} \subseteq yt

=============================================================================
