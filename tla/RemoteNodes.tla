------------------------------ MODULE RemoteNodes ------------------------------
(***************************************************************************)
(* Remote exec, data and tablet nodes and offshore data gateways: servers   *)
(* that run in this Kubernetes cluster for a YTsaurus described by a         *)
(* RemoteYtsaurus resource (controllers/remote*nodes_*.go,                   *)
(* controllers/offshoredatagateways_*.go).                                   *)
(*                                                                         *)
(* There is no update flow here: a reconcile compares the objects with the   *)
(* specification and writes what differs.  The controller wakes up for its   *)
(* own resource and for the RemoteYtsaurus, NOT for the StatefulSet or its   *)
(* pods, so it must not go to sleep before everything is written.  It reads  *)
(* through informer caches that lag behind the API server, and a write based *)
(* on an outdated version is refused.  An edit always brings a new value.    *)
(***************************************************************************)
EXTENDS Integers

CONSTANTS
  MaxGeneration,   \* bound: generations of the resource
  MaxRemote,       \* bound: versions of the RemoteYtsaurus
  MaxPodFailures   \* bound: pods that fail after they were ready

ASSUME RemoteAssumption ==
  MaxGeneration \in Nat \ {0} /\ MaxRemote \in Nat \ {0} /\ MaxPodFailures \in Nat

RemoteKinds == {"exec", "data", "tablet", "gateway"}

VARIABLES
  kind,      \* which of the four resources this is
  cr,        \* the resource: generation, image, configuration, status
  remote,    \* version of the RemoteYtsaurus, 0 when there is none
  obj,       \* the objects it owns, each as the version it was built for
  cache,     \* what the informers have delivered of cr, remote and obj
  queued,    \* a reconcile is due
  servers,   \* the pods: template, configuration they started with, phase
  failures

remoteVars == <<kind, cr, remote, obj, cache, queued, servers, failures>>

(* image stands for all that is compared with the StatefulSet itself: images   *)
(* and the number of instances; conf for what goes into the ConfigMap; hash    *)
(* for the configuration hash in the pod template.                            *)
NoObjects == [image |-> 0, hash |-> <<0, 0>>, config |-> <<0, 0>>, services |-> 0, sidecar |-> 0]
NoServers == [image |-> 0, hash |-> <<0, 0>>, config |-> <<0, 0>>, phase |-> "none"]
NewResource(mine) ==
  [gen |-> 1, image |-> 1, conf |-> 1, valid |-> TRUE, mine |-> mine, release |-> "", observed |-> 0]

RemoteInit ==
  /\ kind \in RemoteKinds
  /\ \E mine \in BOOLEAN : cr = NewResource(mine)
  /\ remote = 0
  /\ obj = NoObjects
  /\ cache = [cr |-> cr, remote |-> 0, obj |-> NoObjects]
  /\ queued = TRUE
  /\ servers = NoServers
  /\ failures = 0

-----------------------------------------------------------------------------
(* What the component builds: the constructors.  Only exec nodes with a CRI   *)
(* service have a second ConfigMap; it does not depend on the remote cluster. *)

Server(c, r, sidecar) ==
  [image |-> c.image, hash |-> <<c.conf, r>>, config |-> <<c.conf, r>>, services |-> 1,
   sidecar |-> sidecar]

NewRemoteExecNodes(c, r) == Server(c, r, c.conf)
NewRemoteDataNodes(c, r) == Server(c, r, 0)
NewRemoteTabletNodes(c, r) == Server(c, r, 0)
NewOffshoreDataGateways(c, r) == Server(c, r, 0)

Wanted(c, r) ==
  CASE kind = "exec" -> NewRemoteExecNodes(c, r)
    [] kind = "data" -> NewRemoteDataNodes(c, r)
    [] kind = "tablet" -> NewRemoteTabletNodes(c, r)
    [] kind = "gateway" -> NewOffshoreDataGateways(c, r)

(* serverImpl.needSync.  Without a Ytsaurus resource IsUpdatingResources is   *)
(* always true, so an update is part of every sync.  A configuration that     *)
(* cannot be generated counts as one that needs no reload.                    *)
Exists(o) == o.image # 0 /\ o.config # <<0, 0>> /\ o.services # 0

IsUpdatingResourcesNever == FALSE
IsUpdatingResources == TRUE

ServerNeedSync(o, w, valid) ==
  \/ ~Exists(o)
  \/ IsUpdatingResources /\ (o.image # w.image \/ (valid /\ o.config # w.config))

SidecarNeedsReload(o, w, valid) == valid /\ o.sidecar # w.sidecar

NeedSyncOf(o, w, valid) ==
  ServerNeedSync(o, w, valid) \/ (IsUpdatingResources /\ SidecarNeedsReload(o, w, valid))

(* serverImpl.Sync, then the sidecar's ConfigMap: everything is built first,  *)
(* then written in this order; n writes succeed.  A write goes through only   *)
(* when it is based on the current version of the object.                     *)
Written(o, w, n) ==
  [image |-> IF n >= 1 THEN w.image ELSE o.image,
   hash |-> IF n >= 1 THEN w.hash ELSE o.hash,
   config |-> IF n >= 2 THEN w.config ELSE o.config,
   services |-> IF n >= 3 THEN w.services ELSE o.services,
   sidecar |-> IF n >= 4 THEN w.sidecar ELSE o.sidecar]

UpToDate(n) ==
  /\ n >= 1 => cache.obj.image = obj.image /\ cache.obj.hash = obj.hash
  /\ n >= 2 => cache.obj.config = obj.config
  /\ n >= 3 => cache.obj.services = obj.services
  /\ n >= 4 => cache.obj.sidecar = obj.sidecar

Writes == IF kind = "exec" THEN 4 ELSE 3

-----------------------------------------------------------------------------
(* The reconciler.                                                            *)

(* Status().Update: refused unless the resource that was read is current.     *)
SetStatus(release, write) ==
  IF write
  THEN /\ cache.cr = cr
       /\ cr' = [cr EXCEPT !.release = release, !.observed = cr.gen]
       /\ queued' = (release = "Pending")
  ELSE UNCHANGED cr /\ queued' = TRUE

(* Sync of a component that needs it: an error ends the reconcile before the  *)
(* status is set.                                                             *)
Apply(n, write) ==
  LET w == Wanted(cache.cr, cache.remote) IN
  /\ NeedSyncOf(cache.obj, w, cache.cr.valid) /\ cache.cr.valid
  /\ UpToDate(n)
  /\ obj' = Written(obj, w, n)
  /\ IF n = Writes THEN SetStatus("Pending", write) ELSE UNCHANGED cr /\ queued' = TRUE

(* A configuration that cannot be generated, when something else must be      *)
(* written: the build fails and nothing is.                                   *)
FailToBuild ==
  /\ ~cache.cr.valid
  /\ NeedSyncOf(cache.obj, Wanted(cache.cr, cache.remote), FALSE)
  /\ UNCHANGED <<cr, obj, queued>>

(* Nothing to write: ArePodsReady.                                            *)
ReportPods(write) ==
  /\ ~NeedSyncOf(cache.obj, Wanted(cache.cr, cache.remote), cache.cr.valid)
  /\ SetStatus(IF servers.phase = "ready" THEN "Running" ELSE "Pending", write)
  /\ UNCHANGED obj

(* Component.Sync of each kind, as the reconciler calls it.                   *)
RemoteExecNodeSync(n, write) == kind = "exec" /\ (Apply(n, write) \/ FailToBuild \/ ReportPods(write))
RemoteDataNodeSync(n, write) == kind = "data" /\ (Apply(n, write) \/ FailToBuild \/ ReportPods(write))
RemoteTabletNodeSync(n, write) == kind = "tablet" /\ (Apply(n, write) \/ FailToBuild \/ ReportPods(write))
OffshoreDataGatewaySync(n, write) == kind = "gateway" /\ (Apply(n, write) \/ FailToBuild \/ ReportPods(write))

(* Reconcile and Sync of each controller: without the RemoteYtsaurus, or for  *)
(* a resource that belongs to another operator, it only asks to come back.    *)
Due == queued /\ cache.remote # 0 /\ cache.cr.mine /\ UNCHANGED <<kind, remote, cache, servers, failures>>
ComeBack == queued /\ (cache.remote = 0 \/ ~cache.cr.mine) /\ UNCHANGED remoteVars

ReconcileRemoteExecNodes(n, write) == Due /\ RemoteExecNodeSync(n, write)
ReconcileRemoteDataNodes(n, write) == Due /\ RemoteDataNodeSync(n, write)
ReconcileRemoteTabletNodes(n, write) == Due /\ RemoteTabletNodeSync(n, write)
ReconcileOffshoreDataGateways(n, write) == Due /\ OffshoreDataGatewaySync(n, write)

ReconcileRemote(n, write) ==
  \/ ReconcileRemoteExecNodes(n, write)
  \/ ReconcileRemoteDataNodes(n, write)
  \/ ReconcileRemoteTabletNodes(n, write)
  \/ ReconcileOffshoreDataGateways(n, write)

-----------------------------------------------------------------------------
(* The informers: SetupWithManager.  A new version of the resource, or of the *)
(* RemoteYtsaurus it names, makes a reconcile due; one of the objects does    *)
(* not.                                                                       *)

Delivered(what, value, wakes) ==
  /\ cache' = [cache EXCEPT ![what] = value]
  /\ queued' = (queued \/ wakes)
  /\ UNCHANGED <<kind, cr, remote, obj, servers, failures>>

DeliverResource == cache.cr # cr /\ Delivered("cr", cr, TRUE)
DeliverObjects == cache.obj # obj /\ Delivered("obj", obj, FALSE)

FindNobody(k) == kind = k /\ cache.remote # remote /\ Delivered("remote", remote, FALSE)

FindRemoteNodes(k) == kind = k /\ cache.remote # remote /\ Delivered("remote", remote, TRUE)

FindRemoteExecNodes == FindRemoteNodes("exec")
FindRemoteDataNodes == FindRemoteNodes("data")
FindRemoteTabletNodes == FindRemoteNodes("tablet")
FindRemoteGateways == FindRemoteNodes("gateway")

DeliverRemote ==
  FindRemoteExecNodes \/ FindRemoteDataNodes \/ FindRemoteTabletNodes \/ FindRemoteGateways

(* The operator restarts: the caches are filled again and everything is due.  *)
RestartOperator ==
  /\ cache' = [cr |-> cr, remote |-> remote, obj |-> obj]
  /\ queued' = TRUE
  /\ UNCHANGED <<kind, cr, remote, obj, servers, failures>>

-----------------------------------------------------------------------------
(* Users and Kubernetes.                                                      *)

(* A new image, a new configuration (perhaps one that cannot be generated),   *)
(* or both.                                                                   *)
EditResource(image, conf, valid) ==
  /\ cr.gen < MaxGeneration
  /\ image \/ conf
  /\ ~conf => valid = cr.valid
  /\ cr' = [cr EXCEPT !.gen = @ + 1, !.valid = valid,
              !.image = IF image THEN cr.gen + 1 ELSE @,
              !.conf = IF conf THEN cr.gen + 1 ELSE @]
  /\ UNCHANGED <<kind, remote, obj, cache, queued, servers, failures>>

(* The label that says which operator is in charge is no part of the spec.    *)
TakeOver ==
  /\ ~cr.mine
  /\ cr' = [cr EXCEPT !.mine = TRUE]
  /\ UNCHANGED <<kind, remote, obj, cache, queued, servers, failures>>

EditRemote ==
  /\ remote < MaxRemote
  /\ remote' = remote + 1
  /\ UNCHANGED <<kind, cr, obj, cache, queued, servers, failures>>

MoveServers(new) ==
  /\ servers' = new
  /\ UNCHANGED <<kind, cr, remote, obj, cache, queued>>

ReplaceServers ==
  /\ obj.image # 0 /\ <<servers.image, servers.hash>> # <<obj.image, obj.hash>>
  /\ MoveServers([image |-> obj.image, hash |-> obj.hash, config |-> <<0, 0>>, phase |-> "pending"])
  /\ UNCHANGED failures

(* A pod mounts the ConfigMap as it is when the pod starts.                   *)
StartServers ==
  /\ servers.phase = "pending" /\ obj.config # <<0, 0>>
  /\ MoveServers([servers EXCEPT !.phase = "ready", !.config = obj.config])
  /\ UNCHANGED failures

ServersFail ==
  /\ servers.phase = "ready" /\ failures < MaxPodFailures
  /\ MoveServers([servers EXCEPT !.phase = "pending"])
  /\ failures' = failures + 1

RemoteNext ==
  \/ \E n \in 0..4, write \in BOOLEAN : n <= Writes /\ ReconcileRemote(n, write)
  \/ ComeBack
  \/ DeliverResource
  \/ DeliverObjects
  \/ DeliverRemote
  \/ RestartOperator
  \/ \E image, conf, valid \in BOOLEAN : EditResource(image, conf, valid)
  \/ TakeOver
  \/ EditRemote
  \/ ReplaceServers
  \/ StartServers
  \/ ServersFail

RemoteSpec == RemoteInit /\ [][RemoteNext]_remoteVars

(* A reconcile that is due is retried until it goes well, informers catch up, *)
(* pods follow their StatefulSet.                                             *)
RemoteFairness ==
  /\ WF_remoteVars(ReconcileRemote(Writes, TRUE))
  /\ WF_remoteVars(DeliverResource) /\ WF_remoteVars(DeliverObjects) /\ WF_remoteVars(DeliverRemote)
  /\ WF_remoteVars(ReplaceServers) /\ WF_remoteVars(StartServers)

RemoteFairSpec == RemoteSpec /\ RemoteFairness

-----------------------------------------------------------------------------
(* Properties.                                                                *)

Versions == 0..MaxGeneration
RemoteResources ==
  [gen : 1..MaxGeneration, image : 1..MaxGeneration, conf : 1..MaxGeneration, valid : BOOLEAN,
   mine : BOOLEAN, release : {"", "Pending", "Running"}, observed : Versions]
Configs == Versions \X (0..MaxRemote)
OwnedObjects ==
  [image : Versions, hash : Configs, config : Configs, services : {0, 1}, sidecar : Versions]

(* The resource, its objects, its pods and the caches have their types.       *)
RemoteTypeOK ==
  /\ kind \in RemoteKinds
  /\ cr \in RemoteResources
  /\ remote \in 0..MaxRemote
  /\ obj \in OwnedObjects
  /\ cache \in [cr : RemoteResources, remote : 0..MaxRemote, obj : OwnedObjects]
  /\ queued \in BOOLEAN
  /\ servers \in [image : Versions, hash : Configs, config : Configs,
                  phase : {"none", "pending", "ready"}]
  /\ failures \in 0..MaxPodFailures

(* Running with the current observed generation tells the truth about the     *)
(* objects, whatever the caches served: the StatefulSet, and a configuration  *)
(* that can be generated at all, are those of this very generation            *)
(* (remoteexecnodes_sync.go:50-58).                                           *)
StatusTruthful ==
  cr.release = "Running" /\ cr.observed = cr.gen =>
    /\ obj.image = cr.image
    /\ cr.valid => obj.config[1] = cr.conf

(* The controller does not sleep on unfinished work: when no reconcile is due *)
(* and the informers have delivered the resource and the RemoteYtsaurus,      *)
(* every object is built for both and Running is reported; nobody would wake  *)
(* it for the StatefulSet (remoteexecnodes_controller.go:92-100).             *)
NeverSleepsOnWork ==
  ~queued /\ cache.cr = cr /\ cache.remote = remote =>
    /\ cr.release = "Running" /\ cr.observed = cr.gen
    /\ cr.valid => obj = Wanted(cr, remote)

(* What is asked for last, in the resource or in the RemoteYtsaurus, reaches  *)
(* the objects, the pods and the status, and stays.                           *)
Settled ==
  /\ obj = Wanted(cr, remote)
  /\ servers.phase = "ready" /\ <<servers.image, servers.hash>> = <<obj.image, obj.hash>>
  /\ cr.release = "Running" /\ cr.observed = cr.gen
FollowsRemote == <>[](cr.valid /\ cr.mine /\ remote # 0 => Settled)

================================================================================
