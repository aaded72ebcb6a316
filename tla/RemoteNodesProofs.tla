--------------------------- MODULE RemoteNodesProofs ---------------------------
(***************************************************************************)
(* The controllers of remote nodes and gateways neither report nor sleep too *)
(* early, for any number of edits.                                           *)
(*                                                                         *)
(* The argument: versions only grow, and the copy of an object in a cache,   *)
(* the object, the cached resource it was built for and the resource itself  *)
(* follow each other in that order.  A cached copy that equals what the      *)
(* resource asks for therefore leaves no room for the object to differ.      *)
(***************************************************************************)
EXTENDS RemoteNodes, TLAPS

(* The chain of versions. *)
Chained ==
  /\ cache.obj.image <= obj.image /\ obj.image <= cache.cr.image
  /\ cache.obj.config[1] <= obj.config[1] /\ obj.config[1] <= obj.hash[1] /\ obj.hash[1] <= cache.cr.conf
  /\ cache.obj.config[2] <= obj.config[2] /\ obj.config[2] <= obj.hash[2] /\ obj.hash[2] <= cache.remote
  /\ cache.obj.sidecar <= obj.sidecar /\ obj.sidecar <= cache.cr.conf
  /\ cache.obj.services <= obj.services
  /\ kind # "exec" => obj.sidecar = 0

Behind ==
  /\ cache.cr.image <= cr.image /\ cache.cr.conf <= cr.conf /\ cache.remote <= remote
  /\ cr.image <= cr.gen /\ cr.conf <= cr.gen
  /\ cache.cr.gen <= cr.gen /\ cr.observed <= cr.gen
  /\ cache.cr.mine => cr.mine

IInv == RemoteTypeOK /\ Chained /\ Behind /\ StatusTruthful /\ NeverSleepsOnWork

-----------------------------------------------------------------------------
(* A cluster of remote nodes starts with a resource and nothing else. *)
LEMMA RemoteInitHolds == RemoteInit => IInv
<1> SUFFICES ASSUME RemoteInit PROVE IInv
  OBVIOUS
<1>1. PICK mine \in BOOLEAN : cr = NewResource(mine)
  BY DEF RemoteInit
<1> USE RemoteAssumption
<1>2. RemoteTypeOK
  <2>1. NewResource(mine) \in RemoteResources
    BY DEF NewResource, RemoteResources, Versions
  <2>2. <<0, 0>> \in Configs
    BY DEF Configs, Versions
  <2>3. NoObjects \in OwnedObjects
    BY <2>2 DEF NoObjects, OwnedObjects, Versions
  <2>4. NoServers \in [image : Versions, hash : Configs, config : Configs,
                        phase : {"none", "pending", "ready"}]
    BY <2>2 DEF NoServers, Versions
  <2> QED
    BY <1>1, <2>1, <2>3, <2>4 DEF RemoteInit, RemoteTypeOK
<1>3. Chained /\ Behind
  <2>1. cache.cr = cr /\ cache.obj = NoObjects /\ obj = NoObjects /\ cache.remote = 0 /\ remote = 0
    BY DEF RemoteInit
  <2>2. /\ NoObjects.image = 0 /\ NoObjects.sidecar = 0 /\ NoObjects.services = 0
        /\ NoObjects.config = <<0, 0>> /\ NoObjects.hash = <<0, 0>>
    BY DEF NoObjects
  <2>3. cr.gen = 1 /\ cr.image = 1 /\ cr.conf = 1 /\ cr.observed = 0
    BY <1>1, Zenon DEF NewResource
  <2>4. Chained
    BY <2>1, <2>2, <2>3 DEF Chained
  <2>5. Behind
    BY <2>1, <2>3 DEF Behind
  <2> QED
    BY <2>4, <2>5
<1>4. StatusTruthful /\ NeverSleepsOnWork
  BY <1>1, Zenon DEF RemoteInit, StatusTruthful, NeverSleepsOnWork, NewResource
<1> QED
  BY <1>2, <1>3, <1>4 DEF IInv

-----------------------------------------------------------------------------
(* What the four constructors build differs only in the sidecar. *)
LEMMA WantedIs ==
  ASSUME kind \in RemoteKinds, NEW c, NEW r
  PROVE  Wanted(c, r) = [image |-> c.image, hash |-> <<c.conf, r>>, config |-> <<c.conf, r>>,
                         services |-> 1, sidecar |-> IF kind = "exec" THEN c.conf ELSE 0]
BY DEF RemoteKinds, Wanted, Server, NewRemoteExecNodes, NewRemoteDataNodes,
       NewRemoteTabletNodes, NewOffshoreDataGateways

(* The parts of a resource and of its objects are numbers. *)
LEMMA ResourceTypes ==
  ASSUME NEW c \in RemoteResources
  PROVE  /\ c.gen \in Nat /\ c.image \in Nat /\ c.conf \in Nat /\ c.observed \in Nat
         /\ c.image \in Versions /\ c.conf \in Versions /\ c.gen \in Versions
         /\ c.valid \in BOOLEAN /\ c.mine \in BOOLEAN
<1>1. /\ c.gen \in 1..MaxGeneration /\ c.image \in 1..MaxGeneration /\ c.conf \in 1..MaxGeneration
      /\ c.observed \in 0..MaxGeneration /\ c.valid \in BOOLEAN /\ c.mine \in BOOLEAN
  BY Zenon DEF RemoteResources, Versions
<1> QED
  BY <1>1, RemoteAssumption DEF Versions

(* The owned objects, field by field: the versions they were built for and     *)
(* what the comparison with the specification reads.                           *)
LEMMA ObjectTypes ==
  ASSUME NEW o \in OwnedObjects
  PROVE  /\ o.image \in Nat /\ o.sidecar \in Nat /\ o.services \in {0, 1}
         /\ o.config[1] \in Nat /\ o.config[2] \in Nat
         /\ o.hash[1] \in Nat /\ o.hash[2] \in Nat
         /\ o.config = <<o.config[1], o.config[2]>> /\ o.hash = <<o.hash[1], o.hash[2]>>
<1>1. o.image \in Versions /\ o.sidecar \in Versions /\ o.services \in {0, 1}
      /\ o.config \in Configs /\ o.hash \in Configs
  BY DEF OwnedObjects
<1>2. \A x \in Configs : x[1] \in Nat /\ x[2] \in Nat /\ x = <<x[1], x[2]>>
  BY RemoteAssumption DEF Configs, Versions
<1>3. \A x \in Versions : x \in Nat
  BY RemoteAssumption DEF Versions
<1> QED
  BY <1>1, <1>2, <1>3

(* All of it at once, for the state. *)
LEMMA StateTypes ==
  ASSUME RemoteTypeOK
  PROVE  /\ kind \in RemoteKinds
         /\ cr \in RemoteResources /\ cache.cr \in RemoteResources
         /\ obj \in OwnedObjects /\ cache.obj \in OwnedObjects
         /\ remote \in 0..MaxRemote /\ cache.remote \in 0..MaxRemote
         /\ remote \in Nat /\ cache.remote \in Nat
         /\ Wanted(cache.cr, cache.remote) \in OwnedObjects
<1>1. /\ kind \in RemoteKinds
      /\ cr \in RemoteResources /\ cache.cr \in RemoteResources
      /\ obj \in OwnedObjects /\ cache.obj \in OwnedObjects
      /\ remote \in 0..MaxRemote /\ cache.remote \in 0..MaxRemote
  BY DEF RemoteTypeOK
<1>2. remote \in Nat /\ cache.remote \in Nat
  BY <1>1, RemoteAssumption
<1>3. cache.cr.image \in Versions /\ cache.cr.conf \in Versions /\ 0 \in Versions
  BY <1>1, ResourceTypes, RemoteAssumption DEF Versions
<1>4. <<cache.cr.conf, cache.remote>> \in Configs
  BY <1>1, <1>3 DEF Configs
<1>5. Wanted(cache.cr, cache.remote) \in OwnedObjects
  BY <1>1, <1>3, <1>4, WantedIs DEF OwnedObjects
<1> QED
  BY <1>1, <1>2, <1>5

-----------------------------------------------------------------------------
(* However many of the writes of a sync succeed, the chain holds: what is        *)
(* written was built for the cached resource, and the StatefulSet, with the      *)
(* hash of the configuration, is written before the ConfigMap.                   *)
LEMMA WritesKeepChain ==
  ASSUME IInv, NEW n \in 0..4,
         obj' = Written(obj, Wanted(cache.cr, cache.remote), n),
         UNCHANGED <<kind, cache>>
  PROVE  /\ obj' \in OwnedObjects
         /\ Chained'
         /\ obj.image <= obj'.image /\ obj.config[1] <= obj'.config[1]
<1> DEFINE w == Wanted(cache.cr, cache.remote)
<1>1. RemoteTypeOK /\ Chained
  BY DEF IInv
<1>2. obj \in OwnedObjects /\ w \in OwnedObjects
  BY <1>1, StateTypes
<1>3. /\ w.image = cache.cr.image /\ w.services = 1
      /\ w.config = <<cache.cr.conf, cache.remote>> /\ w.hash = <<cache.cr.conf, cache.remote>>
      /\ w.sidecar = IF kind = "exec" THEN cache.cr.conf ELSE 0
  BY <1>1, StateTypes, WantedIs
<1>4. /\ cache.cr.image \in Nat /\ cache.cr.conf \in Nat /\ cache.remote \in Nat
  BY <1>1, StateTypes, ResourceTypes
<1>5. /\ obj.image \in Nat /\ obj.sidecar \in Nat /\ obj.services \in {0, 1}
      /\ obj.config[1] \in Nat /\ obj.config[2] \in Nat
      /\ obj.hash[1] \in Nat /\ obj.hash[2] \in Nat
  BY <1>2, ObjectTypes
<1>6. /\ cache.obj.image \in Nat /\ cache.obj.sidecar \in Nat /\ cache.obj.services \in {0, 1}
      /\ cache.obj.config[1] \in Nat /\ cache.obj.config[2] \in Nat
  BY <1>1, StateTypes, ObjectTypes
<1> HIDE DEF w
<1>7. /\ obj'.image = (IF n >= 1 THEN w.image ELSE obj.image)
      /\ obj'.hash = (IF n >= 1 THEN w.hash ELSE obj.hash)
      /\ obj'.config = (IF n >= 2 THEN w.config ELSE obj.config)
      /\ obj'.services = (IF n >= 3 THEN w.services ELSE obj.services)
      /\ obj'.sidecar = (IF n >= 4 THEN w.sidecar ELSE obj.sidecar)
  BY DEF Written, w
<1>8. obj' \in OwnedObjects
  <2>1. obj' = [image |-> obj'.image, hash |-> obj'.hash, config |-> obj'.config,
                services |-> obj'.services, sidecar |-> obj'.sidecar]
    BY DEF Written, w
  <2>2. /\ obj'.image \in Versions /\ obj'.hash \in Configs /\ obj'.config \in Configs
        /\ obj'.services \in {0, 1} /\ obj'.sidecar \in Versions
    BY <1>2, <1>7 DEF OwnedObjects
  <2> QED
    BY <2>1, <2>2 DEF OwnedObjects
<1>9. obj.image <= obj'.image /\ obj'.image <= cache.cr.image
  BY <1>1, <1>3, <1>4, <1>5, <1>7 DEF Chained
<1>10. /\ obj.sidecar <= obj'.sidecar /\ obj'.sidecar <= cache.cr.conf
       /\ obj.services <= obj'.services
       /\ kind # "exec" => obj'.sidecar = 0
  BY <1>1, <1>3, <1>4, <1>5, <1>7 DEF Chained
<1>11. /\ obj.config[1] <= obj'.config[1] /\ obj'.config[1] <= obj'.hash[1] /\ obj'.hash[1] <= cache.cr.conf
       /\ obj.config[2] <= obj'.config[2] /\ obj'.config[2] <= obj'.hash[2] /\ obj'.hash[2] <= cache.remote
  <2>1. CASE n = 0
    BY <2>1, <1>1, <1>4, <1>5, <1>7 DEF Chained
  <2>2. CASE n = 1
    BY <2>2, <1>1, <1>3, <1>4, <1>5, <1>7 DEF Chained
  <2>3. CASE n >= 2
    BY <2>3, <1>1, <1>3, <1>4, <1>5, <1>7 DEF Chained
  <2> QED
    BY <2>1, <2>2, <2>3
<1>12. Chained'
  <2>1. /\ obj'.image \in Nat /\ obj'.sidecar \in Nat /\ obj'.services \in {0, 1}
        /\ obj'.config[1] \in Nat /\ obj'.config[2] \in Nat
    BY <1>8, ObjectTypes
  <2> QED
    BY <2>1, <1>1, <1>5, <1>6, <1>9, <1>10, <1>11 DEF Chained
<1> QED
  BY <1>8, <1>9, <1>11, <1>12

(* When the cached objects are as the resource wants them, so are the objects. *)
LEMMA NothingToWrite ==
  ASSUME IInv, cache.cr = cr,
         ~NeedSyncOf(cache.obj, Wanted(cache.cr, cache.remote), cache.cr.valid)
  PROVE  /\ obj.image = cr.image
         /\ cr.valid => obj.config[1] = cr.conf
         /\ cr.valid /\ cache.remote = remote => obj = Wanted(cr, remote)
<1> DEFINE w == Wanted(cache.cr, cache.remote)
<1>1. RemoteTypeOK /\ Chained
  BY DEF IInv
<1>2. /\ w.image = cr.image /\ w.config = <<cr.conf, cache.remote>>
      /\ w.sidecar = IF kind = "exec" THEN cr.conf ELSE 0
  BY <1>1, StateTypes, WantedIs
<1>3. /\ cr.image \in Nat /\ cr.conf \in Nat /\ cache.remote \in Nat
  BY <1>1, StateTypes, ResourceTypes
<1>4. /\ obj.image \in Nat /\ obj.sidecar \in Nat /\ obj.services \in {0, 1}
      /\ obj.config[1] \in Nat /\ obj.config[2] \in Nat
      /\ obj.hash[1] \in Nat /\ obj.hash[2] \in Nat
      /\ obj.config = <<obj.config[1], obj.config[2]>> /\ obj.hash = <<obj.hash[1], obj.hash[2]>>
  BY <1>1, StateTypes, ObjectTypes
<1>5. /\ cache.obj.image \in Nat /\ cache.obj.sidecar \in Nat /\ cache.obj.services \in {0, 1}
      /\ cache.obj.config[1] \in Nat /\ cache.obj.config[2] \in Nat
  BY <1>1, StateTypes, ObjectTypes
<1> HIDE DEF w
<1>6. /\ cache.obj.image = w.image /\ cache.obj.services # 0
      /\ cr.valid => cache.obj.config = w.config /\ cache.obj.sidecar = w.sidecar
  BY DEF NeedSyncOf, ServerNeedSync, SidecarNeedsReload, Exists, IsUpdatingResources, w
<1>7. obj.image = cr.image
  BY <1>1, <1>2, <1>3, <1>4, <1>5, <1>6 DEF Chained
<1>8. ASSUME cr.valid
      PROVE  /\ obj.config[1] = cr.conf /\ obj.hash[1] = cr.conf
             /\ obj.config[2] = cache.remote /\ obj.hash[2] = cache.remote
  <2>1. cache.obj.config[1] = cr.conf /\ cache.obj.config[2] = cache.remote
    BY <1>2, <1>6, <1>8
  <2> QED
    BY <2>1, <1>1, <1>3, <1>4 DEF Chained
<1>9. ASSUME cr.valid, cache.remote = remote
      PROVE  obj = Wanted(cr, remote)
  <2>1. obj.config = <<cr.conf, remote>> /\ obj.hash = <<cr.conf, remote>>
    BY <1>4, <1>8, <1>9
  <2>2. obj.services = 1
    BY <1>1, <1>4, <1>5, <1>6 DEF Chained
  <2>3. obj.sidecar = IF kind = "exec" THEN cr.conf ELSE 0
    BY <1>1, <1>2, <1>3, <1>4, <1>5, <1>6, <1>9 DEF Chained
  <2>4. obj = [image |-> obj.image, hash |-> obj.hash, config |-> obj.config,
               services |-> obj.services, sidecar |-> obj.sidecar]
    BY <1>1, StateTypes DEF OwnedObjects
  <2> QED
    BY <1>1, <1>7, <2>1, <2>2, <2>3, <2>4, StateTypes, WantedIs
<1> QED
  BY <1>7, <1>8, <1>9

(* A reconcile, complete or cut short. *)
LEMMA ReconcileKeeps ==
  ASSUME IInv, NEW n \in 0..4, NEW write \in BOOLEAN, ReconcileRemote(n, write)
  PROVE  IInv'
<1>1. queued /\ UNCHANGED <<kind, remote, cache, servers, failures>>
  BY DEF ReconcileRemote, ReconcileRemoteExecNodes, ReconcileRemoteDataNodes,
         ReconcileRemoteTabletNodes, ReconcileOffshoreDataGateways, Due
<1>2. Apply(n, write) \/ FailToBuild \/ ReportPods(write)
  BY DEF ReconcileRemote, ReconcileRemoteExecNodes, ReconcileRemoteDataNodes,
         ReconcileRemoteTabletNodes, ReconcileOffshoreDataGateways,
         RemoteExecNodeSync, RemoteDataNodeSync, RemoteTabletNodeSync, OffshoreDataGatewaySync
<1>3. RemoteTypeOK /\ Chained /\ Behind
  BY DEF IInv
<1>4. cr \in RemoteResources /\ cr.gen \in Nat /\ cr.image \in Nat /\ cr.conf \in Nat
      /\ cache.cr.image \in Nat /\ cache.cr.conf \in Nat
  BY <1>3, StateTypes, ResourceTypes
<1>5. ASSUME NEW release \in {"Pending", "Running"}, SetStatus(release, write)
      PROVE  /\ cr' \in RemoteResources /\ queued' \in BOOLEAN
             /\ Behind'
             /\ cr'.valid = cr.valid /\ cr'.gen = cr.gen
             /\ cr'.image = cr.image /\ cr'.conf = cr.conf
             /\ \/ cr' = cr /\ queued'
                \/ cache.cr = cr /\ cr'.release = release /\ cr'.observed = cr'.gen
                   /\ queued' = (release = "Pending")
  <2>1. CASE write
    <3>1. /\ cache.cr = cr /\ cr' = [cr EXCEPT !.release = release, !.observed = cr.gen]
          /\ queued' = (release = "Pending")
      BY <1>5, <2>1 DEF SetStatus
    <3>2. cr.gen \in Versions
      BY <1>4, ResourceTypes
    <3>3. cr' \in RemoteResources
      BY <1>4, <3>1, <3>2, Zenon DEF RemoteResources
    <3>4. /\ cr'.valid = cr.valid /\ cr'.gen = cr.gen /\ cr'.mine = cr.mine
          /\ cr'.image = cr.image /\ cr'.conf = cr.conf
          /\ cr'.release = release /\ cr'.observed = cr.gen
      BY <1>4, <3>1, Zenon DEF RemoteResources
    <3>5. Behind'
      BY <1>1, <1>3, <1>4, <3>4 DEF Behind
    <3> QED
      BY <3>1, <3>3, <3>4, <3>5
  <2>2. CASE ~write
    BY <1>1, <1>3, <1>4, <1>5, <2>2 DEF SetStatus, Behind
  <2> QED
    BY <2>1, <2>2
<1>6. CASE Apply(n, write)
  <2>1. obj' = Written(obj, Wanted(cache.cr, cache.remote), n)
    BY <1>6 DEF Apply
  <2>2. obj' \in OwnedObjects /\ Chained' /\ obj.image <= obj'.image /\ obj.config[1] <= obj'.config[1]
    BY <1>1, <2>1, WritesKeepChain
  <2>3. SetStatus("Pending", write) \/ (cr' = cr /\ queued' = TRUE)
    BY <1>6 DEF Apply
  <2>4. /\ cr' \in RemoteResources /\ queued' = TRUE /\ Behind'
        /\ (cr' = cr \/ cr'.release = "Pending")
    BY <1>1, <1>3, <1>4, <1>5, <2>3 DEF Behind
  <2>5. RemoteTypeOK'
    BY <1>1, <1>3, <2>2, <2>4 DEF RemoteTypeOK
  <2>6. StatusTruthful'
    <3> SUFFICES ASSUME cr' = cr, cr.release = "Running", cr.observed = cr.gen
                 PROVE  obj'.image = cr.image /\ (cr.valid => obj'.config[1] = cr.conf)
      BY <2>4 DEF StatusTruthful
    <3>1. obj.image = cr.image /\ (cr.valid => obj.config[1] = cr.conf)
      BY DEF IInv, StatusTruthful
    <3>2. obj'.image <= cache.cr.image /\ obj'.config[1] <= obj'.hash[1] /\ obj'.hash[1] <= cache.cr.conf
      BY <1>1, <2>2 DEF Chained
    <3>3. obj'.image \in Nat /\ obj'.config[1] \in Nat /\ obj'.hash[1] \in Nat
      BY <2>2, ObjectTypes
    <3>4. cache.cr.image <= cr.image /\ cache.cr.conf <= cr.conf
      BY <1>3 DEF Behind
    <3> QED
      BY <1>4, <2>2, <3>1, <3>2, <3>3, <3>4
  <2>7. NeverSleepsOnWork'
    BY <2>4 DEF NeverSleepsOnWork
  <2> QED
    BY <2>2, <2>4, <2>5, <2>6, <2>7 DEF IInv
<1>7. CASE FailToBuild
  <2>1. UNCHANGED <<kind, cr, remote, obj, cache, queued, servers, failures>>
    BY <1>1, <1>7 DEF FailToBuild
  <2> QED
    BY <2>1, Zenon DEF IInv, RemoteTypeOK, Chained, Behind, StatusTruthful, NeverSleepsOnWork, Wanted
<1>8. CASE ReportPods(write)
  <2>1. obj' = obj /\ ~NeedSyncOf(cache.obj, Wanted(cache.cr, cache.remote), cache.cr.valid)
    BY <1>8 DEF ReportPods
  <2>2. PICK release \in {"Pending", "Running"} : SetStatus(release, write)
    BY <1>8 DEF ReportPods
  <2>3. RemoteTypeOK' /\ Chained' /\ Behind'
    BY <1>1, <1>3, <1>5, <2>1, <2>2 DEF RemoteTypeOK, Chained
  <2>4. StatusTruthful'
    <3>1. CASE cr' = cr
      BY <2>1, <3>1 DEF IInv, StatusTruthful
    <3>2. CASE cache.cr = cr
      BY <1>5, <2>1, <2>2, <3>2, NothingToWrite DEF StatusTruthful
    <3> QED
      BY <1>5, <2>2, <3>1, <3>2
  <2>5. NeverSleepsOnWork'
    <3> SUFFICES ASSUME ~queued', cache.cr = cr', cache.remote = remote
                 PROVE  /\ cr'.release = "Running" /\ cr'.observed = cr'.gen
                        /\ cr'.valid => obj = Wanted(cr, remote)'
      BY <1>1, <2>1 DEF NeverSleepsOnWork
    <3>1. cache.cr = cr /\ cr'.release = release /\ cr'.observed = cr'.gen /\ queued' = (release = "Pending")
      BY <1>5, <2>2
    <3>2. release = "Running" /\ cr' = cr
      BY <3>1, Zenon
    <3>3. cr.valid => obj = Wanted(cr, remote)
      BY <2>1, <3>1, NothingToWrite
    <3>4. Wanted(cr, remote)' = Wanted(cr, remote)
      BY <1>1, <3>2 DEF Wanted
    <3> QED
      BY <3>1, <3>2, <3>3, <3>4
  <2> QED
    BY <2>3, <2>4, <2>5 DEF IInv
<1> QED
  BY <1>2, <1>6, <1>7, <1>8

-----------------------------------------------------------------------------
(* The informers deliver the current version of something, or of everything. *)
LEMMA DeliveriesKeep ==
  ASSUME IInv, DeliverResource \/ DeliverObjects \/ DeliverRemote \/ RestartOperator
  PROVE  IInv'
<1>1. UNCHANGED <<kind, cr, remote, obj, servers, failures>> /\ queued' \in BOOLEAN
  BY Zenon DEF DeliverResource, DeliverObjects, DeliverRemote, FindRemoteExecNodes, FindRemoteDataNodes,
         FindRemoteTabletNodes, FindRemoteGateways, FindRemoteNodes, Delivered, RestartOperator,
         IInv, RemoteTypeOK
<1>2. RemoteTypeOK /\ Chained /\ Behind
  BY DEF IInv
<1>3. /\ cr \in RemoteResources /\ cache.cr \in RemoteResources
      /\ obj \in OwnedObjects /\ cache.obj \in OwnedObjects
      /\ remote \in 0..MaxRemote /\ cache.remote \in 0..MaxRemote
      /\ remote \in Nat /\ cache.remote \in Nat
      /\ cache = [cr |-> cache.cr, remote |-> cache.remote, obj |-> cache.obj]
  BY <1>2, StateTypes DEF RemoteTypeOK
<1>4. PICK c \in {cache.cr, cr}, r \in {cache.remote, remote}, o \in {cache.obj, obj} :
        /\ cache' = [cr |-> c, remote |-> r, obj |-> o]
        /\ ~queued' => ~queued /\ c = cache.cr /\ r = cache.remote
  <2>1. CASE DeliverResource
    <3>1. cache' = [cr |-> cr, remote |-> cache.remote, obj |-> cache.obj] /\ queued'
      BY <2>1, <1>3, Zenon DEF DeliverResource, Delivered
    <3> QED
      BY <3>1
  <2>2. CASE DeliverObjects
    <3>1. cache' = [cr |-> cache.cr, remote |-> cache.remote, obj |-> obj] /\ (~queued' => ~queued)
      BY <2>2, <1>3, Zenon DEF DeliverObjects, Delivered
    <3> QED
      BY <3>1
  <2>3. CASE DeliverRemote
    <3>1. cache' = [cr |-> cache.cr, remote |-> remote, obj |-> cache.obj] /\ queued'
      BY <2>3, <1>3, Zenon DEF DeliverRemote, FindRemoteExecNodes, FindRemoteDataNodes,
           FindRemoteTabletNodes, FindRemoteGateways, FindRemoteNodes, Delivered
    <3> QED
      BY <3>1
  <2>4. CASE RestartOperator
    BY <2>4 DEF RestartOperator
  <2> QED
    BY <2>1, <2>2, <2>3, <2>4
<1>5. cache'.cr = c /\ cache'.remote = r /\ cache'.obj = o
  BY <1>4
<1>6. RemoteTypeOK'
  BY <1>1, <1>2, <1>3, <1>4 DEF RemoteTypeOK
<1>7. Chained' /\ Behind'
  <2>1. /\ cr.gen \in Nat /\ cr.image \in Nat /\ cr.conf \in Nat /\ cr.mine \in BOOLEAN
        /\ cache.cr.gen \in Nat /\ cache.cr.image \in Nat /\ cache.cr.conf \in Nat
    BY <1>3, ResourceTypes
  <2>2. /\ obj.image \in Nat /\ obj.sidecar \in Nat /\ obj.services \in {0, 1}
        /\ obj.config[1] \in Nat /\ obj.config[2] \in Nat
        /\ obj.hash[1] \in Nat /\ obj.hash[2] \in Nat
    BY <1>3, ObjectTypes
  <2>3. Behind'
    BY <1>1, <1>2, <1>3, <1>4, <1>5, <2>1 DEF Behind
  <2>4. /\ c.image >= cache.cr.image /\ c.conf >= cache.cr.conf /\ r >= cache.remote
        /\ c.image \in Nat /\ c.conf \in Nat /\ r \in Nat
    BY <1>2, <1>3, <1>4, <2>1 DEF Behind
  <2>5. /\ o.image <= obj.image /\ o.sidecar <= obj.sidecar /\ o.services <= obj.services
        /\ o.config[1] <= obj.config[1] /\ o.config[2] <= obj.config[2]
    BY <1>2, <1>4, <2>2 DEF Chained
  <2>6. /\ obj.image <= c.image /\ obj.hash[1] <= c.conf /\ obj.hash[2] <= r /\ obj.sidecar <= c.conf
    BY <1>2, <1>3, <2>1, <2>2, <2>4 DEF Chained
  <2>7. Chained'
    BY <1>1, <1>2, <1>5, <2>5, <2>6 DEF Chained
  <2> QED
    BY <2>3, <2>7
<1>8. StatusTruthful'
  BY <1>1 DEF IInv, StatusTruthful
<1>9. NeverSleepsOnWork'
  BY <1>1, <1>4, <1>5, Zenon DEF IInv, NeverSleepsOnWork, Wanted
<1> QED
  BY <1>6, <1>7, <1>8, <1>9 DEF IInv

(* Users. *)
LEMMA EditsKeep ==
  ASSUME IInv,
         \/ \E image, conf, valid \in BOOLEAN : EditResource(image, conf, valid)
         \/ TakeOver
         \/ EditRemote
  PROVE  IInv'
<1>1. UNCHANGED <<kind, obj, cache, queued, servers, failures>>
  BY Zenon DEF EditResource, TakeOver, EditRemote
<1>2. RemoteTypeOK /\ Chained /\ Behind
  BY DEF IInv
<1>3. /\ cr \in RemoteResources /\ remote \in Nat /\ cache.remote \in Nat
      /\ cr.gen \in Nat /\ cr.image \in Nat /\ cr.conf \in Nat /\ cr.mine \in BOOLEAN
      /\ cr.observed \in Nat
      /\ cache.cr.gen \in Nat /\ cache.cr.image \in Nat /\ cache.cr.conf \in Nat
      /\ cache.cr.mine \in BOOLEAN
  BY <1>2, StateTypes, ResourceTypes
<1>4. Chained'
  BY <1>1, <1>2 DEF Chained
<1>5. CASE \E image, conf, valid \in BOOLEAN : EditResource(image, conf, valid)
  <2>1. PICK image \in BOOLEAN, conf \in BOOLEAN, valid \in BOOLEAN :
          /\ cr.gen < MaxGeneration
          /\ cr' = [cr EXCEPT !.gen = cr.gen + 1, !.valid = valid,
                       !.image = IF image THEN cr.gen + 1 ELSE cr.image,
                       !.conf = IF conf THEN cr.gen + 1 ELSE cr.conf]
          /\ remote' = remote
    BY <1>5, Zenon DEF EditResource
  <2>2. /\ cr'.gen = cr.gen + 1 /\ cr'.valid = valid /\ cr'.mine = cr.mine
        /\ cr'.image = (IF image THEN cr.gen + 1 ELSE cr.image)
        /\ cr'.conf = (IF conf THEN cr.gen + 1 ELSE cr.conf)
        /\ cr'.observed = cr.observed
    BY <1>3, <2>1, Zenon DEF RemoteResources
  <2>3. cr' \in RemoteResources
    <3>1. cr.gen + 1 \in 1..MaxGeneration
      BY <1>3, <2>1, RemoteAssumption
    <3> QED
      BY <1>3, <2>1, <3>1, Zenon DEF RemoteResources
  <2>4. RemoteTypeOK'
    BY <1>1, <1>2, <2>1, <2>3 DEF RemoteTypeOK
  <2>5. Behind'
    BY <1>1, <1>2, <1>3, <2>1, <2>2 DEF Behind
  <2>6. cr'.observed # cr'.gen /\ cache.cr # cr'
    BY <1>2, <1>3, <2>2 DEF Behind
  <2>7. StatusTruthful' /\ NeverSleepsOnWork'
    BY <1>1, <2>6 DEF StatusTruthful, NeverSleepsOnWork
  <2> QED
    BY <1>4, <2>4, <2>5, <2>7 DEF IInv
<1>6. CASE TakeOver
  <2>1. cr' = [cr EXCEPT !.mine = TRUE] /\ ~cr.mine /\ remote' = remote
    BY <1>6 DEF TakeOver
  <2>2. /\ cr' \in RemoteResources /\ cr'.mine /\ cr'.gen = cr.gen /\ cr'.valid = cr.valid
        /\ cr'.image = cr.image /\ cr'.conf = cr.conf /\ cr'.observed = cr.observed
        /\ cr'.release = cr.release
    BY <1>3, <2>1, Zenon DEF RemoteResources
  <2>3. cache.cr # cr'
    BY <1>2, <2>1, <2>2, Zenon DEF Behind
  <2>4. RemoteTypeOK'
    BY <1>1, <1>2, <2>1, <2>2 DEF RemoteTypeOK
  <2>5. Behind'
    BY <1>1, <1>2, <2>1, <2>2 DEF Behind
  <2>6. StatusTruthful' /\ NeverSleepsOnWork'
    BY <1>1, <2>2, <2>3 DEF IInv, StatusTruthful, NeverSleepsOnWork
  <2> QED
    BY <1>4, <2>4, <2>5, <2>6 DEF IInv
<1>7. CASE EditRemote
  <2>1. remote < MaxRemote /\ remote' = remote + 1 /\ cr' = cr
    BY <1>7 DEF EditRemote
  <2>2. RemoteTypeOK'
    BY <1>1, <1>2, <2>1, RemoteAssumption DEF RemoteTypeOK
  <2>3. Behind' /\ cache.remote # remote'
    BY <1>1, <1>2, <1>3, <2>1 DEF Behind
  <2>4. StatusTruthful' /\ NeverSleepsOnWork'
    BY <1>1, <2>1, <2>3 DEF IInv, StatusTruthful, NeverSleepsOnWork
  <2> QED
    BY <1>4, <2>2, <2>3, <2>4 DEF IInv
<1> QED
  BY <1>5, <1>6, <1>7

(* The pods are looked at by nothing but the type. *)
LEMMA ServersKeep ==
  ASSUME IInv, ReplaceServers \/ StartServers \/ ServersFail
  PROVE  IInv'
<1>1. UNCHANGED <<kind, cr, remote, obj, cache, queued>>
  BY DEF ReplaceServers, StartServers, ServersFail, MoveServers
<1> DEFINE Servers == [image : Versions, hash : Configs, config : Configs,
                       phase : {"none", "pending", "ready"}]
<1>2. obj \in OwnedObjects /\ servers \in Servers /\ failures \in 0..MaxPodFailures
  BY DEF IInv, RemoteTypeOK
<1>3. obj.image \in Versions /\ obj.hash \in Configs /\ obj.config \in Configs /\ <<0, 0>> \in Configs
  BY <1>2, RemoteAssumption DEF OwnedObjects, Configs, Versions
<1>4. servers' \in Servers
  <2>1. CASE ReplaceServers
    BY <2>1, <1>3 DEF ReplaceServers, MoveServers
  <2>2. CASE StartServers
    BY <2>2, <1>2, <1>3, Zenon DEF StartServers, MoveServers
  <2>3. CASE ServersFail
    BY <2>3, <1>2 DEF ServersFail, MoveServers
  <2> QED
    BY <2>1, <2>2, <2>3
<1>5. failures' \in 0..MaxPodFailures
  BY <1>2, RemoteAssumption DEF ReplaceServers, StartServers, ServersFail
<1>6. RemoteTypeOK'
  BY <1>1, <1>4, <1>5 DEF IInv, RemoteTypeOK
<1> QED
  BY <1>1, <1>6, Zenon DEF IInv, Chained, Behind, StatusTruthful, NeverSleepsOnWork, Wanted

(* One step of anybody. *)
LEMMA RemoteStepKeeps == IInv /\ [RemoteNext]_remoteVars => IInv'
<1> SUFFICES ASSUME IInv, [RemoteNext]_remoteVars PROVE IInv'
  OBVIOUS
<1>1. CASE \E n \in 0..4, write \in BOOLEAN : n <= Writes /\ ReconcileRemote(n, write)
  BY <1>1, ReconcileKeeps
<1>2. CASE ComeBack \/ UNCHANGED remoteVars
  BY <1>2, Zenon DEF ComeBack, remoteVars, IInv, RemoteTypeOK, Chained, Behind, StatusTruthful,
              NeverSleepsOnWork, Wanted
<1>3. CASE DeliverResource \/ DeliverObjects \/ DeliverRemote \/ RestartOperator
  BY <1>3, DeliveriesKeep
<1>4. CASE \/ \E image, conf, valid \in BOOLEAN : EditResource(image, conf, valid)
           \/ TakeOver
           \/ EditRemote
  BY <1>4, EditsKeep
<1>5. CASE ReplaceServers \/ StartServers \/ ServersFail
  BY <1>5, ServersKeep
<1> QED
  BY <1>1, <1>2, <1>3, <1>4, <1>5 DEF RemoteNext

(* The inductive invariant holds of all behaviours. *)
THEOREM RemoteInvariance == RemoteSpec => []IInv
BY RemoteInitHolds, RemoteStepKeeps, PTL DEF RemoteSpec

(* The resource, its objects and the caches keep their types. *)
THEOREM RemoteTypeCorrect == RemoteSpec => []RemoteTypeOK
<1>1. IInv => RemoteTypeOK
  BY DEF IInv
<1> QED
  BY <1>1, RemoteInvariance, PTL

(* Running with the current observed generation is never reported of objects     *)
(* that were built for an earlier one, however far the caches lag and wherever   *)
(* a reconcile is cut short.                                                     *)
THEOREM RunningIsTruthful == RemoteSpec => []StatusTruthful
<1>1. IInv => StatusTruthful
  BY DEF IInv
<1> QED
  BY <1>1, RemoteInvariance, PTL

(* A controller that is not woken for its StatefulSet has nothing left to do     *)
(* when it goes to sleep.                                                        *)
THEOREM SleepsWhenDone == RemoteSpec => []NeverSleepsOnWork
<1>1. IInv => NeverSleepsOnWork
  BY DEF IInv
<1> QED
  BY <1>1, RemoteInvariance, PTL

================================================================================
