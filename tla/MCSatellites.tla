----------------------------- MODULE MCSatellites -----------------------------
(***************************************************************************)
(* The resources beside the cluster, one at a time: remote nodes and          *)
(* gateways, or a release of CHYT or SPYT.  Their controllers share no state; *)
(* the part that is not under way stays at rest, nothing of it enabled.       *)
(***************************************************************************)
EXTENDS RemoteNodes, Releases

vars == <<remoteVars, releaseVars>>

RemoteAtRest ==
  /\ kind = "none"
  /\ cr = NewResource(FALSE) /\ remote = 0 /\ obj = NoObjects /\ servers = NoServers
  /\ cache = [cr |-> cr, remote |-> 0, obj |-> NoObjects]
  /\ queued = TRUE /\ failures = 0

ReleaseAtRest ==
  /\ product = "none" /\ clique = FALSE /\ cluster = "Running"
  /\ status = [release |-> "Finished", condition |-> [s \in Stages |-> "none"]]
  /\ token = 0 /\ tokens = {} /\ published = {}
  /\ script = [s \in Stages |-> NoScript] /\ job = [s \in Stages |-> "absent"]
  /\ seen = [status |-> status, token |-> 0]
  /\ jobFailures = 0 /\ clusterStops = 0

Init == (RemoteInit /\ ReleaseAtRest) \/ (ReleaseInit /\ RemoteAtRest)

Next ==
  \/ kind # "none" /\ RemoteNext /\ UNCHANGED releaseVars
  \/ product # "none" /\ ReleaseNext /\ UNCHANGED remoteVars

Spec == Init /\ [][Next]_vars /\ RemoteFairness /\ ReleaseFairness

TypeOK == (kind # "none" => RemoteTypeOK) /\ (product # "none" => ReleaseTypeOK)

================================================================================
