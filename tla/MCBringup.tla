------------------------------- MODULE MCBringup -------------------------------
(* Instances of Bringup for TLC.                                             *)
EXTENDS Bringup

MCOrder == <<"ih", "sm", "m", "hp", "yc", "ds", "dn", "ui", "rp", "tp", "kp", "en", "tn", "tn2",
             "sch", "ca", "qt", "qa", "yqla", "chyt", "mc", "cyp", "bc", "tb", "tt">>
MCType ==
  [ih |-> "ImageHeater", sm |-> "SecondaryMaster", m |-> "Master", hp |-> "HTTPProxy",
   yc |-> "YtsaurusClient", ds |-> "Discovery", dn |-> "DataNode", ui |-> "UI",
   rp |-> "RPCProxy", tp |-> "TCPProxy", kp |-> "KafkaProxy", en |-> "ExecNode",
   tn |-> "TabletNode", tn2 |-> "TabletNode", sch |-> "Scheduler", ca |-> "ControllerAgent",
   qt |-> "QueryTracker", qa |-> "QueueAgent", yqla |-> "YqlAgent",
   chyt |-> "StrawberryController", mc |-> "MasterCache", cyp |-> "CypressProxy",
   bc |-> "BundleController", tb |-> "TabletBalancer", tt |-> "Timbertruck"]

(* A cluster always has masters, an HTTP proxy and discovery servers.  Each    *)
(* addition has components that wait for one another, or do not; a cluster    *)
(* with tablet and exec nodes gets queue agents and log delivery later.        *)
Base == {"m", "hp", "yc", "ds"}
Additions ==
  {{"ih", "cyp"}, {"sm"}, {"tn", "en"}, {"tn", "en", "qa", "tt"}, {"tn", "sch", "qt"},
   {"sch", "chyt"}, {"dn"}, {"ui"}, {"yqla"}, {"rp", "mc"}, {"tp", "kp"},
   {"ca", "tn", "tn2"}, {"bc", "tb"}}
MCClusters == {Base \cup cs : cs \in Additions}
=============================================================================
