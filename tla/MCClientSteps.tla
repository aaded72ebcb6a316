---------------------------- MODULE MCClientSteps ----------------------------
(* The tablet cells and the chunk locations are moved in steps of their own,   *)
(* so that tablet nodes need not be updated together with masters.             *)
EXTENDS ClientSteps

MCBatches == {{"TabletNode"}, {"Master"}, {"DataNode"}, {"Master", "DataNode"}}
==============================================================================
