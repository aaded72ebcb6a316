---------------------------- MODULE MCClusterUpdate ----------------------------
(* Small clusters for ClusterUpdate.  A component is named after its type.    *)
EXTENDS ClusterUpdate

TypeOf ==
  [p |-> "Master", s |-> "Master", h |-> "HttpProxy", t |-> "TabletNode", d |-> "DataNode",
   e |-> "ExecNode", k |-> "Scheduler", q |-> "QueryTracker"]
MCLoop == <<"p", "h", "t">>
MCType == [c \in Components |-> TypeOf[c]]

Change(touch, plan, onDelete, shutdown) ==
  [touch |-> touch, plan |-> plan, onDelete |-> onDelete, shutdown |-> shutdown]

(* Masters and tablet nodes change, under plans that allow all, or some, or   *)
(* leave the pods to be deleted by hand.                                      *)
MixedEdits ==
  {Change({"p", "h", "t"}, {"p", "h", "t"}, {}, "None"),
   Change({"t"}, {"p", "t"}, {}, "None"),
   Change({"p", "t"}, {"p", "h", "t"}, {"p"}, "None"),
   Change({"h", "t"}, {"h"}, {}, "None")}

(* Maintenance comes and goes, with or without a change of templates; the     *)
(* scheduler has scripts of its own to run in an update.                      *)
ScriptLoop == <<"p", "h", "k">>
MaintenanceEdits ==
  {Change({"p"}, {"p", "h", "k"}, {}, "ExceptMasters"),
   Change({}, {"p", "h", "k"}, {}, "None"),
   Change({"p", "k"}, {"p", "h", "k"}, {}, "Tablets")}

(* A new version of a secondary master only.                                  *)
CellsLoop == <<"s", "p", "h">>
SecondaryEdits == {Change({"s"}, {"s", "p", "h"}, {}, "None")}

================================================================================
