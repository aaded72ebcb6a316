---------------------------- MODULE MCConfiguration ----------------------------
(***************************************************************************)
(* What users write and what becomes of it: specifications of masters before   *)
(* the admission webhook, overrides in the configuration files, and overrides  *)
(* in Cypress through the Cypress patch.  The three share no state; those that *)
(* are not under way stay at rest.                                             *)
(***************************************************************************)
EXTENDS Patches, ConfigOverrides, Admission

(* Overrides of the Cypress patch: a nested attribute whose parents are        *)
(* missing, a removal; a move to an attribute of a node that is missing.       *)
MCOverrides ==
  {EmptyPatchSet,
   AddPatch(EmptyPatchSet, "//sys", <<AddOp(<<"@hint", "a", "b">>, Literal(1)), RemoveOp(<<"users">>)>>),
   AddPatch(EmptyPatchSet, "//sys", <<MoveOp(<<"nodes", "@hint", "a">>, <<"users">>)>>)}

One(key, value) == MapOf(<<key>>, [k \in {key} |-> value])
Two(a, b) == MapOf(<<"a", "b">>, [k \in {"a", "b"} |-> IF k = "a" THEN a ELSE b])

MCGenerated ==
  {Two(Leaf(1), One("c", Leaf(1))),
   Two(Attributed(One("t", Leaf(1)), Two(Leaf(1), Leaf(1))), Leaf(1))}

(* Literals, maps and attributed values over each of them, and a document that *)
(* cannot be parsed.                                                           *)
MCOverrideDocs ==
  {One("a", Leaf(2)),
   One("a", One("b", Leaf(3))),
   One("b", Two(Leaf(4), Leaf(4))),
   One("a", Attributed(One("t", Leaf(5)), Leaf(5))),
   One("b", Attributed(One("u", Leaf(6)), One("c", Leaf(6)))),
   EmptyMap, Leaf(7), Unparsable}

(* Two master cells of up to five instances.                                   *)
Hosts == {"cypress_node_host", "transaction_coordinator"}
MCRoleChoices == {Default, Hosts \cup {"chunk_host"}, Hosts \cup {"dedicated_chunk_host"}}

MasterCell(t, count, minReady) ==
  [tag |-> t, count |-> count, minReady |-> minReady, roles |-> Default]
Cluster(cells, ephemeral) ==
  [cells |-> cells, shutdown |-> "ExceptMasters", assign |-> FALSE, ephemeral |-> ephemeral]

MCNewClusters ==
  {Cluster(cells, ephemeral) :
     ephemeral \in BOOLEAN,
     cells \in {<<MasterCell(1, 3, 2)>>, <<MasterCell(1, 1, Unset)>>, <<MasterCell(1, 5, 3)>>,
               <<MasterCell(1, 3, 1)>>, <<MasterCell(1, 3, Unset), MasterCell(2, 1, 1)>>}}

vars == <<patchVars, configVars, admissionVars>>

PatchAtRest ==
  /\ cypress = NoTree /\ revision = 1 /\ override = EmptyPatchSet
  /\ todo = <<>> /\ due = FALSE /\ writes = 0 /\ breaks = 0

ConfigAtRest ==
  /\ generated = EmptyMap /\ overrides = [l \in {} |-> Leaf(0)]
  /\ format = "none" /\ file = NoFile /\ changes = 0

AdmissionAtRest == AdmissionInit /\ spec = Cluster(<<MasterCell(1, 1, Unset)>>, FALSE)

Init ==
  \/ PatchInit /\ ConfigAtRest /\ AdmissionAtRest
  \/ ConfigInit /\ PatchAtRest /\ AdmissionAtRest
  \/ AdmissionInit /\ PatchAtRest /\ ConfigAtRest

Next ==
  \/ cypress # NoTree /\ PatchNext /\ UNCHANGED <<configVars, admissionVars>>
  \/ format # "none" /\ ConfigNext /\ UNCHANGED <<patchVars, admissionVars>>
  \/ /\ cypress = NoTree /\ format = "none"
     /\ AdmissionNext /\ UNCHANGED <<patchVars, configVars>>

Spec ==
  Init /\ [][Next]_vars /\ (cypress # NoTree => PatchFairness)

================================================================================
