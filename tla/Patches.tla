-------------------------------- MODULE Patches --------------------------------
(***************************************************************************)
(* The Cypress patch: what the operator writes into Cypress when it applies   *)
(* the patches of the components and of the overrides (pkg/ypatch).           *)
(*                                                                         *)
(* A patch set is applied one operation after the other, by calls that may    *)
(* fail, while others write to Cypress too.  There is no transaction: what    *)
(* failed half way is applied again from the start.                           *)
(***************************************************************************)
EXTENDS Integers, Sequences, SequencesExt, FiniteSets, Functions

CONSTANTS
  CellId, SecondaryCellId,   \* cell ids of a primary and a secondary master
  Overrides,    \* patch sets that the overrides may hold
  MaxSpecs,     \* bound: versions of the specification
  MaxWrites,    \* bound: writes by others
  MaxBreaks     \* bound: failed applications

ASSUME PatchAssumption == MaxSpecs \in Nat \ {0} /\ MaxWrites \in Nat /\ MaxBreaks \in Nat

VARIABLES
  cypress,    \* the tree: literal at every leaf
  revision,   \* version of the specification, which the addresses follow
  override,   \* the patch set of the overrides
  todo,       \* operations of the application under way that are left
  due,        \* the patch has to be applied (again)
  writes, breaks

patchVars == <<cypress, revision, override, todo, due, writes, breaks>>

-----------------------------------------------------------------------------
(* Trees.  A tree maps the paths of its leaves to literals; a literal is the   *)
(* tree with the leaf <<>>.  Maps are there when something is below them.      *)

NoTree == [p \in {} |-> 0]
Literal(v) == [p \in {<<>>} |-> v]
Leaves(t, path) == {p \in DOMAIN t : IsPrefix(path, p)}
Has(t, path) == Leaves(t, path) # {}
Sub(t, path) ==
  [q \in {SubSeq(p, Len(path) + 1, Len(p)) : p \in Leaves(t, path)} |-> t[path \o q]]
Without(t, path) == Restrict(t, DOMAIN t \ Leaves(t, path))
Put(t, path, value) ==
  LET rest == Without(t, path)
      new == {path \o q : q \in DOMAIN value}
  IN  [p \in DOMAIN rest \union new |->
         IF p \in new THEN value[SubSeq(p, Len(path) + 1, Len(p))] ELSE rest[p]]

(* Cypress itself.  `Recursive` creates missing maps, but not inside of        *)
(* attributes and not the node that has the attribute.                         *)
Attributes == {"@cluster_connection", "@hint"}
IsAttribute(path) == \E i \in DOMAIN path : path[i] \in Attributes
Blocked(t, path) == \E i \in 0..(Len(path) - 1) : SubSeq(path, 1, i) \in DOMAIN t
Resolves(t, path) == ~Blocked(t, path) /\ (IsAttribute(path) => Has(t, Front(path)))

(* CypressPatchTarget.SetNode: when the parent of an attribute's part is       *)
(* missing, set the parent to a map of the part; when the node is missing,     *)
(* create it with the attribute.                                               *)
Nested(key, value) == [q \in {<<key>> \o p : p \in DOMAIN value} |-> value[Tail(q)]]

RECURSIVE SetNodeBare(_, _, _)
SetNodeBare(t, path, value) ==
  CASE Resolves(t, path) \/ Last(path) \in Attributes -> Put(t, path, value)
    [] OTHER -> SetNodeBare(t, Front(path), value)

RECURSIVE SetNode(_, _, _)
SetNode(t, path, value) ==
  CASE Resolves(t, path) \/ Last(path) \in Attributes -> Put(t, path, value)
    [] OTHER -> SetNode(t, Front(path), Nested(Last(path), value))

-----------------------------------------------------------------------------
(* Patches (patch.go).  A patch set maps paths to patches; the paths are       *)
(* applied in lexicographic order, and "<>//..." comes after every "//...".    *)

Op(op, path, from, value) == [op |-> op, path |-> path, from |-> from, value |-> value]
AddOp(path, value) == Op("add", path, <<>>, value)
CopyOp(path, from) == Op("copy", path, from, Literal(0))
MoveOp(path, from) == Op("move", path, from, Literal(0))
RemoveOp(path) == Op("remove", path, <<>>, Literal(0))
ReplaceOp(path, value) == Op("replace", path, <<>>, value)
TestOp(path, value) == Op("test", path, <<>>, value)
ReplaceOrRemove(path, value) == IF DOMAIN value = {} THEN RemoveOp(path) ELSE ReplaceOp(path, value)

Connection == <<"sys", "@cluster_connection">>
Clusters == <<"sys", "clusters">>
PatchPaths == <<"//sys", "//sys/@cluster_connection", "<>//sys/clusters">>
At == [p \in Range(PatchPaths) |->
         CASE p = "//sys" -> <<"sys">>
           [] p = "//sys/@cluster_connection" -> Connection
           [] p = "<>//sys/clusters" -> Clusters]

EmptyPatchSet == [p \in Range(PatchPaths) |-> <<>>]
AddPatch(set, path, patch) == [set EXCEPT ![path] = @ \o patch]
AddPatchSet(set, more) == [p \in Range(PatchPaths) |-> set[p] \o more[p]]

(* The patches of the components, for a version of the specification.          *)
Name == "c"
MasterPatch(s) ==
  AddPatch(EmptyPatchSet, "//sys/@cluster_connection",
    <<TestOp(<<"primary_master", "cell_id">>, Literal(CellId)),
      ReplaceOp(<<"primary_master", "addresses">>, Literal(s)),
      ReplaceOrRemove(<<"bus_client">>, IF s % 2 = 1 THEN Literal(s) ELSE NoTree)>>)

SecondaryMasterPatch(s) ==
  AddPatch(EmptyPatchSet, "//sys/@cluster_connection",
    <<TestOp(<<"secondary_masters", "0", "cell_id">>, Literal(SecondaryCellId)),
      ReplaceOp(<<"secondary_masters", "0", "addresses">>, Literal(s))>>)

YqlAgentPatch(s) ==
  AddPatch(EmptyPatchSet, "//sys/@cluster_connection",
    <<ReplaceOp(<<"yql_agent", "addresses">>, Literal(s))>>)

ClientPatch ==
  AddPatch(EmptyPatchSet, "<>//sys/clusters", <<CopyOp(<<Name>>, Connection)>>)

(* BuildCypressPatch: in the order of the components, then the overrides.      *)
CurrentPatch ==
  FoldLeft(AddPatchSet, EmptyPatchSet,
    <<SecondaryMasterPatch(revision), MasterPatch(revision), ClientPatch, YqlAgentPatch(revision), override>>)

(* ApplyPatchSet: the operations, each at its absolute path; the source of a   *)
(* copy or move may be absolute or relative to the patch.                      *)
IsAbsolute(path) == path # <<>> /\ Head(path) = "sys"
Absolute(p, patch) ==
  [i \in DOMAIN patch |->
     [patch[i] EXCEPT !.path = At[p] \o @, !.from = IF IsAbsolute(@) THEN @ ELSE At[p] \o @]]
OperationsOf(paths, set) == FlattenSeq([i \in DOMAIN paths |-> Absolute(paths[i], set[paths[i]])])
OperationsUnsorted == OperationsOf(Reverse(PatchPaths), CurrentPatch)

Operations == OperationsOf(PatchPaths, CurrentPatch)

(* BuildPatch (diff.go): the reporter is told of every difference, at the      *)
(* first place on the way down where the two are not both maps.                *)
IsMap(t, p) == Has(t, p) /\ p \notin DOMAIN t
Places(t) == UNION {{SubSeq(p, 1, i) : i \in 0..Len(p)} : p \in DOMAIN t}
Reported(before, after) ==
  {p \in Places(before) \union Places(after) :
     /\ Sub(before, p) # Sub(after, p)
     /\ ~(IsMap(before, p) /\ IsMap(after, p))
     /\ \A i \in 0..(Len(p) - 1) : IsMap(before, SubSeq(p, 1, i)) /\ IsMap(after, SubSeq(p, 1, i))}

DifferenceKept(before, after, p) ==
  CASE ~Has(before, p) -> <<AddOp(p, Sub(after, p))>>
    [] ~Has(after, p) -> <<TestOp(p, Sub(before, p))>>
    [] OTHER -> <<TestOp(p, Sub(before, p)), ReplaceOp(p, Sub(after, p))>>

Difference(before, after, p) ==
  CASE ~Has(before, p) -> <<AddOp(p, Sub(after, p))>>
    [] ~Has(after, p) -> <<TestOp(p, Sub(before, p)), RemoveOp(p)>>
    [] OTHER -> <<TestOp(p, Sub(before, p)), ReplaceOp(p, Sub(after, p))>>

BuildPatch(before, after) ==
  LET reported == SetToSeq(Reported(before, after))
  IN  FlattenSeq([i \in DOMAIN reported |-> Difference(before, after, reported[i])])

-----------------------------------------------------------------------------
(* ApplyPatch, one operation: whether its first call goes through, what that   *)
(* does, and which calls follow.  A copy reads and then sets, a move reads,    *)
(* sets and removes: others may write, and the operator may fail, in between.  *)

(* Force: what is missing already need not be removed.                         *)
RemovesExisting(t, path) == Has(t, path)
Removes(t, path) == TRUE

Passes(t, op) ==
  CASE op.op \in {"add", "replace"} -> ~Blocked(t, op.path)
    [] op.op \in {"copy", "move"} -> Has(t, op.from)
    [] op.op = "remove" -> Removes(t, op.path)
    [] op.op = "test" -> Has(t, op.path) /\ BuildPatch(Sub(t, op.path), op.value) = <<>>

Applied(t, op) ==
  CASE op.op \in {"add", "replace"} -> SetNode(t, op.path, op.value)
    [] op.op = "remove" -> Without(t, op.path)
    [] OTHER -> t

CallsLeft(t, op) ==
  LET set == ReplaceOp(op.path, Sub(t, op.from))
  IN  CASE op.op = "copy" -> <<set>>
        [] op.op = "move" -> <<set, RemoveOp(op.from)>>
        [] OTHER -> <<>>

(* SyncCypressPatch: build the patch set and start applying it.                *)
Start ==
  /\ due /\ todo = <<>>
  /\ todo' = Operations
  /\ UNCHANGED <<cypress, revision, override, due, writes, breaks>>

Apply ==
  /\ todo # <<>> /\ Passes(cypress, Head(todo))
  /\ cypress' = Applied(cypress, Head(todo))
  /\ todo' = CallsLeft(cypress, Head(todo)) \o Tail(todo)
  /\ due' = (todo' # <<>>)
  /\ UNCHANGED <<revision, override, writes, breaks>>

(* An operation that Cypress refuses ends the application; it is due again.    *)
Refuse ==
  /\ todo # <<>> /\ ~Passes(cypress, Head(todo))
  /\ todo' = <<>>
  /\ UNCHANGED <<cypress, revision, override, due, writes, breaks>>

(* So does a call that fails, and a restart of the operator.                   *)
Break ==
  /\ todo # <<>> /\ breaks < MaxBreaks
  /\ todo' = <<>> /\ breaks' = breaks + 1
  /\ UNCHANGED <<cypress, revision, override, due, writes>>

(* The specification or the overrides change, between two applications.        *)
EditSpec ==
  /\ todo = <<>> /\ revision < MaxSpecs
  /\ revision' = revision + 1 /\ override' \in Overrides
  /\ due' = TRUE
  /\ UNCHANGED <<cypress, todo, writes, breaks>>

(* Other components write to the cluster connection and copy it to the list of *)
(* clusters, if they get that far; the settlement script of the masters adds   *)
(* secondary masters.                                                          *)
OthersWrite ==
  /\ writes < MaxWrites
  /\ LET set == Put(cypress, Connection \o <<"queue_agent">>, Literal(writes + 1))
     IN  cypress' \in {set, Put(set, Clusters \o <<Name>>, Sub(set, Connection))}
  /\ writes' = writes + 1
  /\ UNCHANGED <<revision, override, todo, due, breaks>>

Cell(id, s) == Put(Put(NoTree, <<"cell_id">>, Literal(id)), <<"addresses">>, Literal(s))
Secondary == Connection \o <<"secondary_masters", "0">>

RegisterSecondary ==
  /\ ~Has(cypress, Secondary)
  /\ cypress' = Put(cypress, Secondary, Cell(SecondaryCellId, revision))
  /\ UNCHANGED <<revision, override, todo, due, writes, breaks>>

(* Cypress as the init jobs of an earlier specification (0) left it, with the  *)
(* secondary master or before it is settled, or (a copied snapshot) that of    *)
(* another cluster.                                                            *)
PatchInit ==
  /\ LET base == Put(NoTree, <<"sys", "users">>, Literal(0))
         Connected(id) == Put(base, Connection \o <<"primary_master">>, Cell(id, 0))
     IN  cypress \in {Connected(CellId),
                      Put(Connected(CellId), Secondary, Cell(SecondaryCellId, 0)),
                      Put(Connected(0), Secondary, Cell(0, 0))}
  /\ revision = 1 /\ override \in Overrides
  /\ todo = <<>> /\ due = TRUE
  /\ writes = 0 /\ breaks = 0

PatchNext ==
  Start \/ Apply \/ Refuse \/ Break \/ EditSpec \/ OthersWrite \/ RegisterSecondary

PatchSpec == PatchInit /\ [][PatchNext]_patchVars
PatchFairness ==
  /\ WF_patchVars(Start) /\ WF_patchVars(Apply) /\ WF_patchVars(Refuse)
  /\ WF_patchVars(RegisterSecondary)

-----------------------------------------------------------------------------
(* Properties.                                                                *)

Ours(t) == Sub(t, Connection \o <<"primary_master", "cell_id">>) = Literal(CellId)

(* An operation changes what is at its own path, and at the source of a move,  *)
(* and leaves everything else in Cypress alone, missing parents or not         *)
(* (apply.go SetNode); nothing in the connection of another cluster changes:   *)
(* the test of the cell id comes before every replacement.                     *)
ChangesItsPlaceOnly ==
  [][todo # <<>> /\ todo' # todo =>
       LET op == Head(todo)
           places == {op.path} \union (IF op.op = "move" THEN {op.from} ELSE {})
           Elsewhere(t) ==
             Restrict(t, {p \in DOMAIN t : \A place \in places : ~IsPrefix(place, p)})
       IN  /\ Elsewhere(cypress') = Elsewhere(cypress)
           /\ ~Ours(cypress) => Sub(cypress', Connection) = Sub(cypress, Connection)]_patchVars

(* When the patch counts as applied, the list of clusters has the addresses of *)
(* this specification for every part of the connection that a component        *)
(* patches, as the connection itself has, whatever others wrote between the    *)
(* calls: "Copy cluster connection into list of cluster after applying all     *)
(* other patches" (ytsaurus_client.go:563).                                    *)
CopiedLast ==
  [][due /\ ~due' => \A part \in {<<"primary_master">>, <<"secondary_masters", "0">>, <<"yql_agent">>},
                        place \in {Connection, Clusters \o <<Name>>} :
                       Sub(cypress', place \o part \o <<"addresses">>) = Literal(revision)]_patchVars

(* A patch built from two trees leads from the one to the other, one built     *)
(* with tests included; this is what the test operation compares with          *)
(* (diff.go BuildPatch).                                                       *)
DiffLeadsThere ==
  LET Lead(t, op) == IF Passes(t, op) THEN Applied(t, op) ELSE NoTree
  IN  \A after \in {Without(cypress, Clusters),
                    Put(cypress, Connection \o <<"primary_master">>, Literal(revision)),
                    Put(Without(cypress, <<"sys", "users">>), <<"sys", "users", "u">>, Literal(revision))} :
        FoldLeft(Lead, cypress, BuildPatch(cypress, after)) = after

(* The patch of the last specification is applied in the end, however often    *)
(* an application broke off, if the cluster is the right one and no operation  *)
(* is a move, which cannot be done twice.                                      *)
Repeatable == \A op \in Range(Operations) : op.op # "move"
PatchApplies == [](Ours(cypress) /\ Repeatable) => <>[](~due)

================================================================================
