------------------------------- MODULE Admission -------------------------------
(***************************************************************************)
(* What the validating webhook lets a user do to the master cells of a       *)
(* cluster (validators/ytsaurus_webhook.go), and what becomes of the cells.  *)
(*                                                                         *)
(* A master cell is a replicated state machine of `size' peers.  A peer is   *)
(* behind when it lacks something its cell has committed; a new peer of an   *)
(* old cell is empty, hence behind.  After a restart any majority of the     *)
(* peers may recover the cell, so the state survives when every majority     *)
(* has a peer that is not behind.  The webhook sees none of this: it judges  *)
(* an edit by the old and the new specification and a mark in the status.    *)
(*                                                                         *)
(* Cell 1 of a specification is the primary one.  Locations, host addresses  *)
(* and anti-affinity of the master specifications are taken to be in order.  *)
(***************************************************************************)
EXTENDS Integers, Sequences, FiniteSets

CONSTANTS
  Tags,         \* cell tags
  Counts,       \* numbers of instances an editor asks for
  RoleChoices,  \* values of the field roles an editor chooses from
  NewClusters,  \* specifications clusters are created with
  MaxCells,     \* bound: cells in a specification
  MaxEdits      \* bound: edits of the resource

VARIABLES
  spec,          \* the specification: cells, clusterMaintenance, ephemeralCluster
  unregistered,  \* cells marked unregistered in the status
  size,          \* peers of each cell, as its StatefulSet has them
  behind,        \* how many of them are behind
  waived,        \* cells resized in a way that promises nothing (see Edit)
  duties,        \* what each cell with instances was ever made responsible for
  edits          \* how often the resource was edited

admissionVars == <<spec, unregistered, size, behind, waived, duties, edits>>

Unset == -1
Default == {"default"}

CellSpecs == [tag : Tags, count : Counts, minReady : Counts \cup {Unset}, roles : RoleChoices]

Specs == [cells : Seq(CellSpecs) \ {<<>>}, shutdown : {"None", "ExceptMasters"},
          assign : BOOLEAN, ephemeral : BOOLEAN]

ASSUME AdmissionAssumption ==
  /\ Counts \subseteq Nat
  /\ NewClusters \subseteq Specs
  /\ MaxCells \in Nat \ {0} /\ MaxEdits \in Nat

Multicell(s) == Len(s.cells) > 1

(* GetMasterCellRoles: what an unset field stands for depends on the cell      *)
(* and, for the primary one, on there being others.                            *)
GetMasterCellRoles(roles, isPrimary, isMulticell) ==
  IF roles # Default THEN roles
  ELSE {"cypress_node_host"}
    \cup (IF isPrimary THEN {"transaction_coordinator"} ELSE {})
    \cup (IF isPrimary /\ isMulticell THEN {} ELSE {"chunk_host"})

ChunkHosts == {"chunk_host", "dedicated_chunk_host"}

Roles(s, i) == GetMasterCellRoles(s.cells[i].roles, i = 1, Multicell(s))

MinReady(c) == IF c.minReady = Unset \/ c.minReady > c.count THEN c.count ELSE c.minReady

-----------------------------------------------------------------------------
(* validateMasterSpec, in its parts.  o and n are the old and the new          *)
(* resource, i is the place of the cell in their lists.                        *)

ValidRoles(n, i) == ~ ChunkHosts \subseteq Roles(n, i)

KeepsRoles(o, n, i) ==
  /\ \A role \in Roles(o, i) \ Roles(n, i) :
       role \in ChunkHosts /\ Roles(n, i) \cap ChunkHosts # {}
  /\ (i = 1 /\ Multicell(n) /\ ~Multicell(o)) => n.cells[i].roles # Default

ValidMinReady(n, i) ==
  LET c == n.cells[i] IN
  c.count > 0 /\ ~n.ephemeral => MinReady(c) > c.count \div 2

(* A slip: a majority taken for a half. *)
MayShrinkToHalf(c, count) == count \div 2 >= c.count - MinReady(c) - 1

MayShrink(c, count) == count \div 2 >= c.count - MinReady(c)

(* A slip: the bound is missed by one. *)
MayGrowLess(c, count) == c.count > 1 => count <= MinReady(c) * 2 - 2

MayGrow(c, count) == c.count > 1 => count <= MinReady(c) * 2 - 1

ValidCount(o, n, i, marked) ==
  LET c == o.cells[i]
      count == n.cells[i].count
  IN
  /\ i # 1 /\ count # 0 /\ c.count = 0 => c.tag \in marked
  /\ c.count > 0 => count >= 1
  /\ MayShrink(c, count)
  /\ MayGrow(c, count)

InMaintenance(o, n) == o.shutdown = "ExceptMasters" /\ n.shutdown = "ExceptMasters"

ValidChange(o, n, i) ==
  LET rolesChanged == o.cells[i].count > 0 /\ Roles(o, i) # Roles(n, i) IN
  /\ ~InMaintenance(o, n) => o.cells[i].count = n.cells[i].count /\ ~rolesChanged
  /\ rolesChanged => ~o.assign /\ n.assign

ValidMasterSpec(n, i) == ValidRoles(n, i) /\ ValidMinReady(n, i)

ValidMasterChange(o, n, i, marked) ==
  /\ n.cells[i].tag = o.cells[i].tag
  /\ o.cells[i].count > 0 => KeepsRoles(o, n, i)
  /\ ValidCount(o, n, i, marked)
  /\ ValidChange(o, n, i)

(* validatePrimaryMasters and validateSecondaryMasters. *)
ValidCells(n) ==
  /\ n.cells[1].count >= 1
  /\ \A i \in DOMAIN n.cells : ValidMasterSpec(n, i)
  /\ \A i, j \in DOMAIN n.cells : n.cells[i].tag = n.cells[j].tag => i = j

(* A slip: cells may be removed that have instances. *)
MayRemoveAny(o, n) == TRUE

MayRemove(o, n) == \A i \in DOMAIN o.cells \ DOMAIN n.cells : o.cells[i].count = 0

AdmitsCreation(n) == ValidCells(n)

Admits(o, n, marked) ==
  /\ ValidCells(n)
  /\ \A i \in DOMAIN n.cells :
       IF i \in DOMAIN o.cells THEN ValidMasterChange(o, n, i, marked)
                               ELSE n.cells[i].count = 0
  /\ MayRemove(o, n)

-----------------------------------------------------------------------------
(* The masters. *)

Settled(c) == size[c.tag] = c.count /\ behind[c.tag] <= c.count - MinReady(c)

(* A resize the rules of the webhook do not speak for: of a cell that has not  *)
(* reached its previous size and minReadyInstanceCount, or from one instance   *)
(* to several, which MayGrow lets pass.                                        *)
Unspoken(o, n, i) ==
  /\ i \in DOMAIN n.cells
  /\ o.cells[i].count > 0 /\ o.cells[i].count # n.cells[i].count
  /\ ~Settled(o.cells[i]) \/ o.cells[i].count = 1

Duties(s, i) == {IF role \in ChunkHosts THEN "chunks" ELSE role : role \in Roles(s, i)}

DutiesWith(s, t) ==
  UNION {Duties(s, i) : i \in {j \in DOMAIN s.cells : s.cells[j].tag = t /\ s.cells[j].count > 0}}

AdmissionInit ==
  /\ spec \in {s \in NewClusters : AdmitsCreation(s)}
  /\ unregistered = {}
  /\ size = [t \in Tags |-> 0]
  /\ behind = [t \in Tags |-> 0]
  /\ waived = {}
  /\ duties = [t \in Tags |-> DutiesWith(spec, t)]
  /\ edits = 0

(* An update of the resource that fits its schema and that the webhook admits. *)
Edit(n) ==
  /\ edits < MaxEdits
  /\ n \in Specs
  /\ Admits(spec, n, unregistered)
  /\ spec' = n
  /\ edits' = edits + 1
  /\ waived' = waived \cup {spec.cells[i].tag : i \in {j \in DOMAIN spec.cells : Unspoken(spec, n, j)}}
  /\ duties' = [t \in Tags |-> duties[t] \cup DutiesWith(n, t)]
  /\ UNCHANGED <<unregistered, size, behind>>

EditCell(i, c) == Edit([spec EXCEPT !.cells[i] = c])

ChangeInstances ==
  \E i \in DOMAIN spec.cells : \E count \in Counts, minReady \in Counts \cup {Unset} :
    EditCell(i, [spec.cells[i] EXCEPT !.count = count, !.minReady = minReady])

ChangeRoles ==
  \E i \in DOMAIN spec.cells : \E roles \in RoleChoices, assign \in BOOLEAN :
    Edit([spec EXCEPT !.cells[i].roles = roles, !.assign = assign])

ChangeTag == \E i \in DOMAIN spec.cells : \E t \in Tags : EditCell(i, [spec.cells[i] EXCEPT !.tag = t])

ChangeMode ==
  \E shutdown \in {"None", "ExceptMasters"}, ephemeral \in BOOLEAN :
    Edit([spec EXCEPT !.shutdown = shutdown, !.ephemeral = ephemeral])

AddCell ==
  /\ Len(spec.cells) < MaxCells
  /\ \E c \in CellSpecs, roles \in RoleChoices :
       Edit([spec EXCEPT !.cells = Append([@ EXCEPT ![1].roles = roles], c)])

RemoveCell ==
  \E i \in DOMAIN spec.cells :
    /\ Len(spec.cells) > 1
    /\ Edit([spec EXCEPT !.cells = SubSeq(@, 1, i - 1) \o SubSeq(@, i + 1, Len(@))])

EditMasters ==
  ChangeInstances \/ ChangeRoles \/ ChangeTag \/ ChangeMode \/ AddCell \/ RemoveCell

(* The operator gives a cell the instances its specification asks for.  Which  *)
(* peers are behind, and so which of them go, nobody has a say in.             *)
Resize(i) ==
  LET c == spec.cells[i]
      t == c.tag
  IN
  /\ size[t] # c.count
  /\ size' = [size EXCEPT ![t] = c.count]
  /\ \E b \in 0..c.count :
       /\ IF size[t] = 0 THEN b = 0
          ELSE IF c.count > size[t] THEN b = behind[t] + (c.count - size[t])
          ELSE b <= behind[t] /\ behind[t] - b <= size[t] - c.count
       /\ behind' = [behind EXCEPT ![t] = b]
  /\ UNCHANGED <<spec, unregistered, waived, duties, edits>>

(* A majority commits without one of the others. *)
FallBehind(i) ==
  LET t == spec.cells[i].tag IN
  /\ size[t] - (behind[t] + 1) > size[t] \div 2
  /\ behind' = [behind EXCEPT ![t] = @ + 1]
  /\ waived' = IF size[t] = spec.cells[i].count THEN waived ELSE waived \cup {t}
  /\ UNCHANGED <<spec, unregistered, size, duties, edits>>

CatchUp(i) ==
  LET t == spec.cells[i].tag IN
  /\ behind[t] > 0 /\ 2 * behind[t] <= size[t]
  /\ behind' = [behind EXCEPT ![t] = @ - 1]
  /\ UNCHANGED <<spec, unregistered, size, waived, duties, edits>>

(* Master.Sync: a secondary cell without instances is marked unregistered, and *)
(* the mark goes when the masters have registered the cell.                    *)
SetUnregistered(i) ==
  /\ i # 1 /\ spec.cells[i].count = 0 /\ spec.cells[i].tag \notin unregistered
  /\ unregistered' = unregistered \cup {spec.cells[i].tag}
  /\ UNCHANGED <<spec, size, behind, waived, duties, edits>>

Register(i) ==
  /\ i # 1 /\ size[spec.cells[i].tag] > 0 /\ spec.cells[i].tag \in unregistered
  /\ unregistered' = unregistered \ {spec.cells[i].tag}
  /\ UNCHANGED <<spec, size, behind, waived, duties, edits>>

RunCells ==
  \E i \in DOMAIN spec.cells :
    Resize(i) \/ FallBehind(i) \/ CatchUp(i) \/ SetUnregistered(i) \/ Register(i)

AdmissionNext == EditMasters \/ RunCells

AdmissionSpec == AdmissionInit /\ [][AdmissionNext]_admissionVars

-----------------------------------------------------------------------------
(* Specification, registration and peers have their types.                      *)
AdmissionTypeOK ==
  /\ spec \in Specs
  /\ unregistered \subseteq Tags /\ waived \subseteq Tags
  /\ size \in [Tags -> Nat] /\ behind \in [Tags -> Nat]
  /\ edits \in Nat

(* The limits on shrinking and growing a cell keep its state: whatever edits    *)
(* are admitted, every majority of the peers of a cell has one that is not      *)
(* behind, unless the cell was resized before it had settled at its previous    *)
(* size, from one instance, or lost a peer between the edit and the restart.    *)
QuorumSurvives ==
  \A t \in Tags \ waived : 2 * behind[t] <= size[t]

(* No sequence of admitted edits (lists of cells are compared by position, and  *)
(* unborn cells come and go) takes a cell away, or a duty from it, that it ever  *)
(* had while it had instances.                                                  *)
NothingOrphaned ==
  \A t \in Tags : duties[t] # {} =>
    \E i \in DOMAIN spec.cells :
      spec.cells[i].tag = t /\ spec.cells[i].count > 0 /\ duties[t] \subseteq Duties(spec, i)

(* A resource that was admitted stays editable: the webhook, which judges every *)
(* write including those that change nothing it looks at, never refuses the     *)
(* specification that is in force.  Clusters declared ephemeral are excepted.   *)
StaysEditable == ~spec.ephemeral => Admits(spec, spec, unregistered)

================================================================================
