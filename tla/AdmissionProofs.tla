---------------------------- MODULE AdmissionProofs ----------------------------
(***************************************************************************)
(* The limits the webhook puts on the size of a master cell keep its state,  *)
(* for any number of cells, of instances and of edits.                       *)
(***************************************************************************)
EXTENDS Admission, TLAPS

(* What is known of a cell between an edit of its size and the restart that     *)
(* follows: with the empty peers it may get, half of the new peers at most are   *)
(* behind.                                                                       *)
Ready(c) ==
  size[c.tag] > 0 /\ c.tag \notin waived =>
    /\ 2 * behind[c.tag] <= c.count
    /\ 2 * (behind[c.tag] + (c.count - size[c.tag])) <= c.count

UniqueTags(s) == \A i, j \in DOMAIN s.cells : s.cells[i].tag = s.cells[j].tag => i = j

Backed == \A t \in Tags : size[t] > 0 => \E i \in DOMAIN spec.cells : spec.cells[i].tag = t /\ spec.cells[i].count > 0

IInv ==
  /\ AdmissionTypeOK
  /\ UniqueTags(spec)
  /\ Backed
  /\ \A i \in DOMAIN spec.cells : Ready(spec.cells[i])
  /\ QuorumSurvives

-----------------------------------------------------------------------------
(* The cells of a specification are cell specifications. *)
LEMMA CellsOfSpecs ==
  ASSUME NEW s \in Specs, NEW i \in DOMAIN s.cells
  PROVE  /\ s.cells[i] \in CellSpecs
         /\ s.cells[i].tag \in Tags
         /\ s.cells[i].count \in Nat
<1>1. s.cells \in Seq(CellSpecs)
  BY DEF Specs
<1>2. s.cells[i] \in CellSpecs
  BY <1>1
<1> QED
  BY <1>2, AdmissionAssumption, Zenon DEF CellSpecs

(* minReadyInstanceCount in effect is at most instanceCount. *)
LEMMA MinReadyBounds ==
  ASSUME NEW c \in CellSpecs
  PROVE  MinReady(c) \in Int /\ MinReady(c) <= c.count
<1>1. c.count \in Nat /\ c.minReady \in Int
  <2>1. c.count \in Counts /\ c.minReady \in Counts \cup {Unset}
    BY DEF CellSpecs
  <2>2. \A x \in Counts : x \in Nat /\ x \in Int
    BY AdmissionAssumption
  <2>3. Unset \in Int
    BY DEF Unset
  <2> QED
    BY <2>1, <2>2, <2>3, Zenon
<1> QED
  BY <1>1 DEF MinReady

(* The arithmetic of the webhook: a cell of more than one instance that has      *)
(* settled, given a number of instances that MayShrink and MayGrow let pass,     *)
(* has no more than half of its new peers behind, empty ones included.           *)
LEMMA ResizeKeepsMajority ==
  ASSUME NEW c \in CellSpecs, NEW count \in Nat, NEW b \in Nat,
         c.count > 1, b <= c.count - MinReady(c),
         MayShrink(c, count), MayGrow(c, count)
  PROVE  2 * b <= count /\ 2 * (b + (count - c.count)) <= count
<1>1. c.count \in Nat
  BY AdmissionAssumption, Zenon DEF CellSpecs
<1> DEFINE m == MinReady(c)
           h == count \div 2
<1>2. m \in Int /\ m <= c.count
  BY MinReadyBounds
<1>3. h \in Int /\ 2 * h <= count
  OBVIOUS
<1>4. h >= c.count - m /\ count <= m * 2 - 1
  BY DEF MayShrink, MayGrow
<1>5. b <= c.count - m
  OBVIOUS
<1> HIDE DEF m, h
<1> QED
  BY <1>1, <1>2, <1>3, <1>4, <1>5

(* An admitted edit keeps what is known of the cells. *)
LEMMA EditKeeps ==
  ASSUME IInv, NEW n, Edit(n)
  PROVE  IInv'
<1>1. n \in Specs /\ spec' = n /\ spec \in Specs
  BY DEF Edit, IInv, AdmissionTypeOK
<1>2. UniqueTags(spec) /\ UniqueTags(n)
  BY DEF IInv, Edit, Admits, ValidCells, UniqueTags
<1>3. size \in [Tags -> Nat] /\ behind \in [Tags -> Nat] /\ UNCHANGED <<size, behind>>
  BY DEF Edit, IInv, AdmissionTypeOK
<1>4. waived \subseteq waived' /\ waived' \subseteq Tags
  <2>1. \A i \in DOMAIN spec.cells : spec.cells[i].tag \in Tags
    BY <1>1, CellsOfSpecs
  <2> QED
    BY <2>1 DEF Edit, IInv, AdmissionTypeOK
<1>5. AdmissionTypeOK'
  BY <1>1, <1>3, <1>4 DEF Edit, IInv, AdmissionTypeOK
<1>6. Backed'
  <2> SUFFICES ASSUME NEW t \in Tags, size[t] > 0
               PROVE  \E i \in DOMAIN n.cells : n.cells[i].tag = t /\ n.cells[i].count > 0
    BY <1>1, <1>3 DEF Backed
  <2>1. PICK i \in DOMAIN spec.cells : spec.cells[i].tag = t /\ spec.cells[i].count > 0
    BY DEF IInv, Backed
  <2>2. spec.cells[i].count \in Nat
    BY <1>1, CellsOfSpecs
  <2>3. i \in DOMAIN n.cells
    BY <2>1, <2>2 DEF Edit, Admits, MayRemove
  <2>4. ValidMasterChange(spec, n, i, unregistered)
    BY <2>3, <2>1 DEF Edit, Admits
  <2>5. n.cells[i].tag = t /\ n.cells[i].count >= 1
    BY <2>1, <2>4 DEF ValidMasterChange, ValidCount
  <2>6. n.cells[i].count \in Nat
    BY <1>1, <2>3, CellsOfSpecs
  <2> QED
    BY <2>3, <2>5, <2>6
<1>7. ASSUME NEW i \in DOMAIN n.cells
      PROVE  Ready(n.cells[i])'
  <2> DEFINE t == n.cells[i].tag
  <2> SUFFICES ASSUME size[t] > 0, t \notin waived'
               PROVE  /\ 2 * behind[t] <= n.cells[i].count
                      /\ 2 * (behind[t] + (n.cells[i].count - size[t])) <= n.cells[i].count
    BY <1>1, <1>3 DEF Ready, Edit
  <2>1. t \in Tags /\ n.cells[i].count \in Nat
    BY <1>1, CellsOfSpecs
  <2>2. PICK j \in DOMAIN spec.cells : spec.cells[j].tag = t /\ spec.cells[j].count > 0
    BY <2>1 DEF IInv, Backed
  <2>3. spec.cells[j] \in CellSpecs /\ spec.cells[j].count \in Nat
    BY <1>1, CellsOfSpecs
  <2>4. j \in DOMAIN n.cells
    BY <2>2, <2>3 DEF Edit, Admits, MayRemove
  <2>5. ValidMasterChange(spec, n, j, unregistered)
    BY <2>4, <2>2 DEF Edit, Admits
  <2>6. i = j
    BY <2>2, <2>4, <2>5, <1>2 DEF ValidMasterChange, UniqueTags
  <2>7. CASE n.cells[i].count = spec.cells[j].count
    <3>1. Ready(spec.cells[j])
      BY DEF IInv
    <3> QED
      BY <3>1, <2>7, <2>2, <1>4 DEF Ready
  <2>8. CASE n.cells[i].count # spec.cells[j].count
    <3>1. ~Unspoken(spec, n, j)
      BY <2>2, <2>6 DEF Edit
    <3>2. Settled(spec.cells[j]) /\ spec.cells[j].count # 1
      BY <3>1, <2>2, <2>4, <2>6, <2>8 DEF Unspoken
    <3>3. size[t] = spec.cells[j].count /\ behind[t] <= spec.cells[j].count - MinReady(spec.cells[j])
      BY <3>2, <2>2 DEF Settled
    <3>4. MayShrink(spec.cells[j], n.cells[i].count) /\ MayGrow(spec.cells[j], n.cells[i].count)
      BY <2>5, <2>6 DEF ValidMasterChange, ValidCount
    <3>5. behind[t] \in Nat /\ spec.cells[j].count > 1
      BY <1>3, <2>1, <2>2, <2>3, <3>2
    <3> QED
      BY <3>3, <3>4, <3>5, <2>1, <2>3, ResizeKeepsMajority
  <2> QED
    BY <2>7, <2>8
<1>8. QuorumSurvives'
  BY <1>3, <1>4 DEF IInv, QuorumSurvives
<1> QED
  BY <1>1, <1>2, <1>5, <1>6, <1>7, <1>8 DEF IInv, UniqueTags

(* The operator's restart of a cell at its new size. *)
LEMMA ResizeKeeps ==
  ASSUME IInv, NEW i \in DOMAIN spec.cells, Resize(i)
  PROVE  IInv'
<1> DEFINE c == spec.cells[i]
           t == c.tag
<1>1. spec \in Specs /\ size \in [Tags -> Nat] /\ behind \in [Tags -> Nat]
  BY DEF IInv, AdmissionTypeOK
<1>2. t \in Tags /\ c.count \in Nat
  BY <1>1, CellsOfSpecs
<1>3. UNCHANGED <<spec, unregistered, waived, edits>>
  BY DEF Resize
<1>4. size' = [size EXCEPT ![t] = c.count]
  BY DEF Resize
<1>5. PICK b \in 0..c.count :
        /\ behind' = [behind EXCEPT ![t] = b]
        /\ \/ size[t] = 0 /\ b = 0
           \/ size[t] > 0 /\ c.count > size[t] /\ b = behind[t] + (c.count - size[t])
           \/ size[t] > 0 /\ b <= behind[t]
  <2>1. size[t] \in Nat
    BY <1>1, <1>2
  <2>2. PICK b \in 0..c.count :
          /\ IF size[t] = 0 THEN b = 0
             ELSE IF c.count > size[t] THEN b = behind[t] + (c.count - size[t])
             ELSE b <= behind[t] /\ behind[t] - b <= size[t] - c.count
          /\ behind' = [behind EXCEPT ![t] = b]
    BY Zenon DEF Resize
  <2>3. \/ size[t] = 0 /\ b = 0
        \/ size[t] > 0 /\ c.count > size[t] /\ b = behind[t] + (c.count - size[t])
        \/ size[t] > 0 /\ b <= behind[t]
    BY <2>1, <2>2
  <2> QED
    BY <2>2, <2>3, Zenon
<1>6. AdmissionTypeOK'
  BY <1>1, <1>2, <1>3, <1>4, <1>5 DEF IInv, AdmissionTypeOK
<1>7. Ready(c)
  BY DEF IInv
<1>8. t \notin waived => 2 * b <= c.count
  <2>1. size[t] \in Nat /\ behind[t] \in Nat /\ b \in Nat
    BY <1>1, <1>2
  <2>2. CASE size[t] = 0
    BY <2>1, <2>2, <1>2, <1>5
  <2>3. CASE size[t] > 0 /\ t \notin waived
    <3>1. 2 * behind[t] <= c.count /\ 2 * (behind[t] + (c.count - size[t])) <= c.count
      BY <1>7, <2>3 DEF Ready
    <3> QED
      BY <3>1, <2>1, <2>3, <1>2, <1>5
  <2> QED
    BY <2>1, <2>2, <2>3
<1>9. QuorumSurvives'
  <2> SUFFICES ASSUME NEW u \in Tags, u \notin waived
               PROVE  2 * behind'[u] <= size'[u]
    BY <1>3 DEF QuorumSurvives
  <2>1. CASE u = t
    BY <2>1, <1>1, <1>2, <1>4, <1>5, <1>8
  <2>2. CASE u # t
    BY <2>2, <1>1, <1>4, <1>5 DEF IInv, QuorumSurvives
  <2> QED
    BY <2>1, <2>2
<1>10. ASSUME NEW j \in DOMAIN spec.cells
       PROVE  Ready(spec.cells[j])'
  <2>1. spec.cells[j].tag \in Tags /\ spec.cells[j].count \in Nat
    BY <1>1, CellsOfSpecs
  <2>2. CASE j = i
    <3>1. size'[t] = c.count /\ behind'[t] = b /\ b \in Nat
      BY <1>1, <1>2, <1>4, <1>5
    <3> QED
      BY <3>1, <2>2, <1>2, <1>3, <1>8 DEF Ready
  <2>3. CASE j # i
    <3>1. spec.cells[j].tag # t
      BY <2>3 DEF IInv, UniqueTags
    <3>2. /\ size'[spec.cells[j].tag] = size[spec.cells[j].tag]
          /\ behind'[spec.cells[j].tag] = behind[spec.cells[j].tag]
      BY <3>1, <2>1, <1>1, <1>4, <1>5
    <3>3. Ready(spec.cells[j])
      BY DEF IInv
    <3> QED
      BY <3>2, <3>3, <1>3 DEF Ready
  <2> QED
    BY <2>2, <2>3
<1>11. Backed'
  <2> SUFFICES ASSUME NEW u \in Tags, size'[u] > 0
               PROVE  \E j \in DOMAIN spec.cells : spec.cells[j].tag = u /\ spec.cells[j].count > 0
    BY <1>3 DEF Backed
  <2>1. CASE u = t
    BY <2>1, <1>1, <1>2, <1>4
  <2>2. CASE u # t
    BY <2>2, <1>1, <1>4 DEF IInv, Backed
  <2> QED
    BY <2>1, <2>2
<1> QED
  BY <1>3, <1>6, <1>9, <1>10, <1>11 DEF IInv, UniqueTags

(* A peer falls behind, or catches up. *)
LEMMA PeersKeep ==
  ASSUME IInv, NEW i \in DOMAIN spec.cells, FallBehind(i) \/ CatchUp(i)
  PROVE  IInv'
<1> DEFINE c == spec.cells[i]
           t == c.tag
<1>1. spec \in Specs /\ size \in [Tags -> Nat] /\ behind \in [Tags -> Nat] /\ waived \subseteq Tags
  BY DEF IInv, AdmissionTypeOK
<1>2. t \in Tags /\ c.count \in Nat
  BY <1>1, CellsOfSpecs
<1>3. size[t] \in Nat /\ behind[t] \in Nat
  BY <1>1, <1>2
<1>4. UNCHANGED <<spec, unregistered, size, edits>>
  BY DEF FallBehind, CatchUp
<1>5. PICK b \in Nat :
        /\ behind' = [behind EXCEPT ![t] = b]
        /\ \/ waived' = waived /\ b <= behind[t]
           \/ waived' = waived /\ size[t] = c.count /\ 2 * b <= size[t]
           \/ waived' = waived \cup {t}
  <2>1. CASE FallBehind(i)
    <3>1. behind' = [behind EXCEPT ![t] = behind[t] + 1] /\ behind[t] + 1 \in Nat
      BY <2>1, <1>3 DEF FallBehind
    <3>2. 2 * (behind[t] + 1) <= size[t]
      BY <2>1, <1>3 DEF FallBehind
    <3>3. \/ waived' = waived /\ size[t] = c.count
          \/ waived' = waived \cup {t}
      BY <2>1 DEF FallBehind
    <3> QED
      BY <3>1, <3>2, <3>3, Zenon
  <2>2. CASE CatchUp(i)
    <3>1. behind' = [behind EXCEPT ![t] = behind[t] - 1] /\ behind[t] > 0 /\ waived' = waived
      BY <2>2 DEF CatchUp
    <3>2. behind[t] - 1 \in Nat /\ behind[t] - 1 <= behind[t]
      BY <3>1, <1>3
    <3> QED
      BY <3>1, <3>2, Zenon
  <2> QED
    BY <2>1, <2>2
<1>6. waived \subseteq waived' /\ waived' \subseteq Tags
  BY <1>1, <1>2, <1>5
<1>7. AdmissionTypeOK'
  BY <1>1, <1>2, <1>4, <1>5, <1>6 DEF IInv, AdmissionTypeOK
<1>8. Ready(c)
  BY DEF IInv
<1>9. QuorumSurvives'
  <2> SUFFICES ASSUME NEW u \in Tags, u \notin waived'
               PROVE  2 * behind'[u] <= size[u]
    BY <1>4 DEF QuorumSurvives
  <2>1. 2 * behind[u] <= size[u]
    BY <1>6 DEF IInv, QuorumSurvives
  <2>2. CASE u = t
    BY <2>1, <2>2, <1>1, <1>3, <1>5
  <2>3. CASE u # t
    BY <2>1, <2>3, <1>1, <1>5
  <2> QED
    BY <2>2, <2>3
<1>10. ASSUME NEW j \in DOMAIN spec.cells
       PROVE  Ready(spec.cells[j])'
  <2>1. spec.cells[j].tag \in Tags /\ spec.cells[j].count \in Nat
    BY <1>1, CellsOfSpecs
  <2>2. CASE j = i
    <3> SUFFICES ASSUME size[t] > 0, t \notin waived'
                 PROVE  2 * b <= c.count /\ 2 * (b + (c.count - size[t])) <= c.count
      BY <2>2, <1>1, <1>2, <1>4, <1>5 DEF Ready
    <3>1. 2 * behind[t] <= c.count /\ 2 * (behind[t] + (c.count - size[t])) <= c.count
      BY <1>6, <1>8 DEF Ready
    <3> QED
      BY <3>1, <1>2, <1>3, <1>5
  <2>3. CASE j # i
    <3>1. spec.cells[j].tag # t
      BY <2>3 DEF IInv, UniqueTags
    <3>2. behind'[spec.cells[j].tag] = behind[spec.cells[j].tag]
      BY <3>1, <2>1, <1>1, <1>5
    <3>3. Ready(spec.cells[j])
      BY DEF IInv
    <3> QED
      BY <3>2, <3>3, <1>4, <1>6 DEF Ready
  <2> QED
    BY <2>2, <2>3
<1>11. Backed'
  BY <1>4 DEF IInv, Backed
<1> QED
  BY <1>4, <1>7, <1>9, <1>10, <1>11 DEF IInv, UniqueTags

(* The marks in the status are none of the cells' business. *)
LEMMA MarksKeep ==
  ASSUME IInv, NEW i \in DOMAIN spec.cells, SetUnregistered(i) \/ Register(i)
  PROVE  IInv'
<1>1. spec.cells[i].tag \in Tags
  BY CellsOfSpecs DEF IInv, AdmissionTypeOK
<1>2. UNCHANGED <<spec, size, behind, waived, edits>> /\ unregistered' \subseteq Tags
  BY <1>1 DEF SetUnregistered, Register, IInv, AdmissionTypeOK
<1> QED
  BY <1>2 DEF IInv, AdmissionTypeOK, UniqueTags, Backed, Ready, QuorumSurvives

-----------------------------------------------------------------------------
(* A cluster starts with no peer at all. *)
LEMMA InitHolds == AdmissionInit => IInv
<1> SUFFICES ASSUME AdmissionInit PROVE IInv
  OBVIOUS
<1>1. spec \in Specs /\ AdmitsCreation(spec)
  BY AdmissionAssumption DEF AdmissionInit
<1>2. size = [t \in Tags |-> 0] /\ behind = [t \in Tags |-> 0] /\ waived = {} /\ unregistered = {} /\ edits = 0
  BY DEF AdmissionInit
<1>3. AdmissionTypeOK
  BY <1>1, <1>2 DEF AdmissionTypeOK
<1>4. UniqueTags(spec)
  BY <1>1 DEF AdmitsCreation, ValidCells, UniqueTags
<1>5. Backed /\ QuorumSurvives
  BY <1>2 DEF Backed, QuorumSurvives
<1>6. ASSUME NEW i \in DOMAIN spec.cells PROVE Ready(spec.cells[i])
  <2>1. spec.cells[i].tag \in Tags
    BY <1>1, CellsOfSpecs
  <2> QED
    BY <2>1, <1>2 DEF Ready
<1> QED
  BY <1>3, <1>4, <1>5, <1>6 DEF IInv

(* Every edit, however it came about, is an Edit. *)
LEMMA EditsAreAdmitted == EditMasters => \E n : Edit(n)
BY Zenon DEF EditMasters, ChangeInstances, ChangeRoles, ChangeTag, ChangeMode, AddCell, RemoveCell, EditCell

(* One step of the editor or of the cells. *)
LEMMA StepKeeps == IInv /\ [AdmissionNext]_admissionVars => IInv'
<1> SUFFICES ASSUME IInv, [AdmissionNext]_admissionVars PROVE IInv'
  OBVIOUS
<1>1. CASE EditMasters
  BY <1>1, EditsAreAdmitted, EditKeeps
<1>2. CASE RunCells
  <2>1. PICK i \in DOMAIN spec.cells :
          Resize(i) \/ FallBehind(i) \/ CatchUp(i) \/ SetUnregistered(i) \/ Register(i)
    BY <1>2 DEF RunCells
  <2> QED
    BY <2>1, ResizeKeeps, PeersKeep, MarksKeep
<1>3. CASE UNCHANGED admissionVars
  BY <1>3 DEF admissionVars, IInv, AdmissionTypeOK, UniqueTags, Backed, Ready, QuorumSurvives
<1> QED
  BY <1>1, <1>2, <1>3 DEF AdmissionNext

(* The variables have their types. *)
THEOREM AdmissionTypeCorrect == AdmissionSpec => []AdmissionTypeOK
<1>1. IInv => AdmissionTypeOK
  BY DEF IInv
<1> QED
  BY <1>1, InitHolds, StepKeeps, PTL DEF AdmissionSpec

(* However a cell is resized by admitted edits, each made when the cell had      *)
(* settled at its previous size, every majority of its peers has one that is     *)
(* not behind: minReadyInstanceCount and the two limits of validateMasterSpec    *)
(* are enough, whatever the sizes.                                               *)
THEOREM ResizesKeepQuorum == AdmissionSpec => []QuorumSurvives
<1>1. IInv => QuorumSurvives
  BY DEF IInv
<1> QED
  BY <1>1, InitHolds, StepKeeps, PTL DEF AdmissionSpec

-----------------------------------------------------------------------------
(* A cell whose minReadyInstanceCount is more than half of its instances may     *)
(* keep the instances it has.                                                    *)
LEMMA SameSizePasses ==
  ASSUME NEW c \in CellSpecs, c.count > 0 => MinReady(c) > c.count \div 2
  PROVE  MayShrink(c, c.count) /\ MayGrow(c, c.count)
<1>1. c.count \in Nat
  BY AdmissionAssumption, Zenon DEF CellSpecs
<1> DEFINE m == MinReady(c)
           h == c.count \div 2
<1>2. m \in Int /\ m <= c.count
  BY MinReadyBounds
<1>3. h \in Int /\ 2 * h <= c.count /\ c.count <= 2 * h + 1
  BY <1>1
<1>4. c.count = 0 => m = 0
  <2>1. c.minReady \in Counts \/ c.minReady = Unset
    BY DEF CellSpecs
  <2>2. CASE c.minReady \in Counts
    <3>1. c.minReady \in Nat
      BY <2>2, AdmissionAssumption, Zenon
    <3> QED
      BY <3>1, <1>1 DEF MinReady
  <2>3. CASE c.minReady = Unset
    BY <2>3 DEF MinReady
  <2> QED
    BY <2>1, <2>2, <2>3
<1>5. c.count > 0 => m > h
  OBVIOUS
<1> HIDE DEF m, h
<1>6. h >= c.count - m /\ (c.count > 1 => c.count <= m * 2 - 1)
  BY <1>1, <1>2, <1>3, <1>4, <1>5
<1> USE DEF m, h
<1> QED
  BY <1>6 DEF MayShrink, MayGrow

(* What was admitted once, at the creation of the resource or by an edit, is     *)
(* admitted again when it is written unchanged.                                  *)
THEOREM AdmittedStaysEditable == AdmissionSpec => []StaysEditable
<1> DEFINE V == spec \in Specs /\ ValidCells(spec)
<1>1. AdmissionInit => V
  BY AdmissionAssumption DEF AdmissionInit, AdmitsCreation
<1>2. V /\ [AdmissionNext]_admissionVars => V'
  <2> SUFFICES ASSUME V, [AdmissionNext]_admissionVars PROVE V'
    OBVIOUS
  <2>1. CASE EditMasters
    <3>1. PICK n : Edit(n)
      BY <2>1, EditsAreAdmitted
    <3> QED
      BY <3>1 DEF Edit, Admits
  <2>2. CASE RunCells \/ UNCHANGED admissionVars
    BY <2>2, Zenon DEF RunCells, Resize, FallBehind, CatchUp, SetUnregistered, Register, admissionVars
  <2> QED
    BY <2>1, <2>2 DEF AdmissionNext
<1>3. V => StaysEditable
  <2> SUFFICES ASSUME V, ~spec.ephemeral PROVE Admits(spec, spec, unregistered)
    BY DEF StaysEditable
  <2>1. ASSUME NEW i \in DOMAIN spec.cells
        PROVE  ValidMasterChange(spec, spec, i, unregistered)
    <3>1. spec.cells[i] \in CellSpecs /\ spec.cells[i].count \in Nat
      BY CellsOfSpecs
    <3>2. spec.cells[i].count > 0 => MinReady(spec.cells[i]) > spec.cells[i].count \div 2
      BY DEF ValidCells, ValidMasterSpec, ValidMinReady
    <3>3. ValidCount(spec, spec, i, unregistered)
      <4>1. MayShrink(spec.cells[i], spec.cells[i].count) /\ MayGrow(spec.cells[i], spec.cells[i].count)
        BY <3>1, <3>2, SameSizePasses
      <4> QED
        BY <3>1, <4>1 DEF ValidCount
    <3>4. ValidChange(spec, spec, i) /\ KeepsRoles(spec, spec, i)
      BY DEF ValidChange, KeepsRoles
    <3> QED
      BY <3>3, <3>4 DEF ValidMasterChange
  <2> QED
    BY <2>1 DEF Admits, MayRemove
<1> QED
  BY <1>1, <1>2, <1>3, PTL DEF AdmissionSpec

-----------------------------------------------------------------------------
(* A cell that has instances keeps its duties over an admitted edit. *)
LEMMA DutiesKept ==
  ASSUME NEW o, NEW n, NEW i, KeepsRoles(o, n, i)
  PROVE  Duties(o, i) \subseteq Duties(n, i)
<1> SUFFICES ASSUME NEW role \in Roles(o, i)
             PROVE  (IF role \in ChunkHosts THEN "chunks" ELSE role) \in Duties(n, i)
  BY DEF Duties
<1>1. CASE role \in Roles(n, i)
  BY <1>1 DEF Duties
<1>2. CASE role \notin Roles(n, i)
  <2>1. role \in ChunkHosts /\ Roles(n, i) \cap ChunkHosts # {}
    BY <1>2 DEF KeepsRoles
  <2>2. PICK other \in Roles(n, i) : other \in ChunkHosts
    BY <2>1
  <2> QED
    BY <2>1, <2>2 DEF Duties
<1> QED
  BY <1>1, <1>2

(* In a list without duplicates the duties under a tag are those of its cell. *)
LEMMA DutiesOfTag ==
  ASSUME NEW s \in Specs, UniqueTags(s), NEW i \in DOMAIN s.cells, s.cells[i].count > 0
  PROVE  DutiesWith(s, s.cells[i].tag) = Duties(s, i)
<1>1. {j \in DOMAIN s.cells : s.cells[j].tag = s.cells[i].tag /\ s.cells[j].count > 0} = {i}
  BY DEF UniqueTags
<1> QED
  BY <1>1, Zenon DEF DutiesWith

(* No sequence of admitted edits takes a cell with instances out of the          *)
(* cluster, gives its place to another, or relieves it of a duty.                *)
THEOREM CellsAreNeverOrphaned == AdmissionSpec => []NothingOrphaned
<1> DEFINE Held(t, s, d) ==
             \E i \in DOMAIN s.cells :
               s.cells[i].tag = t /\ s.cells[i].count > 0 /\ d \subseteq Duties(s, i)
<1>1. ASSUME NEW s \in Specs, UniqueTags(s), NEW t \in Tags, DutiesWith(s, t) # {}
      PROVE  Held(t, s, DutiesWith(s, t))
  <2>1. PICK i \in DOMAIN s.cells : s.cells[i].tag = t /\ s.cells[i].count > 0
    BY <1>1 DEF DutiesWith
  <2>2. DutiesWith(s, t) = Duties(s, i)
    BY <1>1, <2>1, DutiesOfTag
  <2> QED
    BY <2>1, <2>2
<1>2. AdmissionInit => NothingOrphaned
  <2> SUFFICES ASSUME AdmissionInit, NEW t \in Tags, duties[t] # {}
               PROVE  Held(t, spec, duties[t])
    BY DEF NothingOrphaned
  <2>1. duties[t] = DutiesWith(spec, t)
    BY DEF AdmissionInit
  <2>2. spec \in Specs /\ UniqueTags(spec)
    BY InitHolds DEF IInv, AdmissionTypeOK
  <2> HIDE DEF Held
  <2> QED
    BY <1>1, <2>1, <2>2
<1>3. ASSUME IInv, NothingOrphaned, NEW n, Edit(n)
      PROVE  NothingOrphaned'
  <2>1. n \in Specs /\ spec' = n /\ spec \in Specs /\ UniqueTags(n)
    BY <1>3 DEF Edit, IInv, AdmissionTypeOK, Admits, ValidCells, UniqueTags
  <2> SUFFICES ASSUME NEW t \in Tags, duties'[t] # {}
               PROVE  Held(t, n, duties'[t])
    BY <2>1 DEF NothingOrphaned
  <2>2. duties'[t] = duties[t] \cup DutiesWith(n, t)
    BY <1>3 DEF Edit
  <2>3. CASE duties[t] = {}
    <3>1. duties'[t] = DutiesWith(n, t)
      BY <2>2, <2>3
    <3> HIDE DEF Held
    <3> QED
      BY <1>1, <2>1, <3>1
  <2>4. CASE duties[t] # {}
    <3>1. PICK i \in DOMAIN spec.cells :
            spec.cells[i].tag = t /\ spec.cells[i].count > 0 /\ duties[t] \subseteq Duties(spec, i)
      BY <1>3, <2>4 DEF NothingOrphaned
    <3>2. spec.cells[i].count \in Nat
      BY <2>1, CellsOfSpecs
    <3>3. i \in DOMAIN n.cells
      BY <1>3, <3>1, <3>2 DEF Edit, Admits, MayRemove
    <3>4. ValidMasterChange(spec, n, i, unregistered)
      BY <1>3, <3>1, <3>3 DEF Edit, Admits
    <3>5. n.cells[i].tag = t /\ n.cells[i].count >= 1 /\ KeepsRoles(spec, n, i)
      BY <3>1, <3>4 DEF ValidMasterChange, ValidCount
    <3>6. n.cells[i].count > 0
      BY <2>1, <3>3, <3>5, CellsOfSpecs
    <3>7. Duties(spec, i) \subseteq Duties(n, i)
      BY <3>5, DutiesKept
    <3>8. DutiesWith(n, t) = Duties(n, i)
      BY <2>1, <3>3, <3>5, <3>6, DutiesOfTag
    <3> QED
      BY <2>2, <3>1, <3>3, <3>5, <3>6, <3>7, <3>8
  <2> QED
    BY <2>3, <2>4
<1>4. IInv /\ NothingOrphaned /\ [AdmissionNext]_admissionVars => NothingOrphaned'
  <2> SUFFICES ASSUME IInv, NothingOrphaned, [AdmissionNext]_admissionVars
               PROVE  NothingOrphaned'
    OBVIOUS
  <2>1. CASE EditMasters
    BY <2>1, <1>3, EditsAreAdmitted
  <2>2. CASE RunCells \/ UNCHANGED admissionVars
    <3>1. UNCHANGED <<spec, duties>>
      BY <2>2, Zenon DEF RunCells, Resize, FallBehind, CatchUp, SetUnregistered, Register, admissionVars
    <3> QED
      BY <3>1 DEF NothingOrphaned, Duties, Roles, Multicell
  <2> QED
    BY <2>1, <2>2 DEF AdmissionNext
<1> QED
  BY <1>2, <1>4, InitHolds, StepKeeps, PTL DEF AdmissionSpec

================================================================================
