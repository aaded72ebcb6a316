---------------------------- MODULE InitJobProofs ----------------------------
(***************************************************************************)
(* Proofs about the init-job protocol, for any set of update reasons and    *)
(* any number of steps and manual removals.                                 *)
(***************************************************************************)
EXTENDS InitJob, TLAPS

(* The parts of the inductive invariant.  A version of the status "owns" the *)
(* job when its condition carries the reason of the current step and was not *)
(* inherited from an earlier one.                                            *)
Owns(s) == Started(s) /\ ~FirstVisit(s)

(* Only a confirmed version can be behind by a step.                         *)
StaleInv == stale.done # "True" => stale.epoch = status.epoch /\ stale.reason = status.reason

(* The first script's step never carries another script's reason.            *)
PhaseInv == status.reason = CellsInitialization => status.cond.reason # ClusterInitialization

(* An existing job of an owned condition was created in this step.           *)
JobInv ==
  /\ Owns(status) /\ job.phase # "Absent" => job.born = status.epoch
  /\ job.phase = "Complete" => job.born \in ran
  /\ job.phase # "Absent" => job.born <= status.epoch

(* A pod runs exactly while the job is active.                               *)
PodInv == pods = IF job.phase = "Active" THEN 1 ELSE 0

(* History only speaks of the steps begun so far.                            *)
RanInv == \A e \in ran : e <= status.epoch

(* What a True condition and a confirmed step imply.                         *)
DoneInv ==
  /\ Completed(status) /\ ~FirstVisit(status) => status.epoch \in ran
  /\ FreshCompletion

IInv == TypeOK /\ StaleInv /\ PhaseInv /\ JobInv /\ PodInv /\ RanInv /\ DoneInv

(* The protocol starts well typed.                                            *)
LEMMA TypeInit == Init => TypeOK
  BY ReasonAssumption, BoundAssumption
  DEF Init, TypeOK, Statuses, NoCond, NoJob, NoConfig, Reasons

(* An absent object is well typed.                                           *)
LEMMA NoObjectTypes ==
  /\ NoConfig \in [exists : BOOLEAN, reason : Reasons \cup {NoReason}, born : 0..MaxEpoch]
  /\ NoJob \in [phase : {"Absent", "Active", "Complete", "Failed"}, deleting : BOOLEAN,
               born : 0..MaxEpoch]
  BY BoundAssumption DEF NoConfig, NoJob

(* Restarting changes neither the step nor its reason.                       *)
LEMMA RestartedFacts ==
  ASSUME NEW s \in Statuses
  PROVE  /\ Restarted(s) \in Statuses
         /\ Restarted(s).epoch = s.epoch
         /\ Restarted(s).reason = s.reason
         /\ ~FirstVisit(Restarted(s))
         /\ FirstVisit(s) => Restarted(s).cond.status = "None"
         /\ ~FirstVisit(s) => Restarted(s) = s
  BY Zenon DEF Restarted, Statuses, FirstVisit, IsUpdate, NoCond

(* The facts that the steps below share: which versions a reconcile may act  *)
(* on, and that it acts for the current step.                                *)
LEMMA SyncedVersion ==
  ASSUME IInv, NEW s \in {status, stale}, s.done # "True"
  PROVE  LET r == Restarted(s) IN
         /\ s \in Statuses /\ r \in Statuses
         /\ r.epoch = status.epoch /\ r.reason = status.reason
         /\ ~FirstVisit(r) /\ r.done # "True"
         /\ s = status /\ Started(r) => Owns(status) /\ r = status
         /\ s = status /\ status.reason = CellsInitialization
              => r.cond.reason # ClusterInitialization
  <1>1. s \in Statuses
    BY DEF IInv, TypeOK
  <1>2. s.epoch = status.epoch /\ s.reason = status.reason
    BY DEF IInv, StaleInv
  <1>3. Restarted(s).done # "True"
    BY <1>1 DEF Restarted, Statuses
  <1>4. FirstVisit(s) => s.reason # CellsInitialization
    BY ReasonAssumption DEF FirstVisit, IsUpdate
  <1> QED
    BY <1>1, <1>2, <1>3, <1>4, RestartedFacts DEF Owns, Started, IInv, PhaseInv

(* What a reconcile leaves in the two versions of the status: the stored one *)
(* is unchanged or is `new', and the cached one lags by at most that write.  *)
LEMMA SaveFacts ==
  ASSUME IInv, NEW env \in Env, NEW s \in {status, stale}, s.done # "True",
         NEW new \in Statuses, new.epoch = status.epoch, new.reason = status.reason,
         Save(s, new, env)
  PROVE  /\ status' \in Statuses /\ stale' \in Statuses /\ StaleInv'
         /\ status' = status \/ (s = status /\ status' = new)
         /\ status'.epoch = status.epoch
  BY DEF Save, IInv, TypeOK, StaleInv, Env

(* A reconcile of a step with a script preserves the invariant.               *)
LEMMA SyncPreserves ==
  ASSUME IInv, NEW env \in Env, NEW s \in {status, stale}, Sync(s, env)
  PROVE  IInv'
  <1> DEFINE r == Restarted(s)
             F == [r EXCEPT !.cond = Cond("False", r.reason)]
             T == [r EXCEPT !.cond = Cond("True", r.reason)]
             D == [r EXCEPT !.done = "True"]
  <1>0. s.done # "True" /\ SyncStep(s, r, env) /\ ran' = ran /\ manual' = manual
    BY DEF Sync
  <1>1. /\ s \in Statuses /\ r \in Statuses
        /\ r.epoch = status.epoch /\ r.reason = status.reason
        /\ ~FirstVisit(r) /\ r.done # "True"
        /\ s = status /\ Started(r) => Owns(status) /\ r = status
        /\ s = status /\ status.reason = CellsInitialization
             => r.cond.reason # ClusterInitialization
    BY <1>0, SyncedVersion
  <1>2. /\ F \in Statuses /\ F.epoch = r.epoch /\ F.reason = r.reason
        /\ F.done = r.done /\ F.cond.status = "False" /\ F.cond.reason = r.reason
    BY <1>1 DEF Statuses, Cond
  <1>3. /\ T \in Statuses /\ T.epoch = r.epoch /\ T.reason = r.reason
        /\ T.done = r.done /\ T.cond.status = "True" /\ T.cond.reason = r.reason
    BY <1>1 DEF Statuses, Cond
  <1>4. /\ D \in Statuses /\ D.epoch = r.epoch /\ D.reason = r.reason
        /\ D.done = "True" /\ D.cond = r.cond
    BY <1>1 DEF Statuses
  <1> HIDE DEF r, F, T, D
  <1>5. CASE Confirm(s, r, env)
    <2>1. Save(s, D, env) /\ Completed(r) /\ UNCHANGED <<job, config, pods>>
      BY <1>5 DEF Confirm, D
    <2>2. /\ status' \in Statuses /\ stale' \in Statuses /\ StaleInv'
          /\ status' = status \/ (s = status /\ status' = D)
          /\ status'.epoch = status.epoch
      BY <2>1, <1>0, <1>1, <1>4, SaveFacts
    <2>3. s = status => Owns(status) /\ r = status /\ Completed(status)
      BY <2>1, <1>1 DEF Completed, Started
    <2> QED
      BY <2>1, <2>2, <2>3, <1>0, <1>1, <1>4
      DEF IInv, TypeOK, PhaseInv, JobInv, PodInv, RanInv, DoneInv, FreshCompletion, Owns, Started,
          Completed, FirstVisit, IsUpdate
  <1>6. CASE DeletePrevious(s, r, env)
    <2>1. /\ Save(s, r, env) /\ UNCHANGED config /\ pods' = pods
          /\ job' = job \/ job' = [job EXCEPT !.deleting = TRUE]
      BY <1>6, <1>1 DEF DeletePrevious, DeleteForeground
    <2>2. /\ status' \in Statuses /\ stale' \in Statuses /\ StaleInv'
          /\ status' = status \/ (s = status /\ status' = r)
          /\ status'.epoch = status.epoch
      BY <2>1, <1>0, <1>1, SaveFacts
    <2>3. status' = status \/ (~Started(status') /\ status' = r /\ s = status)
      BY <2>2, <1>1
    <2>4. job'.phase = job.phase /\ job'.born = job.born
      BY <2>1 DEF IInv, TypeOK
    <2>5. TypeOK'
      BY <2>1, <2>2, <1>0, Zenon DEF IInv, TypeOK
    <2>6. (PhaseInv /\ JobInv /\ PodInv /\ RanInv)'
      BY <2>1, <2>2, <2>3, <2>4, <1>0, <1>1 DEF IInv, PhaseInv, JobInv, PodInv, RanInv, Owns, FirstVisit, IsUpdate
    <2>7. DoneInv'
      BY <2>2, <2>3, <1>0, <1>1
      DEF IInv, DoneInv, FreshCompletion, Completed, Started, FirstVisit, IsUpdate
    <2> QED
      BY <2>2, <2>5, <2>6, <2>7 DEF IInv
  <1>7. CASE DeleteConfig(s, r, env)
    <2>1. /\ Save(s, r, env) /\ UNCHANGED <<job, pods>>
          /\ config' = config \/ config' = NoConfig
      BY <1>7, <1>1 DEF DeleteConfig
    <2>2. /\ status' \in Statuses /\ stale' \in Statuses /\ StaleInv'
          /\ status' = status \/ (s = status /\ status' = r)
          /\ status'.epoch = status.epoch
      BY <2>1, <1>0, <1>1, SaveFacts
    <2>3. status' = status \/ (~Started(status') /\ status' = r /\ s = status)
      BY <2>2, <1>1
    <2>4. job'.phase = job.phase /\ job'.born = job.born
      BY <2>1 DEF IInv, TypeOK
    <2>a. config' \in [exists : BOOLEAN, reason : Reasons \cup {NoReason}, born : 0..MaxEpoch]
      BY <2>1, NoObjectTypes DEF IInv, TypeOK
    <2>5. TypeOK'
      BY <2>1, <2>2, <2>a, <1>0 DEF IInv, TypeOK
    <2>6. (PhaseInv /\ JobInv /\ PodInv /\ RanInv)'
      BY <2>1, <2>2, <2>3, <2>4, <1>0, <1>1 DEF IInv, PhaseInv, JobInv, PodInv, RanInv, Owns, FirstVisit, IsUpdate
    <2>7. DoneInv'
      BY <2>2, <2>3, <1>0, <1>1
      DEF IInv, DoneInv, FreshCompletion, Completed, Started, FirstVisit, IsUpdate
    <2> QED
      BY <2>2, <2>5, <2>6, <2>7 DEF IInv
  <1>8. CASE Checkpoint(s, r, env)
    <2>1. /\ Save(s, F, env) /\ UNCHANGED <<job, config, pods>>
          /\ job.phase = "Absent"
      BY <1>8, <1>1 DEF Checkpoint, F
    <2>2. /\ status' \in Statuses /\ stale' \in Statuses /\ StaleInv'
          /\ status' = status \/ (s = status /\ status' = F)
          /\ status'.epoch = status.epoch
      BY <2>1, <1>0, <1>1, <1>2, SaveFacts
    <2> QED
      BY <2>1, <2>2, <1>0, <1>1, <1>2, ReasonAssumption
      DEF IInv, TypeOK, PhaseInv, JobInv, PodInv, RanInv, DoneInv, FreshCompletion, Owns, Started,
          Completed, FirstVisit, IsUpdate
  <1>9. CASE Launch(s, r, env)
    <2>0. BuiltConfig(r) \in [exists : BOOLEAN, reason : Reasons \cup {NoReason}, born : 0..MaxEpoch]
      BY <1>1, BoundAssumption DEF BuiltConfig, IInv, TypeOK, Statuses
    <2>a. CASE env.api
      <3>1. /\ Save(s, F, env) /\ config' = BuiltConfig(r) /\ pods' = pods + 1
            /\ job.phase = "Absent"
            /\ job' = [phase |-> "Active", deleting |-> FALSE, born |-> r.epoch]
        BY <1>9, <2>a DEF Launch, F
      <3>2. /\ status' \in Statuses /\ stale' \in Statuses /\ StaleInv'
            /\ status' = status \/ (s = status /\ status' = F)
            /\ status'.epoch = status.epoch
        BY <3>1, <1>0, <1>1, <1>2, SaveFacts
      <3>3. r.epoch \in 1..MaxEpoch
        BY <1>1 DEF Statuses
      <3> QED
        BY <3>1, <3>2, <3>3, <2>0, <1>0, <1>1, <1>2, BoundAssumption, ReasonAssumption
        DEF IInv, TypeOK, PhaseInv, JobInv, PodInv, RanInv, DoneInv, FreshCompletion, Owns, Started,
            Completed, FirstVisit, IsUpdate
    <2>b. CASE ~env.api
      <3>1. Save(s, r, env) /\ config' \in {config, BuiltConfig(r)} /\ UNCHANGED <<job, pods>>
        BY <1>9, <2>b DEF Launch
      <3>2. /\ status' \in Statuses /\ stale' \in Statuses /\ StaleInv'
            /\ status' = status \/ (s = status /\ status' = r)
            /\ status'.epoch = status.epoch
        BY <3>1, <1>0, <1>1, SaveFacts
      <3>3. status' = status \/ (~Started(status') /\ status' = r /\ s = status)
        BY <3>2, <1>1
      <3> QED
        BY <3>1, <3>2, <3>3, <2>0, <1>0, <1>1
        DEF IInv, TypeOK, PhaseInv, JobInv, PodInv, RanInv, DoneInv, FreshCompletion, Owns, Started,
            Completed, FirstVisit, IsUpdate
    <2> QED
      BY <2>a, <2>b
  <1>10. CASE Wait(s, r, env)
    <2>1. Save(s, F, env) /\ UNCHANGED <<job, config, pods>> /\ (s = status => Owns(status))
      BY <1>10, <1>1 DEF Wait, F, MustStart
    <2>2. /\ status' \in Statuses /\ stale' \in Statuses /\ StaleInv'
          /\ status' = status \/ (s = status /\ status' = F)
          /\ status'.epoch = status.epoch
      BY <2>1, <1>0, <1>1, <1>2, SaveFacts
    <2> QED
      BY <2>1, <2>2, <1>0, <1>1, <1>2, ReasonAssumption
      DEF IInv, TypeOK, PhaseInv, JobInv, PodInv, RanInv, DoneInv, FreshCompletion, Owns, Started,
          Completed, FirstVisit, IsUpdate
  <1>11. CASE Record(s, r, env)
    <2>1. /\ Save(s, T, env) /\ UNCHANGED <<job, config, pods>>
          /\ job.phase = "Complete" /\ (s = status => Owns(status))
      BY <1>11, <1>1 DEF Record, T, MustStart
    <2>2. /\ status' \in Statuses /\ stale' \in Statuses /\ StaleInv'
          /\ status' = status \/ (s = status /\ status' = T)
          /\ status'.epoch = status.epoch
      BY <2>1, <1>0, <1>1, <1>3, SaveFacts
    <2> QED
      BY <2>1, <2>2, <1>0, <1>1, <1>3, ReasonAssumption
      DEF IInv, TypeOK, PhaseInv, JobInv, PodInv, RanInv, DoneInv, FreshCompletion, Owns, Started,
          Completed, FirstVisit, IsUpdate
  <1> QED
    BY <1>0, <1>5, <1>6, <1>7, <1>8, <1>9, <1>10, <1>11 DEF SyncStep

(* So does the flow moving on to the next step.                               *)
LEMMA NextStepPreserves ==
  ASSUME IInv, NEW env \in Env, NextStep(env)
  PROVE  IInv'
  <1>1. PICK q \in NextReasons(status) :
          Save(status, [epoch |-> status.epoch + 1, reason |-> q, done |-> "None",
                        cond |-> status.cond], env)
    BY DEF NextStep
  <1> DEFINE new == [epoch |-> status.epoch + 1, reason |-> q, done |-> "None",
                     cond |-> status.cond]
  <1>2. /\ status.done = "True" /\ status.epoch < MaxEpoch
        /\ UNCHANGED <<job, config, pods, ran, manual>>
    BY DEF NextStep
  <1>3. q \in Reasons /\ q # CellsInitialization
    BY <1>1, ReasonAssumption DEF NextReasons, Reasons
  <1>4. new \in Statuses
    BY <1>2, <1>3, BoundAssumption DEF IInv, TypeOK, Statuses
  <1>5. FirstVisit(new) \/ (new.reason = ClusterInitialization /\ ~Started(new))
    BY <1>1, ReasonAssumption
    DEF NextReasons, FirstVisit, IsUpdate, Started, IInv, PhaseInv, TypeOK, Statuses
  <1>6. CASE status' = new /\ stale' = status
    <2>1. (TypeOK /\ StaleInv /\ PhaseInv)'
      BY <1>2, <1>3, <1>4, <1>6 DEF IInv, TypeOK, StaleInv, PhaseInv
    <2>2. (JobInv /\ PodInv /\ RanInv)'
      BY <1>2, <1>4, <1>5, <1>6 DEF IInv, TypeOK, Statuses, JobInv, PodInv, RanInv, Owns
    <2>3. DoneInv'
      BY <1>2, <1>5, <1>6 DEF DoneInv, FreshCompletion, Completed, Started
    <2> QED
      BY <2>1, <2>2, <2>3 DEF IInv
  <1>7. CASE status' = status /\ stale' = status
    BY <1>2, <1>7 DEF IInv, TypeOK, StaleInv, PhaseInv, JobInv, PodInv, RanInv, DoneInv, FreshCompletion,
       Owns, Started, Completed, FirstVisit, IsUpdate
  <1> QED
    BY <1>1, <1>6, <1>7 DEF Save

(* So do the Job controller and whoever removes objects by hand.              *)
LEMMA EnvironmentPreserves ==
  ASSUME IInv, JobSucceeds \/ JobFails \/ JobRemoved \/ ManualRemove
  PROVE  IInv'
  <1> USE DEF IInv, StaleInv, PhaseInv, JobInv, PodInv, RanInv, DoneInv, FreshCompletion, Owns
  <1>1. CASE JobSucceeds
    BY <1>1 DEF JobSucceeds, TypeOK, Statuses
  <1>2. CASE JobFails
    BY <1>2 DEF JobFails, TypeOK, Statuses
  <1>3. CASE JobRemoved
    BY <1>3, BoundAssumption DEF JobRemoved, TypeOK, Statuses, NoJob
  <1>4. CASE ManualRemove
    <2>1. CASE config' = NoConfig /\ UNCHANGED job
      BY <1>4, <2>1, NoObjectTypes, BoundAssumption DEF ManualRemove, TypeOK, Statuses
    <2>2. CASE job.phase \in {"Complete", "Failed"} /\ job' = NoJob /\ UNCHANGED config
      <3>1. job'.phase = "Absent" /\ job.phase # "Active"
        BY <2>2 DEF NoJob
      <3>2. TypeOK'
        BY <1>4, <2>2, NoObjectTypes, BoundAssumption DEF ManualRemove, TypeOK
      <3> QED
        BY <1>4, <3>1, <3>2 DEF ManualRemove, Started, Completed, FirstVisit, IsUpdate
    <2> QED
      BY <1>4, <2>1, <2>2 DEF ManualRemove
  <1> QED
    BY <1>1, <1>2, <1>3, <1>4

(* The inductive invariant holds in every reachable state of the protocol,   *)
(* for every set of reasons and every bound.                                 *)
THEOREM Invariance == Spec => []IInv
  <1>1. Init => IInv
    BY TypeInit, ReasonAssumption
    DEF Init, IInv, StaleInv, PhaseInv, JobInv, PodInv, RanInv, DoneInv, FreshCompletion, Owns, Started,
        Completed, NoCond, NoJob, Reasons
  <1>2. IInv /\ [Next]_vars => IInv'
    <2> SUFFICES ASSUME IInv, [Next]_vars PROVE IInv'
      OBVIOUS
    <2>1. CASE UNCHANGED vars
      BY <2>1 DEF vars, IInv, TypeOK, StaleInv, PhaseInv, JobInv, PodInv, RanInv, DoneInv,
         FreshCompletion, Owns, Started, Completed, FirstVisit, IsUpdate
    <2>2. CASE \E env \in Env : Sync(status, env) \/ Sync(stale, env)
      BY <2>2, SyncPreserves
    <2>3. CASE \E env \in Env : NextStep(env)
      BY <2>3, NextStepPreserves
    <2>4. CASE JobSucceeds \/ JobFails \/ JobRemoved \/ ManualRemove
      BY <2>4, EnvironmentPreserves
    <2> QED
      BY <2>1, <2>2, <2>3, <2>4 DEF Next, BoundReached
  <1> QED
    BY <1>1, <1>2, PTL DEF Spec

(* A step is never confirmed by anything but a job created during that step: *)
(* RunUpdateScript's True update condition is fresh.                         *)
THEOREM StepIsFresh == Spec => []FreshCompletion
  <1>1. IInv => FreshCompletion
    BY DEF IInv, DoneInv
  <1> QED
    BY <1>1, Invariance, PTL

(* No two invocations of the job overlap.                                    *)
THEOREM InvocationsDoNotOverlap == Spec => []NoConcurrentInvocations
  <1>1. IInv => NoConcurrentInvocations
    BY DEF IInv, PodInv, NoConcurrentInvocations
  <1> QED
    BY <1>1, Invariance, PTL

(* A reconcile of a step, seen through the refinement mapping, confirms the  *)
(* step or changes nothing.                                                  *)
LEMMA SyncConfirms ==
  ASSUME IInv, NEW env \in Env, NEW s \in {status, stale}, Sync(s, env)
  PROVE  /\ status'.epoch = status.epoch /\ ran' = ran
         /\ \/ (status'.done = "True") = (status.done = "True")
            \/ status.done # "True" /\ status'.done = "True"
  <1> DEFINE r == Restarted(s)
  <1>1. s.done # "True" /\ SyncStep(s, r, env) /\ ran' = ran
    BY DEF Sync
  <1>2. r \in Statuses /\ r.epoch = status.epoch
    BY <1>1, SyncedVersion
  <1>3. \/ Save(s, r, env)
        \/ Save(s, [r EXCEPT !.done = "True"], env)
        \/ Save(s, [r EXCEPT !.cond = Cond("False", r.reason)], env)
        \/ Save(s, [r EXCEPT !.cond = Cond("True", r.reason)], env)
    BY <1>1 DEF SyncStep, Confirm, DeletePrevious, DeleteConfig, Checkpoint, Launch, Wait,
       Record
  <1>4. status' = status \/ (s = status /\ status'.epoch = r.epoch)
    BY <1>2, <1>3 DEF Save, Statuses
  <1> QED
    BY <1>1, <1>2, <1>4

(* The protocol implements ScriptRun: the script of every step is executed,  *)
(* then the step is confirmed, then the next step begins.                    *)
THEOREM Refinement == Spec => RunsEveryScript
  <1> USE DEF Promise!Next, Promise!vars, Promise!Execute, Promise!Confirm, Promise!Advance
  <1>1. Init => Promise!Init
    BY DEF Init, Promise!Init
  <1>2. IInv /\ IInv' /\ [Next]_vars => [Promise!Next]_Promise!vars
    <2> SUFFICES ASSUME IInv, IInv', [Next]_vars PROVE [Promise!Next]_Promise!vars
      BY Zenon
    <2>1. CASE UNCHANGED vars
      BY <2>1 DEF vars
    <2>2. ASSUME NEW env \in Env, Sync(status, env) \/ Sync(stale, env)
          PROVE  [Promise!Next]_Promise!vars
      <3>1. /\ status'.epoch = status.epoch /\ ran' = ran
            /\ \/ (status'.done = "True") = (status.done = "True")
               \/ status.done # "True" /\ status'.done = "True"
        BY <2>2, SyncConfirms
      <3>2. status'.done = "True" => status.epoch \in ran
        BY <3>1 DEF IInv, DoneInv, FreshCompletion
      <3> QED
        BY <3>1, <3>2
    <2>3. ASSUME NEW env \in Env, NextStep(env)
          PROVE  [Promise!Next]_Promise!vars
      <3>1. status.done = "True" /\ ran' = ran
        BY <2>3 DEF NextStep
      <3>2. \/ status' = status
            \/ status'.epoch = status.epoch + 1 /\ status'.done = "None"
        BY <2>3 DEF NextStep, Save
      <3>3. status.epoch + 1 \notin ran
        BY DEF IInv, RanInv, TypeOK, Statuses
      <3> QED
        BY <3>1, <3>2, <3>3
    <2>4. CASE JobSucceeds
      BY <2>4 DEF JobSucceeds
    <2>5. CASE JobFails \/ JobRemoved \/ ManualRemove
      BY <2>5 DEF JobFails, JobRemoved, ManualRemove
    <2> QED
      BY <2>1, <2>2, <2>3, <2>4, <2>5, Zenon DEF Next, BoundReached
  <1> QED
    BY <1>1, <1>2, Invariance, PTL DEF Spec, Promise!Spec, RunsEveryScript
=============================================================================
