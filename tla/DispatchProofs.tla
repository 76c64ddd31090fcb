--------------------------- MODULE DispatchProofs ---------------------------
(***************************************************************************)
(* Proofs about Dispatch, for every set of derivations, steps, machines,   *)
(* builds and attempts: IInv is an inductive invariant of Spec, so the     *)
(* safety properties that it contains hold.                                *)
(***************************************************************************)
EXTENDS Dispatch, FiniteSetTheorems, TLAPS

-----------------------------------------------------------------------------
(* Types. *)

(* A task that still has calls to make is a task. *)
LEMMA IdleTaskType ==
    ASSUME NEW todo \in SUBSET Drvs, NEW res \in Results
    PROVE  IdleTask(todo, res) \in Task
BY DEF IdleTask, Task, TaskPc, Results

(* So is one that has none. *)
LEMMA NoTaskType == NoTask \in Task
BY IdleTaskType DEF NoTask, Results

(* A call of succeed_step or fail_step that returns leaves tasks. *)
LEMMA ReturnedType ==
    ASSUME TypeOK, NEW t \in TaskIds, NEW todo \in SUBSET Drvs
    PROVE  Returned(t, todo) \in [TaskIds -> Task]
<1>1. task[t].res \in Results
  BY DEF TypeOK, Task
<1>2. IdleTask(todo, task[t].res) \in Task
  BY <1>1, IdleTaskType
<1> QED
  BY <1>2, NoTaskType DEF Returned, TypeOK

(* A task keeps the item it took from scheduled. *)
LEMMA HoldingType ==
    ASSUME TypeOK, NEW t \in TaskIds, NEW d \in Drvs,
           NEW pc \in TaskPc, scheduled[d].info \in Infos
    PROVE  Holding(t, d, pc) \in [TaskIds -> Task]
<1>1. task[t] \in Task /\ stepOf[scheduled[d].info] \in Steps \cup {NoStep}
  BY DEF TypeOK
<1>2. [task[t] EXCEPT !.pc = pc, !.drv = d, !.todo = task[t].todo \ {d},
                      !.info = scheduled[d].info, !.step = stepOf[scheduled[d].info]] \in Task
  BY <1>1 DEF Task
<1> QED
  BY <1>2 DEF Holding, TypeOK

(* An item of scheduled is complete. *)
LEMMA ScheduledStep ==
    ASSUME IInv, NEW d \in Drvs, scheduled[d] # NoItem
    PROVE  /\ scheduled[d].info \in Infos
           /\ scheduled[d].machine \in Machines
           /\ stepOf[scheduled[d].info] \in Steps
           /\ DrvOf[stepOf[scheduled[d].info]] = d
<1>1. Live(scheduled[d].info)
  BY DEF Live, Owned
<1> QED BY <1>1 DEF IInv, InfosPlaced, DrvOfInfo

(* active_runnable counts the items, so it is not 0 while there is one. *)
LEMMA ActivePositive ==
    ASSUME IInv, NEW d \in Drvs, scheduled[d] # NoItem
    PROVE  active \in Nat \ {0}
<1> DEFINE D == {e \in Drvs : scheduled[e] # NoItem}
<1>1. IsFiniteSet(D)
  BY FiniteAssumption, FS_Subset
<1>2. D # {}
  OBVIOUS
<1>3. Cardinality(D) \in Nat /\ Cardinality(D) # 0
  BY <1>1, <1>2, FS_CardinalityType, FS_EmptySet
<1> QED BY <1>3 DEF IInv, FlagMatchesScheduled

(* Builders, clock and web interface keep the types. *)
LEMMA EnvironmentType ==
    ASSUME IInv, Environment
    PROVE  TypeOK'
<1> USE DEF IInv, TypeOK, envVars, stepVars, queueVars, machVars
<1>1. ASSUME NEW b \in Builds, BuildAdded(b) PROVE TypeOK'
  BY <1>1 DEF BuildAdded
<1>2. ASSUME NEW b \in Builds, BuildCancelled(b) PROVE TypeOK'
  BY <1>2 DEF BuildCancelled
<1>3. ASSUME NEW st \in Steps, RetryDelayOver(st) PROVE TypeOK'
  BY <1>3 DEF RetryDelayOver
<1>4. ASSUME NEW m \in Machines, InsertMachine(m) PROVE TypeOK'
  BY <1>4, ConstantsAssumption DEF InsertMachine, TriggerDispatch
<1>5. ASSUME NEW m \in Machines, RemoveMachine(m) PROVE TypeOK'
  <2>1. IdleTask({j.drv : j \in mjobs[m]}, "PreparingFailure") \in Task
    BY IdleTaskType DEF Job, Results
  <2> QED BY <1>5, <2>1 DEF RemoveMachine
<1>6. ASSUME NEW m \in Machines, NEW j \in builder[m], BuilderAborts(m, j) PROVE TypeOK'
  BY <1>6 DEF BuilderAborts
<1>7. ASSUME NEW m \in Machines, NEW j \in builder[m],
             NEW res \in Results \ {"Cancelled"}, CompleteBuild(m, j, res)
      PROVE  TypeOK'
  <2>1. j.drv \in Drvs /\ j.uuid \in TaskIds
    BY DEF Job, TaskIds
  <2>2. IdleTask({j.drv}, res) \in Task
    BY <2>1, IdleTaskType
  <2>3. task' \in [TaskIds -> Task]
    BY <1>7, <2>1, <2>2 DEF CompleteBuild
  <2> QED BY <1>7, <2>1, <2>3 DEF CompleteBuild
<1> QED
  BY <1>1, <1>2, <1>3, <1>4, <1>5, <1>6, <1>7 DEF Environment, BuilderStep

(* Replacing one task by another keeps the type. *)
LEMMA TaskUpdateType ==
    ASSUME TypeOK, NEW t \in TaskIds, NEW r \in Task
    PROVE  [task EXCEPT ![t] = r] \in [TaskIds -> Task]
BY DEF TypeOK

(* Every step of succeed_step, fail_step and inner_fail_job keeps the types. *)
LEMMA TaskType ==
    ASSUME IInv, NEW t \in TaskIds, TaskStep(t)
    PROVE  TypeOK'
<1> USE DEF envVars, stepVars, queueVars, machVars
<1>a. TypeOK
  BY DEF IInv
<1>b. task[t] \in Task /\ task[t].todo \in SUBSET Drvs
  BY <1>a DEF TypeOK, Task
<1>c. NoItem \in Item
  BY DEF NoItem, Item
<1>1. ASSUME NEW d \in task[t].todo, StepMissing(t, d) PROVE TypeOK'
  <2>1. task' \in [TaskIds -> Task]
    BY <1>a, <1>b, <1>1, ReturnedType DEF StepMissing
  <2> QED BY <1>a, <1>1, <2>1 DEF StepMissing, TypeOK
<1>2. ASSUME NEW d \in task[t].todo, SucceedStep(t, d) PROVE TypeOK'
  <2>1. d \in Drvs /\ scheduled[d].info \in Infos /\ stepOf[scheduled[d].info] \in Steps
        /\ active \in Nat \ {0}
    BY <1>b, <1>2, ActivePositive, ScheduledStep DEF SucceedStep
  <2>2. task' \in [TaskIds -> Task]
    BY <1>a, <1>b, <1>2, <2>1, ReturnedType, HoldingType DEF SucceedStep, TaskPc
  <2>3. mjobs' \in [Machines -> SUBSET Job]
    BY <1>a, <1>2 DEF SucceedStep, MachineRemoveJob, TypeOK
  <2>4. /\ finished' \in [Steps -> BOOLEAN]
        /\ scheduled' \in [Drvs -> Item]
        /\ already_scheduled' \in [Infos -> BOOLEAN]
        /\ active' \in Nat
    BY <1>a, <1>c, <1>2, <2>1 DEF SucceedStep, RemoveJobFromScheduled, TypeOK
  <2> QED BY <1>a, <1>2, <2>2, <2>3, <2>4 DEF SucceedStep, TypeOK
<1>3. ASSUME NEW d \in task[t].todo, FailStep(t, d) PROVE TypeOK'
  <2>1. d \in Drvs /\ scheduled[d].info \in Infos /\ stepOf[scheduled[d].info] \in Steps
        /\ active \in Nat \ {0}
    BY <1>b, <1>3, ActivePositive, ScheduledStep DEF FailStep
  <2>2. \/ task' = Returned(t, task[t].todo \ {d})
        \/ task' = Holding(t, d, "finish_retry")
        \/ task' = Holding(t, d, "remove_job")
    BY <1>3 DEF FailStep
  <2>3. task' \in [TaskIds -> Task]
    BY <1>a, <1>b, <2>1, <2>2, ReturnedType, HoldingType DEF TaskPc
  <2>4. mjobs' \in [Machines -> SUBSET Job]
    BY <1>a, <1>3 DEF FailStep, MachineRemoveJob, TypeOK
  <2>5. \A n \in 0 .. MaxRetries : IncTries(n) \in 0 .. MaxRetries
    BY ConstantsAssumption DEF IncTries
  <2>6. tries' \in [Steps -> 0 .. MaxRetries]
    BY <1>a, <1>3, <2>1, <2>5 DEF FailStep, TypeOK
  <2>7. after' \in [Steps -> BOOLEAN]
    BY <1>a, <1>3, <2>1 DEF FailStep, TypeOK
  <2>8. finished' = [finished EXCEPT ![stepOf[scheduled[d].info]] = FALSE]
    BY <1>3 DEF FailStep
  <2>9. RemoveJobFromScheduled(d)
    BY <1>3 DEF FailStep
  <2>10. /\ finished' \in [Steps -> BOOLEAN]
         /\ scheduled' \in [Drvs -> Item]
         /\ already_scheduled' \in [Infos -> BOOLEAN]
         /\ active' \in Nat
    BY <1>a, <1>c, <2>1, <2>8, <2>9 DEF RemoveJobFromScheduled, TypeOK
  <2> QED BY <1>a, <1>3, <2>3, <2>4, <2>6, <2>7, <2>10 DEF FailStep, TypeOK
<1>4. ASSUME FinishRetry(t) PROVE TypeOK'
  <2>1. task' \in [TaskIds -> Task]
    BY <1>a, <1>b, <1>4, ReturnedType DEF FinishRetry
  <2> QED BY <1>a, <1>4, <2>1, ConstantsAssumption DEF FinishRetry, TriggerDispatch, TypeOK
<1>5. ASSUME TaskRemoveJob(t) PROVE TypeOK'
  <2>1. [task[t] EXCEPT !.pc = "finish"] \in Task
    BY <1>b DEF Task, TaskPc
  <2>2. task' \in [TaskIds -> Task]
    BY <1>a, <1>5, <2>1, TaskUpdateType DEF TaskRemoveJob
  <2> QED BY <1>a, <1>5, <2>2 DEF TaskRemoveJob, WithoutJob, Scrubbed, TypeOK
<1>6. ASSUME FinishBuildStep(t) PROVE TypeOK'
  <2> DEFINE ids == Dependents(task[t].step)
  <2>1. ids \in SUBSET Builds
    BY DEF Dependents
  <2>2. /\ [task[t] EXCEPT !.pc = "commit", !.ids = ids] \in Task
        /\ [task[t] EXCEPT !.pc = "indirect"] \in Task
    BY <1>b, <2>1 DEF Task, TaskPc
  <2>3. task' \in [TaskIds -> Task]
    BY <1>a, <1>6, <2>2, TaskUpdateType DEF FinishBuildStep
  <2> QED BY <1>a, <1>6, <2>3 DEF FinishBuildStep, StepsWithout, TypeOK
<1>7. ASSUME NEW ids \in DependentSets(task[t].step), IndirectBuilds(t, ids) PROVE TypeOK'
  <2>1. ids \in SUBSET Builds
    BY DEF DependentSets, Dependents
  <2>2. ASSUME NEW pc \in TaskPc PROVE [task[t] EXCEPT !.ids = ids, !.pc = pc] \in Task
    BY <1>b, <2>1 DEF Task
  <2>3. task' \in [TaskIds -> Task]
    BY <1>a, <1>7, <2>2, TaskUpdateType DEF IndirectBuilds, TaskPc
  <2> QED BY <1>a, <1>7, <2>3 DEF IndirectBuilds, StepsWithout, TypeOK
<1>8. ASSUME CommitBuilds(t) PROVE TypeOK'
  <2>1. ASSUME NEW u \in TaskIds
        PROVE  [task[u] EXCEPT !.ended = @ \cup (task[u].ids \cap task[t].ids)] \in Task
    <3>1. task[u] \in Task
      BY <1>a DEF TypeOK
    <3> QED BY <3>1 DEF Task
  <2>2. ASSUME NEW pc \in TaskPc
        PROVE  [task[t] EXCEPT !.ids = {}, !.ended = {}, !.looped = TRUE, !.pc = pc] \in Task
    BY <1>b DEF Task
  <2>3. task' \in [TaskIds -> Task]
    BY <1>8, <2>1, <2>2 DEF CommitBuilds, TaskPc
  <2>4. db' \in [Builds -> {"absent", "queued", "succeeded", "failed", "cancelled"}]
    BY <1>a, <1>8 DEF CommitBuilds, MarkSucceeded, MarkFailed, Marked, TypeOK
  <2> QED BY <1>a, <1>8, <2>3, <2>4 DEF CommitBuilds, BuildsWithout, TypeOK
<1>9. ASSUME NotifyFinished(t) PROVE TypeOK'
  <2>1. task' \in [TaskIds -> Task]
    BY <1>a, <1>b, <1>9, ReturnedType DEF NotifyFinished
  <2> QED BY <1>a, <1>9, <2>1, ConstantsAssumption DEF NotifyFinished, TriggerDispatch, TypeOK
<1>10. ASSUME TaskDbError(t) PROVE TypeOK'
  <2>1. task' \in [TaskIds -> Task]
    BY <1>a, <1>b, <1>10, ReturnedType DEF TaskDbError
  <2>2. disp' \in Disp
    BY <1>a, <1>10 DEF TaskDbError, Disp, DispPc, TypeOK
  <2> QED BY <1>a, <1>10, <2>1, <2>2 DEF TaskDbError, TypeOK
<1> QED
  BY <1>1, <1>2, <1>3, <1>4, <1>5, <1>6, <1>7, <1>8, <1>9, <1>10 DEF TaskStep

(* Every step of the queue monitor keeps the types. *)
LEMMA MonitorType ==
    ASSUME IInv, MonitorStep
    PROVE  TypeOK'
<1> USE DEF envVars, stepVars, queueVars, machVars
<1>a. TypeOK
  BY DEF IInv
<1>b. \A ids \in SUBSET Builds : BuildsWithout(ids) \in [Builds -> Steps \cup {NoStep}]
  BY <1>a DEF BuildsWithout, TypeOK
<1>c. ASSUME NEW b \in Builds, BuildCreated(b)
      PROVE  mon' \in [pc: {"wait", "change", "load", "create"}, ids: SUBSET Builds]
  BY <1>a, <1>c DEF BuildCreated, TypeOK
<1>d. TopDrv \in [Builds -> Drvs]
  BY ConstantsAssumption
<1>1. ASSUME NEW n \in notes, ReadNotification(n) PROVE TypeOK'
  BY <1>a, <1>1 DEF ReadNotification, TypeOK
<1>2. ASSUME GetQueuedBuilds PROVE TypeOK'
  BY <1>a, <1>2 DEF GetQueuedBuilds, TypeOK
<1>3. ASSUME NewBuildsProcessed PROVE TypeOK'
  BY <1>a, <1>3, ConstantsAssumption DEF NewBuildsProcessed, TriggerDispatch, TypeOK
<1>4. ASSUME ProcessQueueChange PROVE TypeOK'
  <2>1. PICK told \in SUBSET Drvs :
            task' = [task EXCEPT ![Monitor] =
                        IF told = {} THEN NoTask ELSE IdleTask(told, "Cancelled")]
    BY <1>4 DEF ProcessQueueChange
  <2>2. task' \in [TaskIds -> Task]
    BY <1>a, <2>1, NoTaskType, IdleTaskType DEF TypeOK, Results
  <2>3. toplevel' \in [Builds -> Steps \cup {NoStep}]
    BY <1>b, <1>4 DEF ProcessQueueChange
  <2>4. cancelled' \in [Infos -> BOOLEAN]
    BY <1>a, <1>4 DEF ProcessQueueChange, TypeOK
  <2> QED BY <1>a, <1>4, <2>2, <2>3, <2>4 DEF ProcessQueueChange, TypeOK
<1>5. ASSUME ProcessQueueChangeError PROVE TypeOK'
  BY <1>a, <1>5 DEF ProcessQueueChangeError, TypeOK
<1>6. ASSUME NEW b \in mon.ids, CreateBuildExisting(b) PROVE TypeOK'
  <2>1. b \in Builds
    BY <1>a DEF TypeOK
  <2>2. toplevel' \in [Builds -> Steps \cup {NoStep}]
    BY <1>a, <1>d, <1>6, <2>1 DEF CreateBuildExisting, TypeOK
  <2> QED BY <1>a, <1>c, <1>6, <2>1, <2>2 DEF CreateBuildExisting, TypeOK
<1>7. ASSUME NEW b \in mon.ids, CreateBuildCached(b) PROVE TypeOK'
  <2>1. b \in Builds
    BY <1>a DEF TypeOK
  <2>2. db' \in [Builds -> {"absent", "queued", "succeeded", "failed", "cancelled"}]
    BY <1>a, <1>7, <2>1 DEF CreateBuildCached, MarkSucceeded, MarkFailed, Marked, TypeOK
  <2> QED BY <1>a, <1>c, <1>7, <2>1, <2>2 DEF CreateBuildCached, TypeOK
<1>8. ASSUME NEW b \in mon.ids, NEW st \in Steps, CreateBuildNew(b, st) PROVE TypeOK'
  <2>1. b \in Builds
    BY <1>a DEF TypeOK
  <2>2. tries' \in [Steps -> 0 .. MaxRetries]
    BY <1>a, <1>8, ConstantsAssumption DEF CreateBuildNew, TypeOK
  <2> QED BY <1>a, <1>c, <1>8, <2>1, <2>2 DEF CreateBuildNew, TypeOK
<1> QED
  BY <1>1, <1>2, <1>3, <1>4, <1>5, <1>6, <1>7, <1>8 DEF MonitorStep

(* The task the dispatcher starts for inner_fail_job is a task. *)
LEMMA DispatcherFailsType ==
    ASSUME TypeOK, NEW st \in Steps
    PROVE  DispatcherFails(st) \in [TaskIds -> Task]
<1>1. DrvOf[st] \in Drvs
  BY ConstantsAssumption
<1>2. [NoTask EXCEPT !.pc = "indirect", !.drv = DrvOf[st], !.step = st,
                     !.res = "BuildFailure"] \in Task
  BY <1>1, NoTaskType DEF Task, TaskPc, Results
<1> QED BY <1>2, TaskUpdateType DEF DispatcherFails, TaskIds

(* The job the dispatcher is busy with is that of a step. *)
LEMMA BusyStep ==
    ASSUME IInv, Busy
    PROVE  /\ disp.info \in Infos
           /\ disp.machine \in Machines
           /\ stepOf[disp.info] \in Steps
           /\ DrvOfInfo(disp.info) \in Drvs
<1>1. disp.info \in Infos /\ disp.machine \in Machines
  BY DEF IInv, HeldJobStillDue
<1>2. Live(disp.info)
  BY DEF Live, Owned
<1>3. stepOf[disp.info] \in Steps
  BY <1>1, <1>2 DEF IInv, InfosPlaced
<1> QED BY <1>1, <1>3, ConstantsAssumption DEF DrvOfInfo

(* Every step of do_dispatch_once keeps the types. *)
LEMMA DispatchType ==
    ASSUME IInv, DispatchStep
    PROVE  TypeOK'
<1> USE DEF envVars, stepVars, queueVars, machVars
<1>a. TypeOK
  BY DEF IInv
<1>b. disp \in Disp
  BY <1>a DEF TypeOK
<1>c. NextJob \in Disp
  BY <1>b DEF NextJob, Disp, DispPc
<1>d. CloneRunnable \in SUBSET Steps
  BY DEF CloneRunnable
<1>1. ASSUME DispatchWake PROVE TypeOK'
  <2>1. disp' \in Disp
    BY <1>b, <1>d, <1>1 DEF DispatchWake, Disp, DispPc
  <2> QED BY <1>a, <1>1, <2>1 DEF DispatchWake, TypeOK
<1>2. ASSUME NEW f \in [NewJobs -> FreeInfos], InsertNewJobs(f) PROVE TypeOK'
  <2>1. NewJobs \subseteq Steps /\ FreeInfos \subseteq Infos
    BY <1>b DEF NewJobs, FreeInfos, Disp
  <2>2. jobs' \in [Drvs -> Infos \cup {NoInfo}]
    BY <1>a, <1>2, <2>1 DEF InsertNewJobs, TypeOK
  <2>3. stepOf' \in [Infos -> Steps \cup {NoStep}]
    BY <1>a, <1>2, <2>1 DEF InsertNewJobs, TypeOK
  <2>4. queue' \in SUBSET Infos
    BY <1>a, <1>2, <2>1 DEF InsertNewJobs, TypeOK
  <2>5. /\ already_scheduled' \in [Infos -> BOOLEAN]
        /\ cancelled' \in [Infos -> BOOLEAN]
    BY <1>a, <1>2 DEF InsertNewJobs, TypeOK
  <2>6. disp' \in Disp
    BY <1>b, <1>2, <2>4 DEF InsertNewJobs, Disp, DispPc
  <2> QED BY <1>a, <1>2, <2>2, <2>3, <2>4, <2>5, <2>6 DEF InsertNewJobs, TypeOK
<1>3. ASSUME NEW i \in disp.todo, ProcessSkip(i) PROVE TypeOK'
  <2>1. disp' \in Disp
    BY <1>b, <1>3 DEF ProcessSkip, Disp
  <2> QED BY <1>a, <1>3, <2>1 DEF ProcessSkip, TypeOK
<1>4. ASSUME NEW i \in disp.todo, NEW m \in Machines, ProcessJob(i, m) PROVE TypeOK'
  <2>1. disp' \in Disp
    BY <1>b, <1>4 DEF ProcessJob, Disp, DispPc
  <2> QED BY <1>a, <1>4, <2>1 DEF ProcessJob, TypeOK
<1>5. ASSUME RealiseError PROVE TypeOK'
  BY <1>a, <1>c, <1>5 DEF RealiseError, TypeOK
<1>6. ASSUME RealiseCachedFailure PROVE TypeOK'
  <2>1. stepOf[disp.info] \in Steps
    BY <1>6, BusyStep DEF RealiseCachedFailure, Busy
  <2>2. task' \in [TaskIds -> Task]
    BY <1>a, <1>6, <2>1, DispatcherFailsType DEF RealiseCachedFailure
  <2>3. disp' \in Disp
    BY <1>b, <1>6 DEF RealiseCachedFailure, Disp, DispPc
  <2> QED BY <1>a, <1>6, <2>2, <2>3 DEF RealiseCachedFailure, TypeOK
<1>7. ASSUME CachedFailureDone PROVE TypeOK'
  <2>1. disp' \in Disp
    BY <1>b, <1>7 DEF CachedFailureDone, Disp, DispPc
  <2> QED BY <1>a, <1>7, <2>1 DEF CachedFailureDone, TypeOK
<1>8. ASSUME NEW u \in Uuids, BuildDrv(u) PROVE TypeOK'
  <2>1. disp.machine \in Machines /\ DrvOfInfo(disp.info) \in Drvs
    BY <1>8, BusyStep DEF BuildDrv, Busy
  <2>2. [drv |-> DrvOfInfo(disp.info), uuid |-> u] \in Job
    BY <2>1 DEF Job
  <2>3. builder' \in [Machines -> SUBSET Job] /\ mjobs' \in [Machines -> SUBSET Job]
    BY <1>a, <1>8, <2>1, <2>2 DEF BuildDrv, TypeOK
  <2>4. disp' \in Disp
    BY <1>b, <1>8 DEF BuildDrv, Disp, DispPc
  <2> QED BY <1>a, <1>8, <2>3, <2>4 DEF BuildDrv, TypeOK
<1>9. ASSUME AddJobToScheduled PROVE TypeOK'
  <2>1. disp.machine \in Machines /\ disp.info \in Infos /\ DrvOfInfo(disp.info) \in Drvs
    BY <1>9, BusyStep DEF AddJobToScheduled, Busy
  <2>2. [info |-> disp.info, machine |-> disp.machine] \in Item
    BY <2>1 DEF Item
  <2>3. /\ scheduled' \in [Drvs -> Item]
        /\ already_scheduled' \in [Infos -> BOOLEAN]
        /\ active' \in Nat
    BY <1>a, <1>9, <2>1, <2>2 DEF AddJobToScheduled, TypeOK
  <2> QED BY <1>a, <1>c, <1>9, <2>3 DEF AddJobToScheduled, TypeOK
<1>10. ASSUME ProcessRemoveJob PROVE TypeOK'
  <2>1. jobs' \in [Drvs -> Infos \cup {NoInfo}] /\ queue' \in SUBSET Infos
    BY <1>a, <1>10 DEF ProcessRemoveJob, WithoutJob, Scrubbed, TypeOK
  <2> QED BY <1>a, <1>c, <1>10, <2>1 DEF ProcessRemoveJob, TypeOK
<1>11. ASSUME AbortUnsupported PROVE TypeOK'
  <2>1. disp' \in Disp
    BY <1>b, <1>d, <1>11 DEF AbortUnsupported, Disp, DispPc
  <2> QED BY <1>a, <1>11, <2>1 DEF AbortUnsupported, TypeOK
<1>12. ASSUME DispatchDone PROVE TypeOK'
  <2>1. disp' \in Disp
    BY <1>b, <1>12 DEF DispatchDone, Disp, DispPc
  <2> QED BY <1>a, <1>12, <2>1 DEF DispatchDone, Scrubbed, TypeOK
<1>13. ASSUME NEW st \in disp.check, AbortSkip(st) PROVE TypeOK'
  <2>1. disp' \in Disp
    BY <1>b, <1>13 DEF AbortSkip, Disp
  <2> QED BY <1>a, <1>13, <2>1 DEF AbortSkip, TypeOK
<1>14. ASSUME NEW st \in disp.check, AbortStep(st) PROVE TypeOK'
  <2>1. st \in Steps
    BY <1>b DEF Disp
  <2>2. task' \in [TaskIds -> Task]
    BY <1>a, <1>14, <2>1, DispatcherFailsType DEF AbortStep, TypeOK
  <2>3. disp' \in Disp
    BY <1>b, <1>14, <2>1 DEF AbortStep, Disp
  <2> QED BY <1>a, <1>14, <2>2, <2>3 DEF AbortStep, TypeOK
<1>15. ASSUME NEW st \in disp.aborted, AbortRemoveJob(st) PROVE TypeOK'
  <2>1. disp' \in Disp
    BY <1>b, <1>15 DEF AbortRemoveJob, Disp
  <2> QED BY <1>a, <1>15, <2>1 DEF AbortRemoveJob, WithoutJob, TypeOK
<1> QED
  BY <1>1, <1>2, <1>3, <1>4, <1>5, <1>6, <1>7, <1>8, <1>9, <1>10, <1>11, <1>12, <1>13,
     <1>14, <1>15 DEF DispatchStep

(* Every step of the system keeps the types. *)
LEMMA NextType ==
    ASSUME IInv, [Next]_vars
    PROVE  TypeOK'
<1>1. ASSUME UNCHANGED vars PROVE TypeOK'
  BY <1>1 DEF IInv, TypeOK, vars, envVars, stepVars, queueVars, machVars
<1>2. ASSUME NEW m \in Machines, TunnelEnds(m) PROVE TypeOK'
  BY <1>2 DEF IInv, TypeOK, TunnelEnds, envVars, stepVars, queueVars
<1> QED
  BY <1>1, <1>2, EnvironmentType, TaskType, MonitorType, DispatchType DEF Next

-----------------------------------------------------------------------------
(* Steps that only let go of things.  *)

(* Owners of StepInfos only let go of them, or hand them to a task. *)
OwnersShrink ==
    /\ \A d \in Drvs : jobs'[d] \in {jobs[d], NoInfo}
    /\ \A d \in Drvs : scheduled'[d].info \in {scheduled[d].info, NoInfo}
    /\ disp'.info \in {disp.info, NoInfo}
    /\ \A t \in TaskIds : \/ task'[t].info \in {task[t].info, NoInfo}
                          \/ \E d \in Drvs : task'[t].info = scheduled[d].info

(* Then a StepInfo that is owned afterwards was owned, and scrube_jobs     *)
(* leaves it in the queue.                                                 *)
LEMMA LiveShrinks ==
    ASSUME OwnersShrink, NEW i \in Infos, Live(i)'
    PROVE  Live(i) /\ i \in Owned(jobs')
<1>1. i # NoInfo
  BY NoValuesAssumption
<1>2. CASE \E d \in Drvs : jobs'[d] = i
  BY <1>1, <1>2 DEF OwnersShrink, Live, Owned
<1>3. CASE \E d \in Drvs : scheduled'[d].info = i
  BY <1>1, <1>3 DEF OwnersShrink, Live, Owned
<1>4. CASE disp'.info = i
  BY <1>1, <1>4 DEF OwnersShrink, Live, Owned
<1>5. CASE \E t \in TaskIds : task'[t].info = i
  BY <1>1, <1>5 DEF OwnersShrink, Live, Owned
<1> QED
  BY <1>2, <1>3, <1>4, <1>5 DEF Live, Owned

(* What a step leaves alone that neither schedules nor ends a job. *)
Frame ==
    /\ UNCHANGED <<scheduled, active, stepOf, already_scheduled, mjobs>>
    /\ OwnersShrink
    /\ \/ queue' = queue
       \/ queue' = queue \cap Owned(jobs')
    /\ \A st \in Steps : finished'[st] => finished[st]
    /\ disp'.todo \subseteq disp.todo
    /\ Busy' => Busy /\ disp'.info = disp.info /\ disp'.machine = disp.machine
    /\ disp'.pc = "realise" => disp.pc = "realise"
    /\ disp'.pc = "add_scheduled" <=> disp.pc = "add_scheduled"

(* Such a step keeps the whole invariant. *)
LEMMA FrameKeepsIInv ==
    ASSUME IInv, TypeOK', Frame
    PROVE  IInv'
<1>a. ASSUME NEW i \in Infos, Live(i)' PROVE Live(i)
  BY <1>a, LiveShrinks DEF Frame
<1>b. ASSUME NEW i \in queue, Live(i)' PROVE i \in queue'
  <2>1. i \in Infos
    BY DEF IInv, TypeOK
  <2> QED BY <1>b, <2>1, LiveShrinks DEF Frame
<1>c. queue' \subseteq queue
  BY DEF Frame
<1>d. UNCHANGED <<scheduled, active, stepOf, already_scheduled, mjobs>>
  BY DEF Frame
<1>e. \A i \in Infos : DrvOfInfo(i)' = DrvOfInfo(i)
  BY <1>d DEF DrvOfInfo
<1>1. InfosPlaced'
  <2>1. ASSUME NEW d \in Drvs, jobs'[d] # NoInfo PROVE jobs'[d] = jobs[d]
    BY <2>1 DEF Frame, OwnersShrink
  <2> QED BY <1>a, <1>d, <2>1 DEF IInv, InfosPlaced, DrvOfInfo
<1>2. HeldJobsQueued'
  <2>1. ASSUME NEW d \in Drvs, scheduled'[d] # NoItem PROVE scheduled'[d].info \in queue'
    <3>1. scheduled[d].info \in queue
      BY <1>d, <2>1 DEF IInv, HeldJobsQueued
    <3>2. Live(scheduled[d].info)'
      BY <1>d DEF Live, Owned
    <3> QED BY <1>b, <1>d, <3>1, <3>2
  <2>2. ASSUME NEW i \in disp'.todo, Live(i)' PROVE i \in queue'
    <3>1. i \in disp.todo /\ i \in Infos
      BY DEF Frame, IInv, TypeOK, Disp
    <3>2. i \in queue
      BY <1>a, <2>2, <3>1 DEF IInv, HeldJobsQueued
    <3> QED BY <1>b, <2>2, <3>2
  <2>3. ASSUME Busy' PROVE disp'.info \in queue'
    <3>1. disp'.info \in queue
      BY <2>3 DEF Frame, IInv, HeldJobsQueued
    <3>2. Live(disp.info)'  \/ disp'.info # disp.info
      BY DEF Live, Owned
    <3>3. disp'.info = disp.info
      BY <2>3 DEF Frame
    <3> QED BY <1>b, <3>1, <3>2, <3>3
  <2> QED BY <2>1, <2>2, <2>3 DEF HeldJobsQueued
<1>3. HeldJobStillDue'
  <2>1. ASSUME Busy'
        PROVE  /\ disp'.info \in Infos
               /\ disp'.machine \in Machines
               /\ scheduled'[DrvOfInfo(disp.info)'] = NoItem
               /\ ~finished'[stepOf'[disp'.info]]
    <3>1. Busy /\ disp'.info = disp.info /\ disp'.machine = disp.machine
      BY <2>1 DEF Frame
    <3>2. stepOf[disp.info] \in Steps
      BY <3>1, BusyStep
    <3> QED BY <1>d, <3>1, <3>2 DEF IInv, HeldJobStillDue, Frame, DrvOfInfo
  <2>2. ASSUME disp'.pc = "realise" PROVE Cardinality(mjobs'[disp'.machine]) < MaxJobs
    <3>1. disp.pc = "realise" /\ disp'.machine = disp.machine
      BY <2>2 DEF Frame, Busy
    <3> QED BY <1>d, <3>1 DEF IInv, HeldJobStillDue
  <2>3. ASSUME disp'.pc = "add_scheduled" PROVE HasJob(disp.machine, DrvOfInfo(disp.info))'
    <3>1. disp.pc = "add_scheduled" /\ disp'.machine = disp.machine /\ disp'.info = disp.info
      BY <2>3 DEF Frame, Busy
    <3> QED BY <1>d, <3>1 DEF IInv, HeldJobStillDue, HasJob, DrvOfInfo
  <2> QED BY <2>1, <2>2, <2>3 DEF HeldJobStillDue
<1>4. OneJobPerDrv'
  BY <1>d DEF IInv, OneJobPerDrv
<1>5. ScheduledMatchesJobs'
  <2>1. ASSUME disp.pc = "add_scheduled"
        PROVE  disp'.pc = "add_scheduled" /\ disp'.machine = disp.machine
               /\ disp'.info = disp.info
    BY <2>1 DEF Frame, Busy
  <2> QED BY <1>d, <2>1 DEF IInv, ScheduledMatchesJobs, HasJob, DrvOfInfo
<1>6. FlagMatchesScheduled'
  BY <1>a, <1>d DEF IInv, FlagMatchesScheduled
<1>7. CapacityRespected'
  BY <1>d DEF IInv, CapacityRespected
<1>8. QueueUnique'
  <2>1. queue \subseteq Infos
    BY DEF IInv, TypeOK
  <2> QED BY <1>a, <1>c, <1>e, <2>1 DEF IInv, QueueUnique
<1>9. ScheduledUnfinished'
  <2>1. ASSUME NEW d \in Drvs, scheduled[d] # NoItem
        PROVE  ~finished'[stepOf[scheduled[d].info]]
    <3>1. stepOf[scheduled[d].info] \in Steps
      BY <2>1, ScheduledStep
    <3> QED BY <2>1, <3>1 DEF IInv, ScheduledUnfinished, Frame
  <2> QED BY <1>d, <2>1 DEF ScheduledUnfinished
<1> QED
  BY <1>1, <1>2, <1>3, <1>4, <1>5, <1>6, <1>7, <1>8, <1>9 DEF IInv

(* Tasks that start, wait or return let go of their StepInfo. *)
LEMMA TaskInfos ==
    ASSUME TypeOK, NEW t \in TaskIds
    PROVE  /\ \A todo, res : [task EXCEPT ![t] = IdleTask(todo, res)][t].info = NoInfo
           /\ \A todo : \A u \in TaskIds : Returned(t, todo)[u].info \in {task[u].info, NoInfo}
           /\ NoTask.info = NoInfo
<1>1. \A todo, res : IdleTask(todo, res).info = NoInfo
  BY DEF IdleTask
<1> QED BY <1>1 DEF Returned, NoTask, TypeOK

(* A step that leaves queues, machines and dispatcher alone. *)
LEMMA QuietFrame ==
    ASSUME UNCHANGED <<jobs, queue, scheduled, active, stepOf, already_scheduled, mjobs, disp>>,
           \A st \in Steps : finished'[st] => finished[st],
           \A u \in TaskIds : task'[u].info \in {task[u].info, NoInfo}
    PROVE  Frame
BY DEF Frame, OwnersShrink, Busy

(* A step of the dispatcher between two jobs, or to the next one. *)
LEMMA DispFrame ==
    ASSUME UNCHANGED <<jobs, queue, scheduled, active, stepOf, already_scheduled, mjobs,
                       finished>>,
           disp'.info \in {disp.info, NoInfo},
           disp'.todo \subseteq disp.todo,
           disp'.pc \notin {"realise", "add_scheduled"},
           disp.pc # "add_scheduled",
           Busy' => Busy /\ disp'.info = disp.info /\ disp'.machine = disp.machine,
           \A u \in TaskIds : task'[u].info \in {task[u].info, NoInfo}
    PROVE  Frame
BY DEF Frame, OwnersShrink

(* The environment leaves what IInv speaks of alone. *)
LEMMA EnvironmentFrame ==
    ASSUME IInv, Environment
    PROVE  Frame
<1> USE DEF envVars, stepVars, queueVars, machVars
<1>a. TypeOK
  BY DEF IInv
<1>1. ASSUME NEW b \in Builds, BuildAdded(b) \/ BuildCancelled(b) PROVE Frame
  BY <1>1, QuietFrame DEF BuildAdded, BuildCancelled
<1>2. ASSUME NEW st \in Steps, RetryDelayOver(st) PROVE Frame
  BY <1>2, QuietFrame DEF RetryDelayOver
<1>3. ASSUME NEW m \in Machines, InsertMachine(m) PROVE Frame
  BY <1>3, QuietFrame DEF InsertMachine
<1>4. ASSUME NEW m \in Machines, RemoveMachine(m) PROVE Frame
  <2>1. \A u \in TaskIds : task'[u].info \in {task[u].info, NoInfo}
    BY <1>a, <1>4, TaskInfos DEF RemoveMachine, TaskIds, TypeOK
  <2> QED BY <1>4, <2>1, QuietFrame DEF RemoveMachine
<1>5. ASSUME NEW m \in Machines, NEW j \in builder[m], BuilderAborts(m, j) PROVE Frame
  BY <1>5, QuietFrame DEF BuilderAborts
<1>6. ASSUME NEW m \in Machines, NEW j \in builder[m],
             NEW res \in Results \ {"Cancelled"}, CompleteBuild(m, j, res)
      PROVE  Frame
  <2>1. j.uuid \in TaskIds
    BY <1>a DEF TypeOK, Job, TaskIds
  <2>2. \A u \in TaskIds : task'[u].info \in {task[u].info, NoInfo}
    BY <1>a, <1>6, <2>1, TaskInfos DEF CompleteBuild, TypeOK
  <2> QED BY <1>6, <2>2, QuietFrame DEF CompleteBuild
<1> QED
  BY <1>1, <1>2, <1>3, <1>4, <1>5, <1>6 DEF Environment, BuilderStep

(* The rest of succeed_step and fail_step, once the job left scheduled. *)
LEMMA TaskFrame ==
    ASSUME IInv, NEW t \in TaskIds, TaskStep(t),
           \A d \in task[t].todo : ~SucceedStep(t, d) /\ ~FailStep(t, d)
    PROVE  Frame
<1> USE DEF envVars, stepVars, queueVars, machVars
<1>a. TypeOK
  BY DEF IInv
<1>b. \A todo : \A u \in TaskIds : Returned(t, todo)[u].info \in {task[u].info, NoInfo}
  BY <1>a, TaskInfos
<1>1. ASSUME NEW d \in task[t].todo, StepMissing(t, d) PROVE Frame
  BY <1>b, <1>1, QuietFrame DEF StepMissing
<1>2. ASSUME FinishRetry(t) PROVE Frame
  BY <1>b, <1>2, QuietFrame DEF FinishRetry
<1>3. ASSUME TaskRemoveJob(t) PROVE Frame
  <2>1. \A u \in TaskIds : task'[u].info = task[u].info
    BY <1>a, <1>3 DEF TaskRemoveJob, TypeOK, Task
  <2>2. \A d \in Drvs : jobs'[d] \in {jobs[d], NoInfo}
    BY <1>a, <1>3 DEF TaskRemoveJob, WithoutJob, TypeOK
  <2> QED BY <1>3, <2>1, <2>2 DEF TaskRemoveJob, Scrubbed, Frame, OwnersShrink, Busy
<1>4. ASSUME FinishBuildStep(t) PROVE Frame
  <2> DEFINE ids == Dependents(task[t].step)
  <2>a. \/ task' = [task EXCEPT ![t] = [task[t] EXCEPT !.pc = "commit", !.ids = ids]]
        \/ task' = [task EXCEPT ![t] = [task[t] EXCEPT !.pc = "indirect"]]
    BY <1>4 DEF FinishBuildStep
  <2> HIDE DEF ids
  <2>1. \A u \in TaskIds : task'[u].info = task[u].info
    <3>1. task[t] \in Task
      BY <1>a DEF TypeOK
    <3>2. /\ [task[t] EXCEPT !.pc = "commit", !.ids = ids].info = task[t].info
          /\ [task[t] EXCEPT !.pc = "indirect"].info = task[t].info
      BY <3>1 DEF Task
    <3> QED BY <1>a, <2>a, <3>2 DEF TypeOK
  <2> QED BY <1>4, <2>1, QuietFrame DEF FinishBuildStep
<1>5. ASSUME NEW ids \in DependentSets(task[t].step), IndirectBuilds(t, ids) PROVE Frame
  <2>1. PICK pc : task' = [task EXCEPT ![t] = [task[t] EXCEPT !.ids = ids, !.pc = pc]]
    BY <1>5 DEF IndirectBuilds
  <2>2. \A u \in TaskIds : task'[u].info = task[u].info
    BY <1>a, <2>1 DEF TypeOK, Task
  <2> QED BY <1>5, <2>2, QuietFrame DEF IndirectBuilds
<1>6. ASSUME CommitBuilds(t) PROVE Frame
  <2>1. \A u \in TaskIds : task'[u].info = task[u].info
    BY <1>a, <1>6 DEF CommitBuilds, TypeOK, Task
  <2> QED BY <1>6, <2>1, QuietFrame DEF CommitBuilds
<1>7. ASSUME NotifyFinished(t) PROVE Frame
  BY <1>b, <1>7, QuietFrame DEF NotifyFinished
<1>8. ASSUME TaskDbError(t) PROVE Frame
  <2>1. CASE t = Dispatcher /\ disp.pc = "cached_failure"
    <3>1. disp'.pc = "process" /\ disp'.info = NoInfo /\ disp'.todo = disp.todo
      BY <1>a, <1>8, <2>1 DEF TaskDbError, TypeOK, Disp
    <3> QED BY <1>b, <1>8, <2>1, <3>1, DispFrame DEF TaskDbError, Busy
  <2>2. CASE ~(t = Dispatcher /\ disp.pc = "cached_failure")
    BY <1>b, <1>8, <2>2, QuietFrame DEF TaskDbError
  <2> QED BY <2>1, <2>2
<1> QED
  BY <1>1, <1>2, <1>3, <1>4, <1>5, <1>6, <1>7, <1>8 DEF TaskStep

(* So does the queue monitor. *)
LEMMA MonitorFrame ==
    ASSUME IInv, MonitorStep
    PROVE  Frame
<1> USE DEF envVars, stepVars, queueVars, machVars
<1>a. TypeOK
  BY DEF IInv
<1>1. ASSUME NEW n \in notes, ReadNotification(n) PROVE Frame
  BY <1>1, QuietFrame DEF ReadNotification
<1>2. ASSUME GetQueuedBuilds \/ NewBuildsProcessed \/ ProcessQueueChangeError PROVE Frame
  BY <1>2, QuietFrame DEF GetQueuedBuilds, NewBuildsProcessed, ProcessQueueChangeError
<1>3. ASSUME ProcessQueueChange PROVE Frame
  <2>1. PICK told :
            task' = [task EXCEPT ![Monitor] =
                        IF told = {} THEN NoTask ELSE IdleTask(told, "Cancelled")]
    BY <1>3 DEF ProcessQueueChange
  <2>2. \A u \in TaskIds : task'[u].info \in {task[u].info, NoInfo}
    BY <1>a, <2>1 DEF TypeOK, NoTask, IdleTask
  <2> QED BY <1>3, <2>2, QuietFrame DEF ProcessQueueChange
<1>4. ASSUME NEW b \in mon.ids, CreateBuildExisting(b) \/ CreateBuildCached(b) PROVE Frame
  BY <1>4, QuietFrame DEF CreateBuildExisting, CreateBuildCached
<1>5. ASSUME NEW b \in mon.ids, NEW st \in Steps, CreateBuildNew(b, st) PROVE Frame
  <2>1. \A s \in Steps : finished'[s] => finished[s]
    BY <1>a, <1>5 DEF CreateBuildNew, TypeOK
  <2> QED BY <1>5, <2>1, QuietFrame DEF CreateBuildNew
<1> QED
  BY <1>1, <1>2, <1>3, <1>4, <1>5 DEF MonitorStep

(* The steps of the dispatcher that do not bring a job forward. *)
LEMMA DispatchFrame ==
    ASSUME IInv,
           \/ DispatchWake \/ RealiseError \/ RealiseCachedFailure \/ CachedFailureDone
           \/ ProcessRemoveJob \/ AbortUnsupported \/ DispatchDone
           \/ \E i \in disp.todo : ProcessSkip(i)
           \/ \E st \in disp.check : AbortSkip(st) \/ AbortStep(st)
           \/ \E st \in disp.aborted : AbortRemoveJob(st)
    PROVE  Frame
<1> USE DEF envVars, stepVars, queueVars, machVars
<1>a. TypeOK /\ disp \in Disp
  BY DEF IInv, TypeOK
<1>b. /\ NextJob.pc = "process"
      /\ NextJob.info = NoInfo
      /\ NextJob.todo = disp.todo
  BY <1>a DEF NextJob, Disp
<1>c. \A st : \A u \in TaskIds : DispatcherFails(st)[u].info \in {task[u].info, NoInfo}
  BY <1>a DEF DispatcherFails, NoTask, IdleTask, TypeOK
<1>1. ASSUME DispatchWake PROVE Frame
  BY <1>a, <1>1, DispFrame DEF DispatchWake, Disp, Busy
<1>2. ASSUME RealiseError PROVE Frame
  BY <1>a, <1>b, <1>2, DispFrame DEF RealiseError, Busy
<1>3. ASSUME RealiseCachedFailure PROVE Frame
  BY <1>a, <1>c, <1>3, DispFrame DEF RealiseCachedFailure, Disp, Busy
<1>4. ASSUME CachedFailureDone PROVE Frame
  BY <1>a, <1>4, DispFrame DEF CachedFailureDone, Disp, Busy
<1>5. ASSUME ProcessRemoveJob PROVE Frame
  <2>1. \A d \in Drvs : jobs'[d] \in {jobs[d], NoInfo}
    BY <1>a, <1>5 DEF ProcessRemoveJob, WithoutJob, TypeOK
  <2>2. queue' = queue \cap Owned(jobs')
    BY <1>5 DEF ProcessRemoveJob, Scrubbed
  <2> QED BY <1>b, <1>5, <2>1, <2>2 DEF ProcessRemoveJob, Frame, OwnersShrink, Busy
<1>6. ASSUME AbortUnsupported PROVE Frame
  BY <1>a, <1>6, DispFrame DEF AbortUnsupported, Disp, Busy
<1>7. ASSUME DispatchDone PROVE Frame
  <2>1. /\ disp'.pc = "idle" /\ disp'.info = disp.info /\ disp'.todo = disp.todo
        /\ disp.pc = "abort"
    BY <1>a, <1>7 DEF DispatchDone, Disp
  <2>2. queue' = queue \cap Owned(jobs') /\ jobs' = jobs
    BY <1>7 DEF DispatchDone, Scrubbed
  <2> QED BY <1>7, <2>1, <2>2 DEF DispatchDone, Frame, OwnersShrink, Busy
<1>8. ASSUME NEW i \in disp.todo, ProcessSkip(i) PROVE Frame
  BY <1>a, <1>8, DispFrame DEF ProcessSkip, Disp, Busy
<1>9. ASSUME NEW st \in disp.check, AbortSkip(st) PROVE Frame
  BY <1>a, <1>9, DispFrame DEF AbortSkip, Disp, Busy
<1>10. ASSUME NEW st \in disp.check, AbortStep(st) PROVE Frame
  BY <1>a, <1>c, <1>10, DispFrame DEF AbortStep, Disp, Busy
<1>11. ASSUME NEW st \in disp.aborted, AbortRemoveJob(st) PROVE Frame
  <2>1. \A d \in Drvs : jobs'[d] \in {jobs[d], NoInfo}
    BY <1>a, <1>11 DEF AbortRemoveJob, WithoutJob, TypeOK
  <2>2. disp'.pc = "abort" /\ disp'.info = disp.info /\ disp'.todo = disp.todo
        /\ disp.pc = "abort"
    BY <1>a, <1>11 DEF AbortRemoveJob, Disp
  <2> QED BY <1>11, <2>1, <2>2 DEF AbortRemoveJob, Frame, OwnersShrink, Busy
<1> QED
  BY <1>1, <1>2, <1>3, <1>4, <1>5, <1>6, <1>7, <1>8, <1>9, <1>10, <1>11

-----------------------------------------------------------------------------
(* The steps that bring a job forward. *)

(* Queues::process takes a job of the queue: it is nobody else's. *)
LEMMA ProcessJobKeepsIInv ==
    ASSUME IInv, TypeOK', NEW i \in disp.todo, NEW m \in Machines, ProcessJob(i, m)
    PROVE  IInv'
<1> USE DEF envVars, stepVars, queueVars, machVars
<1>a. disp \in Disp /\ i \in Infos
  BY DEF IInv, TypeOK, Disp
<1>b. /\ disp'.info = i /\ disp'.machine = m
      /\ disp'.pc \in {"remove_job", "realise"}
      /\ disp'.todo \subseteq disp.todo
      /\ disp.pc = "process"
  BY <1>a DEF ProcessJob, Disp
<1>c. UNCHANGED <<stepVars, queueVars, machVars, task>>
  BY DEF ProcessJob
<1>d. Live(i) /\ ~already_scheduled[i] /\ ~finished[stepOf[i]]
      /\ Cardinality(mjobs[m]) < MaxJobs
  BY DEF ProcessJob, Schedulable, FreeMachine, HasCapacity
<1>e. i \in queue
  BY <1>d DEF IInv, HeldJobsQueued
<1>f. ASSUME NEW k \in Infos, Live(k)' PROVE Live(k)
  BY <1>b, <1>c, <1>d, <1>f DEF Live, Owned
<1>g. stepOf[i] \in Steps /\ DrvOfInfo(i) \in Drvs
  BY <1>a, <1>d, ConstantsAssumption DEF IInv, InfosPlaced, DrvOfInfo
<1>h. scheduled[DrvOfInfo(i)] = NoItem
  <2> DEFINE d == DrvOfInfo(i)
  <2>1. SUFFICES ASSUME scheduled[d] # NoItem PROVE FALSE
    OBVIOUS
  <2>2. d \in Drvs
    BY <1>g
  <2> HIDE DEF d
  <2>3. scheduled[d].info \in queue /\ Live(scheduled[d].info)
    BY <2>1, <2>2 DEF IInv, HeldJobsQueued, Live, Owned
  <2>4. DrvOfInfo(scheduled[d].info) = d
    BY <2>1, <2>2, ScheduledStep DEF DrvOfInfo
  <2>5. scheduled[d].info = i
    BY <1>d, <1>e, <2>3, <2>4 DEF IInv, QueueUnique, d
  <2> QED BY <1>a, <1>d, <2>2, <2>5 DEF IInv, FlagMatchesScheduled
<1>1. InfosPlaced'
  BY <1>c, <1>f DEF IInv, InfosPlaced, DrvOfInfo
<1>2. HeldJobsQueued'
  <2>1. \A k \in disp'.todo : k \in Infos
    BY <1>a, <1>b DEF Disp
  <2> QED BY <1>b, <1>c, <1>e, <1>f, <2>1 DEF IInv, HeldJobsQueued
<1>3. HeldJobStillDue'
  BY <1>a, <1>b, <1>c, <1>d, <1>h DEF HeldJobStillDue, DrvOfInfo
<1>4. OneJobPerDrv' /\ CapacityRespected' /\ ScheduledUnfinished'
  BY <1>c DEF IInv, OneJobPerDrv, CapacityRespected, ScheduledUnfinished
<1>5. ScheduledMatchesJobs'
  BY <1>b, <1>c DEF IInv, ScheduledMatchesJobs, HasJob
<1>6. FlagMatchesScheduled'
  BY <1>c, <1>f DEF IInv, FlagMatchesScheduled
<1>7. QueueUnique'
  <2>1. queue \subseteq Infos
    BY DEF IInv, TypeOK
  <2> QED BY <1>c, <1>f, <2>1 DEF IInv, QueueUnique, DrvOfInfo
<1> QED
  BY <1>1, <1>2, <1>3, <1>4, <1>5, <1>6, <1>7 DEF IInv

(* Machine::build_drv: the derivation is new to every machine. *)
LEMMA BuildDrvKeepsIInv ==
    ASSUME IInv, TypeOK', NEW u \in Uuids, BuildDrv(u)
    PROVE  IInv'
<1> USE DEF envVars, stepVars, queueVars, machVars
<1> DEFINE m == disp.machine
           d == DrvOfInfo(disp.info)
           j == [drv |-> d, uuid |-> u]
<1>a. /\ disp \in Disp
      /\ disp.pc = "realise" /\ Busy
      /\ disp' = [disp EXCEPT !.pc = "add_scheduled"]
      /\ UNCHANGED <<stepVars, queueVars, machine, task>>
  BY DEF BuildDrv, Busy, IInv, TypeOK
<1>b. /\ disp'.pc = "add_scheduled" /\ disp'.info = disp.info /\ disp'.machine = m
      /\ disp'.todo = disp.todo
  BY <1>a DEF Disp
<1>c. /\ m \in Machines /\ d \in Drvs /\ disp.info \in Infos /\ stepOf[disp.info] \in Steps
  BY <1>a, BusyStep
<1>d. /\ scheduled[d] = NoItem
      /\ ~finished[stepOf[disp.info]]
      /\ Cardinality(mjobs[m]) < MaxJobs
  BY <1>a DEF IInv, HeldJobStillDue
<1>e. mjobs' = [mjobs EXCEPT ![m] = mjobs[m] \cup {j}]
  BY DEF BuildDrv
<1>f. mjobs \in [Machines -> SUBSET Job]
  BY DEF IInv, TypeOK
<1>g. \A i \in Infos : Live(i)' <=> Live(i)
  BY <1>a, <1>b DEF Live, Owned
<1>h. j.drv = d /\ j.uuid = u
  OBVIOUS
<1> HIDE DEF j
<1>i. ASSUME NEW n \in Machines, NEW k \in mjobs[n] PROVE k.drv # d
  <2>1. d # NoDrv /\ NoItem.machine # n
    BY <1>c, NoValuesAssumption DEF NoItem
  <2>2. scheduled[k.drv].machine = n
    BY <1>a, <1>i DEF IInv, ScheduledMatchesJobs
  <2> QED BY <1>d, <2>1, <2>2
<1>j. mjobs'[m] = mjobs[m] \cup {j} /\ \A n \in Machines : n # m => mjobs'[n] = mjobs[n]
  BY <1>c, <1>e, <1>f
<1>1. InfosPlaced'
  BY <1>a, <1>g DEF IInv, InfosPlaced, DrvOfInfo
<1>2. HeldJobsQueued'
  <2>1. \A i \in disp.todo : i \in Infos
    BY <1>a DEF Disp
  <2> QED BY <1>a, <1>b, <1>g, <2>1 DEF IInv, HeldJobsQueued
<1>3. HeldJobStillDue'
  <2>1. HasJob(m, d)'
    BY <1>a, <1>b, <1>h, <1>j DEF HasJob, DrvOfInfo
  <2> QED BY <1>a, <1>b, <1>c, <1>d, <2>1 DEF HeldJobStillDue, DrvOfInfo
<1>4. OneJobPerDrv'
  <2> SUFFICES ASSUME NEW n1 \in Machines, NEW n2 \in Machines,
                      NEW k1 \in mjobs'[n1], NEW k2 \in mjobs'[n2], k1.drv = k2.drv
               PROVE  n1 = n2 /\ k1 = k2
    BY DEF OneJobPerDrv
  <2>1. \A n \in Machines : \A k \in mjobs'[n] : k \in mjobs[n] \/ (n = m /\ k = j)
    BY <1>j
  <2> QED BY <1>h, <1>i, <2>1 DEF IInv, OneJobPerDrv
<1>5. ScheduledMatchesJobs'
  <2>1. ASSUME NEW e \in Drvs, scheduled[e] # NoItem PROVE HasJob(scheduled[e].machine, e)'
    <3>1. HasJob(scheduled[e].machine, e) /\ scheduled[e].machine \in Machines
      BY <2>1, ScheduledStep DEF IInv, ScheduledMatchesJobs
    <3> QED BY <1>a, <1>j, <3>1 DEF HasJob
  <2>2. ASSUME NEW n \in Machines, NEW k \in mjobs'[n]
        PROVE  scheduled[k.drv].machine = n \/ (m = n /\ d = k.drv)
    <3>1. k \in mjobs[n] \/ (n = m /\ k = j)
      BY <1>j
    <3> QED BY <1>a, <1>h, <3>1 DEF IInv, ScheduledMatchesJobs
  <2> QED BY <1>a, <1>b, <2>1, <2>2 DEF ScheduledMatchesJobs, DrvOfInfo
<1>6. FlagMatchesScheduled'
  BY <1>a, <1>g DEF IInv, FlagMatchesScheduled
<1>7. CapacityRespected'
  <2>1. IsFiniteSet(mjobs[m])
    <3>1. \A k1, k2 \in mjobs[m] : k1.drv = k2.drv => k1 = k2
      BY <1>c DEF IInv, OneJobPerDrv
    <3> DEFINE g == [k \in mjobs[m] |-> k.drv]
    <3>2. g \in Injection(mjobs[m], Drvs)
      BY <1>c, <1>f, <3>1 DEF Injection, IsInjective, Job
    <3> QED BY <3>2, FiniteAssumption, FS_Injection
  <2>2. Cardinality(mjobs[m]) \in Nat
    BY <2>1, FS_CardinalityType
  <2>3. Cardinality(mjobs'[m]) <= MaxJobs
    <3>1. Cardinality(mjobs[m] \cup {j}) =
            IF j \in mjobs[m] THEN Cardinality(mjobs[m]) ELSE Cardinality(mjobs[m]) + 1
      BY <2>1, FS_AddElement
    <3>2. MaxJobs \in Nat
      BY ConstantsAssumption
    <3> HIDE DEF m
    <3> QED BY <1>d, <1>j, <2>2, <3>1, <3>2
  <2>4. \A n \in Machines : Cardinality(mjobs[n]) <= MaxJobs
    BY DEF IInv, CapacityRespected
  <2>5. \A n \in Machines : Cardinality(mjobs'[n]) <= MaxJobs
    BY <1>j, <2>3, <2>4
  <2> QED BY <2>5 DEF CapacityRespected
<1>8. QueueUnique'
  <2>1. queue \subseteq Infos
    BY DEF IInv, TypeOK
  <2> QED BY <1>a, <1>g, <2>1 DEF IInv, QueueUnique, DrvOfInfo
<1>9. ScheduledUnfinished'
  BY <1>a DEF IInv, ScheduledUnfinished
<1> QED
  BY <1>1, <1>2, <1>3, <1>4, <1>5, <1>6, <1>7, <1>8, <1>9 DEF IInv

(* Queues::add_job_to_scheduled: the job that awaited the database is      *)
(* still not scheduled.                                                    *)
LEMMA AddJobKeepsIInv ==
    ASSUME IInv, TypeOK', AddJobToScheduled
    PROVE  IInv'
<1> USE DEF envVars, stepVars, queueVars, machVars
<1> DEFINE m == disp.machine
           i == disp.info
           d == DrvOfInfo(disp.info)
           it == [info |-> i, machine |-> m]
<1>a. /\ disp \in Disp
      /\ disp.pc = "add_scheduled" /\ Busy
      /\ disp' = NextJob
      /\ UNCHANGED <<stepVars, jobs, queue, stepOf, machVars, task>>
      /\ active' = active + 1
  BY DEF AddJobToScheduled, Busy, IInv, TypeOK
<1>b. disp'.pc = "process" /\ disp'.info = NoInfo /\ disp'.todo = disp.todo
  BY <1>a DEF Disp, NextJob
<1>c. m \in Machines /\ d \in Drvs /\ i \in Infos /\ stepOf[i] \in Steps
  BY <1>a, BusyStep
<1>d. /\ scheduled[d] = NoItem
      /\ ~finished[stepOf[i]]
      /\ HasJob(m, d)
      /\ i \in queue
  BY <1>a DEF IInv, HeldJobStillDue, HeldJobsQueued
<1>e. /\ scheduled' = [scheduled EXCEPT ![d] = it]
      /\ already_scheduled' = [already_scheduled EXCEPT ![i] = TRUE]
  BY DEF AddJobToScheduled
<1>f. it.info = i /\ it.machine = m /\ it # NoItem
  BY <1>c, NoValuesAssumption DEF NoItem
<1>g. DrvOf[stepOf[i]] = d
  BY DEF DrvOfInfo
<1> HIDE DEF it, d, i, m
<1>h. scheduled'[d] = it /\ \A e \in Drvs : e # d => scheduled'[e] = scheduled[e]
  BY <1>c, <1>e DEF IInv, TypeOK
<1>j. \A k \in Infos : already_scheduled'[k] <=> already_scheduled[k] \/ k = i
  BY <1>c, <1>e DEF IInv, TypeOK
<1>k. Live(i)
  BY DEF Live, Owned, i
<1>l. ASSUME NEW k \in Infos, Live(k)' PROVE Live(k)
  <2>1. k # NoInfo
    BY NoValuesAssumption
  <2> QED BY <1>a, <1>b, <1>f, <1>h, <1>k, <1>l, <2>1 DEF Live, Owned
<1>1. InfosPlaced'
  BY <1>a, <1>c, <1>f, <1>g, <1>h, <1>l DEF IInv, InfosPlaced, DrvOfInfo
<1>2. HeldJobsQueued'
  <2>1. \A k \in disp.todo : k \in Infos
    BY <1>a DEF Disp
  <2> QED BY <1>a, <1>b, <1>d, <1>f, <1>h, <1>l, <2>1 DEF IInv, HeldJobsQueued, Busy
<1>3. HeldJobStillDue'
  BY <1>b DEF HeldJobStillDue, Busy
<1>4. OneJobPerDrv' /\ CapacityRespected'
  BY <1>a DEF IInv, OneJobPerDrv, CapacityRespected
<1>5. ScheduledMatchesJobs'
  <2>1. ASSUME NEW e \in Drvs, scheduled'[e] # NoItem
        PROVE  HasJob(scheduled'[e].machine, e)
    <3>1. CASE e = d
      BY <1>d, <1>f, <1>h, <3>1
    <3>2. CASE e # d
      BY <1>h, <2>1, <3>2 DEF IInv, ScheduledMatchesJobs
    <3> QED BY <3>1, <3>2
  <2>2. ASSUME NEW n \in Machines, NEW k \in mjobs[n]
        PROVE  scheduled'[k.drv].machine = n
    <3>1. k.drv \in Drvs
      BY DEF IInv, TypeOK, Job
    <3>2. CASE k.drv = d
      <4>1. scheduled[d].machine # n
        BY <1>d, NoValuesAssumption DEF NoItem
      <4>2. m = n
        BY <3>2, <4>1 DEF IInv, ScheduledMatchesJobs, m
      <4> QED BY <1>f, <1>h, <3>2, <4>2
    <3>3. CASE k.drv # d
      <4>1. scheduled[k.drv].machine = n
        BY <3>3 DEF IInv, ScheduledMatchesJobs, d
      <4> QED BY <1>h, <3>1, <3>3, <4>1
    <3> QED BY <3>2, <3>3
  <2> QED BY <1>a, <2>1, <2>2 DEF ScheduledMatchesJobs, HasJob
<1>6. FlagMatchesScheduled'
  <2>1. ASSUME NEW k \in Infos, Live(k)'
        PROVE  already_scheduled'[k] <=> \E e \in Drvs : scheduled'[e].info = k
    <3>1. CASE k = i
      BY <1>c, <1>f, <1>h, <1>j, <3>1
    <3>2. CASE k # i
      <4>1. already_scheduled[k] <=> \E e \in Drvs : scheduled[e].info = k
        BY <1>l, <2>1 DEF IInv, FlagMatchesScheduled
      <4>2. scheduled[d].info # k
        BY <1>d, NoValuesAssumption DEF NoItem
      <4> QED BY <1>f, <1>h, <1>j, <3>2, <4>1, <4>2
    <3> QED BY <3>1, <3>2
  <2>2. active' = Cardinality({e \in Drvs : scheduled'[e] # NoItem})
    <3> DEFINE D == {e \in Drvs : scheduled[e] # NoItem}
    <3>1. {e \in Drvs : scheduled'[e] # NoItem} = D \cup {d}
      BY <1>c, <1>f, <1>h
    <3>2. IsFiniteSet(D) /\ d \notin D
      BY <1>d, FiniteAssumption, FS_Subset
    <3>3. Cardinality(D \cup {d}) = Cardinality(D) + 1
      BY <3>2, FS_AddElement
    <3>4. active = Cardinality(D)
      BY DEF IInv, FlagMatchesScheduled
    <3> QED BY <1>a, <3>1, <3>3, <3>4
  <2> QED BY <2>1, <2>2 DEF FlagMatchesScheduled
<1>7. QueueUnique'
  <2>1. queue \subseteq Infos
    BY DEF IInv, TypeOK
  <2> QED BY <1>a, <1>l, <2>1 DEF IInv, QueueUnique, DrvOfInfo
<1>8. ScheduledUnfinished'
  BY <1>a, <1>d, <1>f, <1>h DEF IInv, ScheduledUnfinished
<1> QED
  BY <1>1, <1>2, <1>3, <1>4, <1>5, <1>6, <1>7, <1>8 DEF IInv

(* What succeed_step and fail_step have in common: the item of d leaves    *)
(* scheduled, its job leaves the machine and only its step may finish.     *)
EndsJob(d) ==
    /\ scheduled[d] # NoItem
    /\ RemoveJobFromScheduled(d)
    /\ MachineRemoveJob(scheduled[d].machine, d)
    /\ UNCHANGED <<jobs, queue, stepOf, disp>>
    /\ \A st \in Steps : st # stepOf[scheduled[d].info] => finished'[st] = finished[st]
    /\ \A t \in TaskIds : task'[t].info \in {task[t].info, NoInfo, scheduled[d].info}

(* succeed_step and fail_step take a job out of queues.scheduled and out of its machine together. *)
LEMMA EndsJobKeepsIInv ==
    ASSUME IInv, TypeOK', NEW d \in Drvs, EndsJob(d)
    PROVE  IInv'
<1> DEFINE i == scheduled[d].info
           m == scheduled[d].machine
<1>a. /\ i \in Infos /\ m \in Machines /\ stepOf[i] \in Steps /\ DrvOf[stepOf[i]] = d
      /\ scheduled[d] # NoItem
  BY ScheduledStep DEF EndsJob
<1>b. UNCHANGED <<jobs, queue, stepOf, disp>>
  BY DEF EndsJob
<1>c. /\ scheduled' = [scheduled EXCEPT ![d] = NoItem]
      /\ already_scheduled' = [already_scheduled EXCEPT ![i] = FALSE]
      /\ active' = active - 1
  BY DEF EndsJob, RemoveJobFromScheduled
<1>d. mjobs' = [mjobs EXCEPT ![m] = {j \in mjobs[m] : j.drv # d}]
  BY DEF EndsJob, MachineRemoveJob
<1>e. NoItem.info = NoInfo /\ NoItem.machine = NoMachine
  BY DEF NoItem
<1> HIDE DEF i, m
<1>f. scheduled'[d] = NoItem /\ \A e \in Drvs : e # d => scheduled'[e] = scheduled[e]
  BY <1>c DEF IInv, TypeOK
<1>g. /\ mjobs'[m] = {j \in mjobs[m] : j.drv # d}
      /\ \A n \in Machines : n # m => mjobs'[n] = mjobs[n]
  BY <1>a, <1>d DEF IInv, TypeOK
<1>h. ASSUME NEW k \in Infos, Live(k)' PROVE Live(k)
  <2>1. OwnersShrink
    BY <1>b, <1>e, <1>f DEF EndsJob, OwnersShrink
  <2> QED BY <1>h, <2>1, LiveShrinks
<1>i. ASSUME NEW e \in Drvs, scheduled[e] # NoItem, e # d
      PROVE  /\ stepOf[scheduled[e].info] \in Steps
             /\ stepOf[scheduled[e].info] # stepOf[i]
             /\ scheduled[e].info # i
  BY <1>a, <1>i, ScheduledStep
<1>j. ASSUME Busy
      PROVE  /\ DrvOfInfo(disp.info) # d
             /\ DrvOfInfo(disp.info) \in Drvs
             /\ disp.machine \in Machines
             /\ stepOf[disp.info] \in Steps
             /\ stepOf[disp.info] # stepOf[i]
  <2>1. scheduled[DrvOfInfo(disp.info)] = NoItem
    BY <1>j DEF IInv, HeldJobStillDue
  <2> QED BY <1>a, <1>j, <2>1, BusyStep DEF DrvOfInfo
<1>k. ASSUME NEW n \in Machines, NEW e \in Drvs, e # d, HasJob(n, e) PROVE HasJob(n, e)'
  BY <1>g, <1>k DEF HasJob
<1>l. ASSUME NEW n \in Machines, NEW j \in mjobs'[n] PROVE j \in mjobs[n] /\ j.drv # d
  <2>1. j \in mjobs[n]
    BY <1>g
  <2>2. CASE n = m
    BY <1>g, <2>1, <2>2
  <2>3. CASE n # m
    <3>1. SUFFICES ASSUME j.drv = d PROVE FALSE
      BY <2>1
    <3>2. scheduled[d].machine # n
      BY <2>3 DEF m
    <3>3. disp.pc = "add_scheduled" /\ DrvOfInfo(disp.info) = d
      BY <2>1, <3>1, <3>2 DEF IInv, ScheduledMatchesJobs
    <3> QED BY <1>j, <3>3 DEF Busy
  <2> QED BY <2>2, <2>3
<1>m. ASSUME NEW n \in Machines
      PROVE  Cardinality(mjobs'[n]) \in Nat /\ Cardinality(mjobs[n]) \in Nat
             /\ Cardinality(mjobs'[n]) <= Cardinality(mjobs[n])
  <2>1. IsFiniteSet(mjobs[n])
    <3>1. \A k1, k2 \in mjobs[n] : k1.drv = k2.drv => k1 = k2
      BY DEF IInv, OneJobPerDrv
    <3> DEFINE g == [k \in mjobs[n] |-> k.drv]
    <3>2. g \in Injection(mjobs[n], Drvs)
      BY <3>1 DEF Injection, IsInjective, Job, IInv, TypeOK
    <3> QED BY <3>2, FiniteAssumption, FS_Injection
  <2>2. mjobs'[n] \in SUBSET mjobs[n]
    BY <1>g
  <2> QED BY <2>1, <2>2, FS_Subset, FS_CardinalityType
<1>1. InfosPlaced'
  BY <1>b, <1>f, <1>h DEF IInv, InfosPlaced, DrvOfInfo
<1>2. HeldJobsQueued'
  <2>1. \A k \in disp.todo : k \in Infos
    BY DEF IInv, TypeOK, Disp
  <2> QED BY <1>b, <1>f, <1>h, <2>1 DEF IInv, HeldJobsQueued, Busy
<1>3. HeldJobStillDue'
  <2>1. ASSUME Busy
        PROVE  /\ scheduled'[DrvOfInfo(disp.info)] = NoItem
               /\ ~finished'[stepOf[disp.info]]
    <3>1. scheduled[DrvOfInfo(disp.info)] = NoItem /\ ~finished[stepOf[disp.info]]
      BY <2>1 DEF IInv, HeldJobStillDue
    <3>2. finished'[stepOf[disp.info]] = finished[stepOf[disp.info]]
      BY <1>j, <2>1 DEF EndsJob, i
    <3> QED BY <1>f, <1>j, <2>1, <3>1, <3>2
  <2>2. ASSUME disp.pc = "realise" PROVE Cardinality(mjobs'[disp.machine]) < MaxJobs
    <3>1. disp.machine \in Machines /\ Cardinality(mjobs[disp.machine]) < MaxJobs
      BY <1>j, <2>2 DEF Busy, IInv, HeldJobStillDue
    <3> QED BY <1>m, <3>1, ConstantsAssumption
  <2>3. ASSUME disp.pc = "add_scheduled" PROVE HasJob(disp.machine, DrvOfInfo(disp.info))'
    <3>1. Busy /\ HasJob(disp.machine, DrvOfInfo(disp.info))
      BY <2>3 DEF Busy, IInv, HeldJobStillDue
    <3>2. DrvOfInfo(disp.info)' = DrvOfInfo(disp.info)
      BY <1>b DEF DrvOfInfo
    <3> QED BY <1>b, <1>j, <1>k, <3>1, <3>2 DEF HasJob
  <2>4. Busy => disp.info \in Infos /\ disp.machine \in Machines
    BY DEF IInv, HeldJobStillDue
  <2> QED BY <1>b, <2>1, <2>2, <2>3, <2>4 DEF HeldJobStillDue, Busy, DrvOfInfo
<1>4. OneJobPerDrv'
  BY <1>l DEF IInv, OneJobPerDrv
<1>5. ScheduledMatchesJobs'
  <2>1. ASSUME NEW e \in Drvs, scheduled'[e] # NoItem
        PROVE  HasJob(scheduled[e].machine, e)' /\ scheduled'[e] = scheduled[e]
    <3>1. e # d /\ scheduled'[e] = scheduled[e] /\ scheduled[e] # NoItem
      BY <1>f, <2>1
    <3>2. HasJob(scheduled[e].machine, e) /\ scheduled[e].machine \in Machines
      BY <3>1, ScheduledStep DEF IInv, ScheduledMatchesJobs
    <3> QED BY <1>k, <3>1, <3>2 DEF HasJob
  <2>2. ASSUME NEW n \in Machines, NEW j \in mjobs'[n]
        PROVE  scheduled'[j.drv] = scheduled[j.drv] /\ j \in mjobs[n]
    <3>1. j \in mjobs[n] /\ j.drv # d /\ j.drv \in Drvs
      BY <1>l DEF IInv, TypeOK, Job
    <3> QED BY <1>f, <3>1
  <2> QED BY <1>b, <2>1, <2>2 DEF IInv, ScheduledMatchesJobs, DrvOfInfo, HasJob
<1>6. FlagMatchesScheduled'
  <2>1. ASSUME NEW k \in Infos, Live(k)'
        PROVE  already_scheduled'[k] <=> \E e \in Drvs : scheduled'[e].info = k
    <3>a. k # NoInfo
      BY NoValuesAssumption
    <3>1. CASE k = i
      <4>1. ~already_scheduled'[k]
        BY <1>a, <1>c, <3>1 DEF IInv, TypeOK
      <4>2. ASSUME NEW e \in Drvs PROVE scheduled'[e].info # k
        BY <1>e, <1>f, <1>i, <3>a, <3>1
      <4> QED BY <4>1, <4>2
    <3>2. CASE k # i
      <4>1. already_scheduled[k] <=> \E e \in Drvs : scheduled[e].info = k
        BY <1>h, <2>1 DEF IInv, FlagMatchesScheduled
      <4>2. already_scheduled'[k] = already_scheduled[k]
        BY <1>a, <1>c, <3>2 DEF IInv, TypeOK
      <4>3. scheduled[d].info # k
        BY <3>2 DEF i
      <4> QED BY <1>e, <1>f, <3>a, <4>1, <4>2, <4>3
    <3> QED BY <3>1, <3>2
  <2>2. active' = Cardinality({e \in Drvs : scheduled'[e] # NoItem})
    <3> DEFINE D == {e \in Drvs : scheduled[e] # NoItem}
    <3>1. {e \in Drvs : scheduled'[e] # NoItem} = D \ {d}
      BY <1>f
    <3>2. IsFiniteSet(D) /\ d \in D
      BY <1>a, FiniteAssumption, FS_Subset
    <3>3. Cardinality(D \ {d}) = Cardinality(D) - 1
      BY <3>2, FS_RemoveElement
    <3>4. active = Cardinality(D)
      BY DEF IInv, FlagMatchesScheduled
    <3> QED BY <1>c, <3>1, <3>3, <3>4
  <2> QED BY <2>1, <2>2 DEF FlagMatchesScheduled
<1>7. CapacityRespected'
  <2>1. ASSUME NEW n \in Machines PROVE Cardinality(mjobs'[n]) <= MaxJobs
    <3>1. Cardinality(mjobs[n]) <= MaxJobs
      BY DEF IInv, CapacityRespected
    <3> QED BY <1>m, <3>1, ConstantsAssumption
  <2> QED BY <2>1 DEF CapacityRespected
<1>8. QueueUnique'
  <2>1. queue \subseteq Infos
    BY DEF IInv, TypeOK
  <2> QED BY <1>b, <1>h, <2>1 DEF IInv, QueueUnique, DrvOfInfo
<1>9. ScheduledUnfinished'
  <2>1. ASSUME NEW e \in Drvs, scheduled'[e] # NoItem
        PROVE  ~finished'[stepOf'[scheduled'[e].info]]
    <3>1. e # d /\ scheduled'[e] = scheduled[e] /\ scheduled[e] # NoItem
      BY <1>f, <2>1
    <3>2. finished'[stepOf[scheduled[e].info]] = finished[stepOf[scheduled[e].info]]
      BY <1>i, <3>1 DEF EndsJob, i
    <3>3. ~finished[stepOf[scheduled[e].info]]
      BY <3>1 DEF IInv, ScheduledUnfinished
    <3> QED BY <1>b, <3>1, <3>2, <3>3
  <2> QED BY <2>1 DEF ScheduledUnfinished
<1> QED
  BY <1>1, <1>2, <1>3, <1>4, <1>5, <1>6, <1>7, <1>8, <1>9 DEF IInv

(* succeed_step and fail_step are such steps. *)
LEMMA EndsJobSteps ==
    ASSUME IInv, NEW t \in TaskIds, NEW d \in Drvs, SucceedStep(t, d) \/ FailStep(t, d)
    PROVE  EndsJob(d)
<1>a. TypeOK
  BY DEF IInv
<1>b. scheduled[d] # NoItem
  BY DEF SucceedStep, FailStep
<1>c. stepOf[scheduled[d].info] \in Steps
  BY <1>b, ScheduledStep
<1>1. \A st \in Steps : st # stepOf[scheduled[d].info] => finished'[st] = finished[st]
  BY <1>a, <1>c DEF SucceedStep, FailStep, TypeOK
<1>2. \A pc : \A u \in TaskIds :
          Holding(t, d, pc)[u].info \in {task[u].info, scheduled[d].info}
  <2>1. \A pc : [task[t] EXCEPT !.pc = pc, !.drv = d, !.todo = task[t].todo \ {d},
                                !.info = scheduled[d].info,
                                !.step = stepOf[scheduled[d].info]].info = scheduled[d].info
    BY <1>a DEF TypeOK, Task
  <2> QED BY <1>a, <2>1 DEF Holding, TypeOK
<1>3. \A todo : \A u \in TaskIds : Returned(t, todo)[u].info \in {task[u].info, NoInfo}
  BY <1>a, TaskInfos
<1>4. \/ \E pc : task' = Holding(t, d, pc)
      \/ \E todo : task' = Returned(t, todo)
  BY DEF SucceedStep, FailStep
<1>5. \A u \in TaskIds : task'[u].info \in {task[u].info, NoInfo, scheduled[d].info}
  BY <1>2, <1>3, <1>4
<1>6. /\ RemoveJobFromScheduled(d)
      /\ MachineRemoveJob(scheduled[d].machine, d)
      /\ UNCHANGED <<jobs, queue, stepOf, disp>>
  BY DEF SucceedStep, FailStep
<1> QED
  BY <1>b, <1>1, <1>5, <1>6 DEF EndsJob

(* insert_new_jobs: the new StepInfos are fresh, and a derivation that is  *)
(* in the queue does not get into it again.                                *)
LEMMA InsertNewJobsKeepsIInv ==
    ASSUME IInv, TypeOK', NEW f \in [NewJobs -> FreeInfos], InsertNewJobs(f)
    PROVE  IInv'
<1> USE DEF envVars, stepVars, queueVars, machVars
<1> DEFINE new == {f[st] : st \in NewJobs}
<1>a. /\ disp \in Disp /\ disp.pc = "insert"
      /\ disp' = [disp EXCEPT !.pc = "process", !.runnable = {}, !.todo = queue']
      /\ UNCHANGED <<stepVars, scheduled, active, machVars, task>>
  BY DEF InsertNewJobs, IInv, TypeOK
<1>b. disp'.pc = "process" /\ disp'.info = disp.info /\ disp'.todo = queue'
  BY <1>a DEF Disp
<1>c. NewJobs \subseteq Steps /\ queue \subseteq Infos
  BY <1>a DEF NewJobs, Disp, IInv, TypeOK
<1>d. \A i \in new : i \in Infos /\ ~Live(i) /\ i \notin queue
  BY DEF FreeInfos
<1>e. \A st \in NewJobs : stepOf'[f[st]] = st
  <2>1. ASSUME NEW st \in NewJobs PROVE stepOf'[f[st]] = st
    <3>1. f[st] \in Infos /\ f[st] \in new
      BY <1>d
    <3>2. stepOf'[f[st]] = CHOOSE s \in NewJobs : f[s] = f[st]
      BY <3>1 DEF InsertNewJobs
    <3>3. \A s \in NewJobs : f[s] = f[st] => s = st
      BY DEF InsertNewJobs
    <3> QED BY <3>2, <3>3
  <2> QED BY <2>1
<1>f. \A i \in Infos : i \notin new =>
          stepOf'[i] = stepOf[i] /\ already_scheduled'[i] = already_scheduled[i]
  BY DEF InsertNewJobs, IInv, TypeOK
<1>g. \A i \in new : ~already_scheduled'[i]
  BY <1>d DEF InsertNewJobs
<1>h. \A d \in Drvs : \/ jobs'[d] = jobs[d]
                      \/ \E st \in NewJobs : DrvOf[st] = d /\ jobs'[d] = f[st]
  <2>1. ASSUME NEW d \in Drvs, \E st \in NewJobs : DrvOf[st] = d
        PROVE  \E st \in NewJobs : DrvOf[st] = d /\ jobs'[d] = f[st]
    <3> DEFINE s == CHOOSE st \in NewJobs : DrvOf[st] = d
    <3>1. s \in NewJobs /\ DrvOf[s] = d
      BY <2>1
    <3>2. jobs'[d] = f[s]
      BY <2>1 DEF InsertNewJobs
    <3> QED BY <3>1, <3>2
  <2>2. ASSUME NEW d \in Drvs, ~\E st \in NewJobs : DrvOf[st] = d PROVE jobs'[d] = jobs[d]
    BY <2>2 DEF InsertNewJobs
  <2> QED BY <2>1, <2>2
<1>i. queue' = Owned(jobs') \cap
          (queue \cup {f[st] : st \in {n \in NewJobs : ~InQueue(DrvOf[n])}})
  BY DEF InsertNewJobs
<1> HIDE DEF new
<1>j. \A i \in Infos : Live(i)' <=> i \in Owned(jobs')
  BY <1>a, <1>b DEF Live, Owned
<1>k. ASSUME NEW i \in Infos, Live(i)', i \notin new PROVE Live(i)
  <2>1. CASE \E d \in Drvs : jobs'[d] = i
    <3>1. \A st \in NewJobs : f[st] \in new
      BY DEF new
    <3> QED BY <1>h, <1>k, <2>1, <3>1 DEF Live, Owned
  <2>2. CASE ~\E d \in Drvs : jobs'[d] = i
    BY <1>j, <1>k, <2>2 DEF Live, Owned
  <2> QED BY <2>1, <2>2
<1>l. ASSUME NEW i \in new, Live(i)'
      PROVE  \E st \in NewJobs : jobs'[DrvOf[st]] = i /\ i = f[st]
  <2>1. i \in Infos /\ ~Live(i)
    BY <1>d
  <2>2. PICK d \in Drvs : jobs'[d] = i
    BY <1>a, <1>b, <1>l, <2>1 DEF Live, Owned
  <2>3. jobs[d] # i
    BY <2>1 DEF Live, Owned
  <2> QED BY <1>h, <2>2, <2>3
<1>m. ASSUME NEW d \in Drvs, scheduled[d] # NoItem
      PROVE  /\ scheduled[d].info \in queue
             /\ scheduled[d].info \notin new
             /\ scheduled[d].info \in Infos
             /\ stepOf'[scheduled[d].info] = stepOf[scheduled[d].info]
  <2>1. scheduled[d].info \in queue
    BY <1>m DEF IInv, HeldJobsQueued
  <2> QED BY <1>c, <1>d, <1>f, <2>1
<1>1. InfosPlaced'
  <2>1. ASSUME NEW i \in Infos, Live(i)' PROVE stepOf'[i] \in Steps
    <3>1. CASE i \in new
      BY <1>c, <1>e, <1>l, <2>1, <3>1
    <3>2. CASE i \notin new
      BY <1>f, <1>k, <2>1, <3>2 DEF IInv, InfosPlaced
    <3> QED BY <3>1, <3>2
  <2>2. ASSUME NEW d \in Drvs, jobs'[d] # NoInfo PROVE DrvOf[stepOf'[jobs'[d]]] = d
    <3>1. CASE jobs'[d] = jobs[d]
      <4>1. Live(jobs[d]) /\ jobs[d] \in Infos
        BY <2>2, <3>1 DEF Live, Owned, IInv, TypeOK
      <4>2. jobs[d] \notin new
        BY <1>d, <4>1
      <4> QED BY <1>f, <2>2, <3>1, <4>1, <4>2 DEF IInv, InfosPlaced, DrvOfInfo
    <3>2. CASE \E st \in NewJobs : DrvOf[st] = d /\ jobs'[d] = f[st]
      BY <1>e, <3>2
    <3> QED BY <1>h, <3>1, <3>2
  <2>3. ASSUME NEW d \in Drvs, scheduled[d] # NoItem
        PROVE  /\ scheduled[d].info \in Infos
               /\ scheduled[d].machine \in Machines
               /\ DrvOf[stepOf'[scheduled[d].info]] = d
    BY <1>m, <2>3, ScheduledStep
  <2> QED BY <1>a, <2>1, <2>2, <2>3 DEF InfosPlaced, DrvOfInfo
<1>2. HeldJobsQueued'
  <2>1. ASSUME NEW d \in Drvs, scheduled[d] # NoItem PROVE scheduled[d].info \in queue'
    BY <1>i, <1>m, <2>1 DEF Owned
  <2> QED BY <1>a, <1>b, <2>1 DEF HeldJobsQueued, Busy
<1>3. HeldJobStillDue'
  BY <1>b DEF HeldJobStillDue, Busy
<1>4. OneJobPerDrv' /\ CapacityRespected'
  BY <1>a DEF IInv, OneJobPerDrv, CapacityRespected
<1>5. ScheduledMatchesJobs'
  BY <1>a, <1>b DEF IInv, ScheduledMatchesJobs, HasJob
<1>6. FlagMatchesScheduled'
  <2>1. ASSUME NEW i \in Infos, Live(i)'
        PROVE  already_scheduled'[i] <=> \E d \in Drvs : scheduled[d].info = i
    <3>1. CASE i \in new
      <4>1. ~Live(i)
        BY <1>d, <3>1
      <4> QED BY <1>g, <3>1, <4>1 DEF Live, Owned
    <3>2. CASE i \notin new
      BY <1>f, <1>k, <2>1, <3>2 DEF IInv, FlagMatchesScheduled
    <3> QED BY <3>1, <3>2
  <2> QED BY <1>a, <2>1 DEF IInv, FlagMatchesScheduled
<1>7. QueueUnique'
  <2>1. ASSUME NEW i \in queue', Live(i)'
        PROVE  \/ /\ i \in queue /\ Live(i) /\ DrvOfInfo(i)' = DrvOfInfo(i)
               \/ \E st \in NewJobs : /\ ~InQueue(DrvOf[st])
                                      /\ i = f[st]
                                      /\ DrvOfInfo(i)' = DrvOf[st]
                                      /\ jobs'[DrvOf[st]] = i
    <3>1. CASE i \in queue
      <4>1. i \in Infos /\ i \notin new
        BY <1>c, <1>d, <3>1
      <4> QED BY <1>f, <1>k, <2>1, <3>1, <4>1 DEF DrvOfInfo
    <3>2. CASE i \notin queue
      <4>1. PICK st \in NewJobs : ~InQueue(DrvOf[st]) /\ i = f[st]
        BY <1>i, <3>2
      <4>2. i \in new
        BY <4>1 DEF new
      <4>3. PICK s \in NewJobs : jobs'[DrvOf[s]] = i /\ i = f[s]
        BY <1>l, <2>1, <4>2
      <4>4. s = st
        BY <1>e, <4>1, <4>3
      <4>5. DrvOfInfo(i)' = DrvOf[st]
        BY <1>e, <4>1 DEF DrvOfInfo
      <4> QED BY <4>1, <4>3, <4>4, <4>5
    <3> QED BY <3>1, <3>2
  <2>2. ASSUME NEW i \in queue, Live(i), NEW st \in NewJobs, ~InQueue(DrvOf[st])
        PROVE  DrvOfInfo(i) # DrvOf[st]
    BY <2>2 DEF InQueue
  <2>3. ASSUME NEW i \in queue', NEW k \in queue', Live(i)', Live(k)',
               DrvOfInfo(i)' = DrvOfInfo(k)'
        PROVE  i = k
    <3>1. CASE i \in queue /\ Live(i) /\ DrvOfInfo(i)' = DrvOfInfo(i)
      <4>1. k \in queue /\ Live(k) /\ DrvOfInfo(k)' = DrvOfInfo(k)
        <5>1. SUFFICES ASSUME NEW st \in NewJobs, ~InQueue(DrvOf[st]),
                              DrvOfInfo(k)' = DrvOf[st]
                       PROVE  FALSE
          BY <2>1, <2>3
        <5>2. DrvOfInfo(i) # DrvOf[st]
          BY <2>2, <3>1, <5>1
        <5> QED BY <2>3, <3>1, <5>1, <5>2
      <4> QED BY <2>3, <3>1, <4>1 DEF IInv, QueueUnique
    <3>2. CASE \E st \in NewJobs : /\ ~InQueue(DrvOf[st])
                                   /\ i = f[st]
                                   /\ DrvOfInfo(i)' = DrvOf[st]
                                   /\ jobs'[DrvOf[st]] = i
      BY <2>1, <2>2, <2>3, <3>2
    <3> QED BY <2>1, <2>3, <3>1, <3>2
  <2> QED BY <2>3 DEF QueueUnique
<1>8. ScheduledUnfinished'
  BY <1>a, <1>m DEF IInv, ScheduledUnfinished
<1> QED
  BY <1>1, <1>2, <1>3, <1>4, <1>5, <1>6, <1>7, <1>8 DEF IInv

-----------------------------------------------------------------------------
(* The empty state of State::new satisfies the invariant. *)
LEMMA InitIInv == Init => IInv
<1> SUFFICES ASSUME Init PROVE IInv
  OBVIOUS
<1>a. NoItem \in Item /\ NoItem.info = NoInfo /\ NoItem.machine = NoMachine
  BY DEF NoItem, Item
<1>b. ASSUME NEW i \in Infos PROVE ~Live(i)
  <2>1. NoTask.info = NoInfo
    BY DEF NoTask, IdleTask
  <2> QED BY <1>a, <2>1, NoValuesAssumption DEF Init, Live, Owned
<1>1. TypeOK
  <2>1. task \in [TaskIds -> Task]
    BY NoTaskType DEF Init
  <2>2. disp \in Disp
    BY DEF Init, Disp, DispPc
  <2>3. tries \in [Steps -> 0 .. MaxRetries]
    BY ConstantsAssumption DEF Init
  <2> QED BY <1>a, <2>1, <2>2, <2>3 DEF Init, TypeOK
<1>2. InfosPlaced
  BY <1>b DEF Init, InfosPlaced
<1>3. HeldJobsQueued /\ HeldJobStillDue
  BY DEF Init, HeldJobsQueued, HeldJobStillDue, Busy
<1>4. OneJobPerDrv /\ ScheduledMatchesJobs /\ QueueUnique /\ ScheduledUnfinished
  BY DEF Init, OneJobPerDrv, ScheduledMatchesJobs, QueueUnique, ScheduledUnfinished
<1>5. CapacityRespected
  BY FS_EmptySet, ConstantsAssumption DEF Init, CapacityRespected
<1>6. FlagMatchesScheduled
  <2>1. {d \in Drvs : scheduled[d] # NoItem} = {}
    BY DEF Init
  <2>2. Cardinality({}) = 0
    BY FS_EmptySet
  <2> QED BY <1>b, <2>1, <2>2 DEF Init, FlagMatchesScheduled
<1> QED BY <1>1, <1>2, <1>3, <1>4, <1>5, <1>6 DEF IInv

(* Every step of the program preserves the invariant. *)
LEMMA NextIInv == IInv /\ [Next]_vars => IInv'
<1> SUFFICES ASSUME IInv, [Next]_vars PROVE IInv'
  OBVIOUS
<1>a. TypeOK'
  BY NextType
<1>1. CASE Environment
  BY <1>a, <1>1, EnvironmentFrame, FrameKeepsIInv
<1>2. ASSUME NEW t \in TaskIds, TaskStep(t) PROVE IInv'
  <2>1. ASSUME NEW d \in task[t].todo, SucceedStep(t, d) \/ FailStep(t, d) PROVE IInv'
    <3>1. d \in Drvs
      BY DEF IInv, TypeOK, Task
    <3> QED BY <1>a, <2>1, <3>1, EndsJobSteps, EndsJobKeepsIInv
  <2>2. CASE \A d \in task[t].todo : ~SucceedStep(t, d) /\ ~FailStep(t, d)
    BY <1>a, <1>2, <2>2, TaskFrame, FrameKeepsIInv
  <2> QED BY <2>1, <2>2
<1>3. ASSUME NEW m \in Machines, TunnelEnds(m) PROVE IInv'
  <2>1. Frame
    BY <1>3, QuietFrame DEF TunnelEnds, stepVars, queueVars
  <2> QED BY <1>a, <2>1, FrameKeepsIInv
<1>4. CASE MonitorStep
  BY <1>a, <1>4, MonitorFrame, FrameKeepsIInv
<1>5. CASE DispatchStep
  <2>1. ASSUME NEW f \in [NewJobs -> FreeInfos], InsertNewJobs(f) PROVE IInv'
    BY <1>a, <2>1, InsertNewJobsKeepsIInv
  <2>2. ASSUME NEW i \in disp.todo, NEW m \in Machines, ProcessJob(i, m) PROVE IInv'
    BY <1>a, <2>2, ProcessJobKeepsIInv
  <2>3. ASSUME NEW u \in Uuids, BuildDrv(u) PROVE IInv'
    BY <1>a, <2>3, BuildDrvKeepsIInv
  <2>4. CASE AddJobToScheduled
    BY <1>a, <2>4, AddJobKeepsIInv
  <2>5. ASSUME \/ DispatchWake \/ RealiseError \/ RealiseCachedFailure \/ CachedFailureDone
               \/ ProcessRemoveJob \/ AbortUnsupported \/ DispatchDone
               \/ \E i \in disp.todo : ProcessSkip(i)
               \/ \E st \in disp.check : AbortSkip(st) \/ AbortStep(st)
               \/ \E st \in disp.aborted : AbortRemoveJob(st)
        PROVE  IInv'
    BY <1>a, <2>5, DispatchFrame, FrameKeepsIInv
  <2> QED BY <1>5, <2>1, <2>2, <2>3, <2>4, <2>5 DEF DispatchStep
<1>6. CASE UNCHANGED vars
  <2>1. Frame
    BY <1>6, QuietFrame DEF vars, stepVars, queueVars, machVars
  <2> QED BY <1>a, <2>1, FrameKeepsIInv
<1> QED
  BY <1>1, <1>2, <1>3, <1>4, <1>5, <1>6 DEF Next

(* Every state of the dispatcher, the tasks that end steps, the tunnels    *)
(* and the queue monitor satisfies the inductive invariant.                *)
THEOREM Invariant == Spec => []IInv
<1>1. Init => IInv
  BY InitIInv
<1>2. IInv /\ [Next]_vars => IInv'
  BY NextIInv
<1> QED BY <1>1, <1>2, PTL DEF Spec

(* Every variable keeps its type; active_runnable never wraps around. *)
THEOREM TypeCorrect == Spec => []TypeOK
<1>1. IInv => TypeOK
  BY DEF IInv
<1> QED BY <1>1, Invariant, PTL

(* A derivation is a job of at most one machine, under one uuid, however   *)
(* dispatcher, results, cancellations and lost connections interleave.     *)
THEOREM NeverTwoJobs == Spec => []OneJobPerDrv
<1>1. IInv => OneJobPerDrv
  BY DEF IInv
<1> QED BY <1>1, Invariant, PTL

(* queues.scheduled and the machines' job lists agree, so succeed_step and *)
(* fail_step always find the job in machine.jobs.                          *)
THEOREM JobsAgree == Spec => []ScheduledMatchesJobs
<1>1. IInv => ScheduledMatchesJobs
  BY DEF IInv
<1> QED BY <1>1, Invariant, PTL

(* already_scheduled and active_runnable agree with queues.scheduled. *)
THEOREM FlagsAgree == Spec => []FlagMatchesScheduled
<1>1. IInv => FlagMatchesScheduled
  BY DEF IInv
<1> QED BY <1>1, Invariant, PTL

(* No machine ever has more than max_jobs jobs. *)
THEOREM NeverOverCapacity == Spec => []CapacityRespected
<1>1. IInv => CapacityRespected
  BY DEF IInv
<1> QED BY <1>1, Invariant, PTL

(* The queue never holds two live jobs of one derivation. *)
THEOREM QueuedOnce == Spec => []QueueUnique
<1>1. IInv => QueueUnique
  BY DEF IInv
<1> QED BY <1>1, Invariant, PTL

(* A step that succeeded is never scheduled. *)
THEOREM FinishedNotScheduled == Spec => []ScheduledUnfinished
<1>1. IInv => ScheduledUnfinished
  BY DEF IInv
<1> QED BY <1>1, Invariant, PTL

(* What the dispatcher decided before its awaits still holds after them.   *)
THEOREM HeldJobSafe == Spec => [](HeldJobsQueued /\ HeldJobStillDue)
<1>1. IInv => HeldJobsQueued /\ HeldJobStillDue
  BY DEF IInv
<1> QED BY <1>1, Invariant, PTL

=============================================================================
