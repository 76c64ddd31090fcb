--------------------------- MODULE AttemptsProofs ---------------------------
(***************************************************************************)
(* Dispatch implements Attempts, for every value of the constants.         *)
(***************************************************************************)
EXTENDS DispatchAttempts, DispatchProofs, FunctionTheorems

(* Outputs stay in the store and rows in the table. *)
Grows == /\ built \subseteq built'
         /\ \A b \in Builds : db[b] # "absent" => db'[b] # "absent"

(* What a task knows stays true while it does nothing. *)
LEMMA RecordStays ==
    ASSUME TypeOK, Grows, NEW r, r.ids \subseteq Builds, RecordOk(r, built, db)
    PROVE  RecordOk(r, built', db')
BY DEF Grows, RecordOk

(* A database row is never absent again after the builds of a step ended. *)
LEMMA MarkedStays ==
    ASSUME TypeOK, NEW ids \in SUBSET Builds,
           db' \in MarkSucceeded(ids) \/ db' = MarkFailed(ids) \/ db' = db
    PROVE  \A b \in Builds : db[b] # "absent" => db'[b] # "absent"
BY DEF MarkSucceeded, MarkFailed, Marked

(* No step takes outputs or rows away. *)
LEMMA NextGrows ==
    ASSUME IInv, [Next]_vars
    PROVE  Grows
<1> USE DEF envVars, stepVars, queueVars, machVars
<1>a. TypeOK
  BY DEF IInv
<1>1. CASE Environment
  <2>1. ASSUME NEW b \in Builds, BuildAdded(b) \/ BuildCancelled(b) PROVE Grows
    BY <1>a, <2>1 DEF BuildAdded, BuildCancelled, Grows, TypeOK
  <2>2. ASSUME NEW m \in Machines, NEW j \in builder[m],
               NEW res \in Results \ {"Cancelled"}, CompleteBuild(m, j, res)
        PROVE  Grows
    BY <2>2 DEF CompleteBuild, Grows
  <2>3. ASSUME NEW m \in Machines, NEW j \in builder[m], BuilderAborts(m, j) PROVE Grows
    BY <2>3 DEF BuilderAborts, Grows
  <2>4. ASSUME NEW m \in Machines, InsertMachine(m) \/ RemoveMachine(m) PROVE Grows
    BY <2>4 DEF InsertMachine, RemoveMachine, Grows
  <2>5. ASSUME NEW st \in Steps, RetryDelayOver(st) PROVE Grows
    BY <2>5 DEF RetryDelayOver, Grows
  <2> QED BY <1>1, <2>1, <2>2, <2>3, <2>4, <2>5 DEF Environment, BuilderStep
<1>2. ASSUME NEW t \in TaskIds, TaskStep(t) PROVE Grows
  <2>1. CASE CommitBuilds(t)
    <3>1. task[t].ids \ task[t].ended \in SUBSET Builds
      BY <1>a DEF TypeOK, Task
    <3> QED BY <1>a, <2>1, <3>1, MarkedStays DEF CommitBuilds, Grows
  <2>2. CASE ~CommitBuilds(t)
    BY <1>2, <2>2 DEF TaskStep, StepMissing, SucceedStep, FailStep, FinishRetry,
       TaskRemoveJob, FinishBuildStep, IndirectBuilds, NotifyFinished, TaskDbError, Grows
  <2> QED BY <2>1, <2>2
<1>3. CASE \E m \in Machines : TunnelEnds(m)
  BY <1>3 DEF TunnelEnds, Grows
<1>4. CASE MonitorStep
  <2>1. ASSUME NEW b \in mon.ids, CreateBuildCached(b) PROVE Grows
    <3>1. {b} \in SUBSET Builds
      BY <1>a DEF TypeOK
    <3> QED BY <1>a, <2>1, <3>1, MarkedStays DEF CreateBuildCached, Grows
  <2>2. CASE ~ \E b \in mon.ids : CreateBuildCached(b)
    BY <1>4, <2>2 DEF MonitorStep, ReadNotification, GetQueuedBuilds, NewBuildsProcessed,
       ProcessQueueChange, ProcessQueueChangeError, CreateBuildExisting, CreateBuildNew, Grows
  <2> QED BY <2>1, <2>2
<1>5. CASE DispatchStep
  BY <1>5 DEF DispatchStep, DispatchWake, InsertNewJobs, ProcessSkip, ProcessJob, RealiseError,
     RealiseCachedFailure, CachedFailureDone, BuildDrv, AddJobToScheduled, ProcessRemoveJob,
     AbortUnsupported, DispatchDone, AbortSkip, AbortStep, AbortRemoveJob, Grows
<1>6. CASE UNCHANGED vars
  BY <1>6 DEF vars, Grows
<1> QED BY <1>1, <1>2, <1>3, <1>4, <1>5, <1>6 DEF Next

-----------------------------------------------------------------------------
(* Tasks. *)

(* A task that begins with calls to make: its success is a builder's. *)
LEMMA IdleOk ==
    ASSUME NEW todo, NEW res, NEW bt, NEW rows, res = "Success" => todo \subseteq bt
    PROVE  RecordOk(IdleTask(todo, res), bt, rows)
BY DEF IdleTask, RecordOk

(* One that does nothing knows nothing. *)
LEMMA NoTaskOk == ASSUME NEW bt, NEW rows PROVE RecordOk(NoTask, bt, rows)
BY IdleOk DEF NoTask

(* One record of task changes, the others stay. *)
LEMMA OneRecord ==
    ASSUME TypeOK, Grows, TasksInformed, NEW t \in TaskIds, NEW r,
           task' = [task EXCEPT ![t] = r], RecordOk(r, built', db')
    PROVE  TasksInformed'
<1>1. ASSUME NEW u \in TaskIds, u # t PROVE RecordOk(task'[u], built', db')
  <2>1. task'[u] = task[u] /\ task[u].ids \subseteq Builds
    BY <1>1 DEF TypeOK, Task
  <2> QED BY <2>1, RecordStays DEF TasksInformed
<1>2. task'[t] = r
  BY DEF TypeOK
<1> QED BY <1>1, <1>2 DEF TasksInformed

(* A call returns. *)
LEMMA ReturnedOk ==
    ASSUME TypeOK, Grows, TasksInformed, NEW t \in TaskIds, NEW todo,
           todo \subseteq task[t].todo, task' = Returned(t, todo)
    PROVE  TasksInformed'
<1> DEFINE r == IF todo = {} THEN NoTask ELSE IdleTask(todo, task[t].res)
<1>1. task' = [task EXCEPT ![t] = r]
  BY DEF Returned, TypeOK
<1>2. task[t].res = "Success" => todo \subseteq built'
  BY DEF TasksInformed, RecordOk, Grows
<1>3. RecordOk(r, built', db')
  BY <1>2, IdleOk, NoTaskOk
<1> HIDE DEF r
<1> QED BY <1>1, <1>3, OneRecord

(* The builds that may be found for a step want its derivation. *)
LEMMA DependentsWant ==
    ASSUME IInv, BuildsPlaced, TasksInformed, NEW st \in Steps, NEW b \in Dependents(st)
    PROVE  b \in Builds /\ TopDrv[b] = DrvOf[st] /\ db[b] # "absent"
<1>1. NoStep # st
  BY NoValuesAssumption
<1>2. CASE toplevel[b] = st
  BY <1>1, <1>2 DEF Dependents, BuildsPlaced
<1>3. CASE \E u \in TaskIds : task[u].step = st /\ b \in task[u].ids \ task[u].ended
  <2>1. PICK u \in TaskIds : task[u].step = st /\ b \in task[u].ids
    BY <1>3
  <2> QED BY <1>1, <2>1 DEF TasksInformed, RecordOk, Dependents
<1> QED BY <1>2, <1>3 DEF Dependents

(* succeed_step, fail_step and inner_fail_job know what they write. *)
LEMMA TaskStepInformed ==
    ASSUME IInv, BuildsPlaced, TasksInformed, Grows, NEW t \in TaskIds, TaskStep(t)
    PROVE  TasksInformed'
<1>a. TypeOK /\ task[t] \in Task /\ task[t].todo \subseteq Drvs /\ task[t].ids \subseteq Builds
  BY DEF IInv, TypeOK, Task
<1>b. RecordOk(task[t], built, db)
  BY DEF TasksInformed
<1>c. RecordOk(task[t], built', db')
  BY <1>a, <1>b, RecordStays
<1>1. ASSUME NEW d \in task[t].todo, StepMissing(t, d) PROVE TasksInformed'
  BY <1>a, <1>1, ReturnedOk DEF StepMissing
<1>2. ASSUME NEW d \in task[t].todo, SucceedStep(t, d) \/ FailStep(t, d) PROVE TasksInformed'
  <2>1. DrvOf[stepOf[scheduled[d].info]] = d /\ stepOf[scheduled[d].info] # NoStep
    BY <1>a, <1>2, ScheduledStep, NoValuesAssumption DEF SucceedStep, FailStep
  <2>2. ASSUME NEW pc, task' = Holding(t, d, pc) PROVE TasksInformed'
    <3> DEFINE r == [task[t] EXCEPT !.pc = pc, !.drv = d, !.todo = task[t].todo \ {d},
                       !.info = scheduled[d].info, !.step = stepOf[scheduled[d].info]]
    <3>1. /\ r.drv = d /\ r.todo \subseteq task[t].todo /\ r.res = task[t].res
          /\ r.step = stepOf[scheduled[d].info] /\ r.ids = task[t].ids
      BY <1>a DEF Task
    <3>2. task' = [task EXCEPT ![t] = r]
      BY <2>2 DEF Holding
    <3>3. task[t].ids = {}
      BY <1>2, <1>b DEF SucceedStep, FailStep, Called, RecordOk
    <3> HIDE DEF r
    <3>4. RecordOk(r, built', db')
      BY <1>c, <2>1, <3>1, <3>3 DEF RecordOk
    <3> QED BY <1>a, <3>2, <3>4, OneRecord
  <2>3. \/ \E pc : task' = Holding(t, d, pc)
        \/ task' = Returned(t, task[t].todo \ {d})
    BY <1>2 DEF SucceedStep, FailStep
  <2> QED BY <1>a, <2>2, <2>3, ReturnedOk
<1>3. CASE FinishRetry(t) \/ NotifyFinished(t) \/ TaskDbError(t)
  BY <1>a, <1>3, ReturnedOk DEF FinishRetry, NotifyFinished, TaskDbError
<1>4. ASSUME NEW ids, NEW pc, ids \subseteq Dependents(task[t].step), pc # "idle",
             task[t].pc # "idle",
             task' = [task EXCEPT ![t] = [task[t] EXCEPT !.ids = ids, !.pc = pc]]
      PROVE  TasksInformed'
  <2> DEFINE r == [task[t] EXCEPT !.ids = ids, !.pc = pc]
  <2>1. /\ r.drv = task[t].drv /\ r.todo = task[t].todo /\ r.res = task[t].res
        /\ r.step = task[t].step /\ r.ids = ids /\ r.pc = pc
    BY <1>a DEF Task
  <2>2. task[t].step \in Steps /\ DrvOf[task[t].step] = task[t].drv
    BY <1>4, <1>a, <1>b DEF RecordOk, Task
  <2>3. \A b \in ids : b \in Builds /\ TopDrv[b] = task[t].drv /\ db[b] # "absent"
    BY <1>4, <2>2, DependentsWant
  <2>4. \A b \in ids : db'[b] # "absent"
    BY <2>3 DEF Grows
  <2> HIDE DEF r
  <2>5. RecordOk(r, built', db')
    BY <1>4, <1>c, <2>1, <2>3, <2>4 DEF RecordOk
  <2> QED BY <1>a, <1>4, <2>5, OneRecord DEF r
<1>5. CASE FinishBuildStep(t)
  <2>1. task[t].pc = "finish"
    BY <1>5 DEF FinishBuildStep
  <2>2. CASE task[t].res = "Success"
    <3>1. task' = [task EXCEPT ![t] = [task[t] EXCEPT !.ids = Dependents(task[t].step),
                                                      !.pc = "commit"]]
      BY <1>5, <1>a, <2>2 DEF FinishBuildStep, Task
    <3> QED BY <1>4, <2>1, <3>1
  <2>3. CASE task[t].res # "Success"
    <3> DEFINE r == [task[t] EXCEPT !.pc = "indirect"]
    <3>1. task' = [task EXCEPT ![t] = r]
      BY <1>5, <2>3 DEF FinishBuildStep
    <3>2. RecordOk(r, built', db')
      BY <1>a, <1>c, <2>1 DEF RecordOk, Task
    <3> HIDE DEF r
    <3> QED BY <1>a, <3>1, <3>2, OneRecord
  <2> QED BY <2>2, <2>3
<1>6. ASSUME NEW ids \in DependentSets(task[t].step), IndirectBuilds(t, ids) PROVE TasksInformed'
  <2>1. ids \subseteq Dependents(task[t].step)
    BY <1>6 DEF DependentSets
  <2>2. task[t].pc # "idle"
    BY <1>6 DEF IndirectBuilds
  <2>3. \E pc \in {"notify", "commit"} :
            task' = [task EXCEPT ![t] = [task[t] EXCEPT !.ids = ids, !.pc = pc]]
    BY <1>6 DEF IndirectBuilds
  <2> QED BY <1>4, <2>1, <2>2, <2>3
<1>7. CASE TaskRemoveJob(t)
  <2> DEFINE r == [task[t] EXCEPT !.pc = "finish"]
  <2>1. task' = [task EXCEPT ![t] = r] /\ task[t].pc = "remove_job"
    BY <1>7, <1>a DEF TaskRemoveJob, Task
  <2>2. RecordOk(r, built', db')
    BY <1>a, <1>c, <2>1 DEF RecordOk, Task
  <2> HIDE DEF r
  <2> QED BY <1>a, <2>1, <2>2, OneRecord
<1>8. CASE CommitBuilds(t)
  <2>1. ASSUME NEW u \in TaskIds PROVE RecordOk(task'[u], built', db')
    <3>1. task[u] \in Task /\ RecordOk(task[u], built', db')
      BY <1>a, RecordStays DEF TypeOK, Task, TasksInformed
    <3>2. CASE u = t
      <4>1. /\ task'[u].drv = task[u].drv /\ task'[u].todo = task[u].todo
            /\ task'[u].res = task[u].res /\ task'[u].step = task[u].step
            /\ task'[u].ids = {} /\ task[u].pc # "idle"
        BY <1>8, <3>1, <3>2 DEF CommitBuilds, Task
      <4> QED BY <3>1, <4>1 DEF RecordOk
    <3>3. CASE u # t
      <4>1. /\ task'[u].drv = task[u].drv /\ task'[u].todo = task[u].todo
            /\ task'[u].res = task[u].res /\ task'[u].step = task[u].step
            /\ task'[u].ids = task[u].ids /\ task'[u].pc = task[u].pc
        BY <1>8, <3>1, <3>3 DEF CommitBuilds, Task
      <4> QED BY <3>1, <4>1 DEF RecordOk
    <3> QED BY <3>2, <3>3
  <2> QED BY <2>1 DEF TasksInformed
<1> QED
  BY <1>1, <1>2, <1>3, <1>5, <1>6, <1>7, <1>8 DEF TaskStep

(* A task is left alone. *)
LEMMA SameTasks ==
    ASSUME TypeOK, Grows, TasksInformed, UNCHANGED task
    PROVE  TasksInformed'
<1>1. ASSUME NEW u \in TaskIds PROVE RecordOk(task'[u], built', db')
  <2>1. task[u].ids \subseteq Builds
    BY DEF TypeOK, Task
  <2> QED BY <2>1, RecordStays DEF TasksInformed
<1> QED BY <1>1 DEF TasksInformed

(* inner_fail_job on behalf of the dispatcher starts with the step alone. *)
LEMMA DispatcherFailsOk ==
    ASSUME TypeOK, Grows, TasksInformed, NEW st \in Steps, task' = DispatcherFails(st)
    PROVE  TasksInformed'
<1> DEFINE r == [NoTask EXCEPT !.pc = "indirect", !.drv = DrvOf[st], !.step = st,
                               !.res = "BuildFailure"]
<1>1. /\ r.pc = "indirect" /\ r.drv = DrvOf[st] /\ r.step = st /\ r.res = "BuildFailure"
      /\ r.ids = {}
  BY DEF NoTask, IdleTask
<1>2. task' = [task EXCEPT ![Dispatcher] = r] /\ Dispatcher \in TaskIds
  BY DEF DispatcherFails, TaskIds
<1> HIDE DEF r
<1>3. RecordOk(r, built', db')
  BY <1>1, NoValuesAssumption DEF RecordOk
<1> QED BY <1>2, <1>3, OneRecord

(* So the tasks stay informed. *)
LEMMA NextInformed ==
    ASSUME IInv, BuildsPlaced, TasksInformed, Grows, [Next]_vars
    PROVE  TasksInformed'
<1> USE DEF envVars, stepVars, queueVars, machVars
<1>a. TypeOK
  BY DEF IInv
<1>1. CASE Environment
  <2>1. ASSUME NEW m \in Machines, RemoveMachine(m) PROVE TasksInformed'
    <3>1. RecordOk(IdleTask({j.drv : j \in mjobs[m]}, "PreparingFailure"), built', db')
      BY IdleOk
    <3> QED BY <1>a, <2>1, <3>1, OneRecord DEF RemoveMachine, TaskIds
  <2>2. ASSUME NEW m \in Machines, NEW j \in builder[m],
               NEW res \in Results \ {"Cancelled"}, CompleteBuild(m, j, res)
        PROVE  TasksInformed'
    <3>1. CASE machine[m] = "up" /\ j \in mjobs[m]
      <4>1. j.uuid \in TaskIds
        BY <1>a DEF TypeOK, Job, TaskIds
      <4>2. res = "Success" => {j.drv} \subseteq built'
        BY <2>2 DEF CompleteBuild
      <4>3. RecordOk(IdleTask({j.drv}, res), built', db')
        BY <4>2, IdleOk
      <4> QED BY <1>a, <2>2, <3>1, <4>1, <4>3, OneRecord DEF CompleteBuild
    <3>2. CASE ~(machine[m] = "up" /\ j \in mjobs[m])
      BY <1>a, <2>2, <3>2, SameTasks DEF CompleteBuild
    <3> QED BY <3>1, <3>2
  <2>3. ASSUME UNCHANGED task PROVE TasksInformed'
    BY <1>a, <2>3, SameTasks
  <2> QED BY <1>1, <2>1, <2>2, <2>3 DEF Environment, BuilderStep, BuildAdded, BuildCancelled,
             RetryDelayOver, InsertMachine, BuilderAborts
<1>2. ASSUME NEW t \in TaskIds, TaskStep(t) PROVE TasksInformed'
  BY <1>2, TaskStepInformed
<1>3. CASE \E m \in Machines : TunnelEnds(m)
  BY <1>a, <1>3, SameTasks DEF TunnelEnds
<1>4. CASE MonitorStep
  <2>1. CASE ProcessQueueChange
    <3>1. PICK told : task' = [task EXCEPT ![Monitor] =
                            IF told = {} THEN NoTask ELSE IdleTask(told, "Cancelled")]
      BY <2>1 DEF ProcessQueueChange
    <3>2. RecordOk(IF told = {} THEN NoTask ELSE IdleTask(told, "Cancelled"), built', db')
      BY IdleOk, NoTaskOk
    <3> QED BY <1>a, <3>1, <3>2, OneRecord DEF TaskIds
  <2>2. ASSUME UNCHANGED task PROVE TasksInformed'
    BY <1>a, <2>2, SameTasks
  <2> QED BY <1>4, <2>1, <2>2 DEF MonitorStep, ReadNotification, GetQueuedBuilds,
             NewBuildsProcessed, ProcessQueueChangeError, CreateBuildExisting,
             CreateBuildCached, CreateBuildNew
<1>5. CASE DispatchStep
  <2>1. CASE RealiseCachedFailure
    <3>1. stepOf[disp.info] \in Steps
      BY <2>1, BusyStep DEF RealiseCachedFailure, Busy
    <3> QED BY <1>a, <2>1, <3>1, DispatcherFailsOk DEF RealiseCachedFailure
  <2>2. ASSUME NEW st \in disp.check, AbortStep(st) PROVE TasksInformed'
    <3>1. st \in Steps
      BY <1>a DEF TypeOK, Disp
    <3> QED BY <1>a, <2>2, <3>1, DispatcherFailsOk, SameTasks DEF AbortStep
  <2>3. ASSUME UNCHANGED task PROVE TasksInformed'
    BY <1>a, <2>3, SameTasks
  <2> QED BY <1>5, <2>1, <2>2, <2>3 DEF DispatchStep, DispatchWake, InsertNewJobs,
             ProcessSkip, ProcessJob, RealiseError, CachedFailureDone, BuildDrv,
             AddJobToScheduled, ProcessRemoveJob, AbortUnsupported, DispatchDone, AbortSkip,
             AbortRemoveJob
<1>6. CASE UNCHANGED vars
  BY <1>a, <1>6, SameTasks DEF vars
<1> QED BY <1>1, <1>2, <1>3, <1>4, <1>5, <1>6 DEF Next

-----------------------------------------------------------------------------
(* Builds. *)

(* A step that changes neither the builds nor the steps in memory. *)
LEMMA SameBuilds ==
    ASSUME TypeOK, Grows, BuildsPlaced, UNCHANGED <<toplevel, steps>>, mon'.ids \subseteq mon.ids
    PROVE  BuildsPlaced'
<1>1. mon.ids \subseteq Builds
  BY DEF TypeOK
<1> QED BY <1>1 DEF BuildsPlaced, Grows

(* Builds leave, a derivation is forgotten. *)
LEMMA FewerBuilds ==
    ASSUME TypeOK, Grows, BuildsPlaced, mon'.ids \subseteq mon.ids,
           \A b \in Builds : toplevel'[b] \in {toplevel[b], NoStep},
           \A d \in Drvs : steps'[d] \in {steps[d], NoStep}
    PROVE  BuildsPlaced'
<1>1. mon.ids \subseteq Builds
  BY DEF TypeOK
<1> QED BY <1>1 DEF BuildsPlaced, Grows

(* The builds in memory stay where they belong. *)
LEMMA NextPlaced ==
    ASSUME IInv, BuildsPlaced, Grows, [Next]_vars
    PROVE  BuildsPlaced'
<1> USE DEF envVars, stepVars, queueVars, machVars
<1>a. TypeOK
  BY DEF IInv
<1>0. ASSUME UNCHANGED <<toplevel, steps, mon>> PROVE BuildsPlaced'
  BY <1>a, <1>0, SameBuilds
<1>1. CASE Environment
  BY <1>0, <1>1 DEF Environment, BuilderStep, BuildAdded, BuildCancelled, RetryDelayOver,
     InsertMachine, RemoveMachine, BuilderAborts, CompleteBuild
<1>2. ASSUME NEW t \in TaskIds, TaskStep(t) PROVE BuildsPlaced'
  <2>1. ASSUME NEW ids, UNCHANGED <<toplevel, mon>>, steps' = StepsWithout(task[t].drv, ids)
        PROVE  BuildsPlaced'
    <3>1. \A d \in Drvs : steps'[d] \in {steps[d], NoStep}
      BY <1>a, <2>1 DEF StepsWithout, TypeOK
    <3> QED BY <1>a, <2>1, <3>1, FewerBuilds
  <2>2. CASE CommitBuilds(t)
    <3>1. \A b \in Builds : toplevel'[b] \in {toplevel[b], NoStep}
      BY <2>2 DEF CommitBuilds, BuildsWithout
    <3> QED BY <1>a, <2>2, <3>1, FewerBuilds DEF CommitBuilds
  <2>3. CASE FinishBuildStep(t)
    BY <1>0, <2>1, <2>3 DEF FinishBuildStep
  <2>4. ASSUME NEW ids, IndirectBuilds(t, ids) PROVE BuildsPlaced'
    BY <2>1, <2>4 DEF IndirectBuilds
  <2> QED BY <1>0, <1>2, <2>2, <2>3, <2>4 DEF TaskStep, StepMissing, SucceedStep, FailStep,
             FinishRetry, TaskRemoveJob, NotifyFinished, TaskDbError
<1>3. CASE \E m \in Machines : TunnelEnds(m)
  BY <1>0, <1>3 DEF TunnelEnds
<1>4. CASE MonitorStep
  <2>m. mon.ids \subseteq Builds /\ mon = [pc |-> mon.pc, ids |-> mon.ids]
    BY <1>a DEF TypeOK
  <2>1. ASSUME NEW n \in notes, ReadNotification(n) PROVE BuildsPlaced'
    <3>1. mon'.ids = mon.ids
      BY <2>m, <2>1 DEF ReadNotification
    <3> QED BY <1>a, <2>1, <3>1, SameBuilds DEF ReadNotification
  <2>2. CASE GetQueuedBuilds
    <3>1. \A b \in mon'.ids : db[b] = "queued"
      BY <2>2 DEF GetQueuedBuilds
    <3> QED BY <2>2, <3>1 DEF GetQueuedBuilds, BuildsPlaced
  <2>3. CASE NewBuildsProcessed \/ ProcessQueueChangeError
    <3>1. mon'.ids = mon.ids
      BY <2>m, <2>3 DEF NewBuildsProcessed, ProcessQueueChangeError
    <3> QED BY <1>a, <2>3, <3>1, SameBuilds DEF NewBuildsProcessed, ProcessQueueChangeError
  <2>4. CASE ProcessQueueChange
    <3>1. mon'.ids = mon.ids
      BY <2>m, <2>4 DEF ProcessQueueChange
    <3>2. \A b \in Builds : toplevel'[b] \in {toplevel[b], NoStep}
      BY <2>4 DEF ProcessQueueChange, BuildsWithout
    <3> QED BY <1>a, <2>4, <3>1, <3>2, FewerBuilds DEF ProcessQueueChange
  <2>5. ASSUME NEW b \in mon.ids, BuildCreated(b)
        PROVE  mon'.ids \subseteq mon.ids /\ b \in Builds /\ db[b] # "absent"
    BY <2>m, <2>5 DEF BuildCreated, BuildsPlaced
  <2>6. ASSUME NEW b \in mon.ids, CreateBuildExisting(b) PROVE BuildsPlaced'
    <3>1. /\ steps[TopDrv[b]] # NoStep /\ toplevel' = [toplevel EXCEPT ![b] = steps[TopDrv[b]]]
          /\ steps' = steps /\ db' = db
      BY <2>6 DEF CreateBuildExisting
    <3>2. DrvOf[steps[TopDrv[b]]] = TopDrv[b]
      BY <2>m, <3>1, ConstantsAssumption DEF BuildsPlaced
    <3>3. mon'.ids \subseteq mon.ids /\ b \in Builds /\ db[b] # "absent"
      BY <2>5, <2>6 DEF CreateBuildExisting
    <3> QED BY <1>a, <3>1, <3>2, <3>3 DEF BuildsPlaced, TypeOK
  <2>7. ASSUME NEW b \in mon.ids, NEW st \in Steps, CreateBuildNew(b, st) PROVE BuildsPlaced'
    <3>1. /\ steps' = [steps EXCEPT ![TopDrv[b]] = st] /\ DrvOf[st] = TopDrv[b]
          /\ toplevel' = [toplevel EXCEPT ![b] = st] /\ db' = db
      BY <2>7 DEF CreateBuildNew
    <3>2. mon'.ids \subseteq mon.ids /\ b \in Builds /\ db[b] # "absent"
      BY <2>5, <2>7 DEF CreateBuildNew
    <3> QED BY <1>a, <3>1, <3>2 DEF BuildsPlaced, TypeOK
  <2>8. ASSUME NEW b \in mon.ids, CreateBuildCached(b) PROVE BuildsPlaced'
    <3>1. mon'.ids \subseteq mon.ids
      BY <2>5, <2>8 DEF CreateBuildCached
    <3> QED BY <1>a, <2>8, <3>1, SameBuilds DEF CreateBuildCached
  <2> QED BY <1>4, <2>1, <2>2, <2>3, <2>4, <2>6, <2>7, <2>8 DEF MonitorStep
<1>5. CASE DispatchStep
  BY <1>0, <1>5 DEF DispatchStep, DispatchWake, InsertNewJobs, ProcessSkip, ProcessJob,
     RealiseError, RealiseCachedFailure, CachedFailureDone, BuildDrv, AddJobToScheduled,
     ProcessRemoveJob, AbortUnsupported, DispatchDone, AbortSkip, AbortStep, AbortRemoveJob
<1>6. CASE UNCHANGED vars
  BY <1>0, <1>6 DEF vars
<1> QED BY <1>1, <1>2, <1>3, <1>4, <1>5, <1>6 DEF Next

-----------------------------------------------------------------------------
(* The steps of Attempts. *)

(* What does not touch job lists, store and rows is no step of Attempts. *)
LEMMA Stutters ==
    ASSUME UNCHANGED <<mjobs, built, db>>
    PROVE  UNCHANGED A!vars
BY DEF A!vars, BuiltOn, HasJob

(* Machine::build_drv starts an attempt, on a machine that still has room. *)
LEMMA BuildDrvStarts ==
    ASSUME IInv, NEW u \in Uuids, BuildDrv(u)
    PROVE  A!Start(DrvOfInfo(disp.info), disp.machine)
           /\ DrvOfInfo(disp.info) \in Drvs /\ disp.machine \in Machines
<1> DEFINE m == disp.machine
           d == DrvOfInfo(disp.info)
           j == [drv |-> d, uuid |-> u]
<1>a. disp.pc = "realise" /\ Busy
  BY DEF BuildDrv, Busy
<1>b. m \in Machines /\ d \in Drvs
  BY <1>a, BusyStep
<1>c. scheduled[d] = NoItem /\ Cardinality(mjobs[m]) < MaxJobs
  BY <1>a DEF IInv, HeldJobStillDue
<1>d. mjobs \in [Machines -> SUBSET Job]
  BY DEF IInv, TypeOK
<1>e. mjobs' = [mjobs EXCEPT ![m] = mjobs[m] \cup {j}] /\ UNCHANGED <<db, built>>
  BY DEF BuildDrv
<1>f. j.drv = d
  OBVIOUS
<1> HIDE DEF j, d, m
<1>1. ASSUME NEW n \in Machines, NEW k \in mjobs[n] PROVE k.drv # d
  <2>1. NoItem.machine # n
    BY NoValuesAssumption DEF NoItem
  <2>2. scheduled[k.drv].machine = n
    BY <1>a, <1>1 DEF IInv, ScheduledMatchesJobs
  <2> QED BY <1>c, <2>1, <2>2
<1>2. BuiltOn[d] = {}
  BY <1>1, <1>b DEF BuiltOn, HasJob
<1>3. BuiltOn' = [BuiltOn EXCEPT ![d] = {m}]
  <2>1. ASSUME NEW e \in Drvs, NEW n \in Machines
        PROVE  HasJob(n, e)' <=> HasJob(n, e) \/ (n = m /\ e = d)
    BY <1>b, <1>d, <1>e, <1>f DEF HasJob
  <2>2. ASSUME NEW e \in Drvs, e # d
        PROVE  {n \in Machines : HasJob(n, e)'} = {n \in Machines : HasJob(n, e)}
    BY <2>1, <2>2
  <2>3. ASSUME NEW e \in Drvs, e = d PROVE {n \in Machines : HasJob(n, e)'} = {m}
    <3>1. \A n \in Machines : ~HasJob(n, e)
      BY <1>1, <2>3 DEF HasJob
    <3> QED BY <1>b, <2>1, <2>3, <3>1
  <2> QED BY <1>b, <2>2, <2>3 DEF BuiltOn
<1>4. Cardinality({e \in Drvs : m \in BuiltOn[e]}) < MaxJobs
  <2> DEFINE D == {e \in Drvs : m \in BuiltOn[e]}
             jobOf == [e \in D |-> CHOOSE k \in mjobs[m] : k.drv = e]
  <2>1. ASSUME NEW e \in D PROVE jobOf[e] \in mjobs[m] /\ jobOf[e].drv = e
    <3>1. e \in Drvs /\ m \in BuiltOn[e]
      BY <2>1
    <3>2. \E k \in mjobs[m] : k.drv = e
      BY <3>1 DEF BuiltOn, HasJob
    <3>3. jobOf[e] = CHOOSE k \in mjobs[m] : k.drv = e
      BY <2>1
    <3> QED BY <3>2, <3>3
  <2>2. jobOf \in Injection(D, mjobs[m])
    <3>1. jobOf = [e \in D |-> jobOf[e]]
      OBVIOUS
    <3> HIDE DEF jobOf, D
    <3>2. jobOf \in [D -> mjobs[m]]
      BY <2>1, <3>1
    <3>3. \A e1, e2 \in D : jobOf[e1] = jobOf[e2] => e1 = e2
      BY <2>1
    <3> QED BY <3>2, <3>3, Fun_IsInj
  <2>3. IsFiniteSet(mjobs[m])
    <3> DEFINE g == [k \in mjobs[m] |-> k.drv]
    <3>1. \A k1, k2 \in mjobs[m] : k1.drv = k2.drv => k1 = k2
      BY <1>b DEF IInv, OneJobPerDrv
    <3>2. g \in Injection(mjobs[m], Drvs)
      BY <1>b, <1>d, <3>1 DEF Injection, IsInjective, Job
    <3> QED BY <3>2, FiniteAssumption, FS_Injection
  <2>4. IsFiniteSet(D) /\ Cardinality(D) <= Cardinality(mjobs[m])
    <3> HIDE DEF jobOf, D
    <3> QED BY <2>2, <2>3, FS_Injection
  <2>5. Cardinality(D) \in Nat /\ Cardinality(mjobs[m]) \in Nat /\ MaxJobs \in Nat
    BY <2>3, <2>4, FS_CardinalityType, ConstantsAssumption
  <2> HIDE DEF D
  <2>6. Cardinality(D) < MaxJobs
    BY <1>c, <2>4, <2>5
  <2> QED BY <2>6 DEF D
<1>5. A!Start(d, m)
  BY <1>e, <1>2, <1>3, <1>4 DEF A!Start, A!Cardinality, Cardinality
<1> QED BY <1>b, <1>5 DEF d, m

(* succeed_step and fail_step end one. *)
LEMMA EndsJobStops ==
    ASSUME IInv, NEW d \in Drvs, EndsJob(d), UNCHANGED <<db, built>>
    PROVE  A!Stop(d)
<1> DEFINE m == scheduled[d].machine
<1>a. m \in Machines /\ HasJob(m, d)
  BY ScheduledStep DEF EndsJob, IInv, ScheduledMatchesJobs
<1>b. mjobs' = [mjobs EXCEPT ![m] = {j \in mjobs[m] : j.drv # d}]
  BY DEF EndsJob, MachineRemoveJob
<1>c. mjobs \in [Machines -> SUBSET Job]
  BY DEF IInv, TypeOK
<1> HIDE DEF m
<1>1. BuiltOn[d] # {}
  BY <1>a DEF BuiltOn
<1>2. ASSUME NEW n \in Machines PROVE ~HasJob(n, d)'
  <2>1. CASE n = m
    BY <1>a, <1>b, <1>c, <2>1 DEF HasJob
  <2>2. CASE n # m
    <3>1. ~HasJob(n, d)
      BY <1>a, <2>2 DEF HasJob, IInv, OneJobPerDrv
    <3> QED BY <1>b, <1>c, <2>2, <3>1 DEF HasJob
  <2> QED BY <2>1, <2>2
<1>3. ASSUME NEW e \in Drvs, e # d, NEW n \in Machines PROVE HasJob(n, e)' <=> HasJob(n, e)
  BY <1>b, <1>c, <1>3 DEF HasJob
<1>4. BuiltOn' = [BuiltOn EXCEPT ![d] = {}]
  <2>1. {n \in Machines : HasJob(n, d)'} = {}
    BY <1>2
  <2>2. ASSUME NEW e \in Drvs, e # d
        PROVE  {n \in Machines : HasJob(n, e)'} = {n \in Machines : HasJob(n, e)}
    BY <1>3, <2>2
  <2> QED BY <2>1, <2>2 DEF BuiltOn
<1> QED BY <1>1, <1>4 DEF A!Stop

(* A transaction that ends builds that want d writes what Attempts allows. *)
LEMMA MarksEnd ==
    ASSUME TypeOK, NEW d \in Drvs, NEW ids \in SUBSET Builds,
           \A b \in ids : TopDrv[b] = d /\ db[b] # "absent",
           UNCHANGED <<mjobs, built>>,
           (d \in built /\ db' \in MarkSucceeded(ids)) \/ db' = MarkFailed(ids)
    PROVE  \E bs \in SUBSET Builds : A!Succeed(d, bs) \/ A!Fail(d, bs)
<1>a. UNCHANGED <<BuiltOn, built>>
  BY DEF BuiltOn, HasJob
<1>1. CASE d \in built /\ db' \in MarkSucceeded(ids)
  <2>1. PICK rows \in SUBSET ids : db' = Marked(rows, "succeeded")
    BY <1>1 DEF MarkSucceeded
  <2>2. A!Succeed(d, rows)
    BY <1>1, <1>a, <2>1 DEF A!Succeed, A!Ended, Marked
  <2> QED BY <2>1, <2>2
<1>2. CASE db' = MarkFailed(ids)
  <2>1. A!Fail(d, Queued(ids))
    BY <1>2, <1>a DEF A!Fail, A!Ended, MarkFailed, Marked, Queued
  <2> QED BY <2>1 DEF Queued
<1> QED BY <1>1, <1>2

(* Every step of the program is a step of Attempts or none. *)
LEMMA NextAttempts ==
    ASSUME IInv, BuildsPlaced, TasksInformed, [Next]_vars
    PROVE  [A!Next]_(A!vars)
<1> USE DEF envVars, stepVars, queueVars, machVars
<1>a. TypeOK
  BY DEF IInv
<1>0. ASSUME UNCHANGED <<mjobs, built, db>> PROVE [A!Next]_(A!vars)
  BY <1>0, Stutters
<1>1. CASE Environment
  <2>1. ASSUME NEW b \in Builds, BuildAdded(b) \/ BuildCancelled(b) PROVE A!Next
    <3>1. UNCHANGED <<BuiltOn, built>>
      BY <2>1 DEF BuildAdded, BuildCancelled, BuiltOn, HasJob
    <3>2. A!Add(b) \/ A!Cancel(b)
      BY <2>1, <3>1 DEF BuildAdded, BuildCancelled, A!Add, A!Cancel
    <3> QED BY <3>2 DEF A!Next
  <2>2. ASSUME NEW m \in Machines, NEW j \in builder[m],
               NEW res \in Results \ {"Cancelled"}, CompleteBuild(m, j, res)
        PROVE  [A!Next]_(A!vars)
    <3>1. UNCHANGED <<BuiltOn, db>>
      BY <2>2 DEF CompleteBuild, BuiltOn, HasJob
    <3>2. CASE res = "Success"
      <4>1. A!Store(j.drv) /\ j.drv \in Drvs
        BY <1>a, <2>2, <3>1, <3>2 DEF CompleteBuild, A!Store, TypeOK, Job
      <4> QED BY <4>1 DEF A!Next
    <3>3. CASE res # "Success"
      BY <1>0, <2>2, <3>3 DEF CompleteBuild
    <3> QED BY <3>2, <3>3
  <2> QED BY <1>0, <1>1, <2>1, <2>2 DEF Environment, BuilderStep, RetryDelayOver,
             InsertMachine, RemoveMachine, BuilderAborts
<1>2. ASSUME NEW t \in TaskIds, TaskStep(t) PROVE [A!Next]_(A!vars)
  <2>1. ASSUME NEW d \in task[t].todo, SucceedStep(t, d) \/ FailStep(t, d)
        PROVE  A!Next
    <3>1. d \in Drvs
      BY <1>a DEF TypeOK, Task
    <3>2. EndsJob(d) /\ UNCHANGED <<db, built>>
      BY <2>1, <3>1, EndsJobSteps DEF SucceedStep, FailStep
    <3>3. A!Stop(d)
      BY <3>1, <3>2, EndsJobStops
    <3> QED BY <3>1, <3>3 DEF A!Next
  <2>2. CASE CommitBuilds(t)
    <3> DEFINE open == task[t].ids \ task[t].ended
    <3>1. task[t] \in Task /\ RecordOk(task[t], built, db)
      BY <1>a DEF TypeOK, TasksInformed
    <3>2. /\ db' \in IF task[t].res = "Success" THEN MarkSucceeded(open) ELSE {MarkFailed(open)}
          /\ UNCHANGED <<mjobs, built>> /\ task[t].pc # "idle"
      BY <2>2 DEF CommitBuilds
    <3>3. task[t].drv \in Drvs /\ task[t].drv # NoDrv
      BY <3>1, <3>2, ConstantsAssumption, NoValuesAssumption DEF RecordOk, Task
    <3>4. open \in SUBSET Builds /\ \A b \in open : TopDrv[b] = task[t].drv /\ db[b] # "absent"
      BY <3>1 DEF RecordOk, Task
    <3>5. \/ task[t].drv \in built /\ db' \in MarkSucceeded(open)
          \/ db' = MarkFailed(open)
      BY <3>1, <3>2, <3>3 DEF RecordOk
    <3> HIDE DEF open
    <3>6. \E bs \in SUBSET Builds : A!Succeed(task[t].drv, bs) \/ A!Fail(task[t].drv, bs)
      BY <1>a, <3>2, <3>3, <3>4, <3>5, MarksEnd
    <3> QED BY <3>3, <3>6 DEF A!Next
  <2> QED BY <1>0, <1>2, <2>1, <2>2 DEF TaskStep, StepMissing, FinishRetry, TaskRemoveJob,
             FinishBuildStep, IndirectBuilds, NotifyFinished, TaskDbError
<1>3. CASE \E m \in Machines : TunnelEnds(m)
  BY <1>0, <1>3 DEF TunnelEnds
<1>4. CASE MonitorStep
  <2>1. ASSUME NEW b \in mon.ids, CreateBuildCached(b) PROVE [A!Next]_(A!vars)
    <3>1. b \in Builds /\ db[b] # "absent" /\ TopDrv[b] \in Drvs /\ UNCHANGED <<mjobs, built>>
      BY <1>a, <2>1, ConstantsAssumption DEF TypeOK, BuildsPlaced, CreateBuildCached
    <3>2. CASE db' = db
      BY <1>0, <3>1, <3>2
    <3>3. CASE \/ TopDrv[b] \in built /\ db' \in MarkSucceeded({b})
               \/ db' = MarkFailed({b})
      <4>1. \E bs \in SUBSET Builds : A!Succeed(TopDrv[b], bs) \/ A!Fail(TopDrv[b], bs)
        BY <1>a, <3>1, <3>3, MarksEnd
      <4> QED BY <3>1, <4>1 DEF A!Next
    <3> QED BY <2>1, <3>2, <3>3 DEF CreateBuildCached
  <2> QED BY <1>0, <1>4, <2>1 DEF MonitorStep, ReadNotification, GetQueuedBuilds,
             NewBuildsProcessed, ProcessQueueChange, ProcessQueueChangeError,
             CreateBuildExisting, CreateBuildNew
<1>5. CASE DispatchStep
  <2>1. ASSUME NEW u \in Uuids, BuildDrv(u) PROVE A!Next
    BY <2>1, BuildDrvStarts DEF A!Next
  <2> QED BY <1>0, <1>5, <2>1 DEF DispatchStep, DispatchWake, InsertNewJobs, ProcessSkip,
             ProcessJob, RealiseError, RealiseCachedFailure, CachedFailureDone,
             AddJobToScheduled, ProcessRemoveJob, AbortUnsupported, DispatchDone, AbortSkip,
             AbortStep, AbortRemoveJob
<1>6. CASE UNCHANGED vars
  BY <1>0, <1>6 DEF vars
<1> QED BY <1>1, <1>2, <1>3, <1>4, <1>5, <1>6 DEF Next

-----------------------------------------------------------------------------
(* What a task knows of its builds, and where builds and steps belong, is  *)
(* true in every state: a success that is written was reported.            *)
THEOREM TasksKnow == Spec => [](BuildsPlaced /\ TasksInformed)
<1>1. Init => BuildsPlaced /\ TasksInformed
  <2> SUFFICES ASSUME Init PROVE BuildsPlaced /\ TasksInformed
    OBVIOUS
  <2>1. BuildsPlaced
    BY DEF Init, BuildsPlaced
  <2>2. TasksInformed
    BY NoTaskOk DEF Init, TasksInformed
  <2> QED BY <2>1, <2>2
<1>2. IInv /\ BuildsPlaced /\ TasksInformed /\ [Next]_vars => (BuildsPlaced /\ TasksInformed)'
  BY NextGrows, NextInformed, NextPlaced
<1> QED BY <1>1, <1>2, Invariant, PTL DEF Spec

(* The dispatcher, the tasks that end steps, the tunnels and the queue      *)
(* monitor together implement Attempts: one machine at a time for a         *)
(* derivation, never beyond a machine's capacity, no success without        *)
(* outputs in the store, no failure of a build that has ended.              *)
THEOREM Refinement == Spec => ImplementsAttempts
<1>1. Init => A!Init
  <2> SUFFICES ASSUME Init PROVE A!Init
    OBVIOUS
  <2>1. BuiltOn = [d \in Drvs |-> {}]
    BY DEF Init, BuiltOn, HasJob
  <2> QED BY <2>1 DEF Init, A!Init
<1>2. IInv /\ BuildsPlaced /\ TasksInformed /\ [Next]_vars => [A!Next]_(A!vars)
  BY NextAttempts
<1> QED BY <1>1, <1>2, Invariant, TasksKnow, PTL DEF Spec, ImplementsAttempts, A!Spec
=============================================================================
