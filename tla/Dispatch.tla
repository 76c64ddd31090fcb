------------------------------ MODULE Dispatch ------------------------------
(***************************************************************************)
(* How the queue runner hands runnable steps to machines and takes their   *)
(* results back: the dispatcher (State::do_dispatch_once, Queues::process, *)
(* State::realise_drv_on_valid_machine, State::abort_unsupported), the     *)
(* tasks that end a step (State::succeed_step, State::fail_step,           *)
(* State::inner_fail_job), the tunnel of each builder                      *)
(* (State::insert_machine, State::remove_machine) and the queue monitor    *)
(* (State::get_queued_builds, State::process_queue_change), all of them    *)
(* tokio tasks over the same maps.                                         *)
(*                                                                         *)
(* One action is the code a task runs between two awaits.  A StepInfo and  *)
(* a Step are reference counted: an identifier is taken from a pool and    *)
(* may be taken again once nothing refers to it any more.  All steps are   *)
(* leaves of one system type and top-level steps of their builds; the      *)
(* dependency graph is the subject of StepGraph.                           *)
(***************************************************************************)
EXTENDS Naturals, Integers, FiniteSets

CONSTANTS
    Drvs,        \* store paths of derivations
    Steps,       \* identities of Step objects
    Infos,       \* identities of StepInfo objects
    Machines,    \* connections of builders: a builder that rejoins is a new one
    Builds,      \* build ids
    Uuids,       \* internal_build_id of an attempt
    Monitor, Dispatcher,             \* the two loops that also run fail_step
    NoStep, NoInfo, NoMachine, NoDrv,
    DrvOf,       \* Step -> its derivation
    TopDrv,      \* build -> the derivation it wants
    Supports,    \* machine -> derivations it can build
    FailedPaths, \* derivations the failedpaths table may name when it is asked
    MaxRetries,  \* max_retries of the configuration
    MaxJobs,     \* max_jobs of a machine
    AtStart,     \* builds that are queued when the queue runner starts
    MayCancel,   \* builds somebody may cancel
    MayLeave,    \* machines whose connection may break
    DbMayFail,   \* whether a database call may return an error
    StopEarly,   \* stop_queue_run_after is set
    HasTimer     \* dispatch_trigger_timer is set

ASSUME ConstantsAssumption ==
    /\ DrvOf \in [Steps -> Drvs]
    /\ TopDrv \in [Builds -> Drvs]
    /\ Supports \in [Machines -> SUBSET Drvs]
    /\ FailedPaths \subseteq Drvs
    /\ AtStart \subseteq Builds
    /\ MayCancel \subseteq Builds
    /\ MayLeave \subseteq Machines
    /\ MaxRetries \in Nat \ {0}
    /\ MaxJobs \in Nat
    /\ {DbMayFail, StopEarly, HasTimer} \subseteq BOOLEAN

ASSUME NoValuesAssumption ==
    /\ NoStep \notin Steps
    /\ NoInfo \notin Infos
    /\ NoMachine \notin Machines
    /\ NoDrv \notin Drvs

ASSUME FiniteAssumption == IsFiniteSet(Drvs)

VARIABLES
    \* ---- environment
    db,        \* build -> state of its row in the builds table
    notes,     \* notifications of the database the queue monitor has not read
    built,     \* derivations whose outputs are in the local store
    builder,   \* machine -> jobs its builder works on
    \* ---- state.builds, state.steps
    toplevel,  \* build -> the Step its live Build object holds, or NoStep
    steps,     \* drv -> the Step the weak map names, or NoStep
    finished, tries, after,                  \* fields of a Step
    \* ---- state.queues
    jobs,      \* drv -> the StepInfo that InnerQueues.jobs owns, or NoInfo
    queue,     \* BuildQueue.jobs: weak pointers to StepInfos
    scheduled, \* drv -> item of InnerQueues.scheduled
    active,    \* BuildQueue.active_runnable
    stepOf, already_scheduled, cancelled,    \* fields of a StepInfo
    \* ---- state.machines
    machine,   \* machine -> "absent", "up", "leaving" or "gone"
    mjobs,     \* machine -> its jobs
    \* ---- tasks
    notified,  \* the permit of notify_dispatch
    disp,      \* locals of the dispatch loop
    mon,       \* locals of the queue monitor loop
    task       \* locals of each running succeed_step / fail_step

envVars   == <<db, notes, built, builder>>
stepVars  == <<toplevel, steps, finished, tries, after>>
queueVars == <<jobs, queue, scheduled, active, stepOf, already_scheduled, cancelled>>
machVars  == <<machine, mjobs>>
vars == <<envVars, stepVars, queueVars, machVars, notified, disp, mon, task>>

TaskIds == Uuids \cup Machines \cup {Monitor, Dispatcher}
Results == {"Success", "BuildFailure", "PreparingFailure", "Cancelled"}
Job     == [drv: Drvs, uuid: Uuids]
Item    == [info: Infos \cup {NoInfo}, machine: Machines \cup {NoMachine}]
NoItem  == [info |-> NoInfo, machine |-> NoMachine]

DispPc == {"idle", "insert", "process", "realise", "cached_failure",
           "add_scheduled", "remove_job", "abort"}
Disp == [pc: DispPc, runnable: SUBSET Steps, todo: SUBSET Infos, info: Infos \cup {NoInfo},
         machine: Machines \cup {NoMachine}, check: SUBSET Steps, aborted: SUBSET Steps]

TaskPc == {"idle", "finish_retry", "remove_job", "finish", "indirect", "commit", "notify"}
Task == [pc: TaskPc, drv: Drvs \cup {NoDrv}, res: Results, info: Infos \cup {NoInfo},
         step: Steps \cup {NoStep}, ids: SUBSET Builds, ended: SUBSET Builds,
         looped: BOOLEAN, todo: SUBSET Drvs]

(* A task that has nothing left but the calls with res it still has to make; *)
(* it waits for the lock of queues to make the next one.                     *)
IdleTask(todo, res) ==
    [pc |-> "idle", drv |-> NoDrv, res |-> res, info |-> NoInfo, step |-> NoStep,
     ids |-> {}, ended |-> {}, looped |-> FALSE, todo |-> todo]
NoTask == IdleTask({}, "Success")

-----------------------------------------------------------------------------
(* Reference counts. *)

(* The StepInfos that something owns when InnerQueues.jobs is js. *)
Owned(js) == {js[d] : d \in Drvs} \cup {scheduled[d].info : d \in Drvs}
             \cup {disp.info} \cup {task[t].info : t \in TaskIds}

Live(i) == i \in Owned(jobs)

(* Some task, Build or live StepInfo holds the Step. *)
Alive(st) ==
    \/ \E b \in Builds : toplevel[b] = st
    \/ \E i \in Infos : Live(i) /\ stepOf[i] = st
    \/ \E t \in TaskIds : task[t].step = st
    \/ st \in disp.runnable

DrvOfInfo(i) == DrvOf[stepOf[i]]

(* Steps::clone_runnable: the steps the weak map still reaches. *)
CloneRunnable == {st \in Steps : steps[DrvOf[st]] = st /\ Alive(st)}

(* The live builds that need the step and are not finished_in_db: those of *)
(* state.builds and those a task found and nobody has ended since.         *)
Dependents(st) ==
    {b \in Builds : \/ toplevel[b] = st
                    \/ \E t \in TaskIds : task[t].step = st /\ b \in task[t].ids \ task[t].ended}

(* The sets Step::get_dependents may collect: two builds of one derivation *)
(* are equal (Build::eq), so it keeps one of them.                         *)
DependentSets(st) ==
    IF Dependents(st) = {} THEN {{}} ELSE {{b} : b \in Dependents(st)}

(* BuildQueue::scrube_jobs, when InnerQueues.jobs has become js. *)
Scrubbed(js) == queue \cap Owned(js)

(* InnerQueues::remove_job_by_path and remove_job: the entry of the        *)
(* derivation goes, whichever StepInfo it owns.                            *)
WithoutJob(d) == [jobs EXCEPT ![d] = NoInfo]

(* trigger_dispatch.  With a timer the loop may wake up at any moment, and *)
(* the permit is not kept.                                                 *)
TriggerDispatch == notified' = ~HasTimer

TaskDone(t) == task[t].pc = "idle" /\ task[t].todo = {}
(* succeed_step or fail_step returns; its caller goes on with todo. *)
Returned(t, todo) ==
    [task EXCEPT ![t] = IF todo = {} THEN NoTask ELSE IdleTask(todo, @.res)]

-----------------------------------------------------------------------------
Init ==
    /\ db = [b \in Builds |-> IF b \in AtStart THEN "queued" ELSE "absent"]
    /\ notes = {}
    /\ built = {}
    /\ builder = [m \in Machines |-> {}]
    /\ toplevel = [b \in Builds |-> NoStep]
    /\ steps = [d \in Drvs |-> NoStep]
    /\ finished = [st \in Steps |-> FALSE]
    /\ tries = [st \in Steps |-> 0]
    /\ after = [st \in Steps |-> FALSE]
    /\ jobs = [d \in Drvs |-> NoInfo]
    /\ queue = {}
    /\ scheduled = [d \in Drvs |-> NoItem]
    /\ active = 0
    /\ stepOf = [i \in Infos |-> NoStep]
    /\ already_scheduled = [i \in Infos |-> FALSE]
    /\ cancelled = [i \in Infos |-> FALSE]
    /\ machine = [m \in Machines |-> "absent"]
    /\ mjobs = [m \in Machines |-> {}]
    /\ notified = FALSE
    /\ disp = [pc |-> "idle", runnable |-> {}, todo |-> {}, info |-> NoInfo,
               machine |-> NoMachine, check |-> {}, aborted |-> {}]
    /\ mon = [pc |-> "load", ids |-> {}]
    /\ task = [t \in TaskIds |-> NoTask]

-----------------------------------------------------------------------------
(* The environment: evaluator and web interface, clock, builders. *)

BuildAdded(b) ==
    /\ db[b] = "absent"
    /\ db' = [db EXCEPT ![b] = "queued"]
    /\ notes' = notes \cup {"builds_added"}
    /\ UNCHANGED <<built, builder, stepVars, queueVars, machVars, notified, disp, mon, task>>

BuildCancelled(b) ==
    /\ b \in MayCancel
    /\ db[b] = "queued"
    /\ db' = [db EXCEPT ![b] = "cancelled"]
    /\ notes' = notes \cup {"builds_cancelled"}
    /\ UNCHANGED <<built, builder, stepVars, queueVars, machVars, notified, disp, mon, task>>

(* The retry delay of a failed step is over. *)
RetryDelayOver(st) ==
    /\ after[st] /\ Alive(st)
    /\ after' = [after EXCEPT ![st] = FALSE]
    /\ UNCHANGED <<envVars, toplevel, steps, finished, tries, queueVars, machVars,
                   notified, disp, mon, task>>

(* RPC complete_build: the uuid is looked up among the jobs of a connected *)
(* machine; a result that is not found there is only logged.               *)
CompleteBuild(m, j, res) ==
    /\ j \in builder[m]
    /\ TaskDone(j.uuid)
    /\ builder' = [builder EXCEPT ![m] = @ \ {j}]
    /\ built' = IF res = "Success" THEN built \cup {j.drv} ELSE built
    /\ task' = IF machine[m] = "up" /\ j \in mjobs[m]
               THEN [task EXCEPT ![j.uuid] = IdleTask({j.drv}, res)]
               ELSE task
    /\ UNCHANGED <<db, notes, stepVars, queueVars, machVars, notified, disp, mon>>

(* The builder reads the AbortMessage of a job that the queue runner has   *)
(* failed by then: it stops the build and does not report.                 *)
BuilderAborts(m, j) ==
    /\ j \in builder[m] \ mjobs[m]
    /\ builder' = [builder EXCEPT ![m] = @ \ {j}]
    /\ UNCHANGED <<db, notes, built, stepVars, queueVars, machVars, notified, disp, mon, task>>

(* open_tunnel: Machines::insert_machine, then trigger_dispatch. *)
InsertMachine(m) ==
    /\ machine[m] = "absent"
    /\ machine' = [machine EXCEPT ![m] = "up"]
    /\ TriggerDispatch
    /\ UNCHANGED <<envVars, stepVars, queueVars, mjobs, disp, mon, task>>

(* The stream of the builder ended: the machine leaves the list and the    *)
(* jobs it has at that moment are to be failed one after the other.        *)
RemoveMachine(m) ==
    /\ m \in MayLeave
    /\ machine[m] = "up"
    /\ machine' = [machine EXCEPT ![m] = "leaving"]
    /\ builder' = [builder EXCEPT ![m] = {}]
    /\ task' = [task EXCEPT ![m] =
                    IdleTask({j.drv : j \in mjobs[m]}, "PreparingFailure")]
    /\ UNCHANGED <<db, notes, built, stepVars, queueVars, mjobs, notified, disp, mon>>

(* All of them were failed: the task ends and its end of the channel closes. *)
TunnelEnds(m) ==
    /\ machine[m] = "leaving"
    /\ TaskDone(m)
    /\ machine' = [machine EXCEPT ![m] = "gone"]
    /\ UNCHANGED <<envVars, stepVars, queueVars, mjobs, notified, disp, mon, task>>

-----------------------------------------------------------------------------
(* The tasks that end a step.  One that serves complete_build has a single *)
(* call to make, remove_machine and process_queue_change call fail_step    *)
(* for one derivation after the other.                                     *)

Called(t, d) == task[t].pc = "idle" /\ d \in task[t].todo

(* Mutant of RemoveJobFromScheduled: decr_active is forgotten. *)
RemoveJobWithoutDecrement(d) ==
    /\ scheduled' = [scheduled EXCEPT ![d] = NoItem]
    /\ already_scheduled' = [already_scheduled EXCEPT ![scheduled[d].info] = FALSE]
    /\ active' = active

(* Queues::remove_job_from_scheduled. *)
RemoveJobFromScheduled(d) ==
    /\ scheduled' = [scheduled EXCEPT ![d] = NoItem]
    /\ already_scheduled' = [already_scheduled EXCEPT ![scheduled[d].info] = FALSE]
    /\ active' = active - 1

(* Mutant of MachineRemoveJob: the list is not written back. *)
MachineKeepsJob(m, d) == mjobs' = mjobs

(* Machine::remove_job: every job of the derivation goes. *)
MachineRemoveJob(m, d) ==
    mjobs' = [mjobs EXCEPT ![m] = {j \in @ : j.drv # d}]

HasJob(m, d) == \E j \in mjobs[m] : j.drv = d

(* "Step is missing in queues.scheduled". *)
StepMissing(t, d) ==
    /\ Called(t, d)
    /\ scheduled[d] = NoItem
    /\ task' = Returned(t, task[t].todo \ {d})
    /\ UNCHANGED <<envVars, stepVars, queueVars, machVars, notified, disp, mon>>

(* The call for d goes on at pc; the task keeps the item it took from      *)
(* scheduled until it returns.                                             *)
Holding(t, d, pc) ==
    [task EXCEPT ![t] = [task[t] EXCEPT
        !.pc = pc, !.drv = d, !.todo = task[t].todo \ {d},
        !.info = scheduled[d].info, !.step = stepOf[scheduled[d].info]]]

(* succeed_step, up to the wait for the write lock of queues.remove_job, or *)
(* to the error that the job is missing in machine.jobs.                   *)
SucceedStep(t, d) ==
    LET it == scheduled[d]
    IN  /\ Called(t, d)
        /\ task[t].res = "Success"
        /\ it # NoItem
        /\ RemoveJobFromScheduled(d)
        /\ finished' = [finished EXCEPT ![stepOf[it.info]] = TRUE]
        /\ MachineRemoveJob(it.machine, d)
        /\ task' = IF HasJob(it.machine, d) THEN Holding(t, d, "remove_job")
                   ELSE Returned(t, task[t].todo \ {d})
        /\ UNCHANGED <<envVars, toplevel, steps, tries, after, jobs, queue, stepOf,
                       cancelled, machine, notified, disp, mon>>

CanRetry(res) == res # "BuildFailure"

(* The counter saturates: the code only asks tries > 0 and tries < max_retries. *)
IncTries(n) == IF n < MaxRetries THEN n + 1 ELSE n

(* fail_step, up to the first await after the job left the machine. *)
FailStep(t, d) ==
    LET it    == scheduled[d]
        st    == stepOf[it.info]
        retry == CanRetry(task[t].res)
        again == retry /\ IncTries(tries[st]) < MaxRetries
    IN  /\ Called(t, d)
        /\ task[t].res # "Success"
        /\ it # NoItem
        /\ RemoveJobFromScheduled(d)
        /\ finished' = [finished EXCEPT ![st] = FALSE]
        /\ MachineRemoveJob(it.machine, d)
        /\ IF HasJob(it.machine, d)
           THEN /\ tries' = [tries EXCEPT ![st] = IF retry THEN IncTries(@) ELSE @]
                /\ after' = [after EXCEPT ![st] = @ \/ again]
                /\ task' = Holding(t, d, IF again THEN "finish_retry" ELSE "remove_job")
           ELSE /\ task' = Returned(t, task[t].todo \ {d})
                /\ UNCHANGED <<tries, after>>
        /\ UNCHANGED <<envVars, toplevel, steps, jobs, queue, stepOf, cancelled,
                       machine, notified, disp, mon>>

(* finish_build_step of a step that is to be retried, then trigger_dispatch. *)
FinishRetry(t) ==
    /\ task[t].pc = "finish_retry"
    /\ TriggerDispatch
    /\ task' = Returned(t, task[t].todo)
    /\ UNCHANGED <<envVars, stepVars, queueVars, machVars, disp, mon>>

(* queues.remove_job; the weak pointer of the StepInfo the task still      *)
(* holds survives the scrub.                                               *)
TaskRemoveJob(t) ==
    /\ task[t].pc = "remove_job"
    /\ jobs' = WithoutJob(task[t].drv)
    /\ queue' = Scrubbed(jobs')
    /\ task' = [task EXCEPT ![t].pc = "finish"]
    /\ UNCHANGED <<envVars, stepVars, scheduled, active, stepOf, already_scheduled,
                   cancelled, machVars, notified, disp, mon>>

(* Steps::remove, called when no build is left. *)
StepsWithout(d, ids) == IF ids = {} THEN [steps EXCEPT ![d] = NoStep] ELSE steps

(* finish_build_step; succeed_step goes on to get_direct_builds, fail_step *)
(* to the loop of inner_fail_job.                                          *)
FinishBuildStep(t) ==
    LET ids == Dependents(task[t].step)
    IN  /\ task[t].pc = "finish"
        /\ IF task[t].res = "Success"
           THEN /\ steps' = StepsWithout(task[t].drv, ids)
                /\ task' = [task EXCEPT ![t] = [task[t] EXCEPT !.pc = "commit", !.ids = ids]]
           ELSE /\ task' = [task EXCEPT ![t].pc = "indirect"]
                /\ UNCHANGED steps
        /\ UNCHANGED <<envVars, toplevel, finished, tries, after, queueVars, machVars,
                       notified, disp, mon>>

(* get_all_indirect_builds at the head of the loop of inner_fail_job. *)
IndirectBuilds(t, ids) ==
    /\ task[t].pc = "indirect"
    /\ steps' = StepsWithout(task[t].drv, ids)
    /\ task' = [task EXCEPT ![t] = [task[t] EXCEPT
                    !.ids = ids,
                    !.pc = IF ids = {} /\ task[t].looped THEN "notify" ELSE "commit"]]
    /\ UNCHANGED <<envVars, toplevel, finished, tries, after, queueVars, machVars,
                   notified, disp, mon>>

(* Mutant of BuildsWithout: the builds stay in state.builds. *)
BuildsKept(ids) == toplevel

(* The builds a committed transaction took out of state.builds. *)
BuildsWithout(ids) == [b \in Builds |-> IF b \in ids THEN NoStep ELSE toplevel[b]]

Queued(ids) == {b \in ids : db[b] = "queued"}
Marked(rows, outcome) == [b \in Builds |-> IF b \in rows THEN outcome ELSE db[b]]

(* Transaction::mark_succeeded_build reads whether the row is finished and *)
(* then updates it without asking again: a row that is finished meanwhile  *)
(* may be overwritten.                                                     *)
MarkSucceeded(ids) ==
    {Marked(rows, "succeeded") : rows \in {r \in SUBSET ids : Queued(ids) \subseteq r}}

(* Mutant of MarkFailed: the condition is not in the update. *)
MarkFailedAnyway(ids) == Marked(ids, "failed")

(* Transaction::update_build_after_failure and                             *)
(* update_build_after_previous_failure have the condition in the update.   *)
MarkFailed(ids) == Marked(Queued(ids), "failed")

(* The transaction that ends the builds found, then set_finished_in_db and *)
(* remove_by_id; inner_fail_job looks for more builds afterwards.          *)
CommitBuilds(t) ==
    LET ok   == task[t].res = "Success"
        open == task[t].ids \ task[t].ended
    IN  /\ task[t].pc = "commit"
        /\ db' \in IF ok THEN MarkSucceeded(open) ELSE {MarkFailed(open)}
        /\ toplevel' = BuildsWithout(task[t].ids)
        /\ task' = [u \in TaskIds |->
                IF u = t
                THEN [task[t] EXCEPT !.ids = {}, !.ended = {}, !.looped = TRUE,
                                     !.pc = IF ok THEN "notify" ELSE "indirect"]
                ELSE [task[u] EXCEPT !.ended = @ \cup (task[u].ids \cap task[t].ids)]]
        /\ UNCHANGED <<notes, built, builder, steps, finished, tries, after, queueVars, machVars,
                       notified, disp, mon>>

(* notify_build_finished, then trigger_dispatch. *)
NotifyFinished(t) ==
    /\ task[t].pc = "notify"
    /\ TriggerDispatch
    /\ task' = Returned(t, task[t].todo)
    /\ UNCHANGED <<envVars, stepVars, queueVars, machVars, disp, mon>>

(* A database call of the task fails: `?` leaves the function at once.     *)
TaskDbError(t) ==
    /\ DbMayFail
    /\ task[t].pc \in {"finish_retry", "finish", "commit", "notify"}
    /\ task' = Returned(t, task[t].todo)
    /\ disp' = IF t = Dispatcher /\ disp.pc = "cached_failure"
               THEN [disp EXCEPT !.pc = "process", !.info = NoInfo, !.machine = NoMachine]
               ELSE disp
    /\ UNCHANGED <<envVars, stepVars, queueVars, machVars, notified, mon>>

-----------------------------------------------------------------------------
(* The queue monitor. *)

(* queue_monitor_loop reads a notification.  Any of them makes it load the *)
(* queue again, some call process_queue_change before.                     *)
ReadNotification(n) ==
    /\ mon.pc = "wait"
    /\ n \in notes
    /\ notes' = notes \ {n}
    /\ mon' = [mon EXCEPT !.pc = IF n = "builds_cancelled" THEN "change" ELSE "load"]
    /\ UNCHANGED <<db, built, builder, stepVars, queueVars, machVars, notified, disp, task>>

(* get_queued_builds: get_not_finished_builds. *)
GetQueuedBuilds ==
    /\ mon.pc = "load"
    /\ TaskDone(Monitor)
    /\ mon' = [pc |-> "create", ids |-> {b \in Builds : db[b] = "queued"}]
    /\ UNCHANGED <<envVars, stepVars, queueVars, machVars, notified, disp, task>>

(* Mutant of BuildCreated: the build stays among the new ones. *)
BuildCreatedAgain(b) == mon.pc = "create" /\ b \in mon.ids /\ mon' = mon

(* create_build of b is over; process_new_builds may then find that        *)
(* stop_queue_run_after is exceeded and leave the other builds.            *)
BuildCreated(b) ==
    /\ mon.pc = "create"
    /\ b \in mon.ids
    /\ \/ mon' = [mon EXCEPT !.ids = @ \ {b}]
       \/ StopEarly /\ mon' = [mon EXCEPT !.ids = {}]

(* The end of process_new_builds. *)
NewBuildsProcessed ==
    /\ mon = [pc |-> "create", ids |-> {}]
    /\ mon' = [mon EXCEPT !.pc = "wait"]
    /\ TriggerDispatch
    /\ UNCHANGED <<envVars, stepVars, queueVars, machVars, disp, task>>

(* create_build of a build whose step the steps map still reaches. *)
CreateBuildExisting(b) ==
    LET st == steps[TopDrv[b]]
    IN  /\ BuildCreated(b)
        /\ st # NoStep /\ Alive(st)
        /\ toplevel' = [toplevel EXCEPT ![b] = st]
        /\ UNCHANGED <<envVars, steps, finished, tries, after, queueVars, machVars,
                       notified, disp, task>>

NoSuchStep(d) == steps[d] = NoStep \/ ~Alive(steps[d])

(* create_build of a build that needs a new step. *)
CreateBuildNew(b, st) ==
    LET d == TopDrv[b]
    IN  /\ BuildCreated(b)
        /\ NoSuchStep(d)
        /\ d \notin built
        /\ DrvOf[st] = d /\ ~Alive(st)
        /\ steps' = [steps EXCEPT ![d] = st]
        /\ finished' = [finished EXCEPT ![st] = FALSE]
        /\ tries' = [tries EXCEPT ![st] = 0]
        /\ after' = [after EXCEPT ![st] = FALSE]
        /\ toplevel' = [toplevel EXCEPT ![b] = st]
        /\ UNCHANGED <<envVars, queueVars, machVars, notified, disp, task>>

(* create_build of a build whose new step is dropped again: its outputs    *)
(* are there (handle_cached_build), or one of them is a failed path        *)
(* (handle_previous_failure).                                              *)
CreateBuildCached(b) ==
    /\ BuildCreated(b)
    /\ NoSuchStep(TopDrv[b])
    /\ \/ TopDrv[b] \in built /\ db' \in MarkSucceeded({b})
       \/ TopDrv[b] \in FailedPaths /\ db' = MarkFailed({b})
       \/ TopDrv[b] \in built \cup FailedPaths /\ DbMayFail /\ db' = db
    /\ UNCHANGED <<notes, built, builder, stepVars, queueVars, machVars, notified, disp, task>>

(* process_queue_change: Builds::update_priorities drops the builds that   *)
(* the database no longer wants; of the scheduled steps that nobody needs  *)
(* any more InnerQueues::kill_active_steps marks all as cancelled and      *)
(* leaves those whose builder could be told to fail_step.                  *)
ProcessQueueChange ==
    LET live     == BuildsWithout({b \in Builds : db[b] # "queued"})
        unneeded == {d \in Drvs : /\ scheduled[d] # NoItem
                                  /\ ~cancelled[scheduled[d].info]
                                  /\ \A b \in Builds : live[b] # stepOf[scheduled[d].info]}
        told     == {d \in unneeded : /\ HasJob(scheduled[d].machine, d)
                                      /\ machine[scheduled[d].machine] # "gone"}
    IN  /\ mon.pc = "change"
        /\ mon' = [mon EXCEPT !.pc = "load"]
        /\ toplevel' = live
        /\ cancelled' = [i \in Infos |-> \/ cancelled[i]
                                         \/ \E d \in unneeded : scheduled[d].info = i]
        /\ task' = [task EXCEPT ![Monitor] =
                        IF told = {} THEN NoTask ELSE IdleTask(told, "Cancelled")]
        /\ UNCHANGED <<envVars, steps, finished, tries, after, jobs, queue, scheduled,
                       active, stepOf, already_scheduled, machVars, notified, disp>>

(* process_queue_change cannot ask the database. *)
ProcessQueueChangeError ==
    /\ mon.pc = "change"
    /\ DbMayFail
    /\ mon' = [mon EXCEPT !.pc = "load"]
    /\ UNCHANGED <<envVars, stepVars, queueVars, machVars, notified, disp, task>>

-----------------------------------------------------------------------------
(* The dispatcher: do_dispatch_once. *)

(* The loop wakes up; clone_runnable, less the steps that were tried before. *)
DispatchWake ==
    /\ disp.pc = "idle"
    /\ notified \/ HasTimer
    /\ notified' = FALSE
    /\ disp' = [disp EXCEPT !.pc = "insert",
                            !.runnable = {st \in CloneRunnable : tries[st] = 0}]
    /\ UNCHANGED <<envVars, stepVars, queueVars, machVars, mon, task>>

(* The steps InnerQueues::insert_new_jobs accepts. *)
NewJobs == {st \in disp.runnable : jobs[DrvOf[st]] = NoInfo /\ ~finished[st]}

(* BuildQueue::insert_new_jobs: "this ensures we only ever have each step once". *)
InQueue(d) == \E k \in queue : Live(k) /\ DrvOfInfo(k) = d

FreeInfos == {i \in Infos : ~Live(i) /\ i \notin queue}

(* InnerQueues::insert_new_jobs makes jobs own a new StepInfo for each of  *)
(* them and passes weak pointers on to the queue of the system, which is   *)
(* scrubbed.  Queues::process then takes a copy of the queue.              *)
InsertNewJobs(f) ==
    LET StepFor(i) == CHOOSE st \in NewJobs : f[st] = i
        JobFor(d)  == CHOOSE st \in NewJobs : DrvOf[st] = d
        new        == {f[st] : st \in NewJobs}
    IN  /\ disp.pc = "insert"
        /\ \A st1, st2 \in NewJobs : f[st1] = f[st2] => st1 = st2
        /\ jobs' = [d \in Drvs |-> IF \E st \in NewJobs : DrvOf[st] = d
                                   THEN f[JobFor(d)] ELSE jobs[d]]
        /\ queue' = Owned(jobs') \cap
                (queue \cup {f[st] : st \in {n \in NewJobs : ~InQueue(DrvOf[n])}})
        /\ stepOf' = [i \in Infos |-> IF i \in new THEN StepFor(i) ELSE stepOf[i]]
        /\ already_scheduled' = [i \in Infos |-> already_scheduled[i] /\ i \notin new]
        /\ cancelled' = [i \in Infos |-> cancelled[i] /\ i \notin new]
        /\ disp' = [disp EXCEPT !.pc = "process", !.runnable = {}, !.todo = queue']
        /\ UNCHANGED <<envVars, stepVars, scheduled, active, machVars, notified, mon, task>>

(* Mutants of Schedulable: get_already_scheduled or get_finished not asked. *)
SchedulableTwice(i) == Live(i) /\ ~finished[stepOf[i]] /\ ~after[stepOf[i]]
SchedulableFinished(i) == Live(i) /\ ~already_scheduled[i] /\ ~after[stepOf[i]]

(* What Queues::process asks of a job before it looks for a machine. *)
Schedulable(i) ==
    /\ Live(i)
    /\ ~already_scheduled[i]
    /\ ~finished[stepOf[i]]
    /\ ~after[stepOf[i]]

(* Machine::has_capacity with MachineFreeFn::Static. *)
HasCapacity(m) == Cardinality(mjobs[m]) < MaxJobs

(* Machines::get_machine_for_system with a free_fn. *)
FreeMachine(m, d) == machine[m] = "up" /\ d \in Supports[m] /\ HasCapacity(m)

(* Mutant of ProcessSkip: the job is looked at again. *)
ProcessSkipAgain(i) ==
    /\ disp.pc = "process"
    /\ i \in disp.todo
    /\ UNCHANGED vars

(* The job is passed over, or waits: has_capacity may also refuse it for   *)
(* the pressure, the disk space or the rate of jobs on every machine.      *)
ProcessSkip(i) ==
    /\ disp.pc = "process"
    /\ i \in disp.todo
    /\ disp' = [disp EXCEPT !.todo = @ \ {i}]
    /\ UNCHANGED <<envVars, stepVars, queueVars, machVars, notified, mon, task>>

(* realise_drv_on_valid_machine up to its first await: a machine is        *)
(* chosen, and the job is dropped (MaybeCancelled) if no build needs it.   *)
ProcessJob(i, m) ==
    /\ disp.pc = "process"
    /\ i \in disp.todo
    /\ Schedulable(i)
    /\ FreeMachine(m, DrvOfInfo(i))
    /\ disp' = [disp EXCEPT !.todo = @ \ {i}, !.info = i, !.machine = m,
                    !.pc = IF Dependents(stepOf[i]) = {} THEN "remove_job" ELSE "realise"]
    /\ UNCHANGED <<envVars, stepVars, queueVars, machVars, notified, mon, task>>

(* The locals of the dispatcher when the job it was busy with is over. *)
NextJob == [disp EXCEPT !.pc = "process", !.info = NoInfo, !.machine = NoMachine]

(* A database call failed, or the channel of the machine is closed. *)
RealiseError ==
    /\ disp.pc = "realise"
    /\ DbMayFail \/ machine[disp.machine] = "gone"
    /\ disp' = NextJob
    /\ UNCHANGED <<envVars, stepVars, queueVars, machVars, notified, mon, task>>

(* inner_fail_job on behalf of the dispatcher, without a job on a machine. *)
DispatcherFails(st) ==
    [task EXCEPT ![Dispatcher] = [NoTask EXCEPT
        !.pc = "indirect", !.drv = DrvOf[st], !.step = st, !.res = "BuildFailure"]]

(* check_cached_failure found an output among the failed paths. *)
RealiseCachedFailure ==
    /\ disp.pc = "realise"
    /\ DrvOfInfo(disp.info) \in FailedPaths
    /\ task' = DispatcherFails(stepOf[disp.info])
    /\ disp' = [disp EXCEPT !.pc = "cached_failure"]
    /\ UNCHANGED <<envVars, stepVars, queueVars, machVars, notified, mon>>

CachedFailureDone ==
    /\ disp.pc = "cached_failure"
    /\ TaskDone(Dispatcher)
    /\ disp' = [disp EXCEPT !.pc = "remove_job"]
    /\ UNCHANGED <<envVars, stepVars, queueVars, machVars, notified, mon, task>>

UnusedUuid(u) ==
    /\ task[u].pc = "idle"
    /\ \A m \in Machines : \A j \in mjobs[m] \cup builder[m] : j.uuid # u

(* Machine::build_drv: the message is sent and the job recorded.  The      *)
(* channel of a machine that is leaving is open, but nobody reads it; a    *)
(* builder ignores the message if it is building the derivation already.   *)
BuildDrv(u) ==
    LET m == disp.machine
        d == DrvOfInfo(disp.info)
        j == [drv |-> d, uuid |-> u]
        accepted == machine[m] = "up" /\ \A k \in builder[m] : k.drv # d
    IN  /\ disp.pc = "realise"
        /\ machine[m] \in {"up", "leaving"}
        /\ UnusedUuid(u)
        /\ builder' = IF accepted THEN [builder EXCEPT ![m] = @ \cup {j}] ELSE builder
        /\ mjobs' = [mjobs EXCEPT ![m] = @ \cup {j}]
        /\ disp' = [disp EXCEPT !.pc = "add_scheduled"]
        /\ UNCHANGED <<db, notes, built, stepVars, queueVars, machine, notified, mon, task>>

(* Mutant of AddJobToScheduled: incr_active is forgotten. *)
AddJobWithoutIncrement ==
    /\ disp.pc = "add_scheduled"
    /\ scheduled' = [scheduled EXCEPT ![DrvOfInfo(disp.info)] =
                        [info |-> disp.info, machine |-> disp.machine]]
    /\ already_scheduled' = [already_scheduled EXCEPT ![disp.info] = TRUE]
    /\ active' = active
    /\ disp' = [disp EXCEPT !.pc = "process", !.info = NoInfo, !.machine = NoMachine]
    /\ UNCHANGED <<envVars, stepVars, jobs, queue, stepOf, cancelled, machVars, notified,
                   mon, task>>

(* Queues::add_job_to_scheduled. *)
AddJobToScheduled ==
    /\ disp.pc = "add_scheduled"
    /\ scheduled' = [scheduled EXCEPT ![DrvOfInfo(disp.info)] =
                        [info |-> disp.info, machine |-> disp.machine]]
    /\ already_scheduled' = [already_scheduled EXCEPT ![disp.info] = TRUE]
    /\ active' = active + 1
    /\ disp' = NextJob
    /\ UNCHANGED <<envVars, stepVars, jobs, queue, stepOf, cancelled, machVars, notified,
                   mon, task>>

(* MaybeCancelled and CachedFailure: queues.remove_job. *)
ProcessRemoveJob ==
    /\ disp.pc = "remove_job"
    /\ jobs' = WithoutJob(DrvOfInfo(disp.info))
    /\ queue' = Scrubbed(jobs')
    /\ disp' = NextJob
    /\ UNCHANGED <<envVars, stepVars, scheduled, active, stepOf, already_scheduled,
                   cancelled, machVars, notified, mon, task>>

(* Machines::support_step. *)
SupportStep(st) == \E m \in Machines : machine[m] = "up" /\ DrvOf[st] \in Supports[m]

(* abort_unsupported looks at every runnable step; a supported one is      *)
(* passed over at once.                                                    *)
AbortUnsupported ==
    /\ disp.pc = "process"
    /\ disp.todo = {}
    /\ disp' = [disp EXCEPT !.pc = "abort",
                            !.runnable = CloneRunnable,
                            !.check = {st \in CloneRunnable : ~SupportStep(st)}]
    /\ UNCHANGED <<envVars, stepVars, queueVars, machVars, notified, mon, task>>

(* The step is supported again, or was not unsupported for long enough. *)
AbortSkip(st) ==
    /\ disp.pc = "abort"
    /\ TaskDone(Dispatcher)
    /\ st \in disp.check
    /\ disp' = [disp EXCEPT !.check = @ \ {st}]
    /\ UNCHANGED <<envVars, stepVars, queueVars, machVars, notified, mon, task>>

(* max_unsupported_time is over: the builds that need the step fail. *)
AbortStep(st) ==
    /\ disp.pc = "abort"
    /\ TaskDone(Dispatcher)
    /\ st \in disp.check
    /\ ~SupportStep(st)
    /\ disp' = [disp EXCEPT !.check = @ \ {st}, !.aborted = @ \cup {st}]
    /\ task' = IF Dependents(st) = {} THEN task ELSE DispatcherFails(st)
    /\ UNCHANGED <<envVars, stepVars, queueVars, machVars, notified, mon>>

(* remove_job_by_path of an aborted step. *)
AbortRemoveJob(st) ==
    /\ disp.pc = "abort"
    /\ TaskDone(Dispatcher)
    /\ disp.check = {}
    /\ st \in disp.aborted
    /\ jobs' = WithoutJob(DrvOf[st])
    /\ disp' = [disp EXCEPT !.aborted = @ \ {st}]
    /\ UNCHANGED <<envVars, stepVars, queue, scheduled, active, stepOf, already_scheduled,
                   cancelled, machVars, notified, mon, task>>

(* remove_all_weak_pointer; the round is over. *)
DispatchDone ==
    /\ disp.pc = "abort"
    /\ TaskDone(Dispatcher)
    /\ disp.check = {} /\ disp.aborted = {}
    /\ queue' = Scrubbed(jobs)
    /\ disp' = [disp EXCEPT !.pc = "idle", !.runnable = {}]
    /\ UNCHANGED <<envVars, stepVars, jobs, scheduled, active, stepOf, already_scheduled,
                   cancelled, machVars, notified, mon, task>>

-----------------------------------------------------------------------------
BuilderStep(m) ==
    \E j \in builder[m] : \/ BuilderAborts(m, j)
                          \/ \E res \in Results \ {"Cancelled"} : CompleteBuild(m, j, res)

Environment ==
    \/ \E b \in Builds : BuildAdded(b) \/ BuildCancelled(b)
    \/ \E st \in Steps : RetryDelayOver(st)
    \/ \E m \in Machines : InsertMachine(m) \/ RemoveMachine(m)
    \/ \E m \in Machines : BuilderStep(m)

TaskStep(t) ==
    \/ \E d \in task[t].todo : StepMissing(t, d) \/ SucceedStep(t, d) \/ FailStep(t, d)
    \/ FinishRetry(t) \/ TaskRemoveJob(t) \/ FinishBuildStep(t)
    \/ \E ids \in DependentSets(task[t].step) : IndirectBuilds(t, ids)
    \/ CommitBuilds(t) \/ NotifyFinished(t) \/ TaskDbError(t)

MonitorStep ==
    \/ \E n \in notes : ReadNotification(n)
    \/ GetQueuedBuilds \/ NewBuildsProcessed
    \/ ProcessQueueChange \/ ProcessQueueChangeError
    \/ \E b \in mon.ids : \/ CreateBuildExisting(b)
                      \/ CreateBuildCached(b)
                      \/ \E st \in Steps : CreateBuildNew(b, st)

DispatchStep ==
    \/ DispatchWake
    \/ \E f \in [NewJobs -> FreeInfos] : InsertNewJobs(f)
    \/ \E i \in disp.todo : ProcessSkip(i) \/ \E m \in Machines : ProcessJob(i, m)
    \/ RealiseError \/ RealiseCachedFailure \/ CachedFailureDone
    \/ \E u \in Uuids : BuildDrv(u)
    \/ AddJobToScheduled \/ ProcessRemoveJob
    \/ AbortUnsupported \/ DispatchDone
    \/ \E st \in disp.check : AbortSkip(st) \/ AbortStep(st)
    \/ \E st \in disp.aborted : AbortRemoveJob(st)

Next ==
    \/ Environment
    \/ \E t \in TaskIds : TaskStep(t)
    \/ \E m \in Machines : TunnelEnds(m)
    \/ MonitorStep
    \/ DispatchStep

Spec == Init /\ [][Next]_vars

(* A tokio task that can run does run; a sleeping retry is over some day;  *)
(* a builder reports or gives up, as its builds have timeouts.             *)
Fairness ==
    /\ \A t \in TaskIds : WF_vars(TaskStep(t))
    /\ WF_vars(MonitorStep)
    /\ WF_vars(DispatchStep)
    /\ \A st \in Steps : WF_vars(RetryDelayOver(st))
    /\ \A m \in Machines : WF_vars(TunnelEnds(m)) /\ WF_vars(BuilderStep(m))

FairSpec == Spec /\ Fairness

-----------------------------------------------------------------------------
(* Properties. *)

(* Every variable has its type. *)
TypeOK ==
    /\ db \in [Builds -> {"absent", "queued", "succeeded", "failed", "cancelled"}]
    /\ notes \in SUBSET {"builds_added", "builds_cancelled"}
    /\ built \in SUBSET Drvs
    /\ builder \in [Machines -> SUBSET Job]
    /\ toplevel \in [Builds -> Steps \cup {NoStep}]
    /\ steps \in [Drvs -> Steps \cup {NoStep}]
    /\ finished \in [Steps -> BOOLEAN]
    /\ tries \in [Steps -> 0 .. MaxRetries]
    /\ after \in [Steps -> BOOLEAN]
    /\ jobs \in [Drvs -> Infos \cup {NoInfo}]
    /\ queue \in SUBSET Infos
    /\ scheduled \in [Drvs -> Item]
    /\ active \in Nat
    /\ stepOf \in [Infos -> Steps \cup {NoStep}]
    /\ already_scheduled \in [Infos -> BOOLEAN]
    /\ cancelled \in [Infos -> BOOLEAN]
    /\ machine \in [Machines -> {"absent", "up", "leaving", "gone"}]
    /\ mjobs \in [Machines -> SUBSET Job]
    /\ notified \in BOOLEAN
    /\ disp \in Disp
    /\ mon \in [pc: {"wait", "change", "load", "create"}, ids: SUBSET Builds]
    /\ task \in [TaskIds -> Task]

(* However dispatcher, results, cancellations and lost machines interleave, *)
(* a derivation is a job of at most one machine and under at most one uuid: *)
(* it is never being built twice as far as the machines' job lists go.      *)
OneJobPerDrv ==
    \A m, n \in Machines : \A j \in mjobs[m], k \in mjobs[n] :
        j.drv = k.drv => m = n /\ j = k

(* queues.scheduled and the machines' job lists tell the same story, except *)
(* between Machine::build_drv and add_job_to_scheduled: so fail_step and    *)
(* succeed_step never meet "Job is missing in machine.jobs".                *)
ScheduledMatchesJobs ==
    /\ \A d \in Drvs : scheduled[d] # NoItem => HasJob(scheduled[d].machine, d)
    /\ \A m \in Machines : \A j \in mjobs[m] :
           \/ scheduled[j.drv].machine = m
           \/ /\ disp.pc = "add_scheduled"
              /\ disp.machine = m
              /\ DrvOfInfo(disp.info) = j.drv

(* already_scheduled, the flag Queues::process trusts, is set exactly on    *)
(* the StepInfos in queues.scheduled, and active_runnable (a u64 that is    *)
(* decremented without a check) is their number, so it never wraps around.  *)
FlagMatchesScheduled ==
    /\ \A i \in Infos : Live(i) =>
           (already_scheduled[i] <=> \E d \in Drvs : scheduled[d].info = i)
    /\ active = Cardinality({d \in Drvs : scheduled[d] # NoItem})

(* A machine is never given more than max_jobs jobs, although its capacity  *)
(* is checked several awaits before the job is recorded.                    *)
CapacityRespected == \A m \in Machines : Cardinality(mjobs[m]) <= MaxJobs

(* "this ensures we only ever have each step once" (BuildQueue): no two     *)
(* live entries of the queue are for the same derivation.                   *)
QueueUnique ==
    \A i, k \in queue : Live(i) /\ Live(k) /\ DrvOfInfo(i) = DrvOfInfo(k) => i = k

(* A step that succeeded is not among the scheduled ones: its builder's     *)
(* result is never awaited again.                                           *)
ScheduledUnfinished ==
    \A d \in Drvs : scheduled[d] # NoItem => ~finished[stepOf[scheduled[d].info]]

(* Liveness: succeed_step and fail_step return, whatever builds attach to   *)
(* their step while inner_fail_job loops until it finds no more.            *)
TasksReturn == \A t \in TaskIds : task[t].pc # "idle" ~> task[t].pc = "idle"

(* Liveness: every round of do_dispatch_once ends.                          *)
RoundsEnd == disp.pc # "idle" ~> disp.pc = "idle"

(* Liveness: queue_monitor_loop gets back to its notifications.             *)
MonitorListens == mon.pc # "wait" ~> mon.pc = "wait"

(* A step that an unfinished build waits for. *)
Wanted(st) == steps[DrvOf[st]] = st /\ ~finished[st] /\ Dependents(st) # {}

(* realise_drv_on_valid_machine: "we retry this step (putting it back in    *)
(* the runnable queue)": a step that is wanted gets into jobs, again if     *)
(* need be.                                                                 *)
Requeued == \A st \in Steps : Wanted(st) ~> (jobs[DrvOf[st]] # NoInfo \/ ~Wanted(st))

-----------------------------------------------------------------------------
(* The inductive invariant. *)

(* The dispatcher holds a job it took from the queue. *)
Busy == disp.pc \in {"realise", "cached_failure", "add_scheduled", "remove_job"}

(* A StepInfo that something owns belongs to a step, and to the derivation *)
(* under which jobs and scheduled know it.                                 *)
InfosPlaced ==
    /\ \A i \in Infos : Live(i) => stepOf[i] \in Steps
    /\ \A d \in Drvs : jobs[d] # NoInfo => DrvOfInfo(jobs[d]) = d
    /\ \A d \in Drvs : scheduled[d] # NoItem =>
           /\ scheduled[d].info \in Infos
           /\ scheduled[d].machine \in Machines
           /\ DrvOfInfo(scheduled[d].info) = d

(* What is scheduled, or about to be, is still in the queue: this is what  *)
(* keeps BuildQueue::insert_new_jobs from queueing the derivation twice.   *)
HeldJobsQueued ==
    /\ \A d \in Drvs : scheduled[d] # NoItem => scheduled[d].info \in queue
    /\ \A i \in disp.todo : Live(i) => i \in queue
    /\ Busy => disp.info \in queue

(* While the dispatcher awaits the database the job it holds stays         *)
(* unscheduled and unfinished, and its machine keeps room for it.          *)
HeldJobStillDue ==
    /\ Busy => /\ disp.info \in Infos
               /\ disp.machine \in Machines
               /\ scheduled[DrvOfInfo(disp.info)] = NoItem
               /\ ~finished[stepOf[disp.info]]
    /\ disp.pc = "realise" => Cardinality(mjobs[disp.machine]) < MaxJobs
    /\ disp.pc = "add_scheduled" => HasJob(disp.machine, DrvOfInfo(disp.info))

IInv ==
    /\ TypeOK
    /\ InfosPlaced
    /\ HeldJobsQueued
    /\ HeldJobStillDue
    /\ OneJobPerDrv
    /\ ScheduledMatchesJobs
    /\ FlagMatchesScheduled
    /\ CapacityRespected
    /\ QueueUnique
    /\ ScheduledUnfinished

=============================================================================
