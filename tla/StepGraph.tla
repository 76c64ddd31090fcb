------------------------------ MODULE StepGraph ------------------------------
(***************************************************************************)
(* How the queue monitor turns builds into a graph of steps, while the     *)
(* tasks that end steps work on the same graph: State::process_new_builds, *)
(* create_build and create_step on one side, succeed_step, inner_fail_job  *)
(* and Step::make_rdeps_runnable on the other.                             *)
(*                                                                         *)
(* A call of create_step that makes a new Step is a frame of that Step; it *)
(* waits for the store and for the frames of its inputs, which run         *)
(* concurrently within the one task of the monitor.  Steps are reference   *)
(* counted: state.steps and rdeps are weak, deps and the toplevel of a     *)
(* Build are strong, and an identity may be taken again once nothing holds *)
(* it.  Machines and queues are the subject of Dispatch: here a step is    *)
(* queued, built, and its task then succeeds or fails.  A retry keeps the  *)
(* job in the queues, so it is part of being built.                        *)
(***************************************************************************)
EXTENDS Naturals, FiniteSets, Sequences

CONSTANTS
    Drvs, Steps, Builds,
    NoStep, NoBuild,
    DrvOf,         \* Step -> its derivation
    TopDrv,        \* build -> the derivation it wants
    InputDrvs,     \* derivation -> sequence of its input derivations
    AtStart,       \* builds queued when the queue runner starts
    MayCancel,     \* builds somebody may cancel
    Substitutable, \* derivations whose outputs a substituter may have
    FailedPaths,   \* derivations the failedpaths table names
    Unreadable,    \* derivations the garbage collector may have taken
    BuildsMayFail, \* whether building a step may fail
    DbMayFail,     \* whether a database call may return an error
    Preempted,     \* whether the monitor's thread may lose the processor
                   \* between reading a dependency's flags and add_dep
    StopEarly      \* stop_queue_run_after is set

ASSUME ConstantsAssumption ==
    /\ DrvOf \in [Steps -> Drvs]
    /\ TopDrv \in [Builds -> Drvs]
    /\ InputDrvs \in [Drvs -> Seq(Drvs)]
    /\ NoStep \notin Steps /\ NoBuild \notin Builds
    /\ AtStart \subseteq Builds /\ MayCancel \subseteq Builds
    /\ Substitutable \subseteq Drvs /\ FailedPaths \subseteq Drvs /\ Unreadable \subseteq Drvs
    /\ {BuildsMayFail, DbMayFail, Preempted, StopEarly} \subseteq BOOLEAN
    /\ IsFiniteSet(Steps)

VARIABLES
    db,        \* build -> state of its row in the builds table
    notes,     \* notifications the queue monitor has not read
    built,     \* derivations whose outputs are in the store
    steps,     \* drv -> the Step the weak map names, or NoStep
    finished, previous_failure, created, runnable,     \* Steps with this flag
    deps, rdeps,                                       \* StepState
    toplevel,  \* build -> toplevel of the Build in state.builds, or NoStep
    frame,     \* Step -> locals of the create_step that made it
    creating,  \* build -> locals of its create_build
    mon,       \* locals of process_new_builds
    task       \* Step -> its job and the task that ends it

flags     == <<finished, previous_failure, created, runnable>>
graph     == <<steps, flags, deps, rdeps>>
monitored == <<frame, creating, mon>>
vars      == <<db, notes, built, graph, toplevel, monitored, task>>

(* CreateStepResult, and the place of one that has not arrived. *)
Result == [kind: {"None", "Valid", "PreviousFailure", "Pending"}, step: Steps \cup {NoStep}]
None    == [kind |-> "None", step |-> NoStep]
Pending == [kind |-> "Pending", step |-> NoStep]
Valid(st) == [kind |-> "Valid", step |-> st]
PreviousFailure(st) == [kind |-> "PreviousFailure", step |-> st]

NoFrame    == [pc |-> "none", parent |-> NoStep, build |-> NoBuild, got |-> <<>>, next |-> 1]
NotCreating == [pc |-> "none", step |-> NoStep, res |-> Pending, new_steps |-> {},
                sub |-> {}, ended |-> FALSE]
NoTask == [pc |-> "none", ids |-> {}, fresh |-> {}, looped |-> FALSE]

-----------------------------------------------------------------------------
(* Reference counts and reachability. *)

Elements(s) == {s[i] : i \in DOMAIN s}

(* What S reaches along succ, S included: a set that has S but not x is    *)
(* left by some successor.                                                 *)
Reach(S, succ) ==
    {x \in Steps : \A T \in SUBSET (Steps \ {x}) :
        S \subseteq T => \E y \in T : ~(succ[y] \subseteq T)}

(* Steps that something other than a Step holds. *)
Held ==
    {st \in Steps :
        \/ frame[st].pc # "none" \/ task[st].pc # "none" \/ st \in mon.new_runnable
        \/ \E b \in Builds : st \in {toplevel[b], creating[b].res.step} \cup creating[b].new_steps
        \/ \E s \in Steps : \E i \in DOMAIN frame[s].got : st = frame[s].got[i].step}

Alive == Reach(Held, deps)

(* Step::get_direct_builds: the builds, old and being created, whose       *)
(* Step it is and that are not finished_in_db.                             *)
OldBuilds(st) == {b \in Builds : toplevel[b] = st}
NewBuilds(st) == {b \in Builds : creating[b].step = st /\ ~creating[b].ended}
DirectBuilds(st) == OldBuilds(st) \cup NewBuilds(st)

(* The steps Step::get_dependents visits. *)
Dependents(st) ==
    LET alive == Alive IN Reach({st}, [s \in Steps |-> rdeps[s] \cap alive])

(* The builds it may collect: builds of one derivation are equal.          *)
IndirectBuildSets(st) ==
    LET all == UNION {DirectBuilds(s) : s \in Dependents(st)}
    IN  {ids \in SUBSET all : \A b \in all : Cardinality({c \in ids : TopDrv[c] = TopDrv[b]}) = 1}

(* Mutant of MakeRdepsRunnable: a step is woken by its first input. *)
MakeRdepsRunnableEarly(F) ==
    LET woken == {p \in Alive : \E c \in F : p \in rdeps[c]}
    IN  /\ deps' = [p \in Steps |->
                {d \in deps[p] : ~\E c \in F : p \in rdeps[c] /\ DrvOf[c] = DrvOf[d]}]
        /\ runnable' = runnable \cup (woken \cap created)
        /\ rdeps' = rdeps

(* Mutant of MakeRdepsRunnable: the inputs are removed, nobody is woken. *)
MakeRdepsSilently(F) ==
    /\ deps' = [p \in Steps |->
            {d \in deps[p] : ~\E c \in F : p \in rdeps[c] /\ DrvOf[c] = DrvOf[d]}]
    /\ UNCHANGED <<runnable, rdeps>>

(* Step::make_rdeps_runnable for each step of F: what depends on it no     *)
(* longer waits for it, and is runnable if it waits for nothing else and   *)
(* is complete.                                                            *)
MakeRdepsRunnable(F) ==
    LET woken == {p \in Alive : \E c \in F : p \in rdeps[c]}
    IN  /\ deps' = [p \in Steps |->
                {d \in deps[p] : ~\E c \in F : p \in rdeps[c] /\ DrvOf[c] = DrvOf[d]}]
        /\ runnable' = runnable \cup {p \in woken \cap created : deps'[p] = {}}
        /\ rdeps' = [c \in Steps |-> IF c \in F THEN rdeps[c] \cap Alive ELSE rdeps[c]]

-----------------------------------------------------------------------------
Init ==
    /\ db = [b \in Builds |-> IF b \in AtStart THEN "queued" ELSE "absent"]
    /\ notes = {}
    /\ built = {}
    /\ steps = [d \in Drvs |-> NoStep]
    /\ finished = {} /\ previous_failure = {} /\ created = {} /\ runnable = {}
    /\ deps = [st \in Steps |-> {}]
    /\ rdeps = [st \in Steps |-> {}]
    /\ toplevel = [b \in Builds |-> NoStep]
    /\ frame = [st \in Steps |-> NoFrame]
    /\ creating = [b \in Builds |-> NotCreating]
    /\ mon = [pc |-> "load", ids |-> {}, top |-> NoBuild, new_runnable |-> {}, todo |-> {},
              finished_drvs |-> {}]
    /\ task = [st \in Steps |-> NoTask]

-----------------------------------------------------------------------------
(* Environment. *)

BuildAdded(b) ==
    /\ db[b] = "absent"
    /\ db' = [db EXCEPT ![b] = "queued"]
    /\ notes' = notes \cup {"builds_added"}
    /\ UNCHANGED <<built, graph, toplevel, monitored, task>>

BuildCancelled(b) ==
    /\ b \in MayCancel /\ db[b] = "queued"
    /\ db' = [db EXCEPT ![b] = "cancelled"]
    /\ notes' = notes \cup {"builds_cancelled"}
    /\ UNCHANGED <<built, graph, toplevel, monitored, task>>

-----------------------------------------------------------------------------
(* Steps::create for the derivations ds, on behalf of build or referrer.   *)

Existing(d) == steps[d] # NoStep /\ steps[d] \in Alive
Free(st)    == st \notin Alive /\ \A b \in Builds : creating[b].step # st
HasFree(d)  == \E st \in Steps : DrvOf[st] = d /\ Free(st)
StepFor(d)  == IF Existing(d) THEN steps[d]
               ELSE CHOOSE st \in Steps : DrvOf[st] = d /\ Free(st)
Fresh(ds)   == {StepFor(d) : d \in {x \in ds : ~Existing(x)}}

(* Mutant of CreateSteps: the referring step is not recorded. *)
CreateStepsUnreferred(ds, referrer) ==
    /\ \A d \in ds : Existing(d) \/ HasFree(d)
    /\ steps' = [d \in Drvs |-> IF d \in ds THEN StepFor(d) ELSE steps[d]]
    /\ finished' = finished \ Fresh(ds)
    /\ previous_failure' = previous_failure \ Fresh(ds)
    /\ created' = created \ Fresh(ds)
    /\ runnable' = runnable \ Fresh(ds)
    /\ deps' = [st \in Steps |-> IF st \in Fresh(ds) THEN {} ELSE deps[st]]
    /\ rdeps' = [st \in Steps |-> (IF st \in Fresh(ds) THEN {} ELSE rdeps[st]) \ Fresh(ds)]

CreateSteps(ds, referrer) ==
    LET fresh == Fresh(ds)
        called == {StepFor(d) : d \in ds}
    IN  /\ \A d \in ds : Existing(d) \/ HasFree(d)
        /\ steps' = [d \in Drvs |-> IF d \in ds THEN StepFor(d) ELSE steps[d]]
        /\ finished' = finished \ fresh
        /\ previous_failure' = previous_failure \ fresh
        /\ created' = created \ fresh
        /\ runnable' = runnable \ fresh
        /\ deps' = [st \in Steps |-> IF st \in fresh THEN {} ELSE deps[st]]
        /\ rdeps' = [st \in Steps |->
                ((IF st \in fresh THEN {} ELSE rdeps[st]) \ fresh)
                \cup (IF st \in called THEN referrer ELSE {})]

NewFrame(parent, b) == [NoFrame EXCEPT !.pc = "query", !.parent = parent, !.build = b]

(* The monitor is one task: it polls another future only at an await, and  *)
(* there is none in the frames that are at these points.                   *)
AtAwait == \A st \in Steps : frame[st].pc \notin {"add_dep", "created"}

(* The frames below st, st included, whose futures go when st returns. *)
Below(st) == Reach({st}, [s \in Steps |->
                {c \in Steps : frame[c].pc # "none" /\ frame[c].parent = s}])

InputIndex(p, d) == CHOOSE i \in DOMAIN InputDrvs[DrvOf[p]] : InputDrvs[DrvOf[p]][i] = d

(* create_step of st returns r to the stream of its referring step, or to  *)
(* create_build, whose locals are cr by then.                              *)
Return(st, r, cr) ==
    LET p == frame[st].parent
        b == frame[st].build
        without == [s \in Steps |-> IF s \in Below(st) THEN NoFrame ELSE frame[s]]
    IN  IF p = NoStep
        THEN /\ frame' = without
             /\ creating' = [cr EXCEPT ![b].res = r, ![b].pc = "result"]
        ELSE /\ frame' = [without EXCEPT ![p].got[InputIndex(p, DrvOf[st])] = r]
             /\ creating' = cr

-----------------------------------------------------------------------------
(* create_step. *)

(* query_drv failed: nothing is known of the derivation.                   *)
QueryDrvFails(st) ==
    /\ AtAwait /\ frame[st].pc = "query"
    /\ DrvOf[st] \in Unreadable
    /\ Return(st, None, creating)
    /\ UNCHANGED <<db, notes, built, graph, toplevel, mon, task>>

(* query_missing_outputs. *)
QueryMissingOutputs(st) ==
    /\ AtAwait /\ frame[st].pc = "query"
    /\ frame' = [frame EXCEPT ![st].pc = IF DrvOf[st] \in built THEN "present" ELSE "missing"]
    /\ UNCHANGED <<db, notes, built, graph, toplevel, creating, mon, task>>

CheckCachedFailure(st) ==
    /\ AtAwait /\ frame[st].pc \in {"present", "missing"}
    /\ DrvOf[st] \in FailedPaths
    /\ previous_failure' = previous_failure \cup {st}
    /\ Return(st, PreviousFailure(st), creating)
    /\ UNCHANGED <<db, notes, built, steps, finished, created, runnable, deps, rdeps,
                   toplevel, mon, task>>

(* All outputs are there, or substitute_output found those missing. *)
StepFinished(st) ==
    /\ AtAwait
    /\ \/ frame[st].pc = "present" /\ UNCHANGED built
       \/ /\ frame[st].pc = "missing"
          /\ DrvOf[st] \in Substitutable
          /\ built' = built \cup {DrvOf[st]}
    /\ mon' = [mon EXCEPT !.finished_drvs = @ \cup {DrvOf[st]}]
    /\ finished' = finished \cup {st}
    /\ Return(st, None, creating)
    /\ UNCHANGED <<db, notes, steps, previous_failure, created, runnable, deps, rdeps,
                   toplevel, task>>

(* The stream polls create_step of every input: each is known to be        *)
(* finished, or has a Step already, or gets one and a frame of its own.    *)
CreateInputs(st) ==
    LET inputs == InputDrvs[DrvOf[st]]
        ds     == Elements(inputs) \ mon.finished_drvs
    IN  /\ AtAwait /\ frame[st].pc = "missing"
        /\ CreateSteps(ds, {st})
        /\ frame' = [s \in Steps |->
               IF s = st
               THEN [frame[st] EXCEPT !.pc = "inputs", !.next = 1,
                        !.got = [i \in DOMAIN inputs |->
                            IF inputs[i] \notin ds THEN None
                            ELSE IF Existing(inputs[i]) THEN Valid(steps[inputs[i]])
                            ELSE Pending]]
               ELSE IF s \in Fresh(ds) THEN NewFrame(st, frame[st].build)
               ELSE frame[s]]
        /\ UNCHANGED <<db, notes, built, toplevel, creating, mon, task>>

NextInput(st) == frame[st].got[frame[st].next]
MoreInputs(st) == frame[st].pc = "inputs" /\ frame[st].next \in DOMAIN frame[st].got

(* Mutant of Consumed: an input is skipped. *)
ConsumedTwo(st) == [frame EXCEPT ![st].next = @ + 2, ![st].pc = "inputs"]

Consumed(st) == [frame EXCEPT ![st].next = @ + 1, ![st].pc = "inputs"]

AddDep(st, dep) == deps' = [deps EXCEPT ![st] = @ \cup {dep}]

(* The next result of the stream, in the order of the inputs.              *)
ConsumeInput(st) ==
    LET r == NextInput(st)
    IN  /\ AtAwait /\ MoreInputs(st)
        /\ \/ r.kind = "None" /\ frame' = Consumed(st) /\ UNCHANGED deps
           \/ /\ r.kind = "Valid"
              /\ IF r.step \in finished \cup previous_failure
                 THEN frame' = Consumed(st) /\ UNCHANGED deps
                 ELSE IF Preempted
                 THEN frame' = [frame EXCEPT ![st].pc = "add_dep"] /\ UNCHANGED deps
                 ELSE frame' = Consumed(st) /\ AddDep(st, r.step)
        /\ UNCHANGED <<db, notes, built, steps, flags, rdeps, toplevel, creating, mon, task>>

ResumeAddDep(st) ==
    /\ frame[st].pc = "add_dep"
    /\ AddDep(st, NextInput(st).step)
    /\ frame' = Consumed(st)
    /\ UNCHANGED <<db, notes, built, steps, flags, rdeps, toplevel, creating, mon, task>>

InputFailed(st) ==
    /\ AtAwait /\ MoreInputs(st)
    /\ NextInput(st).kind = "PreviousFailure"
    /\ Return(st, NextInput(st), creating)
    /\ UNCHANGED <<db, notes, built, graph, toplevel, mon, task>>

(* set_created(true). *)
SetCreated(st) ==
    /\ AtAwait
    /\ frame[st].pc = "inputs" /\ frame[st].next \notin DOMAIN frame[st].got
    /\ created' = created \cup {st}
    /\ frame' = [frame EXCEPT ![st].pc = "created"]
    /\ UNCHANGED <<db, notes, built, steps, finished, previous_failure, runnable, deps, rdeps,
                   toplevel, creating, mon, task>>

(* Mutant of NewRunnable: a step without inputs is forgotten. *)
NewRunnableWithInputs(st) ==
    IF deps[st] = {} /\ InputDrvs[DrvOf[st]] # <<>> THEN {st} ELSE {}

(* Mutant of NewRunnable: the dependencies are not looked at. *)
NewRunnableAlways(st) == {st}

(* get_deps_size() == 0. *)
NewRunnable(st) == IF deps[st] = {} THEN {st} ELSE {}

StepCreated(st) ==
    /\ frame[st].pc = "created"
    /\ mon' = [mon EXCEPT !.new_runnable = @ \cup NewRunnable(st)]
    /\ Return(st, Valid(st),
              [creating EXCEPT ![frame[st].build].new_steps = @ \cup {st}])
    /\ UNCHANGED <<db, notes, built, graph, toplevel, task>>

-----------------------------------------------------------------------------
(* create_build. *)

Started(ids) == [b \in Builds |->
    IF b \in ids THEN [NotCreating EXCEPT !.pc = "start"] ELSE creating[b]]

(* The Build under creation is dropped, or owned by state.builds alone.    *)
BuildDone(b) ==
    /\ creating' = [creating EXCEPT ![b] = NotCreating]
    /\ task' = [st \in Steps |-> [task[st] EXCEPT !.fresh = @ \ {b}]]

(* The derivation was garbage collected: the build is aborted. *)
AbortBuild(b) ==
    /\ AtAwait /\ creating[b].pc = "start"
    /\ TopDrv[b] \in Unreadable
    /\ \/ db' = [db EXCEPT ![b] = "failed"]
       \/ DbMayFail /\ UNCHANGED db
    /\ BuildDone(b)
    /\ UNCHANGED <<notes, built, graph, toplevel, frame, mon>>

(* create_step for the toplevel derivation: up to its first await.         *)
CreateToplevel(b) ==
    LET d == TopDrv[b]
        known == d \in mon.finished_drvs
        st == StepFor(d)
    IN  /\ AtAwait /\ creating[b].pc = "start"
        /\ IF known
           THEN /\ creating' = [creating EXCEPT ![b].pc = "result", ![b].res = None]
                /\ UNCHANGED <<graph, frame>>
           ELSE /\ CreateSteps({d}, {})
                /\ creating' = [creating EXCEPT
                        ![b].step = st,
                        ![b].pc  = IF Existing(d) THEN "result" ELSE "step",
                        ![b].res = IF Existing(d) THEN Valid(st) ELSE Pending]
                /\ frame' = IF Existing(d) THEN frame
                            ELSE [frame EXCEPT ![st] = NewFrame(NoStep, b)]
        /\ UNCHANGED <<db, notes, built, toplevel, mon, task>>

(* A known failure: the build is marked and dropped. *)
HandlePreviousFailure(b) ==
    /\ AtAwait /\ creating[b].pc = "result" /\ creating[b].res.kind = "PreviousFailure"
    /\ \/ db' = [db EXCEPT ![b] = IF @ = "queued" /\ ~creating[b].ended THEN "failed" ELSE @]
       \/ DbMayFail /\ UNCHANGED db
    /\ BuildDone(b)
    /\ UNCHANGED <<notes, built, graph, toplevel, frame, mon>>

(* The loaded builds that want a step just made and are still to be        *)
(* created: their create_build starts.                                     *)
CreateNestedBuilds(b) ==
    LET sub == {c \in mon.ids : \E st \in creating[b].new_steps : DrvOf[st] = TopDrv[c]}
    IN  /\ AtAwait /\ creating[b].pc = "result" /\ creating[b].res.kind # "PreviousFailure"
        /\ creating' = [Started(sub) EXCEPT ![b].pc = "nested", ![b].sub = sub]
        /\ mon' = [mon EXCEPT !.ids = @ \ sub]
        /\ UNCHANGED <<db, notes, built, graph, toplevel, frame, task>>

NestedDone(b) == creating[b].pc = "nested" /\ \A c \in creating[b].sub : creating[c].pc = "none"

(* insert_new_build, unless a task has finished the build meanwhile, and   *)
(* set_toplevel_step.                                                      *)
InsertBuild(b) ==
    /\ AtAwait /\ NestedDone(b) /\ creating[b].res.kind = "Valid"
    /\ toplevel' = IF creating[b].ended THEN toplevel
                   ELSE [toplevel EXCEPT ![b] = creating[b].res.step]
    /\ BuildDone(b)
    /\ UNCHANGED <<db, notes, built, graph, frame, mon>>

(* All outputs are valid: the build is marked as succeeded, and dropped.   *)
HandleCachedBuild(b) ==
    /\ AtAwait /\ NestedDone(b) /\ creating[b].res.kind = "None"
    /\ \/ db' = [db EXCEPT ![b] = IF @ = "queued" THEN "succeeded" ELSE @]
       \/ DbMayFail /\ UNCHANGED db
    /\ BuildDone(b)
    /\ UNCHANGED <<notes, built, graph, toplevel, frame, mon>>

-----------------------------------------------------------------------------
(* queue_monitor_loop and process_new_builds. *)

(* A notification; some are about builds that are gone (update_priorities) *)
(* and all of them make the loop load the queue again.                     *)
ReadNotification(n) ==
    /\ mon.pc = "wait" /\ n \in notes
    /\ notes' = notes \ {n}
    /\ mon' = [mon EXCEPT !.pc = "load"]
    /\ toplevel' = IF n = "builds_cancelled"
                   THEN [b \in Builds |-> IF db[b] = "queued" THEN toplevel[b] ELSE NoStep]
                   ELSE toplevel
    /\ UNCHANGED <<db, built, graph, frame, creating, task>>

GetQueuedBuilds ==
    /\ mon.pc = "load"
    /\ mon' = [mon EXCEPT !.pc = "next", !.ids = {b \in Builds : db[b] = "queued"},
                          !.finished_drvs = {}]
    /\ UNCHANGED <<db, notes, built, graph, toplevel, frame, creating, task>>

(* The loop takes the next build that no other has taken. *)
NextBuild(b) ==
    /\ mon.pc = "next" /\ b \in mon.ids
    /\ creating' = Started({b})
    /\ mon' = [mon EXCEPT !.pc = "create", !.top = b, !.ids = @ \ {b}]
    /\ UNCHANGED <<db, notes, built, graph, toplevel, frame, task>>

BuildCreated ==
    /\ mon.pc = "create" /\ creating[mon.top].pc = "none"
    /\ mon' = [mon EXCEPT !.pc = "make_runnable", !.top = NoBuild, !.todo = mon.new_runnable]
    /\ UNCHANGED <<db, notes, built, graph, toplevel, frame, creating, task>>

(* make_runnable for a step of new_runnable. *)
MakeRunnable(st) ==
    /\ mon.pc = "make_runnable" /\ st \in mon.todo
    /\ runnable' = runnable \cup {st}
    /\ mon' = [mon EXCEPT !.todo = @ \ {st}]
    /\ UNCHANGED <<db, notes, built, steps, finished, previous_failure, created, deps, rdeps,
                   toplevel, frame, creating, task>>

(* The next build, or an early end of the run. *)
AllMadeRunnable ==
    /\ mon.pc = "make_runnable" /\ mon.todo = {}
    /\ \/ mon' = [mon EXCEPT !.pc = "next", !.new_runnable = {}]
       \/ StopEarly /\ mon' = [mon EXCEPT !.pc = "next", !.new_runnable = {}, !.ids = {}]
    /\ UNCHANGED <<db, notes, built, graph, toplevel, frame, creating, task>>

(* Mutant of NewBuildsProcessed: finished steps are not looked for. *)
NewBuildsProcessedWithoutRepair ==
    /\ mon.pc = "next" /\ mon.ids = {}
    /\ mon' = [mon EXCEPT !.pc = "wait"]
    /\ UNCHANGED <<db, notes, built, graph, toplevel, frame, creating, task>>

(* Steps::make_rdeps_runnable over the steps the map still reaches. *)
NewBuildsProcessed ==
    /\ mon.pc = "next" /\ mon.ids = {}
    /\ MakeRdepsRunnable({st \in (Alive \cap finished) \ previous_failure : steps[DrvOf[st]] = st})
    /\ mon' = [mon EXCEPT !.pc = "wait"]
    /\ UNCHANGED <<db, notes, built, steps, finished, previous_failure, created,
                   toplevel, frame, creating, task>>

-----------------------------------------------------------------------------
(* Dispatcher and builders. *)

(* do_dispatch_once: a runnable step gets a job; jobs has one per          *)
(* derivation.                                                             *)
Enqueue(st) ==
    /\ st \in Alive \cap runnable
    /\ steps[DrvOf[st]] = st
    /\ st \notin finished
    /\ \A s \in Steps : DrvOf[s] = DrvOf[st] => task[s].pc = "none"
    /\ task' = [task EXCEPT ![st].pc = "queued"]
    /\ UNCHANGED <<db, notes, built, graph, toplevel, monitored>>

(* realise_drv_on_valid_machine: no job for a step that no build needs.    *)
Realise(st) ==
    /\ task[st].pc = "queued"
    /\ task' = [task EXCEPT ![st].pc =
                    IF IndirectBuildSets(st) = {{}} THEN "none" ELSE "building"]
    /\ UNCHANGED <<db, notes, built, graph, toplevel, monitored>>

OutputsImported(st) ==
    /\ task[st].pc = "building"
    /\ built' = built \cup {DrvOf[st]}
    /\ task' = [task EXCEPT ![st].pc = "imported"]
    /\ UNCHANGED <<db, notes, graph, toplevel, monitored>>

-----------------------------------------------------------------------------
(* succeed_step and inner_fail_job. *)

SucceedStep(st) ==
    /\ task[st].pc = "imported"
    /\ finished' = finished \cup {st}
    /\ task' = [task EXCEPT ![st].pc = "finish"]
    /\ UNCHANGED <<db, notes, built, steps, previous_failure, created, runnable, deps, rdeps,
                   toplevel, monitored>>

(* get_direct_builds; a step that no build wants leaves the map. *)
GetDirectBuilds(st) ==
    /\ task[st].pc = "finish"
    /\ steps' = IF DirectBuilds(st) = {} THEN [steps EXCEPT ![DrvOf[st]] = NoStep] ELSE steps
    /\ task' = [task EXCEPT ![st].pc = "succeed", ![st].ids = DirectBuilds(st),
                            ![st].fresh = NewBuilds(st)]
    /\ UNCHANGED <<db, notes, built, flags, deps, rdeps, toplevel, monitored>>

(* The builds ids end with a row: set_finished_in_db and remove_by_id.     *)
EndBuilds(st, outcome) ==
    /\ db' = [b \in Builds |->
            IF b \in task[st].ids /\ db[b] = "queued" THEN outcome ELSE db[b]]
    /\ toplevel' = [b \in Builds |-> IF b \in task[st].ids THEN NoStep ELSE toplevel[b]]
    /\ creating' = [b \in Builds |->
            IF b \in task[st].fresh THEN [creating[b] EXCEPT !.ended = TRUE] ELSE creating[b]]

CommitSucceeded(st) ==
    /\ task[st].pc = "succeed"
    /\ EndBuilds(st, "succeeded")
    /\ task' = [task EXCEPT ![st] = [NoTask EXCEPT !.pc = "notify"]]
    /\ UNCHANGED <<notes, built, graph, frame, mon>>

StepSucceeded(st) ==
    /\ task[st].pc = "notify"
    /\ MakeRdepsRunnable({st})
    /\ task' = [task EXCEPT ![st] = NoTask]
    /\ UNCHANGED <<db, notes, built, steps, finished, previous_failure, created, toplevel,
                   monitored>>

FailStep(st) ==
    /\ BuildsMayFail
    /\ task[st].pc = "building"
    /\ task' = [task EXCEPT ![st].pc = "indirect"]
    /\ UNCHANGED <<db, notes, built, graph, toplevel, monitored>>

(* get_all_indirect_builds: when there is none, the step and all that      *)
(* depend on it leave the map.                                             *)
GetAllIndirectBuilds(st, ids) ==
    LET gone == {DrvOf[s] : s \in Dependents(st)}
    IN  /\ task[st].pc = "indirect"
        /\ ids \in IndirectBuildSets(st)
        /\ steps' = IF ids = {} THEN [d \in Drvs |-> IF d \in gone THEN NoStep ELSE steps[d]]
                    ELSE steps
        /\ task' = IF ids = {} /\ task[st].looped
                   THEN [task EXCEPT ![st] = NoTask]
                   ELSE [task EXCEPT ![st].pc = "fail", ![st].ids = ids,
                            ![st].fresh = {b \in ids : creating[b].step \in Dependents(st)
                                                       /\ ~creating[b].ended}]
        /\ UNCHANGED <<db, notes, built, flags, deps, rdeps, toplevel, monitored>>

CommitFailed(st) ==
    /\ task[st].pc = "fail"
    /\ EndBuilds(st, "failed")
    /\ task' = [task EXCEPT ![st] = [NoTask EXCEPT !.pc = "indirect", !.looped = TRUE]]
    /\ UNCHANGED <<notes, built, graph, frame, mon>>

(* `?` after a database call. *)
TaskDbError(st) ==
    /\ DbMayFail
    /\ task[st].pc \in {"finish", "succeed", "notify", "fail"}
    /\ task' = [task EXCEPT ![st] = NoTask]
    /\ UNCHANGED <<db, notes, built, graph, toplevel, monitored>>

-----------------------------------------------------------------------------
CreateStepNext(st) ==
    \/ QueryDrvFails(st) \/ QueryMissingOutputs(st) \/ CheckCachedFailure(st)
    \/ StepFinished(st) \/ CreateInputs(st) \/ ConsumeInput(st) \/ ResumeAddDep(st)
    \/ InputFailed(st) \/ SetCreated(st) \/ StepCreated(st)

CreateBuildNext(b) ==
    \/ AbortBuild(b) \/ CreateToplevel(b) \/ HandlePreviousFailure(b)
    \/ CreateNestedBuilds(b) \/ InsertBuild(b) \/ HandleCachedBuild(b)

Monitor ==
    \/ \E st \in Steps : CreateStepNext(st) \/ MakeRunnable(st)
    \/ \E b \in Builds : CreateBuildNext(b) \/ NextBuild(b)
    \/ \E n \in notes : ReadNotification(n)
    \/ GetQueuedBuilds \/ BuildCreated \/ AllMadeRunnable \/ NewBuildsProcessed

TaskNext(st) ==
    \/ Realise(st) \/ OutputsImported(st) \/ SucceedStep(st) \/ GetDirectBuilds(st)
    \/ CommitSucceeded(st) \/ StepSucceeded(st) \/ FailStep(st)
    \/ \E ids \in SUBSET Builds : GetAllIndirectBuilds(st, ids)
    \/ CommitFailed(st) \/ TaskDbError(st)

Next ==
    \/ Monitor
    \/ \E st \in Steps : Enqueue(st) \/ TaskNext(st)
    \/ \E b \in Builds : BuildAdded(b) \/ BuildCancelled(b)

Spec == Init /\ [][Next]_vars

(* The runtime polls every task that can go on; builders answer.           *)
FairSpec ==
    /\ Spec
    /\ WF_vars(Monitor)
    /\ \A st \in Steps : WF_vars(Enqueue(st)) /\ WF_vars(TaskNext(st))

-----------------------------------------------------------------------------
(* Properties. *)

Frames == {"none", "query", "present", "missing", "inputs", "add_dep", "created"}
BuildPcs == {"none", "start", "step", "result", "nested"}
TaskPcs == {"none", "queued", "building", "imported", "finish", "succeed", "notify",
            "indirect", "fail"}

(* Every variable keeps its type, the map names a step of the derivation,  *)
(* and the stream of inputs is read within its bounds.                     *)
TypeOK ==
    /\ db \in [Builds -> {"absent", "queued", "succeeded", "failed", "cancelled"}]
    /\ notes \subseteq {"builds_added", "builds_cancelled"}
    /\ built \subseteq Drvs
    /\ steps \in [Drvs -> Steps \cup {NoStep}]
    /\ \A d \in Drvs : steps[d] # NoStep => DrvOf[steps[d]] = d
    /\ finished \subseteq Steps /\ previous_failure \subseteq Steps
    /\ created \subseteq Steps /\ runnable \subseteq Steps
    /\ deps \in [Steps -> SUBSET Steps] /\ rdeps \in [Steps -> SUBSET Steps]
    /\ toplevel \in [Builds -> Steps \cup {NoStep}]
    /\ frame \in [Steps -> [pc: Frames, parent: Steps \cup {NoStep}, build: Builds \cup {NoBuild},
                            got: Seq(Result), next: Nat]]
    /\ \A st \in Steps : frame[st].next \in 1 .. Len(frame[st].got) + 1
    /\ creating \in [Builds -> [pc: BuildPcs, step: Steps \cup {NoStep}, res: Result,
                                new_steps: SUBSET Steps, sub: SUBSET Builds, ended: BOOLEAN]]
    /\ mon \in [pc: {"wait", "load", "next", "create", "make_runnable"}, ids: SUBSET Builds,
                top: Builds \cup {NoBuild}, new_runnable: SUBSET Steps, todo: SUBSET Steps,
                finished_drvs: SUBSET Drvs]
    /\ task \in [Steps -> [pc: TaskPcs, ids: SUBSET Builds, fresh: SUBSET Builds,
                           looped: BOOLEAN]]

(* A step is handed to a builder only when the outputs of all its inputs   *)
(* are in the store, however its creation and the end of its inputs        *)
(* interleaved (create_step, make_rdeps_runnable).                         *)
InputsBuilt ==
    \A st \in Steps : task[st].pc = "building" => Elements(InputDrvs[DrvOf[st]]) \subseteq built

(* The assertions of Step::make_runnable on created and deps hold of every *)
(* step from the moment it is runnable.                                    *)
RunnableIsReady ==
    \A st \in Alive \cap runnable : st \in created /\ deps[st] = {}

(* No wakeup is lost between set_created / get_deps_size of create_step    *)
(* and make_rdeps_runnable: a complete step that waits for nothing is      *)
(* runnable, or the monitor is about to make it so.                        *)
NoLostWakeup ==
    \A st \in (Alive \cap created) \ (finished \cup runnable) :
        deps[st] = {} => st \in mon.new_runnable \/ frame[st].pc = "created"

(* What a step waits for knows it: make_rdeps_runnable of the dependency   *)
(* will find the step.                                                     *)
DepsKnown ==
    \A p \in Alive : \A c \in deps[p] : p \in rdeps[c]

(* "This is here to ensure that we dont have any deps to finished steps":  *)
(* when process_new_builds is over, nothing waits for a finished step but  *)
(* for one whose task is still to call make_rdeps_runnable.                *)
RepairLeavesNoDeps ==
    [][mon.pc = "next" /\ mon'.pc = "wait" =>
         \A p \in Alive' : \A c \in deps'[p] \cap finished : task[c].pc # "none"]_vars

(* Everyone is not waiting on everyone: when the monitor waits for a       *)
(* notification and no task runs, each build of state.builds whose         *)
(* toplevel is not finished has below it a runnable step the dispatcher    *)
(* can see.                                                                *)
BuildsCanProceed ==
    mon.pc = "wait" /\ (\A st \in Steps : task[st].pc = "none") =>
        \A b \in Builds : toplevel[b] \notin finished \cup {NoStep} =>
            \E st \in Reach({toplevel[b]}, deps) \cap runnable :
                st \notin finished /\ steps[DrvOf[st]] = st

(* Every build that is queued ends. *)
BuildsEnd ==
    \A b \in Builds : db[b] = "queued" ~> db[b] # "queued"

=============================================================================
