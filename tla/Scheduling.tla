------------------------------ MODULE Scheduling ------------------------------
(***************************************************************************)
(* Which machine builds a job: the machines in the order of their scores,  *)
(* their capacity and the limit on jobs started within 30 s (Window), and  *)
(* the reload of the configuration that says how to sort and to count.     *)
(*                                                                         *)
(* Time is kept as ages, which Tick advances.  One system.  The order of   *)
(* the jobs is Shares' subject; what a job does, Builder's.                *)
(***************************************************************************)
EXTENDS QueueOrder, SequencesExt, FiniteSetsExt, Functions

CONSTANTS
    Machines, Jobs,
    Hardware,    \* machine -> [speed_factor, cpu_count, bogomips]
    MaxJobs,     \* machine -> max_jobs
    CanBuild,    \* machine -> the jobs whose features it has
    Configs,     \* [machine_sort_fn, machine_free_fn]
    Config0,     \* the configuration at the start
    Burst,       \* 4 jobs
    Window,      \* 30 s
    U64,         \* 2^64
    MaxEvents,   \* bound: joins, departures, pings, reloads
    MaxEnding    \* bound: remove_job calls under way at a machine

MachineSortFns == {"SpeedFactorOnly", "CpuCoreCountWithSpeedFactor", "BogomipsWithSpeedFactor"}
MachineFreeFns == {"Static", "Dynamic", "DynamicWithMaxJobLimit"}

ASSUME SchedulingAssumption ==
    /\ IsFiniteSet(Jobs) /\ MaxJobs \in [Machines -> Nat]
    /\ Hardware \in [Machines -> [speed_factor : Nat, cpu_count : Nat, bogomips : Nat]]
    /\ Configs \subseteq [machine_sort_fn : MachineSortFns, machine_free_fn : MachineFreeFns]
    /\ Config0 \in Configs /\ Burst \in Nat \ {0} /\ Window \in Nat
    /\ U64 \in Nat /\ U64 > Cardinality(Jobs) + Burst /\ MaxEvents \in Nat /\ MaxEnding \in Nat

VARIABLES
    config,     \* the configuration
    reload,     \* the reload that is under way
    raced,      \* a machine joined while one was (history)
    by_system,  \* the machines, sorted
    jobs,       \* machine -> its jobs; current_jobs is their number
    idle,       \* machine -> whether idle_since is set
    ping,       \* machine -> what the last ping said: ok, busy, full
    age,        \* machine -> age of jobs_in_last_30s_start, Window + 1 if older or 0
    count,      \* machine -> jobs_in_last_30s_count
    ending,     \* machine -> remove_job calls that have not looked at the window
    disp,       \* the dispatcher
    events      \* how many of what MaxEvents bounds there were

machineVars == <<by_system, jobs, idle, ping, age, count, ending>>
configVars  == <<config, reload, raced>>
vars == <<machineVars, configVars, disp, events>>

NoJob     == <<>>
Idle      == [pc |-> "idle", todo |-> {}, at |-> NoJob, free_fn |-> Config0.machine_free_fn]
NoReload  == [pc |-> "none", new |-> Config0]
OldAge    == Window + 1
Running   == UNION {jobs[m] : m \in Machines}
Joined    == Range(by_system)

(* The variables have their types; a counter is one of 64 bits. *)
TypeOK ==
    /\ config \in Configs /\ reload.new \in Configs
    /\ reload.pc \in {"none", "sort", "swap"} /\ raced \in BOOLEAN
    /\ Joined \subseteq Machines /\ IsInjective(by_system)
    /\ jobs \in [Machines -> SUBSET Jobs] /\ idle \in [Machines -> BOOLEAN]
    /\ ping \in [Machines -> {"ok", "busy", "full"}]
    /\ age \in [Machines -> 0..OldAge] /\ count \in [Machines -> 0..(U64 - 1)]
    /\ ending \in [Machines -> 0..MaxEnding]
    /\ disp.pc \in {"idle", "round", "send", "insert", "count"}
    /\ disp.todo \subseteq Jobs /\ events \in 0..MaxEvents

(* Stats::new: a machine that joins is idle, and full until its first ping. *)
Fresh(m) ==
    /\ jobs' = [jobs EXCEPT ![m] = {}] /\ idle' = [idle EXCEPT ![m] = TRUE]
    /\ ping' = [ping EXCEPT ![m] = "full"]
    /\ age' = [age EXCEPT ![m] = OldAge] /\ count' = [count EXCEPT ![m] = 0]

Init ==
    /\ config = Config0 /\ reload = NoReload /\ raced = FALSE /\ by_system = <<>>
    /\ jobs = [m \in Machines |-> {}] /\ idle = [m \in Machines |-> TRUE]
    /\ ping = [m \in Machines |-> "full"]
    /\ age = [m \in Machines |-> OldAge] /\ count = [m \in Machines |-> 0]
    /\ ending = [m \in Machines |-> 0]
    /\ disp = Idle /\ events = 0

Event == events < MaxEvents /\ events' = events + 1

-----------------------------------------------------------------------------
(* Machines.                                                               *)

Sorted(ms, sort_fn) ==
    LET score(m) == Score(sort_fn, Hardware[m])
        less(m, n) == \/ score(m) > score(n)
                      \/ score(m) = score(n) /\ Cardinality(jobs[m]) < Cardinality(jobs[n])
    IN StableSort(ms, less)

(* insert_machine, with the function the configuration has then; the       *)
(* identity of a machine that has gone is used for another one.            *)
Join(m) ==
    /\ m \notin Joined /\ jobs[m] = {} /\ ending[m] = 0
    /\ \A j \in Jobs : disp.at # <<m, j>>
    /\ Fresh(m)
    /\ by_system' = Sorted(Append(by_system, m), config.machine_sort_fn)
    /\ raced' = (reload.pc = "swap" /\ config.machine_sort_fn # reload.new.machine_sort_fn)
    /\ Event
    /\ UNCHANGED <<ending, config, reload, disp>>

(* remove_machine; its jobs fail one after the other (RemoveJob). *)
Leave(m) ==
    /\ \E i \in 1..Len(by_system) : by_system[i] = m /\ by_system' = RemoveAt(by_system, i)
    /\ Event
    /\ UNCHANGED <<jobs, idle, ping, age, count, ending, configVars, disp>>

(* store_ping. *)
Ping(m, p) ==
    /\ m \in Joined /\ p # ping[m]
    /\ ping' = [ping EXCEPT ![m] = p]
    /\ Event
    /\ UNCHANGED <<by_system, jobs, idle, age, count, ending, configVars, disp>>

has_dynamic_capacity(m) == ping[m] # "busy"

(* Mutant of has_static_capacity: one more. *)
has_static_capacity_le(m) == Cardinality(jobs[m]) <= MaxJobs[m]

has_static_capacity(m) == Cardinality(jobs[m]) < MaxJobs[m]

(* Mutant of Throttled: the window has no end. *)
ThrottledForGood(m) == count[m] >= Burst /\ Cardinality(jobs[m]) >= Burst

(* No more than Burst jobs are started in a window, unless some of them    *)
(* have ended.                                                             *)
Throttled(m) == age[m] <= Window /\ count[m] >= Burst /\ Cardinality(jobs[m]) >= Burst

(* has_capacity; where the window is over it also resets the counter. *)
has_capacity(m, free_fn) ==
    /\ ~Throttled(m) /\ ping[m] # "full"
    /\ free_fn \in {"Dynamic", "DynamicWithMaxJobLimit"} => has_dynamic_capacity(m)
    /\ free_fn \in {"Static", "DynamicWithMaxJobLimit"} => has_static_capacity(m)

Looked(ms) == count' = [m \in Machines |-> IF m \in ms /\ age[m] = OldAge THEN 0 ELSE count[m]]

(* Mutant of StoreCurrentJobs: the time is set again for every job less. *)
StoreJobsLeft(m, js) == idle' = [idle EXCEPT ![m] = jobs[m] # {} /\ js \subseteq jobs[m]]

(* store_current_jobs sets idle_since when the last job goes, and clears   *)
(* it else.                                                                *)
StoreCurrentJobs(m, js) == idle' = [idle EXCEPT ![m] = js = {} /\ ~idle[m]]

-----------------------------------------------------------------------------
(* The dispatcher.                                                         *)

(* do_dispatch_once goes through the jobs that are queued. *)
StartRound(queued) ==
    /\ disp.pc = "idle" /\ queued # {}
    /\ disp' = [disp EXCEPT !.pc = "round", !.todo = queued]
    /\ UNCHANGED <<machineVars, configVars, events>>

NextJob(j) == [Idle EXCEPT !.pc = IF disp.todo = {j} THEN "idle" ELSE "round", !.todo = disp.todo \ {j}]

(* resolve: the first machine with capacity that has the features; the     *)
(* ones before it have been looked at, too.                                *)
Resolve(j) ==
    LET fits == {i \in 1..Len(by_system) :
                    /\ has_capacity(by_system[i], config.machine_free_fn)
                    /\ j \in CanBuild[by_system[i]]}
        first == IF fits = {} THEN Len(by_system) ELSE Min(fits)
    IN
    /\ disp.pc = "round" /\ j \in disp.todo
    /\ IF j \in Running THEN UNCHANGED count /\ disp' = NextJob(j)
       ELSE /\ Looked({by_system[i] : i \in 1..first})
            /\ disp' = IF fits = {} THEN NextJob(j)
                       ELSE [disp EXCEPT !.pc = "send", !.at = <<by_system[first], j>>,
                                         !.free_fn = config.machine_free_fn]
    /\ UNCHANGED <<by_system, jobs, idle, ping, age, ending, configVars, events>>

(* build_drv: the message is sent, unless the tunnel is gone; a window     *)
(* begins with the first job; the job is inserted, and then counted.       *)
Send ==
    /\ disp.pc = "send"
    /\ LET m == disp.at[1] IN
       \/ /\ age' = IF count[m] = 0 THEN [age EXCEPT ![m] = 0] ELSE age
          /\ disp' = [disp EXCEPT !.pc = "insert"]
       \/ m \notin Joined /\ UNCHANGED age /\ disp' = NextJob(disp.at[2])
    /\ UNCHANGED <<by_system, jobs, idle, ping, count, ending, configVars, events>>

InsertJob ==
    LET m == disp.at[1]
        js == jobs[m] \cup {disp.at[2]} IN
    /\ disp.pc = "insert"
    /\ jobs' = [jobs EXCEPT ![m] = js] /\ StoreCurrentJobs(m, js)
    /\ disp' = [disp EXCEPT !.pc = "count"]
    /\ UNCHANGED <<by_system, ping, age, count, ending, configVars, events>>

CountJob ==
    LET m == disp.at[1] IN
    /\ disp.pc = "count"
    /\ count' = [count EXCEPT ![m] = (@ + 1) % U64]
    /\ disp' = NextJob(disp.at[2])
    /\ UNCHANGED <<by_system, jobs, idle, ping, age, ending, configVars, events>>

(* remove_job, called for a job the dispatcher is done with.  Then it      *)
(* looks at the window, and takes one off.                                 *)
RemoveJob(m, j) ==
    LET js == jobs[m] \ {j} IN
    /\ j \in jobs[m] /\ disp.at # <<m, j>> /\ ending[m] < MaxEnding
    /\ jobs' = [jobs EXCEPT ![m] = js] /\ StoreCurrentJobs(m, js)
    /\ ending' = [ending EXCEPT ![m] = @ + 1]
    /\ UNCHANGED <<by_system, ping, age, count, configVars, disp, events>>

UncountJob(m) ==
    /\ ending[m] > 0
    /\ ending' = [ending EXCEPT ![m] = @ - 1]
    /\ count' = IF age[m] <= Window THEN [count EXCEPT ![m] = (@ + U64 - 1) % U64] ELSE count
    /\ UNCHANGED <<by_system, jobs, idle, ping, age, configVars, disp, events>>

-----------------------------------------------------------------------------
(* reload; the reloader waits for the next SIGHUP once it has returned.    *)
Sighup(new) == reload.pc = "none" /\ new # config

(* The file is read, the clients of the new stores are made and the pool   *)
(* is reconfigured.  Each may fail, and then nothing has changed.          *)
ReloadStart(new) ==
    /\ Sighup(new)
    /\ Event
    /\ reload' \in {reload, [pc |-> "sort", new |-> new]}
    /\ UNCHANGED <<config, raced, machineVars, disp>>

(* Mutant of ReloadMachines: sorted as before. *)
ReloadMachinesAsBefore ==
    /\ reload.pc = "sort"
    /\ by_system' = IF config.machine_sort_fn # reload.new.machine_sort_fn
                    THEN Sorted(by_system, config.machine_sort_fn) ELSE by_system
    /\ raced' = FALSE
    /\ reload' = [reload EXCEPT !.pc = "swap"]
    /\ UNCHANGED <<config, jobs, idle, ping, age, count, ending, disp, events>>

ReloadMachines ==
    /\ reload.pc = "sort"
    /\ by_system' = IF config.machine_sort_fn # reload.new.machine_sort_fn
                    THEN Sorted(by_system, reload.new.machine_sort_fn) ELSE by_system
    /\ raced' = (raced /\ config.machine_sort_fn = reload.new.machine_sort_fn)
    /\ reload' = [reload EXCEPT !.pc = "swap"]
    /\ UNCHANGED <<config, jobs, idle, ping, age, count, ending, disp, events>>

(* The queues are sorted (Shares), the stores are swapped, the machines    *)
(* are told, and it is the configuration.                                  *)
ReloadSwap ==
    /\ reload.pc = "swap"
    /\ config' = reload.new
    /\ reload' = NoReload
    /\ UNCHANGED <<raced, machineVars, disp, events>>

-----------------------------------------------------------------------------
(* Time passes.                                                            *)
Tick ==
    /\ age' = [m \in Machines |-> Min({age[m] + 1, OldAge})]
    /\ UNCHANGED <<by_system, jobs, idle, ping, count, ending, configVars, disp, events>>

Dispatcher ==
    \/ \E queued \in SUBSET Jobs : StartRound(queued)
    \/ \E j \in Jobs : Resolve(j)
    \/ Send \/ InsertJob \/ CountJob

Next ==
    \/ Dispatcher \/ Tick \/ ReloadMachines \/ ReloadSwap
    \/ \E new \in Configs : ReloadStart(new)
    \/ \E m \in Machines :
       \/ Join(m) \/ Leave(m) \/ UncountJob(m)
       \/ \E p \in {"ok", "busy", "full"} : Ping(m, p)
       \/ \E j \in Jobs : RemoveJob(m, j)

(* The clock goes on, and every task is polled. *)
Fairness == WF_vars(Tick) /\ WF_vars(Dispatcher) /\ \A m \in Machines : WF_vars(UncountJob(m))

Spec == Init /\ [][Next]_vars /\ Fairness

-----------------------------------------------------------------------------
(* Machines are tried in the order of their scores ("by_system is always   *)
(* sorted") by the function the configuration asks for, through joins,     *)
(* departures and reloads, save where one joined after a reload had sorted *)
(* them and before it changed the configuration.                           *)
SortedByScore ==
    reload.pc \in {"none", "sort"} /\ ~raced =>
        \A i, k \in 1..Len(by_system) : i < k =>
            Score(config.machine_sort_fn, Hardware[by_system[i]])
                >= Score(config.machine_sort_fn, Hardware[by_system[k]])

(* A machine shows since when it is idle exactly while it has no job, be   *)
(* the jobs ended by its reports or by its removal (store_current_jobs     *)
(* toggles idle_since).                                                    *)
IdleSinceRight == \A m \in Machines : idle[m] <=> jobs[m] = {}

(* Where max_jobs is the limit when a machine is chosen, the job that is   *)
(* sent later does not exceed it, though jobs end and the configuration    *)
(* changes in between (has_capacity, build_drv).                           *)
StaticLimit ==
    [][\A m \in Machines :
        Cardinality(jobs'[m]) > Cardinality(jobs[m]) /\ disp.free_fn # "Dynamic" =>
            Cardinality(jobs'[m]) <= MaxJobs[m]]_vars

(* The limit on jobs started in a window passes: a machine with a free     *)
(* place is usable again, though no job ends and though the counter may    *)
(* have wrapped (fetch_sub of a job of an earlier window).                 *)
Usable(m) == m \in Joined /\ ping[m] = "ok" /\ has_static_capacity(m)
ThrottleEnds ==
    \A m \in Machines : Usable(m) ~> (~Usable(m) \/ has_capacity(m, config.machine_free_fn))
=============================================================================
