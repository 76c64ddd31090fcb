-------------------------------- MODULE Shares --------------------------------
(***************************************************************************)
(* Which job is next: the priorities of builds as they reach the steps,    *)
(* the shares jobsets have used, and the queue the dispatcher sorts by     *)
(* both, while the database changes them and the queue monitor follows.    *)
(*                                                                         *)
(* NeedsOf stands for the walk of propagate_priorities over the steps of a *)
(* build (StepGraph).  One system.  Time is kept as ages: only which steps *)
(* are older than 24 h (SchedulingWindow) matters.                         *)
(***************************************************************************)
EXTENDS QueueOrder, SequencesExt, FiniteSetsExt, Functions

CONSTANTS
    Builds,      \* build ids
    Steps, Jobsets,
    NeedsOf,     \* build -> its steps
    JobsetOf,    \* build -> its jobset
    LocalOf,     \* build -> local priority
    RdepsOf,     \* step -> rdeps_len
    Priorities,  \* global priorities; a build has the least at first
    SharesOf,    \* the shares a jobset may have; it has the least at first
    Rows,        \* jobset -> finished steps of ten windows: {<<id, start, duration>>}
    StartAge,    \* start -> how long ago that is at the start
    SchedulingWindow, \* 24 h
    MaxEvents    \* bound: changes from outside, retries and failures

ASSUME SharesAssumption ==
    /\ Builds \subseteq Nat /\ Builds # {} /\ \A S \in {Builds, Steps, Jobsets} : IsFiniteSet(S)
    /\ NeedsOf \in [Builds -> SUBSET Steps] /\ JobsetOf \in [Builds -> Jobsets]
    /\ LocalOf \in [Builds -> Nat] /\ RdepsOf \in [Steps -> Nat]
    /\ Priorities \subseteq Nat /\ Priorities # {}
    /\ SharesOf \subseteq Nat \ {0} /\ SharesOf # {}
    /\ SchedulingWindow \in Nat \ {0} /\ MaxEvents \in Nat
    /\ StartAge \in [DOMAIN StartAge -> Nat]
    /\ \A p \in Jobsets : /\ Rows[p] \subseteq Nat \X (DOMAIN StartAge) \X Nat
                          /\ IsFiniteSet(Rows[p])

VARIABLES
    dbprio, dbshares,  \* what the database says: build -> priority, jobset -> shares
    notes,      \* notifications the listener has not taken: bumped, shares
    monitor,    \* the queue monitor: [pc, todo, shares]
    global,     \* build -> global_priority of the Build in builds, once it is there
    prio,       \* step -> [global, local, id, jobsets]
    runnable, tried,   \* steps: runnable, and those of them with tries > 0
    share,      \* step -> lowest_share_used of its StepInfo
    jobset,     \* jobset -> [steps, seconds, shares], once it is created
    elapsed,    \* time since the start
    queue,      \* the queue
    disp, triggered,   \* the dispatcher, and whether a trigger waits for it
    sort_fn, reload,   \* step_sort_fn, and a reload under way
    missed,     \* a change of shares was not taken over: an error (history)
    events

dbVars   == <<dbprio, dbshares, notes>>
stepVars == <<global, prio, runnable, tried>>
dispVars == <<share, queue, disp>>
vars == <<dbVars, monitor, stepVars, jobset, elapsed, dispVars, triggered, sort_fn, reload, missed, events>>

MaxId == Max(Builds) + 1
SortFns == {"Legacy", "WithRdeps"}
StepType == [global : Priorities \cup {0}, local : Nat, id : Builds \cup {MaxId}, jobsets : SUBSET Jobsets]

(* The seconds that steps in Rows took. *)
Duration == [r \in UNION {Rows[p] : p \in Jobsets} |-> r[3]]
Seconds(rows) == SumFunctionOnSet(Duration, rows)
Waiting == [pc |-> "wait", todo |-> <<>>, shares |-> <<>>]

(* The variables have their types. *)
TypeOK ==
    /\ dbprio \in [Builds -> Priorities] /\ dbshares \in [Jobsets -> SharesOf]
    /\ notes \subseteq {"bumped", "shares"}
    /\ monitor.pc \in {"wait", "read", "run", "bumped", "shares"}
    /\ DOMAIN global \subseteq Builds /\ Range(global) \subseteq Priorities
    /\ prio \in [Steps -> StepType] /\ tried \subseteq runnable /\ runnable \subseteq Steps
    /\ DOMAIN jobset \subseteq Jobsets
    /\ \A p \in DOMAIN jobset : jobset[p].shares \in SharesOf /\ jobset[p].seconds \in Nat
    /\ elapsed \in 0..SchedulingWindow /\ IsInjective(queue) /\ Range(queue) \subseteq runnable
    /\ disp \in {"idle", "new"} /\ triggered \in BOOLEAN /\ missed \in BOOLEAN
    /\ sort_fn \in SortFns /\ reload \in SortFns \cup {"none"} /\ events \in 0..MaxEvents

Init ==
    /\ dbprio = [b \in Builds |-> Min(Priorities)] /\ dbshares = [p \in Jobsets |-> Min(SharesOf)]
    /\ notes = {} /\ monitor = [Waiting EXCEPT !.pc = "read"] /\ global = << >>
    /\ prio = [s \in Steps |-> [global |-> 0, local |-> 0, id |-> MaxId, jobsets |-> {}]]
    /\ runnable = {} /\ tried = {} /\ share = [s \in Steps |-> NoJobset]
    /\ jobset = << >> /\ elapsed = 0 /\ queue = <<>> /\ disp = "idle" /\ triggered = FALSE
    /\ sort_fn = "Legacy" /\ reload = "none" /\ missed = FALSE /\ events = 0

Event == events < MaxEvents /\ events' = events + 1

-----------------------------------------------------------------------------
(* The web interface changes a row and notifies.                           *)

Bump(b, n) ==
    /\ n # dbprio[b] /\ Event
    /\ dbprio' = [dbprio EXCEPT ![b] = n] /\ notes' = notes \cup {"bumped"}
    /\ UNCHANGED <<dbshares, monitor, stepVars, jobset, elapsed, dispVars, triggered, sort_fn, reload, missed>>

ChangeShares(p, n) ==
    /\ n # dbshares[p] /\ Event
    /\ dbshares' = [dbshares EXCEPT ![p] = n] /\ notes' = notes \cup {"shares"}
    /\ UNCHANGED <<dbprio, monitor, stepVars, jobset, elapsed, dispVars, triggered, sort_fn, reload, missed>>

-----------------------------------------------------------------------------
(* The queue monitor: a queue run, then one notification, and again.       *)

monitorOnly == UNCHANGED <<dbprio, dbshares, elapsed, dispVars, sort_fn, reload>>

(* get_not_finished_builds: the highest priority first, else in any order. *)
(* It may fail.                                                            *)
ReadBuilds ==
    /\ monitor.pc = "read"
    /\ \E order \in SetToSeqs(Builds) :
       /\ \A i, k \in 1..Len(order) : i < k => dbprio[order[i]] >= dbprio[order[k]]
       /\ monitor' = [monitor EXCEPT !.pc = "run",
                         !.todo = [i \in 1..Len(order) |-> <<order[i], dbprio[order[i]]>>]]
    /\ monitorOnly /\ UNCHANGED <<notes, stepVars, jobset, triggered, missed, events>>

ReadFails ==
    /\ monitor.pc = "read" /\ Event
    /\ monitorOnly /\ UNCHANGED <<notes, monitor, stepVars, jobset, triggered, missed>>

(* Jobsets::create for the next build: the shares are read, then the rows  *)
(* of the steps, in any order; of those with one start steps keeps one.    *)
ToCreate == {JobsetOf[monitor.todo[i][1]] : i \in 1..Len(monitor.todo)} \ DOMAIN jobset

ReadShares ==
    /\ monitor.pc = "run" /\ monitor.shares = <<>> /\ ToCreate # {}
    /\ \E p \in ToCreate : monitor' = [monitor EXCEPT !.shares = <<p, dbshares[p]>>]
    /\ monitorOnly /\ UNCHANGED <<notes, stepVars, jobset, triggered, missed, events>>

CreateJobset ==
    /\ monitor.pc = "run" /\ monitor.shares # <<>>
    /\ LET p == monitor.shares[1] IN
       \E last \in [{r[2] : r \in Rows[p]} -> Rows[p]] :
       /\ \A s \in DOMAIN last : last[s][2] = s
       /\ jobset' = [q \in DOMAIN jobset \cup {p} |-> IF q # p THEN jobset[q] ELSE
             [steps   |-> [s \in DOMAIN last |-> last[s][3]],
              seconds |-> Seconds(Rows[p]),
              shares  |-> monitor.shares[2]]]
    /\ monitor' = [monitor EXCEPT !.shares = <<>>]
    /\ monitorOnly /\ UNCHANGED <<notes, stepVars, triggered, missed, events>>

(* propagate_priorities, of builds with the global priorities g. *)
Propagated(g) ==
    [s \in Steps |->
        LET bs == {b \in DOMAIN g : s \in NeedsOf[b]} IN
        [global  |-> Max({prio[s].global} \cup {g[b] : b \in bs}),
         local   |-> Max({prio[s].local} \cup {LocalOf[b] : b \in bs}),
         id      |-> Min({prio[s].id} \cup bs),
         jobsets |-> prio[s].jobsets \cup {JobsetOf[b] : b \in bs}]]

(* create_build, with the priority read before: the Build replaces the one *)
(* that was there; its steps become runnable, or wait for others           *)
(* (StepGraph).                                                            *)
CreateBuild ==
    /\ monitor.pc = "run" /\ ToCreate = {} /\ monitor.todo # <<>>
    /\ LET b == Head(monitor.todo)[1]
           n == Head(monitor.todo)[2] IN
       /\ global' = [c \in DOMAIN global \cup {b} |-> IF c = b THEN n ELSE global[c]]
       /\ prio' = Propagated([c \in {b} |-> n])
    /\ monitor' = [monitor EXCEPT !.todo = Tail(@)]
    /\ monitorOnly /\ UNCHANGED <<notes, runnable, tried, jobset, triggered, missed, events>>

(* The end of process_new_builds; then the loop waits. *)
EndRun ==
    /\ monitor.pc = "run" /\ monitor.todo = <<>>
    /\ triggered' = TRUE /\ monitor' = Waiting
    /\ monitorOnly /\ UNCHANGED <<notes, stepVars, jobset, missed, events>>

Notified(n) ==
    /\ monitor.pc = "wait" /\ n \in notes
    /\ notes' = notes \ {n}
    /\ monitor' = [Waiting EXCEPT !.pc = n]
    /\ monitorOnly /\ UNCHANGED <<stepVars, jobset, triggered, missed, events>>

(* Mutant of ProcessQueueChange: the steps are not told. *)
ChangeBuildsOnly ==
    /\ monitor.pc = "bumped"
    /\ global' = [b \in DOMAIN global |-> Max({global[b], dbprio[b]})]
    /\ monitor' = [Waiting EXCEPT !.pc = "wait"]
    /\ monitorOnly /\ UNCHANGED <<notes, prio, runnable, tried, jobset, triggered, missed, events>>

(* process_queue_change: update_priorities of the builds whose priority    *)
(* has increased.  It may fail.  A queue run follows.                      *)
ProcessQueueChange ==
    LET more == {b \in DOMAIN global : global[b] < dbprio[b]} IN
    /\ monitor.pc = "bumped"
    /\ \/ /\ global' = [b \in DOMAIN global |-> IF b \in more THEN dbprio[b] ELSE global[b]]
          /\ prio' = Propagated([b \in more |-> dbprio[b]])
          /\ UNCHANGED events
       \/ Event /\ UNCHANGED <<global, prio>>
    /\ monitor' = [Waiting EXCEPT !.pc = "read"]
    /\ monitorOnly /\ UNCHANGED <<notes, runnable, tried, jobset, triggered, missed>>

(* handle_change: the shares of the jobsets there are.  An error is logged. *)
HandleChange ==
    /\ monitor.pc = "shares"
    /\ \/ /\ jobset' = [p \in DOMAIN jobset |-> [jobset[p] EXCEPT !.shares = dbshares[p]]]
          /\ missed' = FALSE /\ UNCHANGED events
       \/ Event /\ missed' = TRUE /\ UNCHANGED jobset
    /\ monitor' = [Waiting EXCEPT !.pc = "read"]
    /\ monitorOnly /\ UNCHANGED <<notes, stepVars, triggered>>

Monitor == ReadBuilds \/ ReadShares \/ CreateJobset \/ CreateBuild \/ EndRun
           \/ Notified("bumped") \/ Notified("shares") \/ ProcessQueueChange \/ HandleChange

-----------------------------------------------------------------------------
(* Steps become runnable, are tried again, and end.                        *)

stepOnly == UNCHANGED <<dbVars, monitor, global, prio, jobset, elapsed, share, disp, sort_fn, reload, missed>>

(* By a queue run or the end of a step it waited for; both trigger. *)
MakeRunnable(s) ==
    /\ s \notin runnable /\ s \in UNION {NeedsOf[b] : b \in DOMAIN global}
    /\ runnable' = runnable \cup {s} /\ triggered' = TRUE
    /\ stepOnly /\ UNCHANGED <<tried, queue, events>>

Retry(s) ==
    /\ s \in Range(queue) \ tried /\ Event
    /\ tried' = tried \cup {s} /\ triggered' = TRUE
    /\ stepOnly /\ UNCHANGED <<runnable, queue>>

EndStep(s) ==
    /\ \E i \in 1..Len(queue) : queue[i] = s /\ queue' = RemoveAt(queue, i)
    /\ Event
    /\ runnable' = runnable \ {s} /\ tried' = tried \ {s} /\ triggered' = TRUE
    /\ stepOnly

-----------------------------------------------------------------------------
(* The dispatcher.                                                         *)

JobsetUsed(p) == <<jobset[p].seconds, jobset[p].shares>>
get_lowest_share_used(s) == LowestShareUsed({JobsetUsed(p) : p \in prio[s].jobsets})
Info(s, used) == [global |-> prio[s].global, local |-> prio[s].local, id |-> prio[s].id,
                  rdeps |-> RdepsOf[s], share |-> used]

(* sort_jobs: every job takes the share its step has now, then they are    *)
(* sorted.                                                                 *)
SortJobs(js, fn) ==
    \E now \in {[s \in Steps |-> IF s \in Range(js) THEN get_lowest_share_used(s) ELSE share[s]]} :
    \E info \in {[s \in Steps |-> Info(s, now[s])]} :
        LET less(s, t) == Before(fn, info[s], info[t])
        IN share' = now /\ queue' = StableSort(js, less)

(* Mutant of PruneSteps: one unit of time too early. *)
PruneEarly(p) ==
    LET old == {s \in DOMAIN jobset[p].steps : StartAge[s] + elapsed + 1 >= SchedulingWindow} IN
    [jobset[p] EXCEPT
        !.steps = Restrict(@, DOMAIN @ \ old),
        !.seconds = @ - SumFunctionOnSet(jobset[p].steps, old)]

(* prune_steps. *)
PruneSteps(p) ==
    LET old == {s \in DOMAIN jobset[p].steps : StartAge[s] + elapsed >= SchedulingWindow} IN
    [jobset[p] EXCEPT
        !.steps = Restrict(@, DOMAIN @ \ old),
        !.seconds = @ - SumFunctionOnSet(jobset[p].steps, old)]

(* do_dispatch_once: jobsets are pruned; then the runnable steps without a *)
(* try that are not queued are, and the queue is sorted.  It is left as it *)
(* is where no step of its system is without a try.                        *)
Prune ==
    /\ disp = "idle" /\ triggered
    /\ triggered' = FALSE /\ disp' = "new"
    /\ jobset' = [p \in DOMAIN jobset |-> PruneSteps(p)]
    /\ UNCHANGED <<dbVars, monitor, stepVars, elapsed, share, queue, sort_fn, reload, missed, events>>

(* Mutant of InsertNewJobs: sorted only if there is a new job. *)
InsertNewOnly ==
    LET new == (runnable \ tried) \ Range(queue) IN
    /\ disp = "new" /\ disp' = "idle"
    /\ IF new = {} THEN UNCHANGED <<share, queue>>
       ELSE \E js \in {queue \o SetToSeq(new)} : SortJobs(js, sort_fn)
    /\ UNCHANGED <<dbVars, monitor, stepVars, jobset, elapsed, triggered, sort_fn, reload, missed, events>>

InsertNewJobs ==
    LET new == (runnable \ tried) \ Range(queue) IN
    /\ disp = "new" /\ disp' = "idle"
    /\ IF runnable \ tried = {} THEN UNCHANGED <<share, queue>>
       ELSE \E js \in {queue \o SetToSeq(new)} : SortJobs(js, sort_fn)
    /\ UNCHANGED <<dbVars, monitor, stepVars, jobset, elapsed, triggered, sort_fn, reload, missed, events>>

(* reload_config_callback sorts by the function that is to be replaced;    *)
(* then the configuration is swapped.                                      *)
ReloadQueues(fn) ==
    /\ reload = "none" /\ fn # sort_fn /\ Event
    /\ SortJobs(queue, sort_fn) /\ reload' = fn
    /\ UNCHANGED <<dbVars, monitor, stepVars, jobset, elapsed, disp, triggered, sort_fn, missed>>

ReloadSwap ==
    /\ reload # "none"
    /\ sort_fn' = reload /\ reload' = "none"
    /\ UNCHANGED <<dbVars, monitor, stepVars, jobset, elapsed, dispVars, triggered, missed, events>>

Dispatcher == Prune \/ InsertNewJobs

Tick ==
    /\ elapsed < SchedulingWindow /\ elapsed' = elapsed + 1
    /\ UNCHANGED <<dbVars, monitor, stepVars, jobset, dispVars, triggered, sort_fn, reload, missed, events>>

Next ==
    \/ Monitor \/ ReadFails \/ Dispatcher \/ ReloadSwap \/ Tick
    \/ \E b \in Builds, n \in Priorities : Bump(b, n)
    \/ \E p \in Jobsets, n \in SharesOf : ChangeShares(p, n)
    \/ \E s \in Steps : MakeRunnable(s) \/ Retry(s) \/ EndStep(s)
    \/ \E fn \in SortFns : ReloadQueues(fn)

(* Both loops go on while there is something for them. *)
Fairness == WF_vars(Monitor) /\ WF_vars(Dispatcher)

Spec == Init /\ [][Next]_vars /\ Fairness

-----------------------------------------------------------------------------
(* The comparisons are strict weak orders of the jobs in the queue, for    *)
(* the shares and priorities they have: sort_by gives no order and may     *)
(* panic where one is not transitive or two jobs come before each other.   *)
CompareIsOrder ==
    \A fn \in SortFns :
        LET less(s, t) == Before(fn, Info(s, share[s]), Info(t, share[t]))
            tied(s, t) == ~less(s, t) /\ ~less(t, s) IN
        \A s, t, u \in Range(queue) :
            /\ ~(less(s, t) /\ less(t, s))
            /\ less(s, t) /\ less(t, u) => less(s, u)
            /\ tied(s, t) /\ tied(t, u) => tied(s, u)

(* The share a jobset has used is never counted too low: its seconds cover *)
(* every step of the last SchedulingWindow, also two with one start, of    *)
(* which steps keeps one (add_step, prune_steps).                          *)
UsedCoversWindow ==
    \A p \in DOMAIN jobset :
        jobset[p].seconds >= Seconds({r \in Rows[p] : StartAge[r[2]] + elapsed < SchedulingWindow})

(* When the monitor waits and no notification is left, the database has    *)
(* reached the steps: none is below the priority of a build that needs it, *)
(* though the row changed during a queue run or process_queue_change       *)
(* failed; and jobsets have their shares, unless handle_change failed.     *)
ChangesArrive ==
    monitor.pc = "wait" /\ notes = {} =>
        /\ \A b \in DOMAIN global : \A s \in NeedsOf[b] : prio[s].global >= dbprio[b]
        /\ missed \/ \A p \in DOMAIN jobset : jobset[p].shares = dbshares[p]

(* A step that has risen above another one in the queue gets ahead of it,  *)
(* as long as some runnable step has not been tried (do_dispatch_once      *)
(* sorts only then): triggers are not lost between the two loops.          *)
Ahead(s, t) == \E i, k \in 1..Len(queue) : i < k /\ queue[i] = s /\ queue[k] = t
Above(s, t) == prio[s].global > prio[t].global
RisenGoFirst ==
    \A s \in Steps : \A t \in Steps \ {s} :
        (Ahead(t, s) /\ Above(s, t)) ~> (~Ahead(t, s) \/ ~Above(s, t) \/ runnable = tried)
=============================================================================
