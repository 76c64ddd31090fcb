------------------------------ MODULE BuildRows ------------------------------
(***************************************************************************)
(* The rows of builds and build steps in the database, the tasks that      *)
(* write them, and the processes those belong to: the lock file that keeps *)
(* a second queue runner out, and clear_busy, which ends the rows a dead   *)
(* process has left.                                                       *)
(*                                                                         *)
(* PostgreSQL is external: a statement sees what is committed and what its *)
(* own transaction wrote (READ COMMITTED), waits for the row or the key    *)
(* another transaction has written, and fails when the waits form a cycle. *)
(* A transaction of one statement is one step.  Times, outputs, products,  *)
(* metrics and notifications are written with the row they belong to.      *)
(***************************************************************************)
EXTENDS Naturals, FiniteSets, FiniteSetsExt, Functions

CONSTANTS
    Builds,
    Steps,       \* steps that are built
    Monitored,   \* builds the queue monitor creates
    Monitors,    \* processes without disable_queue_monitor_loop
    BuildOf,     \* step -> the build its job is for
    Direct,      \* step -> the builds it is the top level of
    Dependents,  \* step -> the builds that depend on it
    MaxRetries,  \* max_retries
    MaxStarts,   \* bound: processes of the queue runner
    MaxEvents    \* bound: cancellations, errors of the database, retries and crashes

Procs   == 1..MaxStarts
Tasks   == Steps \cup Monitored
Workers == Procs \X Tasks

ASSUME RowsAssumption ==
    /\ Monitored \subseteq Builds /\ Steps \cap Builds = {}
    /\ BuildOf \in [Steps -> Builds]
    /\ Direct \in [Steps -> SUBSET Builds] /\ Dependents \in [Steps -> SUBSET Builds]
    /\ \A s \in Steps : Direct[s] \subseteq Dependents[s] /\ BuildOf[s] \in Dependents[s]
    /\ MaxRetries \in Nat /\ MaxStarts \in Nat /\ MaxEvents \in Nat

VARIABLES
    inst,     \* process -> off, opened, running, stopping, unlocked
    handle,   \* process -> the inode it has open, 0 if none
    path,     \* the inode the path of the lock file names, 0 if none
    row,      \* buildsteps: <<build, stepnr>> -> its row
    build,    \* builds: "open", or the status it is finished with
    cached,   \* builds with isCachedBuild
    work,     \* worker -> its state
    finished, \* process -> the builds it has set_finished_in_db
    built,    \* steps whose outputs are valid
    starts, events

procVars == <<inst, handle, path, starts>>
vars == <<procVars, row, build, cached, work, finished, built, events>>

Failures == {"Failed", "CachedFailure", "Unsupported"}
Statuses == Failures \cup {"Success", "Aborted", "DepFailed", "Cancelled"}
NoKey    == <<>>

(* pc: idle, tx (in a transaction), running, finish, over, dead; the       *)
(* transaction inserts a row for the builds in want, at is the key it      *)
(* tries, and then finishes those in mark; done are those it is done with; *)
(* checked is the build that check_if_build_is_not_finished found open.    *)
(* left holds the busy rows of jobs that were given up after an error.     *)
Idle == [pc |-> "idle", nr |-> 0, status |-> "Busy", tries |-> 0, can_retry |-> FALSE,
         want |-> {}, at |-> NoKey, mark |-> {}, checked |-> {}, ins |-> {}, upd |-> {},
         done |-> {}, left |-> {}]

IsKey(k) == k[1] \in Builds /\ k[2] \in Nat
(* busy: 0, 1 as the row is made, 2 for the levels of a StepStatus. *)
RowType  == [busy : 0..2, status : Statuses \cup {"NULL"}]

(* The variables have their types. *)
TypeOK ==
    /\ inst \in [Procs -> {"off", "opened", "running", "stopping", "unlocked"}]
    /\ handle \in [Procs -> 0..MaxStarts] /\ path \in 0..MaxStarts
    /\ \A k \in DOMAIN row : IsKey(k) /\ row[k] \in RowType
    /\ build \in [Builds -> Statuses \cup {"open"}] /\ cached \subseteq Builds
    /\ \A x \in Workers :
       /\ work[x].pc \in {"idle", "tx", "running", "finish", "over", "dead"}
       /\ work[x].status \in Statuses \cup {"Busy"}
       /\ work[x].tries \in Nat /\ (work[x].tries > 0 => work[x].tries < MaxRetries)
       /\ work[x].can_retry \in BOOLEAN
       /\ work[x].want \cup work[x].mark \cup work[x].checked \cup work[x].done \subseteq Builds
       /\ \A k \in work[x].ins \cup work[x].left : IsKey(k)
       /\ work[x].upd \subseteq Builds
    /\ finished \in [Procs -> SUBSET Builds] /\ built \subseteq Steps
    /\ starts \in 0..MaxStarts /\ events \in 0..MaxEvents

Init ==
    /\ inst = [p \in Procs |-> "off"] /\ handle = [p \in Procs |-> 0] /\ path = 0
    /\ row = << >> /\ build = [b \in Builds |-> "open"] /\ cached = {}
    /\ work = [x \in Workers |-> Idle]
    /\ finished = [p \in Procs |-> {}] /\ built = {} /\ starts = 0 /\ events = 0

Event == events < MaxEvents /\ events' = events + 1
Set(x, w) == work' = [work EXCEPT ![x] = w]

-----------------------------------------------------------------------------
(* Processes, numbered as they start; an inode has the number of the       *)
(* process that created it.                                                *)

Unlinked == UNCHANGED <<row, build, cached, work, finished, built, events>>
HoldsLock(p) == inst[p] \in {"running", "stopping"}

(* acquire: File::create opens the file, or makes one. *)
OpenLock(p) ==
    /\ p = starts + 1
    /\ starts' = p
    /\ path' = IF path = 0 THEN p ELSE path
    /\ handle' = [handle EXCEPT ![p] = path']
    /\ inst' = [inst EXCEPT ![p] = "opened"]
    /\ Unlinked

ClearBusy == row' = [k \in DOMAIN row |->
    IF row[k].busy # 0 THEN [busy |-> 0, status |-> "Aborted"] ELSE row[k]]

(* acquire: try_lock, of the file that was opened. *)
LockFree(p) == \A q \in Procs \ {p} : HoldsLock(q) => handle[q] # handle[p]

Refused(p) ==
    /\ inst[p] = "opened" /\ ~LockFree(p)
    /\ inst' = [inst EXCEPT ![p] = "off"] /\ handle' = [handle EXCEPT ![p] = 0]
    /\ UNCHANGED <<path, starts>> /\ Unlinked

(* Mutant of StartLoops: what is busy is left alone. *)
StartLoopsAtOnce(p) ==
    /\ inst[p] = "opened" /\ LockFree(p)
    /\ inst' = [inst EXCEPT ![p] = "running"]
    /\ finished' = [finished EXCEPT ![p] = {b \in Builds : build[b] # "open"}]
    /\ UNCHANGED <<handle, path, starts, row, build, cached, work, built, events>>

(* With the lock, main clears what is busy and starts the loops and the    *)
(* servers; the first queue run reads the builds that are open.            *)
StartLoops(p) ==
    /\ inst[p] = "opened" /\ LockFree(p)
    /\ ClearBusy
    /\ inst' = [inst EXCEPT ![p] = "running"]
    /\ finished' = [finished EXCEPT ![p] = {b \in Builds : build[b] # "open"}]
    /\ UNCHANGED <<handle, path, starts, build, cached, work, built, events>>

(* Loops are aborted where they are, and with them the dispatcher, the     *)
(* queue monitor and their open transactions; spawned tasks go on.         *)
InLoop(x) ==
    \/ x[2] \in Monitored
    \/ work[x].pc \in {"tx", "finish"} /\ work[x].status \in {"Busy", "CachedFailure", "Unsupported"}
Again(x) == [Idle EXCEPT !.tries = work[x].tries, !.left = work[x].left]

Signal(p) ==
    /\ inst[p] = "running"
    /\ inst' = [inst EXCEPT ![p] = "stopping"]
    /\ work' = [x \in Workers |-> IF x[1] = p /\ InLoop(x) THEN Again(x) ELSE work[x]]
    /\ UNCHANGED <<handle, path, starts, row, build, cached, finished, built, events>>

(* remove_all_machines has failed every job (FailRunning); then what is    *)
(* still busy is cleared, if that works, and main returns: the lock is     *)
(* dropped, which unlocks the file and then removes it by its path.  Tasks *)
(* of the process may run until it is gone.                                *)
Unlock(p) ==
    /\ inst[p] = "stopping" /\ \A t \in Tasks : work[<<p, t>>].pc # "running"
    /\ \/ ClearBusy /\ UNCHANGED events
       \/ Event /\ UNCHANGED row
    /\ inst' = [inst EXCEPT ![p] = "unlocked"]
    /\ UNCHANGED <<handle, path, starts, build, cached, work, finished, built>>

Gone(p) ==
    /\ inst' = [inst EXCEPT ![p] = "off"] /\ handle' = [handle EXCEPT ![p] = 0]
    /\ work' = [x \in Workers |-> IF x[1] = p THEN Idle ELSE work[x]]
    /\ finished' = [finished EXCEPT ![p] = {}]
    /\ UNCHANGED <<starts, row, build, cached, built>>

RemoveFile(p) == inst[p] = "unlocked" /\ path' = 0 /\ Gone(p) /\ UNCHANGED events

(* The process dies: open transactions are rolled back, and the kernel     *)
(* gives the lock back.                                                    *)
Crash(p) == inst[p] \in {"running", "stopping"} /\ Event /\ Gone(p) /\ UNCHANGED path

-----------------------------------------------------------------------------
(* Transactions.                                                           *)

OnlyWork == UNCHANGED <<procVars, row, build, cached, finished, built, events>>
InTx(x)  == work[x].pc = "tx"

(* Begin a transaction that inserts rows for want and finishes mark. *)
Begin(w, status, want, mark) ==
    [w EXCEPT !.pc = "tx", !.status = status, !.want = want, !.at = NoKey, !.mark = mark,
              !.checked = {}, !.ins = {}, !.upd = {}, !.done = {}]

(* alloc_build_step: one more than the largest number it sees. *)
StepNrs(x, b) == {k[2] : k \in {k \in DOMAIN row \cup work[x].ins : k[1] = b}}
NextNr(x, b)  == IF StepNrs(x, b) = {} THEN 1 ELSE Max(StepNrs(x, b)) + 1

(* Mutant of AllocBuildStep: the number is taken once, before the loop. *)
AllocOnce(x) ==
    /\ InTx(x)
    /\ \/ /\ work[x].at = NoKey
          /\ \E b \in work[x].want : Set(x, [work[x] EXCEPT !.at = <<b, NextNr(x, b)>>])
       \/ work[x].at # NoKey /\ work[x].at \in DOMAIN row /\ UNCHANGED work
    /\ OnlyWork

(* The rows are made one after the other, in the order of a hash set; a    *)
(* number that is taken by now is taken again for the same build.          *)
AllocBuildStep(x) ==
    /\ InTx(x)
    /\ \/ work[x].at = NoKey
       \/ work[x].at \in DOMAIN row
    /\ \E b \in IF work[x].at = NoKey THEN work[x].want ELSE {work[x].at[1]} :
       Set(x, [work[x] EXCEPT !.at = <<b, NextNr(x, b)>>])
    /\ OnlyWork

(* Mutant of InsertBuildStep: a row that is there is taken over. *)
InsertAnyway(x) ==
    LET k == work[x].at IN
    /\ InTx(x) /\ k # NoKey
    /\ Set(x, [work[x] EXCEPT !.at = NoKey, !.want = @ \ {k[1]}, !.ins = @ \cup {k}])
    /\ OnlyWork

(* insert_build_step, ON CONFLICT DO NOTHING: it waits for a transaction   *)
(* that has the key; when that commits, nothing is inserted.               *)
InsertWaits(x, y) == InTx(x) /\ work[x].at \in work[y].ins
InsertBuildStep(x) ==
    LET k == work[x].at IN
    /\ InTx(x) /\ k # NoKey /\ k \notin DOMAIN row
    /\ \A y \in Workers \ {x} : ~InsertWaits(x, y)
    /\ Set(x, [work[x] EXCEPT !.at = NoKey, !.want = @ \ {k[1]}, !.ins = @ \cup {k}])
    /\ OnlyWork

(* mark_succeeded_build looks at the build first, without a lock, and then *)
(* updates it whatever has happened to it.                                 *)
Rows(x)    == work[x].want = {}
Passed(x, b) == Set(x, [work[x] EXCEPT !.mark = @ \ {b}, !.checked = {}, !.done = @ \cup {b}])
Marked(x, b) == Set(x, [work[x] EXCEPT !.mark = @ \ {b}, !.checked = {}, !.done = @ \cup {b},
                                       !.upd = @ \cup {b}])

CheckNotFinished(x, b) ==
    /\ InTx(x) /\ Rows(x) /\ work[x].status = "Success" /\ b \in work[x].mark /\ work[x].checked = {}
    /\ IF build[b] = "open" THEN Set(x, [work[x] EXCEPT !.checked = {b}]) ELSE Passed(x, b)
    /\ OnlyWork

UpdateWaits(x, b, y) ==
    /\ InTx(x) /\ Rows(x) /\ b \in work[x].mark /\ b \in work[y].upd
    /\ work[x].status = "Success" => b \in work[x].checked

UpdateBuild(x, b) ==
    /\ InTx(x) /\ b \in work[x].checked
    /\ \A y \in Workers \ {x} : ~UpdateWaits(x, b, y)
    /\ Marked(x, b)
    /\ OnlyWork

(* Mutant of UpdateAfterFailure: the build need not be open. *)
UpdateAnyAfterFailure(x, b) ==
    /\ InTx(x) /\ Rows(x) /\ work[x].status \in Failures /\ b \in work[x].mark
    /\ \A y \in Workers \ {x} : ~UpdateWaits(x, b, y)
    /\ Marked(x, b)
    /\ OnlyWork

(* update_build_after_failure and update_build_after_previous_failure      *)
(* change an open build only.                                              *)
UpdateAfterFailure(x, b) ==
    /\ InTx(x) /\ Rows(x) /\ work[x].status \in Failures /\ b \in work[x].mark
    /\ \A y \in Workers \ {x} : ~UpdateWaits(x, b, y)
    /\ IF build[b] = "open" THEN Marked(x, b) ELSE Passed(x, b)
    /\ OnlyWork

(* What a finished build gets: its status, and whether it was cached.  The *)
(* step that has failed before is the build's own.                         *)
BuildStatus(x, b) ==
    CASE x[2] \in Monitored /\ work[x].status = "CachedFailure" -> "Failed"
      [] x[2] \in Steps /\ work[x].status = "Failed" /\ b \notin Direct[x[2]] -> "DepFailed"
      [] OTHER -> work[x].status
IsCached(x, b) ==
    \/ x[2] \in Monitored
    \/ work[x].status = "CachedFailure"
    \/ work[x].status = "Success" /\ b # BuildOf[x[2]]

(* create_build_step makes a busy row when the status is Busy, else one    *)
(* that is over.  When a call after the commit fails, the job is given up  *)
(* and its row stays; the step is tried again.                             *)
NewRow(status) == IF status = "Busy" THEN [busy |-> 1, status |-> "NULL"]
                  ELSE [busy |-> 0, status |-> status]

Commit(x) ==
    LET w == work[x] IN
    /\ InTx(x) /\ w.want = {} /\ w.at = NoKey /\ w.mark = {}
    /\ row' = [k \in DOMAIN row \cup w.ins |-> IF k \in w.ins THEN NewRow(w.status) ELSE row[k]]
    /\ build' = [b \in Builds |-> IF b \in w.upd THEN BuildStatus(x, b) ELSE build[b]]
    /\ cached' = {b \in Builds : IF b \in w.upd THEN IsCached(x, b) ELSE b \in cached}
    /\ IF w.status = "Busy"
       THEN /\ \/ /\ Set(x, [Again(x) EXCEPT !.pc = "running",
                                            !.nr = CHOOSE n \in {k[2] : k \in w.ins} : TRUE])
                  /\ UNCHANGED events
               \/ Event /\ Set(x, [Again(x) EXCEPT !.left = @ \cup w.ins])
            /\ UNCHANGED finished
       ELSE /\ Set(x, [Again(x) EXCEPT !.pc = "over"])
            /\ finished' = [finished EXCEPT ![x[1]] = @ \cup w.done]
            /\ UNCHANGED events
    /\ UNCHANGED <<procVars, built>>

(* The server ends a cycle of waiting transactions: the statement fails,   *)
(* the transaction is rolled back and its task returns the error.  The     *)
(* dispatcher then tries the step again; what fail_step or succeed_step    *)
(* had left to do nobody does.                                             *)
Waits(x, y) == x # y /\ (InsertWaits(x, y) \/ \E b \in Builds : UpdateWaits(x, b, y))
Deadlocked(x) ==
    \E S \in SUBSET {y \in Workers : InTx(y)} : x \in S /\ \A y \in S :
        (\E z \in S : Waits(y, z)) /\ (\E z \in S : Waits(z, y))
Failed(x) == IF work[x].status = "Busy" THEN Again(x)
             ELSE [Again(x) EXCEPT !.pc = "dead",
                   !.left = IF x[2] \in Steps /\ work[x].nr # 0 /\ work[x].pc = "finish"
                            THEN @ \cup {<<BuildOf[x[2]], work[x].nr>>} ELSE @]

Deadlock(x) ==
    /\ InTx(x) /\ Deadlocked(x)
    /\ Set(x, Failed(x))
    /\ OnlyWork

(* A call of the database fails: get, a statement or the commit. *)
DatabaseFails(x) ==
    /\ work[x].pc \in {"tx", "finish"} /\ Event
    /\ Set(x, Failed(x))
    /\ UNCHANGED <<procVars, row, build, cached, finished, built>>

-----------------------------------------------------------------------------
(* Jobs.                                                                   *)

(* realise_drv_on_valid_machine makes the row of the job; a step that has  *)
(* failed before, or that no machine supports, fails without one.  What    *)
(* check_cached_failure finds in failedpaths, a table that is Hydra's, is  *)
(* left open.                                                              *)
AtOnce == {"Unsupported", "CachedFailure"}
RealiseDrv(p, s) ==
    LET x == <<p, s>> IN
    /\ inst[p] = "running" /\ work[x].pc = "idle" /\ s \notin built
    /\ Dependents[s] \ finished[p] # {}
    /\ \/ Set(x, Begin(work[x], "Busy", {BuildOf[s]}, {}))
       \/ \E status \in AtOnce : Set(x, [work[x] EXCEPT !.pc = "finish", !.status = status])
    /\ OnlyWork

(* update_build_step, called by realise_drv_on_valid_machine and spawned   *)
(* by build_step_update: it comes at any time after the row, also when the *)
(* job is over, and changes the level of busy of a row that is busy.       *)
Leveled(k) == IF row[k].busy # 0 /\ row[k].status = "NULL"
              THEN [row EXCEPT ![k].busy = 2] ELSE row

UpdateBuildStep(k) ==
    /\ \E p \in Procs : inst[p] \in {"running", "stopping", "unlocked"}
    /\ row' = Leveled(k)
    /\ UNCHANGED <<procVars, build, cached, work, finished, built, events>>

(* succeed_step or fail_step takes the job from the machine; a failure of  *)
(* the machine's may be retried, one of the build not.                     *)
EndJob(p, s) ==
    LET x == <<p, s>> IN
    /\ work[x].pc = "running"
    /\ \/ /\ Set(x, [work[x] EXCEPT !.pc = "finish", !.status = "Success"])
          /\ built' = built \cup {s} /\ UNCHANGED events
       \/ /\ Set(x, [work[x] EXCEPT !.pc = "finish", !.status = "Failed"])
          /\ UNCHANGED <<built, events>>
       \/ /\ Set(x, [work[x] EXCEPT !.pc = "finish", !.status = "Failed", !.can_retry = TRUE])
          /\ Event /\ UNCHANGED built
    /\ UNCHANGED <<procVars, row, build, cached, finished>>

(* Mutant of FailedRows: no row where the job has its build. *)
FewerRows(x) == {b \in Dependents[x[2]] \ finished[x[1]] :
    b # BuildOf[x[2]] /\ ~(work[x].status = "CachedFailure" /\ b \in Direct[x[2]])}

(* Rows inner_fail_job makes, and the builds it finishes. *)
FailedRows(x) ==
    {b \in Dependents[x[2]] \ finished[x[1]] :
        /\ ~(work[x].status = "CachedFailure" /\ b \in Direct[x[2]])
        /\ ~(work[x].status = "Failed" /\ b = BuildOf[x[2]])}

(* update_build_step_in_finish *)
FinishedRow(status) == [busy |-> 0, status |-> status]

(* finish_build_step ends the row of the job, if there is one, whatever it *)
(* says by now; then a retry is left for later, a success finishes the     *)
(* direct builds and a failure all that depend on the step.                *)
FinishBuildStep(p, s) ==
    LET x == <<p, s>>
        w == work[x]
        k == <<BuildOf[s], w.nr>>
        open == Dependents[s] \ finished[p] IN
    /\ w.pc = "finish"
    /\ row' = IF w.nr # 0 /\ k \in DOMAIN row
              THEN [row EXCEPT ![k] = FinishedRow(w.status)] ELSE row
    /\ \/ /\ w.can_retry /\ w.tries + 1 < MaxRetries
          /\ Set(x, [Again(x) EXCEPT !.tries = w.tries + 1])
       \/ /\ w.status = "Success"
          /\ Set(x, Begin(w, w.status, {}, Direct[s] \ finished[p]))
       \/ /\ w.status \in Failures /\ ~(w.can_retry /\ w.tries + 1 < MaxRetries)
          /\ Set(x, Begin(w, w.status, FailedRows(x), open))
    /\ UNCHANGED <<procVars, build, cached, finished, built, events>>

(* remove_all_machines at a shutdown: the job fails as one that could not  *)
(* be prepared, and is a try.                                              *)
FailRunning(p, s) ==
    /\ inst[p] = "stopping" /\ work[<<p, s>>].pc = "running"
    /\ Set(<<p, s>>, [work[<<p, s>>] EXCEPT !.pc = "finish", !.status = "Failed",
                                                !.can_retry = TRUE])
    /\ OnlyWork

-----------------------------------------------------------------------------
(* The queue monitor, for a build.                                         *)

(* substitute_output makes a row for what it has substituted, a success.   *)
(* handle_previous_failure and handle_cached_build finish the build.       *)
SubstitutionStep(w, b) == Begin(w, "Success", {b}, {})

CreateBuild(p, b) ==
    LET x == <<p, b>> IN
    /\ inst[p] = "running" /\ p \in Monitors /\ work[x].pc = "idle" /\ b \notin finished[p]
    /\ \/ Set(x, SubstitutionStep(work[x], b))
       \/ Set(x, Begin(work[x], "CachedFailure", {b}, {b}))
       \/ Set(x, Begin(work[x], "Success", {}, {b}))
    /\ OnlyWork

(* The derivation of the build was collected: abort_build. *)
AbortBuild(p, b) ==
    /\ inst[p] = "running" /\ p \in Monitors /\ work[<<p, b>>].pc = "idle" /\ b \notin finished[p]
    /\ \A y \in Workers : b \notin work[y].upd
    /\ build' = IF build[b] = "open" THEN [build EXCEPT ![b] = "Aborted"] ELSE build
    /\ finished' = [finished EXCEPT ![p] = @ \cup {b}]
    /\ UNCHANGED <<procVars, row, cached, work, built, events>>

(* Hydra's web interface cancels a build in the database. *)
CancelBuild(b) ==
    /\ build[b] = "open" /\ Event
    /\ \A y \in Workers : b \notin work[y].upd
    /\ build' = [build EXCEPT ![b] = "Cancelled"]
    /\ UNCHANGED <<procVars, row, cached, work, finished, built>>

-----------------------------------------------------------------------------
TxStep(x) ==
    \/ AllocBuildStep(x) \/ InsertBuildStep(x) \/ Commit(x)
    \/ \E b \in Builds : CheckNotFinished(x, b) \/ UpdateBuild(x, b) \/ UpdateAfterFailure(x, b)

Next ==
    \/ \E p \in Procs :
       \/ OpenLock(p) \/ Refused(p) \/ StartLoops(p) \/ Signal(p) \/ Unlock(p) \/ RemoveFile(p)
       \/ Crash(p)
       \/ \E s \in Steps :
          \/ RealiseDrv(p, s) \/ EndJob(p, s)
          \/ FinishBuildStep(p, s) \/ FailRunning(p, s)
       \/ \E b \in Monitored : CreateBuild(p, b) \/ AbortBuild(p, b)
    \/ \E x \in Workers : TxStep(x) \/ Deadlock(x) \/ DatabaseFails(x)
    \/ \E k \in DOMAIN row : UpdateBuildStep(k)
    \/ \E b \in Builds : CancelBuild(b)

(* The runtime polls the tasks, and the server answers: of the open        *)
(* transactions one goes on, or is ended if it is in a cycle of waits.     *)
Fairness == WF_vars(\E x \in {y \in Workers : InTx(y)} : TxStep(x) \/ Deadlock(x))

Spec == Init /\ [][Next]_vars /\ Fairness

-----------------------------------------------------------------------------
(* A row is one job's: no two jobs that are alive have the same build and  *)
(* step number, and no transaction holds a number that is taken            *)
(* (create_build_step, called by jobs, failures and the queue monitor at   *)
(* once).                                                                  *)
HasRow(x) == x[2] \in Steps /\ work[x].nr # 0 /\ work[x].pc \in {"running", "finish"}
RowsUnique ==
    /\ \A x, y \in Workers : HasRow(x) /\ HasRow(y) /\ x # y =>
          <<BuildOf[x[2]], work[x].nr>> # <<BuildOf[y[2]], work[y].nr>>
    /\ \A x, y \in Workers : x # y => work[x].ins \cap work[y].ins = {}
    /\ \A x \in Workers : work[x].ins \cap DOMAIN row = {}

(* A busy row has somebody who is to end it, or whose call of the database *)
(* failed, in a process that is there; those of a process that is gone are *)
(* cleared before the next one starts its loops (clear_busy), and an       *)
(* update that comes late makes no row busy again (update_build_step).     *)
BusyHasOwner ==
    (\E p \in Procs : inst[p] = "running") =>
        \A k \in DOMAIN row : row[k].busy # 0 =>
            \E x \in Workers :
                \/ HasRow(x) /\ k = <<BuildOf[x[2]], work[x].nr>>
                \/ k \in work[x].left

(* A build that was built, or that failed, shows the step it was: a row of *)
(* its own with that outcome, committed no later than the build            *)
(* (finish_build_step before mark_succeeded_build, create_build_step and   *)
(* update_build_after_failure in one transaction).                         *)
Outcome(b, status) == \E k \in DOMAIN row : k[1] = b /\ row[k] = NewRow(status)
FinishedHasRow ==
    \A b \in Builds \ cached :
        /\ build[b] = "Success" => Outcome(b, "Success")
        /\ build[b] \in {"Failed", "DepFailed"} => Outcome(b, "Failed")
        /\ build[b] = "Unsupported" => Outcome(b, "Unsupported")

(* One queue runner at a time has got past acquire ("Another instance is   *)
(* already running.").                                                     *)
OneInstance ==
    \A p, q \in Procs : HoldsLock(p) /\ HoldsLock(q) => p = q

(* A build that is finished stays as it is, save for a success that looked *)
(* at it before (mark_succeeded_build): no failure, cached failure or      *)
(* abort replaces an outcome.                                              *)
OutcomeKept ==
    [][\A b \in Builds : build[b] # "open" => build'[b] \in {build[b], "Success"}]_vars

(* Transactions end: two that want the next number of one build, or the    *)
(* same builds in different orders, do not hold each other up for ever,    *)
(* and once nothing new begins none is left open.                          *)
TransactionsEnd == []<>(\A x \in Workers : ~InTx(x))
=============================================================================
