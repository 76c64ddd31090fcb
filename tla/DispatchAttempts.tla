-------------------------- MODULE DispatchAttempts --------------------------
(***************************************************************************)
(* Dispatch implements Attempts: a machine is on a derivation when its job *)
(* list has a job for it, the rows are those of the builds table.          *)
(***************************************************************************)
EXTENDS Dispatch

(* The machines whose job list names the derivation. *)
BuiltOn == [d \in Drvs |-> {m \in Machines : HasJob(m, d)}]

A == INSTANCE Attempts WITH on <- BuiltOn, stored <- built, row <- db

(* Every step of the dispatcher, of a task that ends a step, of the queue   *)
(* monitor and of a tunnel is, for the machines' job lists and the builds   *)
(* table, one step of Attempts or none: no derivation is started while a    *)
(* machine has it, none beyond a machine's capacity, no build succeeds      *)
(* whose derivation nobody built, and none that ended fails afterwards.     *)
ImplementsAttempts == A!Spec

-----------------------------------------------------------------------------
(* Why it does: what a task knows of its builds stays true. *)

(* A task that has a success to report has it from a builder, it works on  *)
(* the step of its derivation, and the builds it found want that step.     *)
RecordOk(r, bt, rows) ==
    /\ r.res = "Success" => r.todo \subseteq bt /\ (r.drv # NoDrv => r.drv \in bt)
    /\ r.pc = "idle" => r.ids = {}
    /\ r.pc # "idle" => r.step # NoStep /\ DrvOf[r.step] = r.drv
    /\ \A b \in r.ids : TopDrv[b] = r.drv /\ rows[b] # "absent"

(* The builds in memory hang on the step they want and have a row. *)
BuildsPlaced ==
    /\ \A b \in Builds : toplevel[b] # NoStep =>
           DrvOf[toplevel[b]] = TopDrv[b] /\ db[b] # "absent"
    /\ \A d \in Drvs : steps[d] # NoStep => DrvOf[steps[d]] = d
    /\ \A b \in mon.ids : db[b] # "absent"

TasksInformed == \A t \in TaskIds : RecordOk(task[t], built, db)
=============================================================================
