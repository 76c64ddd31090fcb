------------------------------- MODULE Builder -------------------------------
(***************************************************************************)
(* A builder and the queue runner's end of its tunnel: the messages that   *)
(* start and abort builds, the task of every build (import of the inputs,  *)
(* build, upload by either route, report), the table of active builds, and *)
(* what the queue runner makes of the report.                              *)
(*                                                                         *)
(* A task step runs to the next await that matters; within a step the      *)
(* calls of one loop are taken together and a failing step leaves what its *)
(* finished part wrote.  Nix (realisation, substitution, import) is        *)
(* external: a call succeeds or fails.                                     *)
(***************************************************************************)
EXTENDS BinaryCache, Sequences

CONSTANTS
    Jobs,            \* internal build ids
    Drvs,
    DrvOf,           \* job -> derivation
    DrvPaths,        \* the paths that are derivations (StorePath::is_drv)
    ClosureOf,       \* drv -> query_requisites without outputs, at the queue runner
    FullClosureOf,   \* drv -> the same with outputs
    OutsOf,          \* drv -> its output paths
    DownloadLimits,  \* the values max_concurrent_downloads may have
    Attempts,        \* attempts of complete_build
    MaxStarts,       \* bound: processes of the builder
    MaxEvents        \* bound: breaks, crashes, stops, cancellations, configuration updates

ASSUME BuilderAssumption ==
    /\ DrvOf \in [Jobs -> Drvs]
    /\ DrvPaths \subseteq Paths
    /\ \A f \in {ClosureOf, FullClosureOf, OutsOf} : f \in [Drvs -> SUBSET Paths]
    /\ \A d \in Drvs : ClosureOf[d] \subseteq FullClosureOf[d]
    /\ DownloadLimits \subseteq Nat
    /\ Attempts \in Nat \ {0} /\ MaxStarts \in Nat /\ MaxEvents \in Nat

VARIABLES
    proc,       \* the builder process: down, up, halting
    link,       \* the tunnel: none, up, broken
    tunnel,     \* messages on their way to the builder
    inserting,  \* jobs schedule_build has spawned and not yet entered
    active,     \* active_builds: the jobs with an entry
    task,       \* job -> its task
    downloads,  \* max_concurrent_downloads of the builder
    valid,      \* valid paths of the builder's store
    known,      \* the queue runner has the machine
    run,        \* job -> its life at the queue runner
    cancelling, \* jobs whose abort is sent and whose failure is to be recorded
    applying,   \* spawned tasks of complete_build: <<job, result>>
    rstore,     \* outputs valid in the queue runner's store
    presign,    \* use_presigned_uploads of the queue runner's configuration
    uploads,    \* outputs given to schedule_upload
    lost,       \* job -> why nobody will report it (history)
    skipped,    \* jobs whose upload was skipped by a failed query (history)
    starts, events

builderVars == <<proc, link, tunnel, inserting, active, task, downloads, valid>>
runnerVars  == <<known, run, cancelling, applying, rstore, presign, uploads>>
vars == <<builderVars, runnerVars, bucket, lost, skipped, starts, events>>

(* The kinds of JobFailure are one result here: what the queue runner      *)
(* makes of them is Dispatch's subject.                                    *)
Results == {"Success", "Failure"}
Ended   == Results \cup {"Cancelled"}
Reasons == {"", "swallowed", "panicked", "unreported", "early"}

WorkPcs == {"start", "import", "importOuts", "route", "upload", "notify", "report"}
LivePcs == WorkPcs \cup {"failed", "reportFail"}
Pcs     == LivePcs \cup {"none", "over"}

Idle == [pc |-> "none", todo |-> {}, size |-> 0, roots |-> {},
         urls |-> [p \in Paths |-> {}], left |-> 0, cancelled |-> FALSE, presigned |-> FALSE]
Over == [Idle EXCEPT !.pc = "over"]

TaskType == [pc : Pcs, todo : SUBSET Paths,
             size : DownloadLimits \cup {0, 5}, roots : SUBSET Paths,
             urls : [Paths -> SUBSET AllDebug], left : 0..Attempts,
             cancelled : BOOLEAN, presigned : BOOLEAN]

Messages == {<<"limit", n>> : n \in DownloadLimits}
            \cup {<<"build", j, b>> : j \in Jobs, b \in BOOLEAN}
            \cup {<<"abort", j>> : j \in Jobs}

(* The variables have their types. *)
TypeOK ==
    /\ proc \in {"down", "up", "halting"} /\ link \in {"none", "up", "broken"}
    /\ tunnel \in Seq(Messages)
    /\ inserting \subseteq Jobs /\ active \subseteq Jobs
    /\ task \in [Jobs -> TaskType] /\ downloads \in DownloadLimits \cup {5}
    /\ valid \subseteq Paths /\ known \in BOOLEAN
    /\ run \in [Jobs -> {"idle", "sent", "held", "orphaned"} \cup Ended]
    /\ cancelling \subseteq Jobs /\ applying \subseteq Jobs \X Results
    /\ rstore \subseteq Paths /\ presign \in BOOLEAN /\ uploads \subseteq Paths /\ bucket \subseteq Objects
    /\ lost \in [Jobs -> Reasons] /\ skipped \subseteq Jobs
    /\ starts \in 0..MaxStarts /\ events \in 0..MaxEvents

Init ==
    /\ proc = "down" /\ link = "none" /\ tunnel = <<>>
    /\ inserting = {} /\ active = {} /\ task = [j \in Jobs |-> Idle]
    /\ downloads = 5 /\ valid = {}
    /\ known = FALSE /\ run = [j \in Jobs |-> "idle"]
    /\ cancelling = {} /\ applying = {} /\ rstore = {} /\ bucket = {}
    /\ presign \in BOOLEAN /\ uploads = {}
    /\ lost = [j \in Jobs |-> ""] /\ skipped = {}
    /\ starts = 0 /\ events = 0

Event   == events < MaxEvents /\ events' = events + 1
Outs(j) == OutsOf[DrvOf[j]]
Set(j, t) == task' = [task EXCEPT ![j] = t]
Lose(j, reason) == lost' = [lost EXCEPT ![j] = IF @ = "" THEN reason ELSE @]

-----------------------------------------------------------------------------
(* The process and the tunnel.                                             *)

(* main and State::new: nothing survives a process but the store.  Every   *)
(* process is a machine of its own; they are followed one at a time.       *)
Start ==
    /\ proc = "down" /\ ~known /\ starts < MaxStarts
    /\ proc' = "up" /\ link' = "none" /\ starts' = starts + 1
    /\ downloads' = 5
    /\ UNCHANGED <<tunnel, inserting, active, task, valid, runnerVars, bucket, lost, skipped, events>>

(* open_tunnel accepts the join message and answers with the limit. *)
Join(n) ==
    /\ proc = "up" /\ link = "none"
    /\ link' = "up" /\ known' = TRUE /\ tunnel' = <<<<"limit", n>>>>
    /\ UNCHANGED <<proc, inserting, active, task, downloads, valid, run, cancelling, applying,
                   rstore, presign, uploads, bucket, lost, skipped, starts, events>>

(* The process ends and its tasks with it; clear_gcroots has removed the   *)
(* roots, and a crash leaves them to the next stop.                        *)
Exit ==
    /\ proc' = "down"
    /\ inserting' = {} /\ active' = {} /\ tunnel' = <<>>
    /\ task' = [j \in Jobs |-> IF task[j].pc = "none" THEN Idle ELSE Over]
    /\ UNCHANGED <<downloads, valid, runnerVars, bucket, lost, skipped, starts>>

(* check_version differs, or Machine::new rejects the machine. *)
JoinRefused ==
    /\ proc = "up" /\ link = "none" /\ Event /\ UNCHANGED link
    /\ Exit

LinkBreaks ==
    /\ link = "up" /\ Event
    /\ link' = "broken"
    /\ UNCHANGED <<proc, tunnel, inserting, active, task, downloads, valid, runnerVars,
                   bucket, lost, skipped, starts>>

(* The stream ends at the builder, which then exits; so does a stop once   *)
(* it has closed the connection.                                           *)
BuilderNotices == proc # "down" /\ link = "broken" /\ Exit /\ UNCHANGED <<link, events>>

Crash == proc # "down" /\ link = "up" /\ Event /\ link' = "broken" /\ Exit

(* stop_application: halt first, then abort_all_active_builds and close.   *)
StopHalts ==
    /\ proc = "up" /\ link = "up" /\ Event
    /\ proc' = "halting"
    /\ UNCHANGED <<link, tunnel, inserting, active, task, downloads, valid, runnerVars,
                   bucket, lost, skipped, starts>>

(* Mutant of StopAborts: the connection is not closed. *)
StopStaysConnected ==
    /\ proc = "halting" /\ link = "up"
    /\ task' = [j \in Jobs |-> IF j \in active THEN [task[j] EXCEPT !.cancelled = TRUE] ELSE task[j]]
    /\ active' = {}
    /\ UNCHANGED <<proc, link, tunnel, inserting, downloads, valid, runnerVars,
                   bucket, lost, skipped, starts, events>>

StopAborts ==
    /\ proc = "halting" /\ link = "up"
    /\ task' = [j \in Jobs |-> IF j \in active THEN [task[j] EXCEPT !.cancelled = TRUE] ELSE task[j]]
    /\ active' = {} /\ link' = "broken"
    /\ UNCHANGED <<proc, tunnel, inserting, downloads, valid, runnerVars,
                   bucket, lost, skipped, starts, events>>

(* remove_machine fails every job the machine holds; one that build_drv is *)
(* about to insert is then held by a machine nobody looks at.              *)
RunnerNotices ==
    /\ known /\ link = "broken"
    /\ known' = FALSE
    /\ run' = [j \in Jobs |-> CASE run[j] = "held" -> "Failure"
                               [] run[j] = "sent" -> "orphaned"
                               [] OTHER -> run[j]]
    /\ UNCHANGED <<builderVars, cancelling, applying, rstore, presign, uploads,
                   bucket, lost, skipped, starts, events>>

-----------------------------------------------------------------------------
(* The queue runner.                                                       *)

Push(m) == tunnel' = IF link = "up" THEN Append(tunnel, m) ELSE tunnel

(* Machine::build_drv sends before it inserts the job.  The dispatcher has *)
(* one job at a time for a derivation and none once it is built.           *)
BuildDrv(j) ==
    /\ known /\ run[j] = "idle"
    /\ \A k \in Jobs : DrvOf[k] = DrvOf[j] => run[k] \notin {"sent", "held", "orphaned", "Success"}
    /\ run' = [run EXCEPT ![j] = "sent"]
    /\ Push(<<"build", j, presign>>)
    /\ UNCHANGED <<proc, link, inserting, active, task, downloads, valid, known, cancelling,
                   applying, rstore, presign, uploads, bucket, lost, skipped, starts, events>>

InsertJob(j) ==
    /\ run[j] = "sent"
    /\ run' = [run EXCEPT ![j] = "held"]
    /\ UNCHANGED <<builderVars, known, cancelling, applying, rstore, presign, uploads, bucket, lost, skipped, starts, events>>

(* Cancelling first sends the abort message, then fails the step. *)
AbortJob(j) ==
    /\ known /\ run[j] = "held" /\ j \notin cancelling /\ Event
    /\ Push(<<"abort", j>>)
    /\ cancelling' = cancelling \cup {j}
    /\ UNCHANGED <<proc, link, inserting, active, task, downloads, valid, known, run,
                   applying, rstore, presign, uploads, bucket, lost, skipped, starts>>

RecordCancelled(j) ==
    /\ j \in cancelling
    /\ cancelling' = cancelling \ {j}
    /\ run' = IF run[j] = "held" THEN [run EXCEPT ![j] = "Cancelled"] ELSE run
    /\ UNCHANGED <<builderVars, known, applying, rstore, presign, uploads, bucket, lost, skipped,
                   starts, events>>

(* Mutant of ApplyResult: the machine is not asked for the job. *)
ApplyAnyResult(j, r) ==
    /\ <<j, r>> \in applying
    /\ applying' = applying \ {<<j, r>>}
    /\ run' = [run EXCEPT ![j] = r]
    /\ UNCHANGED <<builderVars, known, cancelling, rstore, presign, uploads, bucket, lost, skipped,
                   starts, events>>

(* The task complete_build spawned: succeed_step_by_uuid and               *)
(* fail_step_by_uuid end the job if the machine still holds it; a success  *)
(* gives the outputs to the uploader unless presigned uploads are on now.  *)
ApplyResult(j, r) ==
    LET ends == known /\ run[j] = "held" IN
    /\ <<j, r>> \in applying
    /\ applying' = applying \ {<<j, r>>}
    /\ run' = IF ends THEN [run EXCEPT ![j] = r] ELSE run
    /\ uploads' = IF ends /\ r = "Success" /\ ~presign THEN uploads \cup Outs(j) ELSE uploads
    /\ IF run[j] = "sent" THEN Lose(j, "early") ELSE UNCHANGED lost
    /\ UNCHANGED <<builderVars, known, cancelling, rstore, presign, bucket, skipped, starts, events>>

(* reload: the new limit is published, then the configuration is swapped. *)
Reload(n, flag) ==
    /\ known /\ Event
    /\ Push(<<"limit", n>>)
    /\ presign' = flag
    /\ UNCHANGED <<proc, link, inserting, active, task, downloads, valid, known, run, cancelling,
                   applying, rstore, uploads, bucket, lost, skipped, starts>>

-----------------------------------------------------------------------------
(* handle_request: one message after the other.                            *)

Receives(kind) == proc # "down" /\ link = "up" /\ inserting = {} /\ tunnel # <<>> /\ Head(tunnel)[1] = kind

HandleLimit ==
    /\ Receives("limit")
    /\ downloads' = Head(tunnel)[2] /\ tunnel' = Tail(tunnel)
    /\ UNCHANGED <<proc, link, inserting, active, task, valid, runnerVars, bucket, lost, skipped,
                   starts, events>>

contains_build(d) == \E k \in active : DrvOf[k] = d

(* schedule_build: refused when halting, dropped when the derivation has   *)
(* an entry, else the task is spawned, and entered by InsertNewBuild.      *)
ScheduleBuild ==
    /\ Receives("build")
    /\ LET j == Head(tunnel)[2] IN
       /\ tunnel' = Tail(tunnel)
       /\ \/ /\ proc = "halting" \/ contains_build(DrvOf[j])
             /\ IF proc = "halting" THEN UNCHANGED lost ELSE Lose(j, "swallowed")
             /\ UNCHANGED <<inserting, task>>
          \/ /\ proc = "up" /\ ~contains_build(DrvOf[j])
             /\ inserting' = {j}
             /\ Set(j, [Idle EXCEPT !.pc = "start", !.presigned = Head(tunnel)[3]])
             /\ UNCHANGED lost
    /\ UNCHANGED <<proc, link, active, downloads, valid, runnerVars, bucket, skipped, starts, events>>

InsertNewBuild(j) ==
    /\ j \in inserting
    /\ inserting' = {} /\ active' = active \cup {j}
    /\ UNCHANGED <<proc, link, tunnel, task, downloads, valid, runnerVars, bucket, lost, skipped,
                   starts, events>>

(* Mutant of AbortBuild: the entry goes, the task does not. *)
ForgetBuild ==
    /\ Receives("abort")
    /\ tunnel' = Tail(tunnel)
    /\ active' = active \ {Head(tunnel)[2]}
    /\ UNCHANGED <<proc, link, inserting, task, downloads, valid, runnerVars, bucket, lost, skipped,
                   starts, events>>

(* abort_build: only a build with an entry is aborted. *)
AbortBuild ==
    /\ Receives("abort")
    /\ LET j == Head(tunnel)[2] IN
       /\ tunnel' = Tail(tunnel)
       /\ active' = active \ {j}
       /\ task' = IF j \in active THEN [task EXCEPT ![j].cancelled = TRUE] ELSE task
    /\ UNCHANGED <<proc, link, inserting, downloads, valid, runnerVars, bucket, lost, skipped,
                   starts, events>>

(* An aborted task is dropped at its await, its roots with it. *)
TaskDropped(j) ==
    /\ task[j].cancelled /\ task[j].pc \in LivePcs
    /\ Set(j, Over)
    /\ UNCHANGED <<proc, link, tunnel, inserting, active, downloads, valid, runnerVars, bucket,
                   lost, skipped, starts, events>>

-----------------------------------------------------------------------------
(* process_build.                                                          *)

At(j, pc) == proc # "down" /\ task[j].pc = pc /\ ~task[j].cancelled
Fail(j)   == Set(j, [task[j] EXCEPT !.pc = "failed", !.todo = {}, !.roots = {},
                                    !.urls = Idle.urls, !.size = 0, !.left = 0])
taskOnly  == UNCHANGED <<proc, link, tunnel, inserting, downloads, known, run, cancelling,
                         presign, uploads, starts, events>>

fetch_drv_requisites(d, include_outputs) ==
    IF include_outputs THEN FullClosureOf[d] ELSE ClosureOf[d]

(* filter_missing, over a list: what is to be imported, what is rooted. *)
Missing(S) == S \ valid
Present(S) == S \cap valid

(* get_gcroot and fetch_drv_requisites.  chunks(0) panics, whatever there  *)
(* is to import.                                                           *)
FetchRequisites(j) ==
    LET closure == fetch_drv_requisites(DrvOf[j], FALSE) IN
    /\ At(j, "start")
    /\ \/ Fail(j) /\ UNCHANGED lost
       \/ /\ downloads > 0
          /\ Set(j, [task[j] EXCEPT !.pc = "import", !.size = downloads,
                                    !.todo = Missing(closure), !.roots = Present(closure)])
          /\ UNCHANGED lost
       \/ downloads = 0 /\ Set(j, Over) /\ Lose(j, "panicked")
    /\ taskOnly /\ UNCHANGED <<active, valid, applying, rstore, bucket, skipped>>

(* import_requisites goes through the sources, then the derivations, and   *)
(* after FetchFull through the rest: what is left of the part it is at.    *)
Part(j) ==
    IF task[j].pc = "import" /\ task[j].todo \ DrvPaths # {}
    THEN task[j].todo \ DrvPaths ELSE task[j].todo

(* A list is sorted, references first: the ways its first part may look. *)
Prefixes(S) == {C \in SUBSET S : \A p \in C : Refs[p] \cap S \subseteq C}

(* What has arrived of the paths of a stream when it ends: export_paths    *)
(* writes them in order, and its error is dropped.                         *)
stream_files(C) == Prefixes(C)

Smaller(a, b) == IF a < b THEN a ELSE b

(* import_paths of one chunk.  Paths that became valid are only rooted;    *)
(* the rest is substituted as far as that goes, then streamed, and rooted  *)
(* once all is there.                                                      *)
ImportChunk(j) ==
    LET t == task[j] IN
    /\ At(j, "import") \/ At(j, "importOuts")
    /\ t.todo # {}
    /\ \E C \in Prefixes(Part(j)) :
       /\ Cardinality(C) = Smaller(t.size, Cardinality(Part(j)))
       /\ \/ /\ valid' = valid \cup C
             /\ Set(j, [t EXCEPT !.todo = @ \ C, !.roots = @ \cup C])
          \/ /\ \E D \in stream_files(C) : D # C /\ valid' = valid \cup D
             /\ Fail(j)
    /\ taskOnly /\ UNCHANGED <<active, applying, rstore, bucket, lost, skipped>>

(* Mutant of FetchFull: filter_missing only filters. *)
FetchUnrooted(j) ==
    LET full == fetch_drv_requisites(DrvOf[j], TRUE) IN
    /\ At(j, "import") /\ task[j].todo = {}
    /\ \/ Fail(j)
       \/ Set(j, [task[j] EXCEPT !.pc = "importOuts", !.todo = Missing(full)])
    /\ taskOnly /\ UNCHANGED <<active, valid, applying, rstore, bucket, lost, skipped>>

(* The second list, with the outputs of the input derivations. *)
FetchFull(j) ==
    LET full == fetch_drv_requisites(DrvOf[j], TRUE) IN
    /\ At(j, "import") /\ task[j].todo = {}
    /\ \/ Fail(j)
       \/ Set(j, [task[j] EXCEPT !.pc = "importOuts", !.todo = Missing(full),
                                 !.roots = @ \cup Present(full)])
    /\ taskOnly /\ UNCHANGED <<active, valid, applying, rstore, bucket, lost, skipped>>

(* query_drv, realise_drv, the log stream and the exit status. *)
Realise(j) ==
    /\ At(j, "importOuts") /\ task[j].todo = {}
    /\ \/ Fail(j) /\ UNCHANGED valid
       \/ /\ valid' = valid \cup Outs(j)
          /\ Set(j, [task[j] EXCEPT !.pc = "route", !.roots = @ \cup Outs(j), !.size = 0])
    /\ taskOnly /\ UNCHANGED <<active, applying, rstore, bucket, lost, skipped>>

(* Mutant of Unreported: an output the question fails for counts as there. *)
UnreportedOnce(S) == SUBSET (S \ rstore)

(* upload_nars_regular: the outputs has_path does not report as there are  *)
(* sent as one stream; a question that fails is no report.                 *)
Unreported(S) == {T \in SUBSET S : S \ rstore \subseteq T}

AskPaths(j) ==
    /\ At(j, "route")
    /\ \E S \in Unreported(Outs(j)) : Set(j, [task[j] EXCEPT !.pc = "upload", !.todo = S])
    /\ taskOnly /\ UNCHANGED <<active, valid, applying, rstore, bucket, lost, skipped>>

(* build_result imports what it reads, path by path. *)
BuildResult(D) == rstore' = rstore \cup D

SendOutputs(j) ==
    /\ At(j, "upload") /\ task[j].todo # {}
    /\ \E D \in Prefixes(task[j].todo) :
       /\ BuildResult(D)
       /\ Fail(j) \/ (D = task[j].todo /\ Set(j, [task[j] EXCEPT !.todo = {}]))
    /\ taskOnly /\ UNCHANGED <<active, valid, applying, bucket, lost, skipped>>

(* request_presigned_url: the debug links there is a URL for; the other    *)
(* objects of a path always get one.                                       *)
PresignedUrls(closure, blind) ==
    [p \in Paths |-> IF p \in closure THEN UnlinkedDebug(p, blind) ELSE {}]

(* upload_nars_presigned.  A closure that cannot be computed counts as     *)
(* empty; else request_presigned_urls signs a URL per object to write.     *)
RequestUrls(j) ==
    LET closure == query_requisites(Outs(j)) IN
    /\ At(j, "route")
    /\ \/ Set(j, [task[j] EXCEPT !.pc = "upload"]) /\ skipped' = skipped \cup {j}
       \/ Fail(j) /\ UNCHANGED skipped
       \/ \E blind \in {{}, AllDebug} :
          /\ Set(j, [task[j] EXCEPT !.pc = "upload", !.todo = closure,
                                    !.urls = PresignedUrls(closure, blind)])
          /\ UNCHANGED skipped
    /\ taskOnly /\ UNCHANGED <<active, valid, applying, rstore, bucket, lost>>

(* process_presigned_request for the next path: listing, debug links, NAR. *)
(* Once there is a URL for one debug link of the path, each needs one.     *)
Linkable(j, p) == task[j].urls[p] \in {{}, DebugIds[p]}

PutPath(j) ==
    /\ At(j, "upload")
    /\ \E p \in Turn(task[j].todo) :
       \/ /\ Linkable(j, p)
          /\ bucket' = bucket \cup Complete(p, task[j].urls[p])
          /\ Fail(j) \/ Set(j, [task[j] EXCEPT !.pc = "notify"])
       \/ /\ \E B \in Interrupted(p, task[j].urls[p]) : bucket' = bucket \cup B
          /\ Fail(j)
    /\ taskOnly /\ UNCHANGED <<active, valid, applying, rstore, lost, skipped>>

(* notify_presigned_upload_complete: the queue runner writes the narinfo   *)
(* if the machine has the job and the bucket the upload.                   *)
WriteNarInfo(j, p) ==
    /\ known /\ run[j] = "held" /\ UploadFound(p)
    /\ bucket' = bucket \cup {NarInfo(p)}

Notify(j) ==
    /\ At(j, "notify")
    /\ \/ UNCHANGED bucket /\ Fail(j)
       \/ \E p \in Turn(task[j].todo) :
             /\ WriteNarInfo(j, p)
             /\ Fail(j) \/ Set(j, [task[j] EXCEPT !.pc = "upload", !.todo = @ \ {p}])
    /\ taskOnly /\ UNCHANGED <<active, valid, applying, rstore, lost, skipped>>

(* The route is the one the build message named. *)
UploadNars(j) ==
    IF task[j].presigned THEN RequestUrls(j) \/ PutPath(j) \/ Notify(j)
                         ELSE AskPaths(j) \/ SendOutputs(j)

(* new_success_build_result_info *)
PostProcess(j) ==
    /\ At(j, "upload") /\ task[j].todo = {}
    /\ Fail(j) \/ Set(j, [Idle EXCEPT !.pc = "report", !.left = Attempts, !.roots = task[j].roots])
    /\ taskOnly /\ UNCHANGED <<active, valid, applying, rstore, bucket, lost, skipped>>

(* One attempt of complete_build: the request is lost, or the answer, or   *)
(* neither.                                                                *)
Attempt(j, result, delivered) ==
    applying' = IF delivered THEN applying \cup {<<j, result>>} ELSE applying

ReportSuccess(j) ==
    /\ At(j, "report")
    /\ \/ /\ Attempt(j, "Success", TRUE)
          /\ Set(j, Over) /\ active' = active \ {j}
       \/ /\ \E delivered \in BOOLEAN : Attempt(j, "Success", delivered)
          /\ IF task[j].left = 1 THEN Fail(j)
             ELSE Set(j, [task[j] EXCEPT !.left = @ - 1])
          /\ UNCHANGED active
    /\ taskOnly /\ UNCHANGED <<valid, rstore, bucket, lost, skipped>>

(* The task of schedule_build after a failure: not reported if aborted     *)
(* (TaskDropped), else the entry goes first.                               *)
RemoveFailed(j) ==
    /\ At(j, "failed")
    /\ active' = active \ {j}
    /\ Set(j, [task[j] EXCEPT !.pc = "reportFail"])
    /\ taskOnly /\ UNCHANGED <<valid, applying, rstore, bucket, lost, skipped>>

(* The attempts are one step: another delivery would find the job ended. *)
ReportFailure(j) ==
    /\ At(j, "reportFail")
    /\ \E delivered \in BOOLEAN :
       /\ Attempt(j, "Failure", delivered)
       /\ IF delivered THEN UNCHANGED lost ELSE Lose(j, "unreported")
    /\ Set(j, Over)
    /\ taskOnly /\ UNCHANGED <<active, valid, rstore, bucket, skipped>>

TaskStep(j) ==
    \/ FetchRequisites(j) \/ ImportChunk(j) \/ FetchFull(j) \/ Realise(j)
    \/ UploadNars(j) \/ PostProcess(j) \/ ReportSuccess(j) \/ RemoveFailed(j) \/ ReportFailure(j)

Handle == HandleLimit \/ ScheduleBuild \/ AbortBuild

Next ==
    \/ Start \/ JoinRefused \/ LinkBreaks \/ BuilderNotices \/ Crash \/ StopHalts \/ StopAborts
    \/ RunnerNotices \/ Handle
    \/ \E n \in DownloadLimits : Join(n) \/ \E flag \in BOOLEAN : Reload(n, flag)
    \/ \E j \in Jobs :
       \/ BuildDrv(j) \/ InsertJob(j) \/ AbortJob(j) \/ RecordCancelled(j) \/ InsertNewBuild(j) \/ TaskDropped(j)
       \/ \E r \in Results : ApplyResult(j, r)
       \/ TaskStep(j)

(* Tokio polls every ready task, the runtime delivers what the tunnel      *)
(* holds, and a broken connection is noticed at both ends.  Nobody has to  *)
(* start, stop, cancel or reconfigure anything.                            *)
Fairness ==
    /\ WF_vars(Handle) /\ WF_vars(BuilderNotices) /\ WF_vars(RunnerNotices) /\ WF_vars(StopAborts)
    /\ \A j \in Jobs :
       /\ WF_vars(TaskStep(j)) /\ WF_vars(TaskDropped(j)) /\ WF_vars(InsertNewBuild(j))
       /\ WF_vars(InsertJob(j)) /\ WF_vars(RecordCancelled(j))
       /\ WF_vars(\E r \in Results : ApplyResult(j, r))

Spec == Init /\ [][Next]_vars /\ Fairness

-----------------------------------------------------------------------------
(* A derivation is built once at a time: two tasks of one derivation that  *)
(* are at work mean one of them is aborted (contains_build, abort_build,   *)
(* and remove_build before a failure is reported).                         *)
OneBuildPerDrv ==
    \A j, k \in Jobs :
        /\ j # k /\ DrvOf[j] = DrvOf[k]
        /\ {task[j].pc, task[k].pc} \subseteq WorkPcs
        => task[j].cancelled \/ task[k].cancelled

(* What a build runs on is in the store and rooted by the build itself, so *)
(* that no other task's end exposes it to the garbage collector            *)
(* (filter_missing, import_paths).                                         *)
InputsRooted ==
    \A j \in Jobs : task[j].pc = "importOuts" /\ task[j].todo = {} =>
        FullClosureOf[DrvOf[j]] \subseteq task[j].roots \cap valid

(* A job the queue runner ends as a success has its outputs where the      *)
(* queue runner looks for them: in its store, or served by the cache with  *)
(* their closure.  The one exception is an upload skipped because          *)
(* query_requisites failed.                                                *)
SuccessMeansOutputs ==
    \A j \in Jobs : run[j] = "Success" =>
        \/ j \in skipped
        \/ Outs(j) \subseteq rstore
        \/ \A p \in query_requisites(Outs(j)) : has_narinfo(p)

(* The first result a job gets is its last: a report that arrives late,    *)
(* twice, or after the machine was removed changes nothing.                *)
OutcomeFinal ==
    [][\A j \in Jobs : run[j] \in Ended => run'[j] = run[j]]_vars

(* Every job a machine holds ends, or is one of those nobody reports: its  *)
(* message was dropped for an entry of the derivation, its task panicked,  *)
(* all its reports were lost, or the report overtook insert_job.           *)
JobsEnd ==
    \A j \in Jobs : run[j] = "held" ~> (run[j] \in Ended \/ lost[j] # "")
=============================================================================
