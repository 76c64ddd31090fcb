---------------------------- MODULE BuilderProofs ----------------------------
(***************************************************************************)
(* The safety of a builder and its end at the queue runner, for every set  *)
(* of jobs and derivations, every closure, every limit of downloads, and   *)
(* any number of processes, breaks, crashes, stops and cancellations.      *)
(***************************************************************************)
EXTENDS Builder, SequenceTheorems, TLAPS

(* A task at work that is not aborted has an entry, or is the one that     *)
(* schedule_build is about to enter; entries are of different derivations. *)
Entries ==
    /\ \A j \in Jobs : task[j].pc \in WorkPcs /\ ~task[j].cancelled => j \in active \cup inserting
    /\ \A j, k \in active \cup inserting : DrvOf[j] = DrvOf[k] => j = k
    /\ \A j, k \in inserting : j = k

(* The outputs of j are where the queue runner looks for them. *)
Delivered(j) ==
    \/ j \in skipped
    \/ Outs(j) \subseteq rstore
    \/ \A p \in query_requisites(Outs(j)) : has_narinfo(p)

(* What upload_nars_presigned has left to do. *)
PresignedTrue(j) ==
    /\ task[j].todo \subseteq query_requisites(Outs(j))
    /\ \/ j \in skipped /\ task[j].todo = {}
       \/ \A p \in query_requisites(Outs(j)) : has_narinfo(p) \/ p \in task[j].todo

(* What the place of a task says of the stores. *)
TaskTrue(j) ==
    /\ task[j].roots \subseteq valid
    /\ task[j].pc = "importOuts" =>
          FullClosureOf[DrvOf[j]] \subseteq task[j].roots \cup task[j].todo
    /\ task[j].pc = "route" => task[j].todo = {}
    /\ task[j].pc = "upload" /\ ~task[j].presigned => Outs(j) \subseteq rstore \cup task[j].todo
    /\ task[j].pc \in {"upload", "notify"} /\ task[j].presigned => PresignedTrue(j)
    /\ task[j].pc = "report" => task[j].left > 0 /\ Delivered(j)

(* Only what was delivered is reported as a success. *)
ReportsTrue ==
    \A j \in Jobs : <<j, "Success">> \in applying \/ run[j] = "Success" => Delivered(j)

(* The inductive invariant. *)
IInv ==
    /\ TypeOK
    /\ Entries
    /\ \A j \in Jobs : TaskTrue(j)
    /\ ReportsTrue
    /\ ClosureServed

-----------------------------------------------------------------------------
(* Types.                                                                  *)

LEMMA IdleTyped ==
    /\ Idle \in TaskType /\ Over \in TaskType
    /\ Idle.pc = "none" /\ Idle.roots = {} /\ Over.pc = "over" /\ Over.roots = {}
    /\ Idle.urls \in [Paths -> SUBSET AllDebug]
<1>1. [p \in Paths |-> {}] \in [Paths -> SUBSET AllDebug]
  OBVIOUS
<1>2. 0 \in 0..Attempts
  BY BuilderAssumption
<1>3. Idle \in TaskType
  BY <1>1, <1>2 DEF Idle, TaskType, Pcs, LivePcs, WorkPcs
<1>4. Over \in TaskType
  BY <1>3 DEF Over, TaskType, Pcs
<1> QED BY <1>1, <1>3, <1>4 DEF Idle, Over

(* Tasks that change their place, and what is left of a list. *)
LEMMA MovedTyped ==
    ASSUME NEW t \in TaskType, NEW pc \in Pcs, NEW todo \in SUBSET Paths, NEW roots \in SUBSET Paths
    PROVE  /\ [t EXCEPT !.pc = pc] \in TaskType
           /\ [t EXCEPT !.todo = todo] \in TaskType
           /\ [t EXCEPT !.pc = pc, !.todo = todo] \in TaskType
           /\ [t EXCEPT !.todo = todo, !.roots = roots] \in TaskType
           /\ [t EXCEPT !.pc = pc, !.todo = todo, !.roots = roots] \in TaskType
           /\ [t EXCEPT !.pc = pc, !.roots = roots, !.size = 0] \in TaskType
BY DEF TaskType

LEMMA CancelledTyped ==
    ASSUME NEW t \in TaskType
    PROVE  /\ [t EXCEPT !.cancelled = TRUE] \in TaskType
           /\ [t EXCEPT !.cancelled = TRUE].cancelled
           /\ [t EXCEPT !.cancelled = TRUE].pc = t.pc
           /\ [t EXCEPT !.cancelled = TRUE].todo = t.todo
           /\ [t EXCEPT !.cancelled = TRUE].roots = t.roots
           /\ [t EXCEPT !.cancelled = TRUE].left = t.left
           /\ [t EXCEPT !.cancelled = TRUE].presigned = t.presigned
BY DEF TaskType

LEMMA FailTyped ==
    ASSUME NEW t \in TaskType
    PROVE  /\ [t EXCEPT !.pc = "failed", !.todo = {}, !.roots = {},
                        !.urls = Idle.urls, !.size = 0, !.left = 0] \in TaskType
           /\ [t EXCEPT !.pc = "failed", !.todo = {}, !.roots = {},
                        !.urls = Idle.urls, !.size = 0, !.left = 0].pc = "failed"
           /\ [t EXCEPT !.pc = "failed", !.todo = {}, !.roots = {},
                        !.urls = Idle.urls, !.size = 0, !.left = 0].roots = {}
<1>1. 0 \in 0..Attempts
  BY BuilderAssumption
<1>2. "failed" \in Pcs
  BY DEF Pcs, LivePcs
<1>3. Idle.urls \in [Paths -> SUBSET AllDebug]
  BY IdleTyped
<1> QED BY <1>1, <1>2, <1>3 DEF TaskType

(* The task of one job. *)
LEMMA SetOnly ==
    ASSUME TypeOK, NEW j \in Jobs, NEW t, Set(j, t)
    PROVE  /\ task'[j] = t
           /\ \A k \in Jobs \ {j} : task'[k] = task[k]
           /\ t \in TaskType => task' \in [Jobs -> TaskType]
BY DEF TypeOK, Set

LEMMA FailOnly ==
    ASSUME TypeOK, NEW j \in Jobs, Fail(j)
    PROVE  /\ task'[j].pc = "failed" /\ task'[j].roots = {}
           /\ \A k \in Jobs \ {j} : task'[k] = task[k]
           /\ task' \in [Jobs -> TaskType]
<1>1. task[j] \in TaskType
  BY DEF TypeOK
<1> QED BY <1>1, SetOnly, FailTyped DEF Fail

(* The messages of the tunnel. *)
LEMMA PushTyped ==
    ASSUME TypeOK, NEW m \in Messages, Push(m)
    PROVE  tunnel' \in Seq(Messages)
BY AppendProperties DEF TypeOK, Push

LEMMA ReceivesTyped ==
    ASSUME TypeOK, NEW kind, Receives(kind)
    PROVE  /\ Head(tunnel) \in Messages /\ Tail(tunnel) \in Seq(Messages)
           /\ kind = "limit" => Head(tunnel)[2] \in DownloadLimits
           /\ kind = "build" => Head(tunnel)[2] \in Jobs /\ Head(tunnel)[3] \in BOOLEAN
           /\ kind = "abort" => Head(tunnel)[2] \in Jobs
<1>1. Head(tunnel) \in Messages /\ Tail(tunnel) \in Seq(Messages)
  BY HeadTailProperties DEF TypeOK, Receives
<1>2. Head(tunnel)[1] = kind
  BY DEF Receives
<1> QED BY <1>1, <1>2 DEF Messages

LEMMA RequisitesTyped ==
    ASSUME NEW j \in Jobs
    PROVE  /\ DrvOf[j] \in Drvs /\ Outs(j) \subseteq Paths
           /\ ClosureOf[DrvOf[j]] \subseteq Paths /\ FullClosureOf[DrvOf[j]] \subseteq Paths
           /\ query_requisites(Outs(j)) \subseteq Paths
BY BuilderAssumption DEF Outs, query_requisites

(* The objects of an upload. *)
LEMMA WritesObjects ==
    ASSUME NEW p \in Paths, NEW links \in SUBSET AllDebug
    PROVE  /\ Complete(p, links) \subseteq Objects
           /\ \A B \in Interrupted(p, links) : B \subseteq Objects
           /\ NarInfo(p) \in Objects
<1>1. \A id \in links : Debug(id) \in Objects
  BY DEF Objects
<1>2. ListingOf(p) \subseteq Objects
  BY DEF ListingOf, Objects
<1>3. Nar(p) \in Objects /\ NarInfo(p) \in Objects
  BY DEF Objects
<1> QED BY <1>1, <1>2, <1>3 DEF Complete, Interrupted, SomeLinks

(* A request for URLs signs debug links of the bucket. *)
LEMMA UrlsTyped ==
    ASSUME NEW closure \in SUBSET Paths, NEW blind
    PROVE  PresignedUrls(closure, blind) \in [Paths -> SUBSET AllDebug]
BY DEF PresignedUrls, UnlinkedDebug, AllDebug

LEMMA InitIInv == Init => IInv
<1> SUFFICES ASSUME Init PROVE IInv
  OBVIOUS
<1>1. TypeOK
  <2>1. task \in [Jobs -> TaskType]
    BY IdleTyped DEF Init
  <2>2. tunnel \in Seq(Messages)
    BY EmptySeq DEF Init
  <2>a. starts = 0 /\ events = 0
    BY DEF Init
  <2>3. starts \in 0..MaxStarts /\ events \in 0..MaxEvents
    BY <2>a, BuilderAssumption
  <2>4. known \in BOOLEAN /\ presign \in BOOLEAN
    BY DEF Init
  <2>5. /\ run \in [Jobs -> {"idle", "sent", "held", "orphaned"} \cup Ended]
        /\ lost \in [Jobs -> Reasons]
    BY DEF Init, Reasons
  <2> QED BY <2>1, <2>2, <2>3, <2>4, <2>5 DEF Init, TypeOK
<1>2. \A j \in Jobs : task[j] = Idle
  BY DEF Init
<1>3. Entries
  BY <1>2, IdleTyped DEF Init, Entries, WorkPcs
<1>4. \A j \in Jobs : TaskTrue(j)
  BY <1>2, IdleTyped DEF TaskTrue
<1>5. ReportsTrue /\ ClosureServed
  BY DEF Init, ReportsTrue, ClosureServed
<1> QED BY <1>1, <1>3, <1>4, <1>5 DEF IInv
LEMMA EventTyped ==
    ASSUME TypeOK, Event
    PROVE  events' \in 0..MaxEvents
BY BuilderAssumption DEF TypeOK, Event

LEMMA LoseTyped ==
    ASSUME TypeOK, NEW j \in Jobs, NEW reason \in Reasons, Lose(j, reason)
    PROVE  lost' \in [Jobs -> Reasons]
BY DEF TypeOK, Lose

(* The steps of the process, of the tunnel and of the queue runner. *)
LEMMA OuterTypes ==
    ASSUME TypeOK,
           \/ Start \/ JoinRefused \/ LinkBreaks \/ BuilderNotices \/ Crash \/ StopHalts
           \/ StopAborts \/ RunnerNotices
           \/ \E n \in DownloadLimits : Join(n) \/ \E flag \in BOOLEAN : Reload(n, flag)
           \/ \E j \in Jobs : \/ BuildDrv(j) \/ InsertJob(j) \/ AbortJob(j) \/ RecordCancelled(j)
                              \/ \E r \in Results : ApplyResult(j, r)
    PROVE  TypeOK'
<1> USE DEF builderVars, runnerVars
<1>1. CASE Start
  <2>1. starts' \in 0..MaxStarts
    BY <1>1, BuilderAssumption DEF Start, TypeOK
  <2> QED BY <1>1, <2>1 DEF Start, TypeOK
<1>2. ASSUME Exit, UNCHANGED events \/ Event, link' \in {"none", "up", "broken"} PROVE TypeOK'
  <2>1. events' \in 0..MaxEvents
    BY <1>2, EventTyped DEF TypeOK
  <2>2. task' \in [Jobs -> TaskType]
    BY <1>2, IdleTyped DEF Exit
  <2>3. tunnel' \in Seq(Messages)
    BY <1>2, EmptySeq DEF Exit
  <2> QED BY <1>2, <2>1, <2>2, <2>3 DEF Exit, TypeOK
<1>3. CASE JoinRefused
  BY <1>2, <1>3 DEF JoinRefused, TypeOK
<1>4. CASE BuilderNotices
  BY <1>2, <1>4 DEF BuilderNotices, TypeOK
<1>5. CASE Crash
  BY <1>2, <1>5 DEF Crash
<1>6. CASE LinkBreaks
  BY <1>6, EventTyped DEF LinkBreaks, TypeOK
<1>7. CASE StopHalts
  BY <1>7, EventTyped DEF StopHalts, TypeOK
<1>8. CASE StopAborts
  <2>1. task' \in [Jobs -> TaskType]
    <3>1. \A j \in Jobs : task[j] \in TaskType /\ [task[j] EXCEPT !.cancelled = TRUE] \in TaskType
      BY CancelledTyped DEF TypeOK
    <3> QED BY <1>8, <3>1 DEF StopAborts
  <2> QED BY <1>8, <2>1 DEF StopAborts, TypeOK
<1>9. CASE RunnerNotices
  <2>1. run' \in [Jobs -> {"idle", "sent", "held", "orphaned"} \cup Ended]
    BY <1>9 DEF RunnerNotices, TypeOK, Ended, Results
  <2> QED BY <1>9, <2>1 DEF RunnerNotices, TypeOK
<1>10. ASSUME NEW n \in DownloadLimits, Join(n) PROVE TypeOK'
  <2>1. tunnel' \in Seq(Messages)
    BY <1>10 DEF Join, Messages
  <2> QED BY <1>10, <2>1 DEF Join, TypeOK
<1>11. ASSUME NEW n \in DownloadLimits, NEW flag \in BOOLEAN, Reload(n, flag) PROVE TypeOK'
  <2>1. tunnel' \in Seq(Messages)
    BY <1>11, PushTyped DEF Reload, Messages
  <2> QED BY <1>11, <2>1, EventTyped DEF Reload, TypeOK
<1>12. ASSUME NEW j \in Jobs, BuildDrv(j) PROVE TypeOK'
  <2>1. tunnel' \in Seq(Messages)
    <3>1. <<"build", j, presign>> \in Messages
      BY DEF Messages, TypeOK
    <3> QED BY <1>12, <3>1, PushTyped DEF BuildDrv
  <2>2. run' \in [Jobs -> {"idle", "sent", "held", "orphaned"} \cup Ended]
    BY <1>12 DEF BuildDrv, TypeOK
  <2> QED BY <1>12, <2>1, <2>2 DEF BuildDrv, TypeOK
<1>13. ASSUME NEW j \in Jobs, InsertJob(j) PROVE TypeOK'
  <2>2. run' \in [Jobs -> {"idle", "sent", "held", "orphaned"} \cup Ended]
    BY <1>13 DEF InsertJob, TypeOK
  <2> QED BY <1>13, <2>2 DEF InsertJob, TypeOK
<1>14. ASSUME NEW j \in Jobs, AbortJob(j) PROVE TypeOK'
  <2>1. tunnel' \in Seq(Messages)
    BY <1>14, PushTyped DEF AbortJob, Messages
  <2> QED BY <1>14, <2>1, EventTyped DEF AbortJob, TypeOK
<1>15. ASSUME NEW j \in Jobs, RecordCancelled(j) PROVE TypeOK'
  <2>2. run' \in [Jobs -> {"idle", "sent", "held", "orphaned"} \cup Ended]
    BY <1>15 DEF RecordCancelled, TypeOK, Ended
  <2> QED BY <1>15, <2>2 DEF RecordCancelled, TypeOK
<1>16. ASSUME NEW j \in Jobs, NEW r \in Results, ApplyResult(j, r) PROVE TypeOK'
  <2>1. run' \in [Jobs -> {"idle", "sent", "held", "orphaned"} \cup Ended]
    BY <1>16 DEF ApplyResult, TypeOK, Ended
  <2>2. uploads' \subseteq Paths
    BY <1>16, RequisitesTyped DEF ApplyResult, TypeOK
  <2>3. lost' \in [Jobs -> Reasons]
    BY <1>16, LoseTyped DEF ApplyResult, TypeOK, Reasons
  <2> QED BY <1>16, <2>1, <2>2, <2>3 DEF ApplyResult, TypeOK
<1> QED BY <1>1, <1>3, <1>4, <1>5, <1>6, <1>7, <1>8, <1>9, <1>10, <1>11, <1>12, <1>13,
           <1>14, <1>15, <1>16

(* The messages the builder handles, and a task's entry and end. *)
LEMMA HandleTypes ==
    ASSUME TypeOK, Handle \/ \E j \in Jobs : InsertNewBuild(j) \/ TaskDropped(j)
    PROVE  TypeOK'
<1> USE DEF builderVars, runnerVars
<1>1. CASE HandleLimit
  BY <1>1, ReceivesTyped DEF HandleLimit, TypeOK
<1>2. CASE ScheduleBuild
  <2> DEFINE j == Head(tunnel)[2]
  <2>1. j \in Jobs /\ Head(tunnel)[3] \in BOOLEAN /\ Tail(tunnel) \in Seq(Messages)
    BY <1>2, ReceivesTyped DEF ScheduleBuild
  <2>2. lost' \in [Jobs -> Reasons]
    BY <1>2, <2>1, LoseTyped DEF ScheduleBuild, TypeOK, Reasons
  <2>3. [Idle EXCEPT !.pc = "start", !.presigned = Head(tunnel)[3]] \in TaskType
    BY <2>1, IdleTyped DEF TaskType, Pcs, LivePcs, WorkPcs
  <2>4. task' \in [Jobs -> TaskType]
    BY <1>2, <2>1, <2>3, SetOnly DEF ScheduleBuild, TypeOK
  <2>5. inserting' \subseteq Jobs /\ tunnel' = Tail(tunnel)
    BY <1>2, <2>1 DEF ScheduleBuild, TypeOK
  <2> QED BY <1>2, <2>1, <2>2, <2>4, <2>5 DEF ScheduleBuild, TypeOK
<1>3. CASE AbortBuild
  <2>1. Tail(tunnel) \in Seq(Messages)
    BY <1>3, ReceivesTyped DEF AbortBuild
  <2>2. task' \in [Jobs -> TaskType]
    <3> DEFINE j == Head(tunnel)[2]
    <3>1. j \in Jobs
      BY <1>3, ReceivesTyped DEF AbortBuild
    <3>2. task[j] \in TaskType /\ [task[j] EXCEPT !.cancelled = TRUE] \in TaskType
      BY <3>1, CancelledTyped DEF TypeOK
    <3>3. task' = [task EXCEPT ![j] = [task[j] EXCEPT !.cancelled = TRUE]] \/ task' = task
      BY <1>3 DEF AbortBuild
    <3> HIDE DEF j
    <3> QED BY <3>1, <3>2, <3>3 DEF TypeOK
  <2>3. active' \subseteq Jobs /\ tunnel' = Tail(tunnel)
    BY <1>3 DEF AbortBuild, TypeOK
  <2> QED BY <1>3, <2>1, <2>2, <2>3 DEF AbortBuild, TypeOK
<1>4. ASSUME NEW j \in Jobs, InsertNewBuild(j) PROVE TypeOK'
  BY <1>4 DEF InsertNewBuild, TypeOK
<1>5. ASSUME NEW j \in Jobs, TaskDropped(j) PROVE TypeOK'
  BY <1>5, SetOnly, IdleTyped DEF TaskDropped, TypeOK
<1> QED BY <1>1, <1>2, <1>3, <1>4, <1>5 DEF Handle
(* A step of a task leaves the rest of the builder alone. *)
LEMMA TaskOnlyTypes ==
    ASSUME TypeOK, taskOnly, task' \in [Jobs -> TaskType], active' \subseteq active,
           valid' \subseteq Paths, applying' \subseteq Jobs \X Results, rstore' \subseteq Paths,
           bucket' \subseteq Objects, lost' \in [Jobs -> Reasons], skipped' \subseteq Jobs
    PROVE  TypeOK'
BY DEF TypeOK, taskOnly

LEMMA TaskTypes ==
    ASSUME IInv, NEW j \in Jobs, TaskStep(j)
    PROVE  TypeOK'
<1>a. TypeOK /\ task[j] \in TaskType /\ TaskTrue(j)
  BY DEF IInv, TypeOK
<1>b. task[j].todo \subseteq Paths /\ task[j].roots \subseteq Paths
  BY <1>a DEF TaskType
<1>c. WorkPcs \subseteq Pcs /\ LivePcs \subseteq Pcs
  BY DEF Pcs, LivePcs
<1>d. /\ ClosureOf[DrvOf[j]] \subseteq Paths /\ FullClosureOf[DrvOf[j]] \subseteq Paths
      /\ Outs(j) \subseteq Paths /\ query_requisites(Outs(j)) \subseteq Paths
  BY RequisitesTyped
<1>1. CASE FetchRequisites(j)
  <2>1. task' \in [Jobs -> TaskType]
    <3>1. ASSUME NEW todo \in SUBSET Paths, NEW roots \in SUBSET Paths
          PROVE  [task[j] EXCEPT !.pc = "import", !.size = downloads,
                                 !.todo = todo, !.roots = roots] \in TaskType
      BY <1>a, <1>c DEF TaskType, TypeOK, WorkPcs
    <3> QED BY <1>1, <1>a, <1>d, <3>1, SetOnly, FailOnly, IdleTyped
            DEF FetchRequisites, fetch_drv_requisites, Missing, Present
  <2>2. lost' \in [Jobs -> Reasons]
    BY <1>1, <1>a, LoseTyped DEF FetchRequisites, TypeOK, Reasons
  <2> QED BY <1>1, <1>a, <2>1, <2>2, TaskOnlyTypes DEF FetchRequisites, TypeOK
<1>2. CASE ImportChunk(j)
  <2>1. PICK C \in Prefixes(Part(j)) :
          \/ /\ valid' = valid \cup C
             /\ Set(j, [task[j] EXCEPT !.todo = @ \ C, !.roots = @ \cup C])
          \/ /\ \E D \in stream_files(C) : D # C /\ valid' = valid \cup D
             /\ Fail(j)
    BY <1>2 DEF ImportChunk
  <2>2. C \subseteq Paths
    BY <1>b DEF Prefixes, Part
  <2>3. valid' \subseteq Paths
    BY <1>a, <2>1, <2>2 DEF stream_files, Prefixes, TypeOK
  <2>4. [task[j] EXCEPT !.todo = @ \ C, !.roots = @ \cup C] \in TaskType
    BY <1>a, <2>2 DEF TaskType
  <2>5. task' \in [Jobs -> TaskType]
    BY <1>a, <2>1, <2>4, SetOnly, FailOnly
  <2> QED BY <1>2, <1>a, <2>3, <2>5, TaskOnlyTypes DEF ImportChunk, TypeOK
<1>3. CASE FetchFull(j)
  <2>1. ASSUME NEW S \in SUBSET Paths, NEW T \in SUBSET Paths
        PROVE  [task[j] EXCEPT !.pc = "importOuts", !.todo = S, !.roots = @ \cup T] \in TaskType
    BY <1>a, <1>c DEF TaskType, WorkPcs
  <2>2. task' \in [Jobs -> TaskType]
    BY <1>3, <1>a, <1>d, <2>1, SetOnly, FailOnly
       DEF FetchFull, fetch_drv_requisites, Missing, Present
  <2> QED BY <1>3, <1>a, <2>2, TaskOnlyTypes DEF FetchFull, TypeOK
<1>4. CASE Realise(j)
  <2>1. [task[j] EXCEPT !.pc = "route", !.roots = @ \cup Outs(j), !.size = 0] \in TaskType
    BY <1>a, <1>c, <1>d DEF TaskType, WorkPcs
  <2>2. task' \in [Jobs -> TaskType]
    BY <1>4, <1>a, <2>1, SetOnly, FailOnly DEF Realise
  <2>3. valid' \subseteq Paths
    BY <1>4, <1>a, <1>d DEF Realise, TypeOK
  <2> QED BY <1>4, <1>a, <2>2, <2>3, TaskOnlyTypes DEF Realise, TypeOK
<1>5. CASE AskPaths(j)
  <2>1. \A S \in Unreported(Outs(j)) : [task[j] EXCEPT !.pc = "upload", !.todo = S] \in TaskType
    BY <1>a, <1>c, <1>d DEF TaskType, WorkPcs, Unreported
  <2>2. task' \in [Jobs -> TaskType]
    BY <1>5, <1>a, <2>1, SetOnly DEF AskPaths
  <2> QED BY <1>5, <1>a, <2>2, TaskOnlyTypes DEF AskPaths, TypeOK
<1>6. CASE SendOutputs(j)
  <2>1. [task[j] EXCEPT !.todo = {}] \in TaskType
    BY <1>a DEF TaskType
  <2>2. task' \in [Jobs -> TaskType]
    BY <1>6, <1>a, <2>1, SetOnly, FailOnly DEF SendOutputs
  <2>3. rstore' \subseteq Paths
    BY <1>6, <1>a, <1>b DEF SendOutputs, BuildResult, Prefixes, TypeOK
  <2> QED BY <1>6, <1>a, <2>2, <2>3, TaskOnlyTypes DEF SendOutputs, TypeOK
<1>7. CASE RequestUrls(j)
  <2>1. [task[j] EXCEPT !.pc = "upload"] \in TaskType
    BY <1>a, <1>c DEF TaskType, WorkPcs
  <2>2. ASSUME NEW urls \in [Paths -> SUBSET AllDebug]
        PROVE  [task[j] EXCEPT !.pc = "upload", !.todo = query_requisites(Outs(j)),
                               !.urls = urls] \in TaskType
    BY <1>a, <1>c, <1>d DEF TaskType, WorkPcs
  <2>3. task' \in [Jobs -> TaskType]
    BY <1>7, <1>a, <1>d, <2>1, <2>2, UrlsTyped, SetOnly, FailOnly DEF RequestUrls
  <2> QED BY <1>7, <1>a, <2>3, TaskOnlyTypes DEF RequestUrls, TypeOK
<1>8. CASE PutPath(j)
  <2>1. [task[j] EXCEPT !.pc = "notify"] \in TaskType
    BY <1>a, <1>c DEF TaskType, WorkPcs
  <2>2. task' \in [Jobs -> TaskType]
    BY <1>8, <1>a, <2>1, SetOnly, FailOnly DEF PutPath
  <2>3. \A p \in Turn(task[j].todo) : p \in Paths /\ task[j].urls[p] \in SUBSET AllDebug
    BY <1>a, <1>b DEF Turn, TaskType
  <2>4. bucket' \subseteq Objects
    BY <1>8, <1>a, <2>3, WritesObjects DEF PutPath, TypeOK
  <2> QED BY <1>8, <1>a, <2>2, <2>4, TaskOnlyTypes DEF PutPath, TypeOK
<1>9. CASE Notify(j)
  <2>1. \A p : [task[j] EXCEPT !.pc = "upload", !.todo = @ \ {p}] \in TaskType
    BY <1>a, <1>c DEF TaskType, WorkPcs
  <2>2. task' \in [Jobs -> TaskType]
    BY <1>9, <1>a, <2>1, SetOnly, FailOnly DEF Notify
  <2>3. bucket' \subseteq Objects
    <3>1. \A p \in Turn(task[j].todo) : NarInfo(p) \in Objects
      BY <1>b DEF Turn, Objects
    <3>2. \/ bucket' = bucket
          \/ \E p \in Turn(task[j].todo) : bucket' = bucket \cup {NarInfo(p)}
      BY <1>9 DEF Notify, WriteNarInfo
    <3> QED BY <1>a, <3>1, <3>2 DEF TypeOK
  <2> QED BY <1>9, <1>a, <2>2, <2>3, TaskOnlyTypes DEF Notify, TypeOK
<1>10. CASE PostProcess(j)
  <2>1. Attempts \in 0..Attempts
    BY BuilderAssumption
  <2>2. [Idle EXCEPT !.pc = "report", !.left = Attempts, !.roots = task[j].roots] \in TaskType
    BY <1>b, <1>c, <2>1, IdleTyped DEF TaskType, WorkPcs
  <2>3. task' \in [Jobs -> TaskType]
    BY <1>10, <1>a, <2>2, SetOnly, FailOnly DEF PostProcess
  <2> QED BY <1>10, <1>a, <2>3, TaskOnlyTypes DEF PostProcess, TypeOK
<1>11. CASE ReportSuccess(j)
  <2>1. task[j].left \in 0..Attempts /\ task[j].left > 0
    BY <1>11, <1>a DEF TaskType, ReportSuccess, At, TaskTrue
  <2>2. task[j].left - 1 \in 0..Attempts
    BY <2>1, BuilderAssumption
  <2>3. [task[j] EXCEPT !.left = @ - 1] \in TaskType
    BY <1>a, <2>2 DEF TaskType
  <2>4. task' \in [Jobs -> TaskType]
    BY <1>11, <1>a, <2>3, SetOnly, FailOnly, IdleTyped DEF ReportSuccess
  <2>5. applying' \subseteq Jobs \X Results
    BY <1>11, <1>a DEF ReportSuccess, Attempt, TypeOK, Results
  <2> QED BY <1>11, <1>a, <2>4, <2>5, TaskOnlyTypes DEF ReportSuccess, TypeOK
<1>12. CASE RemoveFailed(j)
  <2>1. [task[j] EXCEPT !.pc = "reportFail"] \in TaskType
    BY <1>a, <1>c DEF TaskType, LivePcs
  <2>2. task' \in [Jobs -> TaskType]
    BY <1>12, <1>a, <2>1, SetOnly DEF RemoveFailed
  <2> QED BY <1>12, <1>a, <2>2, TaskOnlyTypes DEF RemoveFailed, TypeOK
<1>13. CASE ReportFailure(j)
  <2>1. task' \in [Jobs -> TaskType]
    BY <1>13, <1>a, IdleTyped, SetOnly DEF ReportFailure
  <2>2. applying' \subseteq Jobs \X Results
    BY <1>13, <1>a DEF ReportFailure, Attempt, TypeOK, Results
  <2>3. lost' \in [Jobs -> Reasons]
    BY <1>13, <1>a, LoseTyped DEF ReportFailure, TypeOK, Reasons
  <2> QED BY <1>13, <1>a, <2>1, <2>2, <2>3, TaskOnlyTypes DEF ReportFailure, TypeOK
<1> QED BY <1>1, <1>2, <1>3, <1>4, <1>5, <1>6, <1>7, <1>8, <1>9, <1>10, <1>11, <1>12, <1>13
        DEF TaskStep, UploadNars

LEMMA NextTypes ==
    ASSUME IInv, [Next]_vars
    PROVE  TypeOK'
<1>1. CASE UNCHANGED vars
  BY <1>1 DEF vars, builderVars, runnerVars, IInv, TypeOK
<1>2. CASE Next
  BY <1>2, OuterTypes, HandleTypes, TaskTypes DEF Next, IInv
<1> QED BY <1>1, <1>2
-----------------------------------------------------------------------------
(* The table of active builds.                                             *)

(* Tasks that stop being at work, or stay where they were, keep Entries. *)
LEMMA FewerAtWork ==
    ASSUME Entries, active' \subseteq active, UNCHANGED inserting,
           \A k \in Jobs : task'[k].pc \in WorkPcs /\ ~task'[k].cancelled =>
              /\ task[k].pc \in WorkPcs /\ ~task[k].cancelled
              /\ k \in active => k \in active'
    PROVE  Entries'
BY DEF Entries

(* A step of a task of j: j stays at work, or stops. *)
LEMMA TaskEntries ==
    ASSUME IInv, NEW j \in Jobs, TaskStep(j)
    PROVE  Entries'
<1>a. TypeOK /\ task[j] \in TaskType /\ Entries
  BY DEF IInv, TypeOK
<1>b. UNCHANGED inserting /\ active' \subseteq active
  BY DEF TaskStep, FetchRequisites, ImportChunk, FetchFull, Realise, UploadNars, RequestUrls,
         PutPath, Notify, AskPaths, SendOutputs, PostProcess, ReportSuccess, RemoveFailed,
         ReportFailure, taskOnly
<1>c. \A t : t \in TaskType => t.cancelled \in BOOLEAN
  BY DEF TaskType
<1>1. CASE task[j].pc \in WorkPcs /\ ~task[j].cancelled /\ UNCHANGED active
           /\ \A k \in Jobs \ {j} : task'[k] = task[k]
  BY <1>1, <1>a, <1>b, FewerAtWork
<1>2. CASE task'[j].pc \notin WorkPcs /\ active \ {j} \subseteq active'
           /\ \A k \in Jobs \ {j} : task'[k] = task[k]
  BY <1>2, <1>a, <1>b, FewerAtWork
<1>3. ASSUME NEW t, Set(j, t) PROVE \A k \in Jobs \ {j} : task'[k] = task[k]
  BY <1>3, <1>a, SetOnly
<1>4. CASE \/ FetchRequisites(j) \/ ImportChunk(j) \/ FetchFull(j) \/ Realise(j) \/ UploadNars(j)
           \/ PostProcess(j)
  <2>1. task[j].pc \in WorkPcs /\ ~task[j].cancelled /\ UNCHANGED active
    BY <1>4 DEF FetchRequisites, ImportChunk, FetchFull, Realise, UploadNars, RequestUrls, PutPath,
                Notify, AskPaths, SendOutputs, PostProcess, At, WorkPcs
  <2>2. \A k \in Jobs \ {j} : task'[k] = task[k]
    <3>1. CASE FetchRequisites(j) \/ ImportChunk(j)
      BY <3>1, <1>3 DEF FetchRequisites, ImportChunk, Fail
    <3>2. CASE FetchFull(j) \/ Realise(j) \/ PostProcess(j)
      BY <3>2, <1>3 DEF FetchFull, Realise, PostProcess, Fail
    <3>3. CASE UploadNars(j)
      BY <3>3, <1>3 DEF UploadNars, RequestUrls, PutPath, Notify, AskPaths, SendOutputs, Fail
    <3> QED BY <1>4, <3>1, <3>2, <3>3
  <2> QED BY <1>1, <2>1, <2>2
<1>5. CASE ReportSuccess(j)
  <2>1. CASE Set(j, Over) /\ active' = active \ {j}
    <3>1. task'[j].pc \notin WorkPcs
      BY <1>a, <2>1, SetOnly, IdleTyped DEF WorkPcs
    <3> QED BY <1>2, <1>3, <2>1, <3>1
  <2>2. CASE UNCHANGED active
    <3>1. task[j].pc \in WorkPcs /\ ~task[j].cancelled
      BY <1>5 DEF ReportSuccess, At, WorkPcs
    <3>2. Set(j, Over) \/ Fail(j) \/ Set(j, [task[j] EXCEPT !.left = @ - 1])
      BY <1>5 DEF ReportSuccess
    <3>3. \A k \in Jobs \ {j} : task'[k] = task[k]
      BY <1>3, <3>2 DEF Fail
    <3> QED BY <1>1, <2>2, <3>1, <3>3
  <2> QED BY <1>5, <2>1, <2>2 DEF ReportSuccess
<1>6. CASE RemoveFailed(j)
  <2>1. task'[j].pc = "reportFail"
    BY <1>6, <1>a, SetOnly DEF RemoveFailed, TaskType
  <2>2. task'[j].pc \notin WorkPcs /\ active \ {j} \subseteq active'
    BY <1>6, <2>1 DEF RemoveFailed, WorkPcs
  <2> QED BY <1>2, <1>3, <1>6, <2>2 DEF RemoveFailed
<1>7. CASE ReportFailure(j)
  <2>1. task'[j].pc \notin WorkPcs
    BY <1>7, <1>a, SetOnly, IdleTyped DEF ReportFailure, WorkPcs
  <2> QED BY <1>2, <1>3, <1>7, <2>1 DEF ReportFailure
<1> QED BY <1>4, <1>5, <1>6, <1>7 DEF TaskStep

LEMMA NextEntries ==
    ASSUME IInv, [Next]_vars
    PROVE  Entries'
<1>a. TypeOK /\ Entries
  BY DEF IInv
<1>b. active \subseteq Jobs /\ inserting \subseteq Jobs
  BY <1>a DEF TypeOK
<1>c. "none" \notin WorkPcs /\ "over" \notin WorkPcs
  BY DEF WorkPcs
<1>1. CASE Exit
  <2>1. \A k \in Jobs : task'[k].pc \notin WorkPcs
    BY <1>1, <1>c, IdleTyped DEF Exit
  <2>2. active' = {} /\ inserting' = {}
    BY <1>1 DEF Exit
  <2> QED BY <2>1, <2>2 DEF Entries
<1>2. CASE StopAborts
  <2>1. \A k \in Jobs : k \in active => task'[k].cancelled
    BY <1>2, <1>a, CancelledTyped DEF StopAborts, TypeOK
  <2>2. \A k \in Jobs : k \notin active => task'[k] = task[k]
    BY <1>2 DEF StopAborts
  <2>3. UNCHANGED inserting /\ active' \subseteq active
    BY <1>2 DEF StopAborts
  <2> QED BY <1>a, <2>1, <2>2, <2>3, FewerAtWork
<1>3. CASE ScheduleBuild
  <2> DEFINE j == Head(tunnel)[2]
  <2>1. j \in Jobs
    BY <1>3, <1>a, ReceivesTyped DEF ScheduleBuild
  <2>2. CASE UNCHANGED <<inserting, task>>
    BY <1>3, <1>a, <2>2 DEF ScheduleBuild, Entries
  <2>3. CASE /\ ~contains_build(DrvOf[j]) /\ inserting' = {j}
             /\ Set(j, [Idle EXCEPT !.pc = "start", !.presigned = Head(tunnel)[3]])
    <3>1. inserting = {} /\ UNCHANGED active
      BY <1>3 DEF ScheduleBuild, Receives
    <3>2. \A k \in Jobs \ {j} : task'[k] = task[k]
      BY <1>a, <2>1, <2>3, SetOnly
    <3>3. \A k \in active : DrvOf[k] # DrvOf[j]
      BY <2>3 DEF contains_build
    <3> HIDE DEF j
    <3> QED BY <1>a, <2>1, <2>3, <3>1, <3>2, <3>3 DEF Entries
  <2> QED BY <1>3, <2>2, <2>3 DEF ScheduleBuild
<1>4. CASE AbortBuild
  <2> DEFINE j == Head(tunnel)[2]
  <2>1. j \in Jobs /\ inserting = {} /\ inserting' = {}
    BY <1>4, <1>a, ReceivesTyped DEF AbortBuild, Receives
  <2>2. /\ active' = active \ {j}
        /\ task' = (IF j \in active THEN [task EXCEPT ![j].cancelled = TRUE] ELSE task)
    BY <1>4 DEF AbortBuild
  <2> HIDE DEF j
  <2>3. CASE j \notin active
    BY <1>a, <2>1, <2>2, <2>3, FewerAtWork
  <2>4. CASE j \in active
    <3>1. task' = [task EXCEPT ![j] = [task[j] EXCEPT !.cancelled = TRUE]]
      BY <2>2, <2>4
    <3>2. task'[j].cancelled /\ \A k \in Jobs \ {j} : task'[k] = task[k]
      <4>1. task[j] \in TaskType /\ task \in [Jobs -> TaskType]
        BY <1>a, <2>1 DEF TypeOK
      <4>2. task'[j] = [task[j] EXCEPT !.cancelled = TRUE] /\ \A k \in Jobs \ {j} : task'[k] = task[k]
        BY <2>1, <3>1, <4>1
      <4> QED BY <4>1, <4>2, CancelledTyped
    <3> QED BY <1>a, <2>1, <2>2, <3>2, FewerAtWork
  <2> QED BY <2>3, <2>4
<1>5. ASSUME NEW j \in Jobs, InsertNewBuild(j) PROVE Entries'
  BY <1>5, <1>a, <1>b DEF InsertNewBuild, Entries
<1>6. ASSUME NEW j \in Jobs, TaskDropped(j) PROVE Entries'
  <2>1. task'[j].pc \notin WorkPcs /\ \A k \in Jobs \ {j} : task'[k] = task[k]
    BY <1>6, <1>a, <1>c, SetOnly, IdleTyped DEF TaskDropped
  <2> QED BY <1>6, <1>a, <2>1, FewerAtWork DEF TaskDropped
<1>7. ASSUME NEW j \in Jobs, TaskStep(j) PROVE Entries'
  BY <1>7, TaskEntries
<1>8. CASE UNCHANGED <<active, inserting, task>>
  BY <1>8, <1>a DEF Entries
<1>9. CASE JoinRefused \/ BuilderNotices \/ Crash
  BY <1>1, <1>9 DEF JoinRefused, BuilderNotices, Crash
<1>10. CASE \/ Start \/ LinkBreaks \/ StopHalts \/ RunnerNotices \/ HandleLimit \/ UNCHANGED vars
  BY <1>8, <1>10 DEF Start, LinkBreaks, StopHalts, RunnerNotices, HandleLimit, vars, builderVars
<1>11. ASSUME NEW n \in DownloadLimits, Join(n) \/ \E flag \in BOOLEAN : Reload(n, flag) PROVE Entries'
  BY <1>8, <1>11 DEF Join, Reload
<1>12. ASSUME NEW j \in Jobs, \/ BuildDrv(j) \/ InsertJob(j) \/ AbortJob(j) \/ RecordCancelled(j)
                              \/ \E r \in Results : ApplyResult(j, r)
       PROVE  Entries'
  BY <1>8, <1>12 DEF BuildDrv, InsertJob, AbortJob, RecordCancelled, ApplyResult, builderVars
<1> QED BY <1>2, <1>3, <1>4, <1>5, <1>6, <1>7, <1>9, <1>10, <1>11, <1>12 DEF Next, Handle
-----------------------------------------------------------------------------
(* The stores, the bucket and the reports.                                 *)

(* What query_requisites returns is closed under references. *)
LEMMA RequisitesClosed ==
    ASSUME NEW S, NEW p \in query_requisites(S), NEW q \in Refs[p]
    PROVE  q \in query_requisites(S)
BY CacheAssumption DEF query_requisites

(* Neither the stores nor the bucket lose anything, nor is a skipped       *)
(* upload forgotten.                                                       *)
Grow ==
    /\ valid \subseteq valid' /\ rstore \subseteq rstore'
    /\ bucket \subseteq bucket' /\ skipped \subseteq skipped'

LEMMA ConstantRequisites ==
    ASSUME NEW j
    PROVE  query_requisites(Outs(j))' = query_requisites(Outs(j)) /\ Outs(j)' = Outs(j)
BY DEF query_requisites, Outs

LEMMA DeliveredStays ==
    ASSUME Grow, NEW j, Delivered(j)
    PROVE  Delivered(j)'
BY ConstantRequisites DEF Grow, Delivered, has_narinfo, NarInfo

(* A task that stays where it is stays true. *)
LEMMA TaskStays ==
    ASSUME Grow, NEW j \in Jobs, TaskTrue(j),
           /\ task'[j].pc = task[j].pc /\ task'[j].todo = task[j].todo
           /\ task'[j].roots = task[j].roots /\ task'[j].left = task[j].left
           /\ task'[j].presigned = task[j].presigned
    PROVE  TaskTrue(j)'
<1>1. PresignedTrue(j) => PresignedTrue(j)'
  BY ConstantRequisites DEF Grow, PresignedTrue, has_narinfo, NarInfo
<1>2. Delivered(j) => Delivered(j)'
  BY DeliveredStays
<1> QED BY <1>1, <1>2, ConstantRequisites DEF Grow, TaskTrue

(* So does one that has nothing to show. *)
LEMMA TaskRests ==
    ASSUME NEW j \in Jobs, task'[j].roots \subseteq valid',
           task'[j].pc \notin {"importOuts", "route", "upload", "notify", "report"}
    PROVE  TaskTrue(j)'
BY DEF TaskTrue

LEMMA FailRests ==
    ASSUME TypeOK, NEW j \in Jobs, Fail(j) \/ Set(j, Over)
    PROVE  TaskTrue(j)'
<1>1. task'[j].roots = {} /\ task'[j].pc \in {"failed", "over"}
  BY FailOnly, SetOnly, IdleTyped
<1> QED BY <1>1, TaskRests

(* The steps that are not a task's. *)
LEMMA OuterTasks ==
    ASSUME IInv, Grow,
           \A k \in Jobs :
              \/ /\ task'[k].pc = task[k].pc /\ task'[k].todo = task[k].todo
                 /\ task'[k].roots = task[k].roots /\ task'[k].left = task[k].left
                 /\ task'[k].presigned = task[k].presigned
              \/ task'[k].roots = {} /\ task'[k].pc \in {"none", "over", "start"}
    PROVE  \A k \in Jobs : TaskTrue(k)'
<1> SUFFICES ASSUME NEW k \in Jobs PROVE TaskTrue(k)'
  OBVIOUS
<1>1. CASE /\ task'[k].pc = task[k].pc /\ task'[k].todo = task[k].todo
           /\ task'[k].roots = task[k].roots /\ task'[k].left = task[k].left
           /\ task'[k].presigned = task[k].presigned
  BY <1>1, TaskStays DEF IInv
<1>2. CASE task'[k].roots = {} /\ task'[k].pc \in {"none", "over", "start"}
  BY <1>2, TaskRests
<1> QED BY <1>1, <1>2

(* What a step of the task of j must show. *)
LEMMA TaskStepSuffices ==
    ASSUME IInv, NEW j \in Jobs, Grow, \A k \in Jobs \ {j} : task'[k] = task[k], TaskTrue(j)',
           UNCHANGED run,
           \A k \in Jobs : <<k, "Success">> \in applying' =>
                             <<k, "Success">> \in applying \/ (k = j /\ Delivered(j)),
           \/ \A p : NarInfo(p) \in bucket' => NarInfo(p) \in bucket
           \/ ClosureServed'
    PROVE  (\A k \in Jobs : TaskTrue(k)') /\ ReportsTrue' /\ ClosureServed'
<1>1. \A k \in Jobs : TaskTrue(k)'
  BY TaskStays DEF IInv
<1>2. ReportsTrue'
  BY DeliveredStays DEF IInv, ReportsTrue
<1>3. ClosureServed'
  <2>1. CASE \A p : NarInfo(p) \in bucket' => NarInfo(p) \in bucket
    BY <2>1 DEF IInv, ClosureServed, Grow, NarInfo, ListingOf, Listing, Nar
  <2> QED BY <2>1
<1> QED BY <1>1, <1>2, <1>3

(* What PutPath writes serves no path. *)
LEMMA ObjectsNoNarInfo ==
    ASSUME NEW p, NEW q, NEW links
    PROVE  /\ NarInfo(p) \notin Complete(q, links)
           /\ \A B \in Interrupted(q, links) : NarInfo(p) \notin B
<1>1. /\ NarInfo(p) # Nar(q) /\ NarInfo(p) \notin ListingOf(q)
      /\ \A id : NarInfo(p) # Debug(id)
  BY DEF NarInfo, Nar, ListingOf, Listing, Debug
<1> QED BY <1>1 DEF Complete, Interrupted, SomeLinks

(* Notify: the queue runner serves a path only after what it refers to. *)
LEMMA NotifyServes ==
    ASSUME IInv, NEW j \in Jobs, task[j].pc = "notify", task[j].presigned,
           NEW p \in Turn(task[j].todo), WriteNarInfo(j, p)
    PROVE  ClosureServed'
<1>1. PresignedTrue(j)
  BY DEF IInv, TaskTrue
<1>2. p \in task[j].todo /\ Refs[p] \cap task[j].todo \subseteq {p}
  BY DEF Turn
<1>3. \A q \in Refs[p] : q = p \/ NarInfo(q) \in bucket
  BY <1>1, <1>2, RequisitesClosed DEF PresignedTrue, has_narinfo
<1>4. bucket' = bucket \cup {NarInfo(p)} /\ ListingOf(p) \cup {Nar(p)} \subseteq bucket
  BY DEF WriteNarInfo, UploadFound
<1>5. \A q : NarInfo(q) = NarInfo(p) => q = p
  BY DEF NarInfo
<1>6. ClosureServed
  BY DEF IInv
<1>7. ASSUME NEW q \in Paths, NarInfo(q) \in bucket'
      PROVE  /\ ListingOf(q) \cup {Nar(q)} \subseteq bucket'
             /\ \A r \in Refs[q] : NarInfo(r) \in bucket'
  BY <1>3, <1>4, <1>5, <1>6, <1>7 DEF ClosureServed
<1> QED BY <1>7 DEF ClosureServed, ListingOf, Listing, Nar, NarInfo
LEMMA TaskStores ==
    ASSUME IInv, NEW j \in Jobs, TaskStep(j)
    PROVE  (\A k \in Jobs : TaskTrue(k)') /\ ReportsTrue' /\ ClosureServed'
<1> DEFINE Goal == (\A k \in Jobs : TaskTrue(k)') /\ ReportsTrue' /\ ClosureServed'
<1>a. TypeOK /\ task[j] \in TaskType /\ TaskTrue(j)
  BY DEF IInv, TypeOK
<1>b. ASSUME NEW t, Set(j, t) PROVE task'[j] = t /\ \A k \in Jobs \ {j} : task'[k] = task[k]
  BY <1>b, <1>a, SetOnly
<1>c. CASE /\ Grow /\ UNCHANGED <<run, applying>> /\ TaskTrue(j)'
           /\ \A k \in Jobs \ {j} : task'[k] = task[k]
           /\ \A p : NarInfo(p) \in bucket' => NarInfo(p) \in bucket
  BY <1>c, TaskStepSuffices
<1>d. CASE /\ Grow /\ UNCHANGED <<run, applying>> /\ Fail(j)
           /\ \A p : NarInfo(p) \in bucket' => NarInfo(p) \in bucket
  BY <1>a, <1>c, <1>d, FailRests, FailOnly
<1> HIDE DEF Goal
<1>1. CASE FetchRequisites(j)
  <2>1. Grow /\ UNCHANGED <<run, applying, bucket>>
    BY <1>1 DEF FetchRequisites, taskOnly, Grow
  <2>2. CASE Fail(j) \/ Set(j, Over)
    BY <1>a, <1>b, <1>c, <2>1, <2>2, FailRests, FailOnly DEF NarInfo
  <2>3. CASE Set(j, [task[j] EXCEPT !.pc = "import", !.size = downloads,
                                    !.todo = Missing(ClosureOf[DrvOf[j]]),
                                    !.roots = Present(ClosureOf[DrvOf[j]])])
    <3>a. task'[j] = [task[j] EXCEPT !.pc = "import", !.size = downloads,
                                     !.todo = Missing(ClosureOf[DrvOf[j]]),
                                     !.roots = Present(ClosureOf[DrvOf[j]])]
      BY <1>b, <2>3
    <3>1. task'[j].pc = "import" /\ task'[j].roots = Present(ClosureOf[DrvOf[j]])
      BY <1>a, <2>3, <3>a DEF TaskType
    <3>2. task'[j].roots \subseteq valid'
      BY <2>1, <3>1 DEF Present, Grow
    <3>3. TaskTrue(j)'
      BY <3>1, <3>2, TaskRests
    <3> QED BY <1>b, <1>c, <2>1, <2>3, <3>3 DEF NarInfo
  <2> QED BY <1>1, <2>2, <2>3 DEF FetchRequisites, fetch_drv_requisites
<1>2. CASE ImportChunk(j)
  <2>1. PICK C \in Prefixes(Part(j)) :
          \/ /\ valid' = valid \cup C
             /\ Set(j, [task[j] EXCEPT !.todo = @ \ C, !.roots = @ \cup C])
          \/ /\ \E D \in stream_files(C) : D # C /\ valid' = valid \cup D
             /\ Fail(j)
    BY <1>2 DEF ImportChunk
  <2>2. Grow /\ UNCHANGED <<run, applying, bucket>>
    BY <1>2, <2>1 DEF ImportChunk, taskOnly, Grow
  <2>3. CASE Fail(j)
    BY <1>d, <2>2, <2>3 DEF NarInfo
  <2>4. CASE /\ valid' = valid \cup C
             /\ Set(j, [task[j] EXCEPT !.todo = @ \ C, !.roots = @ \cup C])
    <3>a. task'[j] = [task[j] EXCEPT !.todo = @ \ C, !.roots = @ \cup C]
      BY <1>b, <2>4
    <3>1. /\ task'[j].pc = task[j].pc /\ task'[j].todo = task[j].todo \ C
          /\ task'[j].roots = task[j].roots \cup C
      BY <1>a, <2>4, <3>a DEF TaskType
    <3>2. task[j].pc \in {"import", "importOuts"}
      BY <1>2 DEF ImportChunk, At
    <3>3. task'[j].roots \subseteq valid'
      BY <1>a, <2>4, <3>1 DEF TaskTrue
    <3>4. TaskTrue(j)'
      BY <1>a, <3>1, <3>2, <3>3 DEF TaskTrue
    <3> QED BY <1>b, <1>c, <2>2, <2>4, <3>4 DEF NarInfo
  <2> QED BY <2>1, <2>3, <2>4
<1>3. CASE FetchFull(j)
  <2>1. Grow /\ UNCHANGED <<run, applying, bucket, valid>>
    BY <1>3 DEF FetchFull, taskOnly, Grow
  <2>2. CASE Fail(j)
    BY <1>d, <2>1, <2>2 DEF NarInfo
  <2>3. CASE Set(j, [task[j] EXCEPT !.pc = "importOuts", !.todo = Missing(FullClosureOf[DrvOf[j]]),
                                    !.roots = @ \cup Present(FullClosureOf[DrvOf[j]])])
    <3>a. task'[j] = [task[j] EXCEPT !.pc = "importOuts", !.todo = Missing(FullClosureOf[DrvOf[j]]),
                                     !.roots = @ \cup Present(FullClosureOf[DrvOf[j]])]
      BY <1>b, <2>3
    <3>1. /\ task'[j].pc = "importOuts" /\ task'[j].todo = FullClosureOf[DrvOf[j]] \ valid
          /\ task'[j].roots = task[j].roots \cup (FullClosureOf[DrvOf[j]] \cap valid)
      BY <1>a, <2>3, <3>a DEF TaskType, Missing, Present
    <3>2. TaskTrue(j)'
      BY <1>a, <2>1, <3>1 DEF TaskTrue
    <3> QED BY <1>b, <1>c, <2>1, <2>3, <3>2 DEF NarInfo
  <2> QED BY <1>3, <2>2, <2>3 DEF FetchFull, fetch_drv_requisites
<1>4. CASE Realise(j)
  <2>1. Grow /\ UNCHANGED <<run, applying, bucket>>
    BY <1>4 DEF Realise, taskOnly, Grow
  <2>2. CASE Fail(j)
    BY <1>d, <2>1, <2>2 DEF NarInfo
  <2>3. CASE /\ valid' = valid \cup Outs(j)
             /\ Set(j, [task[j] EXCEPT !.pc = "route", !.roots = @ \cup Outs(j), !.size = 0])
    <3>a. task'[j] = [task[j] EXCEPT !.pc = "route", !.roots = @ \cup Outs(j), !.size = 0]
      BY <1>b, <2>3
    <3>1. /\ task'[j].pc = "route" /\ task'[j].todo = {}
          /\ task'[j].roots = task[j].roots \cup Outs(j)
      BY <1>4, <1>a, <2>3, <3>a DEF TaskType, Realise
    <3>2. TaskTrue(j)'
      BY <1>a, <2>3, <3>1 DEF TaskTrue
    <3> QED BY <1>b, <1>c, <2>1, <2>3, <3>2 DEF NarInfo
  <2> QED BY <1>4, <2>2, <2>3 DEF Realise
<1>5. CASE AskPaths(j) /\ ~task[j].presigned
  <2>1. Grow /\ UNCHANGED <<run, applying, bucket, valid, rstore>>
    BY <1>5 DEF AskPaths, taskOnly, Grow
  <2>2. PICK S \in Unreported(Outs(j)) : Set(j, [task[j] EXCEPT !.pc = "upload", !.todo = S])
    BY <1>5 DEF AskPaths
  <2>a. task'[j] = [task[j] EXCEPT !.pc = "upload", !.todo = S]
    BY <1>b, <2>2
  <2>3. /\ task'[j].pc = "upload" /\ task'[j].todo = S /\ task'[j].roots = task[j].roots
        /\ task'[j].presigned = task[j].presigned
    BY <1>a, <2>2, <2>a DEF TaskType
  <2>4. Outs(j) \subseteq rstore \cup S
    BY DEF Unreported
  <2>5. TaskTrue(j)'
    BY <1>5, <1>a, <2>1, <2>3, <2>4, ConstantRequisites DEF TaskTrue
  <2> QED BY <1>b, <1>c, <2>1, <2>2, <2>5 DEF NarInfo
<1>6. CASE SendOutputs(j) /\ ~task[j].presigned
  <2>1. Grow /\ UNCHANGED <<run, applying, bucket, valid>>
    BY <1>6 DEF SendOutputs, BuildResult, taskOnly, Grow
  <2>2. PICK D \in Prefixes(task[j].todo) :
          /\ rstore' = rstore \cup D
          /\ Fail(j) \/ (D = task[j].todo /\ Set(j, [task[j] EXCEPT !.todo = {}]))
    BY <1>6 DEF SendOutputs, BuildResult
  <2>3. CASE Fail(j)
    BY <1>d, <2>1, <2>3 DEF NarInfo
  <2>4. CASE D = task[j].todo /\ Set(j, [task[j] EXCEPT !.todo = {}])
    <3>1. /\ task'[j].pc = "upload" /\ task'[j].todo = {} /\ task'[j].roots = task[j].roots
          /\ task'[j].presigned = task[j].presigned
      BY <1>6, <1>a, <1>b, <2>4 DEF TaskType, SendOutputs, At
    <3>2. Outs(j) \subseteq rstore \cup task[j].todo
      BY <1>6, <1>a DEF TaskTrue, SendOutputs, At
    <3>3. TaskTrue(j)'
      BY <1>6, <1>a, <2>1, <2>2, <2>4, <3>1, <3>2, ConstantRequisites DEF TaskTrue
    <3> QED BY <1>b, <1>c, <2>1, <2>4, <3>3 DEF NarInfo
  <2> QED BY <2>2, <2>3, <2>4
<1>7. CASE RequestUrls(j) /\ task[j].presigned
  <2>1. Grow /\ UNCHANGED <<run, applying, bucket, valid>> /\ task[j].pc = "route"
    BY <1>7 DEF RequestUrls, taskOnly, Grow, At
  <2>2. CASE Fail(j)
    BY <1>d, <2>1, <2>2 DEF NarInfo
  <2>3. CASE Set(j, [task[j] EXCEPT !.pc = "upload"]) /\ skipped' = skipped \cup {j}
    <3>1. /\ task'[j].pc = "upload" /\ task'[j].todo = {} /\ task'[j].roots = task[j].roots
          /\ task'[j].presigned
      BY <1>7, <1>a, <1>b, <2>1, <2>3 DEF TaskType, TaskTrue
    <3>2. TaskTrue(j)'
      BY <1>a, <2>1, <2>3, <3>1 DEF TaskTrue, PresignedTrue
    <3> QED BY <1>b, <1>c, <2>1, <2>3, <3>2 DEF NarInfo
  <2>4. ASSUME NEW blind \in {{}, AllDebug},
               Set(j, [task[j] EXCEPT !.pc = "upload", !.todo = query_requisites(Outs(j)),
                                      !.urls = PresignedUrls(query_requisites(Outs(j)), blind)])
        PROVE  Goal
    <3>a. task'[j] = [task[j] EXCEPT !.pc = "upload", !.todo = query_requisites(Outs(j)),
                                     !.urls = PresignedUrls(query_requisites(Outs(j)), blind)]
      BY <1>b, <2>4
    <3>1. /\ task'[j].pc = "upload" /\ task'[j].todo = query_requisites(Outs(j))
          /\ task'[j].roots = task[j].roots /\ task'[j].presigned
      BY <1>7, <1>a, <2>4, <3>a DEF TaskType
    <3>2. TaskTrue(j)'
      BY <1>a, <2>1, <3>1, ConstantRequisites DEF TaskTrue, PresignedTrue
    <3> QED BY <1>b, <1>c, <2>1, <2>4, <3>2 DEF NarInfo, Goal
  <2> QED BY <1>7, <2>2, <2>3, <2>4 DEF RequestUrls, Goal
<1>8. CASE PutPath(j) /\ task[j].presigned
  <2>1. UNCHANGED <<run, applying, valid, rstore, skipped>> /\ task[j].pc = "upload"
    BY <1>8 DEF PutPath, taskOnly, At
  <2>2. bucket \subseteq bucket' /\ \A p : NarInfo(p) \in bucket' => NarInfo(p) \in bucket
    BY <1>8, ObjectsNoNarInfo DEF PutPath
  <2>3. Grow
    BY <2>1, <2>2 DEF Grow
  <2>4. CASE Fail(j)
    BY <1>d, <2>1, <2>2, <2>3, <2>4
  <2>5. CASE Set(j, [task[j] EXCEPT !.pc = "notify"])
    <3>1. /\ task'[j].pc = "notify" /\ task'[j].todo = task[j].todo
          /\ task'[j].roots = task[j].roots /\ task'[j].presigned
      BY <1>8, <1>a, <1>b, <2>5 DEF TaskType
    <3>2. PresignedTrue(j)'
      BY <1>8, <1>a, <2>1, <2>2, <3>1, ConstantRequisites
         DEF TaskTrue, PresignedTrue, has_narinfo, NarInfo
    <3>3. TaskTrue(j)'
      BY <1>a, <2>1, <3>1, <3>2 DEF TaskTrue
    <3> QED BY <1>b, <1>c, <2>1, <2>2, <2>3, <2>5, <3>3
  <2> QED BY <1>8, <2>4, <2>5 DEF PutPath
<1>9. CASE Notify(j) /\ task[j].presigned
  <2>1. UNCHANGED <<run, applying, valid, rstore, skipped>> /\ task[j].pc = "notify"
    BY <1>9 DEF Notify, taskOnly, At
  <2>2. CASE UNCHANGED bucket /\ Fail(j)
    BY <1>d, <2>1, <2>2 DEF Grow, NarInfo
  <2>3. ASSUME NEW p \in Turn(task[j].todo), WriteNarInfo(j, p),
               Fail(j) \/ Set(j, [task[j] EXCEPT !.pc = "upload", !.todo = @ \ {p}])
        PROVE  Goal
    <3>1. bucket' = bucket \cup {NarInfo(p)}
      BY <2>3 DEF WriteNarInfo
    <3>2. Grow
      BY <2>1, <3>1 DEF Grow
    <3>3. ClosureServed'
      BY <1>9, <2>1, <2>3, NotifyServes
    <3>4. CASE Fail(j)
      <4>1. TaskTrue(j)' /\ \A k \in Jobs \ {j} : task'[k] = task[k]
        BY <1>a, <3>4, FailRests, FailOnly
      <4> QED BY <2>1, <3>2, <3>3, <4>1, TaskStepSuffices DEF Goal
    <3>5. CASE Set(j, [task[j] EXCEPT !.pc = "upload", !.todo = @ \ {p}])
      <4>a. task'[j] = [task[j] EXCEPT !.pc = "upload", !.todo = @ \ {p}]
        BY <1>b, <3>5
      <4>1. /\ task'[j].pc = "upload" /\ task'[j].todo = task[j].todo \ {p}
            /\ task'[j].roots = task[j].roots /\ task'[j].presigned
        BY <1>9, <1>a, <3>5, <4>a DEF TaskType
      <4>2. PresignedTrue(j)
        BY <1>9, <1>a, <2>1 DEF TaskTrue
      <4>3. PresignedTrue(j)'
        BY <4>1, <4>2, <2>1, <3>1, ConstantRequisites DEF PresignedTrue, has_narinfo, NarInfo
      <4>4. TaskTrue(j)'
        BY <1>a, <2>1, <4>1, <4>3 DEF TaskTrue
      <4> QED BY <1>b, <2>1, <3>2, <3>3, <3>5, <4>4, TaskStepSuffices DEF Goal
    <3> QED BY <2>3, <3>4, <3>5
  <2> QED BY <1>9, <2>2, <2>3 DEF Notify, Goal
<1>10. CASE PostProcess(j)
  <2>1. Grow /\ UNCHANGED <<run, applying, bucket, valid, rstore, skipped>>
    BY <1>10 DEF PostProcess, taskOnly, Grow
  <2>2. CASE Fail(j)
    BY <1>d, <2>1, <2>2 DEF NarInfo
  <2>3. CASE Set(j, [Idle EXCEPT !.pc = "report", !.left = Attempts, !.roots = task[j].roots])
    <3>a. task'[j] = [Idle EXCEPT !.pc = "report", !.left = Attempts, !.roots = task[j].roots]
      BY <1>b, <2>3
    <3>1. task'[j].pc = "report" /\ task'[j].roots = task[j].roots /\ task'[j].left = Attempts
      BY <2>3, IdleTyped, <3>a DEF TaskType
    <3>2. task[j].pc = "upload" /\ task[j].todo = {} /\ task[j].presigned \in BOOLEAN
      BY <1>10, <1>a DEF PostProcess, At, TaskType
    <3>3. Delivered(j)
      BY <1>a, <3>2 DEF TaskTrue, PresignedTrue, Delivered
    <3>4. Delivered(j)'
      BY <2>1, <3>3, DeliveredStays
    <3>5. TaskTrue(j)'
      BY <1>a, <2>1, <3>1, <3>4, BuilderAssumption DEF TaskTrue
    <3> QED BY <1>b, <1>c, <2>1, <2>3, <3>5 DEF NarInfo
  <2> QED BY <1>10, <2>2, <2>3 DEF PostProcess
<1>11. CASE ReportSuccess(j)
  <2>1. Grow /\ UNCHANGED <<run, bucket, valid, rstore, skipped>>
    BY <1>11 DEF ReportSuccess, taskOnly, Grow
  <2>2. task[j].pc = "report" /\ task[j].left > 0 /\ Delivered(j)
    BY <1>11, <1>a DEF ReportSuccess, At, TaskTrue
  <2>3. applying' \subseteq applying \cup {<<j, "Success">>}
    BY <1>11 DEF ReportSuccess, Attempt
  <2>4. \A k \in Jobs : <<k, "Success">> \in applying' =>
                          <<k, "Success">> \in applying \/ (k = j /\ Delivered(j))
    BY <2>2, <2>3
  <2>5. CASE Fail(j) \/ Set(j, Over)
    <3>1. TaskTrue(j)' /\ \A k \in Jobs \ {j} : task'[k] = task[k]
      BY <1>a, <1>b, <2>5, FailRests, FailOnly
    <3> QED BY <2>1, <2>4, <3>1, TaskStepSuffices DEF NarInfo
  <2>6. CASE task[j].left # 1 /\ Set(j, [task[j] EXCEPT !.left = @ - 1])
    <3>1. /\ task'[j].pc = "report" /\ task'[j].roots = task[j].roots
          /\ task'[j].left = task[j].left - 1
      BY <1>a, <1>b, <2>2, <2>6 DEF TaskType
    <3>2. task[j].left \in Nat
      BY <1>a, BuilderAssumption DEF TaskType
    <3>3. task'[j].left > 0
      BY <2>2, <2>6, <3>1, <3>2
    <3>4. TaskTrue(j)'
      BY <1>a, <2>1, <2>2, <3>1, <3>3, DeliveredStays DEF TaskTrue
    <3> QED BY <1>b, <2>1, <2>4, <2>6, <3>4, TaskStepSuffices DEF NarInfo
  <2> QED BY <1>11, <2>5, <2>6 DEF ReportSuccess
<1>12. CASE RemoveFailed(j)
  <2>1. Grow /\ UNCHANGED <<run, applying, bucket, valid>>
    BY <1>12 DEF RemoveFailed, taskOnly, Grow
  <2>2. task'[j].pc = "reportFail" /\ task'[j].roots = task[j].roots
    BY <1>12, <1>a, <1>b DEF RemoveFailed, TaskType
  <2>3. TaskTrue(j)'
    BY <1>a, <2>1, <2>2 DEF TaskTrue
  <2> QED BY <1>12, <1>b, <1>c, <2>1, <2>3 DEF RemoveFailed, NarInfo
<1>13. CASE ReportFailure(j)
  <2>1. Grow /\ UNCHANGED <<run, bucket, valid>>
    BY <1>13 DEF ReportFailure, taskOnly, Grow
  <2>2. \A k \in Jobs : <<k, "Success">> \in applying' => <<k, "Success">> \in applying
    BY <1>13 DEF ReportFailure, Attempt
  <2>3. TaskTrue(j)' /\ \A k \in Jobs \ {j} : task'[k] = task[k]
    BY <1>13, <1>a, <1>b, FailRests DEF ReportFailure
  <2> QED BY <2>1, <2>2, <2>3, TaskStepSuffices DEF NarInfo
<1> QED BY <1>1, <1>2, <1>3, <1>4, <1>5, <1>6, <1>7, <1>8, <1>9, <1>10, <1>11, <1>12, <1>13
        DEF TaskStep, UploadNars, Goal
LEMMA NextStores ==
    ASSUME IInv, [Next]_vars
    PROVE  (\A k \in Jobs : TaskTrue(k)') /\ ReportsTrue' /\ ClosureServed'
<1> DEFINE Same(k) == /\ task'[k].pc = task[k].pc /\ task'[k].todo = task[k].todo
                      /\ task'[k].roots = task[k].roots /\ task'[k].left = task[k].left
                      /\ task'[k].presigned = task[k].presigned
           Rests(k) == task'[k].roots = {} /\ task'[k].pc \in {"none", "over", "start"}
           Goal == (\A k \in Jobs : TaskTrue(k)') /\ ReportsTrue' /\ ClosureServed'
<1>a. TypeOK /\ task \in [Jobs -> TaskType]
  BY DEF IInv, TypeOK
<1>b. ASSUME UNCHANGED <<valid, rstore, bucket, skipped>>,
             applying' \subseteq applying,
             \A k \in Jobs : run'[k] = "Success" => run[k] = "Success" \/ <<k, "Success">> \in applying,
             \A k \in Jobs : Same(k) \/ Rests(k)
      PROVE  Goal
  <2>1. Grow
    BY <1>b DEF Grow
  <2>2. ReportsTrue'
    BY <1>b, <2>1, DeliveredStays DEF IInv, ReportsTrue
  <2>3. ClosureServed'
    BY <1>b DEF IInv, ClosureServed, NarInfo, ListingOf, Listing, Nar
  <2> QED BY <1>b, <2>1, <2>2, <2>3, OuterTasks
<1>c. CASE UNCHANGED <<valid, rstore, bucket, skipped, applying, run>>
           /\ \A k \in Jobs : Same(k) \/ Rests(k)
  BY <1>b, <1>c
<1> HIDE DEF Goal
<1>1. CASE Exit
  <2>1. \A k \in Jobs : task'[k] = Idle \/ task'[k] = Over
    BY <1>1 DEF Exit
  <2>2. \A k \in Jobs : Rests(k)
    BY <2>1, IdleTyped
  <2> QED BY <1>1, <1>c, <2>2 DEF Exit, runnerVars
<1>2. CASE StopAborts
  <2>1. \A k \in Jobs : task'[k] = task[k] \/ task'[k] = [task[k] EXCEPT !.cancelled = TRUE]
    BY <1>2 DEF StopAborts
  <2>2. \A k \in Jobs : Same(k)
    BY <1>a, <2>1, CancelledTyped
  <2> QED BY <1>2, <1>c, <2>2 DEF StopAborts, runnerVars
<1>3. CASE ScheduleBuild
  <2> DEFINE j == Head(tunnel)[2]
  <2>1. j \in Jobs /\ Head(tunnel)[3] \in BOOLEAN
    BY <1>3, <1>a, ReceivesTyped DEF ScheduleBuild
  <2>2. CASE Set(j, [Idle EXCEPT !.pc = "start", !.presigned = Head(tunnel)[3]])
    <3>1. /\ task'[j] = [Idle EXCEPT !.pc = "start", !.presigned = Head(tunnel)[3]]
          /\ \A k \in Jobs \ {j} : task'[k] = task[k]
      BY <1>a, <2>1, <2>2, SetOnly
    <3> HIDE DEF j
    <3>2. Rests(j)
      BY <3>1, IdleTyped DEF TaskType
    <3>3. \A k \in Jobs : Same(k) \/ Rests(k)
      BY <3>1, <3>2
    <3> QED BY <1>3, <1>c, <3>3 DEF ScheduleBuild, runnerVars
  <2>3. CASE UNCHANGED task
    BY <1>3, <1>c, <2>3 DEF ScheduleBuild, runnerVars
  <2> QED BY <1>3, <2>2, <2>3 DEF ScheduleBuild
<1>4. CASE AbortBuild
  <2> DEFINE j == Head(tunnel)[2]
  <2>1. j \in Jobs
    BY <1>4, <1>a, ReceivesTyped DEF AbortBuild
  <2>2. task' = [task EXCEPT ![j] = [task[j] EXCEPT !.cancelled = TRUE]] \/ task' = task
    BY <1>4 DEF AbortBuild
  <2> HIDE DEF j
  <2>3. \A k \in Jobs : task'[k] = task[k] \/ task'[k] = [task[k] EXCEPT !.cancelled = TRUE]
    BY <1>a, <2>1, <2>2
  <2>4. \A k \in Jobs : Same(k)
    BY <1>a, <2>3, CancelledTyped
  <2> QED BY <1>4, <1>c, <2>4 DEF AbortBuild, runnerVars
<1>5. ASSUME NEW j \in Jobs, TaskDropped(j) PROVE Goal
  <2>1. task'[j] = Over /\ \A k \in Jobs \ {j} : task'[k] = task[k]
    BY <1>5, <1>a, SetOnly DEF TaskDropped
  <2>2. \A k \in Jobs : Same(k) \/ Rests(k)
    BY <2>1, IdleTyped
  <2> QED BY <1>5, <1>c, <2>2 DEF TaskDropped, runnerVars, Goal
<1>6. ASSUME NEW j \in Jobs, TaskStep(j) PROVE Goal
  BY <1>6, TaskStores DEF Goal
<1>7. ASSUME UNCHANGED <<valid, rstore, bucket, skipped, task>>,
             applying' \subseteq applying,
             \A k \in Jobs : run'[k] = "Success" => run[k] = "Success" \/ <<k, "Success">> \in applying
      PROVE  Goal
  <2>1. \A k \in Jobs : Same(k) \/ Rests(k)
    BY <1>7
  <2> QED BY <1>b, <1>7, <2>1
<1>8. CASE JoinRefused \/ BuilderNotices \/ Crash
  BY <1>1, <1>8 DEF JoinRefused, BuilderNotices, Crash, Goal
<1>9. CASE \/ Start \/ LinkBreaks \/ StopHalts \/ HandleLimit \/ UNCHANGED vars
           \/ \E j \in Jobs : InsertNewBuild(j) \/ AbortJob(j)
           \/ \E n \in DownloadLimits : Join(n) \/ \E flag \in BOOLEAN : Reload(n, flag)
  BY <1>7, <1>9 DEF Start, LinkBreaks, StopHalts, HandleLimit, vars, builderVars, runnerVars,
                    InsertNewBuild, AbortJob, Join, Reload, Goal
<1>10. CASE RunnerNotices
  <2>1. \A k \in Jobs : run'[k] = "Success" => run[k] = "Success"
    BY <1>10 DEF RunnerNotices
  <2> QED BY <1>7, <1>10, <2>1 DEF RunnerNotices, builderVars, Goal
<1>11. ASSUME NEW j \in Jobs, BuildDrv(j) \/ InsertJob(j) \/ RecordCancelled(j) PROVE Goal
  <2>1. \A k \in Jobs : run'[k] = "Success" => run[k] = "Success"
    BY <1>11, <1>a DEF BuildDrv, InsertJob, RecordCancelled, TypeOK
  <2> QED BY <1>7, <1>11, <2>1 DEF BuildDrv, InsertJob, RecordCancelled, builderVars, Goal
<1>12. ASSUME NEW j \in Jobs, NEW r \in Results, ApplyResult(j, r) PROVE Goal
  <2>1. \A k \in Jobs : run'[k] = "Success" => run[k] = "Success" \/ <<k, "Success">> \in applying
    BY <1>12, <1>a DEF ApplyResult, TypeOK
  <2> QED BY <1>7, <1>12, <2>1 DEF ApplyResult, builderVars, Goal
<1> QED BY <1>2, <1>3, <1>4, <1>5, <1>6, <1>8, <1>9, <1>10, <1>11, <1>12 DEF Next, Handle, Goal

-----------------------------------------------------------------------------
(* The theorems.                                                           *)

(* Every step keeps the inductive invariant. *)
THEOREM Inductive == Spec => []IInv
<1>1. Init => IInv
  BY InitIInv
<1>2. IInv /\ [Next]_vars => IInv'
  BY NextTypes, NextEntries, NextStores DEF IInv
<1> QED BY <1>1, <1>2, PTL DEF Spec

(* The variables have their types. *)
THEOREM TypeCorrect == Spec => []TypeOK
<1>1. IInv => TypeOK
  BY DEF IInv
<1> QED BY <1>1, Inductive, PTL

(* Of two tasks at work on one derivation one is aborted: contains_build   *)
(* and the order of the removals keep a derivation from being built twice. *)
THEOREM NeverTwoBuilds == Spec => []OneBuildPerDrv
<1>1. IInv => OneBuildPerDrv
  BY DEF IInv, Entries, OneBuildPerDrv
<1> QED BY <1>1, Inductive, PTL

(* A build starts on inputs that are valid and rooted by the build itself, *)
(* whatever other tasks have imported meanwhile and however import_paths   *)
(* has cut the lists.                                                      *)
THEOREM InputsAlwaysRooted == Spec => []InputsRooted
<1>1. IInv => InputsRooted
  BY DEF IInv, TaskTrue, InputsRooted
<1> QED BY <1>1, Inductive, PTL

(* A job that succeeds has its outputs in the queue runner's store or,     *)
(* with their closure, in the cache, by whichever route they went.         *)
THEOREM SuccessDelivers == Spec => []SuccessMeansOutputs
<1>1. IInv => SuccessMeansOutputs
  BY DEF IInv, ReportsTrue, Delivered, SuccessMeansOutputs
<1> QED BY <1>1, Inductive, PTL

(* A narinfo is in the bucket only with its NAR, its listing and the       *)
(* narinfos of all references, although several tasks upload one closure.  *)
THEOREM ClosureAlwaysServed == Spec => []ClosureServed
<1>1. IInv => ClosureServed
  BY DEF IInv
<1> QED BY <1>1, Inductive, PTL

(* No report, removal or cancellation changes the outcome a job has. *)
THEOREM OutcomeStays == Spec => OutcomeFinal
<1>1. TypeOK /\ [Next]_vars => [\A j \in Jobs : run[j] \in Ended => run'[j] = run[j]]_vars
  <2> SUFFICES ASSUME TypeOK, Next, NEW j \in Jobs, run[j] \in Ended
               PROVE  run'[j] = run[j]
    OBVIOUS
  <2> USE DEF runnerVars
  <2>1. run[j] \notin {"idle", "sent", "held"}
    BY DEF Ended, Results
  <2>2. CASE RunnerNotices
    BY <2>1, <2>2 DEF RunnerNotices
  <2>3. ASSUME NEW k \in Jobs, \/ BuildDrv(k) \/ InsertJob(k) \/ RecordCancelled(k)
                               \/ \E r \in Results : ApplyResult(k, r)
        PROVE  run'[j] = run[j]
    BY <2>1, <2>3 DEF BuildDrv, InsertJob, RecordCancelled, ApplyResult, TypeOK
  <2>4. CASE \/ Start \/ JoinRefused \/ LinkBreaks \/ BuilderNotices \/ Crash \/ StopHalts
             \/ StopAborts \/ Handle
             \/ \E n \in DownloadLimits : Join(n) \/ \E flag \in BOOLEAN : Reload(n, flag)
    BY <2>4 DEF Start, JoinRefused, LinkBreaks, BuilderNotices, Crash, StopHalts, StopAborts, Exit,
                Handle, HandleLimit, ScheduleBuild, AbortBuild, Join, Reload
  <2>5. ASSUME NEW k \in Jobs, AbortJob(k) \/ InsertNewBuild(k) \/ TaskDropped(k)
        PROVE  run'[j] = run[j]
    BY <2>5 DEF AbortJob, InsertNewBuild, TaskDropped
  <2>6. ASSUME NEW k \in Jobs, TaskStep(k) PROVE run'[j] = run[j]
    BY <2>6 DEF TaskStep, FetchRequisites, ImportChunk, FetchFull, Realise, UploadNars, RequestUrls,
         PutPath, Notify, AskPaths, SendOutputs, PostProcess, ReportSuccess, RemoveFailed,
         ReportFailure, taskOnly
  <2> QED BY <2>2, <2>3, <2>4, <2>5, <2>6 DEF Next
<1> QED BY <1>1, TypeCorrect, PTL DEF Spec, OutcomeFinal
=============================================================================
