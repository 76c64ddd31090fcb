------------------------------- MODULE Uploader -------------------------------
(***************************************************************************)
(* The queue runner's uploader: messages wait in an InspectableChannel,    *)
(* one worker takes them out, alone or in batches, and copies the closure  *)
(* of every message to the cache; a file keeps what is not done yet.       *)
(*                                                                         *)
(* There is one remote store: the loop over the stores repeats the same    *)
(* for each.  The upload of the log changes nothing that is modelled.      *)
(***************************************************************************)
EXTENDS BinaryCache, Sequences

CONSTANTS
    Msgs,        \* messages
    OutsOf,      \* message -> its store_paths
    Limits,      \* the values concurrent_upload_limit may have
    Attempts,    \* attempts of copy_paths
    LargeNars,   \* paths whose NAR needs a multipart upload
    MaxStarts    \* bound: processes

ASSUME UploaderAssumption ==
    /\ OutsOf \in [Msgs -> SUBSET Paths] /\ IsFiniteSet(Msgs)
    /\ Limits \subseteq Nat /\ Attempts \in Nat \ {0} /\ MaxStarts \in Nat
    /\ LargeNars \subseteq Paths

VARIABLES
    up,            \* the process runs
    queue,         \* the channel's messages
    permit,        \* the channel's Notify holds a permit
    worker,        \* where the worker is: recv, wait, popped, upload
    many,          \* it is in upload_many
    batch,         \* the messages it has taken out
    current_tasks,
    upl,           \* message -> its upload
    file,          \* the state file
    scheduled,     \* messages given to this process (history)
    interrupted,   \* paths whose multipart upload was interrupted (history)
    starts

vars == <<bucket, up, queue, permit, worker, many, batch, current_tasks, upl, file,
          scheduled, interrupted, starts>>

Stages == {"todo", "objects", "nar", "done"}
EndPcs == {"copied", "failed", "unknown"}
Idle == [pc |-> "idle", copy |-> <<>>, left |-> 0]
IsQueue(q) == q \in Seq(Msgs)
Elems(q) == {q[i] : i \in 1..Len(q)}

(* The variables have their types. *)
TypeOK ==
    /\ up \in BOOLEAN /\ permit \in BOOLEAN /\ many \in BOOLEAN
    /\ IsQueue(queue) /\ IsQueue(file)
    /\ worker \in {"recv", "wait", "popped", "upload"}
    /\ batch \subseteq Msgs /\ current_tasks \subseteq Msgs /\ scheduled \subseteq Msgs
    /\ \A m \in Msgs :
       /\ upl[m].pc \in {"idle", "query", "copy"} \cup EndPcs
       /\ DOMAIN upl[m].copy \subseteq Paths
       /\ \A p \in DOMAIN upl[m].copy : upl[m].copy[p] \in Stages
       /\ upl[m].left \in 0..Attempts
    /\ bucket \subseteq Objects /\ interrupted \subseteq Paths /\ starts \in 0..MaxStarts

Init ==
    /\ up = FALSE /\ queue = <<>> /\ permit = FALSE /\ worker = "recv" /\ many = FALSE
    /\ batch = {} /\ current_tasks = {} /\ upl = [m \in Msgs |-> Idle]
    /\ file = <<>> /\ scheduled = {} /\ interrupted = {}
    /\ bucket = {} /\ starts = 0

-----------------------------------------------------------------------------
(* The process and the state file.                                         *)

(* load_state.  save_state leaves the id out (skip_serializing), and a     *)
(* message without one cannot be read: the error is logged, and the queue  *)
(* starts empty.                                                           *)
Written(m) == [store_paths |-> OutsOf[m]]
Readable(content) == \A i \in 1..Len(content) : "id" \in DOMAIN Written(content[i])
LoadState(content) == IF Readable(content) THEN content ELSE <<>>

Start ==
    /\ ~up /\ starts < MaxStarts
    /\ up' = TRUE /\ starts' = starts + 1
    /\ queue' = LoadState(file) /\ permit' = (LoadState(file) # <<>>)
    /\ UNCHANGED <<bucket, worker, many, batch, current_tasks, upl, file, scheduled, interrupted>>

(* The process ends, on a signal or without one: only the file is left. *)
Stop ==
    /\ up
    /\ up' = FALSE
    /\ queue' = <<>> /\ permit' = FALSE /\ worker' = "recv" /\ many' = FALSE
    /\ batch' = {} /\ current_tasks' = {}
    /\ upl' = [m \in Msgs |-> IF upl[m].pc \in EndPcs THEN upl[m] ELSE Idle]
    /\ scheduled' = {m \in scheduled : upl[m].pc \in EndPcs}
    /\ UNCHANGED <<bucket, file, interrupted, starts>>

(* save_state takes what is queued, then what is current (a message on its *)
(* way from one to the other is in neither), and writes it.  The write is  *)
(* awaited after the locks are free: it may come too late, or be overtaken *)
(* by that of an older list, and the file then has what it had.            *)
Orders(S) == {q \in [1..Cardinality(S) -> S] : Elems(q) = S}
SaveState(q, current) ==
    \/ \E rest \in Orders(current) : file' = q \o rest
    \/ UNCHANGED file

-----------------------------------------------------------------------------
(* The channel.                                                            *)

(* Mutant of ScheduleUpload: the worker is not notified. *)
ScheduleUnnoticed(m) ==
    /\ up /\ m \notin scheduled
    /\ scheduled' = scheduled \cup {m}
    /\ queue' = Append(queue, m)
    /\ SaveState(queue', current_tasks)
    /\ UNCHANGED <<bucket, up, permit, worker, many, batch, current_tasks, upl,
                   interrupted, starts>>

(* schedule_upload, from succeed_step or from create_step. *)
ScheduleUpload(m) ==
    /\ up /\ m \notin scheduled
    /\ scheduled' = scheduled \cup {m}
    /\ queue' = Append(queue, m) /\ permit' = TRUE
    /\ SaveState(queue', current_tasks)
    /\ UNCHANGED <<bucket, up, worker, many, batch, current_tasks, upl,
                   interrupted, starts>>

Smaller(a, b) == IF a < b THEN a ELSE b

(* Mutant of Taken: one more is popped than returned. *)
TakenShort(n) == [msgs |-> Elems(SubSeq(queue, 1, n)), rest |-> SubSeq(queue, n + 2, Len(queue))]

Taken(n) == [msgs |-> Elems(SubSeq(queue, 1, n)), rest |-> SubSeq(queue, n + 1, Len(queue))]

(* recv or recv_many, by the limit of this round: the worker takes what    *)
(* there is, or waits for a permit.                                        *)
Recv(limit) ==
    LET taken == Taken(IF limit < 2 THEN 1 ELSE Smaller(limit, Len(queue))) IN
    /\ up /\ worker = "recv"
    /\ \/ /\ queue # <<>>
          /\ worker' = "popped" /\ many' = (limit >= 2)
          /\ batch' = taken.msgs /\ queue' = taken.rest
       \/ queue = <<>> /\ worker' = "wait" /\ UNCHANGED <<many, batch, queue>>
    /\ UNCHANGED <<bucket, up, permit, current_tasks, upl, file, scheduled,
                   interrupted, starts>>

Notified ==
    /\ up /\ worker = "wait" /\ permit
    /\ permit' = FALSE /\ worker' = "recv"
    /\ UNCHANGED <<bucket, up, queue, many, batch, current_tasks, upl, file,
                   scheduled, interrupted, starts>>

-----------------------------------------------------------------------------
(* upload_once and upload_many.                                            *)

BatchStarts ==
    /\ up /\ worker = "popped"
    /\ worker' = "upload"
    /\ current_tasks' = current_tasks \cup batch
    /\ upl' = [m \in Msgs |-> IF m \in batch THEN [Idle EXCEPT !.pc = "query"] ELSE upl[m]]
    /\ UNCHANGED <<bucket, up, queue, permit, many, batch, file, scheduled,
                   interrupted, starts>>

(* upload_once drops its message from current_tasks; upload_many keeps     *)
(* those it has just finished, and drops the others.                       *)
Retained == IF many THEN current_tasks \cap batch ELSE current_tasks \ batch

BatchEnds ==
    /\ up /\ worker = "upload" /\ \A m \in batch : upl[m].pc \in EndPcs
    /\ current_tasks' = Retained
    /\ SaveState(queue, Retained)
    /\ worker' = "recv" /\ batch' = {}
    /\ UNCHANGED <<bucket, up, queue, permit, many, upl, scheduled, interrupted, starts>>

uploadOnly == UNCHANGED <<up, queue, permit, worker, many, batch, current_tasks, file,
                          scheduled, starts>>
Working(m, pc) == up /\ worker = "upload" /\ m \in batch /\ upl[m].pc = pc
SetUpl(m, u) == upl' = [upl EXCEPT ![m] = u]

(* Mutant of MissingAnswers: a path the question fails for counts as there. *)
MissingAnswersHopeful(S) == SUBSET {p \in S : ~has_narinfo(p)}

(* query_missing_paths: the answers; a path it cannot ask for is missing. *)
MissingAnswers(S) == {T \in SUBSET S : \A p \in S : ~has_narinfo(p) => p \in T}

(* upload_msg gives the message up when the closure is not known. *)
QueryPaths(m) ==
    /\ Working(m, "query")
    /\ \/ SetUpl(m, [Idle EXCEPT !.pc = "unknown"])
       \/ \E T \in MissingAnswers(query_requisites(OutsOf[m])) :
          SetUpl(m, [pc |-> "copy", copy |-> [p \in T |-> "todo"], left |-> Attempts])
    /\ uploadOnly /\ UNCHANGED <<bucket, interrupted>>

(* copy_paths copies the paths of a message side by side, each in the      *)
(* stages of copy_path: the narinfo is looked for; the listing and the     *)
(* debug links are written, then the NAR, and last the narinfo.            *)
Copying(m, p, stage) ==
    Working(m, "copy") /\ p \in DOMAIN upl[m].copy /\ upl[m].copy[p] = stage
Copied(m, p, stage) == SetUpl(m, [upl[m] EXCEPT !.copy[p] = stage])

LookForNarInfo(m, p) ==
    /\ Copying(m, p, "todo")
    /\ Copied(m, p, IF has_narinfo(p) THEN "done" ELSE "objects")
    /\ uploadOnly /\ UNCHANGED <<bucket, interrupted>>

(* What is in the bucket while copy_path is on its way to the NAR. *)
CopyObjects(m, p) ==
    /\ Copying(m, p, "objects")
    /\ \E B \in Interrupted(p, UnlinkedDebug(p, {})) : bucket' = bucket \cup B
    /\ uploadOnly /\ UNCHANGED <<upl, interrupted>>

(* What a PUT writes: all parts of a large NAR or nothing; an interrupted  *)
(* multipart upload is aborted, logged, and no error of upload_file.       *)
run_multipart_upload(p) == {{Nar(p)}, {}}
upload_file(p) == IF p \in LargeNars THEN run_multipart_upload(p) ELSE {{Nar(p)}}

CopyNar(m, p) ==
    /\ Copying(m, p, "objects") /\ Copied(m, p, "nar")
    /\ \E nar \in upload_file(p) :
       /\ bucket' = bucket \cup (Complete(p, UnlinkedDebug(p, {})) \ {Nar(p)}) \cup nar
       /\ interrupted' = interrupted \cup {q \in {p} : nar = {}}
    /\ uploadOnly

(* Mutant of CopyNarInfo: it does not wait for the NAR. *)
CopyNarInfoEarly(m, p) ==
    /\ Copying(m, p, "objects") \/ Copying(m, p, "nar")
    /\ bucket' = bucket \cup {NarInfo(p)}
    /\ Copied(m, p, "done")
    /\ uploadOnly /\ UNCHANGED interrupted

CopyNarInfo(m, p) ==
    /\ Copying(m, p, "nar")
    /\ bucket' = bucket \cup {NarInfo(p)}
    /\ Copied(m, p, "done")
    /\ uploadOnly /\ UNCHANGED interrupted

CopyStep(m) ==
    \E p \in Paths :
        LookForNarInfo(m, p) \/ CopyObjects(m, p) \/ CopyNar(m, p) \/ CopyNarInfo(m, p)

(* An error at a path ends the attempt, and the copies under way with it,  *)
(* where they are; upload_msg calls copy_paths again with the same paths,  *)
(* or gives the message up.                                                *)
CopyFails(m) ==
    /\ Working(m, "copy")
    /\ \E p \in DOMAIN upl[m].copy : upl[m].copy[p] # "done"
    /\ SetUpl(m, IF upl[m].left = 1 THEN [Idle EXCEPT !.pc = "failed"]
                 ELSE [upl[m] EXCEPT !.copy = [p \in DOMAIN upl[m].copy |-> "todo"], !.left = @ - 1])
    /\ uploadOnly /\ UNCHANGED <<bucket, interrupted>>

CopyEnds(m) ==
    /\ Working(m, "copy") /\ \A p \in DOMAIN upl[m].copy : upl[m].copy[p] = "done"
    /\ SetUpl(m, [Idle EXCEPT !.pc = "copied"])
    /\ uploadOnly /\ UNCHANGED <<bucket, interrupted>>

UploadStep(m) == QueryPaths(m) \/ CopyStep(m) \/ CopyFails(m) \/ CopyEnds(m)
WorkerStep == Notified \/ BatchStarts \/ BatchEnds \/ \E limit \in Limits : Recv(limit)

Next ==
    \/ Start \/ Stop \/ WorkerStep
    \/ \E m \in Msgs : ScheduleUpload(m) \/ UploadStep(m)

(* The runtime polls the worker and the uploads it has joined.  Nobody has *)
(* to schedule, stop or start anything.                                    *)
Fairness ==
    /\ WF_vars(WorkerStep)
    /\ \A m \in Msgs : WF_vars(UploadStep(m))

Spec == Init /\ [][Next]_vars /\ Fairness

-----------------------------------------------------------------------------
(* A message is in one place: waiting in the channel, in the worker's      *)
(* hands, or finished.  recv_many and the batches lose and repeat none.    *)
NothingDropped ==
    \A m \in scheduled :
        Cardinality({i \in 1..Len(queue) : queue[i] = m})
        + (IF m \in batch THEN 1 ELSE 0)
        + (IF m \notin batch /\ upl[m].pc \in EndPcs THEN 1 ELSE 0) = 1

(* Who finds a narinfo finds the NAR and the listing, whatever attempts    *)
(* failed and however many messages copy the path at once; save for a      *)
(* multipart upload that was interrupted at its end (upload_file).         *)
ServedWithNar ==
    \A p \in Paths : has_narinfo(p) =>
        ListingOf(p) \cup (IF p \in interrupted THEN {} ELSE {Nar(p)}) \subseteq bucket

(* A message that upload_msg counts as uploaded has its whole closure in   *)
(* the cache, also the paths another message copied.                       *)
CopiedMeansServed ==
    \A m \in Msgs : upl[m].pc = "copied" =>
        \A p \in query_requisites(OutsOf[m]) : has_narinfo(p)

(* While the process runs, every message is dealt with: no notification is *)
(* lost between the look at the channel and the wait for a permit.         *)
UploadsEnd ==
    \A m \in Msgs : m \in scheduled ~> (upl[m].pc \in EndPcs \/ ~up)

=============================================================================
