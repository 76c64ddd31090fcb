---------------------------- MODULE UploaderProofs ----------------------------
(***************************************************************************)
(* The safety of the uploader, for every set of messages and paths, every  *)
(* batch size, every number of attempts and every number of restarts.      *)
(***************************************************************************)
EXTENDS Uploader, SequenceTheorems, FiniteSetTheorems, TLAPS

(* The states of an upload. *)
PartialCopies == UNION {[T -> Stages] : T \in SUBSET Paths}
UploadType == [pc : {"idle", "query", "copy"} \cup EndPcs, copy : PartialCopies, left : Nat]

(* Where a message is: in the channel, in the worker's hands, or finished; *)
(* and what the worker and the process may hold when they rest.            *)
Places ==
    /\ \A i, j \in 1..Len(queue) : queue[i] = queue[j] => i = j
    /\ \A i \in 1..Len(queue) : /\ queue[i] \in scheduled \ batch
                                /\ upl[queue[i]].pc = "idle"
    /\ batch \subseteq scheduled
    /\ \A m \in scheduled : \/ m \in batch
                            \/ upl[m].pc \in EndPcs
                            \/ \E i \in 1..Len(queue) : queue[i] = m
    /\ \A m \in Msgs \ scheduled : upl[m].pc = "idle"
    /\ worker \in {"recv", "wait"} => batch = {}
    /\ ~up => queue = <<>> /\ worker = "recv"

(* The objects copy_path has written before it writes the narinfo. *)
Prepared(p) == ListingOf(p) \cup (IF p \in interrupted THEN {} ELSE {Nar(p)}) \subseteq bucket

(* What the stages of the copies of a message say of the bucket. *)
UploadTrue(m) ==
    /\ \A p \in DOMAIN upl[m].copy :
          /\ upl[m].copy[p] = "nar" => Prepared(p)
          /\ upl[m].copy[p] = "done" => has_narinfo(p)
    /\ upl[m].pc = "copy" =>
          /\ upl[m].left > 0
          /\ \A p \in query_requisites(OutsOf[m]) : p \in DOMAIN upl[m].copy \/ has_narinfo(p)
    /\ upl[m].pc = "copied" =>
          \A p \in query_requisites(OutsOf[m]) : has_narinfo(p)

StagesTrue ==
    /\ \A p \in Paths : has_narinfo(p) => Prepared(p)
    /\ \A m \in Msgs : UploadTrue(m)

(* The inductive invariant. *)
IInv ==
    /\ TypeOK
    /\ upl \in [Msgs -> UploadType]
    /\ Places
    /\ StagesTrue

-----------------------------------------------------------------------------
(* Sequences.                                                              *)

(* Elems is the range of a queue. *)
LEMMA ElemsSubset ==
    ASSUME NEW q \in Seq(Msgs)
    PROVE  /\ Elems(q) \subseteq Msgs
           /\ Len(q) \in Nat
           /\ \A i \in 1..Len(q) : q[i] \in Msgs
BY ElementOfSeq, LenProperties DEF Elems

(* An order of a set of messages is a queue. *)
LEMMA OrderIsQueue ==
    ASSUME NEW S \in SUBSET Msgs, NEW q \in Orders(S)
    PROVE  q \in Seq(Msgs)
<1>1. IsFiniteSet(S)
  BY FS_Subset, UploaderAssumption
<1>2. Cardinality(S) \in Nat
  BY <1>1, FS_CardinalityType
<1> QED BY <1>2, UploaderAssumption DEF Orders

(* What save_state leaves in the file is a list of messages. *)
LEMMA SavedIsQueue ==
    ASSUME file \in Seq(Msgs), NEW q \in Seq(Msgs), NEW S \in SUBSET Msgs, SaveState(q, S)
    PROVE  file' \in Seq(Msgs)
BY OrderIsQueue, ConcatProperties DEF SaveState

(* load_state refuses every file but that of an empty list: no message was *)
(* written with its id.                                                    *)
LEMMA LoadStateEmpty ==
    ASSUME NEW content \in Seq(Msgs)
    PROVE  LoadState(content) = <<>>
<1>1. CASE content = <<>>
  BY <1>1 DEF LoadState
<1>2. CASE content # <<>>
  <2>1. Len(content) \in Nat \ {0}
    BY <1>2, EmptySeq
  <2>2. \A m : "id" \notin DOMAIN Written(m)
    BY DEF Written
  <2>3. ~Readable(content)
    BY <2>1, <2>2 DEF Readable
  <2> QED BY <2>3 DEF LoadState
<1> QED BY <1>1, <1>2

(* recv and recv_many split the queue. *)
LEMMA TakenSplits ==
    ASSUME NEW n \in 1..Len(queue), queue \in Seq(Msgs)
    PROVE  /\ Taken(n).rest \in Seq(Msgs)
           /\ Len(Taken(n).rest) = Len(queue) - n
           /\ \A i \in 1..Len(queue) - n : Taken(n).rest[i] = queue[n + i]
           /\ Taken(n).msgs = {queue[i] : i \in 1..n}
<1>1. Len(queue) \in Nat /\ \A i \in 1..Len(queue) : queue[i] \in Msgs
  BY ElemsSubset
<1>2. /\ SubSeq(queue, 1, n) \in Seq(Msgs)
      /\ Len(SubSeq(queue, 1, n)) = n
      /\ \A i \in 1..n : SubSeq(queue, 1, n)[i] = queue[i]
  BY <1>1, SubSeqProperties
<1>3. /\ SubSeq(queue, n + 1, Len(queue)) \in Seq(Msgs)
      /\ Len(SubSeq(queue, n + 1, Len(queue))) = Len(queue) - n
      /\ \A i \in 1..Len(queue) - n : SubSeq(queue, n + 1, Len(queue))[i] = queue[n + i]
  BY <1>1, SubSeqProperties
<1>4. Taken(n).msgs = {queue[i] : i \in 1..n}
  BY <1>2 DEF Taken, Elems
<1> QED BY <1>3, <1>4 DEF Taken

-----------------------------------------------------------------------------
(* The initial states.                                                     *)

LEMMA IdleTyped == Idle \in UploadType
<1>1. <<>> \in [{} -> Stages]
  OBVIOUS
<1> QED BY <1>1 DEF Idle, UploadType, PartialCopies

(* An upload with its type is what TypeOK asks for. *)
LEMMA UploadOk ==
    ASSUME NEW u \in UploadType
    PROVE  /\ u.pc \in {"idle", "query", "copy"} \cup EndPcs
           /\ DOMAIN u.copy \subseteq Paths
           /\ \A p \in DOMAIN u.copy : u.copy[p] \in Stages
BY DEF UploadType, PartialCopies

LEMMA InitIInv == Init => IInv
<1> SUFFICES ASSUME Init PROVE IInv
  OBVIOUS
<1>1. TypeOK
  <2>1. \A m \in Msgs : upl[m] = Idle
    BY DEF Init
  <2>2. Idle.left \in 0..Attempts
    BY UploaderAssumption DEF Idle
  <2>3. queue \in Seq(Msgs) /\ file \in Seq(Msgs)
    BY EmptySeq DEF Init
  <2>4. up \in BOOLEAN /\ permit \in BOOLEAN /\ many \in BOOLEAN
    BY DEF Init
  <2>5. starts \in 0..MaxStarts
    BY UploaderAssumption DEF Init
  <2>6. /\ worker \in {"recv", "wait", "popped", "upload"}
        /\ batch \subseteq Msgs /\ current_tasks \subseteq Msgs /\ scheduled \subseteq Msgs
        /\ bucket \subseteq Objects /\ interrupted \subseteq Paths
    BY DEF Init
  <2> QED BY <2>1, <2>2, <2>3, <2>4, <2>5, <2>6, IdleTyped, UploadOk DEF TypeOK, IsQueue
<1>2. upl \in [Msgs -> UploadType]
  BY IdleTyped DEF Init
<1>3. Places
  BY DEF Init, Places, Idle
<1>4. StagesTrue
  BY DEF Init, StagesTrue, UploadTrue, has_narinfo, Idle
<1> QED BY <1>1, <1>2, <1>3, <1>4 DEF IInv

-----------------------------------------------------------------------------
(* The type invariant.                                                     *)

(* A step of one upload changes nothing else. *)
LEMMA UploadTypes ==
    ASSUME IInv, NEW m \in Msgs, NEW u, SetUpl(m, u), uploadOnly, u \in UploadType,
           u.left \in 0..Attempts, bucket' \subseteq Objects, interrupted' \subseteq Paths
    PROVE  TypeOK' /\ upl' \in [Msgs -> UploadType]
<1>3. upl' \in [Msgs -> UploadType]
  BY DEF IInv, SetUpl
<1>4. \A k \in Msgs : upl'[k] = IF k = m THEN u ELSE upl[k]
  BY DEF IInv, SetUpl
<1> QED BY <1>3, <1>4, UploadOk DEF IInv, TypeOK, uploadOnly, IsQueue

(* A copy stage of one path. *)
LEMMA CopiedTyped ==
    ASSUME IInv, NEW m \in Msgs, NEW p, NEW stage \in Stages, p \in DOMAIN upl[m].copy
    PROVE  /\ [upl[m] EXCEPT !.copy[p] = stage] \in UploadType
           /\ [upl[m] EXCEPT !.copy[p] = stage].left \in 0..Attempts
<1>1. PICK T \in SUBSET Paths : upl[m].copy \in [T -> Stages]
  <2>1. upl \in [Msgs -> UploadType]
    BY DEF IInv
  <2>2. upl[m].copy \in PartialCopies
    BY <2>1 DEF UploadType
  <2> QED BY <2>2 DEF PartialCopies
<1>2. [upl[m].copy EXCEPT ![p] = stage] \in [T -> Stages]
  BY <1>1
<1>3. upl[m] \in UploadType /\ upl[m].left \in 0..Attempts
  BY DEF IInv, TypeOK
<1> QED BY <1>2, <1>3 DEF UploadType, PartialCopies

(* What copy_path writes are objects of the bucket. *)
LEMMA WritesObjects ==
    ASSUME NEW p \in Paths, NEW links \in SUBSET DebugIds[p]
    PROVE  /\ Complete(p, links) \subseteq Objects
           /\ \A B \in Interrupted(p, links) : B \subseteq Objects
           /\ NarInfo(p) \in Objects
<1>1. \A id \in links : Debug(id) \in Objects
  BY DEF Objects, AllDebug
<1>2. ListingOf(p) \subseteq Objects
  BY DEF ListingOf, Objects
<1>3. Nar(p) \in Objects /\ NarInfo(p) \in Objects
  BY DEF Objects
<1> QED BY <1>1, <1>2, <1>3 DEF Complete, Interrupted, SomeLinks

LEMMA UnlinkedSubset ==
    ASSUME NEW p \in Paths, NEW blind
    PROVE  UnlinkedDebug(p, blind) \in SUBSET DebugIds[p]
BY DEF UnlinkedDebug

(* upload_file writes the NAR or nothing. *)
LEMMA NarOrNothing ==
    ASSUME NEW p, NEW nar \in upload_file(p)
    PROVE  nar = {Nar(p)} \/ nar = {}
BY DEF upload_file, run_multipart_upload

LEMMA NextTypes ==
    ASSUME IInv, [Next]_vars
    PROVE  TypeOK' /\ upl' \in [Msgs -> UploadType]
<1> USE DEF IsQueue
<1>a. TypeOK /\ upl \in [Msgs -> UploadType]
  BY DEF IInv
<1>1. CASE Start
  <2>1. LoadState(file) = <<>>
    BY <1>a, LoadStateEmpty DEF TypeOK
  <2> QED BY <1>1, <1>a, <2>1, UploaderAssumption DEF Start, TypeOK
<1>2. CASE Stop
  <2>1. upl' \in [Msgs -> UploadType]
    BY <1>2, <1>a, IdleTyped DEF Stop
  <2>2. \A m \in Msgs : upl'[m] = upl[m] \/ upl'[m] = Idle
    BY <1>2 DEF Stop
  <2>3. Idle.left \in 0..Attempts
    BY UploaderAssumption DEF Idle
  <2>4. queue' \in Seq(Msgs)
    BY <1>2, EmptySeq DEF Stop
  <2> QED BY <1>2, <1>a, <2>1, <2>2, <2>3, <2>4, UploadOk DEF Stop, TypeOK
<1>3. ASSUME NEW m \in Msgs, ScheduleUpload(m) PROVE TypeOK' /\ upl' \in [Msgs -> UploadType]
  <2>1. queue' \in Seq(Msgs)
    BY <1>3, <1>a, AppendProperties DEF ScheduleUpload, TypeOK
  <2>2. file' \in Seq(Msgs)
    BY <1>3, <1>a, <2>1, SavedIsQueue DEF ScheduleUpload, TypeOK
  <2> QED BY <1>3, <1>a, <2>1, <2>2 DEF ScheduleUpload, TypeOK
<1>4. ASSUME NEW limit \in Limits, Recv(limit) PROVE TypeOK' /\ upl' \in [Msgs -> UploadType]
  <2>1. CASE queue = <<>>
    BY <1>4, <1>a, <2>1 DEF Recv, TypeOK
  <2>2. CASE queue # <<>>
    <3> DEFINE n == IF limit < 2 THEN 1 ELSE Smaller(limit, Len(queue))
    <3>1. Len(queue) \in Nat \ {0}
      BY <1>a, <2>2, EmptySeq DEF TypeOK
    <3>2. n \in 1..Len(queue)
      BY <3>1, UploaderAssumption DEF Smaller
    <3>3. batch' = Taken(n).msgs /\ queue' = Taken(n).rest
      BY <1>4, <2>2 DEF Recv
    <3>a. many' = (limit >= 2) /\ worker' = "popped"
      BY <1>4, <2>2 DEF Recv
    <3>4. many' \in BOOLEAN
      BY <3>a, UploaderAssumption
    <3> HIDE DEF n
    <3>5. queue \in Seq(Msgs) /\ \A i \in 1..Len(queue) : queue[i] \in Msgs
      BY <1>a, ElemsSubset DEF TypeOK
    <3>6. Taken(n).rest \in Seq(Msgs) /\ Taken(n).msgs = {queue[i] : i \in 1..n}
      BY <3>2, <3>5, TakenSplits
    <3>7. Taken(n).msgs \subseteq Msgs
      <4>1. \A i \in 1..n : queue[i] \in Msgs
        BY <3>1, <3>2, <3>5
      <4> QED BY <4>1, <3>6
    <3> QED BY <1>4, <1>a, <3>a, <3>3, <3>4, <3>6, <3>7 DEF Recv, TypeOK
  <2> QED BY <2>1, <2>2
<1>5. CASE Notified
  BY <1>5, <1>a DEF Notified, TypeOK
<1>6. CASE BatchStarts
  <2>1. [Idle EXCEPT !.pc = "query"] \in UploadType
    BY IdleTyped DEF UploadType
  <2>2. \A m \in Msgs : upl'[m] = upl[m] \/ upl'[m] = [Idle EXCEPT !.pc = "query"]
    BY <1>6 DEF BatchStarts
  <2>3. upl' \in [Msgs -> UploadType]
    BY <1>6, <1>a, <2>1 DEF BatchStarts
  <2> QED BY <1>6, <1>a, <2>2, <2>3, UploaderAssumption DEF BatchStarts, TypeOK, Idle
<1>7. CASE BatchEnds
  <2>1. Retained \subseteq Msgs
    BY <1>a DEF TypeOK, Retained
  <2>2. file' \in Seq(Msgs)
    BY <1>7, <1>a, <2>1, SavedIsQueue DEF BatchEnds, TypeOK
  <2> QED BY <1>7, <1>a, <2>1, <2>2 DEF BatchEnds, TypeOK
<1>8. ASSUME NEW m \in Msgs, UploadStep(m) PROVE TypeOK' /\ upl' \in [Msgs -> UploadType]
  <2>1. CASE QueryPaths(m)
    <3>1. CASE SetUpl(m, [Idle EXCEPT !.pc = "unknown"])
      <4>1. [Idle EXCEPT !.pc = "unknown"] \in UploadType
        BY IdleTyped DEF UploadType, EndPcs
      <4> QED BY <2>1, <3>1, <4>1, <1>a, UploadTypes, UploaderAssumption
              DEF QueryPaths, TypeOK, Idle
    <3>2. ASSUME NEW T \in MissingAnswers(query_requisites(OutsOf[m])),
                 SetUpl(m, [pc |-> "copy", copy |-> [p \in T |-> "todo"], left |-> Attempts])
          PROVE  TypeOK' /\ upl' \in [Msgs -> UploadType]
      <4>1. T \in SUBSET Paths
        BY DEF MissingAnswers, query_requisites
      <4>2. [p \in T |-> "todo"] \in PartialCopies
        BY <4>1 DEF PartialCopies, Stages
      <4>3. [pc |-> "copy", copy |-> [p \in T |-> "todo"], left |-> Attempts] \in UploadType
        BY <4>2, UploaderAssumption DEF UploadType
      <4> QED BY <2>1, <3>2, <4>3, <1>a, UploadTypes, UploaderAssumption
              DEF QueryPaths, TypeOK
    <3> QED BY <2>1, <3>1, <3>2 DEF QueryPaths
  <2>2. ASSUME NEW p \in Paths, LookForNarInfo(m, p) PROVE TypeOK' /\ upl' \in [Msgs -> UploadType]
    <3>1. (IF has_narinfo(p) THEN "done" ELSE "objects") \in Stages
      BY DEF Stages
    <3> QED BY <2>2, <3>1, <1>a, UploadTypes, CopiedTyped DEF LookForNarInfo, Copied, Copying, TypeOK
  <2>3. ASSUME NEW p \in Paths, CopyObjects(m, p) PROVE TypeOK' /\ upl' \in [Msgs -> UploadType]
    <3>1. bucket' \subseteq Objects
      BY <2>3, <1>a, WritesObjects, UnlinkedSubset DEF CopyObjects, TypeOK
    <3> QED BY <2>3, <3>1, <1>a DEF CopyObjects, uploadOnly, TypeOK
  <2>4. ASSUME NEW p \in Paths, CopyNar(m, p) PROVE TypeOK' /\ upl' \in [Msgs -> UploadType]
    <3>1. bucket' \subseteq Objects /\ interrupted' \subseteq Paths
      BY <2>4, <1>a, WritesObjects, UnlinkedSubset, NarOrNothing DEF CopyNar, TypeOK, Objects
    <3> QED BY <2>4, <3>1, <1>a, UploadTypes, CopiedTyped DEF CopyNar, Copied, Copying, Stages
  <2>5. ASSUME NEW p \in Paths, CopyNarInfo(m, p) PROVE TypeOK' /\ upl' \in [Msgs -> UploadType]
    <3>1. bucket' \subseteq Objects /\ interrupted' \subseteq Paths
      BY <2>5, <1>a, WritesObjects DEF CopyNarInfo, TypeOK
    <3> QED BY <2>5, <3>1, <1>a, UploadTypes, CopiedTyped DEF CopyNarInfo, Copied, Copying, Stages
  <2>6. CASE CopyFails(m)
    <3>1. CASE upl[m].left = 1
      <4>1. [Idle EXCEPT !.pc = "failed"] \in UploadType
        BY IdleTyped DEF UploadType, EndPcs
      <4> QED BY <2>6, <3>1, <4>1, <1>a, UploadTypes, UploaderAssumption
              DEF CopyFails, TypeOK, Idle
    <3>2. CASE upl[m].left # 1
      <4>1. DOMAIN upl[m].copy \subseteq Paths
        BY <1>a, UploadOk
      <4>2. [p \in DOMAIN upl[m].copy |-> "todo"] \in PartialCopies
        BY <4>1 DEF PartialCopies, Stages
      <4>3. upl[m].left \in 0..Attempts /\ upl[m] \in UploadType
        BY <1>a DEF TypeOK
      <4>4. upl[m].left > 0
        BY <2>6 DEF CopyFails, Working, IInv, StagesTrue, UploadTrue
      <4> DEFINE u == [upl[m] EXCEPT !.copy = [p \in DOMAIN upl[m].copy |-> "todo"], !.left = @ - 1]
      <4>6. upl[m].left - 1 \in 0..Attempts /\ upl[m].left - 1 \in Nat
        BY <4>3, <4>4, UploaderAssumption
      <4>7. u \in UploadType
        BY <4>2, <4>3, <4>6 DEF UploadType
      <4>8. u \in UploadType /\ u.left \in 0..Attempts
        BY <4>3, <4>6, <4>7 DEF UploadType
      <4> QED BY <2>6, <3>2, <4>8, <1>a, UploadTypes DEF CopyFails, TypeOK
    <3> QED BY <3>1, <3>2
  <2>7. CASE CopyEnds(m)
    <3>1. [Idle EXCEPT !.pc = "copied"] \in UploadType
      BY IdleTyped DEF UploadType, EndPcs
    <3> QED BY <2>7, <3>1, <1>a, UploadTypes, UploaderAssumption DEF CopyEnds, TypeOK, Idle
  <2> QED BY <1>8, <2>1, <2>2, <2>3, <2>4, <2>5, <2>6, <2>7 DEF UploadStep, CopyStep
<1>9. CASE UNCHANGED vars
  BY <1>9, <1>a DEF vars, TypeOK
<1> QED BY <1>1, <1>2, <1>3, <1>4, <1>5, <1>6, <1>7, <1>8, <1>9 DEF Next, WorkerStep
-----------------------------------------------------------------------------
(* Every message has its place.                                            *)

(* A step of an upload in the worker's hands moves no message. *)
LEMMA UploadKeepsPlaces ==
    ASSUME IInv, NEW m \in Msgs, m \in batch, uploadOnly,
           \A k \in Msgs \ {m} : upl'[k] = upl[k]
    PROVE  Places'
<1>1. \A i \in 1..Len(queue) : queue[i] \in Msgs \ {m}
  BY ElemsSubset DEF IInv, TypeOK, IsQueue, Places
<1>2. batch \subseteq Msgs /\ scheduled \subseteq Msgs
  BY DEF IInv, TypeOK
<1> QED BY <1>1, <1>2 DEF IInv, Places, uploadOnly

LEMMA SetUplOnly ==
    ASSUME IInv, NEW m \in Msgs, NEW u, SetUpl(m, u)
    PROVE  /\ \A k \in Msgs \ {m} : upl'[k] = upl[k]
           /\ upl'[m] = u
BY DEF SetUpl, IInv

LEMMA UploadStepOnly ==
    ASSUME IInv, NEW m \in Msgs, UploadStep(m)
    PROVE  m \in batch /\ uploadOnly /\ \A k \in Msgs \ {m} : upl'[k] = upl[k]
<1>1. CASE QueryPaths(m)
  BY <1>1, SetUplOnly DEF QueryPaths, Working
<1>2. CASE CopyStep(m)
  BY <1>2, SetUplOnly DEF CopyStep, LookForNarInfo, CopyObjects, CopyNar, CopyNarInfo, Copied, Copying, Working
<1>3. CASE CopyFails(m) \/ CopyEnds(m)
  BY <1>3, SetUplOnly DEF CopyFails, CopyEnds, Working
<1> QED BY <1>1, <1>2, <1>3 DEF UploadStep

LEMMA NextPlaces ==
    ASSUME IInv, [Next]_vars
    PROVE  Places'
<1>a. /\ queue \in Seq(Msgs) /\ file \in Seq(Msgs)
      /\ Len(queue) \in Nat
      /\ \A i \in 1..Len(queue) : queue[i] \in Msgs
      /\ batch \subseteq Msgs /\ scheduled \subseteq Msgs
  BY ElemsSubset DEF IInv, TypeOK, IsQueue
<1>b. Places
  BY DEF IInv
<1>1. CASE Start
  <2>1. queue' = <<>> /\ queue = <<>>
    BY <1>1, <1>a, <1>b, LoadStateEmpty DEF Start, Places
  <2> QED BY <1>1, <1>b, <2>1 DEF Start, Places
<1>2. CASE Stop
  <2>1. /\ Len(queue') = 0 /\ queue' = <<>> /\ batch' = {} /\ worker' = "recv"
        /\ scheduled' = {m \in scheduled : upl[m].pc \in EndPcs}
    BY <1>2 DEF Stop
  <2>2. \A m \in Msgs : upl'[m] = IF upl[m].pc \in EndPcs THEN upl[m] ELSE Idle
    BY <1>2 DEF Stop
  <2>3. \A m \in Msgs \ scheduled' : upl'[m].pc = "idle"
    BY <1>b, <2>1, <2>2 DEF Places, Idle
  <2> QED BY <1>a, <2>1, <2>2, <2>3 DEF Places
<1>3. ASSUME NEW m \in Msgs, ScheduleUpload(m) PROVE Places'
  <2>1. /\ Len(queue') = Len(queue) + 1
        /\ \A i \in 1..Len(queue) : queue'[i] = queue[i]
        /\ queue'[Len(queue) + 1] = m
    BY <1>3, <1>a, AppendProperties DEF ScheduleUpload
  <2>2. m \notin scheduled /\ scheduled' = scheduled \cup {m} /\ up /\ up'
    BY <1>3 DEF ScheduleUpload
  <2>3. UNCHANGED <<batch, upl, worker>>
    BY <1>3 DEF ScheduleUpload
  <2>4. \A i \in 1..Len(queue') : i \in 1..Len(queue) \/ i = Len(queue) + 1
    BY <1>a, <2>1
  <2>5. \A i \in 1..Len(queue') : /\ queue'[i] \in scheduled' \ batch'
                                  /\ upl'[queue'[i]].pc = "idle"
    BY <1>b, <2>1, <2>2, <2>3, <2>4 DEF Places
  <2>6. \A i, j \in 1..Len(queue') : queue'[i] = queue'[j] => i = j
    BY <1>b, <2>1, <2>2, <2>4 DEF Places
  <2>7. \A k \in scheduled' : \/ k \in batch'
                              \/ upl'[k].pc \in EndPcs
                              \/ \E i \in 1..Len(queue') : queue'[i] = k
    <3>1. Len(queue) + 1 \in 1..Len(queue') /\ \A i \in 1..Len(queue) : i \in 1..Len(queue')
      BY <1>a, <2>1
    <3> QED BY <1>b, <2>1, <2>2, <2>3, <3>1 DEF Places
  <2> QED BY <1>b, <2>2, <2>3, <2>5, <2>6, <2>7 DEF Places
<1>4. ASSUME NEW limit \in Limits, Recv(limit) PROVE Places'
  <2>1. CASE queue = <<>>
    BY <1>4, <1>b, <2>1 DEF Recv, Places
  <2>2. CASE queue # <<>>
    <3> DEFINE n == IF limit < 2 THEN 1 ELSE Smaller(limit, Len(queue))
    <3>1. Len(queue) \in Nat \ {0}
      BY <1>a, <2>2, EmptySeq
    <3>2. n \in 1..Len(queue)
      BY <3>1, UploaderAssumption DEF Smaller
    <3>3. batch' = Taken(n).msgs /\ queue' = Taken(n).rest /\ worker' = "popped"
      BY <1>4, <2>2 DEF Recv
    <3>4. up /\ worker = "recv" /\ UNCHANGED <<up, upl, scheduled>>
      BY <1>4 DEF Recv
    <3> HIDE DEF n
    <3>5. /\ Len(queue') = Len(queue) - n
          /\ \A i \in 1..Len(queue) - n : queue'[i] = queue[n + i]
          /\ batch' = {queue[i] : i \in 1..n}
      BY <3>2, <3>3, <1>a, TakenSplits
    <3>6. \A i \in 1..Len(queue') : n + i \in 1..Len(queue) /\ n + i \notin 1..n
      BY <3>1, <3>2, <3>5
    <3>7. \A i, j \in 1..Len(queue') : queue'[i] = queue'[j] => i = j
      <4> SUFFICES ASSUME NEW i \in 1..Len(queue'), NEW j \in 1..Len(queue'), queue'[i] = queue'[j]
                   PROVE  i = j
        OBVIOUS
      <4>1. queue[n + i] = queue[n + j]
        BY <3>5
      <4>2. n + i = n + j
        BY <4>1, <3>6, <1>b DEF Places
      <4> QED BY <4>2, <3>1, <3>2, <3>5
    <3>8. \A i \in 1..n : i \in 1..Len(queue)
      BY <3>1, <3>2
    <3>9. \A i \in 1..Len(queue') : queue'[i] \in scheduled' \ batch' /\ upl'[queue'[i]].pc = "idle"
      <4> SUFFICES ASSUME NEW i \in 1..Len(queue')
                   PROVE  queue'[i] \in scheduled' \ batch' /\ upl'[queue'[i]].pc = "idle"
        OBVIOUS
      <4>1. queue'[i] = queue[n + i] /\ n + i \in 1..Len(queue) /\ n + i \notin 1..n
        BY <3>5, <3>6
      <4>2. queue[n + i] \notin {queue[k] : k \in 1..n}
        BY <4>1, <3>8, <1>b DEF Places
      <4> QED BY <4>1, <4>2, <3>4, <3>5, <1>b DEF Places
    <3>10. batch' \subseteq scheduled'
      BY <3>4, <3>5, <3>8, <1>b DEF Places
    <3>11. \A m \in scheduled' : \/ m \in batch'
                                 \/ upl'[m].pc \in EndPcs
                                 \/ \E i \in 1..Len(queue') : queue'[i] = m
      <4> SUFFICES ASSUME NEW m \in scheduled, upl[m].pc \notin EndPcs, m \notin batch'
                   PROVE  \E i \in 1..Len(queue') : queue'[i] = m
        BY <3>4
      <4>1. batch = {}
        BY <3>4, <1>b DEF Places
      <4>2. PICK i \in 1..Len(queue) : queue[i] = m
        BY <4>1, <1>b DEF Places
      <4>3. i \notin 1..n
        BY <4>2, <3>5
      <4>4. i - n \in 1..Len(queue) - n /\ n + (i - n) = i
        BY <4>3, <3>1, <3>2
      <4> QED BY <4>2, <4>4, <3>5
    <3> QED BY <3>3, <3>4, <3>7, <3>9, <3>10, <3>11, <1>b DEF Places
  <2> QED BY <2>1, <2>2
<1>5. CASE Notified
  BY <1>5, <1>b DEF Notified, Places
<1>6. CASE BatchStarts
  <2>1. \A m \in Msgs : upl'[m] = IF m \in batch THEN [Idle EXCEPT !.pc = "query"] ELSE upl[m]
    BY <1>6 DEF BatchStarts
  <2>2. UNCHANGED <<queue, batch, scheduled, up>> /\ up /\ worker' = "upload"
    BY <1>6 DEF BatchStarts
  <2> QED BY <1>a, <1>b, <2>1, <2>2 DEF Places
<1>7. CASE BatchEnds
  BY <1>7, <1>b DEF BatchEnds, Places
<1>8. ASSUME NEW m \in Msgs, UploadStep(m) PROVE Places'
  BY <1>8, UploadStepOnly, UploadKeepsPlaces
<1>9. CASE UNCHANGED vars
  BY <1>9, <1>b DEF vars, Places
<1> QED BY <1>1, <1>2, <1>3, <1>4, <1>5, <1>6, <1>7, <1>8, <1>9 DEF Next, WorkerStep
-----------------------------------------------------------------------------
(* The stages of the copies and the bucket.                                *)

(* Nothing leaves the bucket: what is prepared or served stays so. *)
LEMMA BucketGrows ==
    ASSUME bucket \subseteq bucket', interrupted \subseteq interrupted'
    PROVE  \A p : /\ Prepared(p) => Prepared(p)'
                  /\ has_narinfo(p) => has_narinfo(p)'
BY DEF Prepared, has_narinfo, ListingOf, Nar, Listing, NarInfo

(* An upload that does not change, or has nothing to copy, stays true. *)
LEMMA UploadStaysTrue ==
    ASSUME NEW m \in Msgs, UploadTrue(m),
           bucket \subseteq bucket', interrupted \subseteq interrupted',
           \/ upl'[m] = upl[m]
           \/ DOMAIN upl'[m].copy = {} /\ upl'[m].pc \notin {"copy", "copied"}
    PROVE  UploadTrue(m)'
<1>1. query_requisites(OutsOf[m])' = query_requisites(OutsOf[m])
  BY DEF query_requisites
<1> QED BY <1>1, BucketGrows DEF UploadTrue

LEMMA IdleNothing ==
    /\ DOMAIN Idle.copy = {} /\ Idle.pc = "idle"
    /\ \A pc : /\ DOMAIN [Idle EXCEPT !.pc = pc].copy = {}
               /\ [Idle EXCEPT !.pc = pc].pc = pc
BY DEF Idle

(* A stage of one path. *)
LEMMA StageStaysTrue ==
    ASSUME IInv, NEW m \in Msgs, NEW p \in Paths, NEW stage \in Stages,
           upl[m].pc = "copy", p \in DOMAIN upl[m].copy, Copied(m, p, stage),
           bucket \subseteq bucket', interrupted \subseteq interrupted',
           stage = "nar" => Prepared(p)', stage = "done" => has_narinfo(p)'
    PROVE  UploadTrue(m)'
<1>1. upl[m] \in UploadType /\ UploadTrue(m)
  BY DEF IInv, StagesTrue
<1>2. PICK T \in SUBSET Paths : upl[m].copy \in [T -> Stages]
  BY <1>1 DEF UploadType, PartialCopies
<1>3. upl'[m] = [upl[m] EXCEPT !.copy[p] = stage]
  BY SetUplOnly DEF Copied
<1>4. /\ upl'[m].pc = "copy" /\ upl'[m].left = upl[m].left
      /\ upl'[m].copy = [upl[m].copy EXCEPT ![p] = stage]
  BY <1>1, <1>3 DEF UploadType
<1>5. /\ DOMAIN upl'[m].copy = DOMAIN upl[m].copy
      /\ upl'[m].copy[p] = stage
      /\ \A q \in DOMAIN upl[m].copy \ {p} : upl'[m].copy[q] = upl[m].copy[q]
  BY <1>2, <1>4
<1>6. query_requisites(OutsOf[m])' = query_requisites(OutsOf[m])
  BY DEF query_requisites
<1>7. ASSUME NEW q \in DOMAIN upl'[m].copy
      PROVE  /\ upl'[m].copy[q] = "nar" => Prepared(q)'
             /\ upl'[m].copy[q] = "done" => has_narinfo(q)'
  BY <1>1, <1>5, <1>7, BucketGrows DEF UploadTrue
<1>8. /\ upl'[m].left > 0
      /\ \A q \in query_requisites(OutsOf[m]) : q \in DOMAIN upl'[m].copy \/ has_narinfo(q)'
  BY <1>1, <1>4, <1>5, BucketGrows DEF UploadTrue
<1> QED BY <1>4, <1>6, <1>7, <1>8 DEF UploadTrue

(* A narinfo of one path. *)
LEMMA NarInfoDiffers ==
    ASSUME NEW p, NEW q
    PROVE  /\ NarInfo(p) # Nar(q)
           /\ NarInfo(p) \notin ListingOf(q)
           /\ \A id : NarInfo(p) # Debug(id)
           /\ NarInfo(p) = NarInfo(q) => p = q
BY DEF NarInfo, Nar, ListingOf, Listing, Debug

LEMMA ObjectsNoNarInfo ==
    ASSUME NEW p, NEW q, NEW links
    PROVE  /\ NarInfo(p) \notin Complete(q, links)
           /\ \A B \in Interrupted(q, links) : NarInfo(p) \notin B
BY NarInfoDiffers DEF Complete, Interrupted, SomeLinks

(* A step of an upload keeps what it says of the bucket, and writes a      *)
(* narinfo only after what it names.                                       *)
LEMMA UploadStepStages ==
    ASSUME IInv, NEW m \in Msgs, UploadStep(m)
    PROVE  /\ bucket \subseteq bucket' /\ interrupted \subseteq interrupted'
           /\ \A p \in Paths : has_narinfo(p)' => has_narinfo(p) \/ Prepared(p)'
           /\ UploadTrue(m)'
<1> DEFINE Goal == /\ bucket \subseteq bucket' /\ interrupted \subseteq interrupted'
                   /\ \A p \in Paths : has_narinfo(p)' => has_narinfo(p) \/ Prepared(p)'
                   /\ UploadTrue(m)'
<1>a. UploadTrue(m) /\ upl[m] \in UploadType
  BY DEF IInv, StagesTrue
<1>b. query_requisites(OutsOf[m])' = query_requisites(OutsOf[m])
  BY DEF query_requisites
<1>1. CASE QueryPaths(m)
  <2>1. UNCHANGED <<bucket, interrupted>>
    BY <1>1 DEF QueryPaths
  <2>2. CASE SetUpl(m, [Idle EXCEPT !.pc = "unknown"])
    <3>1. upl'[m] = [Idle EXCEPT !.pc = "unknown"]
      BY <2>2, SetUplOnly
    <3> QED BY <3>1, <2>1, <1>a, IdleNothing, UploadStaysTrue DEF has_narinfo
  <2>3. ASSUME NEW T \in MissingAnswers(query_requisites(OutsOf[m])),
               SetUpl(m, [pc |-> "copy", copy |-> [p \in T |-> "todo"], left |-> Attempts])
        PROVE  Goal
    <3>1. upl'[m] = [pc |-> "copy", copy |-> [p \in T |-> "todo"], left |-> Attempts]
      BY <2>3, SetUplOnly
    <3>2. upl'[m].pc = "copy" /\ upl'[m].copy = [p \in T |-> "todo"] /\ upl'[m].left > 0
      BY <3>1, UploaderAssumption
    <3>3. \A p \in query_requisites(OutsOf[m]) : p \in T \/ has_narinfo(p)
      BY DEF MissingAnswers
    <3>4. UploadTrue(m)'
      BY <1>b, <2>1, <3>2, <3>3 DEF UploadTrue, has_narinfo
    <3> QED BY <3>4, <2>1 DEF has_narinfo
  <2> QED BY <1>1, <2>2, <2>3 DEF QueryPaths
<1>2. ASSUME NEW p \in Paths, LookForNarInfo(m, p) PROVE Goal
  <2>1. UNCHANGED <<bucket, interrupted>>
    BY <1>2 DEF LookForNarInfo
  <2>2. (IF has_narinfo(p) THEN "done" ELSE "objects") \in Stages
    BY DEF Stages
  <2>3. UploadTrue(m)'
    BY <1>2, <2>1, <2>2, StageStaysTrue DEF LookForNarInfo, Copying, Working, has_narinfo
  <2> QED BY <2>1, <2>3 DEF has_narinfo
<1>3. ASSUME NEW p \in Paths, CopyObjects(m, p) PROVE Goal
  <2>1. UNCHANGED <<upl, interrupted>>
    BY <1>3 DEF CopyObjects
  <2>2. PICK B \in Interrupted(p, UnlinkedDebug(p, {})) : bucket' = bucket \cup B
    BY <1>3 DEF CopyObjects
  <2>3. \A q \in Paths : has_narinfo(q)' => has_narinfo(q)
    BY <2>2, ObjectsNoNarInfo DEF has_narinfo, NarInfo
  <2> QED BY <1>a, <2>1, <2>2, <2>3, UploadStaysTrue
<1>4. ASSUME NEW p \in Paths, CopyNar(m, p) PROVE Goal
  <2>1. PICK nar \in upload_file(p) :
          /\ bucket' = bucket \cup (Complete(p, UnlinkedDebug(p, {})) \ {Nar(p)}) \cup nar
          /\ interrupted' = interrupted \cup {q \in {p} : nar = {}}
    BY <1>4 DEF CopyNar
  <2>2. nar = {Nar(p)} \/ nar = {}
    BY NarOrNothing
  <2>3. Nar(p)' = Nar(p) /\ ListingOf(p)' = ListingOf(p) /\ Nar(p) \notin ListingOf(p)
    BY DEF Nar, ListingOf, Listing
  <2>4. Prepared(p)'
    BY <2>1, <2>2, <2>3 DEF Prepared, Complete
  <2>5. \A q \in Paths : has_narinfo(q)' => has_narinfo(q)
    BY <2>1, <2>2, ObjectsNoNarInfo, NarInfoDiffers DEF has_narinfo, NarInfo
  <2>6. UploadTrue(m)'
    BY <1>4, <2>1, <2>4, StageStaysTrue DEF CopyNar, Copying, Working, Stages
  <2> QED BY <2>1, <2>5, <2>6
<1>5. ASSUME NEW p \in Paths, CopyNarInfo(m, p) PROVE Goal
  <2>1. bucket' = bucket \cup {NarInfo(p)} /\ UNCHANGED interrupted
    BY <1>5 DEF CopyNarInfo
  <2>2. Prepared(p)'
    BY <1>5, <1>a, <2>1, BucketGrows DEF CopyNarInfo, Copying, UploadTrue
  <2>3. \A q \in Paths : has_narinfo(q)' => has_narinfo(q) \/ q = p
    BY <2>1, NarInfoDiffers DEF has_narinfo, NarInfo
  <2>4. has_narinfo(p)'
    BY <2>1 DEF has_narinfo, NarInfo
  <2>5. UploadTrue(m)'
    BY <1>5, <2>1, <2>4, StageStaysTrue DEF CopyNarInfo, Copying, Working, Stages
  <2> QED BY <2>1, <2>2, <2>3, <2>5
<1>6. CASE CopyFails(m)
  <2>1. UNCHANGED <<bucket, interrupted>> /\ upl[m].pc = "copy"
    BY <1>6 DEF CopyFails, Working
  <2>2. CASE upl[m].left = 1
    <3>1. upl'[m] = [Idle EXCEPT !.pc = "failed"]
      BY <1>6, <2>2, SetUplOnly DEF CopyFails
    <3> QED BY <3>1, <2>1, <1>a, IdleNothing, UploadStaysTrue DEF has_narinfo
  <2>3. CASE upl[m].left # 1
    <3>1. upl'[m] = [upl[m] EXCEPT !.copy = [p \in DOMAIN upl[m].copy |-> "todo"], !.left = @ - 1]
      BY <1>6, <2>3, SetUplOnly DEF CopyFails
    <3>2. /\ upl'[m].pc = "copy" /\ upl'[m].left = upl[m].left - 1
          /\ upl'[m].copy = [p \in DOMAIN upl[m].copy |-> "todo"]
      BY <3>1, <1>a, <2>1 DEF UploadType
    <3>3. upl[m].left > 0 /\ upl[m].left \in Nat
      BY <1>a, <2>1 DEF UploadTrue, UploadType
    <3>4. upl'[m].left > 0
      BY <3>2, <3>3, <2>3
    <3>5. /\ DOMAIN upl'[m].copy = DOMAIN upl[m].copy
          /\ \A p \in DOMAIN upl'[m].copy : upl'[m].copy[p] = "todo"
      BY <3>2
    <3>6. \A p \in query_requisites(OutsOf[m]) : p \in DOMAIN upl'[m].copy \/ has_narinfo(p)'
      BY <3>5, <1>a, <2>1 DEF UploadTrue, has_narinfo, NarInfo
    <3>7. UploadTrue(m)'
      BY <1>b, <3>2, <3>4, <3>5, <3>6 DEF UploadTrue
    <3> QED BY <3>7, <2>1 DEF has_narinfo
  <2> QED BY <2>2, <2>3
<1>7. CASE CopyEnds(m)
  <2>1. UNCHANGED <<bucket, interrupted>>
    BY <1>7 DEF CopyEnds
  <2>2. upl'[m] = [Idle EXCEPT !.pc = "copied"]
    BY <1>7, SetUplOnly DEF CopyEnds
  <2>3. \A p \in query_requisites(OutsOf[m]) : has_narinfo(p)
    BY <1>7, <1>a DEF CopyEnds, Working, UploadTrue
  <2>4. UploadTrue(m)'
    BY <1>b, <2>1, <2>2, <2>3, IdleNothing DEF UploadTrue, has_narinfo
  <2> QED BY <2>1, <2>4 DEF has_narinfo
<1> QED BY <1>1, <1>2, <1>3, <1>4, <1>5, <1>6, <1>7 DEF UploadStep, CopyStep

LEMMA NextStages ==
    ASSUME IInv, [Next]_vars
    PROVE  StagesTrue'
<1>a. StagesTrue
  BY DEF IInv
<1>1. ASSUME NEW m \in Msgs, UploadStep(m) PROVE StagesTrue'
  <2>1. \A k \in Msgs \ {m} : upl'[k] = upl[k]
    BY <1>1, UploadStepOnly
  <2>2. \A p \in Paths : has_narinfo(p)' => Prepared(p)'
    BY <1>1, <1>a, UploadStepStages, BucketGrows DEF StagesTrue
  <2>3. \A k \in Msgs : UploadTrue(k)'
    BY <1>1, <1>a, <2>1, UploadStepStages, UploadStaysTrue DEF StagesTrue
  <2> QED BY <2>2, <2>3 DEF StagesTrue
<1>2. CASE /\ UNCHANGED <<bucket, interrupted>>
           /\ \A m \in Msgs : \/ upl'[m] = upl[m]
                              \/ DOMAIN upl'[m].copy = {} /\ upl'[m].pc \notin {"copy", "copied"}
  <2>1. \A p \in Paths : has_narinfo(p)' => Prepared(p)'
    BY <1>2, <1>a DEF StagesTrue, has_narinfo, Prepared, NarInfo, Nar, ListingOf, Listing
  <2>2. \A k \in Msgs : UploadTrue(k)'
    BY <1>2, <1>a, UploadStaysTrue DEF StagesTrue
  <2> QED BY <2>1, <2>2 DEF StagesTrue
<1>3. CASE Stop
  BY <1>2, <1>3, IdleNothing DEF Stop
<1>4. CASE BatchStarts
  BY <1>2, <1>4, IdleNothing DEF BatchStarts
<1>5. CASE Start \/ Notified \/ BatchEnds \/ UNCHANGED vars
  BY <1>2, <1>5 DEF Start, Notified, BatchEnds, vars
<1>6. ASSUME NEW limit \in Limits, Recv(limit) PROVE StagesTrue'
  BY <1>2, <1>6 DEF Recv
<1>7. ASSUME NEW m \in Msgs, ScheduleUpload(m) PROVE StagesTrue'
  BY <1>2, <1>7 DEF ScheduleUpload
<1> QED BY <1>1, <1>3, <1>4, <1>5, <1>6, <1>7 DEF Next, WorkerStep

-----------------------------------------------------------------------------
(* The theorems.                                                           *)

(* Every step of the uploader keeps the inductive invariant. *)
THEOREM Inductive == Spec => []IInv
<1>1. Init => IInv
  BY InitIInv
<1>2. IInv /\ [Next]_vars => IInv'
  BY NextTypes, NextPlaces, NextStages DEF IInv
<1> QED BY <1>1, <1>2, PTL DEF Spec

(* The variables have their types. *)
THEOREM TypeCorrect == Spec => []TypeOK
<1>1. IInv => TypeOK
  BY DEF IInv
<1> QED BY <1>1, Inductive, PTL

(* A message is at one place of the queue at most. *)
LEMMA PlacesCounted ==
    ASSUME IInv
    PROVE  NothingDropped
<1> SUFFICES ASSUME NEW m \in scheduled
             PROVE  Cardinality({i \in 1..Len(queue) : queue[i] = m})
                    + (IF m \in batch THEN 1 ELSE 0)
                    + (IF m \notin batch /\ upl[m].pc \in EndPcs THEN 1 ELSE 0) = 1
  BY DEF NothingDropped
<1> DEFINE At == {i \in 1..Len(queue) : queue[i] = m}
<1>1. CASE \E i \in 1..Len(queue) : queue[i] = m
  <2>1. PICK i \in 1..Len(queue) : queue[i] = m
    BY <1>1
  <2>2. At = {i}
    BY <2>1 DEF IInv, Places
  <2>3. Cardinality(At) = 1
    BY <2>2, FS_Singleton
  <2>4. m \notin batch /\ upl[m].pc \notin EndPcs
    BY <2>1 DEF IInv, Places, EndPcs
  <2> QED BY <2>3, <2>4
<1>2. CASE ~\E i \in 1..Len(queue) : queue[i] = m
  <2>1. At = {}
    BY <1>2
  <2>2. Cardinality(At) = 0
    BY <2>1, FS_EmptySet
  <2>3. m \in batch \/ upl[m].pc \in EndPcs
    BY <1>2 DEF IInv, Places
  <2> HIDE DEF At
  <2>4. CASE m \in batch
    BY <2>2, <2>4 DEF At
  <2>5. CASE m \notin batch
    BY <2>2, <2>3, <2>5 DEF At
  <2> QED BY <2>4, <2>5
<1> QED BY <1>1, <1>2

(* recv, recv_many and the batches lose and repeat no message, whatever    *)
(* the limit of each round is.                                             *)
THEOREM NothingDroppedAlways == Spec => []NothingDropped
BY PlacesCounted, Inductive, PTL

(* A narinfo in the bucket has its NAR and its listing there, unless the   *)
(* multipart upload of that NAR was interrupted.                           *)
THEOREM ServedWithNarAlways == Spec => []ServedWithNar
<1>1. IInv => ServedWithNar
  BY DEF IInv, StagesTrue, ServedWithNar, Prepared
<1> QED BY <1>1, Inductive, PTL

(* A message that counts as uploaded has its whole closure in the bucket,  *)
(* also the paths that other messages copied.                              *)
THEOREM CopiedMeansServedAlways == Spec => []CopiedMeansServed
<1>1. IInv => CopiedMeansServed
  BY DEF IInv, StagesTrue, UploadTrue, CopiedMeansServed
<1> QED BY <1>1, Inductive, PTL
=============================================================================
