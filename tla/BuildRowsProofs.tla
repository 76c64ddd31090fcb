--------------------------- MODULE BuildRowsProofs ---------------------------
(***************************************************************************)
(* The rows of builds and build steps keep what they say, for every set of *)
(* builds and steps, and any number of processes, cancellations, errors of *)
(* the database, retries and crashes.                                      *)
(***************************************************************************)
EXTENDS BuildRows, WellFoundedInduction, TLAPS

Keys == Builds \X Nat
Pcs  == {"idle", "tx", "running", "finish", "over", "dead"}

WorkType ==
    [pc : Pcs, nr : Nat, status : Statuses \cup {"Busy"}, tries : Nat, can_retry : BOOLEAN,
     want : SUBSET Builds, at : Keys \cup {NoKey}, mark : SUBSET Builds, checked : SUBSET Builds,
     ins : SUBSET Keys, upd : SUBSET Builds, done : SUBSET Builds, left : SUBSET Keys]

InstType == {"off", "opened", "running", "stopping", "unlocked"}

(* Types that TypeOK follows from. *)
Typed ==
    /\ inst \in [Procs -> InstType]
    /\ handle \in [Procs -> 0..MaxStarts] /\ path \in 0..MaxStarts
    /\ DOMAIN row \in SUBSET Keys /\ row \in [DOMAIN row -> RowType]
    /\ build \in [Builds -> Statuses \cup {"open"}] /\ cached \in SUBSET Builds
    /\ work \in [Workers -> WorkType]
    /\ finished \in [Procs -> SUBSET Builds] /\ built \in SUBSET Steps
    /\ starts \in 0..MaxStarts /\ events \in 0..MaxEvents

(* Step numbers are bounded, so that there is a largest one. *)
Bounded(K) == \E n \in Nat : \A k \in K : k[2] <= n
NrsBounded == Bounded(DOMAIN row) /\ \A x \in Workers : Bounded(work[x].ins)

(* A job's transaction makes the one row of the job. *)
JobTx(x) ==
    /\ x[2] \in Steps /\ inst[x[1]] = "running"
    /\ work[x].mark = {} /\ work[x].upd = {}
    /\ \/ work[x].want = {BuildOf[x[2]]} /\ work[x].ins = {}
       \/ work[x].want = {} /\ \E n \in Nat \ {0} : work[x].ins = {<<BuildOf[x[2]], n>>}

(* A transaction that finishes builds after a failure has, for each, the   *)
(* row that says so, or makes it.                                          *)
Explained(x, b) ==
    \/ Outcome(b, work[x].status)
    \/ b \in work[x].want
    \/ \E k \in work[x].ins : k[1] = b

TxTrue(x) ==
    /\ work[x].at # NoKey => work[x].at[1] \in work[x].want /\ work[x].at[2] # 0
    /\ work[x].checked \subseteq work[x].mark
    /\ work[x].checked # {} => work[x].want = {} /\ work[x].status = "Success"
    /\ work[x].status \in {"Busy", "Success"} \cup Failures
    /\ work[x].status = "Busy" => JobTx(x)
    /\ work[x].status \in Failures => \A b \in work[x].upd : build[b] = "open"
    /\ x[2] \in Steps /\ work[x].status = "Success" => Outcome(BuildOf[x[2]], "Success")
    /\ x[2] \in Steps /\ work[x].status \in {"Failed", "Unsupported"} =>
          \A b \in work[x].mark \cup work[x].upd : Explained(x, b)
    /\ x[2] \in Monitored => work[x].status \in {"Success", "CachedFailure"}

(* What the place of a worker says of its row. *)
WorkTrue(x) ==
    /\ work[x].tries > 0 => work[x].tries < MaxRetries
    /\ work[x].pc # "tx" => work[x].ins = {} /\ work[x].upd = {}
    /\ work[x].pc = "idle" => work[x].nr = 0
    /\ work[x].pc = "running" => x[2] \in Steps /\ work[x].nr # 0
    /\ work[x].pc = "finish" =>
          /\ x[2] \in Steps
          /\ \/ work[x].status \in {"Success", "Failed"} /\ work[x].nr # 0
             \/ work[x].status \in AtOnce /\ work[x].nr = 0
    /\ work[x].pc = "tx" => TxTrue(x)

(* The row of a job that is alive is there, and nobody has ended it but    *)
(* clear_busy.                                                             *)
KeyOf(x) == <<BuildOf[x[2]], work[x].nr>>
RowsOwned ==
    \A x \in Workers : HasRow(x) =>
        KeyOf(x) \in DOMAIN row /\ row[KeyOf(x)].status \in {"NULL", "Aborted"}

(* A build is written by one transaction at a time. *)
UpdatesApart == \A x, y \in Workers : x # y => work[x].upd \cap work[y].upd = {}

(* Processes are numbered as they start. *)
NotYet == \A p \in Procs : p > starts => inst[p] = "off"

(* The inductive invariant. *)
IInv ==
    /\ Typed
    /\ NrsBounded
    /\ \A x \in Workers : WorkTrue(x)
    /\ RowsOwned
    /\ UpdatesApart
    /\ NotYet
    /\ RowsUnique
    /\ FinishedHasRow

(* The rows that are busy are those of the process that runs its loops. *)
BusyOwned ==
    \A q \in Procs : inst[q] = "running" =>
        \A k \in DOMAIN row : row[k].busy # 0 =>
            \E x \in Workers :
                /\ x[1] = q
                /\ \/ HasRow(x) /\ k = KeyOf(x)
                   \/ k \in work[x].left
-----------------------------------------------------------------------------
(* The next number.                                                        *)

Smaller == {p \in Nat \X Nat : p[1] < p[2]}

(* A set of numbers that is not empty has a least one. *)
LEMMA LeastOf ==
    ASSUME NEW S \in SUBSET Nat, S # {}
    PROVE  \E x \in S : \A y \in S : x <= y
<1>1. IsWellFoundedOn(OpToRel(<, Nat), Nat)
  BY NatLessThanWellFounded
<1>2. OpToRel(<, Nat) = Smaller
  BY DEF OpToRel, Smaller
<1>3. IsWellFoundedOn(Smaller, Nat)
  BY <1>1, <1>2
<1>4. PICK x \in S : \A y \in S : ~(<<y, x>> \in Smaller)
  BY <1>3, WFMin
<1>5. \A y \in S : x <= y
  <2> TAKE y \in S
  <2>1. x \in Nat /\ y \in Nat
    OBVIOUS
  <2>2. <<y, x>> \notin Smaller
    BY <1>4
  <2>3. <<y, x>> \in Nat \X Nat
    BY <2>1
  <2>4. ~(<<y, x>>[1] < <<y, x>>[2])
    BY <2>2, <2>3 DEF Smaller
  <2> QED BY <2>1, <2>4
<1> QED BY <1>5

(* One that is bounded has a largest. *)
LEMMA LargestOf ==
    ASSUME NEW S \in SUBSET Nat, S # {}, NEW n \in Nat, \A y \in S : y <= n
    PROVE  Max(S) \in S /\ \A y \in S : Max(S) >= y
<1> DEFINE U == {m \in Nat : \A y \in S : y <= m}
<1>1. U \in SUBSET Nat /\ U # {}
  OBVIOUS
<1>2. PICK m \in U : \A u \in U : m <= u
  BY <1>1, LeastOf
<1>3. m \in Nat /\ \A y \in S : y <= m
  OBVIOUS
<1>4. m \in S
  <2> SUFFICES ASSUME m \notin S
               PROVE  FALSE
    OBVIOUS
  <2>1. \A y \in S : y < m
    BY <1>3
  <2>2. PICK z \in S : TRUE
    OBVIOUS
  <2>3. m > 0
    BY <1>3, <2>1, <2>2
  <2>4. m - 1 \in Nat /\ \A y \in S : y <= m - 1
    BY <1>3, <2>1, <2>3
  <2>5. m - 1 \in U
    BY <2>4
  <2> QED BY <1>2, <1>3, <2>5
<1>5. \E x \in S : \A y \in S : x >= y
  BY <1>3, <1>4
<1> HIDE DEF U
<1> QED BY <1>5 DEF Max

LEMMA BoundedUnion ==
    ASSUME NEW K \in SUBSET Keys, NEW L \in SUBSET Keys, Bounded(K), Bounded(L)
    PROVE  Bounded(K \cup L)
<1>1. PICK m \in Nat : \A k \in K : k[2] <= m
  BY DEF Bounded
<1>2. PICK n \in Nat : \A k \in L : k[2] <= n
  BY DEF Bounded
<1>3. \A k \in K \cup L : k[2] \in Nat
  BY DEF Keys
<1>4. m + n \in Nat /\ \A k \in K \cup L : k[2] <= m + n
  BY <1>1, <1>2, <1>3
<1> QED BY <1>4 DEF Bounded

LEMMA BoundedOne ==
    ASSUME NEW k \in Keys
    PROVE  Bounded({k}) /\ Bounded({})
<1>1. k[2] \in Nat
  BY DEF Keys
<1> QED BY <1>1 DEF Bounded

(* alloc_build_step finds a number, and not 0. *)
LEMMA NextNrTyped ==
    ASSUME Typed, NrsBounded, NEW x \in Workers, NEW b \in Builds
    PROVE  NextNr(x, b) \in Nat \ {0}
<1>1. DOMAIN row \in SUBSET Keys /\ work[x].ins \in SUBSET Keys
  BY DEF Typed, WorkType
<1>2. Bounded(DOMAIN row \cup work[x].ins)
  BY <1>1, BoundedUnion DEF NrsBounded
<1>3. PICK n \in Nat : \A k \in DOMAIN row \cup work[x].ins : k[2] <= n
  BY <1>2 DEF Bounded
<1>4. StepNrs(x, b) \in SUBSET Nat /\ \A y \in StepNrs(x, b) : y <= n
  BY <1>1, <1>3 DEF StepNrs, Keys
<1>5. StepNrs(x, b) # {} => Max(StepNrs(x, b)) \in Nat
  BY <1>4, LargestOf
<1> QED BY <1>5 DEF NextNr
-----------------------------------------------------------------------------
(* Workers.                                                                *)

LEMMA IdleTyped ==
    /\ Idle \in WorkType
    /\ Idle.pc = "idle" /\ Idle.nr = 0 /\ Idle.tries = 0 /\ Idle.ins = {} /\ Idle.upd = {}
    /\ Idle.left = {}
BY DEF Idle, WorkType, Pcs, Statuses, NoKey

LEMMA AgainTyped ==
    ASSUME Typed, NEW x \in Workers
    PROVE  /\ Again(x) \in WorkType
           /\ Again(x).pc = "idle" /\ Again(x).nr = 0 /\ Again(x).tries = work[x].tries
           /\ Again(x).ins = {} /\ Again(x).upd = {} /\ Again(x).left = work[x].left
<1>1. work[x].tries \in Nat /\ work[x].left \in SUBSET Keys
  BY DEF Typed, WorkType
<1> QED BY <1>1, IdleTyped DEF Again, WorkType

LEMMA AgainWith ==
    ASSUME Typed, NEW x \in Workers, NEW pc \in Pcs, NEW n \in Nat, NEW left \in SUBSET Keys
    PROVE  LET w == [Again(x) EXCEPT !.pc = pc, !.nr = n]
               v == [Again(x) EXCEPT !.pc = pc, !.left = left]
               u == [Again(x) EXCEPT !.tries = n]
               t == [Again(x) EXCEPT !.pc = pc]
               s == [Again(x) EXCEPT !.left = left]
           IN  /\ w \in WorkType /\ w.pc = pc /\ w.nr = n /\ w.tries = work[x].tries
               /\ w.ins = {} /\ w.upd = {} /\ w.left = work[x].left
               /\ v \in WorkType /\ v.pc = pc /\ v.nr = 0 /\ v.tries = work[x].tries
               /\ v.ins = {} /\ v.upd = {} /\ v.left = left
               /\ u \in WorkType /\ u.pc = "idle" /\ u.nr = 0 /\ u.tries = n
               /\ u.ins = {} /\ u.upd = {} /\ u.left = work[x].left
               /\ t \in WorkType /\ t.pc = pc /\ t.nr = 0 /\ t.tries = work[x].tries
               /\ t.ins = {} /\ t.upd = {} /\ t.left = work[x].left
               /\ s \in WorkType /\ s.pc = "idle" /\ s.nr = 0 /\ s.tries = work[x].tries
               /\ s.ins = {} /\ s.upd = {} /\ s.left = left
BY AgainTyped DEF WorkType, Pcs

LEMMA BeginTyped ==
    ASSUME NEW w \in WorkType, NEW status \in Statuses \cup {"Busy"}, NEW want \in SUBSET Builds,
           NEW mark \in SUBSET Builds
    PROVE  LET v == Begin(w, status, want, mark) IN
           /\ v \in WorkType
           /\ v.pc = "tx" /\ v.status = status /\ v.want = want /\ v.at = NoKey /\ v.mark = mark
           /\ v.checked = {} /\ v.ins = {} /\ v.upd = {} /\ v.nr = w.nr /\ v.tries = w.tries
           /\ v.left = w.left /\ v.done = {}
BY DEF Begin, WorkType, Pcs, NoKey

LEMMA SetOnly ==
    ASSUME Typed, NEW x \in Workers, NEW w \in WorkType, Set(x, w)
    PROVE  /\ work' \in [Workers -> WorkType]
           /\ work'[x] = w
           /\ \A y \in Workers : y # x => work'[y] = work[y]
BY DEF Typed, Set

(* A step of one worker that changes no row and no build. *)
LEMMA OneWorker ==
    ASSUME IInv, NEW x \in Workers, NEW w \in WorkType, Set(x, w),
           UNCHANGED <<procVars, row, build, cached, finished>>,
           built' \in SUBSET Steps, events' \in 0..MaxEvents,
           WorkTrue(x)', Bounded(w.ins),
           \A k \in w.ins : k \notin DOMAIN row /\ \A y \in Workers : y # x => k \notin work[y].ins,
           \A b \in w.upd : \A y \in Workers : y # x => b \notin work[y].upd,
           HasRow(x)' => HasRow(x) /\ w.nr = work[x].nr
    PROVE  IInv'
<1>1. /\ work' \in [Workers -> WorkType]
      /\ work'[x] = w
      /\ \A y \in Workers : y # x => work'[y] = work[y]
  BY SetOnly DEF IInv
<1>2. Typed'
  BY <1>1 DEF IInv, Typed, procVars
<1>3. NrsBounded'
  BY <1>1 DEF IInv, NrsBounded
<1>4. \A y \in Workers : WorkTrue(y)'
  <2> SUFFICES ASSUME NEW y \in Workers, y # x
               PROVE  WorkTrue(y)'
    OBVIOUS
  <2>1. WorkTrue(y) /\ work'[y] = work[y]
    BY <1>1 DEF IInv
  <2>2. TxTrue(y) => TxTrue(y)'
    BY <2>1 DEF TxTrue, JobTx, Explained, Outcome, procVars
  <2> QED BY <2>1, <2>2 DEF WorkTrue
<1>5. \A y \in Workers : HasRow(y)' => HasRow(y) /\ work'[y].nr = work[y].nr
  <2> SUFFICES ASSUME NEW y \in Workers, y # x
               PROVE  HasRow(y)' => HasRow(y) /\ work'[y].nr = work[y].nr
    BY <1>1
  <2>1. work'[y] = work[y]
    BY <1>1
  <2> QED BY <2>1 DEF HasRow
<1>6. RowsOwned'
  BY <1>5 DEF IInv, RowsOwned, KeyOf
<1>7. UpdatesApart'
  BY <1>1 DEF IInv, UpdatesApart
<1>8. NotYet'
  BY DEF IInv, NotYet, procVars
<1>9. RowsUnique'
  <2>1. \A y, z \in Workers : HasRow(y)' /\ HasRow(z)' /\ y # z =>
            <<BuildOf[y[2]], work'[y].nr>> # <<BuildOf[z[2]], work'[z].nr>>
    BY <1>5 DEF IInv, RowsUnique
  <2>2. \A y, z \in Workers : y # z => work'[y].ins \cap work'[z].ins = {}
    BY <1>1 DEF IInv, RowsUnique
  <2>3. \A y \in Workers : work'[y].ins \cap DOMAIN row' = {}
    BY <1>1 DEF IInv, RowsUnique
  <2> QED BY <2>1, <2>2, <2>3 DEF RowsUnique
<1>10. FinishedHasRow'
  BY DEF IInv, FinishedHasRow, Outcome
<1> QED BY <1>2, <1>3, <1>4, <1>6, <1>7, <1>8, <1>9, <1>10 DEF IInv
-----------------------------------------------------------------------------
(* Transactions.                                                           *)

LEMMA WorkerFacts ==
    ASSUME IInv, NEW x \in Workers
    PROVE  /\ Typed /\ work[x] \in WorkType /\ WorkTrue(x) /\ Bounded(work[x].ins)
           /\ x[1] \in Procs /\ x[2] \in Tasks
           /\ \A k \in work[x].ins :
                k \notin DOMAIN row /\ \A y \in Workers : y # x => k \notin work[y].ins
           /\ \A b \in work[x].upd : \A y \in Workers : y # x => b \notin work[y].upd
<1>1. Typed /\ work[x] \in WorkType /\ WorkTrue(x) /\ Bounded(work[x].ins)
  BY DEF IInv, Typed, NrsBounded
<1>2. x[1] \in Procs /\ x[2] \in Tasks
  BY DEF Workers
<1>3. \A k \in work[x].ins :
          k \notin DOMAIN row /\ \A y \in Workers : y # x => k \notin work[y].ins
  BY DEF IInv, RowsUnique
<1>4. \A b \in work[x].upd : \A y \in Workers : y # x => b \notin work[y].upd
  BY DEF IInv, UpdatesApart
<1> QED BY <1>1, <1>2, <1>3, <1>4

LEMMA AllocBuildStepInv ==
    ASSUME IInv, NEW x \in Workers, AllocBuildStep(x)
    PROVE  IInv'
<1>1. work[x] \in WorkType /\ WorkTrue(x) /\ work[x].pc = "tx" /\ TxTrue(x)
  BY WorkerFacts DEF AllocBuildStep, InTx, WorkTrue
<1>2. PICK b \in work[x].want : Set(x, [work[x] EXCEPT !.at = <<b, NextNr(x, b)>>])
  BY <1>1 DEF AllocBuildStep, TxTrue
<1> DEFINE w == [work[x] EXCEPT !.at = <<b, NextNr(x, b)>>]
<1>3. b \in Builds /\ NextNr(x, b) \in Nat \ {0}
  BY <1>1, NextNrTyped DEF WorkType, IInv
<1>4. <<b, NextNr(x, b)>> \in Keys /\ <<b, NextNr(x, b)>>[1] = b /\ <<b, NextNr(x, b)>>[2] # 0
  BY <1>3 DEF Keys
<1>5. /\ w \in WorkType
      /\ w.pc = work[x].pc /\ w.nr = work[x].nr /\ w.status = work[x].status
      /\ w.tries = work[x].tries /\ w.want = work[x].want /\ w.mark = work[x].mark
      /\ w.checked = work[x].checked /\ w.ins = work[x].ins /\ w.upd = work[x].upd
      /\ w.at = <<b, NextNr(x, b)>>
  BY <1>1, <1>4 DEF WorkType
<1> HIDE DEF w
<1>6. Set(x, w)
  BY <1>2 DEF w
<1>7. UNCHANGED <<procVars, row, build, cached, finished, built, events>>
  BY DEF AllocBuildStep, OnlyWork
<1>8. work'[x] = w
  BY <1>5, <1>6, SetOnly DEF IInv
<1>9. TxTrue(x)'
  <2>1. JobTx(x) => JobTx(x)'
    BY <1>5, <1>7, <1>8 DEF JobTx, procVars
  <2>2. \A c \in Builds : Explained(x, c) => Explained(x, c)'
    BY <1>5, <1>7, <1>8 DEF Explained, Outcome
  <2>3. w.mark \in SUBSET Builds /\ w.upd \in SUBSET Builds
    BY <1>5 DEF WorkType
  <2> QED BY <1>1, <1>4, <1>5, <1>7, <1>8, <2>1, <2>2, <2>3 DEF TxTrue, Outcome
<1>10. WorkTrue(x)' /\ ~HasRow(x)'
  BY <1>1, <1>5, <1>8, <1>9 DEF WorkTrue, HasRow
<1>11. built' \in SUBSET Steps /\ events' \in 0..MaxEvents
  BY <1>7 DEF IInv, Typed
<1> QED BY <1>5, <1>6, <1>7, <1>10, <1>11, WorkerFacts, OneWorker

LEMMA InsertBuildStepInv ==
    ASSUME IInv, NEW x \in Workers, InsertBuildStep(x)
    PROVE  IInv'
<1> DEFINE k == work[x].at
           w == [work[x] EXCEPT !.at = NoKey, !.want = @ \ {k[1]}, !.ins = @ \cup {k}]
<1>1. work[x] \in WorkType /\ WorkTrue(x) /\ work[x].pc = "tx" /\ TxTrue(x)
  BY WorkerFacts DEF InsertBuildStep, InTx, WorkTrue
<1>2. /\ k \in Keys /\ k # NoKey /\ k \notin DOMAIN row
      /\ \A y \in Workers : y # x => k \notin work[y].ins
      /\ k[1] \in work[x].want /\ k[1] \in Builds /\ k[2] \in Nat \ {0} /\ k = <<k[1], k[2]>>
  BY <1>1 DEF InsertBuildStep, InsertWaits, InTx, WorkType, TxTrue, Keys
<1>3. /\ w \in WorkType
      /\ w.pc = work[x].pc /\ w.nr = work[x].nr /\ w.status = work[x].status
      /\ w.tries = work[x].tries /\ w.want = work[x].want \ {k[1]} /\ w.mark = work[x].mark
      /\ w.checked = work[x].checked /\ w.ins = work[x].ins \cup {k} /\ w.upd = work[x].upd
      /\ w.at = NoKey
  BY <1>1, <1>2 DEF WorkType
<1>4. Set(x, w) /\ UNCHANGED <<procVars, row, build, cached, finished, built, events>>
  BY DEF InsertBuildStep, OnlyWork
<1> HIDE DEF w
<1>5. work'[x] = w
  BY <1>3, <1>4, SetOnly DEF IInv
<1>6. TxTrue(x)'
  <2>1. JobTx(x) => JobTx(x)'
    <3> SUFFICES ASSUME JobTx(x)
                 PROVE  JobTx(x)'
      OBVIOUS
    <3>1. k[1] = BuildOf[x[2]] /\ work[x].want = {BuildOf[x[2]]} /\ work[x].ins = {}
      BY <1>2 DEF JobTx
    <3>2. w.want = {} /\ w.ins = {<<BuildOf[x[2]], k[2]>>}
      BY <1>2, <1>3, <3>1
    <3> QED BY <1>2, <1>3, <1>4, <1>5, <3>2 DEF JobTx, procVars
  <2>2. \A c \in Builds : Explained(x, c) => Explained(x, c)'
    <3> SUFFICES ASSUME NEW c \in Builds, Explained(x, c)
                 PROVE  Explained(x, c)'
      OBVIOUS
    <3>1. CASE c = k[1]
      BY <1>3, <1>5, <3>1 DEF Explained
    <3>2. CASE c # k[1]
      BY <1>3, <1>4, <1>5, <3>2 DEF Explained, Outcome
    <3> QED BY <3>1, <3>2
  <2>3. w.mark \in SUBSET Builds /\ w.upd \in SUBSET Builds
    BY <1>3 DEF WorkType
  <2> QED BY <1>1, <1>3, <1>4, <1>5, <2>1, <2>2, <2>3 DEF TxTrue, Outcome
<1>7. WorkTrue(x)' /\ ~HasRow(x)'
  BY <1>1, <1>3, <1>5, <1>6 DEF WorkTrue, HasRow
<1>8. built' \in SUBSET Steps /\ events' \in 0..MaxEvents
  BY <1>4 DEF IInv, Typed
<1>9. Bounded(w.ins)
  <2>1. work[x].ins \in SUBSET Keys /\ {k} \in SUBSET Keys
    BY <1>1, <1>2 DEF WorkType
  <2>2. Bounded(work[x].ins) /\ Bounded({k})
    BY <1>2, BoundedOne, WorkerFacts
  <2>3. Bounded(work[x].ins \cup {k})
    BY <2>1, <2>2, BoundedUnion
  <2> QED BY <1>3, <2>3
<1>10. \A c \in w.ins :
          c \notin DOMAIN row /\ \A y \in Workers : y # x => c \notin work[y].ins
  BY <1>2, <1>3, WorkerFacts
<1>11. \A b \in w.upd : \A y \in Workers : y # x => b \notin work[y].upd
  BY <1>3, WorkerFacts
<1> HIDE DEF k
<1> QED BY <1>3, <1>4, <1>7, <1>8, <1>9, <1>10, <1>11, OneWorker
(* A transaction looks at a build of mark, and may be done with it. *)
LEMMA MarkInv ==
    ASSUME IInv, NEW x \in Workers, InTx(x), NEW b \in work[x].mark, NEW w \in WorkType, Set(x, w),
           OnlyWork,
           w.pc = "tx", w.nr = work[x].nr, w.status = work[x].status, w.tries = work[x].tries,
           w.want = work[x].want, w.at = work[x].at, w.ins = work[x].ins,
           w.mark \subseteq work[x].mark, w.checked \subseteq w.mark,
           w.checked # {} => w.want = {} /\ w.status = "Success",
           w.upd \subseteq work[x].upd \cup {b},
           b \in w.upd => /\ \A y \in Workers : y # x => b \notin work[y].upd
                          /\ w.status \in Failures => build[b] = "open"
    PROVE  IInv'
<1>1. work[x] \in WorkType /\ WorkTrue(x) /\ work[x].pc = "tx" /\ TxTrue(x)
  BY WorkerFacts DEF InTx, WorkTrue
<1>2. UNCHANGED <<procVars, row, build, cached, finished, built, events>>
  BY DEF OnlyWork
<1>3. work'[x] = w
  BY SetOnly DEF IInv
<1>4. work[x].status # "Busy"
  BY <1>1 DEF TxTrue, JobTx
<1>5. TxTrue(x)'
  <2>1. \A c \in Builds : Explained(x, c) => Explained(x, c)'
    BY <1>2, <1>3 DEF Explained, Outcome
  <2>2. w.mark \cup w.upd \subseteq work[x].mark \cup work[x].upd /\ w.mark \cup w.upd \subseteq Builds
    BY DEF WorkType
  <2>3. w.status \in Failures => \A c \in w.upd : build[c] = "open"
    BY <1>1 DEF TxTrue
  <2>4. x[2] \in Steps /\ w.status \in {"Failed", "Unsupported"} =>
          \A c \in w.mark \cup w.upd : Explained(x, c)'
    BY <1>1, <2>1, <2>2 DEF TxTrue
  <2> QED BY <1>1, <1>2, <1>3, <1>4, <2>3, <2>4 DEF TxTrue, Outcome
<1>6. WorkTrue(x)' /\ ~HasRow(x)'
  BY <1>1, <1>3, <1>5 DEF WorkTrue, HasRow
<1>7. built' \in SUBSET Steps /\ events' \in 0..MaxEvents
  BY <1>2 DEF IInv, Typed
<1>8. \A c \in w.upd : \A y \in Workers : y # x => c \notin work[y].upd
  BY WorkerFacts
<1>9. /\ Bounded(w.ins)
      /\ \A k \in w.ins :
            k \notin DOMAIN row /\ \A y \in Workers : y # x => k \notin work[y].ins
  BY WorkerFacts
<1> QED BY <1>2, <1>6, <1>7, <1>8, <1>9, OneWorker

LEMMA PassedInv ==
    ASSUME IInv, NEW x \in Workers, InTx(x), NEW b \in work[x].mark, Passed(x, b), OnlyWork
    PROVE  IInv'
<1> DEFINE w == [work[x] EXCEPT !.mark = @ \ {b}, !.checked = {}, !.done = @ \cup {b}]
<1>1. work[x] \in WorkType /\ b \in Builds
  BY WorkerFacts DEF WorkType
<1>2. /\ w \in WorkType
      /\ w.pc = work[x].pc /\ w.nr = work[x].nr /\ w.status = work[x].status
      /\ w.tries = work[x].tries /\ w.want = work[x].want /\ w.mark = work[x].mark \ {b}
      /\ w.checked = {} /\ w.ins = work[x].ins /\ w.upd = work[x].upd /\ w.at = work[x].at
  BY <1>1 DEF WorkType
<1>3. Set(x, w) /\ work[x].pc = "tx"
  BY DEF Passed, InTx
<1>4. b \in work[x].upd => /\ \A y \in Workers : y # x => b \notin work[y].upd
                           /\ work[x].status \in Failures => build[b] = "open"
  BY <1>3, WorkerFacts DEF WorkTrue, TxTrue
<1> HIDE DEF w
<1> QED BY <1>2, <1>3, <1>4, MarkInv

LEMMA MarkedInv ==
    ASSUME IInv, NEW x \in Workers, InTx(x), NEW b \in work[x].mark, Marked(x, b), OnlyWork,
           \A y \in Workers : y # x => b \notin work[y].upd,
           work[x].status \in Failures => build[b] = "open"
    PROVE  IInv'
<1> DEFINE w == [work[x] EXCEPT !.mark = @ \ {b}, !.checked = {}, !.done = @ \cup {b},
                                !.upd = @ \cup {b}]
<1>1. work[x] \in WorkType /\ b \in Builds
  BY WorkerFacts DEF WorkType
<1>2. /\ w \in WorkType
      /\ w.pc = work[x].pc /\ w.nr = work[x].nr /\ w.status = work[x].status
      /\ w.tries = work[x].tries /\ w.want = work[x].want /\ w.mark = work[x].mark \ {b}
      /\ w.checked = {} /\ w.ins = work[x].ins /\ w.upd = work[x].upd \cup {b}
      /\ w.at = work[x].at
  BY <1>1 DEF WorkType
<1>3. Set(x, w) /\ work[x].pc = "tx"
  BY DEF Marked, InTx
<1> HIDE DEF w
<1> QED BY <1>2, <1>3, MarkInv

LEMMA CheckNotFinishedInv ==
    ASSUME IInv, NEW x \in Workers, NEW b \in Builds, CheckNotFinished(x, b)
    PROVE  IInv'
<1>1. /\ InTx(x) /\ work[x].want = {} /\ work[x].status = "Success" /\ b \in work[x].mark
      /\ OnlyWork
  BY DEF CheckNotFinished, Rows
<1>2. CASE build[b] # "open"
  <2>1. Passed(x, b)
    BY <1>2 DEF CheckNotFinished
  <2> QED BY <1>1, <2>1, PassedInv
<1>3. CASE build[b] = "open"
  <2> DEFINE w == [work[x] EXCEPT !.checked = {b}]
  <2>1. work[x] \in WorkType
    BY WorkerFacts
  <2>2. /\ w \in WorkType
        /\ w.pc = work[x].pc /\ w.nr = work[x].nr /\ w.status = work[x].status
        /\ w.tries = work[x].tries /\ w.want = work[x].want /\ w.mark = work[x].mark
        /\ w.checked = {b} /\ w.ins = work[x].ins /\ w.upd = work[x].upd
        /\ w.at = work[x].at
    BY <2>1 DEF WorkType
  <2>3. Set(x, w) /\ work[x].pc = "tx"
    BY <1>3 DEF CheckNotFinished, InTx
  <2>4. b \in work[x].upd => \A y \in Workers : y # x => b \notin work[y].upd
    BY WorkerFacts
  <2> HIDE DEF w
  <2> QED BY <1>1, <1>3, <2>2, <2>3, <2>4, MarkInv
<1> QED BY <1>2, <1>3

LEMMA UpdateBuildInv ==
    ASSUME IInv, NEW x \in Workers, NEW b \in Builds, UpdateBuild(x, b)
    PROVE  IInv'
<1>1. InTx(x) /\ b \in work[x].checked /\ Marked(x, b) /\ OnlyWork
  BY DEF UpdateBuild
<1>2. b \in work[x].mark /\ work[x].want = {} /\ work[x].status = "Success"
  BY <1>1, WorkerFacts DEF WorkTrue, TxTrue, InTx
<1>3. \A y \in Workers : y # x => b \notin work[y].upd
  BY <1>1, <1>2 DEF UpdateBuild, UpdateWaits, Rows
<1>4. work[x].status \notin Failures
  BY <1>2 DEF Failures
<1> QED BY <1>1, <1>2, <1>3, <1>4, MarkedInv

LEMMA UpdateAfterFailureInv ==
    ASSUME IInv, NEW x \in Workers, NEW b \in Builds, UpdateAfterFailure(x, b)
    PROVE  IInv'
<1>1. /\ InTx(x) /\ work[x].want = {} /\ b \in work[x].mark /\ OnlyWork
      /\ work[x].status \in Failures
  BY DEF UpdateAfterFailure, Rows
<1>2. \A y \in Workers : y # x => b \notin work[y].upd
  BY <1>1 DEF UpdateAfterFailure, UpdateWaits, Rows, Failures
<1>3. CASE build[b] = "open"
  BY <1>1, <1>2, <1>3, MarkedInv DEF UpdateAfterFailure
<1>4. CASE build[b] # "open"
  BY <1>1, <1>4, PassedInv DEF UpdateAfterFailure
<1> QED BY <1>3, <1>4
LEMMA FailedTyped ==
    ASSUME IInv, NEW x \in Workers, work[x].pc \in {"tx", "finish"}
    PROVE  /\ Failed(x) \in WorkType /\ Failed(x).pc \in {"idle", "dead"} /\ Failed(x).nr = 0
           /\ Failed(x).tries = work[x].tries /\ Failed(x).ins = {} /\ Failed(x).upd = {}
           /\ work[x].left \subseteq Failed(x).left
           /\ HasRow(x) => KeyOf(x) \in Failed(x).left
<1>1. work[x] \in WorkType /\ WorkTrue(x) /\ Typed
  BY WorkerFacts
<1>2. CASE work[x].status = "Busy"
  <2>1. ~HasRow(x)
    BY <1>1, <1>2 DEF WorkTrue, HasRow, AtOnce
  <2> QED BY <1>1, <1>2, <2>1, AgainTyped DEF Failed
<1>3. CASE work[x].status # "Busy"
  <2> DEFINE own  == x[2] \in Steps /\ work[x].nr # 0 /\ work[x].pc = "finish"
             left == IF own THEN Again(x).left \cup {KeyOf(x)} ELSE Again(x).left
             v    == [Again(x) EXCEPT !.pc = "dead", !.left = left]
  <2>1. own => KeyOf(x) \in Keys
    BY <1>1, RowsAssumption DEF Keys, KeyOf, WorkType
  <2>2. left \in SUBSET Keys
    BY <1>1, <2>1, AgainTyped DEF WorkType
  <2>3. Failed(x) = v
    <3>1. CASE own
      BY <1>1, <1>3, <3>1, AgainTyped DEF Failed, KeyOf, WorkType
    <3>2. CASE ~own
      BY <1>1, <1>3, <3>2, AgainTyped DEF Failed, KeyOf, WorkType
    <3> QED BY <3>1, <3>2
  <2>4. /\ v \in WorkType /\ v.pc = "dead" /\ v.nr = 0 /\ v.tries = work[x].tries
        /\ v.ins = {} /\ v.upd = {} /\ v.left = left
    BY <1>1, <2>2, AgainTyped DEF WorkType, Pcs
  <2>5. work[x].left \subseteq left /\ (HasRow(x) => KeyOf(x) \in left)
    BY <1>1, AgainTyped DEF HasRow
  <2> HIDE DEF v
  <2> QED BY <2>3, <2>4, <2>5
<1> QED BY <1>2, <1>3

(* A worker that has nothing under way. *)
LEMMA RestInv ==
    ASSUME IInv, NEW x \in Workers, NEW w \in WorkType, Set(x, w),
           w.pc \in {"idle", "dead", "over"}, w.nr = 0, w.ins = {}, w.upd = {},
           w.tries > 0 => w.tries < MaxRetries,
           UNCHANGED <<procVars, row, build, cached, finished>>,
           built' \in SUBSET Steps, events' \in 0..MaxEvents
    PROVE  IInv'
<1>1. work'[x] = w
  BY SetOnly DEF IInv
<1>2. WorkTrue(x)' /\ ~HasRow(x)'
  BY <1>1 DEF WorkTrue, HasRow
<1>3. Bounded({})
  BY DEF Bounded
<1> QED BY <1>2, <1>3, OneWorker

LEMMA EventTyped ==
    ASSUME Typed, Event
    PROVE  events' \in 0..MaxEvents
BY RowsAssumption DEF Typed, Event

LEMMA DeadlockInv ==
    ASSUME IInv, NEW x \in Workers, Deadlock(x)
    PROVE  IInv'
<1>1. work[x].pc = "tx" /\ Set(x, Failed(x)) /\ OnlyWork
  BY DEF Deadlock, InTx
<1>2. WorkTrue(x)
  BY WorkerFacts
<1>3. built' \in SUBSET Steps /\ events' \in 0..MaxEvents
  BY <1>1 DEF IInv, Typed, OnlyWork
<1> QED BY <1>1, <1>2, <1>3, FailedTyped, RestInv DEF OnlyWork, WorkTrue

LEMMA DatabaseFailsInv ==
    ASSUME IInv, NEW x \in Workers, DatabaseFails(x)
    PROVE  IInv'
<1>1. work[x].pc \in {"tx", "finish"} /\ Set(x, Failed(x)) /\ Event
  BY DEF DatabaseFails
<1>2. WorkTrue(x)
  BY WorkerFacts
<1>3. built' \in SUBSET Steps /\ events' \in 0..MaxEvents
  BY <1>1, EventTyped DEF IInv, Typed, DatabaseFails
<1> QED BY <1>1, <1>2, <1>3, FailedTyped, RestInv DEF DatabaseFails, WorkTrue

-----------------------------------------------------------------------------
(* Jobs and builds.                                                        *)

LEMMA FinishTyped ==
    ASSUME NEW w \in WorkType, NEW status \in Statuses
    PROVE  LET v == [w EXCEPT !.pc = "finish", !.status = status]
               u == [w EXCEPT !.pc = "finish", !.status = status, !.can_retry = TRUE]
           IN  /\ v \in WorkType /\ v.pc = "finish" /\ v.status = status /\ v.nr = w.nr
               /\ v.tries = w.tries /\ v.ins = w.ins /\ v.upd = w.upd /\ v.left = w.left
               /\ u \in WorkType /\ u.pc = "finish" /\ u.status = status /\ u.nr = w.nr
               /\ u.tries = w.tries /\ u.ins = w.ins /\ u.upd = w.upd /\ u.left = w.left
BY DEF WorkType, Pcs

(* A worker that is about to end its row, if it has one. *)
LEMMA FinishInv ==
    ASSUME IInv, NEW x \in Workers, x[2] \in Steps, work[x].pc \in {"idle", "running"},
           NEW w \in WorkType, Set(x, w),
           w.pc = "finish", w.nr = work[x].nr, w.tries = work[x].tries,
           w.ins = work[x].ins, w.upd = work[x].upd,
           work[x].pc = "idle" => w.status \in AtOnce,
           work[x].pc = "running" => w.status \in {"Success", "Failed"},
           UNCHANGED <<procVars, row, build, cached, finished>>,
           built' \in SUBSET Steps, events' \in 0..MaxEvents
    PROVE  IInv'
<1>1. work'[x] = w
  BY SetOnly DEF IInv
<1>2. WorkTrue(x)
  BY WorkerFacts
<1>3. w.ins = {} /\ w.upd = {}
  BY <1>2 DEF WorkTrue
<1>4. WorkTrue(x)'
  BY <1>1, <1>2, <1>3 DEF WorkTrue
<1>5. HasRow(x)' => HasRow(x) /\ w.nr = work[x].nr
  BY <1>1, <1>2 DEF WorkTrue, HasRow
<1>6. Bounded(w.ins)
  BY <1>3 DEF Bounded
<1> QED BY <1>3, <1>4, <1>5, <1>6, OneWorker

(* A worker that begins a transaction. *)
LEMMA BeginInv ==
    ASSUME IInv, NEW x \in Workers, NEW status \in {"Busy", "Success"} \cup Failures,
           NEW want \in SUBSET Builds, NEW mark \in SUBSET Builds,
           Set(x, Begin(work[x], status, want, mark)),
           status = "Busy" => /\ x[2] \in Steps /\ inst[x[1]] = "running" /\ mark = {}
                              /\ want = {BuildOf[x[2]]},
           x[2] \in Steps => status = "Busy",
           x[2] \in Monitored => status \in {"Success", "CachedFailure"},
           UNCHANGED <<procVars, row, build, cached, finished, built, events>>
    PROVE  IInv'
<1> DEFINE w == Begin(work[x], status, want, mark)
<1>1. work[x] \in WorkType /\ WorkTrue(x)
  BY WorkerFacts
<1>2. status \in Statuses \cup {"Busy"}
  BY DEF Statuses
<1>3. /\ w \in WorkType
      /\ w.pc = "tx" /\ w.status = status /\ w.want = want /\ w.at = NoKey /\ w.mark = mark
      /\ w.checked = {} /\ w.ins = {} /\ w.upd = {} /\ w.nr = work[x].nr /\ w.tries = work[x].tries
  BY <1>1, <1>2 DEF Begin, WorkType, Pcs, NoKey
<1> HIDE DEF w
<1>4. Set(x, w)
  BY DEF w
<1>5. work'[x] = w
  BY <1>3, <1>4, SetOnly DEF IInv
<1>6. status = "Busy" => JobTx(x)'
  BY <1>3, <1>5 DEF JobTx, procVars
<1>7. TxTrue(x)'
  <2>1. x[2] \in Steps => status \notin Failures \cup {"Success"}
    BY DEF Failures
  <2>2. "Failed" \in Failures /\ "Unsupported" \in Failures
    BY DEF Failures
  <2> QED BY <1>3, <1>5, <1>6, <2>1, <2>2 DEF TxTrue
<1>8. WorkTrue(x)' /\ ~HasRow(x)'
  BY <1>1, <1>3, <1>5, <1>7 DEF WorkTrue, HasRow
<1>9. built' \in SUBSET Steps /\ events' \in 0..MaxEvents
  BY DEF IInv, Typed
<1>10. Bounded(w.ins)
  BY <1>3 DEF Bounded
<1> QED BY <1>3, <1>4, <1>8, <1>9, <1>10, OneWorker
LEMMA WorkersPair ==
    ASSUME NEW p \in Procs, NEW t \in Tasks
    PROVE  <<p, t>> \in Workers /\ <<p, t>>[1] = p /\ <<p, t>>[2] = t
BY DEF Workers

LEMMA RealiseDrvInv ==
    ASSUME IInv, NEW p \in Procs, NEW s \in Steps, RealiseDrv(p, s)
    PROVE  IInv'
<1> DEFINE x == <<p, s>>
<1>1. x \in Workers /\ x[1] = p /\ x[2] = s
  BY WorkersPair DEF Tasks
<1>2. inst[p] = "running" /\ work[x].pc = "idle" /\ OnlyWork
  BY DEF RealiseDrv
<1>3. s \notin Monitored /\ BuildOf[s] \in Builds
  BY RowsAssumption
<1> HIDE DEF x
<1>4. \/ Set(x, Begin(work[x], "Busy", {BuildOf[s]}, {}))
      \/ \E status \in AtOnce : Set(x, [work[x] EXCEPT !.pc = "finish", !.status = status])
  BY DEF RealiseDrv, x
<1>5. ASSUME Set(x, Begin(work[x], "Busy", {BuildOf[s]}, {}))
      PROVE  IInv'
  <2>1. /\ "Busy" \in {"Busy", "Success"} \cup Failures
        /\ {BuildOf[s]} \in SUBSET Builds /\ {} \in SUBSET Builds
    BY <1>3
  <2> QED BY <1>1, <1>2, <1>3, <1>5, <2>1, BeginInv DEF OnlyWork
<1>6. ASSUME NEW status \in AtOnce, Set(x, [work[x] EXCEPT !.pc = "finish", !.status = status])
      PROVE  IInv'
  <2> DEFINE w == [work[x] EXCEPT !.pc = "finish", !.status = status]
  <2>1. work[x] \in WorkType /\ status \in Statuses
    BY <1>1, WorkerFacts DEF AtOnce, Statuses, Failures
  <2>2. /\ w \in WorkType /\ w.pc = "finish" /\ w.status = status /\ w.nr = work[x].nr
        /\ w.tries = work[x].tries /\ w.ins = work[x].ins /\ w.upd = work[x].upd
    BY <2>1, FinishTyped
  <2>3. built' \in SUBSET Steps /\ events' \in 0..MaxEvents
    BY <1>2 DEF IInv, Typed, OnlyWork
  <2> HIDE DEF w
  <2>4. Set(x, w)
    BY <1>6 DEF w
  <2> QED BY <1>1, <1>2, <2>2, <2>3, <2>4, FinishInv DEF OnlyWork
<1> QED BY <1>4, <1>5, <1>6

LEMMA EndJobInv ==
    ASSUME IInv, NEW p \in Procs, NEW s \in Steps, EndJob(p, s)
    PROVE  IInv'
<1> DEFINE x == <<p, s>>
<1>1. x \in Workers /\ x[1] = p /\ x[2] = s
  BY WorkersPair DEF Tasks
<1>2. work[x].pc = "running" /\ UNCHANGED <<procVars, row, build, cached, finished>>
  BY DEF EndJob
<1>3. built' \in SUBSET Steps /\ events' \in 0..MaxEvents
  BY EventTyped DEF EndJob, IInv, Typed
<1>4. \/ Set(x, [work[x] EXCEPT !.pc = "finish", !.status = "Success"])
      \/ Set(x, [work[x] EXCEPT !.pc = "finish", !.status = "Failed"])
      \/ Set(x, [work[x] EXCEPT !.pc = "finish", !.status = "Failed", !.can_retry = TRUE])
  BY DEF EndJob
<1> HIDE DEF x
<1>5. work[x] \in WorkType
  BY <1>1, WorkerFacts
<1>6. "Success" \in Statuses /\ "Failed" \in Statuses
  BY DEF Statuses, Failures
<1>7. PICK w : /\ Set(x, w)
               /\ \/ w = [work[x] EXCEPT !.pc = "finish", !.status = "Success"]
                  \/ w = [work[x] EXCEPT !.pc = "finish", !.status = "Failed"]
                  \/ w = [work[x] EXCEPT !.pc = "finish", !.status = "Failed", !.can_retry = TRUE]
  BY <1>4
<1>8. /\ w \in WorkType /\ w.pc = "finish" /\ w.status \in {"Success", "Failed"}
      /\ w.nr = work[x].nr /\ w.tries = work[x].tries /\ w.ins = work[x].ins /\ w.upd = work[x].upd
  <2>1. CASE w = [work[x] EXCEPT !.pc = "finish", !.status = "Success"]
    BY <1>5, <1>6, <2>1, FinishTyped
  <2>2. CASE w = [work[x] EXCEPT !.pc = "finish", !.status = "Failed"]
    BY <1>5, <1>6, <2>2, FinishTyped
  <2>3. CASE w = [work[x] EXCEPT !.pc = "finish", !.status = "Failed", !.can_retry = TRUE]
    BY <1>5, <1>6, <2>3, FinishTyped
  <2> QED BY <1>7, <2>1, <2>2, <2>3
<1> QED BY <1>1, <1>2, <1>3, <1>7, <1>8, FinishInv

LEMMA FailRunningInv ==
    ASSUME IInv, NEW p \in Procs, NEW s \in Steps, FailRunning(p, s)
    PROVE  IInv'
<1> DEFINE x == <<p, s>>
           w == [work[x] EXCEPT !.pc = "finish", !.status = "Failed", !.can_retry = TRUE]
<1>1. x \in Workers /\ x[1] = p /\ x[2] = s
  BY WorkersPair DEF Tasks
<1>2. work[x].pc = "running" /\ OnlyWork /\ Set(x, w)
  BY DEF FailRunning
<1>3. built' \in SUBSET Steps /\ events' \in 0..MaxEvents
  BY <1>2 DEF OnlyWork, IInv, Typed
<1>4. work[x] \in WorkType /\ "Failed" \in Statuses
  BY <1>1, WorkerFacts DEF Statuses, Failures
<1>5. /\ w \in WorkType /\ w.pc = "finish" /\ w.status = "Failed" /\ w.nr = work[x].nr
      /\ w.tries = work[x].tries /\ w.ins = work[x].ins /\ w.upd = work[x].upd
  BY <1>4, FinishTyped
<1> HIDE DEF x, w
<1> QED BY <1>1, <1>2, <1>3, <1>5, FinishInv DEF OnlyWork

LEMMA CreateBuildInv ==
    ASSUME IInv, NEW p \in Procs, NEW b \in Monitored, CreateBuild(p, b)
    PROVE  IInv'
<1> DEFINE x == <<p, b>>
<1>1. x \in Workers /\ x[1] = p /\ x[2] = b
  BY WorkersPair DEF Tasks
<1>2. b \in Builds /\ b \notin Steps
  BY RowsAssumption
<1>3. \E status \in {"Success", "CachedFailure"}, want \in SUBSET Builds, mark \in SUBSET Builds :
          Set(x, Begin(work[x], status, want, mark))
  <2>1. {b} \in SUBSET Builds /\ {} \in SUBSET Builds
    BY <1>2
  <2> QED BY <2>1 DEF CreateBuild, SubstitutionStep
<1>4. UNCHANGED <<procVars, row, build, cached, finished, built, events>>
  BY DEF CreateBuild, OnlyWork
<1>5. {"Success", "CachedFailure"} \subseteq {"Busy", "Success"} \cup Failures
  BY DEF Failures
<1> HIDE DEF x
<1> QED BY <1>1, <1>2, <1>3, <1>4, <1>5, BeginInv

-----------------------------------------------------------------------------
(* Processes and rows.                                                     *)

(* Rows that are over keep what they say. *)
LEMMA OutcomeStays ==
    ASSUME NEW b, NEW status \in {"Success", "Failed", "Unsupported"}, Outcome(b, status),
           \A k \in DOMAIN row :
               /\ k \in DOMAIN row'
               /\ row[k].busy = 0 /\ row[k].status \notin {"NULL", "Aborted"} => row'[k] = row[k]
    PROVE  Outcome(b, status)'
<1>1. PICK k \in DOMAIN row : k[1] = b /\ row[k] = NewRow(status)
  BY DEF Outcome
<1>2. row[k].busy = 0 /\ row[k].status = status
  BY <1>1 DEF NewRow
<1>3. k \in DOMAIN row' /\ row'[k] = NewRow(status)
  BY <1>1, <1>2
<1> QED BY <1>1, <1>3 DEF Outcome, NewRow

(* A step that ends workers, and that changes rows that are busy. *)
LEMMA QuietInv ==
    ASSUME IInv, Typed', NotYet', UNCHANGED <<build, cached>>, DOMAIN row' = DOMAIN row,
           \A k \in DOMAIN row : \/ row'[k] = row[k]
                                 \/ row[k].busy # 0 /\ row'[k].status \in {"NULL", "Aborted"},
           \A x \in Workers :
               \/ work'[x] = work[x]
               \/ /\ work'[x].pc = "idle" /\ work'[x].nr = 0
                  /\ work'[x].ins = {} /\ work'[x].upd = {}
                  /\ work'[x].tries > 0 => work'[x].tries < MaxRetries,
           \A x \in Workers : work'[x].pc = "tx" /\ work'[x].status = "Busy" =>
               inst'[x[1]] = inst[x[1]]
    PROVE  IInv'
<1>1. \A b : \A status \in {"Success", "Failed", "Unsupported"} :
          Outcome(b, status) => Outcome(b, status)'
  BY OutcomeStays
<1>2. NrsBounded'
  <2>1. Bounded({})
    BY DEF Bounded
  <2> QED BY <2>1 DEF IInv, NrsBounded
<1>3. \A x \in Workers : WorkTrue(x)'
  <2> SUFFICES ASSUME NEW x \in Workers
               PROVE  WorkTrue(x)'
    OBVIOUS
  <2>1. CASE work'[x] = work[x]
    <3>1. WorkTrue(x)
      BY DEF IInv
    <3>2. TxTrue(x) /\ work[x].pc = "tx" => TxTrue(x)'
      <4> SUFFICES ASSUME TxTrue(x), work[x].pc = "tx"
                   PROVE  TxTrue(x)'
        OBVIOUS
      <4>1. work[x].status = "Busy" => JobTx(x)'
        BY <2>1 DEF JobTx, TxTrue
      <4>2. x[2] \in Steps /\ work[x].status \in {"Failed", "Unsupported"} =>
              \A b \in work[x].mark \cup work[x].upd : Explained(x, b)'
        BY <1>1, <2>1 DEF TxTrue, Explained
      <4>3. x[2] \in Steps /\ work[x].status = "Success" => Outcome(BuildOf[x[2]], "Success")'
        BY <1>1 DEF TxTrue
      <4> QED BY <2>1, <4>1, <4>2, <4>3 DEF TxTrue
    <3> QED BY <2>1, <3>1, <3>2 DEF WorkTrue
  <2>2. CASE /\ work'[x].pc = "idle" /\ work'[x].nr = 0
             /\ work'[x].ins = {} /\ work'[x].upd = {}
             /\ work'[x].tries > 0 => work'[x].tries < MaxRetries
    BY <2>2 DEF WorkTrue
  <2> QED BY <2>1, <2>2
<1>4. \A x \in Workers : HasRow(x)' => HasRow(x) /\ work'[x].nr = work[x].nr
  BY DEF HasRow
<1>5. RowsOwned'
  BY <1>4 DEF IInv, RowsOwned, KeyOf
<1>6. UpdatesApart'
  BY DEF IInv, UpdatesApart
<1>7. RowsUnique'
  <2>1. \A y, z \in Workers : HasRow(y)' /\ HasRow(z)' /\ y # z =>
            <<BuildOf[y[2]], work'[y].nr>> # <<BuildOf[z[2]], work'[z].nr>>
    BY <1>4 DEF IInv, RowsUnique
  <2>2. \A y, z \in Workers : y # z => work'[y].ins \cap work'[z].ins = {}
    BY DEF IInv, RowsUnique
  <2>3. \A y \in Workers : work'[y].ins \cap DOMAIN row' = {}
    BY DEF IInv, RowsUnique
  <2> QED BY <2>1, <2>2, <2>3 DEF RowsUnique
<1>8. FinishedHasRow'
  BY <1>1 DEF IInv, FinishedHasRow
<1> QED BY <1>2, <1>3, <1>5, <1>6, <1>7, <1>8 DEF IInv
LEMMA ClearBusyRows ==
    ASSUME Typed, ClearBusy
    PROVE  /\ DOMAIN row' = DOMAIN row /\ row' \in [DOMAIN row' -> RowType]
           /\ \A k \in DOMAIN row :
                /\ row'[k].busy = 0
                /\ row'[k] = row[k] \/ (row[k].busy # 0 /\ row'[k].status \in {"NULL", "Aborted"})
<1>1. [busy |-> 0, status |-> "Aborted"] \in RowType
  BY DEF RowType, Statuses
<1>2. \A k \in DOMAIN row : row[k] \in RowType
  BY DEF Typed
<1>3. /\ DOMAIN row' = DOMAIN row
      /\ \A k \in DOMAIN row : row'[k] = IF row[k].busy # 0 THEN [busy |-> 0, status |-> "Aborted"]
                                         ELSE row[k]
  BY DEF ClearBusy
<1>4. row' \in [DOMAIN row -> RowType]
  BY <1>1, <1>2 DEF ClearBusy
<1>5. row' \in [DOMAIN row' -> RowType]
  BY <1>3, <1>4, Zenon
<1>6. \A k \in DOMAIN row :
          /\ row'[k].busy = 0
          /\ row'[k] = row[k] \/ (row[k].busy # 0 /\ row'[k].status \in {"NULL", "Aborted"})
  <2> SUFFICES ASSUME NEW k \in DOMAIN row
               PROVE  /\ row'[k].busy = 0
                      /\ \/ row'[k] = row[k]
                         \/ row[k].busy # 0 /\ row'[k].status \in {"NULL", "Aborted"}
    OBVIOUS
  <2>1. CASE row[k].busy = 0
    BY <1>3, <2>1
  <2>2. CASE row[k].busy # 0
    <3>1. row'[k] = [busy |-> 0, status |-> "Aborted"]
      BY <1>3, <2>2
    <3> QED BY <2>2, <3>1
  <2> QED BY <2>1, <2>2
<1> QED BY <1>3, <1>5, <1>6

(* The process of a job's transaction. *)
LEMMA JobTxRuns ==
    ASSUME IInv, NEW x \in Workers, work[x].pc = "tx", work[x].status = "Busy"
    PROVE  inst[x[1]] = "running" /\ x[1] \in Procs
BY WorkerFacts DEF WorkTrue, TxTrue, JobTx

LEMMA OpenLockInv ==
    ASSUME IInv, NEW p \in Procs, OpenLock(p)
    PROVE  IInv'
<1>1. p \in 1..MaxStarts /\ p = starts + 1 /\ starts' = p /\ starts \in Nat
  BY RowsAssumption DEF OpenLock, Procs, IInv, Typed
<1>2. UNCHANGED <<row, build, cached, work, finished, built, events>>
  BY DEF OpenLock, Unlinked
<1>3. inst[p] = "off" /\ inst' = [inst EXCEPT ![p] = "opened"]
  BY <1>1 DEF IInv, NotYet, OpenLock
<1>4. path' \in 0..MaxStarts /\ handle' \in [Procs -> 0..MaxStarts]
  <2>1. path' \in 0..MaxStarts
    BY <1>1, RowsAssumption DEF OpenLock, IInv, Typed
  <2>2. \A v \in 0..MaxStarts : [handle EXCEPT ![p] = v] \in [Procs -> 0..MaxStarts]
    BY DEF IInv, Typed
  <2>3. handle' = [handle EXCEPT ![p] = path']
    BY DEF OpenLock
  <2> QED BY <2>1, <2>2, <2>3
<1>5. Typed'
  <2>1. inst' \in [Procs -> InstType]
    BY <1>3 DEF IInv, Typed, InstType
  <2>2. starts' \in 0..MaxStarts
    BY <1>1, RowsAssumption
  <2> QED BY <1>2, <1>4, <2>1, <2>2 DEF IInv, Typed
<1>6. NotYet'
  <2> SUFFICES ASSUME NEW q \in Procs, q > starts'
               PROVE  inst'[q] = "off"
    BY DEF NotYet
  <2>1. q # p /\ q > starts
    BY <1>1, RowsAssumption DEF Procs
  <2> QED BY <1>3, <2>1 DEF IInv, NotYet, Typed
<1>7. \A x \in Workers : work'[x].pc = "tx" /\ work'[x].status = "Busy" =>
          inst'[x[1]] = inst[x[1]]
  BY <1>2, <1>3, JobTxRuns DEF IInv, Typed
<1> QED BY <1>2, <1>5, <1>6, <1>7, QuietInv

(* The state of a process that has started changes. *)
LEMMA InstMoves ==
    ASSUME IInv, NEW p \in Procs, inst[p] # "off", NEW i \in InstType,
           inst' = [inst EXCEPT ![p] = i], UNCHANGED starts
    PROVE  /\ inst' \in [Procs -> InstType]
           /\ inst'[p] = i /\ \A q \in Procs : q # p => inst'[q] = inst[q]
           /\ NotYet'
<1>1. inst' \in [Procs -> InstType] /\ inst'[p] = i /\ \A q \in Procs : q # p => inst'[q] = inst[q]
  BY DEF IInv, Typed
<1>2. ~(p > starts)
  BY DEF IInv, NotYet
<1> QED BY <1>1, <1>2 DEF IInv, NotYet

LEMMA RefusedInv ==
    ASSUME IInv, NEW p \in Procs, Refused(p)
    PROVE  IInv'
<1>1. UNCHANGED <<row, build, cached, work, finished, built, events, path, starts>>
  BY DEF Refused, Unlinked
<1>2. inst[p] = "opened" /\ inst' = [inst EXCEPT ![p] = "off"] /\ "off" \in InstType
  BY DEF Refused, InstType
<1>3. /\ inst' \in [Procs -> InstType] /\ NotYet'
      /\ \A q \in Procs : q # p => inst'[q] = inst[q]
  BY <1>1, <1>2, InstMoves
<1>4. handle' \in [Procs -> 0..MaxStarts]
  <2>1. 0 \in 0..MaxStarts
    BY RowsAssumption
  <2> QED BY <2>1 DEF Refused, IInv, Typed
<1>5. Typed'
  BY <1>1, <1>3, <1>4 DEF IInv, Typed
<1>6. \A x \in Workers : work'[x].pc = "tx" /\ work'[x].status = "Busy" =>
          inst'[x[1]] = inst[x[1]]
  BY <1>1, <1>2, <1>3, JobTxRuns
<1> QED BY <1>1, <1>3, <1>5, <1>6, QuietInv

LEMMA StartLoopsInv ==
    ASSUME IInv, NEW p \in Procs, StartLoops(p)
    PROVE  IInv'
<1>1. UNCHANGED <<build, cached, work, built, events, handle, path, starts>> /\ ClearBusy
  BY DEF StartLoops
<1>2. inst[p] = "opened" /\ inst' = [inst EXCEPT ![p] = "running"] /\ "running" \in InstType
  BY DEF StartLoops, InstType
<1>3. /\ inst' \in [Procs -> InstType] /\ NotYet'
      /\ \A q \in Procs : q # p => inst'[q] = inst[q]
  BY <1>1, <1>2, InstMoves
<1>4. finished' \in [Procs -> SUBSET Builds]
  <2>1. {b \in Builds : build[b] # "open"} \in SUBSET Builds
    OBVIOUS
  <2> QED BY <2>1 DEF StartLoops, IInv, Typed
<1>5. /\ DOMAIN row' = DOMAIN row /\ row' \in [DOMAIN row' -> RowType]
      /\ \A k \in DOMAIN row :
            row'[k] = row[k] \/ (row[k].busy # 0 /\ row'[k].status \in {"NULL", "Aborted"})
  BY <1>1, ClearBusyRows DEF IInv
<1>6. Typed'
  BY <1>1, <1>3, <1>4, <1>5 DEF IInv, Typed
<1>7. \A x \in Workers : work'[x].pc = "tx" /\ work'[x].status = "Busy" =>
          inst'[x[1]] = inst[x[1]]
  BY <1>1, <1>2, <1>3, JobTxRuns
<1> QED BY <1>1, <1>3, <1>5, <1>6, <1>7, QuietInv

LEMMA UnlockInv ==
    ASSUME IInv, NEW p \in Procs, Unlock(p)
    PROVE  IInv'
<1>1. UNCHANGED <<build, cached, work, built, finished, handle, path, starts>>
  BY DEF Unlock
<1>2. inst[p] = "stopping" /\ inst' = [inst EXCEPT ![p] = "unlocked"] /\ "unlocked" \in InstType
  BY DEF Unlock, InstType
<1>3. /\ inst' \in [Procs -> InstType] /\ NotYet'
      /\ \A q \in Procs : q # p => inst'[q] = inst[q]
  BY <1>1, <1>2, InstMoves
<1>4. events' \in 0..MaxEvents
  BY EventTyped DEF Unlock, IInv, Typed
<1>5. /\ DOMAIN row' = DOMAIN row /\ row' \in [DOMAIN row' -> RowType]
      /\ \A k \in DOMAIN row :
            row'[k] = row[k] \/ (row[k].busy # 0 /\ row'[k].status \in {"NULL", "Aborted"})
  <2>1. CASE ClearBusy
    BY <2>1, ClearBusyRows DEF IInv
  <2>2. CASE row' = row
    <3>1. row \in [DOMAIN row -> RowType]
      BY DEF IInv, Typed
    <3>2. row' \in [DOMAIN row' -> RowType]
      BY <2>2, <3>1, Zenon
    <3>3. \A k \in DOMAIN row : row'[k] = row[k]
      BY <2>2
    <3>4. DOMAIN row' = DOMAIN row
      BY <2>2
    <3> QED BY <3>2, <3>3, <3>4
  <2> QED BY <2>1, <2>2 DEF Unlock
<1>6. Typed'
  BY <1>1, <1>3, <1>4, <1>5 DEF IInv, Typed
<1>7. \A x \in Workers : work'[x].pc = "tx" /\ work'[x].status = "Busy" =>
          inst'[x[1]] = inst[x[1]]
  BY <1>1, <1>2, <1>3, JobTxRuns
<1> QED BY <1>1, <1>3, <1>5, <1>6, <1>7, QuietInv
LEMMA SignalInv ==
    ASSUME IInv, NEW p \in Procs, Signal(p)
    PROVE  IInv'
<1>1. UNCHANGED <<handle, path, starts, row, build, cached, finished, built, events>>
  BY DEF Signal
<1>2. inst[p] = "running" /\ inst' = [inst EXCEPT ![p] = "stopping"] /\ "stopping" \in InstType
  BY DEF Signal, InstType
<1>3. /\ inst' \in [Procs -> InstType] /\ NotYet'
      /\ \A q \in Procs : q # p => inst'[q] = inst[q]
  BY <1>1, <1>2, InstMoves
<1>4. \A x \in Workers : work'[x] = IF x[1] = p /\ InLoop(x) THEN Again(x) ELSE work[x]
  BY DEF Signal
<1>5. \A x \in Workers : Again(x) \in WorkType /\ work[x] \in WorkType
  BY AgainTyped DEF IInv, Typed
<1>6. work' \in [Workers -> WorkType]
  BY <1>5 DEF Signal
<1>7. Typed'
  BY <1>1, <1>3, <1>6 DEF IInv, Typed
<1>8. \A x \in Workers :
          \/ work'[x] = work[x]
          \/ /\ work'[x].pc = "idle" /\ work'[x].nr = 0
             /\ work'[x].ins = {} /\ work'[x].upd = {}
             /\ work'[x].tries > 0 => work'[x].tries < MaxRetries
  <2> SUFFICES ASSUME NEW x \in Workers, work'[x] = Again(x)
               PROVE  /\ work'[x].pc = "idle" /\ work'[x].nr = 0
                      /\ work'[x].ins = {} /\ work'[x].upd = {}
                      /\ work'[x].tries > 0 => work'[x].tries < MaxRetries
    BY <1>4
  <2>1. WorkTrue(x) /\ Typed
    BY DEF IInv
  <2> QED BY <2>1, AgainTyped DEF WorkTrue
<1>9. \A x \in Workers : work'[x].pc = "tx" /\ work'[x].status = "Busy" =>
          inst'[x[1]] = inst[x[1]]
  <2> SUFFICES ASSUME NEW x \in Workers, work'[x].pc = "tx", work'[x].status = "Busy"
               PROVE  x[1] # p
    BY <1>3 DEF Workers
  <2>1. work'[x] = work[x]
    BY <1>4, AgainTyped DEF IInv
  <2>2. InLoop(x)
    BY <2>1 DEF InLoop
  <2>3. x[1] = p => work'[x] = Again(x)
    BY <1>4, <2>2
  <2>4. Again(x).pc = "idle"
    BY AgainTyped DEF IInv
  <2> QED BY <2>3, <2>4
<1> QED BY <1>1, <1>3, <1>7, <1>8, <1>9, QuietInv

LEMMA GoneInv ==
    ASSUME IInv, NEW p \in Procs, Gone(p), inst[p] # "off",
           path' \in 0..MaxStarts, events' \in 0..MaxEvents
    PROVE  IInv'
<1>1. UNCHANGED <<starts, row, build, cached, built>>
  BY DEF Gone
<1>2. inst' = [inst EXCEPT ![p] = "off"] /\ "off" \in InstType
  BY DEF Gone, InstType
<1>3. /\ inst' \in [Procs -> InstType] /\ NotYet'
      /\ \A q \in Procs : q # p => inst'[q] = inst[q]
  BY <1>1, <1>2, InstMoves
<1>4. /\ \A x \in Workers : work'[x] = IF x[1] = p THEN Idle ELSE work[x]
      /\ work' \in [Workers -> WorkType]
  BY IdleTyped DEF Gone, IInv, Typed
<1>5. handle' \in [Procs -> 0..MaxStarts] /\ finished' \in [Procs -> SUBSET Builds]
  <2>1. 0 \in 0..MaxStarts /\ {} \in SUBSET Builds
    BY RowsAssumption
  <2>2. handle' \in [Procs -> 0..MaxStarts]
    BY <2>1 DEF Gone, IInv, Typed
  <2>3. finished' \in [Procs -> SUBSET Builds]
    BY <2>1 DEF Gone, IInv, Typed
  <2> QED BY <2>2, <2>3
<1>6. Typed'
  BY <1>1, <1>3, <1>4, <1>5 DEF IInv, Typed
<1>7. \A x \in Workers :
          \/ work'[x] = work[x]
          \/ /\ work'[x].pc = "idle" /\ work'[x].nr = 0
             /\ work'[x].ins = {} /\ work'[x].upd = {}
             /\ work'[x].tries > 0 => work'[x].tries < MaxRetries
  BY <1>4, IdleTyped
<1>8. \A x \in Workers : work'[x].pc = "tx" /\ work'[x].status = "Busy" =>
          inst'[x[1]] = inst[x[1]]
  BY <1>3, <1>4, IdleTyped DEF Workers
<1> QED BY <1>1, <1>3, <1>6, <1>7, <1>8, QuietInv

LEMMA RemoveFileInv ==
    ASSUME IInv, NEW p \in Procs, RemoveFile(p)
    PROVE  IInv'
<1>1. path' \in 0..MaxStarts /\ events' \in 0..MaxEvents
  BY RowsAssumption DEF RemoveFile, IInv, Typed
<1>2. inst[p] # "off" /\ Gone(p)
  BY DEF RemoveFile
<1> QED BY <1>1, <1>2, GoneInv

LEMMA CrashInv ==
    ASSUME IInv, NEW p \in Procs, Crash(p)
    PROVE  IInv'
<1>1. path' \in 0..MaxStarts /\ events' \in 0..MaxEvents
  BY EventTyped DEF Crash, IInv, Typed
<1>2. inst[p] # "off" /\ Gone(p)
  BY DEF Crash
<1> QED BY <1>1, <1>2, GoneInv

LEMMA UpdateBuildStepInv ==
    ASSUME IInv, NEW k \in DOMAIN row, UpdateBuildStep(k)
    PROVE  IInv'
<1>1. UNCHANGED <<procVars, build, cached, work, finished, built, events>>
  BY DEF UpdateBuildStep
<1>2. row[k] \in RowType /\ row \in [DOMAIN row -> RowType]
  BY DEF IInv, Typed
<1>3. /\ DOMAIN row' = DOMAIN row /\ row' \in [DOMAIN row -> RowType]
      /\ \A j \in DOMAIN row : row'[j] = row[j] \/ (row[j].busy # 0 /\ row'[j].status = "NULL")
  <2>1. CASE row[k].busy # 0 /\ row[k].status = "NULL"
    <3>1. row' = [row EXCEPT ![k].busy = 2]
      BY <2>1 DEF UpdateBuildStep, Leveled
    <3>2. [row[k] EXCEPT !.busy = 2] \in RowType /\ [row[k] EXCEPT !.busy = 2].status = row[k].status
      BY <1>2 DEF RowType
    <3>3. row'[k] = [row[k] EXCEPT !.busy = 2]
      BY <1>2, <3>1
    <3>4. DOMAIN row' = DOMAIN row /\ \A j \in DOMAIN row : j # k => row'[j] = row[j]
      BY <1>2, <3>1
    <3>5. row' \in [DOMAIN row -> RowType]
      BY <1>2, <3>1, <3>2
    <3> QED BY <2>1, <3>2, <3>3, <3>4, <3>5
  <2>2. CASE ~(row[k].busy # 0 /\ row[k].status = "NULL")
    BY <1>2, <2>2 DEF UpdateBuildStep, Leveled
  <2> QED BY <2>1, <2>2
<1>4. row' \in [DOMAIN row' -> RowType]
  BY <1>3, Zenon
<1>5. Typed' /\ NotYet'
  BY <1>1, <1>3, <1>4 DEF IInv, Typed, NotYet, procVars
<1>6. inst' = inst
  BY <1>1 DEF procVars
<1> QED BY <1>1, <1>3, <1>5, <1>6, QuietInv
(* A build that no transaction has written ends without a row. *)
LEMMA EndsAloneInv ==
    ASSUME IInv, NEW b \in Builds, NEW status \in {"Aborted", "Cancelled"},
           \A y \in Workers : b \notin work[y].upd,
           build' = build \/ build' = [build EXCEPT ![b] = status],
           UNCHANGED <<procVars, row, cached, work, built>>,
           finished' \in [Procs -> SUBSET Builds], events' \in 0..MaxEvents
    PROVE  IInv'
<1>1. /\ build' \in [Builds -> Statuses \cup {"open"}]
      /\ build'[b] \in {build[b], status}
      /\ \A c \in Builds : c # b => build'[c] = build[c]
  BY DEF IInv, Typed, Statuses
<1>2. Typed'
  BY <1>1 DEF IInv, Typed, procVars
<1>3. NrsBounded' /\ RowsOwned' /\ UpdatesApart' /\ NotYet' /\ RowsUnique'
  BY DEF IInv, NrsBounded, RowsOwned, UpdatesApart, NotYet, RowsUnique, KeyOf, HasRow, procVars
<1>4. \A x \in Workers : WorkTrue(x)'
  <2> SUFFICES ASSUME NEW x \in Workers
               PROVE  WorkTrue(x)'
    OBVIOUS
  <2>1. WorkTrue(x) /\ b \notin work[x].upd /\ work[x].upd \in SUBSET Builds
    BY DEF IInv, Typed, WorkType
  <2>2. \A c \in work[x].upd : build'[c] = build[c]
    BY <1>1, <2>1
  <2>3. TxTrue(x) => TxTrue(x)'
    BY <2>2 DEF TxTrue, JobTx, Explained, Outcome, procVars
  <2> QED BY <2>1, <2>3 DEF WorkTrue
<1>5. FinishedHasRow'
  BY <1>1 DEF IInv, FinishedHasRow, Outcome
<1> QED BY <1>2, <1>3, <1>4, <1>5 DEF IInv

LEMMA AbortBuildInv ==
    ASSUME IInv, NEW p \in Procs, NEW b \in Monitored, AbortBuild(p, b)
    PROVE  IInv'
<1>1. b \in Builds
  BY RowsAssumption
<1>2. finished' \in [Procs -> SUBSET Builds]
  BY <1>1 DEF AbortBuild, IInv, Typed
<1>3. events' \in 0..MaxEvents
  BY DEF AbortBuild, IInv, Typed
<1>4. build' = build \/ build' = [build EXCEPT ![b] = "Aborted"]
  BY DEF AbortBuild
<1> QED BY <1>1, <1>2, <1>3, <1>4, EndsAloneInv DEF AbortBuild

LEMMA CancelBuildInv ==
    ASSUME IInv, NEW b \in Builds, CancelBuild(b)
    PROVE  IInv'
<1>1. events' \in 0..MaxEvents
  BY EventTyped DEF CancelBuild, IInv
<1>2. finished' \in [Procs -> SUBSET Builds]
  BY DEF CancelBuild, IInv, Typed
<1> QED BY <1>1, <1>2, EndsAloneInv DEF CancelBuild

-----------------------------------------------------------------------------
(* finish_build_step.                                                      *)

(* The row of a job ends; no other worker has it. *)
LEMMA FinishedRows ==
    ASSUME IInv, NEW x \in Workers, x[2] \in Steps, work[x].pc = "finish",
           row' = IF work[x].nr # 0 /\ KeyOf(x) \in DOMAIN row
                  THEN [row EXCEPT ![KeyOf(x)] = FinishedRow(work[x].status)] ELSE row
    PROVE  /\ DOMAIN row' = DOMAIN row /\ row' \in [DOMAIN row' -> RowType]
           /\ work[x].nr # 0 => /\ KeyOf(x) \in DOMAIN row
                                /\ row'[KeyOf(x)] = FinishedRow(work[x].status)
           /\ \A k \in DOMAIN row : (work[x].nr = 0 \/ k # KeyOf(x)) => row'[k] = row[k]
           /\ \A b : \A status \in {"Success", "Failed", "Unsupported"} :
                 Outcome(b, status) => Outcome(b, status)'
           /\ \A status \in {"Success", "Failed"} :
                 work[x].status = status => Outcome(BuildOf[x[2]], status)'
<1>1. work[x] \in WorkType /\ WorkTrue(x)
  BY WorkerFacts
<1>2. FinishedRow(work[x].status) \in RowType
  <2>1. work[x].status \in Statuses
    BY <1>1 DEF WorkTrue, AtOnce, Statuses, Failures
  <2> QED BY <2>1 DEF FinishedRow, RowType
<1>3. row \in [DOMAIN row -> RowType]
  BY DEF IInv, Typed
<1>4. work[x].nr # 0 => /\ KeyOf(x) \in DOMAIN row
                        /\ row[KeyOf(x)].status \in {"NULL", "Aborted"}
  BY DEF IInv, RowsOwned, HasRow
<1>5. /\ DOMAIN row' = DOMAIN row /\ row' \in [DOMAIN row -> RowType]
      /\ work[x].nr # 0 => row'[KeyOf(x)] = FinishedRow(work[x].status)
      /\ \A k \in DOMAIN row : (work[x].nr = 0 \/ k # KeyOf(x)) => row'[k] = row[k]
  <2>1. CASE work[x].nr = 0
    BY <1>3, <2>1
  <2>2. CASE work[x].nr # 0
    <3>1. row' = [row EXCEPT ![KeyOf(x)] = FinishedRow(work[x].status)]
      BY <1>4, <2>2
    <3> QED BY <1>2, <1>3, <1>4, <2>2, <3>1
  <2> QED BY <2>1, <2>2
<1>6. row' \in [DOMAIN row' -> RowType]
  BY <1>5, Zenon
<1>7. \A b : \A status \in {"Success", "Failed", "Unsupported"} :
          Outcome(b, status) => Outcome(b, status)'
  <2>1. \A k \in DOMAIN row :
            /\ k \in DOMAIN row'
            /\ row[k].busy = 0 /\ row[k].status \notin {"NULL", "Aborted"} => row'[k] = row[k]
    BY <1>4, <1>5
  <2> QED BY <2>1, OutcomeStays
<1>8. \A status \in {"Success", "Failed"} :
          work[x].status = status => Outcome(BuildOf[x[2]], status)'
  <2> SUFFICES ASSUME NEW status \in {"Success", "Failed"}, work[x].status = status
               PROVE  Outcome(BuildOf[x[2]], status)'
    OBVIOUS
  <2>1. work[x].nr # 0
    BY <1>1 DEF WorkTrue, AtOnce
  <2>2. KeyOf(x) \in DOMAIN row' /\ row'[KeyOf(x)] = FinishedRow(status)
    BY <1>4, <1>5, <2>1
  <2>3. KeyOf(x)[1] = BuildOf[x[2]] /\ FinishedRow(status) = NewRow(status)
    BY DEF KeyOf, FinishedRow, NewRow
  <2> QED BY <2>2, <2>3 DEF Outcome, NewRow
<1> QED BY <1>4, <1>5, <1>6, <1>7, <1>8

(* The worker then has no row, and what it does next explains itself. *)
LEMMA FinishStepInv ==
    ASSUME IInv, NEW x \in Workers, x[2] \in Steps, work[x].pc = "finish",
           row' = IF work[x].nr # 0 /\ KeyOf(x) \in DOMAIN row
                  THEN [row EXCEPT ![KeyOf(x)] = FinishedRow(work[x].status)] ELSE row,
           UNCHANGED <<procVars, build, cached, finished, built, events>>,
           NEW w \in WorkType, Set(x, w), w.pc # "finish", w.pc # "running", w.ins = {}, w.upd = {},
           WorkTrue(x)'
    PROVE  IInv'
<1>1. /\ DOMAIN row' = DOMAIN row /\ row' \in [DOMAIN row' -> RowType]
      /\ work[x].nr # 0 => KeyOf(x) \in DOMAIN row
      /\ \A k \in DOMAIN row : (work[x].nr = 0 \/ k # KeyOf(x)) => row'[k] = row[k]
      /\ \A b : \A status \in {"Success", "Failed", "Unsupported"} :
            Outcome(b, status) => Outcome(b, status)'
  BY FinishedRows
<1>2. /\ work' \in [Workers -> WorkType]
      /\ work'[x] = w
      /\ \A y \in Workers : y # x => work'[y] = work[y]
  BY SetOnly DEF IInv
<1>3. Typed'
  BY <1>1, <1>2 DEF IInv, Typed, procVars
<1>4. NrsBounded'
  <2>1. Bounded({})
    BY DEF Bounded
  <2> QED BY <1>1, <1>2, <2>1 DEF IInv, NrsBounded
<1>5. \A y \in Workers : WorkTrue(y)'
  <2> SUFFICES ASSUME NEW y \in Workers, y # x
               PROVE  WorkTrue(y)'
    OBVIOUS
  <2>1. WorkTrue(y) /\ work'[y] = work[y]
    BY <1>2 DEF IInv
  <2>2. TxTrue(y) => TxTrue(y)'
    <3> SUFFICES ASSUME TxTrue(y)
                 PROVE  TxTrue(y)'
      OBVIOUS
    <3>1. work[y].status = "Busy" => JobTx(y)'
      BY <2>1 DEF JobTx, TxTrue, procVars
    <3>2. y[2] \in Steps /\ work[y].status \in {"Failed", "Unsupported"} =>
            \A b \in work[y].mark \cup work[y].upd : Explained(y, b)'
      BY <1>1, <2>1 DEF TxTrue, Explained
    <3>3. y[2] \in Steps /\ work[y].status = "Success" => Outcome(BuildOf[y[2]], "Success")'
      BY <1>1 DEF TxTrue
    <3> QED BY <2>1, <3>1, <3>2, <3>3 DEF TxTrue
  <2> QED BY <2>1, <2>2 DEF WorkTrue
<1>6. \A y \in Workers : HasRow(y)' => y # x /\ HasRow(y) /\ work'[y] = work[y]
  BY <1>2 DEF HasRow
<1>7. RowsOwned'
  <2> SUFFICES ASSUME NEW y \in Workers, HasRow(y)'
               PROVE  KeyOf(y)' \in DOMAIN row' /\ row'[KeyOf(y)'].status \in {"NULL", "Aborted"}
    BY DEF RowsOwned
  <2>1. y # x /\ HasRow(y) /\ KeyOf(y)' = KeyOf(y)
    BY <1>6 DEF KeyOf
  <2>2. KeyOf(y) \in DOMAIN row /\ row[KeyOf(y)].status \in {"NULL", "Aborted"}
    BY <2>1 DEF IInv, RowsOwned
  <2>3. work[x].nr # 0 => HasRow(x)
    BY DEF HasRow
  <2>4. work[x].nr = 0 \/ KeyOf(y) # KeyOf(x)
    BY <2>1, <2>3 DEF IInv, RowsUnique, KeyOf
  <2> QED BY <1>1, <2>1, <2>2, <2>4
<1>8. UpdatesApart'
  BY <1>2 DEF IInv, UpdatesApart
<1>9. NotYet'
  BY DEF IInv, NotYet, procVars
<1>10. RowsUnique'
  <2>1. \A y, z \in Workers : HasRow(y)' /\ HasRow(z)' /\ y # z =>
            <<BuildOf[y[2]], work'[y].nr>> # <<BuildOf[z[2]], work'[z].nr>>
    BY <1>6 DEF IInv, RowsUnique
  <2>2. \A y, z \in Workers : y # z => work'[y].ins \cap work'[z].ins = {}
    BY <1>2 DEF IInv, RowsUnique
  <2>3. \A y \in Workers : work'[y].ins \cap DOMAIN row' = {}
    BY <1>1, <1>2 DEF IInv, RowsUnique
  <2> QED BY <2>1, <2>2, <2>3 DEF RowsUnique
<1>11. FinishedHasRow'
  BY <1>1 DEF IInv, FinishedHasRow
<1> QED BY <1>3, <1>4, <1>5, <1>7, <1>8, <1>9, <1>10, <1>11 DEF IInv
LEMMA FinishBuildStepInv ==
    ASSUME IInv, NEW p \in Procs, NEW s \in Steps, FinishBuildStep(p, s)
    PROVE  IInv'
<1> DEFINE x == <<p, s>>
           open == Dependents[s] \ finished[p]
<1>1. x \in Workers /\ x[1] = p /\ x[2] = s
  BY WorkersPair DEF Tasks
<1>2. work[x].pc = "finish" /\ UNCHANGED <<procVars, build, cached, finished, built, events>>
  BY DEF FinishBuildStep
<1>3. row' = IF work[x].nr # 0 /\ KeyOf(x) \in DOMAIN row
             THEN [row EXCEPT ![KeyOf(x)] = FinishedRow(work[x].status)] ELSE row
  BY <1>1 DEF FinishBuildStep, KeyOf
<1>4. \/ /\ work[x].tries + 1 < MaxRetries
         /\ Set(x, [Again(x) EXCEPT !.tries = work[x].tries + 1])
      \/ /\ work[x].status = "Success"
         /\ Set(x, Begin(work[x], "Success", {}, Direct[s] \ finished[p]))
      \/ /\ work[x].status \in Failures
         /\ Set(x, Begin(work[x], work[x].status, FailedRows(x), open))
  BY DEF FinishBuildStep
<1>5. open \in SUBSET Builds /\ Direct[s] \ finished[p] \in SUBSET Builds
  BY RowsAssumption
<1>6. FailedRows(x) = {b \in open : /\ ~(work[x].status = "CachedFailure" /\ b \in Direct[s])
                                    /\ ~(work[x].status = "Failed" /\ b = BuildOf[s])}
  BY <1>1 DEF FailedRows
<1>7. FailedRows(x) \in SUBSET Builds
  BY <1>5, <1>6
<1> HIDE DEF x, open
<1>8. work[x] \in WorkType /\ WorkTrue(x) /\ Typed
  BY <1>1, WorkerFacts
<1>9. s \notin Monitored
  BY RowsAssumption
<1>10. \A status \in {"Success", "Failed"} :
           work[x].status = status => Outcome(BuildOf[s], status)'
  BY <1>1, <1>2, <1>3, FinishedRows
<1>11. ASSUME work[x].tries + 1 < MaxRetries, Set(x, [Again(x) EXCEPT !.tries = work[x].tries + 1])
       PROVE  IInv'
  <2> DEFINE w == [Again(x) EXCEPT !.tries = work[x].tries + 1]
  <2>1. work[x].tries + 1 \in Nat
    BY <1>8 DEF WorkType
  <2>2. w \in WorkType /\ w.pc = "idle" /\ w.nr = 0 /\ w.tries = work[x].tries + 1
        /\ w.ins = {} /\ w.upd = {}
    BY <1>1, <1>8, <2>1, AgainTyped DEF WorkType
  <2> HIDE DEF w
  <2>3. Set(x, w)
    BY <1>11 DEF w
  <2>4. work'[x] = w
    BY <1>1, <2>2, <2>3, SetOnly DEF IInv
  <2>5. WorkTrue(x)'
    BY <1>11, <2>2, <2>4 DEF WorkTrue
  <2> QED BY <1>1, <1>2, <1>3, <2>2, <2>3, <2>5, FinishStepInv
<1>12. ASSUME NEW status \in {"Success"} \cup Failures, status = work[x].status,
              NEW want \in SUBSET Builds, NEW mark \in SUBSET Builds,
              Set(x, Begin(work[x], status, want, mark)),
              status \in {"Failed", "Unsupported"} =>
                  \A b \in mark : Outcome(b, status)' \/ b \in want
       PROVE  IInv'
  <2> DEFINE w == Begin(work[x], status, want, mark)
  <2>1. status \in Statuses \cup {"Busy"} /\ status # "Busy"
    BY DEF Statuses, Failures
  <2>2. /\ w \in WorkType
        /\ w.pc = "tx" /\ w.status = status /\ w.want = want /\ w.at = NoKey /\ w.mark = mark
        /\ w.checked = {} /\ w.ins = {} /\ w.upd = {} /\ w.tries = work[x].tries
    BY <1>8, <2>1 DEF Begin, WorkType, Pcs, NoKey
  <2> HIDE DEF w
  <2>3. Set(x, w)
    BY <1>12 DEF w
  <2>4. work'[x] = w
    BY <1>1, <2>2, <2>3, SetOnly DEF IInv
  <2>5. status = "Success" => Outcome(BuildOf[s], "Success")'
    BY <1>10, <1>12
  <2>6. status \in {"Failed", "Unsupported"} => \A b \in mark : Explained(x, b)'
    BY <1>12, <2>2, <2>4 DEF Explained
  <2>7. TxTrue(x)'
    BY <1>1, <1>9, <1>12, <2>1, <2>2, <2>4, <2>5, <2>6 DEF TxTrue
  <2>8. WorkTrue(x)'
    BY <1>8, <2>2, <2>4, <2>7 DEF WorkTrue
  <2> QED BY <1>1, <1>2, <1>3, <2>2, <2>3, <2>8, FinishStepInv
<1>13. ASSUME work[x].status = "Success",
              Set(x, Begin(work[x], "Success", {}, Direct[s] \ finished[p]))
       PROVE  IInv'
  <2>1. {} \in SUBSET Builds
    OBVIOUS
  <2> QED BY <1>5, <1>12, <1>13, <2>1
<1>14. ASSUME work[x].status \in Failures,
              Set(x, Begin(work[x], work[x].status, FailedRows(x), open))
       PROVE  IInv'
  <2>1. PICK status \in Failures : status = work[x].status
    BY <1>14
  <2>2. status \in {"Failed", "Unsupported"} =>
            \A b \in open : Outcome(b, status)' \/ b \in FailedRows(x)
    <3> SUFFICES ASSUME status \in {"Failed", "Unsupported"}, NEW b \in open
                 PROVE  Outcome(b, status)' \/ b \in FailedRows(x)
      OBVIOUS
    <3>1. CASE status = "Failed" /\ b = BuildOf[s]
      BY <1>10, <2>1, <3>1
    <3>2. CASE ~(status = "Failed" /\ b = BuildOf[s])
      BY <1>6, <2>1, <3>2
    <3> QED BY <3>1, <3>2
  <2>3. Set(x, Begin(work[x], status, FailedRows(x), open))
    BY <1>14, <2>1
  <2> QED BY <1>5, <1>7, <1>12, <2>1, <2>2, <2>3
<1> QED BY <1>4, <1>11, <1>13, <1>14
-----------------------------------------------------------------------------
(* Commit.                                                                 *)

LEMMA NewRowTyped ==
    ASSUME NEW status \in Statuses \cup {"Busy"}
    PROVE  NewRow(status) \in RowType /\ (status = "Busy" => NewRow(status).status = "NULL")
<1>1. CASE status = "Busy"
  BY <1>1 DEF NewRow, RowType, Statuses
<1>2. CASE status # "Busy"
  BY <1>2 DEF NewRow, RowType
<1> QED BY <1>1, <1>2

LEMMA CommitRows ==
    ASSUME IInv, NEW x \in Workers, Commit(x)
    PROVE  /\ DOMAIN row' = DOMAIN row \cup work[x].ins /\ row' \in [DOMAIN row' -> RowType]
           /\ DOMAIN row' \in SUBSET Keys
           /\ \A k \in DOMAIN row : row'[k] = row[k]
           /\ \A k \in work[x].ins : row'[k] = NewRow(work[x].status)
           /\ \A b : \A status \in {"Success", "Failed", "Unsupported"} :
                 Outcome(b, status) => Outcome(b, status)'
<1>1. work[x] \in WorkType /\ work[x].ins \cap DOMAIN row = {}
  BY WorkerFacts DEF IInv, RowsUnique
<1>2. NewRow(work[x].status) \in RowType
  BY <1>1, NewRowTyped DEF WorkType
<1>3. row' = [k \in DOMAIN row \cup work[x].ins |->
                 IF k \in work[x].ins THEN NewRow(work[x].status) ELSE row[k]]
  BY DEF Commit
<1>4. /\ DOMAIN row' = DOMAIN row \cup work[x].ins
      /\ \A k \in DOMAIN row : row'[k] = row[k]
      /\ \A k \in work[x].ins : row'[k] = NewRow(work[x].status)
  BY <1>1, <1>3
<1>5. row' \in [DOMAIN row \cup work[x].ins -> RowType]
  <2>1. \A k \in DOMAIN row : row[k] \in RowType
    BY DEF IInv, Typed
  <2> QED BY <1>2, <1>3, <2>1
<1>6. row' \in [DOMAIN row' -> RowType]
  BY <1>4, <1>5, Zenon
<1>7. DOMAIN row' \in SUBSET Keys
  BY <1>1, <1>4 DEF IInv, Typed, WorkType
<1>8. \A b : \A status \in {"Success", "Failed", "Unsupported"} :
          Outcome(b, status) => Outcome(b, status)'
  BY <1>4, OutcomeStays
<1> QED BY <1>4, <1>6, <1>7, <1>8

(* What the worker is after its commit. *)
LEMMA CommitWorker ==
    ASSUME IInv, NEW x \in Workers, Commit(x)
    PROVE  /\ work' \in [Workers -> WorkType]
           /\ \A y \in Workers : y # x => work'[y] = work[y]
           /\ work'[x].pc \in {"idle", "running", "over"} /\ work'[x].tries = work[x].tries
           /\ work'[x].ins = {} /\ work'[x].upd = {}
           /\ work'[x].pc # "running" => work'[x].nr = 0
           /\ work'[x].pc = "running" => /\ x[2] \in Steps /\ work'[x].nr # 0
                                         /\ work[x].status = "Busy"
                                         /\ <<BuildOf[x[2]], work'[x].nr>> \in work[x].ins
           /\ work[x].left \subseteq work'[x].left
           /\ work[x].status = "Busy" =>
                 \/ work'[x].pc = "running" /\ work[x].ins = {<<BuildOf[x[2]], work'[x].nr>>}
                 \/ work[x].ins \subseteq work'[x].left
           /\ events' \in 0..MaxEvents
<1>1. work[x] \in WorkType /\ WorkTrue(x) /\ Typed /\ work[x].pc = "tx" /\ TxTrue(x)
  BY WorkerFacts DEF Commit, InTx, WorkTrue
<1>2. events' \in 0..MaxEvents
  BY <1>1, EventTyped DEF Commit, Typed
<1> DEFINE Goal(v) ==
       /\ v \in WorkType /\ Set(x, v)
       /\ v.pc \in {"idle", "running", "over"} /\ v.tries = work[x].tries
       /\ v.ins = {} /\ v.upd = {}
       /\ v.pc # "running" => v.nr = 0
       /\ v.pc = "running" => /\ x[2] \in Steps /\ v.nr # 0
                              /\ work[x].status = "Busy"
                              /\ <<BuildOf[x[2]], v.nr>> \in work[x].ins
       /\ work[x].left \subseteq v.left
       /\ work[x].status = "Busy" =>
             \/ v.pc = "running" /\ work[x].ins = {<<BuildOf[x[2]], v.nr>>}
             \/ work[x].ins \subseteq v.left
<1>3. CASE work[x].status = "Busy"
  <2>1. PICK n \in Nat \ {0} : work[x].ins = {<<BuildOf[x[2]], n>>}
    BY <1>1, <1>3 DEF TxTrue, JobTx, Commit
  <2>2. x[2] \in Steps
    BY <1>1, <1>3 DEF TxTrue, JobTx
  <2>3. (CHOOSE m \in {k[2] : k \in work[x].ins} : TRUE) = n
    <3>1. {k[2] : k \in work[x].ins} = {n}
      BY <2>1
    <3> QED BY <3>1
  <2>4. \/ Set(x, [Again(x) EXCEPT !.pc = "running",
                          !.nr = CHOOSE m \in {k[2] : k \in work[x].ins} : TRUE])
        \/ Set(x, [Again(x) EXCEPT !.left = @ \cup work[x].ins])
    BY <1>3 DEF Commit
  <2>5. ASSUME Set(x, [Again(x) EXCEPT !.pc = "running",
                            !.nr = CHOOSE m \in {k[2] : k \in work[x].ins} : TRUE])
        PROVE  \E v : Goal(v)
    <3> DEFINE v == [Again(x) EXCEPT !.pc = "running", !.nr = n]
    <3>1. /\ v \in WorkType /\ v.pc = "running" /\ v.nr = n /\ v.tries = work[x].tries
          /\ v.ins = {} /\ v.upd = {} /\ v.left = work[x].left
      BY <1>1, AgainTyped DEF WorkType, Pcs
    <3> HIDE DEF v
    <3>2. Set(x, v)
      BY <2>3, <2>5 DEF v
    <3> QED BY <1>3, <2>1, <2>2, <3>1, <3>2
  <2>6. ASSUME Set(x, [Again(x) EXCEPT !.left = @ \cup work[x].ins])
        PROVE  \E v : Goal(v)
    <3> DEFINE v == [Again(x) EXCEPT !.left = @ \cup work[x].ins]
    <3>1. /\ v \in WorkType /\ v.pc = "idle" /\ v.nr = 0 /\ v.tries = work[x].tries
          /\ v.ins = {} /\ v.upd = {} /\ v.left = work[x].left \cup work[x].ins
      BY <1>1, AgainTyped DEF WorkType
    <3> HIDE DEF v
    <3>2. Set(x, v)
      BY <2>6 DEF v
    <3> QED BY <1>3, <3>1, <3>2
  <2> HIDE DEF Goal
  <2>7. PICK v : Goal(v)
    BY <2>4, <2>5, <2>6
  <2> QED BY <1>1, <1>2, <2>7, SetOnly DEF Goal
<1>4. CASE work[x].status # "Busy"
  <2> DEFINE v == [Again(x) EXCEPT !.pc = "over"]
  <2>1. /\ v \in WorkType /\ v.pc = "over" /\ v.nr = 0 /\ v.tries = work[x].tries
        /\ v.ins = {} /\ v.upd = {} /\ v.left = work[x].left
    BY <1>1, AgainTyped DEF WorkType, Pcs
  <2>2. Set(x, v)
    BY <1>4 DEF Commit
  <2> HIDE DEF v
  <2> QED BY <1>1, <1>2, <1>4, <2>1, <2>2, SetOnly
<1> QED BY <1>3, <1>4
(* What the builds are after it. *)
LEMMA CommitBuilds ==
    ASSUME IInv, NEW x \in Workers, Commit(x)
    PROVE  /\ build' \in [Builds -> Statuses \cup {"open"}] /\ cached' \in SUBSET Builds
           /\ finished' \in [Procs -> SUBSET Builds]
           /\ \A b \in Builds : b \notin work[x].upd =>
                 build'[b] = build[b] /\ (b \in cached' <=> b \in cached)
           /\ \A b \in work[x].upd :
                 /\ b \in Builds
                 /\ work[x].status \in {"Success"} \cup Failures
                 /\ work[x].status = "Success" => build'[b] = "Success"
                 /\ work[x].status \in Failures => build[b] = "open"
           /\ \A b \in work[x].upd : b \notin cached' =>
                 /\ x[2] \in Steps
                 /\ \/ work[x].status = "Success" /\ build'[b] = "Success" /\ b = BuildOf[x[2]]
                    \/ work[x].status = "Failed" /\ build'[b] \in {"Failed", "DepFailed"}
                    \/ work[x].status = "Unsupported" /\ build'[b] = "Unsupported"
<1>1. work[x] \in WorkType /\ WorkTrue(x) /\ Typed /\ TxTrue(x) /\ x[1] \in Procs /\ x[2] \in Tasks
  BY WorkerFacts DEF Commit, InTx, WorkTrue
<1>2. /\ build' = [b \in Builds |-> IF b \in work[x].upd THEN BuildStatus(x, b) ELSE build[b]]
      /\ cached' = {b \in Builds : IF b \in work[x].upd THEN IsCached(x, b) ELSE b \in cached}
  BY DEF Commit
<1>3. \A b \in work[x].upd :
          /\ b \in Builds
          /\ work[x].status \in {"Success"} \cup Failures
          /\ work[x].status \in Failures => build[b] = "open"
  BY <1>1 DEF TxTrue, JobTx, WorkType
<1>4. x[2] \in Steps => x[2] \notin Monitored
  BY RowsAssumption
<1>5. \A b \in work[x].upd :
          /\ BuildStatus(x, b) \in Statuses
          /\ work[x].status = "Success" => BuildStatus(x, b) = "Success"
          /\ x[2] \in Steps /\ work[x].status = "Failed" =>
                BuildStatus(x, b) \in {"Failed", "DepFailed"}
          /\ x[2] \in Steps /\ work[x].status = "Unsupported" => BuildStatus(x, b) = "Unsupported"
  <2> SUFFICES ASSUME NEW b \in work[x].upd
               PROVE  /\ BuildStatus(x, b) \in Statuses
                      /\ work[x].status = "Success" => BuildStatus(x, b) = "Success"
                      /\ x[2] \in Steps /\ work[x].status = "Failed" =>
                            BuildStatus(x, b) \in {"Failed", "DepFailed"}
                      /\ x[2] \in Steps /\ work[x].status = "Unsupported" =>
                            BuildStatus(x, b) = "Unsupported"
    OBVIOUS
  <2>1. CASE x[2] \in Monitored /\ work[x].status = "CachedFailure"
    BY <1>4, <2>1 DEF BuildStatus, Statuses, Failures
  <2>2. CASE x[2] \in Steps /\ work[x].status = "Failed" /\ b \notin Direct[x[2]]
    BY <1>4, <2>2 DEF BuildStatus, Statuses
  <2>3. CASE /\ ~(x[2] \in Monitored /\ work[x].status = "CachedFailure")
             /\ ~(x[2] \in Steps /\ work[x].status = "Failed" /\ b \notin Direct[x[2]])
    <3>1. BuildStatus(x, b) = work[x].status
      BY <2>3 DEF BuildStatus
    <3> QED BY <1>3, <3>1 DEF Statuses
  <2> QED BY <2>1, <2>2, <2>3
<1>6. build' \in [Builds -> Statuses \cup {"open"}]
  BY <1>1, <1>2, <1>5 DEF Typed
<1>7. finished' \in [Procs -> SUBSET Builds]
  <2>1. work[x].done \in SUBSET Builds /\ finished \in [Procs -> SUBSET Builds]
    BY <1>1 DEF WorkType, Typed
  <2>2. finished' = finished \/ finished' = [finished EXCEPT ![x[1]] = @ \cup work[x].done]
    BY DEF Commit
  <2> QED BY <1>1, <2>1, <2>2
<1>8. \A b \in work[x].upd : b \notin cached' =>
          /\ x[2] \in Steps /\ work[x].status # "CachedFailure"
          /\ work[x].status = "Success" => b = BuildOf[x[2]]
  BY <1>1, <1>2, <1>3 DEF IsCached, Tasks
<1>9. \A b \in work[x].upd : build'[b] = BuildStatus(x, b)
  BY <1>2, <1>3
<1>10. \A b \in work[x].upd : b \notin cached' =>
          /\ x[2] \in Steps
          /\ \/ work[x].status = "Success" /\ build'[b] = "Success" /\ b = BuildOf[x[2]]
             \/ work[x].status = "Failed" /\ build'[b] \in {"Failed", "DepFailed"}
             \/ work[x].status = "Unsupported" /\ build'[b] = "Unsupported"
  BY <1>3, <1>5, <1>8, <1>9 DEF Failures
<1>11. \A b \in Builds : b \notin work[x].upd =>
          build'[b] = build[b] /\ (b \in cached' <=> b \in cached)
  BY <1>2
<1>12. cached' \in SUBSET Builds
  BY <1>2
<1> QED BY <1>3, <1>5, <1>6, <1>7, <1>9, <1>10, <1>11, <1>12

LEMMA CommitInv ==
    ASSUME IInv, NEW x \in Workers, Commit(x)
    PROVE  IInv'
<1>1. work[x] \in WorkType /\ WorkTrue(x) /\ TxTrue(x) /\ work[x].want = {}
  BY WorkerFacts DEF Commit, InTx, WorkTrue
<1>2. UNCHANGED <<procVars, built>>
  BY DEF Commit
<1>3. /\ DOMAIN row' = DOMAIN row \cup work[x].ins
      /\ \A k \in DOMAIN row : row'[k] = row[k]
      /\ \A k \in work[x].ins : row'[k] = NewRow(work[x].status)
      /\ \A b : \A status \in {"Success", "Failed", "Unsupported"} :
            Outcome(b, status) => Outcome(b, status)'
  BY CommitRows
<1>4. /\ \A y \in Workers : y # x => work'[y] = work[y]
      /\ work'[x].pc \in {"idle", "running", "over"} /\ work'[x].tries = work[x].tries
      /\ work'[x].ins = {} /\ work'[x].upd = {}
      /\ work'[x].pc # "running" => work'[x].nr = 0
      /\ work'[x].pc = "running" => /\ x[2] \in Steps /\ work'[x].nr # 0
                                    /\ work[x].status = "Busy"
                                    /\ <<BuildOf[x[2]], work'[x].nr>> \in work[x].ins
  BY CommitWorker
<1>5. Typed'
  BY <1>2, CommitRows, CommitWorker, CommitBuilds DEF IInv, Typed, procVars
<1>6. NrsBounded'
  <2>1. work[x].ins \in SUBSET Keys /\ DOMAIN row \in SUBSET Keys
    BY <1>1 DEF WorkType, IInv, Typed
  <2>2. Bounded(work[x].ins) /\ Bounded(DOMAIN row) /\ Bounded({})
    BY DEF IInv, NrsBounded, Bounded
  <2>3. Bounded(DOMAIN row \cup work[x].ins)
    BY <2>1, <2>2, BoundedUnion
  <2> QED BY <1>3, <1>4, <2>2, <2>3 DEF IInv, NrsBounded
<1>7. \A y \in Workers : WorkTrue(y)'
  <2>1. WorkTrue(x)'
    BY <1>1, <1>4 DEF WorkTrue
  <2>2. ASSUME NEW y \in Workers, y # x
        PROVE  WorkTrue(y)'
    <3>1. WorkTrue(y) /\ work'[y] = work[y] /\ work[y].upd \in SUBSET Builds
      BY <1>4, <2>2 DEF IInv, Typed, WorkType
    <3>2. \A b \in work[y].upd : build'[b] = build[b]
      <4>1. work[x].upd \cap work[y].upd = {}
        BY <2>2 DEF IInv, UpdatesApart
      <4> QED BY <3>1, <4>1, CommitBuilds
    <3>3. TxTrue(y) => TxTrue(y)'
      <4> SUFFICES ASSUME TxTrue(y)
                   PROVE  TxTrue(y)'
        OBVIOUS
      <4>1. work[y].status = "Busy" => JobTx(y)'
        BY <1>2, <3>1 DEF JobTx, TxTrue, procVars
      <4>2. y[2] \in Steps /\ work[y].status \in {"Failed", "Unsupported"} =>
              \A b \in work[y].mark \cup work[y].upd : Explained(y, b)'
        BY <1>3, <3>1 DEF TxTrue, Explained
      <4>3. y[2] \in Steps /\ work[y].status = "Success" => Outcome(BuildOf[y[2]], "Success")'
        BY <1>3 DEF TxTrue
      <4> QED BY <3>1, <3>2, <4>1, <4>2, <4>3 DEF TxTrue
    <3> QED BY <3>1, <3>3 DEF WorkTrue
  <2> QED BY <2>1, <2>2
<1>8. \A y \in Workers : y # x /\ HasRow(y)' => HasRow(y) /\ work'[y] = work[y]
  BY <1>4 DEF HasRow
<1>9. HasRow(x)' => /\ KeyOf(x)' \in work[x].ins /\ work[x].status = "Busy"
  BY <1>4 DEF HasRow, KeyOf
<1>10. RowsOwned'
  <2>1. ASSUME HasRow(x)'
        PROVE  KeyOf(x)' \in DOMAIN row' /\ row'[KeyOf(x)'].status \in {"NULL", "Aborted"}
    <3>1. row'[KeyOf(x)'] = NewRow("Busy")
      BY <1>3, <1>9, <2>1
    <3>2. NewRow("Busy").status = "NULL"
      BY NewRowTyped
    <3> QED BY <1>3, <1>9, <2>1, <3>1, <3>2
  <2>2. ASSUME NEW y \in Workers, y # x, HasRow(y)'
        PROVE  KeyOf(y)' \in DOMAIN row' /\ row'[KeyOf(y)'].status \in {"NULL", "Aborted"}
    <3>1. HasRow(y) /\ KeyOf(y)' = KeyOf(y)
      BY <1>8, <2>2 DEF KeyOf
    <3> QED BY <1>3, <3>1 DEF IInv, RowsOwned
  <2> QED BY <2>1, <2>2 DEF RowsOwned
<1>11. UpdatesApart'
  BY <1>4 DEF IInv, UpdatesApart
<1>12. NotYet'
  BY <1>2 DEF IInv, NotYet, procVars
<1>13. RowsUnique'
  <2>1. \A y \in Workers : y # x /\ HasRow(y)' => KeyOf(y)' \in DOMAIN row
    <3> SUFFICES ASSUME NEW y \in Workers, y # x, HasRow(y)'
                 PROVE  KeyOf(y)' \in DOMAIN row
      OBVIOUS
    <3>1. HasRow(y) /\ KeyOf(y)' = KeyOf(y)
      BY <1>8 DEF KeyOf
    <3> QED BY <3>1 DEF IInv, RowsOwned
  <2>2. work[x].ins \cap DOMAIN row = {}
    BY DEF IInv, RowsUnique
  <2>3. \A y \in Workers : y # x /\ HasRow(x)' /\ HasRow(y)' => KeyOf(x)' # KeyOf(y)'
    BY <1>9, <2>1, <2>2
  <2>4. \A y, z \in Workers : y # x /\ z # x /\ y # z /\ HasRow(y)' /\ HasRow(z)' =>
            KeyOf(y)' # KeyOf(z)'
    BY <1>8 DEF IInv, RowsUnique, KeyOf
  <2>5. \A y, z \in Workers : HasRow(y)' /\ HasRow(z)' /\ y # z => KeyOf(y)' # KeyOf(z)'
    BY <2>3, <2>4
  <2>6. \A y, z \in Workers : y # z => work'[y].ins \cap work'[z].ins = {}
    BY <1>4 DEF IInv, RowsUnique
  <2>7. \A y \in Workers : work'[y].ins \cap DOMAIN row' = {}
    BY <1>3, <1>4 DEF IInv, RowsUnique
  <2> QED BY <2>5, <2>6, <2>7 DEF RowsUnique, KeyOf
<1>14. FinishedHasRow'
  <2>1. ASSUME NEW b \in Builds, b \notin work[x].upd, b \notin cached'
        PROVE  /\ build'[b] = "Success" => Outcome(b, "Success")'
               /\ build'[b] \in {"Failed", "DepFailed"} => Outcome(b, "Failed")'
               /\ build'[b] = "Unsupported" => Outcome(b, "Unsupported")'
    BY <1>3, <2>1, CommitBuilds DEF IInv, FinishedHasRow
  <2>2. ASSUME NEW b \in work[x].upd, b \notin cached'
        PROVE  /\ build'[b] = "Success" => Outcome(b, "Success")'
               /\ build'[b] \in {"Failed", "DepFailed"} => Outcome(b, "Failed")'
               /\ build'[b] = "Unsupported" => Outcome(b, "Unsupported")'
    <3>1. /\ x[2] \in Steps
          /\ \/ work[x].status = "Success" /\ build'[b] = "Success" /\ b = BuildOf[x[2]]
             \/ work[x].status = "Failed" /\ build'[b] \in {"Failed", "DepFailed"}
             \/ work[x].status = "Unsupported" /\ build'[b] = "Unsupported"
      BY <2>2, CommitBuilds
    <3>2. CASE work[x].status = "Success"
      BY <1>1, <1>3, <3>1, <3>2 DEF TxTrue
    <3>3. ASSUME NEW status \in {"Failed", "Unsupported"}, work[x].status = status
          PROVE  Outcome(b, status)'
      <4>1. Outcome(b, status) \/ \E k \in work[x].ins : k[1] = b
        BY <1>1, <3>1, <3>3 DEF TxTrue, Explained
      <4>2. ASSUME NEW k \in work[x].ins, k[1] = b
            PROVE  Outcome(b, status)'
        <5>1. k \in DOMAIN row' /\ row'[k] = NewRow(status)
          BY <1>3, <3>3, <4>2
        <5> QED BY <4>2, <5>1 DEF Outcome, NewRow
      <4> QED BY <1>3, <4>1, <4>2
    <3> QED BY <3>1, <3>2, <3>3
  <2> QED BY <2>1, <2>2 DEF FinishedHasRow
<1> QED BY <1>5, <1>6, <1>7, <1>10, <1>11, <1>12, <1>13, <1>14 DEF IInv
-----------------------------------------------------------------------------
(* The specification.                                                      *)

LEMMA InitInv == Init => IInv
<1> SUFFICES ASSUME Init
             PROVE  IInv
  OBVIOUS
<1>1. \A x \in Workers : work[x] = Idle
  BY DEF Init
<1>2. DOMAIN row = {} /\ row \in [{} -> RowType]
  BY DEF Init
<1>3. row \in [DOMAIN row -> RowType]
  BY <1>2, Zenon
<1>4. Typed
  <2>1. 0 \in 0..MaxStarts /\ 0 \in 0..MaxEvents
    BY RowsAssumption
  <2>2. work \in [Workers -> WorkType]
    BY IdleTyped DEF Init
  <2>3. inst \in [Procs -> InstType] /\ handle \in [Procs -> 0..MaxStarts] /\ path \in 0..MaxStarts
    BY <2>1 DEF Init, InstType
  <2>4. build \in [Builds -> Statuses \cup {"open"}] /\ cached \in SUBSET Builds
    BY DEF Init
  <2>5. finished \in [Procs -> SUBSET Builds] /\ built \in SUBSET Steps
    BY DEF Init
  <2>6. starts \in 0..MaxStarts /\ events \in 0..MaxEvents
    BY <2>1 DEF Init
  <2> QED BY <1>2, <1>3, <2>2, <2>3, <2>4, <2>5, <2>6 DEF Typed
<1>5. NrsBounded
  BY <1>1, <1>2, IdleTyped DEF NrsBounded, Bounded
<1>6. \A x \in Workers : WorkTrue(x) /\ ~HasRow(x)
  BY <1>1, IdleTyped DEF WorkTrue, HasRow
<1>7. RowsOwned /\ UpdatesApart /\ RowsUnique
  BY <1>1, <1>6, IdleTyped DEF RowsOwned, UpdatesApart, RowsUnique
<1>8. NotYet
  BY DEF Init, NotYet
<1>9. FinishedHasRow
  BY DEF Init, FinishedHasRow
<1> QED BY <1>4, <1>5, <1>6, <1>7, <1>8, <1>9 DEF IInv

LEMMA StepInv == IInv /\ [Next]_vars => IInv'
<1> SUFFICES ASSUME IInv, [Next]_vars
             PROVE  IInv'
  OBVIOUS
<1>1. ASSUME NEW p \in Procs,
             \/ OpenLock(p) \/ Refused(p) \/ StartLoops(p) \/ Signal(p) \/ Unlock(p)
             \/ RemoveFile(p) \/ Crash(p)
      PROVE  IInv'
  BY <1>1, OpenLockInv, RefusedInv, StartLoopsInv, SignalInv, UnlockInv, RemoveFileInv, CrashInv
<1>2. ASSUME NEW p \in Procs, NEW s \in Steps,
             RealiseDrv(p, s) \/ EndJob(p, s) \/ FinishBuildStep(p, s) \/ FailRunning(p, s)
      PROVE  IInv'
  BY <1>2, RealiseDrvInv, EndJobInv, FinishBuildStepInv, FailRunningInv
<1>3. ASSUME NEW p \in Procs, NEW b \in Monitored, CreateBuild(p, b) \/ AbortBuild(p, b)
      PROVE  IInv'
  BY <1>3, CreateBuildInv, AbortBuildInv
<1>4. ASSUME NEW x \in Workers, TxStep(x)
      PROVE  IInv'
  BY <1>4, AllocBuildStepInv, InsertBuildStepInv, CommitInv, CheckNotFinishedInv, UpdateBuildInv,
     UpdateAfterFailureInv DEF TxStep
<1>5. ASSUME NEW x \in Workers, Deadlock(x) \/ DatabaseFails(x)
      PROVE  IInv'
  BY <1>5, DeadlockInv, DatabaseFailsInv
<1>6. ASSUME NEW k \in DOMAIN row, UpdateBuildStep(k)
      PROVE  IInv'
  BY <1>6, UpdateBuildStepInv
<1>7. ASSUME NEW b \in Builds, CancelBuild(b)
      PROVE  IInv'
  BY <1>7, CancelBuildInv
<1>8. CASE UNCHANGED vars
  <2>1. UNCHANGED <<build, cached, finished, built, events, work>> /\ inst' = inst
    BY <1>8 DEF vars, procVars
  <2>2. row' = row /\ DOMAIN row' = DOMAIN row
    BY <1>8 DEF vars
  <2>3. row' \in [DOMAIN row' -> RowType]
    <3>1. row \in [DOMAIN row -> RowType]
      BY DEF IInv, Typed
    <3> QED BY <2>2, <3>1, Zenon
  <2>4. Typed' /\ NotYet'
    BY <1>8, <2>1, <2>2, <2>3 DEF IInv, Typed, NotYet, vars, procVars
  <2> QED BY <2>1, <2>2, <2>4, QuietInv
<1> QED BY <1>1, <1>2, <1>3, <1>4, <1>5, <1>6, <1>7, <1>8 DEF Next

(* The invariant holds. *)
THEOREM Inductive == Spec => []IInv
<1>1. Init => IInv
  BY InitInv
<1>2. IInv /\ [Next]_vars => IInv'
  BY StepInv
<1> QED BY <1>1, <1>2, PTL DEF Spec

(* Every variable keeps its type: step numbers are numbers, whatever rows  *)
(* alloc_build_step sees, and a step is retried less than max_retries      *)
(* times.                                                                  *)
THEOREM TypeCorrect == Spec => []TypeOK
<1>1. IInv => TypeOK
  <2> SUFFICES ASSUME IInv
               PROVE  TypeOK
    OBVIOUS
  <2>1. \A k \in Keys : IsKey(k)
    BY DEF Keys, IsKey
  <2>2. \A k \in DOMAIN row : IsKey(k) /\ row[k] \in RowType
    BY <2>1 DEF IInv, Typed
  <2>3. ASSUME NEW x \in Workers
        PROVE  /\ work[x].pc \in {"idle", "tx", "running", "finish", "over", "dead"}
               /\ work[x].status \in Statuses \cup {"Busy"}
               /\ work[x].tries \in Nat /\ (work[x].tries > 0 => work[x].tries < MaxRetries)
               /\ work[x].can_retry \in BOOLEAN
               /\ work[x].want \cup work[x].mark \cup work[x].checked \cup work[x].done
                     \subseteq Builds
               /\ \A k \in work[x].ins \cup work[x].left : IsKey(k)
               /\ work[x].upd \subseteq Builds
    <3>1. work[x] \in WorkType /\ WorkTrue(x)
      BY DEF IInv, Typed
    <3>2. \A k \in work[x].ins \cup work[x].left : IsKey(k)
      BY <2>1, <3>1 DEF WorkType
    <3>3. work[x].tries > 0 => work[x].tries < MaxRetries
      BY <3>1 DEF WorkTrue
    <3> QED BY <3>1, <3>2, <3>3 DEF WorkType, Pcs
  <2> QED BY <2>2, <2>3 DEF IInv, Typed, TypeOK, InstType
<1> QED BY <1>1, Inductive, PTL

(* A row is one job's, however many processes, jobs, failures and monitors *)
(* insert rows of a build at once (create_build_step).                     *)
THEOREM OneJobPerRow == Spec => []RowsUnique
<1>1. IInv => RowsUnique
  BY DEF IInv
<1> QED BY <1>1, Inductive, PTL

(* A build that was built, or that failed, shows the step it was           *)
(* (succeed_step, inner_fail_job), also when two processes run at once.    *)
THEOREM OutcomesExplained == Spec => []FinishedHasRow
<1>1. IInv => FinishedHasRow
  BY DEF IInv
<1> QED BY <1>1, Inductive, PTL
-----------------------------------------------------------------------------
(* Outcomes.                                                               *)

LEMMA StepKeepsOutcome ==
    ASSUME IInv, [Next]_vars, NEW b \in Builds, build[b] # "open"
    PROVE  build'[b] \in {build[b], "Success"}
<1>1. ASSUME NEW x \in Workers, Commit(x)
      PROVE  build'[b] \in {build[b], "Success"}
  BY <1>1, CommitBuilds
<1>2. ASSUME NEW p \in Procs, NEW c \in Monitored, AbortBuild(p, c)
      PROVE  build'[b] \in {build[b], "Success"}
  BY <1>2, RowsAssumption DEF AbortBuild, IInv, Typed
<1>3. ASSUME NEW c \in Builds, CancelBuild(c)
      PROVE  build'[b] \in {build[b], "Success"}
  BY <1>3 DEF CancelBuild, IInv, Typed
<1>4. CASE UNCHANGED build
  BY <1>4
<1>5. \/ UNCHANGED build
      \/ \E x \in Workers : Commit(x)
      \/ \E p \in Procs : \E c \in Monitored : AbortBuild(p, c)
      \/ \E c \in Builds : CancelBuild(c)
  <2>1. ASSUME NEW p \in Procs,
               \/ OpenLock(p) \/ Refused(p) \/ StartLoops(p) \/ Signal(p) \/ Unlock(p)
               \/ RemoveFile(p) \/ Crash(p)
        PROVE  UNCHANGED build
    BY <2>1 DEF OpenLock, Refused, StartLoops, Signal, Unlock, RemoveFile, Crash, Gone, Unlinked
  <2>2. ASSUME NEW p \in Procs, NEW s \in Steps,
               RealiseDrv(p, s) \/ EndJob(p, s) \/ FinishBuildStep(p, s) \/ FailRunning(p, s)
        PROVE  UNCHANGED build
    BY <2>2 DEF RealiseDrv, EndJob, FinishBuildStep, FailRunning, OnlyWork
  <2>3. ASSUME NEW p \in Procs, NEW c \in Monitored, CreateBuild(p, c)
        PROVE  UNCHANGED build
    BY <2>3 DEF CreateBuild, OnlyWork
  <2>4. ASSUME NEW x \in Workers, TxStep(x), ~Commit(x)
        PROVE  UNCHANGED build
    BY <2>4 DEF TxStep, AllocBuildStep, InsertBuildStep, CheckNotFinished, UpdateBuild,
       UpdateAfterFailure, OnlyWork
  <2>5. ASSUME NEW x \in Workers, Deadlock(x) \/ DatabaseFails(x)
        PROVE  UNCHANGED build
    BY <2>5 DEF Deadlock, DatabaseFails, OnlyWork
  <2>6. ASSUME NEW k \in DOMAIN row, UpdateBuildStep(k)
        PROVE  UNCHANGED build
    BY <2>6 DEF UpdateBuildStep
  <2>7. UNCHANGED vars => UNCHANGED build
    BY DEF vars
  <2> QED BY <2>1, <2>2, <2>3, <2>4, <2>5, <2>6, <2>7 DEF Next
<1> QED BY <1>1, <1>2, <1>3, <1>4, <1>5

(* A finished build keeps its outcome, save for a success that looked at   *)
(* it before: a failure is committed only while the build is open, though  *)
(* it was found open some statements earlier (update_build_after_failure). *)
THEOREM OutcomeStaysKept == Spec => OutcomeKept
<1>1. IInv /\ [Next]_vars =>
          [\A b \in Builds : build[b] # "open" => build'[b] \in {build[b], "Success"}]_vars
  <2> SUFFICES ASSUME IInv, [Next]_vars
               PROVE  \A b \in Builds : build[b] # "open" => build'[b] \in {build[b], "Success"}
    OBVIOUS
  <2> QED BY StepKeepsOutcome
<1> QED BY <1>1, Inductive, PTL DEF Spec, OutcomeKept

-----------------------------------------------------------------------------
(* Busy rows.                                                              *)

(* Rows that are busy keep their owners. *)
LEMMA OwnersStay ==
    ASSUME BusyOwned,
           \A q \in Procs : inst'[q] = "running" => inst[q] = "running",
           \A k \in DOMAIN row' : row'[k].busy # 0 => k \in DOMAIN row /\ row[k].busy # 0,
           \A y \in Workers : inst'[y[1]] = "running" =>
               /\ work[y].left \subseteq work'[y].left
               /\ HasRow(y) => \/ HasRow(y)' /\ KeyOf(y)' = KeyOf(y)
                               \/ KeyOf(y) \in work'[y].left
                               \/ KeyOf(y) \in DOMAIN row' => row'[KeyOf(y)].busy = 0
    PROVE  BusyOwned'
<1> SUFFICES ASSUME NEW q \in Procs, inst'[q] = "running", NEW k \in DOMAIN row', row'[k].busy # 0
             PROVE  \E x \in Workers :
                        /\ x[1] = q
                        /\ \/ HasRow(x)' /\ k = KeyOf(x)'
                           \/ k \in work'[x].left
  BY DEF BusyOwned
<1>1. PICK x \in Workers : /\ x[1] = q
                           /\ \/ HasRow(x) /\ k = KeyOf(x)
                              \/ k \in work[x].left
  BY DEF BusyOwned
<1>2. CASE k \in work[x].left
  BY <1>1, <1>2
<1>3. CASE HasRow(x) /\ k = KeyOf(x)
  <2>1. \/ HasRow(x)' /\ KeyOf(x)' = k
        \/ k \in work'[x].left
    BY <1>1, <1>3
  <2> QED BY <1>1, <2>1
<1> QED BY <1>1, <1>2, <1>3

(* A step of a worker that has no row, or that keeps it. *)
LEMMA WorkerOwns ==
    ASSUME IInv, BusyOwned, NEW x \in Workers, NEW w \in WorkType, Set(x, w),
           UNCHANGED <<procVars, row>>,
           work[x].left \subseteq w.left,
           HasRow(x) => \/ w.pc \in {"running", "finish"} /\ w.nr = work[x].nr
                        \/ KeyOf(x) \in w.left
    PROVE  BusyOwned'
<1>1. work'[x] = w /\ \A y \in Workers : y # x => work'[y] = work[y]
  BY SetOnly DEF IInv
<1>2. \A y \in Workers :
          /\ work[y].left \subseteq work'[y].left
          /\ HasRow(y) => (HasRow(y)' /\ KeyOf(y)' = KeyOf(y)) \/ KeyOf(y) \in work'[y].left
  <2> SUFFICES ASSUME NEW y \in Workers
               PROVE  /\ work[y].left \subseteq work'[y].left
                      /\ HasRow(y) => \/ HasRow(y)' /\ KeyOf(y)' = KeyOf(y)
                                      \/ KeyOf(y) \in work'[y].left
    OBVIOUS
  <2>1. CASE y = x
    BY <1>1, <2>1 DEF HasRow, KeyOf
  <2>2. CASE y # x
    BY <1>1, <2>2 DEF HasRow, KeyOf
  <2> QED BY <2>1, <2>2
<1>3. inst' = inst /\ row' = row
  BY DEF procVars
<1> QED BY <1>2, <1>3, OwnersStay

LEMMA TxOwns ==
    ASSUME IInv, BusyOwned, NEW x \in Workers,
           \/ AllocBuildStep(x) \/ InsertBuildStep(x)
           \/ \E b \in Builds : CheckNotFinished(x, b) \/ UpdateBuild(x, b) \/ UpdateAfterFailure(x, b)
    PROVE  BusyOwned'
<1>1. InTx(x) /\ UNCHANGED <<procVars, row>>
  BY DEF AllocBuildStep, InsertBuildStep, CheckNotFinished, UpdateBuild, UpdateAfterFailure, OnlyWork
<1>2. work \in [Workers -> WorkType] /\ work[x] \in WorkType
  BY DEF IInv, Typed
<1>3. \A y \in Workers : y # x => work'[y] = work[y]
  BY <1>2 DEF AllocBuildStep, InsertBuildStep, CheckNotFinished, UpdateBuild, UpdateAfterFailure,
     Passed, Marked, Set
<1>4. work'[x].left = work[x].left
  <2>1. CASE AllocBuildStep(x)
    BY <1>2, <2>1 DEF AllocBuildStep, Set, WorkType
  <2>2. CASE InsertBuildStep(x)
    BY <1>2, <2>2 DEF InsertBuildStep, Set, WorkType
  <2>3. ASSUME NEW b \in Builds, Passed(x, b) \/ Marked(x, b)
        PROVE  work'[x].left = work[x].left
    BY <1>2, <2>3 DEF Passed, Marked, Set, WorkType
  <2>4. ASSUME NEW b \in Builds, Set(x, [work[x] EXCEPT !.checked = {b}])
        PROVE  work'[x].left = work[x].left
    BY <1>2, <2>4 DEF Set, WorkType
  <2>5. \/ AllocBuildStep(x) \/ InsertBuildStep(x)
        \/ \E b \in Builds : \/ Passed(x, b) \/ Marked(x, b)
                            \/ Set(x, [work[x] EXCEPT !.checked = {b}])
    BY DEF CheckNotFinished, UpdateBuild, UpdateAfterFailure
  <2> QED BY <2>1, <2>2, <2>3, <2>4, <2>5
<1>6. ~HasRow(x)
  BY <1>1 DEF InTx, HasRow
<1>7. \A y \in Workers :
          /\ work[y].left \subseteq work'[y].left
          /\ HasRow(y) => (HasRow(y)' /\ KeyOf(y)' = KeyOf(y)) \/ KeyOf(y) \in work'[y].left
  BY <1>3, <1>4, <1>6 DEF HasRow, KeyOf
<1>8. inst' = inst /\ row' = row
  BY <1>1 DEF procVars
<1> QED BY <1>7, <1>8, OwnersStay
LEMMA FailureOwns ==
    ASSUME IInv, BusyOwned, NEW x \in Workers, Deadlock(x) \/ DatabaseFails(x)
    PROVE  BusyOwned'
<1>1. /\ work[x].pc \in {"tx", "finish"} /\ Set(x, Failed(x)) /\ UNCHANGED <<procVars, row>>
  BY DEF Deadlock, DatabaseFails, InTx, OnlyWork
<1> QED BY <1>1, FailedTyped, WorkerOwns

LEMMA JobOwns ==
    ASSUME IInv, BusyOwned, NEW p \in Procs, NEW s \in Steps,
           RealiseDrv(p, s) \/ EndJob(p, s) \/ FailRunning(p, s)
    PROVE  BusyOwned'
<1> DEFINE x == <<p, s>>
<1>1. x \in Workers
  BY WorkersPair DEF Tasks
<1>2. work \in [Workers -> WorkType] /\ work[x] \in WorkType
  BY <1>1 DEF IInv, Typed
<1>3. UNCHANGED <<procVars, row>> /\ work[x].pc \in {"idle", "running"}
  BY DEF RealiseDrv, EndJob, FailRunning, OnlyWork
<1>4. BuildOf[s] \in Builds /\ {BuildOf[s]} \in SUBSET Builds /\ {} \in SUBSET Builds
  BY RowsAssumption
<1>5. {"Success", "Failed"} \cup AtOnce \subseteq Statuses /\ "Busy" \in Statuses \cup {"Busy"}
  BY DEF AtOnce, Statuses, Failures
<1>6. PICK w : /\ Set(x, w)
               /\ \/ w = Begin(work[x], "Busy", {BuildOf[s]}, {}) /\ work[x].pc = "idle"
                  \/ \E status \in {"Success", "Failed"} \cup AtOnce :
                        \/ w = [work[x] EXCEPT !.pc = "finish", !.status = status]
                        \/ w = [work[x] EXCEPT !.pc = "finish", !.status = status, !.can_retry = TRUE]
  BY DEF RealiseDrv, EndJob, FailRunning
<1> HIDE DEF x
<1>7. CASE w = Begin(work[x], "Busy", {BuildOf[s]}, {}) /\ work[x].pc = "idle"
  <2>1. w \in WorkType /\ w.left = work[x].left
    BY <1>2, <1>4, <1>5, <1>7 DEF Begin, WorkType, Pcs, NoKey
  <2>2. ~HasRow(x)
    BY <1>7 DEF HasRow
  <2> QED BY <1>1, <1>3, <1>6, <2>1, <2>2, WorkerOwns
<1>8. ASSUME NEW status \in {"Success", "Failed"} \cup AtOnce,
             \/ w = [work[x] EXCEPT !.pc = "finish", !.status = status]
             \/ w = [work[x] EXCEPT !.pc = "finish", !.status = status, !.can_retry = TRUE]
      PROVE  BusyOwned'
  <2>1. w \in WorkType /\ w.pc = "finish" /\ w.nr = work[x].nr /\ w.left = work[x].left
    <3>1. status \in Statuses
      BY <1>5
    <3>2. CASE w = [work[x] EXCEPT !.pc = "finish", !.status = status]
      BY <1>2, <3>1, <3>2, FinishTyped
    <3>3. CASE w = [work[x] EXCEPT !.pc = "finish", !.status = status, !.can_retry = TRUE]
      BY <1>2, <3>1, <3>3, FinishTyped
    <3> QED BY <1>8, <3>2, <3>3
  <2> QED BY <1>1, <1>3, <1>6, <2>1, WorkerOwns
<1> QED BY <1>6, <1>7, <1>8

LEMMA CreateBuildOwns ==
    ASSUME IInv, BusyOwned, NEW p \in Procs, NEW b \in Monitored, CreateBuild(p, b)
    PROVE  BusyOwned'
<1> DEFINE x == <<p, b>>
<1>1. x \in Workers
  BY WorkersPair DEF Tasks
<1>2. b \in Builds /\ {b} \in SUBSET Builds /\ {} \in SUBSET Builds
  BY RowsAssumption
<1>3. PICK status \in {"Success", "CachedFailure"}, want \in SUBSET Builds, mark \in SUBSET Builds :
          Set(x, Begin(work[x], status, want, mark))
  BY <1>2 DEF CreateBuild, SubstitutionStep
<1>4. UNCHANGED <<procVars, row>> /\ work[x].pc = "idle"
  BY DEF CreateBuild, OnlyWork
<1> DEFINE w == Begin(work[x], status, want, mark)
<1>5. work[x] \in WorkType /\ status \in Statuses \cup {"Busy"}
  BY <1>1 DEF IInv, Typed, Statuses, Failures
<1> HIDE DEF x
<1>6. w \in WorkType /\ w.left = work[x].left
  BY <1>5 DEF Begin, WorkType, Pcs, NoKey
<1>7. ~HasRow(x)
  BY <1>4 DEF HasRow
<1> HIDE DEF w
<1>8. Set(x, w)
  BY <1>3 DEF w
<1> QED BY <1>1, <1>4, <1>6, <1>7, <1>8, WorkerOwns

LEMMA FinishOwns ==
    ASSUME IInv, BusyOwned, NEW p \in Procs, NEW s \in Steps, FinishBuildStep(p, s)
    PROVE  BusyOwned'
<1> DEFINE x == <<p, s>>
<1>1. x \in Workers /\ x[2] = s
  BY WorkersPair DEF Tasks
<1>2. work[x].pc = "finish" /\ inst' = inst
  BY DEF FinishBuildStep, procVars
<1>3. row' = IF work[x].nr # 0 /\ KeyOf(x) \in DOMAIN row
             THEN [row EXCEPT ![KeyOf(x)] = FinishedRow(work[x].status)] ELSE row
  BY <1>1 DEF FinishBuildStep, KeyOf
<1>4. work \in [Workers -> WorkType] /\ work[x] \in WorkType
  BY <1>1 DEF IInv, Typed
<1>5. \A y \in Workers : y # x => work'[y] = work[y]
  BY <1>4 DEF FinishBuildStep, Set
<1>6. work'[x].left = work[x].left
  <2>1. Again(x).left = work[x].left /\ Again(x) \in WorkType
    BY <1>1, AgainTyped DEF IInv
  <2>2. ASSUME NEW n, Set(x, [Again(x) EXCEPT !.tries = n])
        PROVE  work'[x].left = work[x].left
    BY <1>1, <1>4, <2>1, <2>2 DEF Set, WorkType
  <2>3. ASSUME NEW status, NEW want, NEW mark, Set(x, Begin(work[x], status, want, mark))
        PROVE  work'[x].left = work[x].left
    BY <1>1, <1>4, <2>3 DEF Set, Begin, WorkType
  <2> QED BY <2>2, <2>3 DEF FinishBuildStep
<1> HIDE DEF x
<1>7. /\ DOMAIN row' = DOMAIN row
      /\ work[x].nr # 0 => row'[KeyOf(x)] = FinishedRow(work[x].status)
      /\ \A k \in DOMAIN row : (work[x].nr = 0 \/ k # KeyOf(x)) => row'[k] = row[k]
  BY <1>1, <1>2, <1>3, FinishedRows
<1>8. work[x].nr # 0 => row'[KeyOf(x)].busy = 0
  BY <1>7 DEF FinishedRow
<1>9. \A k \in DOMAIN row' : row'[k].busy # 0 => k \in DOMAIN row /\ row[k].busy # 0
  BY <1>7, <1>8
<1>10. \A y \in Workers :
          /\ work[y].left \subseteq work'[y].left
          /\ HasRow(y) => \/ HasRow(y)' /\ KeyOf(y)' = KeyOf(y)
                          \/ row'[KeyOf(y)].busy = 0
  <2>1. HasRow(x) => row'[KeyOf(x)].busy = 0
    BY <1>8 DEF HasRow
  <2>2. \A y \in Workers : y # x => (HasRow(y) => HasRow(y)' /\ KeyOf(y)' = KeyOf(y))
    BY <1>5 DEF HasRow, KeyOf
  <2> QED BY <1>5, <1>6, <2>1, <2>2
<1> QED BY <1>2, <1>9, <1>10, OwnersStay

LEMMA CommitOwns ==
    ASSUME IInv, BusyOwned, OneInstance, NEW x \in Workers, Commit(x)
    PROVE  BusyOwned'
<1>1. work[x].pc = "tx" /\ inst' = inst
  BY DEF Commit, InTx, procVars
<1>2. DOMAIN row' = DOMAIN row \cup work[x].ins /\ \A k \in DOMAIN row : row'[k] = row[k]
  BY CommitRows
<1>3. \A k \in work[x].ins : row'[k] = NewRow(work[x].status)
  BY CommitRows
<1>4. /\ \A y \in Workers : y # x => work'[y] = work[y]
      /\ work[x].left \subseteq work'[x].left
  BY CommitWorker
<1>5. ~HasRow(x)
  BY <1>1 DEF HasRow
<1> SUFFICES ASSUME NEW q \in Procs, inst[q] = "running", NEW k \in DOMAIN row', row'[k].busy # 0
             PROVE  \E y \in Workers :
                        /\ y[1] = q
                        /\ \/ HasRow(y)' /\ k = KeyOf(y)'
                           \/ k \in work'[y].left
  BY <1>1 DEF BusyOwned
<1>6. CASE k \in DOMAIN row
  <2>1. PICK y \in Workers : /\ y[1] = q
                             /\ \/ HasRow(y) /\ k = KeyOf(y)
                                \/ k \in work[y].left
    BY <1>2, <1>6 DEF BusyOwned
  <2>2. CASE y = x
    BY <1>4, <1>5, <2>1, <2>2
  <2>3. CASE y # x
    BY <1>4, <2>1, <2>3 DEF HasRow, KeyOf
  <2> QED BY <2>2, <2>3
<1>7. CASE k \in work[x].ins
  <2>1. work[x].status = "Busy"
    BY <1>3, <1>7 DEF NewRow
  <2>2. inst[x[1]] = "running" /\ x[1] \in Procs
    BY <1>1, <2>1, JobTxRuns
  <2>3. x[1] = q
    BY <2>2 DEF OneInstance, HoldsLock
  <2>4. \/ work'[x].pc = "running" /\ work[x].ins = {<<BuildOf[x[2]], work'[x].nr>>}
        \/ work[x].ins \subseteq work'[x].left
    BY <2>1, CommitWorker
  <2>5. CASE work'[x].pc = "running" /\ work[x].ins = {<<BuildOf[x[2]], work'[x].nr>>}
    <3>1. x[2] \in Steps /\ work'[x].nr # 0
      BY <2>5, CommitWorker
    <3>2. HasRow(x)' /\ k = KeyOf(x)'
      BY <1>7, <2>5, <3>1 DEF HasRow, KeyOf
    <3> QED BY <2>3, <3>2
  <2>6. CASE work[x].ins \subseteq work'[x].left
    BY <1>7, <2>3, <2>6
  <2> QED BY <2>4, <2>5, <2>6
<1> QED BY <1>2, <1>6, <1>7
LEMMA ProcessOwns ==
    ASSUME IInv, BusyOwned, OneInstance, NEW p \in Procs,
           \/ OpenLock(p) \/ Refused(p) \/ StartLoops(p) \/ Signal(p) \/ Unlock(p)
           \/ RemoveFile(p) \/ Crash(p)
    PROVE  BusyOwned'
<1>1. inst \in [Procs -> InstType] /\ work \in [Workers -> WorkType]
  BY DEF IInv, Typed
<1>2. \A x \in Workers : x[1] \in Procs
  BY DEF Workers
<1>3. CASE OpenLock(p) \/ Refused(p)
  <2>1. row' = row /\ work' = work
    BY <1>3 DEF OpenLock, Refused, Unlinked
  <2>2. \A q \in Procs : inst'[q] = "running" => inst[q] = "running"
    BY <1>1, <1>3 DEF OpenLock, Refused
  <2>3. \A y \in Workers :
            /\ work[y].left \subseteq work'[y].left
            /\ HasRow(y) => HasRow(y)' /\ KeyOf(y)' = KeyOf(y)
    BY <2>1 DEF HasRow, KeyOf
  <2> QED BY <2>1, <2>2, <2>3, OwnersStay
<1>4. CASE StartLoops(p)
  <2>1. \A k \in DOMAIN row' : row'[k].busy = 0
    BY <1>4, ClearBusyRows DEF StartLoops, IInv
  <2> QED BY <2>1 DEF BusyOwned
<1>5. CASE Signal(p) \/ Unlock(p)
  <2>1. \A q \in Procs : inst'[q] = "running" => q # p /\ inst[q] = "running"
    BY <1>1, <1>5 DEF Signal, Unlock
  <2>2. inst[p] \in {"running", "stopping"}
    BY <1>5 DEF Signal, Unlock
  <2>3. \A q \in Procs : inst'[q] # "running"
    BY <2>1, <2>2 DEF OneInstance, HoldsLock
  <2> QED BY <2>3 DEF BusyOwned
<1>6. CASE RemoveFile(p) \/ Crash(p)
  <2>1. Gone(p)
    BY <1>6 DEF RemoveFile, Crash
  <2>2. row' = row
    BY <2>1 DEF Gone
  <2>3. \A q \in Procs : inst'[q] = "running" => q # p /\ inst[q] = "running"
    BY <1>1, <2>1 DEF Gone
  <2>4. \A y \in Workers : y[1] # p => work'[y] = work[y]
    BY <2>1 DEF Gone
  <2>5. \A y \in Workers : inst'[y[1]] = "running" =>
            /\ work[y].left \subseteq work'[y].left
            /\ HasRow(y) => HasRow(y)' /\ KeyOf(y)' = KeyOf(y)
    BY <1>2, <2>3, <2>4 DEF HasRow, KeyOf
  <2> QED BY <2>2, <2>3, <2>5, OwnersStay
<1> QED BY <1>3, <1>4, <1>5, <1>6

(* A step that touches no worker and makes no row busy. *)
LEMMA OthersOwn ==
    ASSUME IInv, BusyOwned,
           \/ \E k \in DOMAIN row : UpdateBuildStep(k)
           \/ \E p \in Procs : \E b \in Monitored : AbortBuild(p, b)
           \/ \E b \in Builds : CancelBuild(b)
           \/ UNCHANGED vars
    PROVE  BusyOwned'
<1>1. work' = work /\ inst' = inst
  BY DEF UpdateBuildStep, AbortBuild, CancelBuild, vars, procVars
<1>2. row' = row \/ \E k \in DOMAIN row : row' = Leveled(k)
  BY DEF UpdateBuildStep, AbortBuild, CancelBuild, vars
<1>3. \A k \in DOMAIN row' : row'[k].busy # 0 => k \in DOMAIN row /\ row[k].busy # 0
  <2>1. CASE row' = row
    BY <2>1
  <2>2. ASSUME NEW k \in DOMAIN row, row' = Leveled(k)
        PROVE  \A j \in DOMAIN row' : row'[j].busy # 0 => j \in DOMAIN row /\ row[j].busy # 0
    <3>1. row \in [DOMAIN row -> RowType]
      BY DEF IInv, Typed
    <3>2. CASE row[k].busy # 0 /\ row[k].status = "NULL"
      BY <2>2, <3>1, <3>2 DEF Leveled
    <3>3. CASE ~(row[k].busy # 0 /\ row[k].status = "NULL")
      BY <2>2, <3>3 DEF Leveled
    <3> QED BY <3>2, <3>3
  <2> QED BY <1>2, <2>1, <2>2
<1>4. \A y \in Workers :
          /\ work[y].left \subseteq work'[y].left
          /\ HasRow(y) => HasRow(y)' /\ KeyOf(y)' = KeyOf(y)
  BY <1>1 DEF HasRow, KeyOf
<1> QED BY <1>1, <1>3, <1>4, OwnersStay

LEMMA StepOwns == IInv /\ BusyOwned /\ OneInstance /\ [Next]_vars => BusyOwned'
<1> SUFFICES ASSUME IInv, BusyOwned, OneInstance, [Next]_vars
             PROVE  BusyOwned'
  OBVIOUS
<1>1. ASSUME NEW p \in Procs,
             \/ OpenLock(p) \/ Refused(p) \/ StartLoops(p) \/ Signal(p) \/ Unlock(p)
             \/ RemoveFile(p) \/ Crash(p)
      PROVE  BusyOwned'
  BY <1>1, ProcessOwns
<1>2. ASSUME NEW p \in Procs, NEW s \in Steps,
             RealiseDrv(p, s) \/ EndJob(p, s) \/ FinishBuildStep(p, s) \/ FailRunning(p, s)
      PROVE  BusyOwned'
  BY <1>2, JobOwns, FinishOwns
<1>3. ASSUME NEW p \in Procs, NEW b \in Monitored, CreateBuild(p, b) \/ AbortBuild(p, b)
      PROVE  BusyOwned'
  BY <1>3, CreateBuildOwns, OthersOwn
<1>4. ASSUME NEW x \in Workers, TxStep(x)
      PROVE  BusyOwned'
  BY <1>4, TxOwns, CommitOwns DEF TxStep
<1>5. ASSUME NEW x \in Workers, Deadlock(x) \/ DatabaseFails(x)
      PROVE  BusyOwned'
  BY <1>5, FailureOwns
<1>6. ASSUME \/ \E k \in DOMAIN row : UpdateBuildStep(k)
             \/ \E b \in Builds : CancelBuild(b)
             \/ UNCHANGED vars
      PROVE  BusyOwned'
  BY <1>6, OthersOwn
<1> QED BY <1>1, <1>2, <1>3, <1>4, <1>5, <1>6 DEF Next

(* As long as the lock file lets one queue runner in at a time, a busy row *)
(* has somebody who is to end it (clear_busy, update_build_step); where it *)
(* does not, which OneInstance is about, the rows of one process are lost  *)
(* to the other when it dies.                                              *)
THEOREM BusyRowsOwned == Spec /\ []OneInstance => []BusyHasOwner
<1>1. Init => BusyOwned
  BY DEF Init, BusyOwned
<1>2. IInv /\ BusyOwned /\ OneInstance /\ [Next]_vars => BusyOwned'
  BY StepOwns
<1>3. BusyOwned => BusyHasOwner
  BY DEF BusyOwned, BusyHasOwner, KeyOf
<1>4. Spec /\ []OneInstance => []BusyOwned
  BY <1>1, <1>2, Inductive, PTL DEF Spec
<1> QED BY <1>3, <1>4, PTL
=============================================================================
